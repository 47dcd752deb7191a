------------------------ MODULE TaskLifecycleSafety ------------------------
(***************************************************************************)
(* The theorems about TaskLifecycle: what holds even if requests stop half *)
(* way, what holds as long as they run to their end, and that              *)
(* TaskLifecycle implements TaskPhases.                                    *)
(***************************************************************************)
EXTENDS TaskLifecycleSteps, FiniteSetTheorems

\* The shares are a finite set with TotalShares elements.
LEMMA ShareCounting == Counting
<1>1. IsFiniteSet(Share) /\ Cardinality(Share) = TotalShares
  BY FS_Interval, SharesAssumption DEF Share
<1>2. ASSUME NEW S \in SUBSET Share
      PROVE  /\ IsFiniteSet(S) /\ Cardinality(S) \in Nat /\ Cardinality(S) <= TotalShares
             /\ Cardinality(S) = TotalShares => S = Share
  BY <1>1, FS_Subset, FS_CardinalityType
<1>3. Cardinality({}) = 0
  BY FS_EmptySet
<1>4. ASSUME NEW S \in SUBSET Share, NEW T \in SUBSET Share, S \cap T = {}
      PROVE  Cardinality(S \cup T) = Cardinality(S) + Cardinality(T)
  <2>1. Cardinality(S \cup T) = Cardinality(S) + Cardinality(T) - Cardinality(S \cap T)
    BY <1>2, FS_Union
  <2>2. Cardinality(S \cap T) = 0
    BY <1>3, <1>4
  <2>3. Cardinality(S) \in Nat /\ Cardinality(T) \in Nat
    BY <1>2
  <2> QED
    BY <2>1, <2>2, <2>3
<1> QED
  BY <1>1, <1>2, <1>3, <1>4 DEF Counting

\* What holds even if requests stop half way holds throughout.
LEMMA FaultInductive == FaultySpec => []FaultInv
<1>1. FaultInv /\ [FaultyNext]_vars => FaultInv'
  BY FaultStep, ShareCounting
<1> QED
  BY <1>1, FaultInit, PTL DEF FaultySpec

\* Type correctness, also when requests stop half way.
THEOREM TypeCorrect == FaultySpec => []TypeOK
<1>1. FaultInv => TypeOK
  BY DEF FaultInv
<1> QED
  BY <1>1, FaultInductive, PTL

\* The attempt number update_task checks messages against is always the stored
\* one, whatever stops half way: restart_stale_tasks stores it first.
THEOREM AttemptSafety == FaultySpec => []AttemptsAgree
<1>1. FaultInv => AttemptsAgree
  BY DEF FaultInv, AttemptInv, AttemptsAgree
<1> QED
  BY <1>1, FaultInductive, PTL

\* A stored success of a group task always has its group.
THEOREM GroupSafety == FaultySpec => []ResultHasGroup
<1>1. FaultInv => ResultHasGroup
  BY DEF FaultInv, ResultInv
<1> QED
  BY <1>1, FaultInductive, PTL

-----------------------------------------------------------------------------
\* IndInv holds throughout.
THEOREM Inductive ==
  ASSUME ValidInput
  PROVE  Spec => []IndInv
<1>1. IndInv /\ [Next]_vars => IndInv'
  BY IndStep, ShareCounting
<1> QED
  BY <1>1, IndInit, PTL DEF Spec

\* Hydration gives a task that left the voting the phase it has.
LEMMA RestartPhase == IndInv => RestartKeepsPhase
<1> SUFFICES ASSUME IndInv, phase \notin {"Uncached", "Voting"}
             PROVE  Readable /\ HydratedPhase = phase
  BY DEF RestartKeepsPhase
<1>1. TypeOK /\ ResultHasGroup /\ PhaseInv
  BY DEF IndInv, FaultInv, CompleteInv, ResultInv
<1>2. HydratedPhase = phase
  <2>1. Accepted(dbDecisions) => ~Rejected(dbDecisions)
    BY <1>1, AcceptedNotRejected, ShareCounting DEF TypeOK
  <2> QED
    BY <1>1, <2>1, Hydration, ShareCounting DEF TypeOK, PhaseInv
<1>3. phase = "Running" => /\ Cardinality(Indices(dbActive)) > 1
                           /\ Cardinality(Indices(dbActive)) >= accept_threshold
                           /\ Supported
  BY <1>1, ThresholdType, SharesAssumption DEF PhaseInv, Proper
<1>4. phase = "Finished" /\ Kind = "Group" => dbGroups > 0
  BY <1>1 DEF PhaseInv, ResultHasGroup
<1> QED
  BY <1>2, <1>3, <1>4 DEF Readable

\* Hydration after a restart of the process gives a task that left the voting
\* the phase it had (hydrate_tasks).
THEOREM PhaseSafety ==
  ASSUME ValidInput
  PROVE  Spec => []RestartKeepsPhase
BY RestartPhase, Inductive, PTL

\* The communicator hydrate_communicator rebuilds is the running one: the same
\* active shares, as many as the threshold, all of devices that accepted.
THEOREM CommunicatorSafety ==
  ASSUME ValidInput
  PROVE  Spec => []RecoveredCommunicator
<1>1. IndInv => RecoveredCommunicator
  <2> SUFFICES ASSUME IndInv, phase = "Running"
               PROVE  /\ active = Indices(dbActive)
                      /\ Cardinality(active) = accept_threshold
                      /\ ActiveDevices \subseteq Accepting(dbDecisions)
    BY DEF RecoveredCommunicator
  <2>1. active = Indices(dbActive) /\ Proper(dbActive)
    BY DEF IndInv, CompleteInv, PhaseInv
  <2>2. \A i \in active : Owner[i] \in Devices /\ dbDecisions[Owner[i]] = "accept"
    BY <2>1, IndicesType, SharesAssumption DEF Proper
  <2> QED
    BY <2>1, <2>2 DEF Proper, ActiveDevices, Accepting
<1> QED
  BY <1>1, Inductive, PTL

\* Between requests the stored round is the round of the running protocol.
THEOREM RoundSafety ==
  ASSUME ValidInput
  PROVE  Spec => []RoundsAgree
<1>1. IndInv => RoundsAgree
  BY DEF IndInv, CompleteInv, RoundInv, RoundsAgree
<1> QED
  BY <1>1, Inductive, PTL

\* No group is left behind without a task that the timer will restart.
THEOREM OrphanSafety ==
  ASSUME ValidInput
  PROVE  Spec => []GroupsAccounted
<1>1. IndInv => GroupsAccounted
  BY DEF IndInv, CompleteInv, GroupInv, GroupsAccounted, Candidate
<1> QED
  BY <1>1, Inductive, PTL

\* The cached acknowledgements are the stored ones.
THEOREM AcknowledgementSafety ==
  ASSUME ValidInput
  PROVE  Spec => []AcknowledgementsAgree
<1>1. IndInv => AcknowledgementsAgree
  BY DEF IndInv, CompleteInv, AckInv, AcknowledgementsAgree
<1> QED
  BY <1>1, Inductive, PTL

-----------------------------------------------------------------------------
(***************************************************************************)
(* TaskLifecycle implements TaskPhases: seen through ShownPhase and the    *)
(* stored votes, every step of a handler, every restart of the process and *)
(* every hydration is a step of TaskPhases or changes nothing.             *)
(***************************************************************************)
\* The tests of decide mean the same in both specifications.
LEMMA SameTests ==
  ASSUME NEW dec
  PROVE  /\ Promise!Accepted(dec) <=> Accepted(dec)
         /\ Promise!Rejected(dec) <=> Rejected(dec)
<1>1. /\ Promise!accept_threshold = accept_threshold
      /\ Promise!reject_threshold = reject_threshold
  BY DEF accept_threshold, reject_threshold, Promise!accept_threshold, Promise!reject_threshold
<1>2. ASSUME NEW S
      PROVE  Promise!Cardinality(S) = Cardinality(S)
  BY DEF Cardinality, Promise!Cardinality
<1>3. /\ Promise!Accepts(dec) = Accepts(dec)
      /\ Promise!Rejects(dec) = Rejects(dec)
  BY <1>2 DEF Accepts, Rejects, Share, Promise!Accepts, Promise!Rejects, Promise!Share
<1> QED
  BY <1>1, <1>3 DEF Accepted, Rejected, Promise!Accepted, Promise!Rejected

\* What hydrate_tasks makes of the rows depends on nothing but the rows.
LEMMA SameRows ==
  ASSUME UNCHANGED db
  PROVE  (Readable' <=> Readable) /\ HydratedPhase' = HydratedPhase
<1>1. HydratedPhase' = HydratedPhase
  BY DEF db, HydratedPhase, group_task_from_model, threshold_task_from_model
<1> QED
  BY <1>1 DEF db, Readable

\* A restart of the process shows no other phase than before, except that an
\* accepted vote whose active shares were stored is shown as running.
LEMMA RestartShown ==
  ASSUME IndInv, ProcessRestart
  PROVE  \/ ShownPhase' = ShownPhase
         \/ /\ phase = "Voting" /\ Accepted(dbDecisions)
            /\ ShownPhase' = "Running"
<1>1. /\ phase' = "Uncached" /\ UNCHANGED db
      /\ Readable' <=> Readable
      /\ HydratedPhase' = HydratedPhase
  BY SameRows DEF ProcessRestart
<1>2. ShownPhase' = IF Readable THEN HydratedPhase ELSE "Voting"
  BY <1>1 DEF ShownPhase
<1>3. CASE phase = "Uncached"
  BY <1>2, <1>3 DEF ShownPhase
<1>4. CASE phase = "Voting"
  <2>1. dbResult = "none"
    BY <1>4 DEF IndInv, CompleteInv, PhaseInv
  <2>2. HydratedPhase = IF Accepted(dbDecisions) THEN "Running" ELSE "Voting"
    BY <2>1, Hydration, ShareCounting DEF IndInv, FaultInv
  <2> QED
    BY <1>2, <1>4, <2>2 DEF ShownPhase
<1>5. CASE phase \notin {"Uncached", "Voting"}
  BY <1>2, <1>5, RestartPhase DEF RestartKeepsPhase, ShownPhase
<1> QED
  BY <1>3, <1>4, <1>5

\* A new task, as its clients see it.
LEMMA PromiseInit == Init => Promise!Init
BY DEF Init, Promise!Init, ShownPhase, ShownAttempt, ShownRound, NoVotes

\* The attempt of a running task is the stored one.
StoredAttempt ==
  IF pc \in {"restart_round", "restart_failed"} THEN dbAttempts - 1 ELSE dbAttempts

\* The attempt a client is shown, before and after a step.
LEMMA ShownStored ==
  ASSUME AttemptInv, AttemptInv'
  PROVE  ShownAttempt = StoredAttempt /\ ShownAttempt' = StoredAttempt'
BY DEF AttemptInv, ShownAttempt, StoredAttempt

\* A handler that stores neither an attempt nor a round shows none, unless the
\* task starts to run.
LEMMA ShownCounters ==
  ASSUME IndInv, AttemptInv', UNCHANGED <<dbAttempts, dbRound>>,
         pc \notin {"restart_round", "restart_failed"},
         pc' \notin {"restart_round", "restart_failed"},
         \/ phase # "Running" /\ phase' # "Running"
         \/ pc # "idle" /\ pc' # "idle"
         \/ pc # "idle" /\ phase' # "Running"
         \/ UNCHANGED <<phase, pc, round>>
  PROVE  UNCHANGED <<ShownAttempt, ShownRound>>
<1>1. AttemptInv
  BY DEF IndInv, FaultInv
<1> QED BY <1>1, ShownStored DEF StoredAttempt, ShownRound

\* decide_task moves a task through its vote, and starts or declines it.
LEMMA PromiseVoting ==
  ASSUME IndInv, AttemptInv',
         \/ \E d \in Devices, vote \in {"accept", "reject"} : decide_task(d, vote)
         \/ DecisionRefused \/ DecisionStored \/ choose_active_shares
         \/ CertificatesStored \/ FirstRoundStored \/ InitFailureStored \/ DeclineStored
  PROVE  Promise!Next \/ UNCHANGED Promise!shown
<1> USE DEF db, mem, handler, Return, VoteWrites, StartWrites
<1>att. ShownAttempt = StoredAttempt /\ ShownAttempt' = StoredAttempt'
  BY ShownStored DEF IndInv, FaultInv
<1>inv. TypeOK /\ HandlerInv /\ VotesInv /\ PhaseInv
  BY DEF IndInv, FaultInv, CompleteInv
<1>1. phase = "Voting" /\ phase' # "Uncached" /\ ShownPhase = "Voting" /\ ShownPhase' = phase'
  <2>1. phase = "Voting" /\ phase' \in {"Voting", "Running", "Failed", "Declined"}
    BY <1>inv DEF HandlerInv, decide_task, DecisionRefused, DecisionStored, choose_active_shares,
       ActiveSharesStored, CertificatesStored, FirstRoundStored, InitFailureStored, DeclineStored
  <2> QED BY <2>1 DEF ShownPhase
<1>2. pc \in VoteWrites \cup {"idle"}
  BY <1>inv, <1>1 DEF HandlerInv, TypeOK, RunWrites, RequestWrites, TimerWrites
<1>3. ASSUME NEW d \in Devices, NEW vote, decide_task(d, vote)
      PROVE  UNCHANGED Promise!shown
  <2>1. UNCHANGED <<ShownAttempt, ShownRound>>
    BY <1>1, <1>2, <1>3, ShownCounters DEF decide_task
  <2> QED BY <1>1, <1>3, <2>1 DEF decide_task, Promise!shown
<1>4. ASSUME DecisionRefused
      PROVE  UNCHANGED Promise!shown
  <2>1. UNCHANGED <<ShownAttempt, ShownRound>>
    BY <1>1, <1>2, <1>4, ShownCounters DEF DecisionRefused
  <2> QED BY <1>1, <1>4, <2>1 DEF DecisionRefused, Promise!shown
<1>5. ASSUME DecisionStored
      PROVE  Promise!Next
  <2>1. /\ who \in Devices /\ decisions[who] \in {"accept", "reject"}
        /\ phase' = "Voting" /\ UNCHANGED <<dbAttempts, dbRound>>
        /\ dbDecisions' = [dbDecisions EXCEPT ![who] = decisions[who]]
        /\ pc' \in {"choose", "declined", "idle"}
    BY <1>1, <1>5, <1>inv DEF DecisionStored, set_task_decision, TypeOK, HandlerInv
  <2>2. UNCHANGED <<ShownAttempt, ShownRound>>
    BY <1>1, <1>2, <2>1, ShownCounters
  <2>3. Promise!Vote(who, decisions[who])
    BY <1>1, <2>1, <2>2 DEF Promise!Vote
  <2> QED BY <2>1, <2>3 DEF Promise!Next
<1>6. ASSUME choose_active_shares
      PROVE  UNCHANGED Promise!shown
  <2>1. /\ UNCHANGED <<phase, dbDecisions, dbAttempts, dbRound>>
        /\ pc' \in {"idle", "certificates", "initialized", "init_failed"}
    BY <1>6 DEF choose_active_shares, ActiveSharesStored, set_task_active_shares
  <2>2. UNCHANGED <<ShownAttempt, ShownRound>>
    BY <1>1, <1>2, <2>1, ShownCounters
  <2> QED BY <1>1, <2>1, <2>2 DEF Promise!shown
<1>7. ASSUME CertificatesStored \/ FirstRoundStored
      PROVE  Promise!Next
  <2>1. /\ phase' = "Running" /\ UNCHANGED <<dbDecisions, dbAttempts>> /\ pc' = "idle"
        /\ round' \in IF Kind = "Group" THEN {0} ELSE {0, 1}
        /\ Accepted(dbDecisions)
    BY <1>7, <1>inv DEF CertificatesStored, FirstRoundStored, HandlerInv, VotesInv,
       set_task_group_certificates_sent, set_task_round
  <2>2. ShownAttempt' = ShownAttempt /\ ShownRound' = round'
    BY <1>att, <1>2, <2>1 DEF StoredAttempt, ShownRound
  <2>3. Promise!Start
    BY <1>1, <2>1, <2>2, SameTests DEF Promise!Start
  <2> QED BY <2>3 DEF Promise!Next
<1>8. ASSUME InitFailureStored \/ DeclineStored
      PROVE  Promise!Next
  <2>1. /\ UNCHANGED <<dbDecisions, dbAttempts, dbRound>> /\ pc' = "idle"
        /\ \/ phase' = "Failed" /\ Accepted(dbDecisions)
           \/ phase' = "Declined" /\ Rejected(dbDecisions)
    BY <1>8, <1>inv DEF InitFailureStored, DeclineStored, VotesInv, set_task_result
  <2>2. UNCHANGED <<ShownAttempt, ShownRound>>
    BY <1>1, <1>2, <2>1, ShownCounters
  <2>3. Promise!Start \/ Promise!Decline
    BY <1>1, <2>1, <2>2, SameTests DEF Promise!Start, Promise!Decline
  <2> QED BY <2>3 DEF Promise!Next
<1> QED BY <1>3, <1>4, <1>5, <1>6, <1>7, <1>8

\* The messages of the devices: update_task shows the next round once it is
\* stored, or when it has to give up the result of the last one.
LEMMA PromiseUpdate ==
  ASSUME IndInv, AttemptInv', NEW d \in Devices, NEW attempt,
         \/ \E complete \in BOOLEAN : UpdateRefused(d, attempt, complete)
         \/ Listen(d, attempt) \/ NextRound(d, attempt)
         \/ \E outcome \in FinalOutcomes : Finalize(d, attempt, outcome)
  PROVE  Promise!Next \/ UNCHANGED Promise!shown
<1> USE DEF db, mem, handler, ProtocolAssumption
<1>att. ShownAttempt = StoredAttempt /\ ShownAttempt' = StoredAttempt'
  BY ShownStored DEF IndInv, FaultInv
<1>1. /\ phase = "Running" /\ phase' = "Running" /\ UNCHANGED db /\ pc = "idle"
      /\ ShownPhase = "Running" /\ ShownPhase' = "Running"
  <2>1. phase = "Running" /\ phase' = "Running" /\ UNCHANGED db /\ pc = "idle"
    BY DEF UpdateRefused, Listen, NextRound, Finalize, UpdateReceived
  <2> QED BY <2>1 DEF ShownPhase
<1>2. /\ round \in 0 .. LastRound + 1 /\ dbRound \in 0 .. LastRound + 1
      /\ round = dbRound \/ round = LastRound + 1
  BY <1>1 DEF IndInv, FaultInv, CompleteInv, TypeOK, RoundInv, RoundsAgree
<1>3. ASSUME pc' \notin {"restart_round", "restart_failed"},
             \/ UNCHANGED <<pc, round>>
             \/ round <= LastRound /\ pc' # "idle"
             \/ UNCHANGED round /\ round <= LastRound
      PROVE  UNCHANGED Promise!shown
  <2>1. UNCHANGED <<ShownAttempt, ShownRound>>
    BY <1>att, <1>1, <1>2, <1>3, ProtocolAssumption DEF StoredAttempt, ShownRound
  <2> QED BY <1>1, <2>1 DEF Promise!shown
<1>4. ASSUME NEW complete \in BOOLEAN, UpdateRefused(d, attempt, complete)
      PROVE  UNCHANGED Promise!shown
  BY <1>1, <1>3, <1>4 DEF UpdateRefused
<1>5. CASE Listen(d, attempt)
  BY <1>1, <1>3, <1>5 DEF Listen
<1>6. CASE NextRound(d, attempt)
  <2>1. /\ round < LastRound
        /\ pc' = "round" \/ (pc' \in {"failed", "idle"} /\ UNCHANGED round)
    BY <1>6 DEF NextRound
  <2>2. round <= LastRound
    BY <1>2, <2>1, ProtocolAssumption
  <2> QED BY <1>3, <2>1, <2>2
<1>7. ASSUME NEW outcome, Finalize(d, attempt, outcome)
      PROVE  Promise!Next \/ UNCHANGED Promise!shown
  <2>1. round = LastRound /\ round' = round + 1 /\ pc' \in {"final_round", "failed", "idle"}
    BY <1>1, <1>7 DEF Finalize
  <2>2. CASE pc' # "idle"
    BY <1>2, <1>3, <2>1, <2>2, ProtocolAssumption
  <2>3. CASE pc' = "idle"
    <3>1. ShownAttempt' = ShownAttempt /\ ShownRound = round /\ ShownRound' = round + 1
      BY <1>att, <1>1, <2>1, <2>3 DEF StoredAttempt, ShownRound
    <3>2. ShownRound <= LastRound
      BY <1>2, <2>1, <3>1, ProtocolAssumption
    <3>3. Promise!Advance
      BY <1>1, <3>1, <3>2 DEF Promise!Advance
    <3> QED BY <3>3 DEF Promise!Next
  <2> QED BY <2>2, <2>3
<1> QED BY <1>4, <1>5, <1>6, <1>7

\* The statements of update_task.
LEMMA PromiseStored ==
  ASSUME IndInv, AttemptInv',
         RoundStored \/ FailureStored \/ FinalRoundStored \/ GroupStored \/ ResultStored
  PROVE  Promise!Next \/ UNCHANGED Promise!shown
<1> USE DEF db, mem, handler, Return
<1>att. ShownAttempt = StoredAttempt /\ ShownAttempt' = StoredAttempt'
  BY ShownStored DEF IndInv, FaultInv
<1>1. /\ phase = "Running" /\ phase' # "Uncached"
      /\ pc \in {"round", "failed", "final_round", "group", "finished"}
      /\ ShownPhase = "Running" /\ ShownPhase' = phase'
      /\ UNCHANGED <<dbDecisions, dbAttempts>>
      /\ pc' \in {"idle", "group", "finished"}
  <2>1. HandlerInv
    BY DEF IndInv, FaultInv
  <2>2. /\ phase = "Running" /\ phase' \in {"Running", "Failed", "Finished"}
        /\ pc \in {"round", "failed", "final_round", "group", "finished"}
        /\ pc' \in {"idle", "group", "finished"}
    BY <2>1 DEF RoundStored, FailureStored, FinalRoundStored, GroupStored, ResultStored,
       HandlerInv, RunWrites
  <2>3. UNCHANGED <<dbDecisions, dbAttempts>>
    BY DEF RoundStored, FailureStored, FinalRoundStored, GroupStored, ResultStored,
       set_task_round, set_task_result, add_group
  <2> QED BY <2>2, <2>3 DEF ShownPhase
<1>2. ShownAttempt' = ShownAttempt /\ ShownRound = dbRound
  BY <1>att, <1>1 DEF StoredAttempt, ShownRound
<1>3. RoundInv /\ round \in 0 .. LastRound + 1 /\ dbRound \in 0 .. LastRound + 1
  BY DEF IndInv, FaultInv, CompleteInv, TypeOK
<1>4. CASE RoundStored \/ FinalRoundStored
  <2>1. dbRound' = round /\ UNCHANGED <<phase, round>>
    BY <1>4 DEF RoundStored, FinalRoundStored, set_task_round
  <2>2. ShownRound' = round
    BY <2>1 DEF ShownRound
  <2>3. round = dbRound + 1 /\ dbRound <= LastRound
    BY <1>1, <1>3, <1>4, ProtocolAssumption DEF RoundInv, RoundStored, FinalRoundStored
  <2>4. Promise!Advance
    BY <1>1, <1>2, <2>1, <2>2, <2>3 DEF Promise!Advance
  <2> QED BY <2>4 DEF Promise!Next
<1>5. CASE GroupStored
  <2>1. UNCHANGED <<dbRound, phase>> /\ pc' = "finished"
    BY <1>5 DEF GroupStored, add_group
  <2>2. ShownRound' = ShownRound
    BY <1>2, <2>1 DEF ShownRound
  <2> QED BY <1>1, <1>2, <2>1, <2>2 DEF Promise!shown
<1>6. CASE FailureStored \/ ResultStored
  <2>1. /\ UNCHANGED dbRound
        /\ phase' = "Failed" \/ (phase' = "Finished" /\ pc = "finished")
    BY <1>6 DEF FailureStored, ResultStored, set_task_result
  <2>2. ShownRound' = ShownRound
    BY <1>2, <2>1 DEF ShownRound
  <2>3. pc = "finished" => ShownRound = LastRound + 1
    BY <1>1, <1>2, <1>3 DEF RoundInv
  <2>4. Promise!End
    BY <1>1, <1>2, <2>1, <2>2, <2>3 DEF Promise!End
  <2> QED BY <2>4 DEF Promise!Next
<1> QED BY <1>4, <1>5, <1>6

\* restart_stale_tasks: the new attempt is shown with its first round, or with
\* the failure.
LEMMA PromiseTimer ==
  ASSUME IndInv, AttemptInv',
         restart_stale_tasks \/ AttemptStored \/ RestartStored \/ RestartFailureStored
  PROVE  Promise!Next \/ UNCHANGED Promise!shown
<1> USE DEF db, mem, handler, Return
<1>att. ShownAttempt = StoredAttempt /\ ShownAttempt' = StoredAttempt'
  BY ShownStored DEF IndInv, FaultInv
<1>inv. HandlerInv /\ RoundInv /\ dbAttempts \in Nat
  BY DEF IndInv, FaultInv, CompleteInv, TypeOK
<1>1. /\ phase = "Running" /\ phase' \in {"Running", "Failed"}
      /\ ShownPhase = "Running" /\ ShownPhase' = phase' /\ UNCHANGED dbDecisions
  <2>1. phase = "Running" /\ phase' \in {"Running", "Failed"}
    BY <1>inv DEF restart_stale_tasks, AttemptStored, RestartStored, RestartFailureStored,
       HandlerInv, RunWrites, TimerWrites
  <2>2. UNCHANGED dbDecisions
    BY DEF restart_stale_tasks, AttemptStored, RestartStored, RestartFailureStored,
       set_task_round, set_task_result, increment_task_attempt_count
  <2> QED BY <2>1, <2>2 DEF ShownPhase
<1>2. CASE restart_stale_tasks
  <2>1. pc = "idle" /\ pc' = "attempt" /\ UNCHANGED <<dbAttempts, dbRound, phase>>
    BY <1>2 DEF restart_stale_tasks
  <2>2. ShownAttempt' = ShownAttempt /\ ShownRound = round /\ ShownRound' = dbRound
    BY <1>att, <1>1, <2>1 DEF StoredAttempt, ShownRound
  <2>3. round = dbRound \/ (round = LastRound + 1 /\ dbRound = LastRound)
    BY <1>1, <1>inv, <2>1 DEF RoundInv, RoundsAgree
  <2>4. CASE round = dbRound
    BY <1>1, <2>1, <2>2, <2>4 DEF Promise!shown
  <2>5. CASE round = LastRound + 1 /\ dbRound = LastRound
    <3>1. Promise!Retract
      BY <1>1, <2>1, <2>2, <2>5 DEF Promise!Retract
    <3> QED BY <3>1 DEF Promise!Next
  <2> QED BY <2>3, <2>4, <2>5
<1>3. CASE AttemptStored
  <2>1. /\ pc = "attempt" /\ pc' \in {"restart_round", "restart_failed"}
        /\ dbAttempts' = dbAttempts + 1 /\ UNCHANGED <<dbRound, phase>>
    BY <1>3 DEF AttemptStored, increment_task_attempt_count
  <2>2. UNCHANGED <<ShownAttempt, ShownRound>>
    BY <1>att, <1>inv, <2>1 DEF StoredAttempt, ShownRound
  <2> QED BY <1>1, <2>1, <2>2 DEF Promise!shown
<1>4. CASE RestartStored \/ RestartFailureStored
  <2>1. /\ pc \in {"restart_round", "restart_failed"} /\ pc' = "idle" /\ UNCHANGED dbAttempts
        /\ \/ phase' = "Running" /\ round' = 1
           \/ phase' = "Failed" /\ UNCHANGED dbRound
    BY <1>1, <1>4, <1>inv DEF RestartStored, RestartFailureStored, set_task_round,
       set_task_result, RoundInv
  <2>2. ShownAttempt' = ShownAttempt + 1
    BY <1>att, <1>inv, <2>1 DEF StoredAttempt
  <2>3. ShownRound = dbRound
    BY <2>1 DEF ShownRound
  <2>4. \/ phase' = "Running" /\ ShownRound' = 1
        \/ phase' = "Failed" /\ ShownRound' = ShownRound
    BY <2>1, <2>3 DEF ShownRound
  <2>5. Promise!Restart
    BY <1>1, <2>2, <2>4 DEF Promise!Restart
  <2> QED BY <2>5 DEF Promise!Next
<1> QED BY <1>2, <1>3, <1>4

\* The process stops: what it had not stored is retracted, a new attempt that
\* was stored is shown in the round before, and an accepted vote whose active
\* shares were stored is shown as running.
LEMMA PromiseProcess ==
  ASSUME IndInv, AttemptInv', ProcessRestart
  PROVE  Promise!Next \/ UNCHANGED Promise!shown
<1> USE DEF db, mem, handler, Return
<1>att. ShownAttempt = StoredAttempt /\ ShownAttempt' = StoredAttempt'
  BY ShownStored DEF IndInv, FaultInv
<1>inv. HandlerInv /\ RoundInv /\ PhaseInv /\ dbAttempts \in Nat
  BY DEF IndInv, FaultInv, CompleteInv, TypeOK
<1>1. phase' = "Uncached" /\ pc' = "idle" /\ UNCHANGED <<dbDecisions, dbAttempts, dbRound>>
  BY DEF ProcessRestart
<1>2. ShownAttempt' = dbAttempts /\ ShownRound' = dbRound
  BY <1>att, <1>1 DEF StoredAttempt, ShownRound
<1>3. CASE pc \in {"restart_round", "restart_failed"}
  <2>1. phase = "Running" /\ ShownPhase = "Running"
    BY <1>3, <1>inv DEF HandlerInv, RunWrites, TimerWrites, ShownPhase
  <2>2. ShownPhase' = "Running"
    BY <2>1, RestartShown
  <2>3. ShownAttempt' = ShownAttempt + 1 /\ ShownRound' = ShownRound
    BY <1>att, <1>2, <1>3, <1>inv DEF StoredAttempt, ShownRound
  <2>4. Promise!Restart
    BY <1>1, <2>1, <2>2, <2>3 DEF Promise!Restart
  <2> QED BY <2>4 DEF Promise!Next
<1>4. CASE pc \notin {"restart_round", "restart_failed"}
  <2>1. ShownAttempt' = ShownAttempt
    BY <1>att, <1>2, <1>4 DEF StoredAttempt
  <2>2. CASE phase = "Voting" /\ Accepted(dbDecisions) /\ ShownPhase' = "Running"
    <3>1. ShownPhase = "Voting" /\ dbRound = 0
      BY <1>inv, <2>2 DEF ShownPhase, PhaseInv
    <3>2. Promise!Start
      BY <1>1, <1>2, <2>1, <2>2, <3>1, SameTests DEF Promise!Start
    <3> QED BY <3>2 DEF Promise!Next
  <2>3. CASE ShownPhase' = ShownPhase
    <3>1. CASE ShownRound = dbRound
      BY <1>1, <1>2, <2>1, <2>3, <3>1 DEF Promise!shown
    <3>2. CASE ShownRound # dbRound
      <4>1. phase = "Running" /\ pc = "idle" /\ ShownRound = round
        BY <3>2 DEF ShownRound
      <4>2. ShownRound = LastRound + 1 /\ dbRound = LastRound
        BY <1>inv, <3>2, <4>1 DEF RoundInv, RoundsAgree
      <4>3. ShownPhase = "Running"
        BY <4>1 DEF ShownPhase
      <4>4. Promise!Retract
        BY <1>1, <1>2, <2>1, <2>3, <4>2, <4>3 DEF Promise!Retract
      <4> QED BY <4>4 DEF Promise!Next
    <3> QED BY <3>1, <3>2
  <2> QED BY <2>2, <2>3, RestartShown
<1> QED BY <1>3, <1>4

\* Reading a task back, acknowledging it and waiting show nothing new.
LEMMA PromiseQuiet ==
  ASSUME IndInv, AttemptInv',
         \/ ensure_cached_tasks
         \/ \E d \in Devices : acknowledge_task(d)
         \/ AcknowledgementStored \/ ListStale \/ BecomeStale \/ UNCHANGED vars
  PROVE  UNCHANGED Promise!shown
<1> USE DEF db, mem, handler, Return
<1>att. ShownAttempt = StoredAttempt /\ ShownAttempt' = StoredAttempt'
  BY ShownStored DEF IndInv, FaultInv
<1>inv. TypeOK /\ HandlerInv
  BY DEF IndInv, FaultInv
<1>1. CASE ensure_cached_tasks
  <2>1. /\ phase = "Uncached" /\ Readable /\ phase' = HydratedPhase
        /\ UNCHANGED <<dbDecisions, dbAttempts, dbRound, pc>> /\ round' = dbRound
    BY <1>1 DEF ensure_cached_tasks
  <2>2. HydratedPhase # "Uncached"
    BY <1>inv, Hydration, ShareCounting DEF TypeOK
  <2>3. ShownPhase' = ShownPhase
    BY <2>1, <2>2 DEF ShownPhase
  <2>4. UNCHANGED <<ShownAttempt, ShownRound>>
    BY <1>att, <2>1 DEF StoredAttempt, ShownRound
  <2> QED BY <2>1, <2>3, <2>4 DEF Promise!shown
<1>2. ASSUME AcknowledgementStored \/ \E d \in Devices : acknowledge_task(d)
      PROVE  UNCHANGED Promise!shown
  <2>1. /\ phase = "Finished" /\ phase' = "Finished" /\ pc \in {"idle", "ack"}
        /\ pc' \in {"idle", "ack"} /\ UNCHANGED <<dbDecisions, dbAttempts, dbRound>>
    BY <1>2, <1>inv DEF acknowledge_task, AcknowledgementStored, set_task_acknowledgement,
       HandlerInv
  <2>2. UNCHANGED <<ShownAttempt, ShownRound>>
    BY <2>1, ShownCounters
  <2> QED BY <2>1, <2>2 DEF Promise!shown, ShownPhase
<1>3. ASSUME ListStale \/ BecomeStale \/ UNCHANGED vars
      PROVE  UNCHANGED Promise!shown
  <2>1. UNCHANGED <<db, phase, pc, round>>
    BY <1>3 DEF ListStale, BecomeStale, vars
  <2>2. ShownPhase' = ShownPhase
    BY <2>1, SameRows DEF ShownPhase
  <2>3. UNCHANGED <<ShownAttempt, ShownRound>>
    BY <1>att, <2>1 DEF StoredAttempt, ShownRound
  <2> QED BY <2>1, <2>2, <2>3 DEF Promise!shown
<1> QED BY <1>1, <1>2, <1>3

\* Every step of a handler is a step of TaskPhases or shows nothing new.
LEMMA PromiseStep == IndInv /\ [Next]_vars => [Promise!Next]_(Promise!shown)
<1> SUFFICES ASSUME IndInv, [Next]_vars
             PROVE  Promise!Next \/ UNCHANGED Promise!shown
  OBVIOUS
<1>1. AttemptInv'
  BY FaultStep, ShareCounting DEF IndInv, FaultInv, FaultyNext
<1> QED BY <1>1, PromiseVoting, PromiseUpdate, PromiseStored, PromiseTimer, PromiseProcess, PromiseQuiet
     DEF Next, TimerPanic, Crash

\* The server keeps its promise about every task, also when the process stops
\* between any two statements of a handler (decide_task, update_task,
\* acknowledge_task, restart_stale_tasks).
THEOREM Refinement ==
  ASSUME ValidInput
  PROVE  Spec => KeepsPromise
<1>1. Spec => []IndInv
  BY Inductive
<1> QED
  BY <1>1, PromiseInit, PromiseStep, PTL DEF Spec, KeepsPromise, Promise!Spec

=============================================================================
