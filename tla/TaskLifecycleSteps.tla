------------------------- MODULE TaskLifecycleSteps -------------------------
(***************************************************************************)
(* As long as requests run to their end, every step of a handler and every *)
(* restart of the process keeps IndInv, so that a restart gives back the   *)
(* phase, the active shares and the round of every task that left the      *)
(* voting.                                                                 *)
(***************************************************************************)
EXTENDS TaskLifecycleProofs

\* A task that was just created.
LEMMA IndInit == Init => IndInv
<1>1. Init => VotesInv /\ PhaseInv /\ StoredInv /\ RoundInv /\ GroupInv /\ AckInv
  BY ProtocolAssumption
  DEF Init, VotesInv, PhaseInv, StoredInv, RoundInv, GroupInv, AckInv, StartWrites
<1>2. Init => ActiveInv
  BY DEF Init, ActiveInv, StartWrites
<1> QED
  BY <1>1, <1>2, FaultInit DEF IndInv, CompleteInv

\* create_running_task never refuses a threshold task with valid input.
LEMMA ChoiceCreatable ==
  ASSUME ValidInput, Kind # "Group",
         NEW count, Cardinality(Indices(count)) = accept_threshold
  PROVE  Creatable(count)
<1>1. accept_threshold > 1 /\ accept_threshold >= accept_threshold
  BY KindAssumption, SharesAssumption DEF check_threshold, accept_threshold
<1> QED
  BY <1>1 DEF Creatable

\* A step that leaves the rows, the task and the handler alone.
LEMMA Idle ==
  ASSUME CompleteInv, UNCHANGED <<db, mem, handler>>
  PROVE  CompleteInv'
<1> USE DEF CompleteInv, db, mem, handler
<1>1. VotesInv' /\ RoundInv' /\ GroupInv' /\ AckInv'
  BY DEF VotesInv, RoundInv, RoundsAgree, GroupInv, AckInv
<1>2. ActiveInv'
  BY DEF ActiveInv, Proper
<1>3. PhaseInv' /\ StoredInv'
  BY DEF PhaseInv, StoredInv, Proper
<1> QED
  BY <1>1, <1>2, <1>3

\* A step of the voting that stores neither a result nor the start of the task.
LEMMA StillVoting ==
  ASSUME CompleteInv, phase = "Voting", phase' = "Voting",
         pc' \notin {"group", "ack", "restart_round", "restart_failed"},
         UNCHANGED <<dbCerts, dbRound, dbAttempts, dbResult, dbGroups, dbAcks>>
  PROVE  PhaseInv' /\ StoredInv' /\ RoundInv' /\ GroupInv' /\ AckInv'
<1>1. PhaseInv' /\ StoredInv' /\ AckInv'
  BY DEF CompleteInv, PhaseInv, StoredInv, AckInv
<1>2. RoundInv' /\ GroupInv'
  BY DEF CompleteInv, RoundInv, GroupInv
<1> QED
  BY <1>1, <1>2

\* A step of a running task that leaves it running.
LEMMA StillRunning ==
  ASSUME CompleteInv, phase = "Running", pc' \notin VoteWrites,
         UNCHANGED <<phase, active, dbDecisions, dbActive, dbResult, dbAcks>>
  PROVE  VotesInv' /\ ActiveInv' /\ PhaseInv' /\ StoredInv' /\ AckInv'
<1> USE DEF CompleteInv, VoteWrites, StartWrites
<1>1. VotesInv' /\ AckInv'
  BY DEF VotesInv, AckInv
<1>2. Proper(dbActive) /\ Proper(dbActive)' /\ Accepted(dbDecisions) /\ dbResult = "none"
  BY DEF PhaseInv, Proper
<1>3. ActiveInv'
  BY <1>2 DEF ActiveInv
<1>4. PhaseInv' /\ StoredInv'
  BY <1>2 DEF PhaseInv, StoredInv
<1> QED
  BY <1>1, <1>3, <1>4

\* The step that stores a result and ends the task.
LEMMA Ends ==
  ASSUME CompleteInv, pc' = "idle", dbResult = "none",
         UNCHANGED <<dbDecisions, dbActive, dbCerts, dbRound, dbAttempts, dbGroups, dbAcks>>,
         \/ phase' = "Finished" /\ dbResult' = "ok" /\ acks' = {}
         \/ phase' = "Declined" /\ dbResult' = "err" /\ Rejected(dbDecisions)
         \/ phase' = "Failed" /\ dbResult' = "err" /\ Accepted(dbDecisions)
  PROVE  CompleteInv'
<1> USE DEF CompleteInv, StartWrites
<1>1. VotesInv' /\ RoundInv' /\ GroupInv' /\ AckInv'
  BY DEF VotesInv, RoundInv, GroupInv, AckInv
<1>2. ActiveInv'
  BY DEF ActiveInv
<1>3. PhaseInv' /\ StoredInv'
  BY DEF PhaseInv, StoredInv, Proper
<1> QED
  BY <1>1, <1>2, <1>3

\* A step that leaves the rows of the task alone, its acknowledgements aside.
LEMMA RowsKept ==
  ASSUME CompleteInv, phase' \in {"Uncached", "Finished"}, pc' \in {"idle", "ack"},
         phase' = "Finished" => phase = "Finished",
         UNCHANGED <<dbDecisions, dbActive, dbCerts, dbRound, dbAttempts, dbResult, dbGroups>>
  PROVE  VotesInv' /\ ActiveInv' /\ PhaseInv' /\ StoredInv' /\ RoundInv' /\ GroupInv'
<1> USE DEF CompleteInv, StartWrites
<1>1. VotesInv' /\ RoundInv' /\ GroupInv'
  BY DEF VotesInv, RoundInv, GroupInv
<1>2. ActiveInv'
  BY DEF ActiveInv, Proper
<1>3. PhaseInv' /\ StoredInv'
  BY DEF PhaseInv, StoredInv, Proper
<1> QED
  BY <1>1, <1>2, <1>3

\* Hydration and the requests of a vote.
LEMMA VotingStep ==
  ASSUME Counting, ValidInput, IndInv,
         \/ ensure_cached_tasks
         \/ \E d \in Devices, vote \in {"accept", "reject"} : decide_task(d, vote)
         \/ DecisionRefused \/ DecisionStored \/ choose_active_shares
         \/ CertificatesStored \/ FirstRoundStored \/ InitFailureStored \/ DeclineStored
  PROVE  CompleteInv'
<1> USE DEF db, mem, handler, Return, VoteWrites, StartWrites, RunWrites, TimerWrites
<1>typ. TypeOK
  BY DEF IndInv, FaultInv
<1>han. HandlerInv
  BY DEF IndInv, FaultInv
<1>com. CompleteInv
  BY DEF IndInv
<1>inv. VotesInv /\ ActiveInv /\ PhaseInv /\ StoredInv /\ RoundInv /\ GroupInv /\ AckInv
  BY DEF IndInv, CompleteInv
<1>1. ASSUME ensure_cached_tasks
      PROVE  CompleteInv'
  <2> USE DEF ensure_cached_tasks
  <2>1. pc = "idle" /\ pc' = "idle" /\ UNCHANGED db
    BY <1>1, <1>han DEF HandlerInv
  <2>2. /\ phase' = "Voting" => dbResult = "none" /\ ~Accepted(dbDecisions)
        /\ phase' = "Running" => dbResult = "none" /\ Accepted(dbDecisions)
        /\ phase' = "Finished" => dbResult = "ok"
        /\ phase' = "Declined" => dbResult = "err" /\ Rejected(dbDecisions)
        /\ phase' = "Failed" => dbResult = "err" /\ ~Rejected(dbDecisions)
    BY <1>1, <1>typ, Hydration DEF TypeOK
  <2>3. VotesInv'
    BY <1>1, <2>1 DEF VotesInv
  <2>4. ActiveInv'
    <3> HIDE DEF ensure_cached_tasks
    <3>1. UNCHANGED <<dbActive, dbResult, dbDecisions, pc>>
      BY <2>1
    <3> QED
      BY <1>inv, <2>1, <2>2, <3>1 DEF ActiveInv, Proper
  <2>5. PhaseInv'
    <3>1. phase' = "Voting" => ~dbCerts /\ dbRound = 0
      BY <1>typ, <1>inv, <2>2 DEF TypeOK, StoredInv
    <3>2. phase' = "Running" => Proper(dbActive) /\ Cardinality(Indices(dbActive)) > 1 /\ Supported
      BY <1>1, <1>typ, <1>inv, <2>2, ReadableRunning
    <3>3. phase' = "Running" => active' = Indices(dbActive)
      BY <1>1
    <3> HIDE DEF ensure_cached_tasks
    <3>4. phase' = "Failed" => Accepted(dbDecisions)
      BY <1>inv, <2>2 DEF StoredInv
    <3>5. UNCHANGED <<dbActive, dbResult, dbDecisions, dbCerts, dbRound>>
      BY <2>1
    <3> QED
      BY <2>2, <3>1, <3>2, <3>3, <3>4, <3>5 DEF PhaseInv, Proper
  <2>6. StoredInv' /\ RoundInv' /\ GroupInv' /\ AckInv'
    BY <1>1, <1>inv, <2>1, <2>2 DEF StoredInv, RoundInv, RoundsAgree, GroupInv, AckInv, Proper
  <2> QED
    BY <2>3, <2>4, <2>5, <2>6 DEF CompleteInv
<1>2. ASSUME NEW d \in Devices, NEW vote \in {"accept", "reject"}, decide_task(d, vote)
      PROVE  CompleteInv'
  <2> USE DEF decide_task
  <2>1. VotesInv'
    BY <1>2, <1>typ, <1>inv DEF TypeOK, VotesInv
  <2>2. ActiveInv'
    BY <1>2, <1>inv DEF ActiveInv, Proper
  <2>3. PhaseInv' /\ StoredInv' /\ RoundInv' /\ GroupInv' /\ AckInv'
    BY <1>2, <1>com, StillVoting
  <2> QED
    BY <2>1, <2>2, <2>3 DEF CompleteInv
<1>3. ASSUME DecisionRefused
      PROVE  CompleteInv'
  BY <1>com, <1>3, Idle DEF DecisionRefused
<1>4. ASSUME DecisionStored
      PROVE  CompleteInv'
  <2> USE DEF DecisionStored, set_task_decision
  <2>1. /\ phase = "Voting" /\ dbDecisions' = decisions
        /\ UNCHANGED <<phase, decisions, dbActive, dbCerts, dbRound, dbAttempts, dbResult>>
        /\ UNCHANGED <<dbGroups, dbAcks>>
    BY <1>4, <1>typ, <1>han, <1>inv DEF TypeOK, HandlerInv, VotesInv
  <2>2. VotesInv'
    BY ZenonT(30), <1>4, <2>1 DEF VotesInv
  <2>3. ActiveInv'
    <3>1. Kind # "Group" => dbActive = NoShares
      BY <1>4, <1>inv, <2>1 DEF ActiveInv
    <3>2. ASSUME Kind = "Group", Accepted(decisions), Indices(dbActive) = Share
          PROVE  Proper(dbActive)'
      BY <1>typ, <2>1, <3>2, GroupUnanimous DEF TypeOK, Proper, accept_threshold, Counting
    <3>3. pc' \notin StartWrites
      BY <1>4
    <3> QED
      BY <1>inv, <2>1, <3>1, <3>2, <3>3 DEF ActiveInv
  <2>4. PhaseInv' /\ StoredInv' /\ RoundInv' /\ GroupInv' /\ AckInv'
    <3>1. pc' \in {"choose", "declined", "idle"}
      BY <1>4
    <3> QED
      BY <1>com, <2>1, <3>1, StillVoting
  <2> QED
    BY <2>2, <2>3, <2>4 DEF CompleteInv
<1>5. ASSUME choose_active_shares
      PROVE  CompleteInv'
  <2>1. PICK connected \in SUBSET Devices :
          \E count \in Choices(Candidates(decisions, connected)) : ActiveSharesStored(count)
    BY <1>5 DEF choose_active_shares
  <2>2. PICK count \in Choices(Candidates(decisions, connected)) : ActiveSharesStored(count)
    BY <2>1
  <2>3. /\ pc = "choose" /\ phase = "Voting" /\ decisions = dbDecisions
        /\ pc' \in {"idle"} \cup StartWrites
        /\ UNCHANGED <<phase, decisions, dbDecisions, dbCerts, dbRound, dbAttempts, dbResult>>
        /\ UNCHANGED <<dbGroups, dbAcks>>
    BY <1>han, <1>inv, <2>2 DEF HandlerInv, VotesInv, ActiveSharesStored, set_task_active_shares
  <2>4. Accepted(dbDecisions)
    BY <1>inv, <2>3 DEF VotesInv
  <2>5. VotesInv'
    BY <2>3, <2>4 DEF VotesInv
  <2>6. ActiveInv'
    <3>1. /\ count \in [Devices -> 0 .. TotalShares]
          /\ Cardinality(Indices(count)) = accept_threshold
          /\ \A i \in Indices(count) : dbDecisions[Owner[i]] = "accept"
      BY <1>typ, <2>3, ChoiceProper DEF TypeOK
    <3>2. Kind = "Group" => Indices(count) = Share
      <4>1. Indices(count) \in SUBSET Share
        BY IndicesType
      <4> QED
        BY <3>1, <4>1, SubsetCount DEF accept_threshold
    <3>0. dbActive' = [d \in Devices |-> IF dbActive[d] > 0 THEN dbActive[d] ELSE count[d]]
      BY <2>2 DEF ActiveSharesStored, set_task_active_shares
    <3>act. dbActive \in [Devices -> 0 .. TotalShares]
      BY <1>typ DEF TypeOK
    <3>3. dbActive = NoShares => dbActive' = count
      BY <3>0, <3>1 DEF NoShares
    <3>4. Indices(dbActive) = Share => dbActive' = dbActive
      BY <3>0, <3>act, AllSharesAllDevices
    <3>5. Indices(dbActive') = Indices(count)
      BY <1>inv, <2>3, <3>2, <3>3, <3>4 DEF ActiveInv
    <3>6. Proper(dbActive)'
      BY <2>3, <3>1, <3>5 DEF Proper
    <3>7. Kind # "Group" => Creatable(count)
      BY <3>1, ChoiceCreatable
    <3>8. /\ pc' \in StartWrites => chosen' = count /\ Creatable(count)
          /\ Kind # "Group" => pc' \in StartWrites
      BY <2>2, <3>7 DEF ActiveSharesStored
    <3> QED
      BY <2>3, <2>4, <3>2, <3>5, <3>6, <3>8 DEF ActiveInv
  <2>7. PhaseInv' /\ StoredInv' /\ RoundInv' /\ GroupInv' /\ AckInv'
    BY <1>com, <2>3, StillVoting
  <2> QED
    BY <2>5, <2>6, <2>7 DEF CompleteInv
<1>6. ASSUME CertificatesStored \/ FirstRoundStored
      PROVE  CompleteInv'
  <2>1. /\ phase = "Voting" /\ phase' = "Running" /\ pc \in StartWrites /\ pc' = "idle"
        /\ active' = Indices(chosen) /\ round' = dbRound'
        /\ dbCerts' \/ dbRound' >= 1
        /\ dbRound = 0 /\ dbRound' \in {0, 1} /\ dbResult = "none"
        /\ UNCHANGED <<dbDecisions, dbActive, dbAttempts, dbResult, dbGroups, dbAcks>>
    BY <1>6, <1>han, <1>inv
    DEF HandlerInv, PhaseInv, CertificatesStored, FirstRoundStored,
        set_task_group_certificates_sent, set_task_round
  <2>2. /\ active' = Indices(dbActive) /\ Proper(dbActive) /\ Accepted(dbDecisions)
        /\ Cardinality(Indices(dbActive)) > 1 /\ Supported
    BY <1>inv, <2>1, KindAssumption DEF VotesInv, ActiveInv, Creatable
  <2>3. Proper(dbActive)'
    BY <2>1, <2>2 DEF Proper
  <2>4. VotesInv' /\ AckInv'
    BY <1>inv, <2>1 DEF VotesInv, AckInv
  <2>5. ActiveInv'
    BY <1>inv, <2>1, <2>2, <2>3 DEF ActiveInv
  <2>6. PhaseInv' /\ StoredInv'
    BY <2>1, <2>2, <2>3 DEF PhaseInv, StoredInv
  <2>7. dbGroups = 0 /\ dbAttempts \in Nat
    BY <1>typ, <1>inv, <2>1 DEF TypeOK, GroupInv
  <2>8. RoundInv' /\ GroupInv'
    BY <2>1, <2>7 DEF RoundInv, RoundsAgree, GroupInv
  <2> QED
    BY <2>4, <2>5, <2>6, <2>8 DEF CompleteInv
<1>7. ASSUME InitFailureStored \/ DeclineStored
      PROVE  CompleteInv'
  <2>1. /\ phase = "Voting" /\ pc' = "idle" /\ dbResult' = "err"
        /\ UNCHANGED <<dbDecisions, dbActive, dbCerts, dbRound, dbAttempts, dbGroups, dbAcks>>
        /\ \/ phase' = "Failed" /\ Accepted(dbDecisions)
           \/ phase' = "Declined" /\ Rejected(dbDecisions)
    BY <1>7, <1>han, <1>inv
    DEF HandlerInv, VotesInv, InitFailureStored, DeclineStored, set_task_result
  <2>2. dbResult = "none"
    BY <1>inv, <2>1 DEF PhaseInv
  <2> QED
    BY ZenonT(30), <1>com, <2>1, <2>2, Ends
<1> QED
  BY <1>1, <1>2, <1>3, <1>4, <1>5, <1>6, <1>7

\* The requests and the timer after the voting, and restarts of the process.
LEMMA RunningStep ==
  ASSUME IndInv,
         \/ \E d \in Devices, attempt \in 0 .. MaxAttempts :
              \/ \E complete \in BOOLEAN : UpdateRefused(d, attempt, complete)
              \/ Listen(d, attempt) \/ NextRound(d, attempt)
              \/ \E outcome \in FinalOutcomes : Finalize(d, attempt, outcome)
         \/ RoundStored \/ FailureStored \/ FinalRoundStored \/ GroupStored \/ ResultStored
         \/ \E d \in Devices : acknowledge_task(d)
         \/ AcknowledgementStored \/ ListStale \/ restart_stale_tasks \/ AttemptStored
         \/ RestartStored \/ RestartFailureStored \/ BecomeStale \/ ProcessRestart
  PROVE  CompleteInv'
<1> USE DEF db, mem, handler, Return, VoteWrites, StartWrites, RunWrites, TimerWrites
<1>typ. TypeOK
  BY DEF IndInv, FaultInv
<1>han. HandlerInv
  BY DEF IndInv, FaultInv
<1>com. CompleteInv
  BY DEF IndInv
<1>inv. VotesInv /\ ActiveInv /\ PhaseInv /\ StoredInv /\ RoundInv /\ GroupInv /\ AckInv
  BY DEF IndInv, CompleteInv
<1>num. /\ round \in Nat /\ dbRound \in Nat /\ dbAttempts \in Nat /\ dbGroups \in Nat
        /\ LastRound \in Nat /\ round <= LastRound + 1
  BY <1>typ, ProtocolAssumption DEF TypeOK
<1>run. pc \in RunWrites => phase = "Running"
  BY <1>han DEF HandlerInv
<1>1. ASSUME NEW d \in Devices, NEW attempt, NEW complete, UpdateRefused(d, attempt, complete)
      PROVE  CompleteInv'
  BY <1>com, <1>1, Idle DEF UpdateRefused
<1>2. ASSUME NEW d \in Devices, NEW attempt, Listen(d, attempt)
      PROVE  CompleteInv'
  <2> USE DEF Listen, UpdateReceived
  <2>1. VotesInv' /\ ActiveInv' /\ PhaseInv' /\ StoredInv' /\ AckInv'
    BY <1>2, <1>com, <1>run, StillRunning
  <2>2. RoundInv'
    BY <1>2, <1>inv, <1>num, <1>run DEF RoundInv, RoundsAgree
  <2>3. GroupInv'
    BY <1>2, <1>inv, <1>num, <1>run DEF RoundInv, RoundsAgree, GroupInv
  <2> QED
    BY <2>1, <2>2, <2>3 DEF CompleteInv
<1>3. ASSUME NEW d \in Devices, NEW attempt, NextRound(d, attempt)
      PROVE  CompleteInv'
  <2> USE DEF NextRound, UpdateReceived
  <2>1. VotesInv' /\ ActiveInv' /\ PhaseInv' /\ StoredInv' /\ AckInv'
    BY <1>3, <1>com, <1>run, StillRunning
  <2>2. RoundInv'
    BY <1>3, <1>inv, <1>num, <1>run DEF RoundInv, RoundsAgree
  <2>3. GroupInv'
    BY <1>3, <1>inv, <1>num, <1>run DEF RoundInv, RoundsAgree, GroupInv
  <2> QED
    BY <2>1, <2>2, <2>3 DEF CompleteInv
<1>4. ASSUME NEW d \in Devices, NEW attempt, NEW outcome, Finalize(d, attempt, outcome)
      PROVE  CompleteInv'
  <2> USE DEF Finalize, UpdateReceived
  <2>1. VotesInv' /\ ActiveInv' /\ PhaseInv' /\ StoredInv' /\ AckInv'
    BY <1>4, <1>com, <1>run, StillRunning
  <2>2. RoundInv'
    BY <1>4, <1>inv, <1>num, <1>run DEF RoundInv, RoundsAgree
  <2>3. GroupInv'
    BY <1>4, <1>inv, <1>num, <1>run DEF RoundInv, RoundsAgree, GroupInv
  <2> QED
    BY <2>1, <2>2, <2>3 DEF CompleteInv
<1>5. ASSUME RoundStored
      PROVE  CompleteInv'
  <2> USE DEF RoundStored, set_task_round
  <2>1. VotesInv' /\ ActiveInv' /\ PhaseInv' /\ StoredInv' /\ AckInv'
    BY <1>5, <1>com, <1>run, StillRunning
  <2>2. RoundInv'
    BY <1>5, <1>inv, <1>num, <1>run DEF RoundInv, RoundsAgree
  <2>3. GroupInv'
    BY <1>5, <1>inv, <1>num, <1>run DEF RoundInv, RoundsAgree, GroupInv
  <2> QED
    BY <2>1, <2>2, <2>3 DEF CompleteInv
<1>15. ASSUME RestartStored
      PROVE  CompleteInv'
  <2> USE DEF RestartStored, set_task_round
  <2>1. VotesInv' /\ ActiveInv' /\ PhaseInv' /\ StoredInv' /\ AckInv'
    BY <1>15, <1>com, <1>run, StillRunning
  <2>2. RoundInv'
    BY <1>15, <1>inv, <1>num, <1>run DEF RoundInv, RoundsAgree
  <2>3. GroupInv'
    BY <1>15, <1>inv, <1>num, <1>run DEF RoundInv, RoundsAgree, GroupInv
  <2> QED
    BY <2>1, <2>2, <2>3 DEF CompleteInv
<1>6. ASSUME FinalRoundStored
      PROVE  CompleteInv'
  <2> USE DEF FinalRoundStored, set_task_round
  <2>1. VotesInv' /\ ActiveInv' /\ PhaseInv' /\ StoredInv' /\ AckInv'
    BY <1>6, <1>com, <1>run, StillRunning
  <2>2. RoundInv'
    BY <1>6, <1>inv, <1>num, <1>run DEF RoundInv, RoundsAgree
  <2>3. GroupInv'
    BY <1>6, <1>inv, <1>num, <1>run DEF RoundInv, RoundsAgree, GroupInv
  <2> QED
    BY <2>1, <2>2, <2>3 DEF CompleteInv
<1>7. ASSUME GroupStored
      PROVE  CompleteInv'
  <2> USE DEF GroupStored, add_group
  <2>1. VotesInv' /\ ActiveInv' /\ PhaseInv' /\ StoredInv' /\ AckInv'
    BY <1>7, <1>com, <1>run, StillRunning
  <2>2. RoundInv'
    BY <1>7, <1>inv, <1>num, <1>run DEF RoundInv, RoundsAgree
  <2>3. GroupInv'
    BY <1>7, <1>inv, <1>num, <1>run DEF RoundInv, RoundsAgree, GroupInv
  <2> QED
    BY <2>1, <2>2, <2>3 DEF CompleteInv
<1>8. ASSUME restart_stale_tasks
      PROVE  CompleteInv'
  <2> USE DEF restart_stale_tasks
  <2>1. VotesInv' /\ ActiveInv' /\ PhaseInv' /\ StoredInv' /\ AckInv'
    BY <1>8, <1>com, <1>run, StillRunning
  <2>2. RoundInv'
    BY <1>8, <1>inv, <1>num, <1>run DEF RoundInv, RoundsAgree
  <2>3. GroupInv'
    BY <1>8, <1>inv, <1>num, <1>run DEF RoundInv, RoundsAgree, GroupInv
  <2> QED
    BY <2>1, <2>2, <2>3 DEF CompleteInv
<1>9. ASSUME AttemptStored
      PROVE  CompleteInv'
  <2> USE DEF AttemptStored, increment_task_attempt_count
  <2>1. VotesInv' /\ ActiveInv' /\ PhaseInv' /\ StoredInv' /\ AckInv'
    BY <1>9, <1>com, <1>run, StillRunning
  <2>2. RoundInv'
    BY <1>9, <1>inv, <1>num, <1>run DEF RoundInv, RoundsAgree
  <2>3. GroupInv'
    BY <1>9, <1>inv, <1>num, <1>run DEF RoundInv, RoundsAgree, GroupInv
  <2> QED
    BY <2>1, <2>2, <2>3 DEF CompleteInv
<1>10. ASSUME FailureStored \/ ResultStored \/ RestartFailureStored
      PROVE  CompleteInv'
  <2>1. /\ phase = "Running" /\ pc' = "idle"
        /\ UNCHANGED <<dbDecisions, dbActive, dbCerts, dbRound, dbAttempts, dbGroups, dbAcks>>
        /\ \/ phase' = "Failed" /\ dbResult' = "err"
           \/ phase' = "Finished" /\ dbResult' = "ok" /\ acks' = {}
    BY <1>10, <1>run
    DEF FailureStored, ResultStored, RestartFailureStored, set_task_result
  <2>2. dbResult = "none" /\ Accepted(dbDecisions)
    BY <1>inv, <2>1 DEF PhaseInv
  <2> QED
    BY ZenonT(30), <1>com, <2>1, <2>2, Ends
<1>11. ASSUME NEW d \in Devices, acknowledge_task(d)
      PROVE  CompleteInv'
  <2> USE DEF acknowledge_task
  <2>1. VotesInv' /\ ActiveInv' /\ PhaseInv' /\ StoredInv' /\ RoundInv' /\ GroupInv'
    BY <1>11, <1>com, RowsKept
  <2>2. AckInv'
    BY <1>11, <1>inv DEF AckInv
  <2> QED
    BY <2>1, <2>2 DEF CompleteInv
<1>12. ASSUME AcknowledgementStored
      PROVE  CompleteInv'
  <2> USE DEF AcknowledgementStored, set_task_acknowledgement
  <2>0. phase = "Finished"
    BY <1>12, <1>han DEF HandlerInv
  <2>1. VotesInv' /\ ActiveInv' /\ PhaseInv' /\ StoredInv' /\ RoundInv' /\ GroupInv'
    BY <1>12, <1>com, <2>0, RowsKept
  <2>2. AckInv'
    BY <1>12, <1>inv, <2>0 DEF PhaseInv, AckInv
  <2> QED
    BY <2>1, <2>2 DEF CompleteInv
<1>13. ASSUME ListStale \/ BecomeStale
      PROVE  CompleteInv'
  BY <1>com, <1>13, Idle DEF ListStale, BecomeStale
<1>14. ASSUME ProcessRestart
      PROVE  CompleteInv'
  <2> USE DEF ProcessRestart
  <2>1. VotesInv' /\ ActiveInv' /\ PhaseInv' /\ StoredInv' /\ RoundInv' /\ GroupInv'
    BY <1>14, <1>com, RowsKept
  <2>2. AckInv'
    BY <1>14, <1>inv DEF AckInv
  <2> QED
    BY <2>1, <2>2 DEF CompleteInv
<1> QED
  BY <1>1, <1>2, <1>3, <1>4, <1>5, <1>6, <1>7, <1>8, <1>9, <1>10, <1>11, <1>12, <1>13, <1>14, <1>15

\* Every step keeps the invariant.
LEMMA IndStep ==
  ASSUME Counting, ValidInput, IndInv, [Next]_vars
  PROVE  IndInv'
<1>1. ASSUME UNCHANGED vars
      PROVE  CompleteInv'
  BY <1>1, Idle DEF vars, IndInv
<1>2. ASSUME Next
      PROVE  CompleteInv'
  BY <1>2, VotingStep, RunningStep DEF Next, TimerPanic, Crash
<1>3. FaultInv'
  BY FaultStep DEF IndInv, FaultyNext
<1> QED
  BY <1>1, <1>2, <1>3 DEF IndInv

=============================================================================
