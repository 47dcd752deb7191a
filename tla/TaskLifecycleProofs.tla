------------------------ MODULE TaskLifecycleProofs ------------------------
(***************************************************************************)
(* Proofs about TaskLifecycle, for every set of devices, every assignment  *)
(* of shares, every kind of task, threshold and number of rounds.  This    *)
(* module has the invariants and what holds even if requests stop half     *)
(* way, TaskLifecycleSteps what holds if they run to their end, and        *)
(* TaskLifecycleSafety the theorems.                                       *)
(***************************************************************************)
EXTENDS TaskLifecycle, TLAPS

\* Where the handler inside stands: voting, accepted but not yet running,
\* running.
StartWrites == {"certificates", "initialized", "init_failed"}
VoteWrites == {"decision", "choose", "declined"} \cup StartWrites
RunWrites == {"round", "failed", "final_round", "group", "finished"} \cup TimerWrites

\* The handler inside and the variant it works on belong together.
HandlerInv ==
  /\ pc \in VoteWrites => phase = "Voting"
  /\ pc \in RunWrites => phase = "Running"
  /\ pc = "ack" => phase = "Finished"
  /\ phase = "Uncached" => pc = "idle"
  /\ pc = "decision" => decisions[who] \in {"accept", "reject"}
  /\ pc = "initialized" => Kind # "Group"

\* Stronger than AttemptsAgree: the attempt a task starts with is the stored one.
AttemptInv == phase \in {"Voting", "Running"} => attempts = dbAttempts

\* The group is there when the result is about to be stored.
ResultInv ==
  /\ ResultHasGroup
  /\ pc = "finished" /\ Kind = "Group" => dbGroups > 0

\* What holds even if requests stop half way.
FaultInv == TypeOK /\ HandlerInv /\ AttemptInv /\ ResultInv

\* The cached votes are the stored ones, but for the one being stored.
VotesInv ==
  /\ phase = "Voting" /\ pc # "decision" => decisions = dbDecisions
  /\ pc = "decision" => decisions = [dbDecisions EXCEPT ![who] = decisions[who]]
  /\ pc \in {"choose"} \cup StartWrites => Accepted(dbDecisions)
  /\ pc = "declined" => Rejected(dbDecisions)

\* The active shares an assignment denotes are as many as the threshold, and
\* all of them accepted.
Proper(count) ==
  /\ Cardinality(Indices(count)) = accept_threshold
  /\ \A i \in Indices(count) : dbDecisions[Owner[i]] = "accept"

\* The stored active shares.  A group task may store its (only) choice before
\* create_running_task refuses it; a threshold task stores none before its
\* vote has been accepted for good.
ActiveInv ==
  /\ Kind = "Group" => \/ dbActive = NoShares
                       \/ Indices(dbActive) = Share
  /\ Kind # "Group" /\ dbActive # NoShares =>
       Accepted(dbDecisions) /\ (phase = "Voting" => pc \in StartWrites)
  /\ dbResult = "none" /\ Accepted(dbDecisions) => dbActive = NoShares \/ Proper(dbActive)
  /\ pc \in StartWrites => /\ Indices(chosen) = Indices(dbActive)
                           /\ Creatable(chosen)
                           /\ Proper(dbActive)

\* What the phase of the cached task says about the database.
PhaseInv ==
  /\ phase = "Voting" => dbResult = "none" /\ ~dbCerts /\ dbRound = 0
  /\ phase = "Running" =>
       /\ dbResult = "none" /\ Accepted(dbDecisions)
       /\ active = Indices(dbActive) /\ Proper(dbActive)
       /\ Cardinality(active) > 1 /\ Supported
  /\ phase = "Finished" => dbResult = "ok"
  /\ phase = "Declined" => dbResult = "err" /\ Rejected(dbDecisions)
  /\ phase = "Failed" => dbResult = "err" /\ Accepted(dbDecisions)

\* What the database says by itself, also while the task is not cached.
StoredInv ==
  /\ dbResult = "err" => Accepted(dbDecisions) \/ Rejected(dbDecisions)
  /\ dbCerts \/ dbRound >= 1 => Accepted(dbDecisions) /\ Proper(dbActive)

RoundInv ==
  phase = "Running" =>
    /\ RoundsAgree
    /\ pc = "round" => round = dbRound + 1
    /\ pc = "final_round" => round = LastRound + 1 /\ dbRound = LastRound
    /\ pc \in {"group", "finished"} => round = LastRound + 1 /\ dbRound = LastRound + 1
    /\ pc = "restart_round" => round = 1

GroupInv ==
  /\ dbGroups > 0 => dbRound >= 1
  /\ dbGroups <= dbAttempts + 1
  /\ dbGroups = dbAttempts + 1 => dbRound = LastRound + 1 /\ pc # "group"
  /\ pc \in {"restart_round", "restart_failed"} => dbGroups <= dbAttempts

\* Stronger than AcknowledgementsAgree: only finished tasks are acknowledged.
AckInv ==
  /\ dbAcks # {} => dbResult = "ok"
  /\ phase = "Finished" => acks = IF pc = "ack" THEN dbAcks \cup {who} ELSE dbAcks

\* What holds as long as requests run to their end.
CompleteInv ==
  VotesInv /\ ActiveInv /\ PhaseInv /\ StoredInv /\ RoundInv /\ GroupInv /\ AckInv

IndInv == FaultInv /\ CompleteInv

-----------------------------------------------------------------------------
(***************************************************************************)
(* Facts about votes and active shares                                     *)
(***************************************************************************)
\* What the proofs need to know about the numbers of shares.  ShareCounting in
\* TaskLifecycleSafety proves it.
Counting ==
  /\ Cardinality({}) = 0
  /\ Cardinality(Share) = TotalShares
  /\ \A S \in SUBSET Share :
       /\ Cardinality(S) \in Nat
       /\ Cardinality(S) <= TotalShares
       /\ Cardinality(S) = TotalShares => S = Share
  /\ \A S, T \in SUBSET Share :
       S \cap T = {} => Cardinality(S \cup T) = Cardinality(S) + Cardinality(T)

\* The thresholds of VotingTask are between 1 and the number of shares.
LEMMA ThresholdType ==
  /\ accept_threshold \in 1 .. TotalShares
  /\ reject_threshold \in 1 .. TotalShares
BY SharesAssumption DEF accept_threshold, reject_threshold

LEMMA SubsetCount ==
  ASSUME Counting, NEW S \in SUBSET Share
  PROVE  /\ Cardinality(S) \in Nat
         /\ Cardinality(S) <= TotalShares
         /\ Cardinality(S) = TotalShares => S = Share
BY DEF Counting

LEMMA DisjointCount ==
  ASSUME Counting, NEW S \in SUBSET Share, NEW T \in SUBSET Share, S \cap T = {}
  PROVE  Cardinality(S \cup T) = Cardinality(S) + Cardinality(T)
<1>1. \A A, B \in SUBSET Share :
        A \cap B = {} => Cardinality(A \cup B) = Cardinality(A) + Cardinality(B)
  BY Zenon DEF Counting
<1> QED
  BY <1>1, Zenon

LEMMA CountType ==
  ASSUME Counting, NEW dec \in [Devices -> Votes]
  PROVE  Accepts(dec) \in Nat /\ Rejects(dec) \in Nat
<1> DEFINE A == {i \in Share : dec[Owner[i]] = "accept"}
           R == {i \in Share : dec[Owner[i]] = "reject"}
<1>1. A \in SUBSET Share /\ R \in SUBSET Share
  OBVIOUS
<1>2. Accepts(dec) = Cardinality(A) /\ Rejects(dec) = Cardinality(R)
  BY DEF Accepts, Rejects
<1> HIDE DEF A, R
<1> QED
  BY <1>1, <1>2, SubsetCount

\* decide never has to choose between its first two branches: accepting and
\* rejecting shares are different shares, so both thresholds cannot be met.
LEMMA AcceptedNotRejected ==
  ASSUME Counting, NEW dec \in [Devices -> Votes], Accepted(dec)
  PROVE  ~Rejected(dec)
<1> DEFINE A == {i \in Share : dec[Owner[i]] = "accept"}
           R == {i \in Share : dec[Owner[i]] = "reject"}
<1>1. /\ A \cap R = {}
      /\ A \in SUBSET Share /\ R \in SUBSET Share /\ A \cup R \in SUBSET Share
  OBVIOUS
<1>2. Cardinality(A) >= accept_threshold
  BY DEF Accepted, Accepts
<1>3. Rejected(dec) => Cardinality(R) >= reject_threshold
  BY DEF Rejected, Rejects
<1> HIDE DEF A, R
<1>4. Cardinality(A) \in Nat /\ Cardinality(R) \in Nat
  BY <1>1, SubsetCount
<1>5. Cardinality(A) + Cardinality(R) <= TotalShares
  <2>1. Cardinality(A \cup R) = Cardinality(A) + Cardinality(R)
    BY <1>1, DisjointCount
  <2>2. Cardinality(A \cup R) <= TotalShares
    BY <1>1, SubsetCount
  <2> QED
    BY <2>1, <2>2
<1> QED
  BY <1>2, <1>3, <1>4, <1>5, ThresholdType, SharesAssumption DEF reject_threshold

\* A group task is accepted only by all of its devices.
LEMMA GroupUnanimous ==
  ASSUME Counting, NEW dec \in [Devices -> Votes], Kind = "Group", Accepted(dec)
  PROVE  \A i \in Share : dec[Owner[i]] = "accept"
<1> DEFINE A == {i \in Share : dec[Owner[i]] = "accept"}
<1>1. A \in SUBSET Share
  OBVIOUS
<1>2. Cardinality(A) >= TotalShares
  BY DEF Accepted, Accepts, accept_threshold
<1>3. A = Share
  <2> HIDE DEF A
  <2> QED
    BY <1>1, <1>2, SubsetCount, SharesAssumption
<1> QED
  BY <1>3

LEMMA OffsetType ==
  ASSUME Counting, NEW i \in Share
  PROVE  Offset(i) \in Nat
<1> DEFINE S == {j \in SharesOf(Owner[i]) : j < i}
<1>1. S \in SUBSET Share /\ Offset(i) = Cardinality(S)
  BY DEF Offset, SharesOf
<1> HIDE DEF S
<1> QED
  BY <1>1, SubsetCount

LEMMA IndicesType ==
  ASSUME NEW count
  PROVE  Indices(count) \in SUBSET Share
BY DEF Indices

LEMMA NoIndices ==
  ASSUME Counting
  PROVE  /\ Indices(NoShares) = {}
         /\ Cardinality(Indices(NoShares)) = 0
<1>1. ASSUME NEW i \in Share
      PROVE  ~(Offset(i) < NoShares[Owner[i]])
  BY OffsetType, SharesAssumption DEF NoShares
<1> QED
  BY <1>1 DEF Indices, Counting

\* An active share belongs to a device that has active shares.
LEMMA IndexCounted ==
  ASSUME Counting, NEW count \in [Devices -> 0 .. TotalShares], NEW i \in Indices(count)
  PROVE  i \in Share /\ Owner[i] \in Devices /\ count[Owner[i]] > 0
<1>1. i \in Share /\ Offset(i) < count[Owner[i]]
  BY DEF Indices
<1>2. Owner[i] \in Devices
  BY <1>1, SharesAssumption
<1>3. count[Owner[i]] \in 0 .. TotalShares
  BY <1>2
<1> QED
  BY <1>1, <1>2, <1>3, OffsetType, SharesAssumption

\* choose_active_shares picks as many shares as the threshold, all of devices
\* that accepted.
LEMMA ChoiceProper ==
  ASSUME Counting, NEW dec \in [Devices -> Votes], NEW connected,
         NEW count \in Choices(Candidates(dec, connected))
  PROVE  /\ count \in [Devices -> 0 .. TotalShares]
         /\ Cardinality(Indices(count)) = accept_threshold
         /\ \A i \in Indices(count) : dec[Owner[i]] = "accept"
<1>1. /\ count \in [Devices -> 0 .. TotalShares]
      /\ Cardinality(Indices(count)) = accept_threshold
      /\ \A d \in Devices : d \notin Candidates(dec, connected) => count[d] <= 0
  BY DEF Choices
<1>2. Candidates(dec, connected) \subseteq Accepting(dec)
  BY DEF Candidates
<1>3. ASSUME NEW i \in Indices(count)
      PROVE  dec[Owner[i]] = "accept"
  <2>1. Owner[i] \in Devices /\ count[Owner[i]] > 0
    BY <1>1, IndexCounted
  <2>2. Owner[i] \in Candidates(dec, connected)
    <3>1. count[Owner[i]] \in Int
      BY <1>1, <2>1
    <3> QED
      BY <1>1, <2>1, <3>1
  <2> QED
    BY <1>2, <2>2 DEF Accepting
<1> QED
  BY <1>1, <1>3

\* A choice of all shares takes some of every device.
LEMMA AllSharesAllDevices ==
  ASSUME Counting, NEW count \in [Devices -> 0 .. TotalShares], Indices(count) = Share
  PROVE  \A d \in Devices : count[d] > 0
<1> SUFFICES ASSUME NEW d \in Devices
             PROVE  count[d] > 0
  OBVIOUS
<1>1. PICK i \in Share : Owner[i] = d
  <2>1. Cardinality(SharesOf(d)) # 0
    BY SharesAssumption
  <2>2. SharesOf(d) # {}
    BY <2>1 DEF Counting
  <2> QED
    BY <2>2 DEF SharesOf
<1> QED
  BY <1>1, IndexCounted

\* What hydrate_tasks makes of the rows, for group and threshold tasks alike:
\* it applies the two tests of decide to the stored votes.
LEMMA Hydration ==
  ASSUME Counting, TypeOK
  PROVE  /\ dbResult = "ok" => HydratedPhase = "Finished"
         /\ dbResult = "err" =>
              HydratedPhase = IF Rejected(dbDecisions) THEN "Declined" ELSE "Failed"
         /\ dbResult = "none" =>
              HydratedPhase = IF Accepted(dbDecisions) THEN "Running" ELSE "Voting"
<1>1. Accepts(dbDecisions) \in Nat /\ Rejects(dbDecisions) \in Nat
  BY CountType DEF TypeOK
<1>2. CASE Kind = "Group"
  BY <1>1, <1>2, SharesAssumption
  DEF HydratedPhase, group_task_from_model, Accepted, Rejected, accept_threshold,
      reject_threshold
<1>3. CASE Kind # "Group"
  BY <1>1, <1>3, SharesAssumption
  DEF HydratedPhase, threshold_task_from_model, Accepted, Rejected, accept_threshold,
      reject_threshold
<1> QED
  BY <1>2, <1>3

\* Active shares are rebuilt exactly when there are any.
LEMMA ReadableRunning ==
  ASSUME Counting, TypeOK, ActiveInv, dbResult = "none", Accepted(dbDecisions), Readable
  PROVE  Proper(dbActive) /\ Cardinality(Indices(dbActive)) > 1 /\ Supported
<1>1. HydratedPhase = "Running"
  BY Hydration
<1>2. Cardinality(Indices(dbActive)) > 1 /\ Supported
  BY <1>1 DEF Readable
<1>3. dbActive # NoShares
  BY <1>2, NoIndices
<1> QED
  BY <1>2, <1>3 DEF ActiveInv

-----------------------------------------------------------------------------
(***************************************************************************)
(* Part 1: what holds even if requests stop half way                       *)
(***************************************************************************)
LEMMA Constants ==
  /\ NoVotes \in [Devices -> Votes]
  /\ NoShares \in [Devices -> 0 .. TotalShares]
BY SharesAssumption DEF NoVotes, NoShares, Votes

LEMMA RoundRange ==
  /\ 0 \in 0 .. LastRound + 1
  /\ 1 \in 0 .. LastRound + 1
  /\ LastRound + 1 \in 0 .. LastRound + 1
  /\ \A r \in 0 .. LastRound + 1 : r < LastRound => r + 1 \in 0 .. LastRound + 1
BY ProtocolAssumption

LEMMA FaultInit == Init => FaultInv
<1>1. Init => TypeOK
  <2>1. Init => {dbCerts, certs, listed, stale} \subseteq BOOLEAN
    BY Zenon DEF Init
  <2> QED
    BY <2>1, Constants, RoundRange DEF Init, TypeOK
<1>2. Init => HandlerInv /\ AttemptInv /\ ResultInv
  BY DEF Init, HandlerInv, AttemptInv, ResultInv, ResultHasGroup,
         VoteWrites, StartWrites, RunWrites, TimerWrites
<1> QED
  BY <1>1, <1>2 DEF FaultInv

LEMMA FaultStep ==
  ASSUME Counting, FaultInv, [FaultyNext]_vars
  PROVE  FaultInv'
<1> USE DEF FaultInv, db, mem, handler, Return, ResultHasGroup,
            VoteWrites, StartWrites, RunWrites, TimerWrites, RequestWrites
<1>hyd. HydratedPhase \in {"Voting", "Running", "Declined", "Finished", "Failed"}
  BY Hydration DEF TypeOK
<1>cho. \A count \in Choices(Accepting(decisions)) : count \in [Devices -> 0 .. TotalShares]
  BY DEF Choices
<1>1. ASSUME ensure_cached_tasks
      PROVE  FaultInv'
  <2>1. TypeOK'
    BY <1>1, <1>hyd, IndicesType DEF TypeOK, ensure_cached_tasks
  <2>2. HandlerInv' /\ AttemptInv' /\ ResultInv'
    BY <1>1, <1>hyd DEF TypeOK, HandlerInv, AttemptInv, ResultInv, ensure_cached_tasks
  <2> QED
    BY <2>1, <2>2
<1>2. ASSUME NEW d \in Devices, NEW vote \in {"accept", "reject"}, decide_task(d, vote)
      PROVE  FaultInv'
  <2>1. TypeOK'
    BY ZenonT(30), <1>2 DEF TypeOK, decide_task, Votes
  <2>2. HandlerInv' /\ AttemptInv' /\ ResultInv'
    BY <1>2 DEF TypeOK, HandlerInv, AttemptInv, ResultInv, decide_task, Votes
  <2> QED
    BY <2>1, <2>2
<1>3. ASSUME DecisionRefused
      PROVE  FaultInv'
  <2>1. TypeOK'
    BY ZenonT(30), <1>3 DEF TypeOK, DecisionRefused
  <2>2. HandlerInv' /\ AttemptInv' /\ ResultInv'
    BY <1>3 DEF TypeOK, HandlerInv, AttemptInv, ResultInv, DecisionRefused
  <2> QED
    BY <2>1, <2>2
<1>4. ASSUME DecisionStored
      PROVE  FaultInv'
  <2>1. TypeOK'
    BY Constants, <1>4 DEF TypeOK, DecisionStored, set_task_decision
  <2>2. HandlerInv' /\ AttemptInv' /\ ResultInv'
    BY <1>4 DEF TypeOK, HandlerInv, AttemptInv, ResultInv, DecisionStored, set_task_decision
  <2> QED
    BY <2>1, <2>2
<1>5. ASSUME choose_active_shares
      PROVE  FaultInv'
  <2>1. TypeOK'
    BY Constants, <1>5, ChoiceProper
    DEF TypeOK, choose_active_shares, ActiveSharesStored, set_task_active_shares
  <2>2. HandlerInv' /\ AttemptInv' /\ ResultInv'
    BY <1>5
    DEF TypeOK, HandlerInv, AttemptInv, ResultInv, choose_active_shares, ActiveSharesStored,
        set_task_active_shares
  <2> QED
    BY <2>1, <2>2
<1>6. ASSUME CertificatesStored
      PROVE  FaultInv'
  <2>1. TypeOK'
    BY Constants, RoundRange, <1>6, IndicesType
    DEF TypeOK, CertificatesStored, set_task_group_certificates_sent
  <2>2. HandlerInv' /\ AttemptInv' /\ ResultInv'
    BY <1>6
    DEF TypeOK, HandlerInv, AttemptInv, ResultInv, CertificatesStored,
        set_task_group_certificates_sent
  <2> QED
    BY <2>1, <2>2
<1>7. ASSUME FirstRoundStored
      PROVE  FaultInv'
  <2>1. TypeOK'
    BY ZenonT(30), Constants, RoundRange, <1>7, IndicesType
    DEF TypeOK, FirstRoundStored, set_task_round
  <2>2. HandlerInv' /\ AttemptInv' /\ ResultInv'
    BY <1>7 DEF TypeOK, HandlerInv, AttemptInv, ResultInv, FirstRoundStored, set_task_round
  <2> QED
    BY <2>1, <2>2
<1>8. ASSUME InitFailureStored
      PROVE  FaultInv'
  <2>1. TypeOK'
    BY Constants, <1>8 DEF TypeOK, InitFailureStored, set_task_result
  <2>2. HandlerInv' /\ AttemptInv' /\ ResultInv'
    BY <1>8 DEF TypeOK, HandlerInv, AttemptInv, ResultInv, InitFailureStored, set_task_result
  <2> QED
    BY <2>1, <2>2
<1>9. ASSUME DeclineStored
      PROVE  FaultInv'
  <2>1. TypeOK'
    BY Constants, <1>9 DEF TypeOK, DeclineStored, set_task_result
  <2>2. HandlerInv' /\ AttemptInv' /\ ResultInv'
    BY <1>9 DEF TypeOK, HandlerInv, AttemptInv, ResultInv, DeclineStored, set_task_result
  <2> QED
    BY <2>1, <2>2
<1>10. ASSUME NEW d \in Devices, NEW attempt, NEW complete, UpdateRefused(d, attempt, complete)
      PROVE  FaultInv'
  <2>1. TypeOK'
    BY ZenonT(30), <1>10 DEF TypeOK, UpdateRefused
  <2>2. HandlerInv' /\ AttemptInv' /\ ResultInv'
    BY <1>10 DEF TypeOK, HandlerInv, AttemptInv, ResultInv, UpdateRefused
  <2> QED
    BY <2>1, <2>2
<1>11. ASSUME NEW d \in Devices, NEW attempt, Listen(d, attempt)
      PROVE  FaultInv'
  <2>1. TypeOK'
    BY ZenonT(30), <1>11 DEF TypeOK, Listen, UpdateReceived
  <2>2. HandlerInv' /\ AttemptInv' /\ ResultInv'
    BY <1>11 DEF TypeOK, HandlerInv, AttemptInv, ResultInv, Listen, UpdateReceived
  <2> QED
    BY <2>1, <2>2
<1>12. ASSUME NEW d \in Devices, NEW attempt, NextRound(d, attempt)
      PROVE  FaultInv'
  <2>1. TypeOK'
    BY ZenonT(30), RoundRange, <1>12 DEF TypeOK, NextRound, UpdateReceived
  <2>2. HandlerInv' /\ AttemptInv' /\ ResultInv'
    BY <1>12 DEF TypeOK, HandlerInv, AttemptInv, ResultInv, NextRound, UpdateReceived
  <2> QED
    BY <2>1, <2>2
<1>13. ASSUME NEW d \in Devices, NEW attempt, NEW outcome, Finalize(d, attempt, outcome)
      PROVE  FaultInv'
  <2>1. TypeOK'
    BY ZenonT(30), RoundRange, <1>13 DEF TypeOK, Finalize, UpdateReceived
  <2>2. HandlerInv' /\ AttemptInv' /\ ResultInv'
    BY <1>13 DEF TypeOK, HandlerInv, AttemptInv, ResultInv, Finalize, UpdateReceived
  <2> QED
    BY <2>1, <2>2
<1>14. ASSUME RoundStored
      PROVE  FaultInv'
  <2>1. TypeOK'
    BY Constants, RoundRange, <1>14 DEF TypeOK, RoundStored, set_task_round
  <2>2. HandlerInv' /\ AttemptInv' /\ ResultInv'
    BY <1>14 DEF TypeOK, HandlerInv, AttemptInv, ResultInv, RoundStored, set_task_round
  <2> QED
    BY <2>1, <2>2
<1>15. ASSUME FailureStored
      PROVE  FaultInv'
  <2>1. TypeOK'
    BY Constants, <1>15 DEF TypeOK, FailureStored, set_task_result
  <2>2. HandlerInv' /\ AttemptInv' /\ ResultInv'
    BY <1>15 DEF TypeOK, HandlerInv, AttemptInv, ResultInv, FailureStored, set_task_result
  <2> QED
    BY <2>1, <2>2
<1>16. ASSUME FinalRoundStored
      PROVE  FaultInv'
  <2>1. TypeOK'
    BY Constants, RoundRange, <1>16 DEF TypeOK, FinalRoundStored, set_task_round
  <2>2. HandlerInv' /\ AttemptInv' /\ ResultInv'
    BY <1>16 DEF TypeOK, HandlerInv, AttemptInv, ResultInv, FinalRoundStored, set_task_round
  <2> QED
    BY <2>1, <2>2
<1>17. ASSUME GroupStored
      PROVE  FaultInv'
  <2>1. TypeOK'
    BY <1>17 DEF TypeOK, GroupStored, add_group
  <2>2. HandlerInv' /\ AttemptInv' /\ ResultInv'
    BY <1>17 DEF TypeOK, HandlerInv, AttemptInv, ResultInv, GroupStored, add_group
  <2> QED
    BY <2>1, <2>2
<1>18. ASSUME ResultStored
      PROVE  FaultInv'
  <2>1. TypeOK'
    BY Constants, <1>18 DEF TypeOK, ResultStored, set_task_result
  <2>2. HandlerInv' /\ AttemptInv' /\ ResultInv'
    BY <1>18 DEF TypeOK, HandlerInv, AttemptInv, ResultInv, ResultStored, set_task_result
  <2> QED
    BY <2>1, <2>2
<1>19. ASSUME NEW d \in Devices, acknowledge_task(d)
      PROVE  FaultInv'
  <2>1. TypeOK'
    BY <1>19 DEF TypeOK, acknowledge_task
  <2>2. HandlerInv' /\ AttemptInv' /\ ResultInv'
    BY <1>19 DEF TypeOK, HandlerInv, AttemptInv, ResultInv, acknowledge_task
  <2> QED
    BY <2>1, <2>2
<1>20. ASSUME AcknowledgementStored
      PROVE  FaultInv'
  <2>1. TypeOK'
    BY Constants, <1>20 DEF TypeOK, AcknowledgementStored, set_task_acknowledgement
  <2>2. HandlerInv' /\ AttemptInv' /\ ResultInv'
    BY <1>20
    DEF TypeOK, HandlerInv, AttemptInv, ResultInv, AcknowledgementStored,
        set_task_acknowledgement
  <2> QED
    BY <2>1, <2>2
<1>21. ASSUME ListStale
      PROVE  FaultInv'
  <2>1. TypeOK'
    BY <1>21 DEF TypeOK, ListStale
  <2>2. HandlerInv' /\ AttemptInv' /\ ResultInv'
    BY <1>21 DEF TypeOK, HandlerInv, AttemptInv, ResultInv, ListStale
  <2> QED
    BY <2>1, <2>2
<1>22. ASSUME restart_stale_tasks
      PROVE  FaultInv'
  <2>1. TypeOK'
    BY ZenonT(30), <1>22 DEF TypeOK, restart_stale_tasks
  <2>2. HandlerInv' /\ AttemptInv' /\ ResultInv'
    BY <1>22 DEF TypeOK, HandlerInv, AttemptInv, ResultInv, restart_stale_tasks
  <2> QED
    BY <2>1, <2>2
<1>23. ASSUME AttemptStored
      PROVE  FaultInv'
  <2>1. TypeOK'
    BY RoundRange, <1>23 DEF TypeOK, AttemptStored, increment_task_attempt_count
  <2>2. HandlerInv' /\ AttemptInv' /\ ResultInv'
    BY <1>23
    DEF TypeOK, HandlerInv, AttemptInv, ResultInv, AttemptStored,
        increment_task_attempt_count
  <2> QED
    BY <2>1, <2>2
<1>24. ASSUME RestartStored
      PROVE  FaultInv'
  <2>1. TypeOK'
    BY ZenonT(30), Constants, RoundRange, <1>24 DEF TypeOK, RestartStored, set_task_round
  <2>2. HandlerInv' /\ AttemptInv' /\ ResultInv'
    BY <1>24 DEF TypeOK, HandlerInv, AttemptInv, ResultInv, RestartStored, set_task_round
  <2> QED
    BY <2>1, <2>2
<1>25. ASSUME RestartFailureStored
      PROVE  FaultInv'
  <2>1. TypeOK'
    BY ZenonT(30), Constants, <1>25 DEF TypeOK, RestartFailureStored, set_task_result
  <2>2. HandlerInv' /\ AttemptInv' /\ ResultInv'
    BY <1>25
    DEF TypeOK, HandlerInv, AttemptInv, ResultInv, RestartFailureStored, set_task_result
  <2> QED
    BY <2>1, <2>2
<1>26. ASSUME BecomeStale
      PROVE  FaultInv'
  <2>1. TypeOK'
    BY <1>26 DEF TypeOK, BecomeStale
  <2>2. HandlerInv' /\ AttemptInv' /\ ResultInv'
    BY <1>26 DEF TypeOK, HandlerInv, AttemptInv, ResultInv, BecomeStale
  <2> QED
    BY <2>1, <2>2
<1>27. ASSUME ProcessRestart
      PROVE  FaultInv'
  <2>1. TypeOK'
    BY ZenonT(30), Constants, RoundRange, <1>27 DEF TypeOK, ProcessRestart
  <2>2. HandlerInv' /\ AttemptInv' /\ ResultInv'
    BY <1>27 DEF TypeOK, HandlerInv, AttemptInv, ResultInv, ProcessRestart
  <2> QED
    BY <2>1, <2>2
<1>28. ASSUME Abort
      PROVE  FaultInv'
  <2>1. TypeOK'
    BY Constants, <1>28 DEF TypeOK, Abort
  <2>2. HandlerInv' /\ AttemptInv' /\ ResultInv'
    BY <1>28 DEF TypeOK, HandlerInv, AttemptInv, ResultInv, Abort
  <2> QED
    BY <2>1, <2>2
<1>29. ASSUME AbortCommitted
      PROVE  FaultInv'
  <2>0. pc' = "idle" /\ who' = NoDevice /\ chosen' = NoShares /\ UNCHANGED <<mem, listed, stale>>
    BY <1>29 DEF AbortCommitted
  <2>1. TypeOK'
    <3>1. ASSUME pc = "decision", set_task_decision(who, decisions[who])
          PROVE  TypeOK'
      BY Constants, <2>0, <3>1 DEF TypeOK, set_task_decision
    <3>2. ASSUME NEW count \in Choices(Accepting(decisions)), set_task_active_shares(count)
          PROVE  TypeOK'
      BY <1>cho, Constants, <2>0, <3>2 DEF TypeOK, set_task_active_shares
    <3>3. ASSUME NEW r \in {1, round}, set_task_round(r)
          PROVE  TypeOK'
      BY RoundRange, Constants, <2>0, <3>3 DEF TypeOK, set_task_round
    <3>4. ASSUME NEW result \in {"ok", "err"}, set_task_result(result)
          PROVE  TypeOK'
      BY Constants, <2>0, <3>4 DEF TypeOK, set_task_result
    <3>5. ASSUME add_group
          PROVE  TypeOK'
      BY Constants, <2>0, <3>5 DEF TypeOK, add_group
    <3>7. ASSUME set_task_group_certificates_sent
          PROVE  TypeOK'
      BY Constants, <2>0, <3>7 DEF TypeOK, set_task_group_certificates_sent
    <3>6. ASSUME pc = "ack", set_task_acknowledgement(who)
          PROVE  TypeOK'
      BY Constants, <2>0, <3>6 DEF TypeOK, set_task_acknowledgement
    <3> QED
      BY <1>29, <3>1, <3>2, <3>3, <3>4, <3>5, <3>6, <3>7 DEF AbortCommitted
  <2>2. /\ UNCHANGED dbAttempts
        /\ dbGroups' \in {dbGroups, dbGroups + 1}
        /\ dbResult' = "ok" => dbResult = "ok" \/ pc = "finished"
    BY <1>29
    DEF AbortCommitted, set_task_decision, set_task_active_shares,
        set_task_group_certificates_sent, set_task_round, set_task_result, add_group,
        set_task_acknowledgement
  <2>3. HandlerInv' /\ AttemptInv' /\ ResultInv'
    BY <2>0, <2>2 DEF TypeOK, HandlerInv, AttemptInv, ResultInv
  <2> QED
    BY <2>1, <2>3
<1>30. CASE UNCHANGED vars
  BY <1>30 DEF vars, TypeOK, HandlerInv, AttemptInv, ResultInv
<1> QED
  BY ZenonT(30), <1>1, <1>2, <1>3, <1>4, <1>5, <1>6, <1>7, <1>8, <1>9, <1>10, <1>11, <1>12, <1>13,
     <1>14, <1>15, <1>16, <1>17, <1>18, <1>19, <1>20, <1>21, <1>22, <1>23, <1>24, <1>25,
     <1>26, <1>27, <1>28, <1>29, <1>30
  DEF FaultyNext, Next, TimerPanic, Crash

=============================================================================
