----------------------------- MODULE TaskVotes -----------------------------
(***************************************************************************)
(* One task seen as data: its participants and their shares, the vote      *)
(* count that starts or declines it (VotingTask in tasks/mod.rs), and the  *)
(* protocol indices its active shares get.                                 *)
(*                                                                         *)
(* Shares are numbered the way choose_active_shares numbers them: the      *)
(* participants sorted by device id, each repeated once per share.  So     *)
(* Owner[i] is the device that share i belongs to.                         *)
(***************************************************************************)
EXTENDS Integers, FiniteSets

CONSTANTS
  Devices,      \* the participants of the task
  TotalShares,  \* TaskInfo::total_shares
  Owner,        \* share index -> device
  Kind,         \* TaskType
  Threshold,    \* threshold of the task (task_model.threshold)
  Protocol,     \* ProtocolType of the task
  KeyType       \* KeyType of the task

Share == 0 .. TotalShares - 1

SharesOf(d) == {i \in Share : Owner[i] = d}

Votes == {"none", "accept", "reject"}

\* check_threshold: which thresholds a protocol can run with.
check_threshold(threshold, group_size) ==
  /\ threshold >= 2
  /\ threshold <= group_size
  /\ Protocol = "Musig2" => threshold = group_size

\* create_keygen_protocol, create_threshold_protocol: the combinations of
\* protocol and key type for which the server has an implementation.
Supported ==
  <<Protocol, KeyType>> \in
     {<<"Gg18", "SignPdf">>, <<"Gg18", "SignChallenge">>,
      <<"Frost", "SignChallenge">>, <<"Musig2", "SignChallenge">>,
      <<"Elgamal", "Decrypt">>}

(***************************************************************************)
(* The shares of one device fit in an i8: VotingTask stores a vote as the  *)
(* signed number of shares in that width.  create_group_task refuses a     *)
(* threshold outside 1..TotalShares.  A threshold task needs an existing   *)
(* group, and a group only exists after its keygen protocol was created    *)
(* with a valid threshold.                                                 *)
(***************************************************************************)
ASSUME SharesAssumption ==
  /\ IsFiniteSet(Devices)
  /\ TotalShares \in Nat \ {0}
  /\ Owner \in [Share -> Devices]
  /\ \A d \in Devices : Cardinality(SharesOf(d)) \in 1 .. 127
  /\ Threshold \in 1 .. TotalShares

ASSUME KindAssumption ==
  /\ Kind \in {"Group", "SignPdf", "SignChallenge", "Decrypt"}
  /\ Kind # "Group" => /\ Kind = KeyType
                       /\ Supported
                       /\ check_threshold(Threshold, TotalShares)

-----------------------------------------------------------------------------
\* VotingTask.accept_threshold: a group task needs every share, a threshold
\* task as many as the threshold of its group.
accept_threshold == IF Kind = "Group" THEN TotalShares ELSE Threshold

reject_threshold == TotalShares - accept_threshold + 1

\* accepts_rejects
Accepts(decisions) == Cardinality({i \in Share : decisions[Owner[i]] = "accept"})

Rejects(decisions) == Cardinality({i \in Share : decisions[Owner[i]] = "reject"})

\* The two tests of VotingTask::decide.
Accepted(decisions) == Accepts(decisions) >= accept_threshold

Rejected(decisions) == Rejects(decisions) >= reject_threshold

\* device_accepted
Accepting(decisions) == {d \in Devices : decisions[d] = "accept"}

-----------------------------------------------------------------------------
\* The place of share i among the shares of its device: 0 for the first one.
Offset(i) == Cardinality({j \in SharesOf(Owner[i]) : j < i})

\* The protocol indices of an assignment of active share counts to devices:
\* the first count[d] shares of every device d.
Indices(count) == {i \in Share : Offset(i) < count[Owner[i]]}

\* Mutant: every participant is a candidate when too few are connected.
CandidatesUnfiltered(decisions, connected) ==
  LET responsive == Accepting(decisions) \cap connected
  IN  IF Cardinality({i \in Share : Owner[i] \in responsive}) >= accept_threshold
      THEN responsive
      ELSE Devices

\* candidates of choose_active_shares: the devices that accepted, narrowed to
\* the connected ones if those alone have enough shares.
Candidates(decisions, connected) ==
  LET responsive == Accepting(decisions) \cap connected
  IN  IF Cardinality({i \in Share : Owner[i] \in responsive}) >= accept_threshold
      THEN responsive
      ELSE Accepting(decisions)

\* What choose_multiple(accept_threshold) may return for these candidates, as
\* the number of shares chosen of each device.
Choices(candidates) ==
  {count \in [Devices -> 0 .. TotalShares] :
     /\ \A d \in Devices :
          count[d] <= IF d \in candidates THEN Cardinality(SharesOf(d)) ELSE 0
     /\ Cardinality(Indices(count)) = accept_threshold}

=============================================================================
