----------------------------- MODULE VoteWidth ------------------------------
(***************************************************************************)
(* The numbers behind a vote.  VotingTask keeps the vote of a device as    *)
(* its number of shares, negative for a rejection, in an i8; the rows keep *)
(* the decision and the shares apart, and hydration makes an i8 of them in *)
(* its own way.  No request limits the shares of a device, so the casts    *)
(* may lose bits and change the sign.  TaskVotes counts shares instead;    *)
(* this module says how far that is the same.                              *)
(***************************************************************************)
EXTENDS Integers, FiniteSets, FiniteSetsExt

CONSTANTS
  Devices,      \* the participants
  ShareCounts,  \* the numbers of shares a participant may have
  Thresholds    \* the accept thresholds

ASSUME WidthAssumption ==
  /\ IsFiniteSet(Devices)
  /\ ShareCounts \subseteq Nat \ {0}
  /\ Thresholds \subseteq Nat \ {0}

VARIABLES
  shares,            \* device -> Participant.shares
  accept_threshold,
  decisions,         \* device -> i8, VotingTask.decisions
  rows,              \* device -> task_participant.decision
  phase

vars == <<shares, accept_threshold, decisions, rows, phase>>

Total(numbers) == MapThenSumSet(LAMBDA d : numbers[d], Devices)

total_shares == Total(shares)

Init ==
  /\ shares \in [Devices -> ShareCounts]
  /\ accept_threshold \in {n \in Thresholds \cup {total_shares} : n <= total_shares}
  /\ decisions = [d \in Devices |-> 0]
  /\ rows = [d \in Devices |-> "none"]
  /\ phase = "Voting"

-----------------------------------------------------------------------------
\* A cast to i8 keeps the low 8 bits, and so does a negation in that width.
as_i8(n) == ((n + 128) % 256) - 128

\* The vote of VotingTask::decide.
Vote(d, accept) == IF accept THEN as_i8(shares[d]) ELSE as_i8(-as_i8(shares[d]))

\* accepts_rejects
accepts(votes) == Total([d \in Devices |-> IF votes[d] > 0 THEN votes[d] ELSE 0])

rejects(votes) == Total([d \in Devices |-> IF votes[d] < 0 THEN -votes[d] ELSE 0])

reject_threshold == total_shares - accept_threshold + 1

\* Mutant: a rejection is read as the absence of a decision.
DecisionsWithoutRejects ==
  [d \in Devices |-> IF rows[d] = "accept" THEN as_i8(shares[d]) ELSE 0]

\* Mutant: numbers of shares that do not fit are cut off, and not cast.
DecisionsCutOff ==
  [d \in Devices |-> CASE rows[d] = "accept" -> Min({shares[d], 127})
                       [] rows[d] = "reject" -> -Min({shares[d], 128})
                       [] rows[d] = "none" -> 0]

get_task_decisions ==
  [d \in Devices |-> CASE rows[d] = "accept" -> as_i8(shares[d])
                       [] rows[d] = "reject" -> as_i8(-shares[d])
                       [] rows[d] = "none" -> 0]

\* What comes of the votes.  An accepted task is started, or fails to initialize,
\* or stays in the vote, because choose_active_shares or create_running_task
\* returns an error.  The process may stop before a result is stored, which
\* leaves the task in the vote, too.
Outcomes(votes) ==
  IF accepts(votes) >= accept_threshold THEN {"Running", "Failed", "Voting"}
  ELSE IF rejects(votes) >= reject_threshold THEN {"Declined", "Voting"}
  ELSE {"Voting"}

\* decide_task, once set_task_decision has stored the decision
decide(d, accept) ==
  /\ phase = "Voting"
  /\ decisions' = [decisions EXCEPT ![d] = Vote(d, accept)]
  /\ rows' = [rows EXCEPT ![d] = IF accept THEN "accept" ELSE "reject"]
  /\ phase' \in Outcomes(decisions')
  /\ UNCHANGED <<shares, accept_threshold>>

\* The phase hydration infers from the votes, and from whether there is a result,
\* which only declined and failed tasks have.
HydratedPhase(votes) ==
  IF phase \in {"Declined", "Failed"}
  THEN IF rejects(votes) >= reject_threshold THEN "Declined" ELSE "Failed"
  ELSE IF accepts(votes) < accept_threshold THEN "Voting" ELSE "Running"

\* The process is restarted and the task hydrated.
hydrate ==
  /\ decisions' = get_task_decisions
  /\ phase' = HydratedPhase(get_task_decisions)
  /\ UNCHANGED <<shares, accept_threshold, rows>>

Next ==
  \/ \E d \in Devices, accept \in BOOLEAN : decide(d, accept)
  \/ hydrate

Spec == Init /\ [][Next]_vars

-----------------------------------------------------------------------------
SharesVoting(vote) == Total([d \in Devices |-> IF rows[d] = vote THEN shares[d] ELSE 0])

\* The shares of a device with the sign of its decision.
Worth(d) == CASE rows[d] = "accept" -> shares[d]
              [] rows[d] = "reject" -> -shares[d]
              [] rows[d] = "none" -> 0

\* An i8 reaches from -128 to 127.
Fits(d) == CASE rows[d] = "accept" -> shares[d] <= 127
             [] rows[d] = "reject" -> shares[d] <= 128
             [] rows[d] = "none" -> TRUE

\* A vote, in VotingTask or read back from the rows, counts for the shares of its
\* device exactly when these fit into an i8; when all votes do, the counts are
\* the numbers of accepting and rejecting shares, in any order of votes and
\* changes of mind.
CountsShares ==
  \A votes \in {decisions, get_task_decisions} :
    /\ \A d \in Devices : votes[d] = Worth(d) <=> Fits(d)
    /\ (\A d \in Devices : Fits(d)) => /\ accepts(votes) = SharesVoting("accept")
                                      /\ rejects(votes) = SharesVoting("reject")

\* The two ways to an i8, through the sign or after it, agree for any number.
VotesRestored == get_task_decisions = decisions

\* Whatever bits the casts lose, a restart changes nothing: the votes are read
\* back as they were, and a task that has left the vote keeps its phase, since
\* the counts never reach both thresholds.
RestartSameOutcome ==
  /\ VotesRestored
  /\ phase # "Voting" => HydratedPhase(get_task_decisions) = phase

=============================================================================
