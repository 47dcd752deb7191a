----------------------------- MODULE TaskPhases -----------------------------
(***************************************************************************)
(* What the server promises its clients about one task, whatever happens   *)
(* to the server process: the phases of ARCHITECTURE.md, the votes that    *)
(* separate them, and the attempts and rounds of a running task.  A task   *)
(* runs only when enough shares accepted it, it is declined only when that *)
(* has become impossible, votes are frozen once the voting is over, a      *)
(* running task never votes again, and an outcome is final.  A running     *)
(* task goes through the rounds one by one and finishes only after the     *)
(* last; it goes back to the first round only in a new attempt, and no     *)
(* attempt is current again once another has begun.                        *)
(***************************************************************************)
EXTENDS TaskVotes

CONSTANT LastRound

VARIABLES
  phase,    \* the phase a client is shown
  votes,    \* the votes the server stands by
  attempt,  \* the attempt and the round a client is shown
  round

shown == <<phase, votes, attempt, round>>

Phases == {"Voting", "Running", "Declined", "Finished", "Failed"}

Init ==
  /\ phase = "Voting"
  /\ votes = [d \in Devices |-> "none"]
  /\ attempt = 0 /\ round = 0

Vote(d, v) ==
  /\ phase = "Voting"
  /\ votes' = [votes EXCEPT ![d] = v]
  /\ UNCHANGED <<phase, attempt, round>>

\* The protocol is started, or could not be.  A group exchanges certificates
\* before the first round, and a task that the process stopped for is there, too.
Start ==
  /\ phase = "Voting"
  /\ Accepted(votes)
  /\ \/ phase' = "Running" /\ round' \in IF Kind = "Group" THEN {0} ELSE {0, 1}
     \/ phase' = "Failed" /\ UNCHANGED round
  /\ UNCHANGED <<votes, attempt>>

Decline ==
  /\ phase = "Voting"
  /\ Rejected(votes)
  /\ phase' = "Declined"
  /\ UNCHANGED <<votes, attempt, round>>

Advance ==
  /\ phase = "Running"
  /\ round <= LastRound
  /\ round' = round + 1
  /\ UNCHANGED <<phase, votes, attempt>>

\* The last messages were there, and the result could not be made of them.
Retract ==
  /\ phase = "Running"
  /\ round = LastRound + 1
  /\ round' = LastRound
  /\ UNCHANGED <<phase, votes, attempt>>

\* A new attempt begins with the first round, or in the round where the process
\* stopped, or could not be started.
Restart ==
  /\ phase = "Running"
  /\ attempt' = attempt + 1
  /\ \/ round' \in {1, round} /\ UNCHANGED phase
     \/ phase' = "Failed" /\ UNCHANGED round
  /\ UNCHANGED votes

End ==
  /\ phase = "Running"
  /\ \/ phase' = "Finished" /\ round = LastRound + 1
     \/ phase' = "Failed"
  /\ UNCHANGED <<votes, attempt, round>>

Next ==
  \/ \E d \in Devices, v \in {"accept", "reject"} : Vote(d, v)
  \/ Start
  \/ Decline
  \/ Advance
  \/ Retract
  \/ Restart
  \/ End

Spec == Init /\ [][Next]_shown

=============================================================================
