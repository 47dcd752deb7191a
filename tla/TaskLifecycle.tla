--------------------------- MODULE TaskLifecycle ---------------------------
(***************************************************************************)
(* The life of one task in the server: the rows the database keeps of it,  *)
(* the Task the cache holds of it, and the handlers that change both       *)
(* (decide_task, update_task, acknowledge_task and restart_stale_tasks of  *)
(* state.rs).                                                              *)
(*                                                                         *)
(* A handler owns the write guard of the cached task from get_task_mut to  *)
(* its return, so at most one is inside; pc names the database statement   *)
(* it is awaiting.  Everything a handler does up to its next await is one  *)
(* step: a step ends where the process can stop, or the request be         *)
(* dropped, with the statements before it committed and the ones after it  *)
(* never sent.  The cache never evicts a task, so a task is uncached only  *)
(* between a restart of the process and the next access to it.             *)
(***************************************************************************)
EXTENDS TaskVotes

CONSTANTS
  LastRound,      \* last_round of the protocol
  MaxAttempts,    \* bound on the number of restarts of the protocol
  MaxGroups,      \* bound on the number of groups the task leaves behind
  FinalOutcomes,  \* what the devices' last messages may amount to
  ValidInput,     \* SignPDFTask::try_new accepts the name and the data
  NoDevice

ASSUME ProtocolAssumption ==
  /\ LastRound \in Nat \ {0}
  /\ MaxAttempts \in Nat
  /\ MaxGroups \in Nat
  /\ FinalOutcomes \subseteq {"value", "none", "panic"}
  /\ ValidInput \in BOOLEAN
  /\ NoDevice \notin Devices

VARIABLES
  \* The database: task, task_participant, active_task_participant,
  \* task_result and group rows of this task.
  dbDecisions, dbActive, dbCerts, dbRound, dbAttempts, dbResult, dbGroups, dbAcks,
  \* The cached Task.  phase is its variant; the others are fields of
  \* VotingTask (decisions), of the RunningTask implementations, and of
  \* FinishedTask (acks).
  phase, decisions, active, certs, round, attempts, input, acks,
  \* The handler that holds the write guard: the statement it awaits, the
  \* device it serves, the active shares it has just chosen.
  pc, who, chosen,
  \* The timer: listed while the task is in the list restart_stale_tasks is
  \* working through; stale once its last update is more than 30 s old.
  listed, stale

db == <<dbDecisions, dbActive, dbCerts, dbRound, dbAttempts, dbResult, dbGroups, dbAcks>>
mem == <<phase, decisions, active, certs, round, attempts, input, acks>>
handler == <<pc, who, chosen>>
vars == <<db, mem, handler, listed, stale>>

NoVotes == [d \in Devices |-> "none"]
NoShares == [d \in Devices |-> 0]

\* The statements a request handler awaits, and those the timer awaits.
RequestWrites == {"decision", "choose", "certificates", "initialized", "init_failed",
                  "declined", "round", "failed", "final_round", "group", "finished", "ack"}
TimerWrites == {"attempt", "restart_round", "restart_failed"}

TypeOK ==
  /\ dbDecisions \in [Devices -> Votes]
  /\ dbActive \in [Devices -> 0 .. TotalShares]
  /\ dbCerts \in BOOLEAN
  /\ dbRound \in 0 .. LastRound + 1
  /\ dbAttempts \in Nat
  /\ dbResult \in {"none", "ok", "err"}
  /\ dbGroups \in Nat
  /\ dbAcks \subseteq Devices
  /\ phase \in {"Uncached", "Voting", "Running", "Declined", "Finished", "Failed"}
  /\ decisions \in [Devices -> Votes]
  /\ active \subseteq Share
  /\ certs \in BOOLEAN
  /\ round \in 0 .. LastRound + 1
  /\ attempts \in Nat
  /\ input \subseteq Devices
  /\ acks \subseteq Devices
  /\ pc \in {"idle"} \cup RequestWrites \cup TimerWrites
  /\ who \in IF pc \in {"decision", "ack"} THEN Devices ELSE {NoDevice}
  /\ chosen \in [Devices -> 0 .. TotalShares]
  /\ listed \in BOOLEAN
  /\ stale \in BOOLEAN

\* A task that persist_task has just written and cached.
Init ==
  /\ dbDecisions = NoVotes /\ dbActive = NoShares /\ dbCerts = FALSE /\ dbRound = 0
  /\ dbAttempts = 0 /\ dbResult = "none" /\ dbGroups = 0 /\ dbAcks = {}
  /\ phase = "Voting" /\ decisions = NoVotes /\ active = {} /\ certs = FALSE
  /\ round = 0 /\ attempts = 0 /\ input = {} /\ acks = {}
  /\ pc = "idle" /\ who = NoDevice /\ chosen = NoShares
  /\ listed = FALSE /\ stale = FALSE

Return == pc' = "idle" /\ who' = NoDevice /\ chosen' = NoShares

-----------------------------------------------------------------------------
(***************************************************************************)
(* The statements, as in persistence/postgres_repository.                  *)
(***************************************************************************)
set_task_decision(d, vote) ==
  /\ dbDecisions' = [dbDecisions EXCEPT ![d] = vote]
  /\ UNCHANGED <<dbActive, dbCerts, dbRound, dbAttempts, dbResult, dbGroups, dbAcks>>

\* on_conflict(..).do_nothing(): a device that already has a row keeps it.
set_task_active_shares(count) ==
  /\ dbActive' = [d \in Devices |-> IF dbActive[d] > 0 THEN dbActive[d] ELSE count[d]]
  /\ UNCHANGED <<dbDecisions, dbCerts, dbRound, dbAttempts, dbResult, dbGroups, dbAcks>>

set_task_group_certificates_sent ==
  /\ dbCerts' = TRUE
  /\ UNCHANGED <<dbDecisions, dbActive, dbRound, dbAttempts, dbResult, dbGroups, dbAcks>>

set_task_round(r) ==
  /\ dbRound' = r
  /\ UNCHANGED <<dbDecisions, dbActive, dbCerts, dbAttempts, dbResult, dbGroups, dbAcks>>

increment_task_attempt_count ==
  /\ dbAttempts' = dbAttempts + 1
  /\ UNCHANGED <<dbDecisions, dbActive, dbCerts, dbRound, dbResult, dbGroups, dbAcks>>

set_task_result(result) ==
  /\ dbResult' = result
  /\ UNCHANGED <<dbDecisions, dbActive, dbCerts, dbRound, dbAttempts, dbGroups, dbAcks>>

\* Every run of the keygen protocol makes a key of its own, hence a new row.
add_group ==
  /\ dbGroups < MaxGroups
  /\ dbGroups' = dbGroups + 1
  /\ UNCHANGED <<dbDecisions, dbActive, dbCerts, dbRound, dbAttempts, dbResult, dbAcks>>

\* Mutant: an acknowledgement replaces the earlier ones.
AcknowledgementReplaces(d) ==
  /\ dbAcks' = {d}
  /\ UNCHANGED <<dbDecisions, dbActive, dbCerts, dbRound, dbAttempts, dbResult, dbGroups>>

set_task_acknowledgement(d) ==
  /\ dbAcks' = dbAcks \cup {d}
  /\ UNCHANGED <<dbDecisions, dbActive, dbCerts, dbRound, dbAttempts, dbResult, dbGroups>>

\* A row get_restart_candidates returns.
Candidate == dbResult = "none" /\ (dbCerts \/ dbRound >= 1)

-----------------------------------------------------------------------------
(***************************************************************************)
(* Reading a task back: which variant hydrate_tasks makes of the rows.     *)
(***************************************************************************)
\* Mutant: accepts <= accept_threshold.
GroupStillVoting ==
  CASE dbResult = "ok"   -> "Finished"
    [] dbResult = "err"  -> IF Rejects(dbDecisions) > 0 THEN "Declined" ELSE "Failed"
    [] dbResult = "none" -> IF Accepts(dbDecisions) <= TotalShares THEN "Voting" ELSE "Running"

group_task_from_model ==
  CASE dbResult = "ok"   -> "Finished"
    [] dbResult = "err"  -> IF Rejects(dbDecisions) > 0 THEN "Declined" ELSE "Failed"
    [] dbResult = "none" -> IF Accepts(dbDecisions) < TotalShares THEN "Voting" ELSE "Running"

\* Mutant: one rejecting share makes a failed threshold task a declined one.
AnyRejectDeclines ==
  CASE dbResult = "ok"   -> "Finished"
    [] dbResult = "err"  -> IF Rejects(dbDecisions) > 0 THEN "Declined" ELSE "Failed"
    [] dbResult = "none" -> IF Accepts(dbDecisions) < Threshold THEN "Voting" ELSE "Running"

threshold_task_from_model ==
  CASE dbResult = "ok"   -> "Finished"
    [] dbResult = "err"  -> IF Rejects(dbDecisions) >= TotalShares - Threshold + 1
                            THEN "Declined" ELSE "Failed"
    [] dbResult = "none" -> IF Accepts(dbDecisions) < Threshold THEN "Voting" ELSE "Running"

HydratedPhase ==
  IF Kind = "Group" THEN group_task_from_model ELSE threshold_task_from_model

\* Hydration neither returns an error nor fails an assertion: the group of a
\* finished group task is there, and the communicator of a running task can
\* be built from the active shares (Communicator::new) for a known protocol.
Readable ==
  /\ HydratedPhase = "Finished" /\ Kind = "Group" => dbGroups > 0
  /\ HydratedPhase = "Running" =>
       /\ Cardinality(Indices(dbActive)) > 1
       /\ Cardinality(Indices(dbActive)) >= accept_threshold
       /\ Supported

\* ensure_cached_tasks, at the first access after a restart of the process.
\* An access to a task that is not readable fails and changes nothing.
ensure_cached_tasks ==
  /\ phase = "Uncached"
  /\ Readable
  /\ phase' = HydratedPhase
  /\ decisions' = dbDecisions
  /\ active' = Indices(dbActive)
  /\ certs' = dbCerts
  /\ round' = dbRound
  /\ attempts' = dbAttempts
  /\ input' = {}
  /\ acks' = IF HydratedPhase = "Finished" THEN dbAcks ELSE {}
  /\ UNCHANGED <<db, handler, listed, stale>>

-----------------------------------------------------------------------------
(***************************************************************************)
(* decide_task                                                             *)
(***************************************************************************)
\* Mutant: the variant of the task is not checked.
DecideAnyTask(d, vote) ==
  /\ pc = "idle"
  /\ phase \in {"Voting", "Running"}
  /\ decisions' = [decisions EXCEPT ![d] = vote]
  /\ pc' = "decision" /\ who' = d
  /\ stale' = FALSE
  /\ UNCHANGED <<db, phase, active, certs, round, attempts, input, acks, chosen, listed>>

decide_task(d, vote) ==
  /\ pc = "idle"
  /\ phase = "Voting"
  /\ decisions' = [decisions EXCEPT ![d] = vote]
  /\ pc' = "decision" /\ who' = d
  /\ stale' = FALSE
  /\ UNCHANGED <<db, phase, active, certs, round, attempts, input, acks, chosen, listed>>

\* The vote of a device that is no participant still counts as activity.
DecisionRefused ==
  /\ pc = "idle"
  /\ phase = "Voting"
  /\ stale' = FALSE
  /\ UNCHANGED <<db, mem, handler, listed>>

\* The vote is stored; match decision_update.
DecisionStored ==
  /\ pc = "decision"
  /\ set_task_decision(who, decisions[who])
  /\ pc' = IF Accepted(decisions) THEN "choose"
           ELSE IF Rejected(decisions) THEN "declined" ELSE "idle"
  /\ who' = NoDevice
  /\ UNCHANGED <<mem, chosen, listed, stale>>

\* create_running_task succeeds: Communicator::new accepts the active shares,
\* and try_new of the task the protocol and its threshold (GroupTask), the
\* name and the size of the data (SignPDFTask).
Creatable(count) ==
  /\ Cardinality(Indices(count)) > 1
  /\ Cardinality(Indices(count)) >= accept_threshold
  /\ Kind = "Group" => Supported /\ check_threshold(Threshold, TotalShares)
  /\ Kind = "SignPdf" => ValidInput

\* choose_active_shares, then create_running_task and initialize.
ActiveSharesStored(count) ==
  /\ pc = "choose"
  /\ set_task_active_shares(count)
  /\ \/ ~Creatable(count) /\ Return
     \/ /\ Creatable(count)
        /\ chosen' = count /\ UNCHANGED who
        /\ \/ Kind = "Group" /\ pc' = "certificates"
           \/ Kind # "Group" /\ pc' = "initialized"
           \/ Kind = "SignPdf" /\ pc' = "init_failed"
  /\ UNCHANGED <<mem, listed, stale>>

choose_active_shares ==
  \E connected \in SUBSET Devices :
    \E count \in Choices(Candidates(decisions, connected)) : ActiveSharesStored(count)

\* RoundUpdate::GroupCertificatesSent
CertificatesStored ==
  /\ pc = "certificates"
  /\ set_task_group_certificates_sent
  /\ phase' = "Running" /\ active' = Indices(chosen)
  /\ certs' = TRUE /\ round' = 0 /\ input' = {}
  /\ Return
  /\ UNCHANGED <<decisions, attempts, acks, listed, stale>>

\* RoundUpdate::NextRound
FirstRoundStored ==
  /\ pc = "initialized"
  /\ set_task_round(1)
  /\ phase' = "Running" /\ active' = Indices(chosen)
  /\ certs' = FALSE /\ round' = 1 /\ input' = {}
  /\ Return
  /\ UNCHANGED <<decisions, attempts, acks, listed, stale>>

\* RoundUpdate::Failed, of a PDF task whose helper could not prepare the file.
InitFailureStored ==
  /\ pc = "init_failed"
  /\ set_task_result("err")
  /\ phase' = "Failed"
  /\ Return
  /\ UNCHANGED <<decisions, active, certs, round, attempts, input, acks, listed, stale>>

DeclineStored ==
  /\ pc = "declined"
  /\ set_task_result("err")
  /\ phase' = "Declined"
  /\ Return
  /\ UNCHANGED <<decisions, active, certs, round, attempts, input, acks, listed, stale>>

-----------------------------------------------------------------------------
(***************************************************************************)
(* update_task.  A device sends the messages of all its active shares at   *)
(* once, so input is the set of devices whose messages have arrived.       *)
(***************************************************************************)
ActiveDevices == {Owner[i] : i \in active}

waiting_for(d) == d \in ActiveDevices \ input

\* The update is refused (another attempt, or a device that is not waited
\* for), panics (a group task whose certificates were not sent) or does not
\* bring one message per share, so that receive_messages drops it; it still
\* counts as activity of the task.
UpdateRefused(d, attempt, complete) ==
  /\ pc = "idle"
  /\ phase = "Running"
  /\ attempt # attempts \/ ~waiting_for(d) \/ (Kind = "Group" /\ ~certs) \/ ~complete
  /\ stale' = FALSE
  /\ UNCHANGED <<db, mem, handler, listed>>

UpdateReceived(d, attempt) ==
  /\ pc = "idle"
  /\ phase = "Running"
  /\ attempt = attempts /\ waiting_for(d) /\ (Kind = "Group" => certs)
  /\ stale' = FALSE
  /\ UNCHANGED <<db, phase, decisions, active, certs, attempts, acks, who, chosen, listed>>

\* round_received, with the message of d
LastMissing(d) == ActiveDevices \subseteq input \cup {d}

\* RoundUpdate::Listen
Listen(d, attempt) ==
  /\ UpdateReceived(d, attempt)
  /\ ~LastMissing(d) \/ round > LastRound
  /\ input' = input \cup {d}
  /\ UNCHANGED <<round, pc>>

\* start_task and advance_task; a PDF task that starts here can fail to, or
\* panic while it talks to its helper process.
NextRound(d, attempt) ==
  /\ UpdateReceived(d, attempt)
  /\ LastMissing(d) /\ round < LastRound
  /\ \/ round' = round + 1 /\ input' = {} /\ pc' = "round"
     \/ /\ Kind = "SignPdf" /\ round = 0
        /\ input' = input \cup {d} /\ pc' \in {"failed", "idle"} /\ UNCHANGED round

\* Mutant: the round is not compared with last_round before finalize_task.
FinalizeAgain(d, attempt, outcome) ==
  /\ UpdateReceived(d, attempt)
  /\ LastMissing(d) /\ round >= LastRound
  /\ round' = round + 1
  /\ \/ outcome = "value" /\ input' = {} /\ pc' = "final_round"
     \/ outcome = "none" /\ input' = input \cup {d} /\ pc' = "failed"
     \/ /\ outcome = "panic" /\ UNCHANGED pc
        /\ input' = input \cup {d} \/ (Kind = "SignPdf" /\ input' = {})

\* finalize_task: the last messages agree on a value; or one of them does
\* not verify; or they disagree (an assertion fails), or the certificate of
\* the new group cannot be issued, or the helper of a PDF task is gone.
Finalize(d, attempt, outcome) ==
  /\ UpdateReceived(d, attempt)
  /\ LastMissing(d) /\ round = LastRound
  /\ round' = round + 1
  /\ \/ outcome = "value" /\ input' = {} /\ pc' = "final_round"
     \/ outcome = "none" /\ input' = input \cup {d} /\ pc' = "failed"
     \/ /\ outcome = "panic" /\ UNCHANGED pc
        /\ input' = input \cup {d} \/ (Kind = "SignPdf" /\ input' = {})

RoundStored ==
  /\ pc = "round"
  /\ set_task_round(round)
  /\ Return
  /\ UNCHANGED <<mem, listed, stale>>

FailureStored ==
  /\ pc = "failed"
  /\ set_task_result("err")
  /\ phase' = "Failed"
  /\ Return
  /\ UNCHANGED <<decisions, active, certs, round, attempts, input, acks, listed, stale>>

\* Mutants: the round after the last is not stored; the result is stored
\* before the group.
FinalRoundDropped ==
  /\ pc = "final_round"
  /\ pc' = IF Kind = "Group" THEN "group" ELSE "finished"
  /\ UNCHANGED <<db, mem, who, chosen, listed, stale>>

ResultBeforeGroup ==
  /\ pc = "final_round"
  /\ set_task_round(round)
  /\ pc' = "finished"
  /\ UNCHANGED <<mem, who, chosen, listed, stale>>

\* RoundUpdate::Finished: the round, the group of a group task, the result.
FinalRoundStored ==
  /\ pc = "final_round"
  /\ set_task_round(round)
  /\ pc' = IF Kind = "Group" THEN "group" ELSE "finished"
  /\ UNCHANGED <<mem, who, chosen, listed, stale>>

GroupStored ==
  /\ pc = "group"
  /\ add_group
  /\ pc' = "finished"
  /\ UNCHANGED <<mem, who, chosen, listed, stale>>

ResultStored ==
  /\ pc = "finished"
  /\ set_task_result("ok")
  /\ phase' = "Finished" /\ acks' = {}
  /\ Return
  /\ UNCHANGED <<decisions, active, certs, round, attempts, input, listed, stale>>

-----------------------------------------------------------------------------
(***************************************************************************)
(* acknowledge_task                                                        *)
(***************************************************************************)
acknowledge_task(d) ==
  /\ pc = "idle"
  /\ phase = "Finished"
  /\ acks' = acks \cup {d}
  /\ pc' = "ack" /\ who' = d
  /\ UNCHANGED <<db, phase, decisions, active, certs, round, attempts, input>>
  /\ UNCHANGED <<chosen, listed, stale>>

AcknowledgementStored ==
  /\ pc = "ack"
  /\ set_task_acknowledgement(who)
  /\ Return
  /\ UNCHANGED <<mem, listed, stale>>

-----------------------------------------------------------------------------
(***************************************************************************)
(* restart_stale_tasks, run by the timer.  The list of stale candidates is *)
(* read first, without the guard of any of them.                           *)
(***************************************************************************)
ListStale ==
  /\ ~listed
  /\ Candidate /\ stale
  /\ dbAttempts < MaxAttempts
  /\ listed' = TRUE
  /\ UNCHANGED <<db, mem, handler, stale>>

restart_stale_tasks ==
  /\ listed
  /\ pc = "idle"
  /\ phase = "Running"
  /\ stale' = FALSE
  /\ pc' = "attempt"
  /\ UNCHANGED <<db, mem, who, chosen, listed>>

\* Mutant: restart does not call increment_attempt_count.
AttemptNotCounted ==
  /\ pc = "attempt"
  /\ increment_task_attempt_count
  /\ \/ round' = 1 /\ input' = {} /\ pc' = "restart_round"
     \/ Kind = "SignPdf" /\ pc' = "restart_failed" /\ UNCHANGED <<round, input>>
  /\ UNCHANGED <<phase, decisions, active, certs, attempts, acks, who, chosen, listed, stale>>

\* The attempt is stored; task.restart() starts the protocol again.
AttemptStored ==
  /\ pc = "attempt"
  /\ increment_task_attempt_count
  /\ attempts' = attempts + 1
  /\ \/ round' = 1 /\ input' = {} /\ pc' = "restart_round"
     \/ Kind = "SignPdf" /\ pc' = "restart_failed" /\ UNCHANGED <<round, input>>
  /\ UNCHANGED <<phase, decisions, active, certs, acks, who, chosen, listed, stale>>

\* Mutant: the round a restart goes back to is not stored.
RestartNotStored ==
  /\ pc = "restart_round"
  /\ listed' = FALSE
  /\ Return
  /\ UNCHANGED <<db, mem, stale>>

RestartStored ==
  /\ pc = "restart_round"
  /\ set_task_round(1)
  /\ listed' = FALSE
  /\ Return
  /\ UNCHANGED <<mem, stale>>

RestartFailureStored ==
  /\ pc = "restart_failed"
  /\ set_task_result("err")
  /\ phase' = "Failed"
  /\ listed' = FALSE
  /\ Return
  /\ UNCHANGED <<decisions, active, certs, round, attempts, input, acks, stale>>

\* More than 30 s pass without set_task_last_update.
BecomeStale ==
  /\ ~stale
  /\ stale' = TRUE
  /\ UNCHANGED <<db, mem, handler, listed>>

-----------------------------------------------------------------------------
(***************************************************************************)
(* The process stops and is started again (State::restore); everything but *)
(* the database is lost.  task_last_updates is empty, so the 30 s start    *)
(* anew.                                                                   *)
(***************************************************************************)
ProcessRestart ==
  /\ phase' = "Uncached" /\ decisions' = NoVotes /\ active' = {} /\ certs' = FALSE
  /\ round' = 0 /\ attempts' = 0 /\ input' = {} /\ acks' = {}
  /\ Return
  /\ listed' = FALSE /\ stale' = FALSE
  /\ UNCHANGED db

\* restart_stale_tasks returns an error for a task that is not running any
\* more, as it does for one it cannot read; run_timer unwraps it.
TimerFails ==
  /\ listed
  /\ pc = "idle"
  /\ IF phase = "Uncached" THEN ~Readable ELSE phase # "Running"

TimerPanic == TimerFails /\ ProcessRestart

\* Also what a failed statement of the timer leads to.
Crash == ProcessRestart

Next ==
  \/ ensure_cached_tasks
  \/ \E d \in Devices, vote \in {"accept", "reject"} : decide_task(d, vote)
  \/ DecisionRefused \/ DecisionStored \/ choose_active_shares
  \/ CertificatesStored \/ FirstRoundStored \/ InitFailureStored \/ DeclineStored
  \/ \E d \in Devices, attempt \in 0 .. MaxAttempts :
       \/ \E complete \in BOOLEAN : UpdateRefused(d, attempt, complete)
       \/ Listen(d, attempt)
       \/ NextRound(d, attempt)
       \/ \E outcome \in FinalOutcomes : Finalize(d, attempt, outcome)
  \/ RoundStored \/ FailureStored \/ FinalRoundStored \/ GroupStored \/ ResultStored
  \/ \E d \in Devices : acknowledge_task(d)
  \/ AcknowledgementStored
  \/ ListStale \/ restart_stale_tasks
  \/ AttemptStored \/ RestartStored \/ RestartFailureStored
  \/ BecomeStale
  \/ TimerPanic
  \/ Crash

Spec == Init /\ [][Next]_vars

-----------------------------------------------------------------------------
(***************************************************************************)
(* Requests that stop half way: the statement a request awaits fails, or   *)
(* the request's future is dropped because its client went away, or its    *)
(* handler panics.  The guard is released and the cached task stays as the *)
(* handler left it.  The awaited statement may have been committed.        *)
(***************************************************************************)
Abort ==
  /\ pc \in RequestWrites
  /\ Return
  /\ UNCHANGED <<db, mem, listed, stale>>

AbortCommitted ==
  /\ \/ pc = "decision" /\ set_task_decision(who, decisions[who])
     \/ pc = "choose" /\ \E count \in Choices(Accepting(decisions)) :
                            set_task_active_shares(count)
     \/ pc = "certificates" /\ set_task_group_certificates_sent
     \/ pc = "initialized" /\ set_task_round(1)
     \/ pc \in {"init_failed", "declined", "failed"} /\ set_task_result("err")
     \/ pc \in {"round", "final_round"} /\ set_task_round(round)
     \/ pc = "group" /\ add_group
     \/ pc = "finished" /\ set_task_result("ok")
     \/ pc = "ack" /\ set_task_acknowledgement(who)
  /\ Return
  /\ UNCHANGED <<mem, listed, stale>>

FaultyNext == Next \/ Abort \/ AbortCommitted

FaultySpec == Init /\ [][FaultyNext]_vars

-----------------------------------------------------------------------------
(***************************************************************************)
(* Properties                                                              *)
(***************************************************************************)
\* The phase a client sees at its next request.  A task whose hydration fails
\* is not shown at all; it stands at the vote it was at.
ShownPhase ==
  IF phase # "Uncached" THEN phase ELSE IF Readable THEN HydratedPhase ELSE "Voting"

\* The attempt and the round a client sees once no handler has the task.  A
\* handler that stops leaves what is stored; restart_stale_tasks stores the
\* attempt first, and nobody sees it before it is through.
ShownAttempt ==
  IF pc \in {"restart_round", "restart_failed"} THEN dbAttempts - 1
  ELSE IF phase = "Running" THEN attempts ELSE dbAttempts

ShownRound == IF phase = "Running" /\ pc = "idle" THEN round ELSE dbRound

Promise == INSTANCE TaskPhases WITH phase <- ShownPhase, votes <- dbDecisions,
                                    attempt <- ShownAttempt, round <- ShownRound

\* As long as requests run to their end, the server keeps what TaskPhases
\* promises about a task, also when the process stops between any two
\* statements of decide_task, update_task or restart_stale_tasks.
KeepsPromise == Promise!Spec

\* A restart of the process gives a task that left the voting the same phase
\* again: hydrate_tasks tells declined from failed and voting from running by
\* the stored votes alone.
RestartKeepsPhase ==
  phase \notin {"Uncached", "Voting"} => Readable /\ HydratedPhase = phase

\* A running protocol and the one hydrate_communicator would rebuild have the
\* same active shares, as many as the threshold, all of devices that accepted.
RecoveredCommunicator ==
  phase = "Running" =>
    /\ active = Indices(dbActive)
    /\ Cardinality(active) = accept_threshold
    /\ ActiveDevices \subseteq Accepting(dbDecisions)

\* Between requests the stored round is the round of the running protocol,
\* except that the round after the last is stored only with its result.
RoundsAgree ==
  phase = "Running" /\ pc = "idle" =>
    \/ round = dbRound
    \/ round = LastRound + 1 /\ dbRound = LastRound

\* The attempt that update_task compares messages with is the stored one, so
\* a restart of the process never makes an old attempt current again.
AttemptsAgree == phase = "Running" => attempts = dbAttempts

\* A finished group task has its group: add_group commits before the result
\* that refers to it (the data inconsistency group_task_from_model reports).
ResultHasGroup == dbResult = "ok" /\ Kind = "Group" => dbGroups > 0

\* The acknowledgements a restart of the process would read are the cached
\* ones, so get_active_device_tasks hides a task from the devices that
\* acknowledged it and from no other.
AcknowledgementsAgree == phase = "Finished" /\ pc # "ack" => acks = dbAcks

\* A group whose task has no result yet belongs to a task the timer will
\* restart, and no attempt leaves more than one group behind.
GroupsAccounted ==
  /\ dbGroups > 0 /\ dbResult = "none" => Candidate
  /\ dbGroups <= dbAttempts + 1

-----------------------------------------------------------------------------
(***************************************************************************)
(* What a document, an assertion or an unwrap of the code says, and the    *)
(* code does not keep.                                                     *)
(***************************************************************************)
\* run_timer: "check_tasks(&state).await.unwrap()".  The timer never meets a
\* candidate for restart that is not running.
TimerFindsRunning == ~TimerFails

\* Communicator::new: "assert!(active_shares.len() > 1)".  A task that has to
\* be read back from the database can be.
HydrationSucceeds == phase = "Uncached" => Readable

\* ARCHITECTURE.md: "a running task cannot change into a voting task".
NeverVotesAgain == [][ShownPhase = "Running" => ShownPhase' # "Voting"]_vars

=============================================================================
