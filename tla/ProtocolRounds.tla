--------------------------- MODULE ProtocolRounds ---------------------------
(***************************************************************************)
(* The rounds of a running task: the Communicator collects one message per *)
(* active share, the protocol relays them and goes on to the next round,   *)
(* until the last messages give the result.  The devices poll the server   *)
(* for their work (get_task, or a pushed update) and answer with           *)
(* update_task; answers travel through a network that delays, reorders and *)
(* loses them.                                                             *)
(*                                                                         *)
(* The server stores the round and the attempt, not the messages, so when  *)
(* its process stops it comes back to the stored round and attempt with    *)
(* empty buffers.                                                          *)
(*                                                                         *)
(* A PDF task also needs a helper process, which hashes the document when  *)
(* the protocol is started and puts the signature into it in the end.  The *)
(* helpers of all PDF tasks are in a table behind one mutex, PDF_HELPERS.  *)
(* They do not outlive the process, and a panic while the mutex is locked  *)
(* poisons it: every later lock().unwrap() panics, until the process is    *)
(* restarted, which the panic of the timer brings about.                   *)
(*                                                                         *)
(* Devices are external.  They are taken to answer every round of every    *)
(* attempt at most once and not to act on the empty messages a restarted   *)
(* server has for them, nor on a task that is past its last round.         *)
(***************************************************************************)
EXTENDS Naturals, FiniteSets

CONSTANTS
  active_shares,  \* share index -> device
  index_offset,   \* ProtocolType::index_offset
  last_round,     \* Protocol::last_round
  MaxSlow,        \* bound on attempts given up while devices still work on them
  MaxFaults       \* bound on faults: updates lost, incomplete or sent again, stops of
                  \* the process, helpers that die, other tasks that poison the mutex,
                  \* certificates that are not issued

ASSUME RoundsAssumption ==
  /\ index_offset \in {0, 1}
  /\ DOMAIN active_shares \subseteq Nat
  /\ DOMAIN active_shares # {}
  /\ last_round \in Nat \ {0}
  /\ MaxSlow \in Nat /\ MaxFaults \in Nat

VARIABLES
  attempt,   \* TaskInfo.attempts
  round,     \* Protocol::round
  input,     \* Communicator.input: the messages of this round received so far
  output,    \* Communicator.output: index -> message
  result,    \* "none" while the task is running
  answered,  \* device -> the last attempt and round it answered
  net,       \* the updates under way
  faults,
  stored,    \* task.protocol_round, the round in the row of the task
  pdf,       \* it is a SignPDFTask
  group,     \* it is a GroupTask
  helper,    \* its entry in PDF_HELPERS, with the attempt whose hash it made
  poisoned   \* PDF_HELPERS is poisoned

helpers == <<pdf, group, helper, poisoned>>

vars == <<attempt, round, input, output, result, answered, net, faults, stored, helpers>>

Device == {active_shares[i] : i \in DOMAIN active_shares}

\* get_protocol_indices
Indices == {i + index_offset : i \in DOMAIN active_shares}

identifier_to_indices(d) ==
  {i + index_offset : i \in {j \in DOMAIN active_shares : active_shares[j] = d}}

Message == [share : Indices, attempt : Nat, round : Nat]

\* What send_all puts in every buffer, and what is there after a restart.
Filled(kind) == [i \in Indices |-> [kind |-> kind, from |-> {}]]

Helper == [attempt : Nat, alive : BOOLEAN]

NoHelper == <<>>

TypeOK ==
  /\ attempt \in Nat
  /\ round \in 0 .. last_round + 1
  /\ input \subseteq Message
  /\ output \in [Indices -> [kind : {"empty", "certificates", "init", "relay"},
                             from : SUBSET Message]]
  /\ result \in {"none", "value", "failed", "error", "misfit"}
  /\ answered \in [Device -> [attempt : Nat, round : Nat] \cup {<<>>}]
  /\ net \subseteq [device : Device, attempt : Nat, round : Nat, complete : BOOLEAN]
  /\ faults \in Nat
  /\ stored \in 0 .. last_round + 1
  /\ pdf \in BOOLEAN /\ group \in BOOLEAN
  /\ helper \in Helper \cup {NoHelper}
  /\ poisoned \in BOOLEAN

\* initialize of the task, in decide_task, once it is stored: a group task sends
\* the certificates, a threshold task starts the protocol.  A task whose start
\* was cut off before that is in TaskLifecycle.
Init ==
  /\ attempt = 0
  /\ \/ round = 0 /\ output = Filled("certificates") /\ pdf = FALSE
     \/ round = 1 /\ output = Filled("init") /\ pdf \in BOOLEAN
  /\ group = (round = 0)
  /\ stored = round
  /\ helper = IF pdf THEN [attempt |-> 0, alive |-> TRUE] ELSE NoHelper
  /\ poisoned = FALSE
  /\ input = {}
  /\ result = "none"
  /\ answered = [d \in Device |-> <<>>]
  /\ net = {}
  /\ faults = 0

-----------------------------------------------------------------------------
(***************************************************************************)
(* Communicator                                                            *)
(***************************************************************************)
Received == {m.share : m \in input}

waiting_for(d) == ~(identifier_to_indices(d) \subseteq Received)

\* Mutant: without the index offset of the protocol.
ReceiveRaw(u) ==
  {m \in input : m.share \notin identifier_to_indices(u.device)}
    \cup [share : {i \in DOMAIN active_shares : active_shares[i] = u.device},
          attempt : {u.attempt}, round : {u.round}]

\* An update without a message for every share of its device is dropped, and
\* the tasks do not look at the answer that says so.
receive_messages(u) ==
  IF u.complete
  THEN {m \in input : m.share \notin identifier_to_indices(u.device)}
         \cup [share : identifier_to_indices(u.device), attempt : {u.attempt}, round : {u.round}]
  ELSE input

\* Mutant: a share gets its own message back.
RelayToAll(messages) ==
  [i \in Indices |-> [kind |-> "relay", from |-> messages]]

relay(messages) ==
  [i \in Indices |-> [kind |-> "relay", from |-> {m \in messages : m.share # i}]]

\* Mutant: the shares are compared without the index offset.
RawReceived(messages) == {m.share : m \in messages} = DOMAIN active_shares

round_received(messages) == {m.share : m \in messages} = Indices

\* The last messages are signed broadcasts, and all of the same value: that of
\* the attempt they were computed in.  Otherwise a signature is not verified or
\* the assertion that they are equal fails.
get_final_message(messages) ==
  IF \A m \in messages : m.attempt = attempt /\ m.round = last_round
  THEN "value" ELSE "failed"

-----------------------------------------------------------------------------
Fault ==
  /\ faults < MaxFaults
  /\ faults' = faults + 1

(***************************************************************************)
(* Devices                                                                 *)
(***************************************************************************)
\* There is work for the device in its task: get_work, and an answer to it
\* that it has not given yet.
HasWork(d) ==
  /\ result = "none"
  /\ round <= last_round
  /\ waiting_for(d)
  /\ \A i \in Indices : output[i].kind # "empty"
  /\ answered[d] # [attempt |-> attempt, round |-> round]

Poll(d) ==
  /\ HasWork(d)
  /\ answered' = [answered EXCEPT ![d] = [attempt |-> attempt, round |-> round]]
  /\ \E complete \in BOOLEAN :
       /\ net' = net \cup {[device |-> d, attempt |-> attempt, round |-> round,
                            complete |-> complete]}
       /\ IF complete THEN UNCHANGED faults ELSE Fault
  /\ UNCHANGED <<attempt, round, input, output, result, stored, helpers>>

-----------------------------------------------------------------------------
(***************************************************************************)
(* update_task                                                             *)
(***************************************************************************)
\* The task is running, the update is not a stale one, and the device is
\* waited for.
Accepts(u) == result = "none" /\ u.attempt = attempt /\ waiting_for(u.device)

\* The update completes the round.
Completes(u) == Accepts(u) /\ round_received(receive_messages(u))

Refuse(u) ==
  /\ ~Accepts(u)
  /\ UNCHANGED <<attempt, round, input, output, result, stored, helpers>>

\* RoundUpdate::Listen
Listen(u) ==
  /\ Accepts(u)
  /\ input' = receive_messages(u)
  /\ ~round_received(receive_messages(u)) \/ round > last_round
  /\ UNCHANGED <<attempt, round, output, result, stored, helpers>>

\* start_task of a group task whose shares have received the certificates
StartTask(u) ==
  /\ Completes(u)
  /\ round = 0
  /\ round' = 1 /\ stored' = 1
  /\ output' = Filled("init")
  /\ input' = {}
  /\ UNCHANGED <<attempt, result, helpers>>

\* Mutant: the messages stay in the incoming buffers.
AdvanceKeepsInput(u) ==
  /\ Completes(u)
  /\ round > 0 /\ round < last_round
  /\ round' = round + 1 /\ stored' = round + 1
  /\ output' = relay(receive_messages(u))
  /\ input' = receive_messages(u)
  /\ UNCHANGED <<attempt, result, helpers>>

\* advance_task
AdvanceTask(u) ==
  /\ Completes(u)
  /\ round > 0 /\ round < last_round
  /\ round' = round + 1 /\ stored' = round + 1
  /\ output' = relay(receive_messages(u))
  /\ input' = {}
  /\ UNCHANGED <<attempt, result, helpers>>

\* The last messages of a PDF task give a signature, for the helper to include.
NeedsHelper(u) == pdf /\ get_final_message(receive_messages(u)) = "value"

\* The helper can be taken out of the table and can be talked to.
HelperUsable == ~poisoned /\ helper # NoHelper /\ helper.alive

\* The signature is put into the document that the helper has hashed.
include_signature == IF helper.attempt = attempt THEN "value" ELSE "misfit"

\* finalize_task
FinalizeTask(u) ==
  /\ Completes(u)
  /\ round = last_round
  /\ NeedsHelper(u) => HelperUsable
  /\ round' = round + 1 /\ stored' = round + 1
  /\ result' = IF NeedsHelper(u) THEN include_signature
               ELSE get_final_message(receive_messages(u))
  /\ helper' = IF NeedsHelper(u) THEN NoHelper ELSE helper
  /\ input' = {}
  /\ UNCHANGED <<attempt, output, pdf, group, poisoned>>

\* finalize_task of a PDF task panics when the mutex is poisoned, when there is
\* no helper, which poisons the mutex, or when the helper is dead.  The round
\* and the buffers have been changed by then, the rows have not.
FinalizePanics(u) ==
  /\ Completes(u)
  /\ round = last_round
  /\ NeedsHelper(u) /\ ~HelperUsable
  /\ round' = round + 1
  /\ input' = {}
  /\ poisoned' = (poisoned \/ helper = NoHelper)
  /\ helper' = IF poisoned THEN helper ELSE NoHelper
  /\ UNCHANGED <<attempt, output, result, stored, pdf, group>>

\* finalize_task of a group when the certificate cannot be issued, with an error
\* or a panic: the round is over by then, but the messages are still in the
\* buffers, and the rows have not been changed.
CertificateFails(u) ==
  /\ Fault
  /\ group
  /\ Completes(u)
  /\ round = last_round
  /\ get_final_message(receive_messages(u)) = "value"
  /\ round' = round + 1
  /\ input' = receive_messages(u)
  /\ net' = net \ {u}
  /\ UNCHANGED <<attempt, output, result, answered, stored, helpers>>

\* A device may send again what was refused.
update_task(u) ==
  /\ u \in net
  /\ \/ net' = net \ {u} /\ UNCHANGED faults
     \/ net' = net /\ Fault /\ Refuse(u)
  /\ \/ Refuse(u) \/ Listen(u) \/ StartTask(u) \/ AdvanceTask(u)
     \/ FinalizeTask(u) \/ FinalizePanics(u)
  /\ UNCHANGED answered

-----------------------------------------------------------------------------
(***************************************************************************)
(* restart_stale_tasks, and restarts of the process                        *)
(***************************************************************************)
\* Nothing will come in for this task any more.
Stuck == result = "none" /\ net = {} /\ \A d \in Device : ~HasWork(d)

\* 30 s without an update of the task.  Devices may only be slow, and their
\* answers still on the way.
Stale == result = "none" /\ (Stuck \/ attempt < MaxSlow)

\* Mutant: restart only goes back to the first round, and sends nothing out.
RestartSilently ==
  /\ Stale
  /\ round' = 1 /\ stored' = 1
  /\ input' = {}
  /\ UNCHANGED <<attempt, output, result, answered, net, faults, helpers>>

\* Mutant: restart does not begin a new attempt.
RestartSameAttempt ==
  /\ Stale
  /\ round' = 1 /\ stored' = 1
  /\ output' = Filled("init")
  /\ input' = {}
  /\ UNCHANGED <<attempt, result, answered, net, faults, helpers>>

\* Mutant: restart goes on in the round where it is, with what was received.
RestartKeepsInput ==
  /\ Stale
  /\ attempt' = attempt + 1
  /\ output' = Filled("init")
  /\ UNCHANGED <<round, stored, input, result, answered, net, faults, helpers>>

\* Mutant: the helper of the attempt before is left in the table.
RestartKeepsHelper ==
  /\ Stale
  /\ attempt' = attempt + 1
  /\ round' = 1 /\ stored' = 1
  /\ output' = Filled("init")
  /\ input' = {}
  /\ UNCHANGED <<result, answered, net, faults, helpers>>

\* increment_attempt_count and start_task.  The helper of a PDF task is killed
\* and another one started, which may fail and fails the task.
restart ==
  /\ Stale
  /\ ~(pdf /\ poisoned)
  /\ attempt' = attempt + 1
  /\ input' = {}
  /\ \/ /\ round' = 1 /\ stored' = 1
        /\ output' = Filled("init")
        /\ helper' = IF pdf THEN [attempt |-> attempt + 1, alive |-> TRUE] ELSE NoHelper
        /\ UNCHANGED result
     \/ /\ pdf
        /\ result' = "error"
        /\ helper' = NoHelper
        /\ UNCHANGED <<round, stored, output>>
  /\ UNCHANGED <<answered, net, faults, pdf, group, poisoned>>

\* The process comes back and hydrates the task.
Rehydrate ==
  /\ output' = Filled("empty")
  /\ input' = {}
  /\ helper' = NoHelper /\ poisoned' = FALSE
  /\ UNCHANGED <<result, answered, pdf, group>>

\* restart of a PDF task panics when the mutex is poisoned, with the new attempt
\* stored: the timer panics, and with it the process.
RestartPanics ==
  /\ Stale
  /\ pdf /\ poisoned
  /\ attempt' = attempt + 1
  /\ round' = stored
  /\ Rehydrate
  /\ UNCHANGED <<net, faults, stored>>

\* The process stops.
Crash ==
  /\ Fault
  /\ result = "none"
  /\ round' = stored
  /\ Rehydrate
  /\ UNCHANGED <<attempt, net, stored>>

\* It stops in restart_stale_tasks, with the new attempt stored and the round
\* not yet, or because starting the helper panics.
CrashInRestart ==
  /\ Fault
  /\ Stale
  /\ attempt' = attempt + 1
  /\ round' = stored
  /\ Rehydrate
  /\ UNCHANGED <<net, stored>>

\* It stops in update_task, with the last round stored and the result not yet.
CrashInFinalize(u) ==
  /\ Fault
  /\ Completes(u)
  /\ round = last_round
  /\ NeedsHelper(u) => HelperUsable
  /\ round' = round + 1 /\ stored' = round + 1
  /\ Rehydrate
  /\ net' = net \ {u}
  /\ UNCHANGED attempt

Lose ==
  /\ Fault
  /\ \E u \in net : net' = net \ {u}
  /\ UNCHANGED <<attempt, round, input, output, result, answered, stored, helpers>>

\* The helper process ends by itself; its entry stays in the table.
HelperDies ==
  /\ Fault
  /\ helper # NoHelper /\ helper.alive
  /\ helper' = [helper EXCEPT !.alive = FALSE]
  /\ UNCHANGED <<attempt, round, input, output, result, answered, net, stored, pdf, group,
                 poisoned>>

\* FinalizePanics of another PDF task.
OtherPanics ==
  /\ Fault
  /\ pdf /\ result = "none" /\ ~poisoned
  /\ poisoned' = TRUE
  /\ UNCHANGED <<attempt, round, input, output, result, answered, net, stored, pdf, group, helper>>

\* The task is over, and so are the updates of it.
Over ==
  /\ result # "none" /\ net = {}
  /\ UNCHANGED vars

Next ==
  \/ \E d \in Device : Poll(d)
  \/ \E u \in net : update_task(u) \/ CertificateFails(u)
  \/ restart
  \/ RestartPanics
  \/ Crash
  \/ CrashInRestart
  \/ \E u \in net : CrashInFinalize(u)
  \/ Lose
  \/ HelperDies
  \/ OtherPanics
  \/ Over

Spec == Init /\ [][Next]_vars

(***************************************************************************)
(* An active device keeps polling, an update that is not lost arrives, and *)
(* the timer restarts a task for which nothing comes in; if that ends the  *)
(* process, the process is started again.                                  *)
(***************************************************************************)
Fairness ==
  /\ \A d \in Device :
       /\ WF_vars(Poll(d))
       /\ WF_vars(\E u \in net : u.device = d /\ update_task(u))
  /\ WF_vars(Stuck /\ (restart \/ RestartPanics))

FairSpec == Spec /\ Fairness

-----------------------------------------------------------------------------
(***************************************************************************)
(* Properties                                                              *)
(***************************************************************************)
\* The buffers only ever hold messages of the current round of the current
\* attempt, or of the last one when finalize_task has left them there.
\* update_task compares the attempt of an update and nothing else: that no
\* message of another round of the attempt gets in follows from what the server
\* waits for.
RoundIntegrity ==
  \A m \in input :
    /\ m.attempt = attempt
    /\ m.round = IF round <= last_round THEN round ELSE last_round

\* What a share is given to work on in a round is one message of each of the
\* other active shares, all of the round before in the same attempt.
RelayComplete ==
  \A i \in Indices :
    output[i].kind = "relay" /\ result = "none" /\ round <= last_round =>
      /\ {m.share : m \in output[i].from} = Indices \ {i}
      /\ \A m \in output[i].from : m.attempt = attempt /\ m.round = round - 1

\* The protocol does not end with last messages that disagree
\* (get_final_message).
AgreedResult == result # "failed"

\* Why RoundIntegrity holds: an update of the current attempt on its way is of
\* the current round and from a device that nothing was received from, and what
\* was received from a device covers all its shares.
Underway ==
  /\ \A u \in net :
       /\ u.attempt <= attempt
       /\ u.attempt = attempt /\ result = "none" =>
            /\ u.round = round
            /\ answered[u.device] = [attempt |-> attempt, round |-> round]
            /\ identifier_to_indices(u.device) \cap Received = {}
  /\ \A d \in Device :
       \/ identifier_to_indices(d) \subseteq Received
       \/ identifier_to_indices(d) \cap Received = {}

\* The signature a group has made of a PDF is put into the document it was made
\* for: the helper that include_signature finds in the table is the one that
\* made the hash of the attempt.
SignatureFits == result # "misfit"

\* The attempt has all it needs to get to its end: every device that the server
\* waits for has work that it has not done yet, or its update is on its way, and
\* a PDF task has its helper.
OnTrack ==
  /\ result = "none" /\ round <= last_round
  /\ \A i \in Indices : output[i].kind # "empty"
  /\ \A d \in Device :
       waiting_for(d) =>
         \/ answered[d] # [attempt |-> attempt, round |-> round]
         \/ \E u \in net : u.device = d /\ u.attempt = attempt /\ u.complete
  /\ pdf => HelperUsable

\* One restart is enough: a task is on track from the start, restart puts it back
\* on track, and without another fault nothing that the server or the devices
\* do, late answers to other attempts included, gets it off before its end.
StaysOnTrack ==
  /\ OnTrack
  /\ [][(OnTrack \/ restart) /\ faults' = faults =>
          OnTrack' \/ result' = "value" \/ (pdf /\ result' = "error")]_vars

\* A task on track is never left to the timer: a device has work to do, or there
\* is an update on its way that update_task will accept and not drop.
OnTrackMoves ==
  OnTrack => \/ \E d \in Device : HasWork(d)
             \/ \E u \in net : Accepts(u) /\ u.complete

\* A task whose start was stored ends: whatever restarts of the process, lost,
\* incomplete and repeated updates did to a round, dead helpers and panics to a
\* PDF task, and failing certificates to a group, the timer starts the protocol
\* again and the devices finish it.  Only a PDF task may end because no helper
\* can be started.
Terminates == <>(result = "value" \/ (pdf /\ result = "error"))

=============================================================================
