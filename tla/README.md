# TLA+ models of meesign-server

meesign-server coordinates multi-party threshold protocols: devices register, form groups that
share a key, and vote on and run signing and decryption tasks. The server relays the messages of
the devices and keeps the tasks, in PostgreSQL and in a cache. These modules model that
coordination: what the handlers do to the rows and to the cached tasks, statement by statement,
when requests overlap, updates are late or lost, and the process is stopped and started again.

## The system

| part | source (under `src/src`) | state | operations |
|---|---|---|---|
| voting | `tasks/mod.rs` | votes of the participants, as i8 | `VotingTask::decide` |
| running tasks | `tasks/{group,sign,decrypt,sign_pdf}.rs` | attempt, communicator, protocol, certificates sent | `initialize`, `update`, `restart` |
| protocols | `protocols/*.rs` | round | `initialize`, `advance`, `finalize` |
| communicator | `communicator.rs` | one input and one output buffer per active share | `receive_messages`, `relay`, `send_all`, `get_final_message` |
| state | `state.rs` | devices, subscribers, times of the last updates | `add_*`, `decide_task`, `update_task`, `acknowledge_task`, `restart_stale_tasks`, `send_updates`, `restore` |
| task store | `cached_task_store.rs` | cache of tasks, each behind a lock | `persist_task`, `get_task`, `get_task_mut`, hydration |
| persistence | `persistence/` | the rows | one function per statement or transaction |
| interfaces | `interfaces/{grpc,timer}.rs` | streams of subscribers | requests; `check_tasks`, `check_subscribers` every second |

A request reaches `state`, which takes the write guard of the task from the task store, changes
the cached task, awaits the statements that store the change, pushes the new state to the
subscribers and releases the guard. The timer does the same for tasks without an update for 30 s.
After a restart of the process the cache is empty and a task is hydrated from its rows at the next
access. The phase, the accept threshold, the share indices and the messages of a round are not
stored; the first three are derived again, the messages are lost.

What is hard here: stops between two statements of a handler; hydration at the same time as
creation or as another hydration; a list of stale tasks that is out of date when it is worked
through; late answers to an earlier round or attempt; channels that fill up or close while
somebody sends, or while a device gets its list of tasks; a table of PDF helpers behind a mutex that a
panic poisons; votes narrowed to eight bits. `PROJECT.json` lists these hazards at their lines,
with the properties that cover them.

## Modules

| module | models |
|---|---|
| `TaskVotes` | one task as data: shares and their owners, the counts and thresholds of a vote, the choice and the indices of active shares |
| `TaskPhases` | abstract specification of a task: what clients may rely on about its phase, votes, attempt and round |
| `TaskCell` | abstract specification of the task store: one record behind one lock |
| `TaskLifecycle` | the rows and the cached copy of one task, and the four handlers that change them |
| `TaskStore` | the cache: overlapping hydrations, the guard, the creation of a task |
| `ProtocolRounds` | the rounds of a running task: communicator, protocol, PDF helper, devices and network |
| `Notifications` | subscriptions, `send_updates`, `check_subscribers`, the list of a device's tasks |
| `Registry` | registration, creation of groups and tasks, rows against memory, the list of groups |
| `VoteWidth` | the i8 arithmetic of votes |
| `TaskLifecycleProofs`, `TaskLifecycleSteps`, `TaskLifecycleSafety` | proofs about `TaskLifecycle`: the invariants and `FaultInv`; that every step keeps `IndInv`; the theorems and the refinement |
| `TaskStoreProofs`, `ProtocolRoundsProofs`, `NotificationsProofs`, `RegistryProofs`, `VoteWidthProofs` | proofs about the module of that name |
| `MC*` | values of the constants for TLC |

How they fit together. `TaskLifecycle` takes for granted that one handler at a time works on the
one copy of a task, and that a restart of the process gives it back as stored: `TaskCell` says that, and
`TaskStore` shows it (`ActsAsCell`). It assumes a task with a
valid threshold and a supported protocol: `Registry` shows that requests create no other
(`TasksRunnable`). It counts shares where the code adds signed bytes: `VoteWidth` shows that this
is the same up to 127 shares per device, and not beyond (`CountsShares`). `ProtocolRounds` assumes that round and attempt
survive a restart of the process: `TaskLifecycle` shows it (`RoundsAgree`, `AttemptsAgree`). It begins with a
task whose start was stored; the statements before that are in `TaskLifecycle` only.
`Notifications` uses only that handlers of one task exclude each other.

### TaskLifecycle

Variables `db...` are the rows of the task; `phase`, `decisions`, `active`, `certs`, `round`,
`attempts`, `input` and `acks` are the cached `Task`; `pc`, `who` and `chosen` belong to the handler
that holds the guard; `listed` and `stale` to the timer. A step of a handler reaches from one await of a
statement to the next, and the action is named after the statement that has just been answered:
`decide_task`, `DecisionStored`, `choose_active_shares`, `CertificatesStored` or
`FirstRoundStored`, and so on. Repository functions are operators of the same names
(`set_task_decision`, `set_task_round`, ...). `Crash` may come between any two steps; `ensure_cached_tasks`
is the hydration. `TimerPanic` is the `unwrap` in `run_timer`: the process ends, because `main` joins
the timer and the server. Which devices are connected when shares are chosen is left open, which
covers every outcome of the activity timestamps and of the random choice. `send_updates`
after a handler's statements does not change the task and is in `Notifications`.

Clients see the phase, the votes, the attempt and the round of `TaskPhases` in `TaskLifecycle` as follows.
The votes are the stored ones. The phase is that of the cached task, or the one hydration would give
(`ShownPhase`). The round is the cached one when no handler has the task and the stored one otherwise
(`ShownRound`), because a handler that stops leaves what is stored. The attempt is the cached one, and a
new attempt is shown when its handler is through (`ShownAttempt`). `TaskPhases` has two steps that one
might not expect, and that the code does take: `Retract`, where `finalize_task` counted the round in memory and panicked, and the task
is next seen with the round that is stored; and a restart that counts the attempt and stays in the
round, because the process stopped between the two statements.

`Spec` has requests that run to their end. `FaultySpec` adds `Abort` and `AbortCommitted`: a statement
fails or the request is dropped, before or after the statement was committed.

### TaskStore

The content of a task is a version number; a torn read (rows of different versions) is the version
`Torn`. Clients go through `ensure_cached_tasks` (`Begin`, `ReadModel`, `ReadRest`, `Insert`), clone the
Arc (`Lookup`), wait for the lock behind those that came before (`ahead`, `Lock`), and read, or change and store. `CreateRows` and `CacheNew`
are `persist_task`.

`TaskCell` has none of this: a record, a lock that readers share and a writer has alone, changes that are stored
one at a time, and a restart that loses at most the change not stored yet. The record is the cached Task, or the rows
if there is none. `Replaced` says that `persist_task` found the task it creates in the cache and put its own
in the place (`create_race`). Until the next restart of the process there are then two Tasks,
and nothing is promised; in every other state, also during a creation, the properties hold.

### ProtocolRounds

A message is its share, its attempt and its round; what it says is not modelled. Devices are
external: they answer each round of an attempt once, with one message per active share, and have
nothing to answer to empty messages. `get_final_message` gives a value when the last messages were
computed in the same attempt, which is when devices agree. `stored` is the round in the row of the
task, to which a restarted process comes back; it differs from `round` only after `finalize_task` has
panicked or returned an error.

A PDF task (`pdf`) has a helper process that hashes the document when the protocol is started and
includes the signature when it ends. `helper` is its entry in `PDF_HELPERS`, with the attempt whose
hash it made, and `poisoned` says that the mutex of the table is poisoned. `FinalizePanics` is
`finalize_task` without a helper that can be used: if there is none in the table, the `unwrap` runs
with the mutex locked and poisons it. `RestartPanics` is the timer that meets a poisoned mutex: the
process ends and comes back with an empty table and a mutex that is not poisoned, so that the next
restart of the task succeeds.

Faults, bounded by `MaxFaults`: updates that are lost (`Lose`), incomplete (dropped by
`receive_messages`, whose answer nobody looks at), or sent again after they were refused; stops of the process
between requests and inside them (`Crash`, `CrashInRestart`, `CrashInFinalize`); helpers that die
(`HelperDies`); other PDF tasks that poison the mutex (`OtherPanics`); certificates of a GG18 group (`group`)
that cannot be issued (`CertificateFails`), after which the task is a round past its end in memory, with full
buffers, until the timer restarts it.

### Notifications, Registry, VoteWidth

`Notifications` follows the map of subscribers with one bounded channel per device; a handler sends
to one device per step and unsubscribes afterwards, so that other handlers, the timer and new
subscriptions come in between. Version 0 of a task is before its creation, version 1 its creation.
Devices are external: they keep one stream, subscribe again when it ends, and then ask for their
tasks: `get_tasks` is the statement that finds the ids, and `get_task` the reading of one of them
under the guard of the task. A task not in the list did not exist when the list was made, and
counts as told (`fetched`). `Registry` has the requests that create rows, with any set of
devices, any shares up to a bound, any threshold (also invalid ones) and any protocol and key type;
refused requests leave everything unchanged and are not steps. The list of groups (all, or those of a device) is read
in two steps, participants (`get_groups`) and then groups (`GroupsRead`), with everything else in between. `VoteWidth` computes votes with casts to
eight bits that wrap, as the release build does; `decide` is `decide_task` up to the phase that comes of it (`Outcomes`),
and `hydrate` reads votes and phase back from the rows. Nothing in the requests limits the shares of a
device, and neither does the module.

## Runs

Runs that pass:

| run | checks | bounds |
|---|---|---|
| `lifecycle_pdf` | `TypeOK`, `RestartKeepsPhase`, `RecoveredCommunicator`, `RoundsAgree`, refinement of `TaskPhases` (`KeepsPromise`) | three devices, one of them with two shares; threshold 3 of 4; 2 rounds, 2 restarts |
| `lifecycle_group` | `AttemptsAgree`, `ResultHasGroup`, `GroupsAccounted`, `AcknowledgementsAgree`, `KeepsPromise` | two devices, three shares; 2 rounds, 2 restarts, up to 4 groups |
| `store` | `TypeOK`, `SingleCopy`, `Exclusive`, `Coherent`, `NeverTorn`, `NoLostChange`, refinement of `TaskCell` (`ActsAsCell`), `EveryRequestReturns` | three clients beside the creator, two changes |
| `rounds` | `TypeOK`, `RoundIntegrity`, `RelayComplete`, `AgreedResult`, `SignatureFits`, `Underway`, `OnTrackMoves`, `StaysOnTrack`, `Terminates` | a group, a threshold or a PDF task; four shares with gaps between their indices (1, 3, 4, 5), offset 1, three rounds, one premature restart, two faults |
| `notifications` | `TypeOK`, `SettledCurrent`, `NothingMissed`, `ClosedRemoved`, `Converges` | two tasks, each created and changed once, channel of two, two disconnections |
| `vote_counts` | `CountsShares`, `RestartSameOutcome` | three devices with 1, 127, 128, 129 or 256 shares; thresholds 1, 2, 128, 255 and all shares |
| `registry` | `TypeOK`, `TasksRunnable`, `ParticipantsKnown`, `SameVote`, `ListedWhole` | two devices (symmetric) with up to two shares, two tasks; a protocol for each key type and a combination that is not supported; one list at a time |

The bounds have names in the modules: `MaxAttempts`, `MaxGroups`, `MaxVersion`, `MaxSlow`, `MaxFaults`,
`MaxDisconnects`, `MaxShares`, `MaxTasks`, `Capacity`. They are enough for the cases the properties are about: a device with
several shares and one with a single one, shares beyond the threshold (so that there is a choice of
active shares, and a rejection that does not decline), a restart of an attempt that was itself a
restart, two faults in one task (a stop during the recovery from a stop, a poisoned mutex and a dead
helper), both sides of the limits of an i8 and a number that is cast to zero, two handlers sending to
the same full channel, a channel that is replaced between the test and the removal, a threshold
task after its group task. Channels hold eight updates in the code; two are enough to fill one with
the two tasks. Two tasks in `registry` are a group and a threshold task of it, the longest chain of creations there is.

Runs that show a disagreement between the code and what is written about it (`findings` in
`PROJECT.json` has the quotations):

| run | property | what happens |
|---|---|---|
| `timer_race` | `TimerFindsRunning` | a task ends after it was listed as stale; `run_timer` unwraps the error |
| `crash_before_active` | `HydrationSucceeds` | the deciding vote is stored, the active shares are not; `Communicator::new` asserts more than one share |
| `lost_vote` | `NeverVotesAgain` | a vote that counted in memory was never stored; after a restart a running task is in the vote (`FaultySpec`) |
| `create_race` | `PersistReturns` | `persist_task` unwraps an Arc another request holds |
| `observer_lost` | `CreatorObserves` | observers are not stored |

A task that cannot be hydrated is shown to nobody; `ShownPhase` lets it stand at the vote it was at.

Other consequences of the same windows, which the models have and no run singles out: a process that stops after
the active shares are stored and before certificates or the first round are comes back with a
running task at round 0 that `get_restart_candidates` does not list, and that never ends (`Terminates` is about tasks whose
start was stored); one that stops before the result
of a declined task is stored comes back with the task in the vote until the next vote; when
`create_running_task` refuses a PDF (`ValidInput` FALSE) the active shares stay stored, and so do those of a
`decide_task` that was interrupted, since `set_task_active_shares` does nothing on conflict (with `ValidInput`
FALSE the instance of `lifecycle_pdf` satisfies all its properties but `RecoveredCommunicator`: participants that
change their minds after the refusal leave active shares stored that belong to devices that no longer accept);
a PDF task that is accepted while `PDF_HELPERS` is poisoned panics in `decide_task` with its vote and active
shares stored and no round, like a stop at that point; a device
with 128 shares that accepts has the vote -128, so that a task may be declined although everybody accepts, and one with 256
shares has the vote 0 (hence the bound of 127 in `SharesAssumption`, the only limit on shares that the theorems
assume); and when a task is hydrated, changed and released before
`persist_task` inserts its copy, the change is lost from the cache.

### Fairness

- `TaskStore!Fairness`: a statement that was sent is answered, and handlers end. Weak fairness is
  enough, since the lock itself is modelled with its queue: tokio's `RwLock` serves its waiters in
  order.
- `ProtocolRounds!Fairness`: devices poll, updates that are not lost arrive, and the timer, which looks
  every second, restarts a task for which nothing comes in, or panics and ends the process, which is
  then started again. Faults and premature restarts are
  bounded: a task whose devices fail for ever does not end, and the code does not promise that it
  does.
- `Notifications!Fairness`: handlers and the timer run to their end, and a device with a stream reads
  it. `Converges` also assumes devices that subscribe again (`Reconnect`).

Deadlock is checked except in `Notifications` and `VoteWidth`, where everything may have been said and voted.
In `ProtocolRounds` the state in which a task is over has a step of its own (`Over`).

## Proofs

All proofs hold for every value of the constants that satisfies the named assumptions:
`SharesAssumption` and `KindAssumption` (`TaskVotes`), `ProtocolAssumption`, `StoreAssumption`,
`RoundsAssumption`, `NotificationsAssumption`, `RegistryAssumption`, `WidthAssumption`.

**TaskLifecycle.** `FaultInv` is inductive under `FaultySpec`: it has the types, which statements a handler
may be waiting for in which phase (`HandlerInv`), the equality of the two attempt counters also in the vote
(`AttemptInv`), and that a group is stored before a result is
on its way (`ResultInv`). It gives `TypeCorrect`, `AttemptSafety` and `GroupSafety`.
The passing runs check these properties under `Spec`; with faulty requests they are proved only.

`IndInv` adds what holds as long as requests run to their end and the input of a PDF task is valid
(`ValidInput`, a hypothesis of the theorems; what follows without it is described above). None of
the properties is inductive by itself: `RestartKeepsPhase` speaks of the moment after a restart, and depends on
what was stored before. `VotesInv` relates cached to stored votes and says at which
statement a vote may be decided; `ActiveInv` says when the stored active shares are none and when they are a
proper choice; `PhaseInv` ties the phase to votes and result; `StoredInv`
says the same of the rows alone, so that it survives a stop; `RoundInv`, `GroupInv` and `AckInv`
do so for rounds, groups and acknowledgements. `TaskLifecycleSteps` first shows what whole classes of steps
keep (`StillVoting`, `StillRunning`, `Ends`, `RowsKept`), and then goes through the actions. What the proofs need to know
about numbers of shares is `Counting`: assumed by their lemmas and proved by `ShareCounting` before the
theorems. The facts that follow from it are lemmas: a vote cannot be both accepted and rejected (`AcceptedNotRejected`), a group task
is accepted only if all of its devices accept (`GroupUnanimous`), a choice has as many indices as the
threshold and only of its candidates (`ChoiceProper`). This gives `PhaseSafety`,
`CommunicatorSafety`, `RoundSafety`, `OrphanSafety`, `AcknowledgementSafety`, and
that every step maps to a step of `TaskPhases` or to none (`Refinement`). `ShownStored` says which of the shown
values are the stored ones, `ShownCounters` that the counters stay when their rows do; then there is one lemma for each
group of steps (`PromiseVoting`, `PromiseUpdate`, `PromiseStored`, `PromiseTimer`, `PromiseProcess`), and
`PromiseQuiet` for those that clients do not see.

**TaskStore**, for any set of clients. Rows change only under a
write guard, a guard is had only through the cache, and an entry is replaced only by `persist_task`. So as long as
there is no entry nothing changes but the creation, and all hydrations read the same version (`UncachedInv`);
once there is one, it is the only Arc (`CachedInv`). If `persist_task` finds an entry there are two Arcs and the
argument does not apply (`create_race`); `CreationInv` is what still holds then, so that the theorems hold again from the next restart on.
`StoreNeverTorn` holds throughout: the rows are committed at once, and change only after a copy of them is cached.
`StoreRefinement` says that requests cannot tell the store from `TaskCell`: all of them see the version of the record
(`AllSeeCopy`), and hydrations and the order of the requests map to no step.

**ProtocolRounds**, for any number of devices, shares, rounds and faults. The server compares only
the attempt of an update. Why no message of another round gets in is `Underway`: a device whose answer of the current
attempt is under way has not been heard in this round, and the round does not
end without it. With it `RoundIntegrity`, `RelayComplete` and `AgreedResult` are inductive. `HelperCurrent` says that
a helper in the table was started for the present attempt, which gives `SignatureFits`;
`StoredRound` relates the round in the row to the one in memory, so that a stop does not let an update of
another round in, and says that no update of the attempt is under way once the last round is over, when the
buffers of a task whose certificate failed still hold the messages of that round; `OneUpdate` says that a device has one update of an attempt under way.

`StaysOnTrack` and `OnTrackMoves` are what `Terminates` rests on, apart from fairness. A task is on track
(`OnTrack`) when every device the server waits for has its messages still to answer, or its complete answer on
the way. `TrackSafety` shows that a new task is on track, that a restart by the timer puts any task
on track, and that without a further fault it stays there until it ends, whatever late answers to other attempts come in.
`TrackMoves` shows that a task on track always has somebody other than the timer to move it. `TrackInv` adds
two facts to the invariant: no device is ahead of the server (`AnswersPast`), so that what a new
round or attempt sends out has not been answered; and a round that goes on lacks a message (`StillWaiting`).

**Notifications**, for any number of devices and tasks and any capacity. `NothingMissed` speaks of tasks
whose handler is done. The invariant speaks of every device that the handler of the task is no more
going to send to or to unsubscribe: the last update of the task in its channel, if any, is the present
state (`ChannelCurrent`), and if the device was told of the task it has that state or it is in the channel
(`Told`). A task that was not created is in no channel and known to nobody (`Unheard`), which is what the
list needs. `PushUpdate` and `PopUpdate` are the facts about channels. `SettledCurrent` says what this comes to for a device: one
that has read its list and its channel, and whose stream is still fed, has the present state of every task that no handler is
working on, although updates may have been dropped and streams replaced. It follows with `StreamInv`: a device that has its list has
been told of every task, or has it still to read.

**Registry**, for any devices, shares, thresholds, protocols and number of tasks. `TasksRunnable` and
`ParticipantsKnown` are inductive together with the same facts about groups (`GroupsUsable`): a threshold task takes
everything from the row of its group, and the group from a task that `try_new` has accepted. The sum `total_shares` is
not computed in the proofs. `ListedWhole` needs that the participants read for a list stay those of the groups
(`RowsCurrent`), because a group is never changed.

**VoteWidth**, for any devices with any numbers of shares. A rejection is cast and negated in `decide`, and negated and cast
in `get_task_decisions`; both give the same i8 (`CastNegated`), so the votes read back are the cached ones (`RestoreSafety`).
A cast keeps a number exactly when it is between -128 and 127 (`CastFits`), which gives the first half of `CountsShares`;
when all votes fit, both sides of its second half add up the same numbers (`WorthWhenFits`).

Only model-checked:

- Liveness (`EveryRequestReturns`, `Terminates`, `ClosedRemoved`, `Converges`), since the prover has no rules for fairness
  and `ENABLED`. Of two of them the safety part is proved: `StaysOnTrack` and `OnTrackMoves` for `Terminates`,
  `SettledCurrent` for `Converges`.
- The phase in `RestartSameOutcome`. That the counts do not reach both thresholds is an inequality between sums over
  the devices, which takes an induction over their set. `PhaseSafety` proves it for votes that fit.

## Not modelled

- The content of certificates, and issuing those of devices; TLS and authentication beyond the lookup of the device; name validation; the command line client in
  `main.rs`; logging and `log`.
- The cryptographic content of messages: devices compute it, the server relays it.
- What a PDF helper computes, beyond the attempt it hashed the document for; helper processes that
  are left running after their task has failed.
- The list of devices (`get_devices`), which is read from memory and on which nothing depends.
- The list of active tasks leaves out finished tasks that the device has acknowledged; in `Notifications` nothing is acknowledged.
- The time of the last update and of the last activity of a device, beyond being old or recent.
- The pool of database connections.
- Requests that are dropped while they wait for the guard of a task.
- Clients that repeat an update that was already processed. The server has nothing to tell such an update from an
  answer to the current round; the models assume that devices answer a round once.
