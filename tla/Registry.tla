------------------------------ MODULE Registry ------------------------------
(***************************************************************************)
(* Devices, groups and tasks as the server registers them: the requests    *)
(* register, group, sign and decrypt, the rows they leave, and the copies  *)
(* in memory that are lost and read again when the process is restarted;   *)
(* and the list of groups, which is read while groups are added.           *)
(*                                                                         *)
(* What happens to a task after its creation is the matter of              *)
(* TaskLifecycle.  Of it only Establish is here, the group that a finished *)
(* group task leaves, because the threshold tasks of the group start from  *)
(* that row.                                                               *)
(***************************************************************************)
EXTENDS Naturals, Sequences, FiniteSets, FiniteSetsExt, Functions

CONSTANTS
  Devices,    \* devices that may register
  Suites,     \* the protocols and key types that are asked for
  MaxShares,  \* bound on the shares of a device in a request
  MaxTasks,   \* bound on tasks
  NoDevice    \* a request without a device id

Suite == [protocol : {"Gg18", "Frost", "Musig2", "Elgamal"},
          key_type : {"SignPdf", "SignChallenge", "Decrypt"}]

ASSUME RegistryAssumption ==
  /\ IsFiniteSet(Devices) /\ NoDevice \notin Devices
  /\ Suites \subseteq Suite
  /\ MaxShares \in Nat \ {0} /\ MaxTasks \in Nat

VARIABLES
  device,       \* the device table
  task,         \* the rows of the tasks in the order they are created, with their
                \* participants; and the creator, which is not stored, to state
                \* CreatorObserves
  group,        \* group id -> row, with its participants
  registering,  \* devices that are stored and not yet in memory
  devices,      \* StateInner.devices
  cache,        \* task id -> TaskInfo and accept_threshold, of the cached tasks
  list          \* the last list of groups asked for: the participants read for it
                \* and, once it is answered, the groups in it with theirs

vars == <<device, task, group, registering, devices, cache, list>>

\* Which device has how many shares.
Participants == UNION {[D -> 1 .. MaxShares] : D \in SUBSET Devices}

total_shares(participants) == MapThenSumSet(LAMBDA d : participants[d], DOMAIN participants)

TaskRow == [task_type : {"Group", "SignPdf", "SignChallenge", "Decrypt"}, suite : Suite,
            threshold : Nat, participants : Participants, creator : Devices \cup {NoDevice}]

GroupRow == [suite : Suite, threshold : Nat, participants : Participants]

NoList == [step |-> "none", device |-> NoDevice, rows |-> <<>>, groups |-> <<>>]

TypeOK ==
  /\ device \subseteq Devices
  /\ registering \subseteq device
  /\ devices \subseteq device
  /\ task \in Seq(TaskRow)
  /\ DOMAIN group \subseteq DOMAIN task
  /\ \A g \in DOMAIN group : group[g] \in GroupRow
  /\ DOMAIN cache \subseteq DOMAIN task
  /\ list = [step |-> list.step, device |-> list.device,
             rows |-> list.rows, groups |-> list.groups]
  /\ list.step \in {"none", "reading", "answered"}
  /\ list.device \in Devices \cup {NoDevice}
  /\ DOMAIN list.groups \subseteq DOMAIN group

Init ==
  /\ device = {} /\ registering = {} /\ devices = {}
  /\ task = <<>> /\ group = <<>> /\ cache = <<>> /\ list = NoList

-----------------------------------------------------------------------------
(***************************************************************************)
(* register: the row, then the copy in memory.  A request that stops in    *)
(* between leaves a device known only after the next restart.              *)
(***************************************************************************)
\* The row; a device id is stored once.
add_device(d) == d \notin device /\ device' = device \cup {d}

\* Mutant: the device is in memory before its row is stored.
KnownFirst(d) ==
  /\ d \notin device
  /\ devices' = devices \cup {d}
  /\ UNCHANGED <<device, task, group, registering, cache, list>>

register(d) ==
  /\ add_device(d)
  /\ registering' = registering \cup {d}
  /\ UNCHANGED <<task, group, devices, cache, list>>

DeviceStored(d) ==
  /\ d \in registering
  /\ registering' = registering \ {d}
  /\ devices' = devices \cup {d}
  /\ UNCHANGED <<device, task, group, cache, list>>

-----------------------------------------------------------------------------
(***************************************************************************)
(* group, sign and decrypt                                                 *)
(***************************************************************************)
\* Only a request that names a device has to name one the server knows.
check_client_auth(d) == d \in devices \cup {NoDevice}

NextId == Len(task) + 1

\* The row of a threshold task with its participants: as the group has them.
create_task(row) == task' = Append(task, row)

\* The row of a group task.
create_group_task(row) ==
  /\ row.threshold \in 1 .. total_shares(row.participants)
  /\ task' = Append(task, row)

\* The row, then the copy in the cache.
persist_task(row, accept_threshold, observers) ==
  /\ NextId <= MaxTasks
  /\ IF row.task_type = "Group" THEN create_group_task(row) ELSE create_task(row)
  /\ cache' = [i \in DOMAIN cache \cup {NextId} |->
                 IF i = NextId THEN [participants |-> row.participants,
                                     accept_threshold |-> accept_threshold,
                                     observers |-> observers]
                 ELSE cache[i]]
  /\ UNCHANGED <<device, group, registering, devices, list>>

\* Mutant: devices that are not known are participants as well.
KeepAllIds(request) == request

\* Ids of devices the server does not know are left out.
get_devices_with_ids(request) == Restrict(request, DOMAIN request \cap devices)

add_group_task(request, threshold, suite) ==
  LET participants == get_devices_with_ids(request)
  IN  persist_task([task_type |-> "Group", suite |-> suite, threshold |-> threshold,
                    participants |-> participants, creator |-> NoDevice],
                   total_shares(participants), {})

\* The row; the participants that are read with it are not used by the requests.
get_group(g) == group[g]

get_group_participants(g) == group[g].participants

\* A threshold task takes everything but its data from the row of its group.
ThresholdTask(g, creator) ==
  [task_type |-> get_group(g).suite.key_type, suite |-> get_group(g).suite,
   threshold |-> get_group(g).threshold, participants |-> get_group_participants(g),
   creator |-> creator]

add_sign_task(g) ==
  /\ get_group(g).suite.key_type # "Decrypt"
  /\ persist_task(ThresholdTask(g, NoDevice), get_group(g).threshold, {})

\* The device that asks for it, if any, is an observer unless it takes part.
add_decrypt_task(g, creator) ==
  /\ check_client_auth(creator)
  /\ get_group(g).suite.key_type = "Decrypt"
  /\ persist_task(ThresholdTask(g, creator), get_group(g).threshold,
                  {creator} \ (DOMAIN get_group_participants(g) \cup {NoDevice}))

-----------------------------------------------------------------------------
\* check_threshold
check_threshold(protocol, threshold, group_size) ==
  /\ threshold >= 2
  /\ threshold <= group_size
  /\ protocol = "Musig2" => threshold = group_size

\* create_keygen_protocol and create_threshold_protocol
Supported(suite) ==
  suite \in [protocol : {"Gg18"}, key_type : {"SignPdf", "SignChallenge"}]
            \cup [protocol : {"Frost", "Musig2"}, key_type : {"SignChallenge"}]
            \cup [protocol : {"Elgamal"}, key_type : {"Decrypt"}]

\* The group has the participants of the task, as they are stored.
add_group(t) ==
  group' = [g \in DOMAIN group \cup {t} |->
              IF g = t THEN [suite |-> task[t].suite, threshold |-> task[t].threshold,
                             participants |-> task[t].participants]
              ELSE group[g]]

\* Mutant: a group task runs with any threshold.
AnyThreshold(t) == Supported(task[t].suite)

\* GroupTask::try_new accepts the accepted task.
try_new(t) ==
  /\ Supported(task[t].suite)
  /\ check_threshold(task[t].suite.protocol, task[t].threshold,
                     total_shares(task[t].participants))

\* A group task ran and has finished with a group.
Establish(t) ==
  /\ task[t].task_type = "Group"
  /\ t \notin DOMAIN group
  /\ try_new(t)
  /\ add_group(t)
  /\ UNCHANGED <<device, task, registering, devices, cache, list>>

-----------------------------------------------------------------------------
\* The process is restarted: restore reads the devices, and no task.
restore ==
  /\ devices' = device
  /\ registering' = {}
  /\ cache' = <<>>
  /\ list' = NoList
  /\ UNCHANGED <<device, task, group>>

\* Mutant: the threshold of a group task taken for its accept threshold.
ThresholdAccepts(t) == task[t].threshold

HydratedThreshold(t) ==
  IF task[t].task_type = "Group" THEN total_shares(task[t].participants) ELSE task[t].threshold

get_tasks_participants(t) == task[t].participants

hydrate_tasks(t) ==
  /\ t \notin DOMAIN cache
  /\ cache' = [i \in DOMAIN cache \cup {t} |->
                 IF i = t THEN [participants |-> get_tasks_participants(t),
                                accept_threshold |-> HydratedThreshold(t),
                                observers |-> {}]
                 ELSE cache[i]]
  /\ UNCHANGED <<device, task, group, registering, devices, list>>

-----------------------------------------------------------------------------
(***************************************************************************)
(* get_groups: the participants and the groups are read by two statements  *)
(* without a transaction, so that a group may be added in between.         *)
(***************************************************************************)
\* The groups that are listed for a device, or all of them.
get_device_groups(d) ==
  {g \in DOMAIN group : d = NoDevice \/ d \in DOMAIN get_group_participants(g)}

\* Mutant: without the second join, only the rows of the device itself.
OwnRows(d) ==
  [g \in get_device_groups(d) |->
     IF d = NoDevice THEN get_group_participants(g)
     ELSE Restrict(get_group_participants(g), {d})]

ParticipantRows(d) == [g \in get_device_groups(d) |-> get_group_participants(g)]

\* Any client may ask for the groups of any device.
get_groups(d) ==
  /\ list.step # "reading"
  /\ list' = [step |-> "reading", device |-> d, rows |-> ParticipantRows(d), groups |-> <<>>]
  /\ UNCHANGED <<device, task, group, registering, devices, cache>>

\* A group whose participants were not there yet is listed with none.
GroupsRead ==
  /\ list.step = "reading"
  /\ list' = [list EXCEPT !.step = "answered",
                          !.groups = [g \in get_device_groups(list.device) |->
                                        IF g \in DOMAIN list.rows THEN list.rows[g] ELSE <<>>]]
  /\ UNCHANGED <<device, task, group, registering, devices, cache>>

-----------------------------------------------------------------------------
Next ==
  \/ \E d \in Devices : register(d) \/ DeviceStored(d)
  \/ \E request \in Participants, threshold \in 0 .. MaxShares * Cardinality(Devices) + 1,
        suite \in Suites : add_group_task(request, threshold, suite)
  \/ \E t \in DOMAIN task : Establish(t) \/ hydrate_tasks(t)
  \/ \E g \in DOMAIN group : add_sign_task(g)
  \/ \E g \in DOMAIN group, creator \in Devices \cup {NoDevice} : add_decrypt_task(g, creator)
  \/ \E d \in Devices \cup {NoDevice} : get_groups(d)
  \/ GroupsRead
  \/ restore

Spec == Init /\ [][Next]_vars

-----------------------------------------------------------------------------
(***************************************************************************)
(* Properties                                                              *)
(***************************************************************************)
\* A group row that threshold tasks can run with.
Established(row) ==
  /\ Supported(row.suite)
  /\ check_threshold(row.suite.protocol, row.threshold, total_shares(row.participants))

\* What TaskVotes assumes of a task holds of every task that a request can
\* create: the threshold is met by the shares, and a threshold task is of the
\* kind of its key, with a protocol that exists and can run with the threshold.
\* No request for a threshold task checks any of this again: it rests on what
\* was checked when the group was made.
TasksRunnable ==
  \A t \in DOMAIN task :
    /\ task[t].threshold \in 1 .. total_shares(task[t].participants)
    /\ task[t].task_type # "Group" =>
         task[t].task_type = task[t].suite.key_type /\ Established(task[t])

\* Every participant of a task and of a group is a device the running server
\* knows, so its requests are let in (check_client_auth), also while other
\* devices register and after a restart.
ParticipantsKnown ==
  /\ \A t \in DOMAIN task : DOMAIN task[t].participants \subseteq devices
  /\ \A g \in DOMAIN group : DOMAIN group[g].participants \subseteq devices

\* A task means the same vote whether its copy in memory is the one it was
\* created with or was read back from the rows.
SameVote ==
  \A t \in DOMAIN cache :
    /\ cache[t].participants = task[t].participants
    /\ cache[t].accept_threshold = IF task[t].task_type = "Group"
                                   THEN total_shares(task[t].participants)
                                   ELSE task[t].threshold

\* A list of groups has every group that was there when it was asked for and that
\* it is about, with all its participants and shares, whatever is established
\* while it is read.  A group established in between may be missing, or be
\* listed with no participants, but never with some of them.
ListedWhole ==
  list.step = "answered" =>
    /\ DOMAIN list.rows \subseteq DOMAIN list.groups
    /\ \A g \in DOMAIN list.groups :
         \/ list.groups[g] = group[g].participants
         \/ g \notin DOMAIN list.rows /\ list.groups[g] = <<>>

\* "Non-participant device IDs that should receive task updates": the device
\* that asked for a decryption and takes no part in it is among the observers.
CreatorObserves ==
  \A t \in DOMAIN cache :
    task[t].creator \in Devices \ DOMAIN task[t].participants =>
      task[t].creator \in cache[t].observers

=============================================================================
