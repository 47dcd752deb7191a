--------------------------- MODULE RegistryProofs ---------------------------
(***************************************************************************)
(* Every task a request can create is one the server can run, for any set  *)
(* of devices, any shares and any number of tasks.                         *)
(*                                                                         *)
(* Threshold tasks are created from the row of their group with no check   *)
(* of their own, so the invariants of tasks need the same facts of groups  *)
(* (GroupsUsable), which in turn come from the task the group was made of. *)
(* Participants stay known because the devices in memory never lose one    *)
(* that is in the table.  A list of groups is whole because a group is     *)
(* never changed once it is there (RowsCurrent).                           *)
(***************************************************************************)
EXTENDS Registry, SequenceTheorems, TLAPS

GroupsUsable ==
  \A g \in DOMAIN group :
    /\ Established(group[g])
    /\ group[g].threshold \in 1 .. total_shares(group[g].participants)

\* The participants that were read for a list are still those of the groups, and
\* the groups are still the ones it is about.
RowsCurrent ==
  \A g \in DOMAIN list.rows :
    g \in get_device_groups(list.device) /\ list.rows[g] = group[g].participants

ListInv == RowsCurrent /\ ListedWhole

IInv == TypeOK /\ TasksRunnable /\ ParticipantsKnown /\ SameVote /\ GroupsUsable /\ ListInv

\* Nothing is registered at first.
LEMMA RegistryInit == Init => IInv
  BY DEF Init, IInv, TypeOK, TasksRunnable, ParticipantsKnown, SameVote, GroupsUsable,
         ListInv, RowsCurrent, ListedWhole, NoList

\* Steps that leave the list and the groups in it alone.
LEMMA ListKept ==
  ASSUME ListInv, TypeOK, UNCHANGED list, DOMAIN group \subseteq DOMAIN group',
         \A g \in DOMAIN group : group'[g] = group[g]
  PROVE  ListInv'
<1>1. \A g \in get_device_groups(list.device) :
        g \in get_device_groups(list.device)' /\ group'[g] = group[g]
  BY DEF get_device_groups, get_group_participants
<1>2. RowsCurrent'
  <2>1. \A g \in DOMAIN list.rows :
          /\ g \in get_device_groups(list.device)'
          /\ list.rows[g] = group'[g].participants
    BY <1>1 DEF ListInv, RowsCurrent
  <2>2. QED
    BY <2>1 DEF RowsCurrent
<1>3. ListedWhole'
  BY DEF ListInv, ListedWhole, TypeOK
<1>4. QED
  BY <1>2, <1>3 DEF ListInv

\* The participants of a request that are known have the shares they were given.
LEMMA KnownParticipants ==
  ASSUME NEW request \in Participants
  PROVE  /\ get_devices_with_ids(request) \in Participants
         /\ DOMAIN get_devices_with_ids(request) \subseteq devices
<1>1. PICK D \in SUBSET Devices : request \in [D -> 1 .. MaxShares]
  BY DEF Participants
<1> DEFINE E == D \cap devices
<1>2. get_devices_with_ids(request) = [d \in E |-> request[d]]
  BY <1>1 DEF get_devices_with_ids, Restrict
<1>3. get_devices_with_ids(request) \in [E -> 1 .. MaxShares]
  BY <1>1, <1>2
<1>4. E \in SUBSET Devices
  BY <1>1
<1>5. QED
  BY <1>3, <1>4 DEF Participants

\* persist_task of a row that fits its group, or of a group task.
LEMMA PersistStep ==
  ASSUME IInv,
         NEW row \in TaskRow, NEW accept_threshold, NEW observers,
         persist_task(row, accept_threshold, observers),
         DOMAIN row.participants \subseteq devices,
         row.task_type # "Group" =>
           /\ row.task_type = row.suite.key_type
           /\ Established(row)
           /\ row.threshold \in 1 .. total_shares(row.participants),
         accept_threshold = IF row.task_type = "Group" THEN total_shares(row.participants)
                            ELSE row.threshold
  PROVE  IInv'
<1> USE DEF IInv
<1> DEFINE new == Len(task) + 1
<1>1. task' = Append(task, row) /\ row.threshold \in 1 .. total_shares(row.participants)
  BY DEF persist_task, create_group_task, create_task
<1>2. /\ task \in Seq(TaskRow) /\ Len(task) \in Nat
      /\ DOMAIN task = 1 .. Len(task)
  BY DEF TypeOK
<1>3. /\ task' \in Seq(TaskRow)
      /\ DOMAIN task' = DOMAIN task \cup {new}
      /\ new \notin DOMAIN task
      /\ task'[new] = row
      /\ \A t \in DOMAIN task : task'[t] = task[t]
  BY <1>1, <1>2
<1>4. /\ UNCHANGED <<device, group, registering, devices, list>>
      /\ cache' = [i \in DOMAIN cache \cup {new} |->
                     IF i = new THEN [participants |-> row.participants,
                                      accept_threshold |-> accept_threshold,
                                      observers |-> observers]
                     ELSE cache[i]]
  BY DEF persist_task, NextId
<1> HIDE DEF new
<1>5. TypeOK'
  BY <1>3, <1>4 DEF TypeOK
<1>6. TasksRunnable'
  BY <1>1, <1>3 DEF TasksRunnable, Established
<1>7. ParticipantsKnown'
  BY <1>3, <1>4 DEF ParticipantsKnown
<1>8. SameVote'
  <2>1. DOMAIN cache' = DOMAIN cache \cup {new} /\ new \notin DOMAIN cache
    BY <1>3, <1>4 DEF TypeOK
  <2>2. /\ cache'[new].participants = row.participants
        /\ cache'[new].accept_threshold = accept_threshold
        /\ \A t \in DOMAIN cache : cache'[t] = cache[t]
    BY <1>4, <2>1
  <2>3. \A t \in DOMAIN cache : task'[t] = task[t]
    BY <1>3 DEF TypeOK
  <2>4. QED
    BY <1>3, <2>1, <2>2, <2>3 DEF SameVote
<1>9. GroupsUsable'
  BY <1>4 DEF GroupsUsable, Established
<1>10. ListInv'
  BY <1>4, ListKept
<1>11. QED
  BY <1>5, <1>6, <1>7, <1>8, <1>9, <1>10

\* A group request, with any threshold.
LEMMA GroupTaskStep ==
  ASSUME IInv, NEW request \in Participants, NEW threshold \in Nat, NEW suite \in Suites,
         add_group_task(request, threshold, suite)
  PROVE  IInv'
<1> DEFINE participants == get_devices_with_ids(request)
           row == [task_type |-> "Group", suite |-> suite, threshold |-> threshold,
                   participants |-> participants, creator |-> NoDevice]
<1>1. participants \in Participants /\ DOMAIN participants \subseteq devices
  BY KnownParticipants
<1>2. persist_task(row, total_shares(participants), {})
  BY DEF add_group_task
<1> HIDE DEF participants
<1>3. row \in TaskRow
  BY <1>1, RegistryAssumption DEF TaskRow
<1>4. row.participants = participants /\ row.task_type = "Group"
  OBVIOUS
<1> HIDE DEF row
<1>5. QED
  BY <1>1, <1>2, <1>3, <1>4, PersistStep

\* A request for a signature or a decryption.
LEMMA ThresholdTaskStep ==
  ASSUME IInv, NEW g \in DOMAIN group, NEW creator \in Devices \cup {NoDevice}, NEW observers,
         persist_task(ThresholdTask(g, creator), group[g].threshold, observers)
  PROVE  IInv'
<1> DEFINE row == ThresholdTask(g, creator)
<1>1. /\ group[g] \in GroupRow /\ Established(group[g])
      /\ group[g].threshold \in 1 .. total_shares(group[g].participants)
      /\ DOMAIN group[g].participants \subseteq devices
  BY DEF IInv, TypeOK, GroupsUsable, ParticipantsKnown
<1>2. /\ row.task_type = group[g].suite.key_type /\ row.suite = group[g].suite
      /\ row.threshold = group[g].threshold /\ row.participants = group[g].participants
  BY DEF ThresholdTask, get_group, get_group_participants
<1>3. row \in TaskRow
  BY <1>1 DEF ThresholdTask, get_group, get_group_participants, TaskRow, GroupRow, Suite
<1>4. row.task_type # "Group"
  BY <1>1, <1>2 DEF GroupRow, Suite
<1> HIDE DEF row
<1>5. Established(row)
  BY <1>1, <1>2 DEF Established
<1>6. persist_task(row, row.threshold, observers)
  BY <1>2 DEF row
<1>7. QED
  BY <1>1, <1>2, <1>3, <1>4, <1>5, <1>6, PersistStep

\* A finished group task leaves a group with what try_new accepted.
LEMMA EstablishStep ==
  ASSUME IInv, NEW s \in DOMAIN task, Establish(s)
  PROVE  IInv'
<1> USE DEF IInv
<1> DEFINE new == [suite |-> task[s].suite, threshold |-> task[s].threshold,
                   participants |-> task[s].participants]
<1>1. task[s] \in TaskRow
  BY DEF TypeOK
<1>2. /\ UNCHANGED <<device, task, registering, devices, cache, list>>
      /\ s \notin DOMAIN group
      /\ group' = [g \in DOMAIN group \cup {s} |-> IF g = s THEN new ELSE group[g]]
  BY DEF Establish, add_group
<1>3. /\ new \in GroupRow
      /\ new.suite = task[s].suite /\ new.threshold = task[s].threshold
      /\ new.participants = task[s].participants
  BY <1>1 DEF GroupRow, TaskRow
<1> HIDE DEF new
<1>4. /\ DOMAIN group' = DOMAIN group \cup {s}
      /\ group'[s] = new
      /\ \A g \in DOMAIN group \ {s} : group'[g] = group[g]
  BY <1>2
<1>5. TypeOK'
  BY <1>2, <1>3, <1>4 DEF TypeOK
<1>6. TasksRunnable' /\ SameVote'
  BY <1>2 DEF TasksRunnable, Established, SameVote
<1>7. ParticipantsKnown'
  BY <1>2, <1>3, <1>4 DEF ParticipantsKnown
<1>8. GroupsUsable'
  <2>1. Established(new) /\ new.threshold \in 1 .. total_shares(new.participants)
    BY <1>3 DEF Establish, try_new, Established, TasksRunnable
  <2>2. QED
    BY <1>4, <2>1 DEF GroupsUsable, Established
<1>9. ListInv'
  BY <1>2, <1>4, ListKept
<1>10. QED
  BY <1>5, <1>6, <1>7, <1>8, <1>9

\* Registration, and the restart that reads the devices back: the devices in
\* memory only grow.
LEMMA DeviceStep ==
  ASSUME IInv, restore \/ \E d \in Devices : register(d) \/ DeviceStored(d)
  PROVE  IInv'
<1> USE DEF IInv
<1>1. /\ UNCHANGED <<task, group>>
      /\ devices \subseteq devices'
      /\ cache' = cache \/ cache' = <<>>
      /\ list' = list \/ list' = NoList
  BY DEF TypeOK, restore, register, DeviceStored
<1>2. TypeOK'
  <2>1. /\ device' \subseteq Devices
        /\ registering' \subseteq device'
        /\ devices' \subseteq device'
    BY DEF TypeOK, restore, register, add_device, DeviceStored
  <2>2. DOMAIN cache' \subseteq DOMAIN task'
    BY <1>1 DEF TypeOK
  <2>3. CASE list' = list
    BY <1>1, <2>1, <2>2, <2>3 DEF TypeOK
  <2>4. CASE list' = NoList
    BY <1>1, <2>1, <2>2, <2>4 DEF TypeOK, NoList
  <2>5. QED
    BY <1>1, <2>3, <2>4
<1>3. TasksRunnable' /\ GroupsUsable'
  BY <1>1 DEF TasksRunnable, GroupsUsable, Established
<1>4. ParticipantsKnown'
  BY <1>1 DEF ParticipantsKnown
<1>5. SameVote'
  BY <1>1 DEF SameVote
<1>6. ListInv'
  <2>1. CASE list' = list
    BY <1>1, <2>1, ListKept
  <2>2. CASE list' = NoList
    BY <2>2 DEF ListInv, RowsCurrent, ListedWhole, NoList
  <2>3. QED
    BY <1>1, <2>1, <2>2
<1>7. QED
  BY <1>2, <1>3, <1>4, <1>5, <1>6

\* hydrate_tasks reads the vote that the task was created with.
LEMMA HydrateStep ==
  ASSUME IInv, NEW s \in DOMAIN task, hydrate_tasks(s)
  PROVE  IInv'
<1> USE DEF IInv
<1>1. /\ UNCHANGED <<device, task, group, registering, devices, list>>
      /\ cache' = [i \in DOMAIN cache \cup {s} |->
                     IF i = s THEN [participants |-> task[s].participants,
                                    accept_threshold |-> HydratedThreshold(s),
                                    observers |-> {}]
                     ELSE cache[i]]
  BY DEF hydrate_tasks, get_tasks_participants
<1>2. /\ DOMAIN cache' = DOMAIN cache \cup {s}
      /\ cache'[s].participants = task[s].participants
      /\ cache'[s].accept_threshold = HydratedThreshold(s)
      /\ \A t \in DOMAIN cache \ {s} : cache'[t] = cache[t]
  BY <1>1
<1>3. TypeOK'
  BY <1>1, <1>2 DEF TypeOK
<1>4. TasksRunnable' /\ ParticipantsKnown' /\ GroupsUsable'
  BY <1>1 DEF TasksRunnable, ParticipantsKnown, GroupsUsable, Established
<1>5. SameVote'
  BY <1>1, <1>2 DEF SameVote, HydratedThreshold
<1>6. ListInv'
  BY <1>1, ListKept
<1>7. QED
  BY <1>3, <1>4, <1>5, <1>6

\* A list is asked for: what is read is what the groups have now.
LEMMA AskStep ==
  ASSUME IInv, NEW d \in Devices \cup {NoDevice}, get_groups(d)
  PROVE  IInv'
<1> USE DEF IInv
<1>1. /\ UNCHANGED <<device, task, group, registering, devices, cache>>
      /\ list' = [step |-> "reading", device |-> d, rows |-> ParticipantRows(d),
                  groups |-> <<>>]
  BY DEF get_groups
<1>2. TypeOK'
  BY <1>1 DEF TypeOK
<1>3. TasksRunnable' /\ ParticipantsKnown' /\ SameVote' /\ GroupsUsable'
  BY <1>1 DEF TasksRunnable, ParticipantsKnown, SameVote, GroupsUsable, Established
<1>4. ListInv'
  BY <1>1 DEF ListInv, RowsCurrent, ListedWhole, ParticipantRows, get_device_groups,
              get_group_participants
<1>5. QED
  BY <1>2, <1>3, <1>4

\* A list is answered: the groups of its rows are still there.
LEMMA AnswerStep ==
  ASSUME IInv, GroupsRead
  PROVE  IInv'
<1> USE DEF IInv
<1> DEFINE answer == [g \in get_device_groups(list.device) |->
                        IF g \in DOMAIN list.rows THEN list.rows[g] ELSE <<>>]
<1>1. /\ UNCHANGED <<device, task, group, registering, devices, cache>>
      /\ list' = [step |-> "answered", device |-> list.device, rows |-> list.rows,
                  groups |-> answer]
  BY ZenonT(30) DEF GroupsRead, TypeOK
<1>2. /\ DOMAIN answer \subseteq DOMAIN group
      /\ DOMAIN list.rows \subseteq DOMAIN answer
      /\ \A g \in DOMAIN answer :
           \/ answer[g] = group[g].participants
           \/ g \notin DOMAIN list.rows /\ answer[g] = <<>>
  BY DEF ListInv, RowsCurrent, get_device_groups
<1> HIDE DEF answer
<1>3. TypeOK'
  BY <1>1, <1>2 DEF TypeOK
<1>4. TasksRunnable' /\ ParticipantsKnown' /\ SameVote' /\ GroupsUsable'
  BY <1>1 DEF TasksRunnable, ParticipantsKnown, SameVote, GroupsUsable, Established
<1>5. ListInv'
  BY <1>1, <1>2 DEF ListInv, RowsCurrent, ListedWhole, get_device_groups,
                    get_group_participants
<1>6. QED
  BY <1>3, <1>4, <1>5

\* Every step keeps the invariant.
LEMMA RegistryNext == IInv /\ [Next]_vars => IInv'
<1> SUFFICES ASSUME IInv, [Next]_vars PROVE IInv'
  OBVIOUS
<1>1. CASE UNCHANGED vars
  <2>1. ListInv'
    BY <1>1, ListKept DEF vars, IInv
  <2>2. QED
    BY <1>1, <2>1 DEF vars, IInv, TypeOK, TasksRunnable, ParticipantsKnown, SameVote,
                      GroupsUsable, Established
<1>2. ASSUME NEW request \in Participants,
             NEW threshold \in 0 .. MaxShares * Cardinality(Devices) + 1, NEW suite \in Suites,
             add_group_task(request, threshold, suite)
      PROVE  IInv'
  <2>1. threshold \in Nat
    OBVIOUS
  <2>2. QED
    BY <1>2, <2>1, GroupTaskStep
<1>3. ASSUME NEW g \in DOMAIN group, add_sign_task(g)
      PROVE  IInv'
  BY <1>3, ThresholdTaskStep DEF add_sign_task, get_group
<1>4. ASSUME NEW g \in DOMAIN group, NEW creator \in Devices \cup {NoDevice},
             add_decrypt_task(g, creator)
      PROVE  IInv'
  BY <1>4, ThresholdTaskStep DEF add_decrypt_task, get_group
<1>5. QED
  BY <1>1, <1>2, <1>3, <1>4, DeviceStep, EstablishStep, HydrateStep,
     AskStep, AnswerStep DEF Next

\* The invariant holds in every reachable state.
LEMMA RegistryInductive == Spec => []IInv
  BY RegistryInit, RegistryNext, PTL DEF Spec

-----------------------------------------------------------------------------
\* The rows keep their types, and the devices in memory are those of the table.
THEOREM RegistryTypeCorrect == Spec => []TypeOK
<1>1. IInv => TypeOK
  BY DEF IInv
<1>2. QED
  BY <1>1, RegistryInductive, PTL

\* A task that was created can be run: the checks made for its group are enough
\* for add_sign_task and add_decrypt_task.
THEOREM RunnableSafety == Spec => []TasksRunnable
<1>1. IInv => TasksRunnable
  BY DEF IInv
<1>2. QED
  BY <1>1, RegistryInductive, PTL

\* Participants are devices the running server knows, with registrations and
\* restarts at any time.
THEOREM KnownSafety == Spec => []ParticipantsKnown
<1>1. IInv => ParticipantsKnown
  BY DEF IInv
<1>2. QED
  BY <1>1, RegistryInductive, PTL

\* The vote that persist_task caches and the one hydrate_tasks reads are the same.
THEOREM VoteSafety == Spec => []SameVote
<1>1. IInv => SameVote
  BY DEF IInv
<1>2. QED
  BY <1>1, RegistryInductive, PTL

\* A list of groups is whole for the groups that were there when it was asked
\* for, and has no group with some of its participants.
THEOREM ListSafety == Spec => []ListedWhole
<1>1. IInv => ListedWhole
  BY DEF IInv, ListInv
<1>2. QED
  BY <1>1, RegistryInductive, PTL

=============================================================================
