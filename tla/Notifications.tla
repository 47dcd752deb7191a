--------------------------- MODULE Notifications ----------------------------
(***************************************************************************)
(* Pushing task updates to subscribed devices.  The subscribers map holds  *)
(* the sending end of one bounded channel per device.  A handler that      *)
(* changed a task sends the new state to the participants and observers of *)
(* the task while it holds the task's guard, and unsubscribes the devices  *)
(* it could not send to; the timer unsubscribes the devices whose          *)
(* receiving end is gone.  Handlers of different tasks, the timer and      *)
(* subscribe requests run in parallel: only single operations on the map   *)
(* are atomic.                                                             *)
(*                                                                         *)
(* Devices are external: a device keeps one stream, subscribes again when  *)
(* it ends, and after subscribing asks for the list of its tasks.  The     *)
(* list is answered in steps as well: a statement finds the tasks, which   *)
(* are then read one by one, while tasks are created and changed.          *)
(* Finished tasks that a device acknowledged are not listed for it any     *)
(* more; they are none of the tasks here.                                  *)
(***************************************************************************)
EXTENDS Naturals, Sequences

CONSTANTS
  Devices,         \* the devices of the tasks: TaskInfo participants and observers
  Tasks,
  Capacity,        \* of the channel of a stream, mpsc::channel(8)
  MaxVersion,      \* bound on the changes of a task, its creation being the first
  MaxDisconnects   \* bound on streams given up by devices

ASSUME NotificationsAssumption ==
  /\ Capacity \in Nat \ {0}
  /\ MaxVersion \in Nat /\ MaxDisconnects \in Nat

VARIABLES
  version,      \* task -> its state, counted in changes; 0 before it is created
  unsent,       \* task -> devices its handler has yet to send the change to
  remove,       \* task -> devices its handler is going to unsubscribe
  expired,      \* devices the timer is going to unsubscribe
  subscribers,  \* device -> "none", "live" or, with no receiving end, "closed"
  stream,       \* device -> it has a stream
  queue,        \* device -> what is in the channel of its stream
  listing,      \* device -> tasks of its list that are still to be read
  fetched,      \* device -> tasks whose state it was told since it subscribed
  view,         \* device -> task -> the version it knows
  disconnects

devices == <<stream, queue, listing, fetched, view, disconnects>>

vars == <<version, unsent, remove, expired, subscribers, devices>>

\* What is sent: a task with its state.
Update == [task : Tasks, version : 0 .. MaxVersion]

TypeOK ==
  /\ version \in [Tasks -> 0 .. MaxVersion]
  /\ unsent \in [Tasks -> SUBSET Devices]
  /\ remove \in [Tasks -> SUBSET Devices]
  /\ expired \subseteq Devices
  /\ subscribers \in [Devices -> {"none", "live", "closed"}]
  /\ stream \in [Devices -> BOOLEAN]
  /\ queue \in [Devices -> Seq(Update)]
  /\ \A d \in Devices : Len(queue[d]) <= Capacity
  /\ listing \in [Devices -> SUBSET Tasks]
  /\ fetched \in [Devices -> SUBSET Tasks]
  /\ view \in [Devices -> [Tasks -> 0 .. MaxVersion]]
  /\ disconnects \in 0 .. MaxDisconnects

Init ==
  /\ version = [t \in Tasks |-> 0]
  /\ unsent = [t \in Tasks |-> {}]
  /\ remove = [t \in Tasks |-> {}]
  /\ expired = {}
  /\ subscribers = [d \in Devices |-> "none"]
  /\ stream = [d \in Devices |-> FALSE]
  /\ queue = [d \in Devices |-> <<>>]
  /\ listing = [d \in Devices |-> {}]
  /\ fetched = [d \in Devices |-> {}]
  /\ view = [d \in Devices |-> [t \in Tasks |-> 0]]
  /\ disconnects = 0

-----------------------------------------------------------------------------
(***************************************************************************)
(* A handler                                                               *)
(***************************************************************************)
\* No handler holds the guard of the task.
Unlocked(t) == unsent[t] = {} /\ remove[t] = {}

\* A handler has created or changed the task and calls send_updates.
Change(t) ==
  /\ Unlocked(t)
  /\ version[t] < MaxVersion
  /\ version' = [version EXCEPT ![t] = @ + 1]
  /\ unsent' = [unsent EXCEPT ![t] = Devices]
  /\ UNCHANGED <<remove, expired, subscribers, devices>>

Full(d) == subscribers[d] = "live" /\ Len(queue[d]) = Capacity

format(t) == [task |-> t, version |-> version[t]]

Push(t, d) == Append(queue[d], format(t))

\* Mutant: a device whose channel is full only misses this update.
SkipWhenFull(t, d) ==
  /\ d \in unsent[t]
  /\ unsent' = [unsent EXCEPT ![t] = @ \ {d}]
  /\ \/ /\ subscribers[d] = "live" /\ ~Full(d)
        /\ queue' = [queue EXCEPT ![d] = Push(t, d)]
        /\ UNCHANGED remove
     \/ /\ subscribers[d] = "closed"
        /\ remove' = [remove EXCEPT ![t] = @ \cup {d}]
        /\ UNCHANGED queue
     \/ /\ subscribers[d] = "none" \/ Full(d)
        /\ UNCHANGED <<queue, remove>>
  /\ UNCHANGED <<version, expired, subscribers, stream, listing, fetched, view, disconnects>>

\* Mutant: the channel takes one more message.
OneTooMany(t, d) ==
  /\ d \in unsent[t]
  /\ unsent' = [unsent EXCEPT ![t] = @ \ {d}]
  /\ queue' = [queue EXCEPT ![d] = IF subscribers[d] = "live" /\ Len(@) <= Capacity
                                   THEN Push(t, d) ELSE @]
  /\ UNCHANGED <<version, remove, expired, subscribers, stream, listing, fetched, view,
                 disconnects>>

\* One turn of the loops of send_updates.  try_send fails on a channel that is
\* full or closed.
try_send(t, d) ==
  /\ d \in unsent[t]
  /\ unsent' = [unsent EXCEPT ![t] = @ \ {d}]
  /\ \/ /\ subscribers[d] = "live" /\ ~Full(d)
        /\ queue' = [queue EXCEPT ![d] = Push(t, d)]
        /\ UNCHANGED remove
     \/ /\ subscribers[d] = "closed" \/ Full(d)
        /\ remove' = [remove EXCEPT ![t] = @ \cup {d}]
        /\ UNCHANGED queue
     \/ /\ subscribers[d] = "none"
        /\ UNCHANGED <<queue, remove>>
  /\ UNCHANGED <<version, expired, subscribers, stream, listing, fetched, view, disconnects>>

\* remove_subscriber at the end of send_updates: whatever channel the device
\* has in the map by now.
remove_subscriber(t, d) ==
  /\ unsent[t] = {}
  /\ d \in remove[t]
  /\ remove' = [remove EXCEPT ![t] = @ \ {d}]
  /\ subscribers' = [subscribers EXCEPT ![d] = "none"]
  /\ UNCHANGED <<version, unsent, expired, devices>>

-----------------------------------------------------------------------------
(***************************************************************************)
(* check_subscribers                                                       *)
(***************************************************************************)
check_subscribers(d) ==
  /\ subscribers[d] = "closed"
  /\ d \notin expired
  /\ expired' = expired \cup {d}
  /\ UNCHANGED <<version, unsent, remove, subscribers, devices>>

\* Mutant: the channels found closed stay in the map.
KeepExpired(d) ==
  /\ d \in expired
  /\ expired' = expired \ {d}
  /\ UNCHANGED <<version, unsent, remove, subscribers, devices>>

RemoveExpired(d) ==
  /\ d \in expired
  /\ expired' = expired \ {d}
  /\ subscribers' = [subscribers EXCEPT ![d] = "none"]
  /\ UNCHANGED <<version, unsent, remove, devices>>

-----------------------------------------------------------------------------
(***************************************************************************)
(* Devices                                                                 *)
(***************************************************************************)
subscribe_updates(d) ==
  /\ ~stream[d]
  /\ stream' = [stream EXCEPT ![d] = TRUE]
  /\ queue' = [queue EXCEPT ![d] = <<>>]
  /\ listing' = [listing EXCEPT ![d] = {}]
  /\ fetched' = [fetched EXCEPT ![d] = {}]
  /\ subscribers' = [subscribers EXCEPT ![d] = "live"]
  /\ UNCHANGED <<version, unsent, remove, expired, view, disconnects>>

\* Mutant: a join leaves out the tasks that nothing has happened to yet.
ListChangedTasks == {t \in Tasks : version[t] > 1}

\* The tasks whose rows are there.
get_active_device_tasks == {t \in Tasks : version[t] > 0}

\* Nothing listed and nothing read yet.
NotListed(d) == listing[d] = {} /\ fetched[d] = {}

\* get_tasks looks for the tasks of the device.
get_tasks(d) ==
  /\ stream[d]
  /\ NotListed(d)
  /\ listing' = [listing EXCEPT ![d] = get_active_device_tasks]
  /\ fetched' = [fetched EXCEPT ![d] = Tasks \ get_active_device_tasks]
  /\ UNCHANGED <<version, unsent, remove, expired, subscribers, stream, queue, view, disconnects>>

\* A task of the list is read, with the read guard of the task.  The handler
\* that creates a task has no more than a read guard itself.  An observer, whose
\* tasks are in no list, asks for the task it has created by its id.
get_task(d, t) ==
  /\ stream[d]
  /\ t \in listing[d]
  /\ Unlocked(t) \/ version[t] = 1
  /\ view' = [view EXCEPT ![d][t] = format(t).version]
  /\ listing' = [listing EXCEPT ![d] = @ \ {t}]
  /\ fetched' = [fetched EXCEPT ![d] = @ \cup {t}]
  /\ UNCHANGED <<version, unsent, remove, expired, subscribers, stream, queue, disconnects>>

Receive(d) ==
  /\ stream[d]
  /\ queue[d] # <<>>
  /\ view' = [view EXCEPT ![d][Head(queue[d]).task] = Head(queue[d]).version]
  /\ queue' = [queue EXCEPT ![d] = Tail(@)]
  /\ UNCHANGED <<version, unsent, remove, expired, subscribers, stream, listing, fetched,
                 disconnects>>

\* The sending end is gone and everything sent was received: the stream ends.
StreamEnds(d) ==
  /\ stream[d]
  /\ subscribers[d] = "none"
  /\ queue[d] = <<>>
  /\ stream' = [stream EXCEPT ![d] = FALSE]
  /\ UNCHANGED <<version, unsent, remove, expired, subscribers, queue, listing, fetched, view,
                 disconnects>>

\* The device goes away and takes the receiving end with it.
Disconnect(d) ==
  /\ stream[d]
  /\ disconnects < MaxDisconnects
  /\ disconnects' = disconnects + 1
  /\ stream' = [stream EXCEPT ![d] = FALSE]
  /\ queue' = [queue EXCEPT ![d] = <<>>]
  /\ subscribers' = [subscribers EXCEPT ![d] = IF @ = "live" THEN "closed" ELSE @]
  /\ UNCHANGED <<version, unsent, remove, expired, listing, fetched, view>>

-----------------------------------------------------------------------------
Server ==
  \/ \E t \in Tasks, d \in Devices : try_send(t, d) \/ remove_subscriber(t, d)
  \/ \E d \in Devices : check_subscribers(d) \/ RemoveExpired(d)

Client(d) ==
  \/ Receive(d)
  \/ StreamEnds(d)
  \/ get_tasks(d)
  \/ \E t \in Tasks : get_task(d, t)

Next ==
  \/ \E t \in Tasks : Change(t)
  \/ Server
  \/ \E d \in Devices : Client(d) \/ subscribe_updates(d) \/ Disconnect(d)

Spec == Init /\ [][Next]_vars

(***************************************************************************)
(* Handlers and the timer run to their end, and devices that have a stream *)
(* use it.  Only Reconnect asks for devices that subscribe again.          *)
(***************************************************************************)
Fairness ==
  /\ \A t \in Tasks, d \in Devices : WF_vars(try_send(t, d)) /\ WF_vars(remove_subscriber(t, d))
  /\ \A d \in Devices : WF_vars(check_subscribers(d)) /\ WF_vars(RemoveExpired(d))
  /\ \A d \in Devices : WF_vars(Client(d))

FairSpec == Spec /\ Fairness

Reconnect == \A d \in Devices : WF_vars(subscribe_updates(d))

-----------------------------------------------------------------------------
(***************************************************************************)
(* Properties                                                              *)
(***************************************************************************)
\* The channel holds no update of the task; the last one it holds has that version.
NoUpdate(q, t) == \A i \in DOMAIN q : q[i].task # t

LastUpdate(q, t, v) ==
  \E i \in DOMAIN q :
    /\ q[i] = [task |-> t, version |-> v]
    /\ \A j \in DOMAIN q : j > i => q[j].task # t

\* What the device will know of the task when it has read its stream.
Knows(d, t, v) ==
  LastUpdate(queue[d], t, v) \/ (NoUpdate(queue[d], t) /\ view[d][t] = v)

\* No update is silently lost: when the handler that created or changed a task
\* is done, a device still subscribed has the change, or it is in its channel.
\* Whoever missed it in send_updates was unsubscribed, and a task that was
\* created while the device got its list is in the list or in the channel.
NothingMissed ==
  \A d \in Devices, t \in Tasks :
    subscribers[d] = "live" /\ t \in fetched[d] /\ Unlocked(t) => Knows(d, t, version[t])

\* The device has a stream that does not end, and has read all there was for it:
\* its list, and what is in the channel.
Settled(d) ==
  /\ stream[d] /\ subscribers[d] # "none"
  /\ queue[d] = <<>>
  /\ listing[d] = {} /\ ~NotListed(d)

\* Whoever has nothing left to read is up to date, save for tasks that a handler
\* is just working on: no device waits for an update that nobody will send.
SettledCurrent ==
  \A d \in Devices, t \in Tasks : Settled(d) /\ Unlocked(t) => view[d][t] = version[t]

\* A closed channel does not stay in the map, whether or not there is anything
\* to send to it (check_subscribers).
ClosedRemoved ==
  \A d \in Devices : subscribers[d] = "closed" ~> subscribers[d] # "closed"

\* Devices that subscribe again get to know the last state of every task, in
\* spite of full channels, and of unsubscriptions that hit the new channel of
\* a device instead of the one that was full or closed.
Converges ==
  Reconnect => <>[](\A d \in Devices, t \in Tasks : view[d][t] = version[t])

=============================================================================
