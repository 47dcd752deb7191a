------------------------ MODULE NotificationsProofs -------------------------
(***************************************************************************)
(* No update of a task is silently lost, for any number of devices and     *)
(* tasks and any capacity of the channels.                                 *)
(*                                                                         *)
(* NothingMissed is about tasks whose handler is done.  It is not          *)
(* inductive: while one device after the other is sent the change, those   *)
(* already served must keep it, and a device may have updates of a task in *)
(* its channel before it was told of the task by its list.  The inductive  *)
(* invariant therefore speaks of every device a handler is not going to    *)
(* send to or to unsubscribe, and of the channel apart from the view.      *)
(***************************************************************************)
EXTENDS Notifications, SequenceTheorems, TLAPS

\* The handler of the task still has something to do about the device.
Pending(d, t) == d \in unsent[t] \/ d \in remove[t]

\* The last update of a task in a channel, if there is one, is its present state.
ChannelCurrent ==
  \A d \in Devices, t \in Tasks :
    subscribers[d] = "live" /\ ~Pending(d, t) =>
      NoUpdate(queue[d], t) \/ LastUpdate(queue[d], t, version[t])

Told ==
  \A d \in Devices, t \in Tasks :
    subscribers[d] = "live" /\ ~Pending(d, t) /\ t \in fetched[d] => Knows(d, t, version[t])

\* Nobody has heard of a task that was not created.
Unheard ==
  \A d \in Devices, t \in Tasks :
    version[t] = 0 => view[d][t] = 0 /\ NoUpdate(queue[d], t)

\* Nothing is sent about a task that was not created.
Unsent == \A t \in Tasks : unsent[t] # {} => version[t] # 0

IInv == TypeOK /\ ChannelCurrent /\ Told /\ Unheard /\ Unsent

-----------------------------------------------------------------------------
(***************************************************************************)
(* Channels                                                                *)
(***************************************************************************)
\* What try_send leaves in a channel: the update it sent is the last of its task,
\* and nothing changes for the other tasks.
LEMMA PushUpdate ==
  ASSUME NEW q \in Seq(Update), NEW u \in Update
  PROVE  /\ Append(q, u) \in Seq(Update)
         /\ Len(Append(q, u)) = Len(q) + 1
         /\ LastUpdate(Append(q, u), u.task, u.version)
         /\ \A t \in Tasks \ {u.task} :
              /\ NoUpdate(q, t) => NoUpdate(Append(q, u), t)
              /\ \A v : LastUpdate(q, t, v) => LastUpdate(Append(q, u), t, v)
<1> DEFINE p == Append(q, u)
<1>1. /\ p \in Seq(Update)
      /\ Len(p) = Len(q) + 1
      /\ DOMAIN p = 1 .. Len(q) + 1
      /\ DOMAIN q = 1 .. Len(q)
      /\ Len(q) \in Nat
      /\ p[Len(q) + 1] = u
      /\ \A i \in 1 .. Len(q) : p[i] = q[i]
  OBVIOUS
<1> HIDE DEF p
<1>2. u = [task |-> u.task, version |-> u.version]
  BY DEF Update
<1>3. LastUpdate(p, u.task, u.version)
  BY <1>1, <1>2 DEF LastUpdate
<1>4. ASSUME NEW t \in Tasks \ {u.task}
      PROVE  /\ NoUpdate(q, t) => NoUpdate(p, t)
             /\ \A v : LastUpdate(q, t, v) => LastUpdate(p, t, v)
  <2>1. NoUpdate(q, t) => NoUpdate(p, t)
    BY <1>1 DEF NoUpdate
  <2>2. ASSUME NEW v, LastUpdate(q, t, v)
        PROVE  LastUpdate(p, t, v)
    <3>1. PICK i \in DOMAIN q : /\ q[i] = [task |-> t, version |-> v]
                                /\ \A j \in DOMAIN q : j > i => q[j].task # t
      BY <2>2 DEF LastUpdate
    <3>2. i \in DOMAIN p /\ p[i] = [task |-> t, version |-> v]
      BY <1>1, <3>1
    <3>3. \A j \in DOMAIN p : j > i => p[j].task # t
      BY <1>1, <3>1
    <3>4. QED
      BY <3>2, <3>3 DEF LastUpdate
  <2>3. QED
    BY <2>1, <2>2
<1>5. QED
  BY <1>1, <1>3, <1>4 DEF p

\* What a device leaves in its channel when it receives an update: if that was the
\* last one of its task there is none left, and the device knows the state.
LEMMA PopUpdate ==
  ASSUME NEW q \in Seq(Update), q # <<>>
  PROVE  /\ Head(q) \in Update
         /\ Tail(q) \in Seq(Update)
         /\ Len(Tail(q)) <= Len(q)
         /\ \A t \in Tasks :
              /\ NoUpdate(q, t) => NoUpdate(Tail(q), t) /\ Head(q).task # t
              /\ \A v : LastUpdate(q, t, v) =>
                   \/ LastUpdate(Tail(q), t, v)
                   \/ NoUpdate(Tail(q), t) /\ Head(q) = [task |-> t, version |-> v]
<1> DEFINE p == Tail(q)
<1>1. /\ p \in Seq(Update)
      /\ Len(p) = Len(q) - 1
      /\ Len(q) \in Nat \ {0}
      /\ DOMAIN p = 1 .. Len(q) - 1
      /\ DOMAIN q = 1 .. Len(q)
      /\ \A i \in 1 .. Len(q) - 1 : p[i] = q[i + 1]
  BY HeadTailProperties
<1>2. Head(q) = q[1] /\ Head(q) \in Update
  BY HeadTailProperties
<1> HIDE DEF p
<1>0. \A j \in DOMAIN p : j \in Int /\ j + 1 \in DOMAIN q /\ p[j] = q[j + 1]
  BY <1>1
<1>3. ASSUME NEW t \in Tasks
      PROVE  /\ NoUpdate(q, t) => NoUpdate(p, t) /\ Head(q).task # t
             /\ \A v : LastUpdate(q, t, v) =>
                  \/ LastUpdate(p, t, v)
                  \/ NoUpdate(p, t) /\ Head(q) = [task |-> t, version |-> v]
  <2>1. NoUpdate(q, t) => NoUpdate(p, t) /\ Head(q).task # t
    <3>1. 1 \in DOMAIN q
      BY <1>1
    <3>2. QED
      BY <1>0, <1>2, <3>1 DEF NoUpdate
  <2>2. ASSUME NEW v, LastUpdate(q, t, v)
        PROVE  \/ LastUpdate(p, t, v)
               \/ NoUpdate(p, t) /\ Head(q) = [task |-> t, version |-> v]
    <3>1. PICK i \in DOMAIN q : /\ q[i] = [task |-> t, version |-> v]
                                /\ \A j \in DOMAIN q : j > i => q[j].task # t
      BY <2>2 DEF LastUpdate
    <3> i \in Int
      BY <1>1
    <3>2. CASE i = 1
      <4>1. ASSUME NEW j \in DOMAIN p PROVE p[j].task # t
        <5>1. j + 1 > i
          BY <1>1, <3>2
        <5>2. QED
          BY <1>0, <3>1, <5>1
      <4>2. QED
        BY <1>2, <3>1, <3>2, <4>1 DEF NoUpdate
    <3>3. CASE i # 1
      <4>1. i - 1 \in DOMAIN p /\ p[i - 1] = [task |-> t, version |-> v]
        BY <1>1, <3>1, <3>3
      <4>2. ASSUME NEW j \in DOMAIN p, j > i - 1 PROVE p[j].task # t
        <5>1. j + 1 > i
          BY <1>0, <4>2
        <5>2. QED
          BY <1>0, <3>1, <5>1
      <4>3. QED
        BY <4>1, <4>2 DEF LastUpdate
    <3>4. QED
      BY <3>2, <3>3
  <2>3. QED
    BY <2>1, <2>2
<1>4. QED
  BY <1>1, <1>2, <1>3 DEF p

\* A new channel is empty.
LEMMA NewChannel ==
  /\ <<>> \in Seq(Update) /\ Len(<<>>) = 0
  /\ \A t \in Tasks : NoUpdate(<<>>, t)
  BY DEF NoUpdate

-----------------------------------------------------------------------------
(***************************************************************************)
(* The inductive invariant                                                 *)
(***************************************************************************)
\* Nothing is subscribed and nothing is known in the initial state.
LEMMA NotificationsInit == Init => IInv
<1> SUFFICES ASSUME Init PROVE IInv
  OBVIOUS
<1>1. TypeOK
  BY NotificationsAssumption, NewChannel DEF Init, TypeOK
<1>2. ChannelCurrent /\ Told /\ Unheard /\ Unsent
  BY NewChannel DEF Init, ChannelCurrent, Told, Unheard, Unsent
<1>3. QED
  BY <1>1, <1>2 DEF IInv

\* A change makes every device pending for the task (send_updates starts).
LEMMA ChangeStep ==
  ASSUME IInv, NEW s \in Tasks, Change(s)
  PROVE  IInv'
<1> USE DEF IInv
<1>1. TypeOK'
  BY NotificationsAssumption DEF TypeOK, Change, devices
<1>2. /\ subscribers' = subscribers /\ queue' = queue /\ view' = view /\ fetched' = fetched
      /\ remove' = remove /\ unsent'[s] = Devices /\ version'[s] # 0
      /\ \A t \in Tasks \ {s} : version'[t] = version[t] /\ unsent'[t] = unsent[t]
  BY DEF TypeOK, Change, devices
<1>3. \A d \in Devices, t \in Tasks : ~Pending(d, t)' => ~Pending(d, t) /\ version'[t] = version[t]
  BY <1>2 DEF Pending
<1>4. ChannelCurrent'
  BY <1>2, <1>3 DEF ChannelCurrent
<1>5. Told'
  BY <1>2, <1>3 DEF Told, Knows
<1>6. Unheard' /\ Unsent'
  BY <1>2 DEF Unheard, Unsent
<1>7. QED
  BY <1>1, <1>4, <1>5, <1>6

\* A turn of send_updates serves the device, or leaves it to be unsubscribed.
LEMMA SendStep ==
  ASSUME IInv, NEW s \in Tasks, NEW e \in Devices, try_send(s, e)
  PROVE  IInv'
<1> USE DEF IInv
<1>0. /\ version' = version /\ subscribers' = subscribers /\ fetched' = fetched /\ view' = view
      /\ version[s] # 0
      /\ \A d \in Devices, t \in Tasks :
           <<d, t>> # <<e, s>> => (Pending(d, t)' <=> Pending(d, t))
      /\ \A t \in Tasks : unsent'[t] \subseteq unsent[t]
      /\ \A d \in Devices \ {e} : queue'[d] = queue[d]
  BY DEF TypeOK, try_send, Pending, Unsent
<1>1. Unsent'
  BY <1>0 DEF Unsent
<1>2. CASE queue' = queue
  <2>1. TypeOK'
    <3>1. unsent' \in [Tasks -> SUBSET Devices]
      BY DEF TypeOK, try_send
    <3>2. remove' \in [Tasks -> SUBSET Devices]
      BY DEF TypeOK, try_send
    <3>3. QED
      BY <1>2, <3>1, <3>2 DEF TypeOK, try_send
  <2>2. subscribers[e] = "live" => Pending(e, s)'
    <3>1. format(s) \in Update /\ queue[e] \in Seq(Update)
      BY ZenonT(30) DEF TypeOK, format, Update
    <3>2. Len(Push(s, e)) = Len(queue[e]) + 1 /\ Len(queue[e]) \in Nat
      BY <3>1, PushUpdate DEF Push
    <3>3. queue' # [queue EXCEPT ![e] = Push(s, e)]
      BY <1>2, <3>2 DEF TypeOK
    <3>4. subscribers[e] = "live" => remove' = [remove EXCEPT ![s] = @ \cup {e}]
      BY <3>3 DEF try_send
    <3>5. QED
      BY <3>4 DEF TypeOK, Pending
  <2>3. ChannelCurrent'
    BY <1>0, <1>2, <2>2 DEF ChannelCurrent
  <2>4. Told'
    BY <1>0, <1>2, <2>2 DEF Told, Knows
  <2>5. Unheard'
    BY <1>0, <1>2 DEF Unheard
  <2>6. QED
    BY <1>1, <2>1, <2>3, <2>4, <2>5
<1>3. CASE queue' # queue
  <2> DEFINE u == format(s)
  <2>1. /\ u \in Update /\ u.task = s /\ u.version = version[s]
        /\ queue[e] \in Seq(Update) /\ Len(queue[e]) <= Capacity /\ Capacity \in Nat
    BY ZenonT(30), NotificationsAssumption DEF TypeOK, format, Update
  <2>2. /\ queue' = [queue EXCEPT ![e] = Append(queue[e], u)]
        /\ subscribers[e] = "live" /\ ~Full(e) /\ remove' = remove
    BY <1>3 DEF try_send, Push
  <2> HIDE DEF u
  <2>3. /\ Append(queue[e], u) \in Seq(Update)
        /\ Len(Append(queue[e], u)) = Len(queue[e]) + 1
        /\ LastUpdate(Append(queue[e], u), s, version[s])
        /\ \A t \in Tasks \ {s} :
             /\ NoUpdate(queue[e], t) => NoUpdate(Append(queue[e], u), t)
             /\ \A v : LastUpdate(queue[e], t, v) => LastUpdate(Append(queue[e], u), t, v)
    BY <2>1, PushUpdate
  <2>4. queue'[e] = Append(queue[e], u)
    BY <2>2 DEF TypeOK
  <2>5. Len(Append(queue[e], u)) <= Capacity
    <3>1. Len(queue[e]) \in Nat /\ Len(queue[e]) # Capacity
      BY <2>1, <2>2 DEF Full
    <3>2. QED
      BY <2>1, <2>3, <3>1
  <2>6. TypeOK'
    BY <2>2, <2>3, <2>4, <2>5 DEF TypeOK, try_send
  <2>7. ChannelCurrent'
    BY ZenonT(30), <1>0, <2>3, <2>4 DEF ChannelCurrent
  <2>8. Told'
    <3> SUFFICES ASSUME NEW d \in Devices, NEW t \in Tasks,
                        subscribers[d] = "live", ~Pending(d, t)', t \in fetched[d]
                 PROVE  Knows(d, t, version[t])'
      BY <1>0 DEF Told
    <3>1. CASE d = e /\ t = s
      BY ZenonT(30), <1>0, <2>3, <2>4, <3>1 DEF Knows
    <3>2. CASE d # e \/ t # s
      <4>1. Knows(d, t, version[t])
        BY <1>0, <3>2 DEF Told
      <4>2. CASE d # e
        BY <1>0, <4>1, <4>2 DEF Knows
      <4>3. CASE d = e
        BY ZenonT(30), <1>0, <2>3, <2>4, <3>2, <4>1, <4>3 DEF Knows
      <4>4. QED
        BY <4>2, <4>3
    <3>3. QED
      BY <3>1, <3>2
  <2>9. Unheard'
    BY ZenonT(30), <1>0, <2>3, <2>4 DEF Unheard
  <2>10. QED
    BY <1>1, <2>6, <2>7, <2>8, <2>9
<1>4. QED
  BY <1>2, <1>3

\* A device that is unsubscribed or whose channel is only marked for it: the timer,
\* and the end of send_updates.
LEMMA UnsubscribeStep ==
  ASSUME IInv, NEW e \in Devices,
         \/ \E s \in Tasks : remove_subscriber(s, e)
         \/ check_subscribers(e)
         \/ RemoveExpired(e)
  PROVE  IInv'
<1> USE DEF IInv
<1>1. TypeOK'
  <2>1. ASSUME NEW s \in Tasks, remove_subscriber(s, e) PROVE TypeOK'
    BY <2>1 DEF TypeOK, remove_subscriber, devices
  <2>2. CASE check_subscribers(e)
    BY <2>2 DEF TypeOK, check_subscribers, devices
  <2>3. CASE RemoveExpired(e)
    BY <2>3 DEF TypeOK, RemoveExpired, devices
  <2>4. QED
    BY <2>1, <2>2, <2>3
<1>2. /\ version' = version /\ queue' = queue /\ view' = view /\ fetched' = fetched
      /\ unsent' = unsent
      /\ \A d \in Devices : subscribers'[d] = "live" => subscribers[d] = "live"
  BY DEF TypeOK, remove_subscriber, check_subscribers, RemoveExpired, devices
<1>3. \A d \in Devices, t \in Tasks :
        subscribers'[d] = "live" /\ ~Pending(d, t)' => ~Pending(d, t)
  <2>1. ASSUME NEW s \in Tasks, remove_subscriber(s, e),
               NEW d \in Devices, NEW t \in Tasks, subscribers'[d] = "live", ~Pending(d, t)'
        PROVE  ~Pending(d, t)
    BY <2>1 DEF TypeOK, remove_subscriber, Pending
  <2>2. CASE check_subscribers(e) \/ RemoveExpired(e)
    BY <2>2 DEF check_subscribers, RemoveExpired, Pending
  <2>3. QED
    BY <2>1, <2>2
<1>4. ChannelCurrent'
  BY <1>2, <1>3 DEF ChannelCurrent
<1>5. Told'
  BY <1>2, <1>3 DEF Told, Knows
<1>6. Unheard' /\ Unsent'
  BY <1>2 DEF Unheard, Unsent
<1>7. QED
  BY <1>1, <1>4, <1>5, <1>6

\* A new stream, and one that ends: an empty channel, or none the server sends to.
LEMMA StreamStep ==
  ASSUME IInv, NEW e \in Devices, subscribe_updates(e) \/ Disconnect(e) \/ StreamEnds(e)
  PROVE  IInv'
<1> USE DEF IInv
<1>1. TypeOK'
  <2>1. CASE subscribe_updates(e)
    BY <2>1, NewChannel, NotificationsAssumption DEF TypeOK, subscribe_updates
  <2>2. CASE Disconnect(e)
    BY <2>2, NewChannel, NotificationsAssumption DEF TypeOK, Disconnect
  <2>3. CASE StreamEnds(e)
    BY <2>3 DEF TypeOK, StreamEnds
  <2>4. QED
    BY <2>1, <2>2, <2>3
<1>2. /\ version' = version /\ view' = view /\ unsent' = unsent /\ remove' = remove
      /\ \A d \in Devices \ {e} : /\ queue'[d] = queue[d]
                                  /\ fetched'[d] = fetched[d]
                                  /\ subscribers'[d] = subscribers[d]
  BY DEF TypeOK, subscribe_updates, Disconnect, StreamEnds
<1>3. /\ queue'[e] = <<>> \/ queue'[e] = queue[e]
      /\ subscribers'[e] = "live" => queue'[e] = <<>> /\ fetched'[e] = {}
  BY DEF TypeOK, subscribe_updates, Disconnect, StreamEnds
<1>4. ChannelCurrent'
  BY <1>2, <1>3, NewChannel DEF ChannelCurrent, Pending
<1>5. Told'
  BY <1>2, <1>3 DEF Told, Knows, Pending
<1>6. Unheard' /\ Unsent'
  BY <1>2, <1>3, NewChannel DEF Unheard, Unsent
<1>7. QED
  BY <1>1, <1>4, <1>5, <1>6

\* The list of tasks: what is not in it was not created, and what is read of it is
\* the present state (get_formatted_active_device_tasks).
LEMMA ListStep ==
  ASSUME IInv, NEW e \in Devices, get_tasks(e) \/ \E s \in Tasks : get_task(e, s)
  PROVE  IInv'
<1> USE DEF IInv
<1>1. TypeOK'
  <2>1. CASE get_tasks(e)
    BY <2>1 DEF TypeOK, get_tasks, get_active_device_tasks
  <2>2. ASSUME NEW s \in Tasks, get_task(e, s) PROVE TypeOK'
    BY <2>2 DEF TypeOK, get_task, format
  <2>3. QED
    BY <2>1, <2>2
<1>2. /\ version' = version /\ unsent' = unsent /\ remove' = remove /\ queue' = queue
      /\ subscribers' = subscribers
      /\ \A d \in Devices \ {e} : fetched'[d] = fetched[d] /\ view'[d] = view[d]
  BY DEF TypeOK, get_tasks, get_task
<1>3. \A t \in Tasks :
        /\ view'[e][t] = view[e][t] \/ view'[e][t] = version[t]
        /\ t \in fetched'[e] =>
             \/ view'[e][t] = version[t]
             \/ version[t] = 0 /\ view'[e][t] = view[e][t]
             \/ t \in fetched[e]
  <2>1. CASE get_tasks(e)
    <3>1. view' = view /\ fetched'[e] = Tasks \ get_active_device_tasks
      BY <2>1 DEF get_tasks, TypeOK
    <3>2. \A t \in Tasks : t \notin get_active_device_tasks => version[t] = 0
      BY DEF get_active_device_tasks, TypeOK
    <3>3. QED
      BY <3>1, <3>2
  <2>2. CASE \E s \in Tasks : get_task(e, s)
    BY <2>2 DEF get_task, format, TypeOK
  <2>3. QED
    BY <2>1, <2>2
<1>4. ChannelCurrent'
  BY <1>2 DEF ChannelCurrent, Pending
<1>5. Told'
  <2>1. ASSUME NEW t \in Tasks, subscribers[e] = "live", ~Pending(e, t), t \in fetched'[e]
        PROVE  Knows(e, t, version[t])'
    BY <1>2, <1>3, <2>1 DEF Told, Knows, ChannelCurrent, Unheard
  <2>2. QED
    BY <1>2, <2>1 DEF Told, Knows, Pending
<1>6. Unheard' /\ Unsent'
  BY <1>2, <1>3 DEF Unheard, Unsent
<1>7. QED
  BY <1>1, <1>4, <1>5, <1>6

\* A device takes an update out of its channel.
LEMMA ReceiveStep ==
  ASSUME IInv, NEW e \in Devices, Receive(e)
  PROVE  IInv'
<1> USE DEF IInv
<1> DEFINE q == queue[e]
           u == Head(queue[e])
<1>1. /\ u \in Update
      /\ Tail(q) \in Seq(Update)
      /\ Len(Tail(q)) <= Len(q)
      /\ \A t \in Tasks :
           /\ NoUpdate(q, t) => NoUpdate(Tail(q), t) /\ u.task # t
           /\ \A v : LastUpdate(q, t, v) =>
                \/ LastUpdate(Tail(q), t, v)
                \/ NoUpdate(Tail(q), t) /\ u = [task |-> t, version |-> v]
  BY ZenonT(30), PopUpdate DEF Receive, TypeOK
<1>2. u.task \in Tasks /\ u.version \in 0 .. MaxVersion
  BY <1>1 DEF Update
<1>3. /\ version' = version /\ unsent' = unsent /\ remove' = remove
      /\ subscribers' = subscribers /\ fetched' = fetched
      /\ queue' = [queue EXCEPT ![e] = Tail(q)]
      /\ view' = [view EXCEPT ![e][u.task] = u.version]
  BY DEF Receive
<1> HIDE DEF q, u
<1>4. /\ queue'[e] = Tail(q)
      /\ view'[e][u.task] = u.version
      /\ \A t \in Tasks : t # u.task => view'[e][t] = view[e][t]
      /\ \A d \in Devices \ {e} : queue'[d] = queue[d] /\ view'[d] = view[d]
  BY <1>2, <1>3 DEF TypeOK
<1>5. TypeOK'
  <2>1. Len(Tail(q)) <= Capacity
    BY <1>1, NotificationsAssumption DEF TypeOK, q
  <2>2. queue' \in [Devices -> Seq(Update)]
    BY <1>1, <1>3 DEF TypeOK
  <2>3. \A d \in Devices : Len(queue'[d]) <= Capacity
    BY ZenonT(30), <1>4, <2>1 DEF TypeOK
  <2>4. view' \in [Devices -> [Tasks -> 0 .. MaxVersion]]
    BY <1>2, <1>3 DEF TypeOK
  <2>5. QED
    BY <2>2, <2>3, <2>4 DEF TypeOK, Receive
<1>6. ChannelCurrent'
  BY <1>1, <1>3, <1>4 DEF ChannelCurrent, Pending, q
<1>7. Told'
  <2> SUFFICES ASSUME NEW d \in Devices, NEW t \in Tasks,
                      subscribers[d] = "live", ~Pending(d, t), t \in fetched[d]
               PROVE  Knows(d, t, version[t])'
    BY <1>3 DEF Told, Pending
  <2>1. Knows(d, t, version[t])
    BY DEF Told
  <2>2. CASE d # e
    BY <1>3, <1>4, <2>1, <2>2 DEF Knows
  <2>3. CASE d = e
    BY <1>1, <1>3, <1>4, <2>1, <2>3 DEF Knows, q
  <2>4. QED
    BY <2>2, <2>3
<1>8. Unheard' /\ Unsent'
  BY <1>1, <1>3, <1>4 DEF Unheard, Unsent, q
<1>9. QED
  BY <1>5, <1>6, <1>7, <1>8

\* Every step keeps the invariant.
LEMMA NotificationsNext == IInv /\ [Next]_vars => IInv'
<1> SUFFICES ASSUME IInv, [Next]_vars PROVE IInv'
  OBVIOUS
<1>1. CASE UNCHANGED vars
  <2> USE <1>1 DEF IInv, vars, devices
  <2>1. TypeOK'
    BY DEF TypeOK
  <2>2. ChannelCurrent' /\ Told' /\ Unheard' /\ Unsent'
    BY ZenonT(30) DEF ChannelCurrent, Told, Unheard, Unsent, Pending, Knows
  <2>3. QED
    BY <2>1, <2>2
<1>2. CASE Next
  BY <1>2, ChangeStep, SendStep, UnsubscribeStep, StreamStep, ListStep, ReceiveStep
     DEF Next, Server, Client
<1>3. QED
  BY <1>1, <1>2

-----------------------------------------------------------------------------
\* The invariant holds in every reachable state.
LEMMA NotificationsInductive == Spec => []IInv
  BY NotificationsInit, NotificationsNext, PTL DEF Spec

\* The channels keep to their capacity, and the variables to their types.
THEOREM NotificationsTypeCorrect == Spec => []TypeOK
<1>1. IInv => TypeOK
  BY DEF IInv
<1>2. QED
  BY <1>1, NotificationsInductive, PTL

\* No update is silently lost by send_updates or by the list of tasks, for any
\* number of devices and tasks and any capacity.
THEOREM NotificationsSafety == Spec => []NothingMissed
<1>1. IInv => NothingMissed
  BY DEF IInv, Told, Pending, NothingMissed, Unlocked
<1>2. QED
  BY <1>1, NotificationsInductive, PTL

-----------------------------------------------------------------------------
\* A device with a stream has its receiving end, and its list is about all tasks.
StreamInv ==
  \A d \in Devices :
    /\ stream[d] => subscribers[d] # "closed"
    /\ NotListed(d) \/ listing[d] \cup fetched[d] = Tasks

\* Subscribing, listing and leaving keep streams and subscribers together.
LEMMA StreamInvStep == ASSUME TypeOK, StreamInv, [Next]_vars PROVE StreamInv'
<1> USE DEF devices
<1>t. /\ subscribers \in [Devices -> {"none", "live", "closed"}]
      /\ stream \in [Devices -> BOOLEAN]
      /\ listing \in [Devices -> SUBSET Tasks] /\ fetched \in [Devices -> SUBSET Tasks]
  BY DEF TypeOK
<1>1. ASSUME UNCHANGED <<stream, listing, fetched>>,
             \A d \in Devices : subscribers'[d] \in {subscribers[d], "none"}
      PROVE  StreamInv'
  BY <1>1 DEF StreamInv, NotListed
<1>2. ASSUME NEW t \in Tasks, Change(t) PROVE StreamInv'
  BY <1>1, <1>2 DEF Change
<1>3. ASSUME Server PROVE StreamInv'
  <2>1. ASSUME NEW t \in Tasks, NEW d \in Devices, try_send(t, d) \/ remove_subscriber(t, d)
        PROVE  StreamInv'
    BY <1>1, <1>t, <2>1 DEF try_send, remove_subscriber
  <2>2. ASSUME NEW d \in Devices, check_subscribers(d) \/ RemoveExpired(d)
        PROVE  StreamInv'
    BY <1>1, <1>t, <2>2 DEF check_subscribers, RemoveExpired
  <2> QED BY <1>3, <2>1, <2>2 DEF Server
<1>4. ASSUME NEW d \in Devices, Receive(d) PROVE StreamInv'
  BY <1>1, <1>4 DEF Receive
<1>5. ASSUME NEW d \in Devices, StreamEnds(d) \/ Disconnect(d) PROVE StreamInv'
  <2>1. /\ UNCHANGED <<listing, fetched>> /\ ~stream'[d]
        /\ \A e \in Devices \ {d} : stream'[e] = stream[e] /\ subscribers'[e] = subscribers[e]
    BY <1>5, <1>t DEF StreamEnds, Disconnect
  <2> QED BY <2>1 DEF StreamInv, NotListed
<1>6. ASSUME NEW d \in Devices, subscribe_updates(d) PROVE StreamInv'
  <2>1. /\ subscribers'[d] = "live" /\ listing'[d] = {} /\ fetched'[d] = {}
        /\ \A e \in Devices \ {d} :
             /\ stream'[e] = stream[e] /\ subscribers'[e] = subscribers[e]
             /\ listing'[e] = listing[e] /\ fetched'[e] = fetched[e]
    BY <1>6, <1>t DEF subscribe_updates
  <2> QED BY <2>1 DEF StreamInv, NotListed
<1>7. ASSUME NEW d \in Devices, get_tasks(d) \/ \E t \in Tasks : get_task(d, t) PROVE StreamInv'
  <2>1. /\ UNCHANGED <<stream, subscribers>>
        /\ \A e \in Devices \ {d} : listing'[e] = listing[e] /\ fetched'[e] = fetched[e]
    BY <1>7, <1>t DEF get_tasks, get_task
  <2>2. CASE get_tasks(d)
    <3>1. listing'[d] \cup fetched'[d] = Tasks
      BY <1>t, <2>2 DEF get_tasks, get_active_device_tasks
    <3> QED BY <2>1, <3>1 DEF StreamInv, NotListed
  <2>3. ASSUME NEW t \in Tasks, get_task(d, t) PROVE StreamInv'
    <3>1. t \in listing[d] /\ listing'[d] = listing[d] \ {t} /\ fetched'[d] = fetched[d] \cup {t}
      BY <1>t, <2>3 DEF get_task
    <3>2. listing'[d] \cup fetched'[d] = Tasks
      BY <3>1 DEF StreamInv, NotListed
    <3> QED BY <2>1, <3>2 DEF StreamInv, NotListed
  <2> QED BY <1>7, <2>2, <2>3
<1>8. CASE UNCHANGED vars
  BY <1>1, <1>8 DEF vars
<1> QED BY <1>2, <1>3, <1>4, <1>5, <1>6, <1>7, <1>8 DEF Next, Client

\* A device that has read everything there is for it is up to date, for any number
\* of devices and tasks and any capacity: what Converges needs besides fairness.
THEOREM NotificationsCurrent == Spec => []SettledCurrent
<1>1. Init => StreamInv
  BY DEF Init, StreamInv, NotListed
<1>2. IInv /\ StreamInv /\ [Next]_vars => StreamInv'
  BY StreamInvStep DEF IInv
<1>3. ASSUME IInv, StreamInv, NEW d \in Devices, NEW t \in Tasks, Settled(d), Unlocked(t)
      PROVE  view[d][t] = version[t]
  <2>1. subscribers[d] = "live" /\ t \in fetched[d] /\ queue[d] = <<>>
    BY <1>3 DEF IInv, TypeOK, StreamInv, Settled
  <2>2. Knows(d, t, version[t])
    BY <1>3, <2>1 DEF IInv, Told, Pending, Unlocked
  <2>3. ~LastUpdate(queue[d], t, version[t])
    BY <2>1 DEF LastUpdate
  <2> QED BY <2>2, <2>3 DEF Knows
<1>4. IInv /\ StreamInv => SettledCurrent
  BY <1>3 DEF SettledCurrent
<1> QED BY <1>1, <1>2, <1>4, NotificationsInductive, PTL DEF Spec

=============================================================================
