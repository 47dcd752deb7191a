-------------------------- MODULE TaskStoreProofs --------------------------
(***************************************************************************)
(* For any number of requests, CachedTaskStore keeps one copy of a task,   *)
(* coherent with its rows, and implements TaskCell.  The argument: rows    *)
(* only change under a write guard, a write guard is only had through the  *)
(* cache, and an entry of the cache is never replaced.  So until there is  *)
(* an entry nothing changes, all hydrations under way read the same        *)
(* version, and the first of them to end, or the creator, makes the entry; *)
(* the later ones are dropped.  Only the creator may find an entry and     *)
(* replace it; the invariant says what holds until then, and what still    *)
(* holds afterwards.                                                       *)
(***************************************************************************)
EXTENDS TaskStore, TLAPS

Guarded == {"lock", "read", "hold", "changed"}

\* While the task is uncached no request is past the insertion, and whatever
\* the requests have read is the present version.
UncachedInv ==
  cache = 0 => \A c \in Clients :
                 /\ pc[c] \in {"idle", "models", "rest", "insert"}
                 /\ pc[c] \in {"rest", "insert"} => seen[c] = rows

\* Once it is cached there is one Arc, and it is one version ahead of the rows
\* exactly while a handler is storing its change.
CachedInv ==
  cache # 0 =>
    /\ \A c \in Clients : pc[c] \in Guarded => arc[c] = cache
    /\ content[cache] \in Nat
    /\ \A c \in Clients : pc[c] = "changed" => content[cache] = rows + 1
    /\ (\A c \in Clients : pc[c] # "changed") => content[cache] = rows

\* What the rows say while the task is created: nothing before the creator has
\* written them, and what it wrote until the task is cached.
NewInv ==
  /\ creator = "new" => rows = 0 /\ cache = 0 /\ \A c \in Clients : pc[c] \in {"idle", "models"}
  /\ creator # "new" => rows >= 1
  /\ creator = "persisted" /\ cache = 0 => rows = 1

\* What holds in every state: at most one Arc beside the creator's, and no Arc
\* with a Task that was read while the rows changed.
CreationInv ==
  /\ UncachedInv
  /\ NewInv
  /\ \A i \in 1 .. arcs : content[i] >= 1
  /\ creator = "persisted" => arcs = cache /\ arcs \in 0 .. 1
  /\ cache = 0 <=> arcs = 0
  /\ \A c \in Clients :
       /\ pc[c] \in Guarded \cup {"lookup"} => cache # 0
       /\ pc[c] \in Guarded => arc[c] \in 1 .. arcs

\* What holds until persist_task replaces an entry.
StoreInv ==
  /\ cache = arcs /\ arcs \in 0 .. 1
  /\ CachedInv
  /\ Exclusive

IndInv == TypeOK /\ CreationInv /\ (~Replaced => StoreInv)

\* Every step keeps StoreInv.  The steps that matter are Insert, where the
\* version read before is still the present one, CacheNew, where the rows are
\* still as the creator wrote them, and Lock, where a writer comes in only when
\* nobody else is.
LEMMA StoreStep ==
  ASSUME TypeOK, CreationInv, StoreInv, [Next]_vars, ~Replaced, ~Replaced'
  PROVE  StoreInv'
<1> USE StoreAssumption
<1>typ. TypeOK /\ cache = arcs /\ arcs \in 0 .. 1
  BY DEF StoreInv
<1>unc. UncachedInv
  BY DEF CreationInv
<1>cac. CachedInv
  BY DEF StoreInv
<1>exc. \A c, d \in Clients : c # d /\ Writes(c) => ~Writes(d) /\ pc[d] # "read"
  BY DEF StoreInv, Exclusive
<1>1. ASSUME NEW c \in Clients, NEW m \in {"get_task", "get_task_mut"}, Begin(c, m)
      PROVE  StoreInv'
  BY <1>typ, <1>unc, <1>cac, <1>exc, <1>1
     DEF StoreInv, TypeOK, UncachedInv, CachedInv, Guarded, Exclusive, Writes, Begin, Goto
<1>2. ASSUME NEW c \in Clients, ReadModel(c)
      PROVE  StoreInv'
  BY <1>typ, <1>unc, <1>cac, <1>exc, <1>2
     DEF StoreInv, TypeOK, UncachedInv, CachedInv, Guarded, Exclusive, Writes, ReadModel, Goto
<1>3. ASSUME NEW c \in Clients, ReadRest(c)
      PROVE  StoreInv'
  BY <1>typ, <1>unc, <1>cac, <1>exc, <1>3
     DEF StoreInv, TypeOK, UncachedInv, CachedInv, Guarded, Exclusive, Writes, ReadRest, Goto,
         Torn
<1>4. ASSUME NEW c \in Clients, Insert(c)
      PROVE  StoreInv'
  <2>1. CASE cache = 0
    BY <1>typ, <1>unc, <1>exc, <1>4, <2>1
       DEF StoreInv, TypeOK, UncachedInv, CachedInv, Guarded, Exclusive, Writes, Insert, Goto,
           Arcs
  <2>2. CASE cache # 0
    BY <1>typ, <1>cac, <1>exc, <1>4, <2>2
       DEF StoreInv, TypeOK, UncachedInv, CachedInv, Guarded, Exclusive, Writes, Insert, Goto
  <2> QED BY <2>1, <2>2
<1>5. ASSUME NEW c \in Clients, Lookup(c)
      PROVE  StoreInv'
  BY <1>typ, <1>unc, <1>cac, <1>exc, <1>5
     DEF StoreInv, TypeOK, UncachedInv, CachedInv, Guarded, Exclusive, Writes, Lookup, Goto
<1>6. ASSUME NEW c \in Clients, Lock(c)
      PROVE  StoreInv'
  <2>1. cache # 0
    BY <1>typ, <1>unc, <1>6 DEF UncachedInv, Lock
  <2>2. \A o \in Clients : pc[o] \in Guarded => Holds(o, arc[c])
    BY <1>cac, <1>6, <2>1 DEF CachedInv, Guarded, Holds, Lock
  <2>3. CASE mode[c] = "get_task"
    <3>1. \A o \in Clients : ~Writes(o)
      BY <1>6, <2>2, <2>3 DEF Lock, Granted, Writes, Guarded
    <3> QED BY <1>typ, <1>cac, <1>6, <2>1, <2>3, <3>1
               DEF StoreInv, TypeOK, UncachedInv, CachedInv, Guarded, Exclusive, Writes, Lock,
                   Acquire, Goto
  <2>4. CASE mode[c] # "get_task"
    <3>1. \A o \in Clients : ~Writes(o) /\ pc[o] # "read"
      BY <1>6, <2>2, <2>4 DEF Lock, Granted, Writes, Guarded
    <3> QED BY <1>typ, <1>cac, <1>6, <2>1, <2>4, <3>1
               DEF StoreInv, TypeOK, UncachedInv, CachedInv, Guarded, Exclusive, Writes, Lock,
                   Acquire, Goto
  <2> QED BY <2>3, <2>4
<1>7. ASSUME NEW c \in Clients, Change(c)
      PROVE  StoreInv'
  <2>1. cache = 1 /\ arc[c] = 1
    BY <1>typ, <1>unc, <1>cac, <1>7 DEF UncachedInv, CachedInv, Guarded, Change
  <2>2. \A o \in Clients : o # c => ~Writes(o)
    BY <1>typ, <1>exc, <1>7 DEF Change, Writes
  <2>3. content[1] = rows
    BY <1>cac, <1>7, <2>1, <2>2 DEF CachedInv, Change, Writes
  <2>4. content'[1] = rows + 1 /\ rows' = rows /\ cache' = 1 /\ pc'[c] = "changed"
    BY <1>typ, <1>7, <2>1, <2>3 DEF Change, Goto, TypeOK, Arcs
  <2>6. CachedInv'
    BY <1>typ, <1>cac, <1>7, <2>1, <2>2, <2>4 DEF CachedInv, Guarded, Change, Goto, TypeOK
  <2>7. Exclusive'
    BY <1>typ, <1>exc, <1>7, <2>2 DEF Exclusive, Writes, Change, Goto, TypeOK
  <2> QED BY <1>typ, <1>7, <2>4, <2>6, <2>7 DEF StoreInv, Change
<1>8. ASSUME NEW c \in Clients, Store(c)
      PROVE  StoreInv'
  <2>1. cache = 1 /\ arc[c] = 1
    BY <1>typ, <1>unc, <1>cac, <1>8 DEF UncachedInv, CachedInv, Guarded, Store
  <2>2. \A o \in Clients : o # c => ~Writes(o)
    BY <1>typ, <1>exc, <1>8 DEF Store, Writes
  <2>3. content[1] = rows + 1
    BY <1>cac, <1>8, <2>1 DEF CachedInv, Store
  <2>4. rows' = content[1] /\ content' = content /\ cache' = 1
    BY <1>8, <2>1 DEF Store
  <2>6. CachedInv'
    BY <1>typ, <1>cac, <1>8, <2>1, <2>2, <2>3, <2>4
       DEF CachedInv, Guarded, Writes, Store, Goto, TypeOK
  <2>7. Exclusive'
    BY <1>typ, <1>exc, <1>8, <2>2 DEF Exclusive, Writes, Store, Goto, TypeOK
  <2> QED BY <1>typ, <1>8, <2>4, <2>6, <2>7 DEF StoreInv, Store
<1>9. ASSUME NEW c \in Clients, Release(c)
      PROVE  StoreInv'
  BY <1>typ, <1>unc, <1>cac, <1>exc, <1>9
     DEF StoreInv, TypeOK, UncachedInv, CachedInv, Guarded, Exclusive, Writes, Release, Goto
<1>10. CASE Crash
  BY <1>typ, <1>10
     DEF StoreInv, TypeOK, UncachedInv, CachedInv, Guarded, Exclusive, Writes, Crash, Arcs
<1>11. CASE UNCHANGED vars
  BY <1>typ, <1>unc, <1>cac, <1>exc, <1>11
     DEF StoreInv, TypeOK, UncachedInv, CachedInv, Guarded, Exclusive, Writes, vars
<1>12. CASE CreateRows
  <2>1. cache = 0 /\ \A c \in Clients : pc[c] \in {"idle", "models"}
    BY <1>12 DEF CreationInv, NewInv, CreateRows
  <2> QED BY <1>typ, <1>12, <2>1 DEF StoreInv, CachedInv, Exclusive, Writes, CreateRows
<1>13. CASE CacheNew
  <2>1. cache = 0 /\ rows = 1
    BY <1>13 DEF CacheNew, Replaced, CreationInv, NewInv
  <2>2. \A c \in Clients : pc[c] \in {"idle", "models", "rest", "insert"}
    BY <1>unc, <2>1 DEF UncachedInv
  <2>3. content'[1] = 1 /\ cache' = 1 /\ arcs' = 1 /\ rows' = 1 /\ pc' = pc
    BY <1>typ, <1>13, <2>1 DEF CacheNew, TypeOK, Arcs
  <2> QED BY <2>2, <2>3 DEF StoreInv, CachedInv, Guarded, Exclusive, Writes
<1> QED
  BY <1>1, <1>2, <1>3, <1>4, <1>5, <1>6, <1>7, <1>8, <1>9, <1>10, <1>11, <1>12, <1>13
     DEF Next, Step

\* The invariant holds initially, of an existing task and of a new one.
LEMMA StoreInit == Init => IndInv
BY StoreAssumption
   DEF Init, IndInv, StoreInv, CreationInv, NewInv, TypeOK, UncachedInv, CachedInv, Exclusive,
       Replaced, Writes, Arcs, Guarded

\* Every step keeps types and CreationInv.
LEMMA CreationStep ==
  ASSUME TypeOK, CreationInv, [Next]_vars
  PROVE  TypeOK' /\ CreationInv'
<1> USE StoreAssumption DEF TypeOK, CreationInv, NewInv, UncachedInv, Guarded, Arcs
<1>1. CASE CreateRows
  BY <1>1 DEF CreateRows
<1>2. CASE CacheNew
  BY <1>2 DEF CacheNew
<1>3. ASSUME NEW c \in Clients, NEW m \in {"get_task", "get_task_mut"}, Begin(c, m)
      PROVE  TypeOK' /\ CreationInv'
  BY <1>3 DEF Begin, Goto
<1>4. ASSUME NEW c \in Clients, ReadModel(c)
      PROVE  TypeOK' /\ CreationInv'
  BY <1>4 DEF ReadModel, Goto
<1>5. ASSUME NEW c \in Clients, ReadRest(c)
      PROVE  TypeOK' /\ CreationInv'
  BY <1>5 DEF ReadRest, Goto, Torn
<1>6. ASSUME NEW c \in Clients, Insert(c)
      PROVE  TypeOK' /\ CreationInv'
  BY <1>6 DEF Insert, Goto
<1>7. ASSUME NEW c \in Clients, Lookup(c)
      PROVE  TypeOK' /\ CreationInv'
  BY <1>7 DEF Lookup, Goto
<1>8. ASSUME NEW c \in Clients, Lock(c)
      PROVE  TypeOK' /\ CreationInv'
  BY <1>8 DEF Lock, Acquire, Goto
<1>9. ASSUME NEW c \in Clients, Change(c)
      PROVE  TypeOK' /\ CreationInv'
  BY <1>9 DEF Change, Goto
<1>10. ASSUME NEW c \in Clients, Store(c)
       PROVE  TypeOK' /\ CreationInv'
  BY <1>10 DEF Store, Goto
<1>11. ASSUME NEW c \in Clients, Release(c)
       PROVE  TypeOK' /\ CreationInv'
  BY <1>11 DEF Release, Goto
<1>12. CASE Crash
  BY <1>12 DEF Crash
<1>13. CASE UNCHANGED vars
  BY <1>13 DEF vars
<1> HIDE DEF TypeOK, CreationInv, NewInv, UncachedInv, Guarded, Arcs
<1> QED
  BY <1>1, <1>2, <1>3, <1>4, <1>5, <1>6, <1>7, <1>8, <1>9, <1>10, <1>11, <1>12, <1>13
     DEF Next, Step

\* After a replacement only a restart of the process makes StoreInv hold again.
LEMMA BecomesSound ==
  ASSUME Replaced, [Next]_vars, ~Replaced'
  PROVE  StoreInv'
<1>1. Crash
  BY DEF Replaced, Next, Step, vars, CreateRows, CacheNew, Begin, ReadModel, ReadRest, Insert,
         Lookup, Lock, Acquire, Change, Store, Release
<1> QED
  BY <1>1 DEF Crash, StoreInv, CachedInv, Guarded, Exclusive, Writes

\* The invariant holds in every state.
THEOREM StoreInductive == Spec => []IndInv
<1>1. IndInv /\ [Next]_vars => IndInv'
  BY CreationStep, StoreStep, BecomesSound DEF IndInv
<1> QED BY <1>1, StoreInit, PTL DEF Spec

\* The variables keep their types; in particular there are never more than two
\* Arcs of a task, the creator's and one that a hydration made before it.
THEOREM StoreTypeCorrect == Spec => []TypeOK
<1>1. IndInv => TypeOK
  BY DEF IndInv
<1> QED BY <1>1, StoreInductive, PTL

\* No Task in memory was put together from rows of before and after a change,
\* although hydrate_tasks reads them without a transaction, also of a task that
\* is hydrated while it is created.
THEOREM StoreNeverTorn == Spec => []NeverTorn
<1>1. IndInv => NeverTorn
  BY DEF IndInv, TypeOK, CreationInv, NeverTorn, Torn
<1> QED BY <1>1, StoreInductive, PTL

\* All requests share the cached Task of an existing task, for any number of
\* requests that hydrate it at the same time (ensure_cached_tasks).
THEOREM StoreSingleCopy == Spec => []SingleCopy
<1>1. IndInv => SingleCopy
  BY DEF IndInv, StoreInv, CreationInv, TypeOK, UncachedInv, CachedInv, Guarded, SingleCopy, Holds
<1> QED BY <1>1, StoreInductive, PTL

\* A handler with the write guard is alone with the task (get_task_mut).
THEOREM StoreExclusive == Spec => []Exclusive
<1>1. IndInv => Exclusive
  BY DEF IndInv, StoreInv, Exclusive, Replaced
<1> QED BY <1>1, StoreInductive, PTL

\* Cached Task and rows agree whenever no change is being stored.
THEOREM StoreCoherent == Spec => []Coherent
<1>1. IndInv => Coherent
  BY DEF IndInv, StoreInv, CachedInv, Coherent, Replaced
<1> QED BY <1>1, StoreInductive, PTL

\* No stored change of the task is lost to another handler's.
THEOREM StoreNoLostChange == Spec => NoLostChange
<1>1. ASSUME IndInv, [Next]_vars
      PROVE  [~Replaced /\ rows' # rows => rows' = rows + 1]_vars
  <2>1. ASSUME NEW c \in Clients, Store(c), ~Replaced
        PROVE  rows' = rows + 1
    BY <1>1, <2>1
       DEF IndInv, StoreInv, CreationInv, UncachedInv, CachedInv, Guarded, Store
  <2>2. CASE CreateRows
    BY <1>1, <2>2 DEF IndInv, CreationInv, NewInv, CreateRows
  <2> QED
    BY <1>1, <2>1, <2>2
       DEF Next, Step, vars, CacheNew, Begin, ReadModel, ReadRest, Insert, Lookup, Lock,
           Acquire, Change, Release, Crash
<1> QED BY <1>1, StoreInductive, PTL DEF Spec, NoLostChange

-----------------------------------------------------------------------------
(***************************************************************************)
(* The store implements TaskCell.                                          *)
(***************************************************************************)
Copy == IF cache = 0 THEN rows ELSE content[cache]

\* What requests see through their guards is the one copy.
LEMMA AllSeeCopy ==
  ASSUME TypeOK, CreationInv, StoreInv
  PROVE  Sees = [c \in Clients |-> IF Guards[c] = "none" THEN 0 ELSE Copy]
<1>1. ASSUME NEW c \in Clients, Guards[c] # "none"
      PROVE  arc[c] = cache /\ cache # 0
  BY <1>1 DEF Guards, Writes, StoreInv, CachedInv, CreationInv, Guarded
<1> QED BY <1>1 DEF Sees, Copy

LEMMA AllSeeCopyNext ==
  ASSUME TypeOK', CreationInv', StoreInv'
  PROVE  Sees' = [c \in Clients |-> IF Guards'[c] = "none" THEN 0 ELSE Copy']
<1>1. ASSUME NEW c \in Clients, Guards'[c] # "none"
      PROVE  arc'[c] = cache' /\ cache' # 0
  BY <1>1 DEF Guards, Writes, StoreInv, CachedInv, CreationInv, Guarded
<1> QED BY <1>1 DEF Sees, Copy

\* Initially nobody has a guard.
LEMMA CellInit == Init => Cell!Init
BY DEF Init, Cell!Init, Cell!Nobody, Guards, Sees, Writes, Replaced

\* A step between two sound states changes the rows, the copy and the guards as
\* TaskCell allows, or none of them.
LEMMA CellAccess ==
  ASSUME TypeOK, CreationInv, StoreInv, ~Replaced, [Next]_vars, ~Crash, ~Replaced'
  PROVE  \/ Cell!Create
         \/ \E c \in Clients :
              \/ \E guard \in {"read", "write"} : Cell!Enter(c, guard)
              \/ Cell!Change(c) \/ Cell!Store(c) \/ Cell!Leave(c)
         \/ UNCHANGED <<rows, Copy, Guards>>
<1> USE DEF Copy
<1>typ. /\ pc \in [Clients -> {"idle", "models", "rest", "insert", "lookup", "lock", "read",
                           "hold", "changed"}]
        /\ cache = arcs /\ arcs \in 0 .. 1 /\ rows \in Nat
        /\ content \in [Arcs -> 0 .. MaxVersion]
  BY StoreAssumption DEF TypeOK, StoreInv
<1>arc. ASSUME NEW c \in Clients, pc[c] \in Guarded
        PROVE  arc[c] = 1 /\ cache = 1 /\ rows > 0 /\ creator # "new"
  BY <1>arc, <1>typ DEF StoreInv, CachedInv, CreationInv, NewInv, Guarded
<1>1. CASE CreateRows
  <2>1. rows = 0 /\ cache = 0 /\ Guards' = Guards
    BY <1>1 DEF CreateRows, CreationInv, NewInv, Guards, Writes
  <2> QED BY <1>1, <2>1 DEF CreateRows, Cell!Create
<1>2. CASE CacheNew
  <2>1. rows = 1 /\ cache = 0 /\ Guards' = Guards
    BY <1>2 DEF CacheNew, Replaced, CreationInv, NewInv, Guards, Writes
  <2> QED BY <1>typ, <1>2, <2>1 DEF CacheNew, Arcs
<1>3. ASSUME NEW c \in Clients, NEW m \in {"get_task", "get_task_mut"}, Begin(c, m)
      PROVE  UNCHANGED <<rows, Copy, Guards>>
  BY <1>typ, <1>3 DEF Begin, Goto, Guards, Writes
<1>4. ASSUME NEW c \in Clients, ReadModel(c) \/ ReadRest(c) \/ Lookup(c)
      PROVE  UNCHANGED <<rows, Copy, Guards>>
  BY <1>typ, <1>4 DEF ReadModel, ReadRest, Lookup, Goto, Guards, Writes
<1>5. ASSUME NEW c \in Clients, Insert(c)
      PROVE  UNCHANGED <<rows, Copy, Guards>>
  <2>1. Guards' = Guards
    BY <1>typ, <1>5 DEF Insert, Goto, Guards, Writes
  <2>2. Copy' = Copy
    BY <1>typ, <1>5 DEF Insert, CreationInv, UncachedInv, Arcs
  <2> QED BY <1>5, <2>1, <2>2 DEF Insert
<1>6. ASSUME NEW c \in Clients, Lock(c)
      PROVE  \E guard \in {"read", "write"} : Cell!Enter(c, guard)
  <2> DEFINE guard == IF mode[c] = "get_task" THEN "read" ELSE "write"
  <2>1. \A o \in Clients : pc[o] \in Guarded => Holds(o, arc[c])
    BY <1>arc, <1>6 DEF Lock, Holds, Guarded
  <2>2. \A o \in Clients : Guards[o] = "none" \/ (Guards[o] = "read" /\ guard = "read")
    BY <1>6, <2>1 DEF Lock, Granted, Guards, Writes, Guarded
  <2>3. Guards' = [Guards EXCEPT ![c] = guard] /\ Guards[c] = "none"
    BY ZenonT(30), <1>typ, <1>6 DEF Lock, Acquire, Goto, Guards, Writes
  <2>4. rows > 0 /\ UNCHANGED <<rows, Copy>>
    BY <1>arc, <1>6 DEF Lock, Acquire, Guarded
  <2> QED BY ZenonT(30), <2>2, <2>3, <2>4 DEF Cell!Enter
<1>7. ASSUME NEW c \in Clients, Change(c)
      PROVE  Cell!Change(c)
  <2>1. arc[c] = 1 /\ cache = 1 /\ Guards[c] = "write" /\ Guards' = Guards
    BY <1>typ, <1>arc, <1>7 DEF Change, Goto, Guards, Writes, Guarded
  <2>2. content[1] = rows
    BY <1>7, <2>1 DEF StoreInv, CachedInv, Exclusive, Change, Writes
  <2> QED BY <1>typ, <1>7, <2>1, <2>2 DEF Change, Cell!Change, Arcs
<1>8. ASSUME NEW c \in Clients, Store(c)
      PROVE  Cell!Store(c)
  <2>1. arc[c] = 1 /\ cache = 1 /\ Guards[c] = "write" /\ Guards' = Guards
    BY <1>typ, <1>arc, <1>8 DEF Store, Goto, Guards, Writes, Guarded
  <2> QED BY <1>8, <2>1 DEF Store, Cell!Store, StoreInv, CachedInv
<1>9. ASSUME NEW c \in Clients, Release(c)
      PROVE  Cell!Leave(c)
  <2>1. cache = 1 /\ Guards[c] # "none" /\ Guards' = [Guards EXCEPT ![c] = "none"]
    BY ZenonT(30), <1>typ, <1>arc, <1>9 DEF Release, Goto, Guards, Writes, Guarded
  <2>2. \A o \in Clients : pc[o] # "changed"
    BY <1>9 DEF StoreInv, Exclusive, Release, Writes
  <2> QED BY <1>9, <2>1, <2>2 DEF Release, Cell!Leave, StoreInv, CachedInv
<1>10. CASE UNCHANGED vars
  BY <1>10 DEF vars, Guards, Writes
<1> QED
  BY <1>1, <1>2, <1>3, <1>4, <1>5, <1>6, <1>7, <1>8, <1>9, <1>10 DEF Next, Step

\* Every step of the store is one of TaskCell, or changes nothing it speaks of.
LEMMA CellStep ==
  ASSUME IndInv, IndInv', [Next]_vars
  PROVE  [Cell!Next]_(Cell!vars)
<1>1. CASE Crash
  <2>1. Guards' = Cell!Nobody /\ Copy' = rows /\ Sees' = [c \in Clients |-> 0]
    BY <1>1 DEF Crash, Guards, Sees, Writes, Copy, Cell!Nobody
  <2>2. ~Replaced' /\ rows' = rows
    BY <1>1 DEF Crash, Replaced
  <2> QED BY <2>1, <2>2 DEF Cell!Next, Cell!Restart, Cell!OneRecord, Cell!Nobody, Copy
<1>2. CASE ~Crash /\ Replaced
  <2>1. Replaced'
    BY <1>2 DEF Replaced, Next, Step, vars, CreateRows, CacheNew, Begin, ReadModel, ReadRest,
                Insert, Lookup, Lock, Acquire, Change, Store, Release
  <2> QED BY <1>2, <2>1 DEF Cell!Next, Cell!Unsound
<1>3. CASE ~Replaced /\ Replaced'
  <2>1. CacheNew
    BY <1>3 DEF Replaced, Next, Step, vars, CreateRows, Begin, ReadModel, ReadRest, Insert,
                Lookup, Lock, Acquire, Change, Store, Release, Crash
  <2>2. rows > 0 /\ rows' = rows /\ Guards' = Guards
    BY <2>1 DEF CacheNew, IndInv, TypeOK, CreationInv, NewInv, Guards, Writes
  <2> QED BY <1>3, <2>2 DEF Cell!Next, Cell!Replace
<1>4. CASE ~Crash /\ ~Replaced /\ ~Replaced'
  <2>1. Sees = [c \in Clients |-> IF Guards[c] = "none" THEN 0 ELSE Copy]
    BY <1>4, AllSeeCopy DEF IndInv
  <2>2. Sees' = [c \in Clients |-> IF Guards'[c] = "none" THEN 0 ELSE Copy']
    BY <1>4, AllSeeCopyNext DEF IndInv
  <2>3. CASE UNCHANGED <<rows, Copy, Guards>>
    <3>1. Sees' = Sees
      BY <2>1, <2>2, <2>3
    <3> QED BY <1>4, <2>3, <3>1 DEF Cell!vars, Copy
  <2>4. CASE ~UNCHANGED <<rows, Copy, Guards>>
    <3>1. Cell!OneRecord
      BY <2>2 DEF Cell!OneRecord, Copy
    <3>2. Cell!Access
      BY <1>4, <2>4, <3>1, CellAccess DEF IndInv, Cell!Access
    <3> QED BY <3>2 DEF Cell!Next
  <2> QED BY <2>3, <2>4
<1> QED BY <1>1, <1>2, <1>3, <1>4

\* To the requests, CachedTaskStore with its hydrations, Arcs and restarts is one
\* record behind one lock.
THEOREM StoreRefinement == Spec => ActsAsCell
<1>1. IndInv /\ IndInv' /\ [Next]_vars => [Cell!Next]_(Cell!vars)
  BY CellStep
<1> QED BY <1>1, CellInit, StoreInductive, PTL DEF Spec, ActsAsCell, Cell!Spec

=============================================================================
