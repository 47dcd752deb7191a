----------------------------- MODULE TaskStore -----------------------------
(***************************************************************************)
(* CachedTaskStore: how requests that run at the same time get at one      *)
(* task.  get_task and get_task_mut first make sure the task is cached,    *)
(* reading its rows with several statements, then clone the Arc the cache  *)
(* holds and wait for its lock.  persist_task writes the rows of a new     *)
(* task and then puts it into the cache.  Both a task that exists when the *)
(* process starts and one that is being created are initial states.        *)
(*                                                                         *)
(* What the task says is abstracted to a version: every change a handler   *)
(* makes is one more.  A handler changes the task in memory and then       *)
(* stores it, holding the write guard throughout; requests that lose their *)
(* guard in between are the subject of TaskLifecycle.                      *)
(***************************************************************************)
EXTENDS Naturals

CONSTANTS
  Clients,     \* the requests being served, and the timer
  MaxVersion   \* bound on the changes made to the task

ASSUME StoreAssumption == MaxVersion \in Nat \ {0}

VARIABLES
  rows,     \* version of the rows; 0 before they are written
  cache,    \* task_cache: the Arc of the task, 0 if there is no entry
  arcs,     \* number of Arcs made since the process started
  content,  \* Arc -> version of the Task in it
  creator,  \* where the request that creates the task is; "none" if the task is
            \* older than the process
  pc,       \* where each client is
  mode,     \* whether it called get_task or get_task_mut
  seen,     \* the version its first read of the rows returned
  arc,      \* the Arc it has cloned
  ahead     \* while it waits for the lock: the clients that asked for it before

vars == <<rows, cache, arcs, content, creator, pc, mode, seen, arc, ahead>>

\* A Task put together from rows of different versions.
Torn == 0

\* Two Arcs at most: one of a hydration, one of the creator.
Arcs == 1 .. 2

TypeOK ==
  /\ rows \in 0 .. MaxVersion
  /\ cache \in 0 .. arcs
  /\ arcs \in 0 .. 2
  /\ content \in [Arcs -> 0 .. MaxVersion]
  /\ creator \in {"none", "new", "persisted", "done", "evicted", "panicked"}
  /\ pc \in [Clients -> {"idle", "models", "rest", "insert", "lookup", "lock",
                         "read", "hold", "changed"}]
  /\ mode \in [Clients -> {"get_task", "get_task_mut"}]
  /\ seen \in [Clients -> 0 .. MaxVersion]
  /\ arc \in [Clients -> 0 .. 2]
  /\ ahead \in [Clients -> SUBSET Clients]

Init ==
  /\ creator \in {"none", "new"}
  /\ rows = IF creator = "new" THEN 0 ELSE 1
  /\ cache = 0 /\ arcs = 0 /\ content = [i \in Arcs |-> 0]
  /\ pc = [c \in Clients |-> "idle"]
  /\ mode = [c \in Clients |-> "get_task"]
  /\ seen = [c \in Clients |-> 0]
  /\ arc = [c \in Clients |-> 0]
  /\ ahead = [c \in Clients |-> {}]

\* The client holds a clone of this Arc.
Holds(c, i) == pc[c] \in {"lock", "read", "hold", "changed"} /\ arc[c] = i

Writes(c) == pc[c] \in {"hold", "changed"}

-----------------------------------------------------------------------------
(***************************************************************************)
(* persist_task                                                            *)
(***************************************************************************)
\* create_group_task or create_threshold_task, each one transaction.
CreateRows ==
  /\ creator = "new"
  /\ rows' = 1
  /\ creator' = "persisted"
  /\ UNCHANGED <<cache, arcs, content, pc, mode, seen, arc, ahead>>

\* task_cache.insert(..), then Arc::into_inner(evicted).unwrap() of the entry
\* that a hydration has made meanwhile.
CacheNew ==
  /\ creator = "persisted"
  /\ arcs' = arcs + 1
  /\ content' = [content EXCEPT ![arcs + 1] = 1]
  /\ cache' = arcs + 1
  /\ creator' = IF cache = 0 THEN "done"
                ELSE IF \E c \in Clients : Holds(c, cache) THEN "panicked" ELSE "evicted"
  /\ UNCHANGED <<rows, pc, mode, seen, arc, ahead>>

-----------------------------------------------------------------------------
(***************************************************************************)
(* get_task and get_task_mut                                               *)
(***************************************************************************)
Goto(c, label) == pc' = [pc EXCEPT ![c] = label]

\* ensure_cached_tasks looks the task up.
Begin(c, m) ==
  /\ pc[c] = "idle"
  /\ mode' = [mode EXCEPT ![c] = m]
  /\ Goto(c, IF cache = 0 THEN "models" ELSE "lookup")
  /\ UNCHANGED <<rows, cache, arcs, content, creator, seen, arc, ahead>>

\* get_task_models; "Invalid task id(s)" when there is no such row.
ReadModel(c) ==
  /\ pc[c] = "models"
  /\ seen' = [seen EXCEPT ![c] = rows]
  /\ Goto(c, IF rows = 0 THEN "idle" ELSE "rest")
  /\ UNCHANGED <<rows, cache, arcs, content, creator, mode, arc, ahead>>

\* The other statements of hydrate_tasks: participants, decisions, active
\* shares, acknowledgements.  Rows that do not fit together can also make
\* them fail.
ReadRest(c) ==
  /\ pc[c] = "rest"
  /\ \/ Goto(c, "insert")
     \/ seen[c] # rows /\ Goto(c, "idle")
  /\ seen' = [seen EXCEPT ![c] = IF @ = rows THEN @ ELSE Torn]
  /\ UNCHANGED <<rows, cache, arcs, content, creator, mode, arc, ahead>>

\* Mutants: a hydration replaces the entry; it overwrites the Task in it.
Replace(c) ==
  /\ pc[c] = "insert"
  /\ arcs' = arcs + 1 /\ cache' = arcs + 1
  /\ content' = [content EXCEPT ![arcs + 1] = seen[c]]
  /\ Goto(c, "lookup")
  /\ seen' = [seen EXCEPT ![c] = 0]
  /\ UNCHANGED <<rows, creator, mode, arc, ahead>>

Overwrite(c) ==
  /\ pc[c] = "insert"
  /\ IF cache = 0 THEN arcs' = arcs + 1 /\ cache' = arcs + 1 ELSE UNCHANGED <<arcs, cache>>
  /\ content' = [content EXCEPT ![cache'] = seen[c]]
  /\ Goto(c, "lookup")
  /\ seen' = [seen EXCEPT ![c] = 0]
  /\ UNCHANGED <<rows, creator, mode, arc, ahead>>

\* Entry::Vacant(entry) => entry.insert(..)
Insert(c) ==
  /\ pc[c] = "insert"
  /\ IF cache = 0
     THEN /\ arcs' = arcs + 1 /\ cache' = arcs + 1
          /\ content' = [content EXCEPT ![arcs + 1] = seen[c]]
     ELSE UNCHANGED <<arcs, cache, content>>
  /\ Goto(c, "lookup")
  /\ seen' = [seen EXCEPT ![c] = 0]
  /\ UNCHANGED <<rows, creator, mode, arc, ahead>>

\* task_cache.get(task_id)..clone(), and the client queues for the lock.
Lookup(c) ==
  /\ pc[c] = "lookup"
  /\ arc' = [arc EXCEPT ![c] = cache]
  /\ ahead' = [ahead EXCEPT ![c] = {o \in Clients : pc[o] = "lock" /\ arc[o] = cache}]
  /\ Goto(c, "lock")
  /\ UNCHANGED <<rows, cache, arcs, content, creator, mode, seen>>

\* The guard is handed to the client.
Acquire(c) ==
  /\ Goto(c, IF mode[c] = "get_task" THEN "read" ELSE "hold")
  /\ ahead' = [o \in Clients |-> ahead[o] \ {c}]
  /\ UNCHANGED <<rows, cache, arcs, content, creator, mode, seen, arc>>

\* Mutants: a handler that changes the task takes the shared guard; it waits
\* until nobody else has the Arc.
Shared(c) == ahead[c] = {}

Alone(c) ==
  /\ ahead[c] = {}
  /\ IF mode[c] = "get_task"
     THEN \A o \in Clients : Holds(o, arc[c]) => ~Writes(o)
     ELSE \A o \in Clients \ {c} : ~Holds(o, arc[c])

\* It is the client's turn: the RwLock is fair, and a reader waits for a writer
\* that has it, a writer for everyone who has.
Granted(c) ==
  /\ ahead[c] = {}
  /\ IF mode[c] = "get_task"
     THEN \A o \in Clients : Holds(o, arc[c]) => ~Writes(o)
     ELSE \A o \in Clients : Holds(o, arc[c]) => pc[o] = "lock"

\* read_owned and write_owned, in the order of the requests for the lock.
Lock(c) ==
  /\ pc[c] = "lock"
  /\ Granted(c)
  /\ Acquire(c)

\* The handler changes the task and awaits the statement that stores it.
Change(c) ==
  /\ pc[c] = "hold"
  /\ content[arc[c]] < MaxVersion
  /\ content' = [content EXCEPT ![arc[c]] = @ + 1]
  /\ Goto(c, "changed")
  /\ UNCHANGED <<rows, cache, arcs, creator, mode, seen, arc, ahead>>

\* The statement is done; the handler keeps the guard for the next one.
Store(c) ==
  /\ pc[c] = "changed"
  /\ rows' = content[arc[c]]
  /\ Goto(c, "hold")
  /\ UNCHANGED <<cache, arcs, content, creator, mode, seen, arc, ahead>>

\* Mutant: the guard is released while the statement is awaited.
ReleaseUnstored(c) ==
  /\ pc[c] \in {"read", "hold", "changed"}
  /\ Goto(c, "idle")
  /\ mode' = [mode EXCEPT ![c] = "get_task"]
  /\ arc' = [arc EXCEPT ![c] = 0]
  /\ UNCHANGED <<rows, cache, arcs, content, creator, seen, ahead>>

\* The request is answered, or refused, or dropped between two statements.
Release(c) ==
  /\ pc[c] \in {"read", "hold"}
  /\ Goto(c, "idle")
  /\ mode' = [mode EXCEPT ![c] = "get_task"]
  /\ arc' = [arc EXCEPT ![c] = 0]
  /\ UNCHANGED <<rows, cache, arcs, content, creator, seen, ahead>>

\* The process is restarted.  A request that had not created its task yet can
\* be made again.
Crash ==
  /\ cache' = 0 /\ arcs' = 0 /\ content' = [i \in Arcs |-> 0]
  /\ creator' = IF creator = "new" THEN "new" ELSE "none"
  /\ pc' = [c \in Clients |-> "idle"]
  /\ mode' = [c \in Clients |-> "get_task"]
  /\ seen' = [c \in Clients |-> 0]
  /\ arc' = [c \in Clients |-> 0]
  /\ ahead' = [c \in Clients |-> {}]
  /\ UNCHANGED rows

Step(c) ==
  \/ \E m \in {"get_task", "get_task_mut"} : Begin(c, m)
  \/ ReadModel(c) \/ ReadRest(c) \/ Insert(c) \/ Lookup(c)
  \/ Lock(c) \/ Change(c) \/ Store(c) \/ Release(c)

Next ==
  \/ CreateRows \/ CacheNew
  \/ \E c \in Clients : Step(c)
  \/ Crash

Spec == Init /\ [][Next]_vars

(***************************************************************************)
(* A statement, once sent, is answered, and a handler does not keep its    *)
(* guard for ever.                                                         *)
(***************************************************************************)
Fairness ==
  \A c \in Clients :
    /\ WF_vars(ReadModel(c)) /\ WF_vars(ReadRest(c)) /\ WF_vars(Insert(c))
    /\ WF_vars(Lookup(c)) /\ WF_vars(Lock(c))
    /\ WF_vars(Store(c)) /\ WF_vars(Release(c))

FairSpec == Spec /\ Fairness

-----------------------------------------------------------------------------
(***************************************************************************)
(* Properties                                                              *)
(***************************************************************************)
\* persist_task has put its Task in the place of one that a request had
\* hydrated; see PersistReturns.  Until the next restart of the process there
\* are then two Tasks.
Replaced == creator \in {"evicted", "panicked"}

\* All requests work on the one Task the cache holds: ensure_cached_tasks and
\* persist_task never give two of them Tasks of their own, however hydrations
\* and the creation overlap, unless persist_task replaces an entry.
SingleCopy ==
  ~Replaced => \A c \in Clients, i \in Arcs : Holds(c, i) => i = cache

\* While a handler has the write guard of the task, no other request reads or
\* writes the task, under whatever Arc it found it.
Exclusive ==
  ~Replaced =>
    \A c, d \in Clients : c # d /\ Writes(c) => ~Writes(d) /\ pc[d] # "read"

\* Whenever no handler is waiting for its change to be stored, the cached Task
\* says what the rows say, so hydration after a restart gives the same Task.
Coherent ==
  ~Replaced /\ cache # 0 /\ (\A c \in Clients : pc[c] # "changed") =>
    content[cache] = rows

\* A Task that hydrate_tasks put together from rows read before and after a
\* change of the task never gets into the cache.
NeverTorn == \A i \in 1 .. arcs : content[i] # Torn

\* Every change that is stored builds on the one stored before it: no
\* handler's change is overwritten by one that did not see it.
NoLostChange == [][~Replaced /\ rows' # rows => rows' = rows + 1]_vars

\* What the requests have of the task: a guard, and the version they see.
Guards ==
  [c \in Clients |-> IF Writes(c) THEN "write" ELSE IF pc[c] = "read" THEN "read" ELSE "none"]

Sees == [c \in Clients |-> IF Guards[c] = "none" THEN 0 ELSE content[arc[c]]]

Cell ==
  INSTANCE TaskCell WITH stored <- rows,
                         copy <- IF cache = 0 THEN rows ELSE content[cache],
                         guards <- Guards,
                         sees <- Sees,
                         sound <- ~Replaced

\* Hydrations, the cache, Arcs and the order of the requests cannot be seen from
\* outside: requests that get the task from the store work on one record with
\* one lock, as TaskCell says.
ActsAsCell == Cell!Spec

\* Every request that has called get_task or get_task_mut comes to its end.
EveryRequestReturns == \A c \in Clients : pc[c] # "idle" ~> pc[c] = "idle"

\* persist_task: "If a `Task` with the same `task_id` already exists in the
\* cache, it is returned."
PersistReturns == creator # "panicked"

=============================================================================
