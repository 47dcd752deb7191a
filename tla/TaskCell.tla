------------------------------ MODULE TaskCell ------------------------------
(***************************************************************************)
(* What the trait TaskStore promises the requests that work on one task:   *)
(* the task is one record behind one lock, which readers share and a       *)
(* writer has alone; whoever has the lock sees the last change; changes    *)
(* are stored one by one, and a restart of the process loses at most the   *)
(* one that was not stored yet.                                            *)
(*                                                                         *)
(* The promise is off from the moment persist_task finds the task it       *)
(* creates in the cache, until the process is restarted.                   *)
(***************************************************************************)
EXTENDS Naturals

CONSTANT Clients

VARIABLES
  stored,  \* the version in the database; 0 before the task is created
  copy,    \* the version in the record
  guards,  \* client -> the guard it has of the record: "none", "read" or "write"
  sees,    \* client -> the version it sees through its guard
  sound    \* the promise holds

vars == <<stored, copy, guards, sees, sound>>

Nobody == [c \in Clients |-> "none"]

\* Every guard is one of the same record.
OneRecord == sees' = [c \in Clients |-> IF guards'[c] = "none" THEN 0 ELSE copy']

Init ==
  /\ stored \in {0, 1} /\ copy = stored
  /\ guards = Nobody /\ sees = [c \in Clients |-> 0]
  /\ sound = TRUE

Create ==
  /\ stored = 0
  /\ stored' = 1 /\ copy' = 1
  /\ UNCHANGED guards

Enter(c, guard) ==
  /\ stored > 0
  /\ guards[c] = "none"
  /\ \A o \in Clients : guards[o] = "none" \/ (guards[o] = "read" /\ guard = "read")
  /\ guards' = [guards EXCEPT ![c] = guard]
  /\ UNCHANGED <<stored, copy>>

Change(c) ==
  /\ guards[c] = "write"
  /\ copy = stored
  /\ copy' = copy + 1
  /\ UNCHANGED <<stored, guards>>

Store(c) ==
  /\ guards[c] = "write"
  /\ copy = stored + 1
  /\ stored' = copy
  /\ UNCHANGED <<copy, guards>>

Leave(c) ==
  /\ guards[c] # "none"
  /\ copy = stored
  /\ guards' = [guards EXCEPT ![c] = "none"]
  /\ UNCHANGED <<stored, copy>>

Access ==
  /\ sound /\ sound'
  /\ \/ Create
     \/ \E c \in Clients :
          \/ \E guard \in {"read", "write"} : Enter(c, guard)
          \/ Change(c) \/ Store(c) \/ Leave(c)
  /\ OneRecord

Restart ==
  /\ guards' = Nobody
  /\ copy' = stored
  /\ sound' = TRUE
  /\ OneRecord
  /\ UNCHANGED stored

\* The record is replaced, and then there are two.
Replace ==
  /\ sound /\ stored > 0
  /\ sound' = FALSE
  /\ UNCHANGED <<stored, guards>>

Unsound == ~sound /\ ~sound'

Next == Access \/ Restart \/ Replace \/ Unsound

Spec == Init /\ [][Next]_vars

=============================================================================
