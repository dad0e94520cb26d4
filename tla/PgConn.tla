------------------------------- MODULE PgConn -------------------------------
(***************************************************************************)
(* SharedPgConn and _Pg._tx (backend/stores_pg.py): all Postgres stores of *)
(* a container run their transactions on one connection, one at a time     *)
(* under one lock.  PgSourceStore stands for the stores: its add reads,    *)
(* writes, and reads back in a transaction of its own.                     *)
(***************************************************************************)
EXTENDS Naturals

CONSTANTS
  Threads,      \* request threads
  Sources,      \* content-addressed ids of source documents
  MaxCalls,     \* bound: store calls per thread
  MaxDrops,     \* bound: times the server drops the connection
  Duplicates,   \* whether a document may be uploaded again
  Unreachable,  \* whether connecting may fail
  None

ASSUME PgConnAssumptions ==
  /\ None \notin Threads
  /\ MaxCalls \in Nat /\ MaxDrops \in Nat
  /\ Duplicates \in BOOLEAN /\ Unreachable \in BOOLEAN

VARIABLES
  lock,     \* the thread that holds SharedPgConn.lock, or None
  conn,     \* the connection: "closed", "open", or "broken" and not noticed
  stored,   \* committed rows of source_snapshots
  pending,  \* rows written on the connection and not committed
  pc,       \* where each thread is in its call
  op,       \* the operation of the transaction it runs: "add" or "get"
  source,   \* the source it names
  added,    \* <<thread, source>>: add returned normally
  offered,  \* sources that some upload named
  calls,    \* calls begun by each thread
  drops     \* times the connection was dropped

vars == <<lock, conn, stored, pending, pc, op, source, added, offered, calls, drops>>

Inside == {"connect", "body", "insert", "exit", "nested"}

Init ==
  /\ lock = None /\ conn = "closed"
  /\ stored = {} /\ pending = {} /\ added = {} /\ offered = {}
  /\ pc = [t \in Threads |-> "idle"]
  /\ op = [t \in Threads |-> "get"]
  /\ source \in [Threads -> Sources]
  /\ calls = [t \in Threads |-> 0]
  /\ drops = 0

Goto(t, label) == pc' = [pc EXCEPT ![t] = label]

Call(t, o, s) ==
  /\ pc[t] = "idle" /\ calls[t] < MaxCalls
  /\ o = "add" => Duplicates \/ s \notin offered
  /\ offered' = IF o = "add" THEN offered \cup {s} ELSE offered
  /\ Goto(t, "enter")
  /\ op' = [op EXCEPT ![t] = o]
  /\ source' = [source EXCEPT ![t] = s]
  /\ calls' = [calls EXCEPT ![t] = @ + 1]
  /\ UNCHANGED <<lock, conn, stored, pending, added, drops>>

(* _Tx.__enter__: the lock is not reentrant. *)
Acquire(t) ==
  /\ pc[t] \in {"enter", "nested"}
  /\ lock = None
  /\ lock' = t
  /\ Goto(t, "connect")
  /\ UNCHANGED <<conn, stored, pending, op, source, added, offered, calls, drops>>

Connect(t) ==
  /\ pc[t] = "connect"
  /\ conn' = IF conn = "closed" THEN "open" ELSE conn
  /\ Goto(t, "body")
  /\ UNCHANGED <<lock, stored, pending, op, source, added, offered, calls, drops>>

(* __enter__ raises with the lock acquired: __exit__ does not run. *)
ConnectFails(t) ==
  /\ pc[t] = "connect" /\ conn = "closed" /\ Unreachable
  /\ Goto(t, "idle")
  /\ UNCHANGED <<lock, conn, stored, pending, op, source, added, offered, calls, drops>>

Read(t) ==
  /\ pc[t] = "body" /\ conn = "open" /\ op[t] = "get"
  /\ Goto(t, "exit")
  /\ UNCHANGED <<lock, conn, stored, pending, op, source, added, offered, calls, drops>>

(* add finds the row and calls self.get, which begins a transaction. *)
FindDuplicate(t) ==
  /\ pc[t] = "body" /\ conn = "open" /\ op[t] = "add"
  /\ source[t] \in stored
  /\ Goto(t, "nested")
  /\ UNCHANGED <<lock, conn, stored, pending, op, source, added, offered, calls, drops>>

FindNothing(t) ==
  /\ pc[t] = "body" /\ conn = "open" /\ op[t] = "add"
  /\ source[t] \notin stored
  /\ Goto(t, "insert")
  /\ UNCHANGED <<lock, conn, stored, pending, op, source, added, offered, calls, drops>>

Insert(t) ==
  /\ pc[t] = "insert" /\ conn = "open"
  /\ pending' = pending \cup {<<t, source[t]>>}
  /\ Goto(t, "exit")
  /\ UNCHANGED <<lock, conn, stored, op, source, added, offered, calls, drops>>

Rows(ws) == {w[2] : w \in ws}

(* __exit__ commits and releases; add then reads the row back. *)
Commit(t) ==
  /\ pc[t] = "exit" /\ conn = "open"
  /\ stored' = stored \cup Rows(pending)
  /\ pending' = {}
  /\ lock' = None
  /\ added' = IF op[t] = "add" THEN added \cup {<<t, source[t]>>} ELSE added
  /\ op' = [op EXCEPT ![t] = "get"]
  /\ Goto(t, IF op[t] = "add" THEN "enter" ELSE "idle")
  /\ UNCHANGED <<conn, source, offered, calls, drops>>

(* Mutant of Rollback: the work stays on the connection. *)
RollbackNothing(t) ==
  /\ pc[t] \in {"body", "insert", "exit"} /\ conn = "open"
  /\ lock' = None
  /\ Goto(t, "idle")
  /\ UNCHANGED <<conn, stored, pending, op, source, added, offered, calls, drops>>

(* Mutant of Rollback: the transaction is run again, however often. *)
RollbackRetries(t) ==
  /\ pc[t] \in {"body", "insert", "exit"} /\ conn = "open"
  /\ pending' = {}
  /\ Goto(t, "body")
  /\ UNCHANGED <<lock, conn, stored, op, source, added, offered, calls, drops>>

(* A statement raises on a sound connection: __exit__ rolls back. *)
Rollback(t) ==
  /\ pc[t] \in {"body", "insert", "exit"} /\ conn = "open"
  /\ pending' = {}
  /\ lock' = None
  /\ Goto(t, "idle")
  /\ UNCHANGED <<conn, stored, op, source, added, offered, calls, drops>>

(* Mutant of Broken: a failed commit passes for a commit. *)
BrokenUnnoticed(t) ==
  /\ pc[t] \in {"body", "insert", "exit"} /\ conn = "broken"
  /\ conn' = "closed"
  /\ lock' = None
  /\ added' = IF op[t] = "add" THEN added \cup {<<t, source[t]>>} ELSE added
  /\ Goto(t, "idle")
  /\ UNCHANGED <<stored, pending, op, source, offered, calls, drops>>

(* The thread notices that the connection is gone: the statement or commit *)
(* raises, so does the rollback, and the lock is released all the same.    *)
Broken(t) ==
  /\ pc[t] \in {"body", "insert", "exit"} /\ conn = "broken"
  /\ conn' = "closed"
  /\ lock' = None
  /\ Goto(t, "idle")
  /\ UNCHANGED <<stored, pending, op, source, added, offered, calls, drops>>

(* The server drops the connection and what was not committed, or it drops *)
(* it having committed and the acknowledgement is lost.                    *)
Drop ==
  /\ conn = "open" /\ drops < MaxDrops
  /\ conn' = "broken"
  /\ drops' = drops + 1
  /\ pending' = {}
  /\ \/ UNCHANGED stored
     \/ /\ \E t \in Threads : pc[t] = "exit" /\ lock = t
        /\ stored' = stored \cup Rows(pending)
  /\ UNCHANGED <<lock, pc, op, source, added, offered, calls>>

Step(t) ==
  \/ Acquire(t) \/ Connect(t) \/ ConnectFails(t)
  \/ Read(t) \/ FindDuplicate(t) \/ FindNothing(t) \/ Insert(t)
  \/ Commit(t) \/ Rollback(t) \/ Broken(t)

Next ==
  \/ \E t \in Threads : Step(t)
  \/ \E t \in Threads, o \in {"add", "get"}, s \in Sources : Call(t, o, s)
  \/ Drop

Spec == Init /\ [][Next]_vars

(* A thread that can run runs. *)
FairSpec == Spec /\ \A t \in Threads : WF_vars(Step(t))

-----------------------------------------------------------------------------
(* Properties. *)

(* A thread is in a transaction exactly while it holds the lock, or it has *)
(* left one without connecting.                                            *)
LockDiscipline ==
  \A t \in Threads :
    /\ pc[t] \in Inside => lock = t
    /\ lock = t /\ pc[t] \notin Inside => Unreachable /\ conn = "closed"

(* The state has its type, and the lock is held where it should be. *)
TypeOK ==
  /\ lock \in Threads \cup {None}
  /\ conn \in {"closed", "open", "broken"}
  /\ stored \subseteq Sources
  /\ pending \subseteq Threads \X Sources
  /\ pc \in [Threads -> {"idle", "enter"} \cup Inside]
  /\ op \in [Threads -> {"add", "get"}]
  /\ source \in [Threads -> Sources]
  /\ added \subseteq Threads \X Sources
  /\ offered \subseteq Sources
  /\ calls \in [Threads -> 0 .. MaxCalls]
  /\ drops \in 0 .. MaxDrops
  /\ LockDiscipline

(* Sharing one connection changes no store's semantics: what is on it and  *)
(* not committed was written by the transaction that now holds the lock,   *)
(* so that no call commits, or reads, what another left behind.            *)
OwnWork ==
  \A w \in pending : lock = w[1] /\ pc[w[1]] = "exit" /\ source[w[1]] = w[2]

(* A document whose upload was acknowledged is stored, whatever happens to *)
(* the connection.                                                         *)
AddedIsStored == Rows(added) \subseteq stored

(* A thread waits for a lock it holds itself, or one has left the lock     *)
(* behind: the two ways in which the code wedges the connection.           *)
Wedged ==
  \/ \E t \in Threads : pc[t] = "nested"
  \/ lock # None /\ pc[lock] \notin Inside

(* They are the only ways: whatever the server and the statements do,      *)
(* every call to a store ends unless the connection is wedged.             *)
CallsEndUnlessWedged ==
  \A t \in Threads : pc[t] # "idle" ~> pc[t] = "idle" \/ Wedged
=============================================================================
