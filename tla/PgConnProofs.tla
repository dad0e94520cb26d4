---------------------------- MODULE PgConnProofs ----------------------------
(***************************************************************************)
(* Proofs about the shared connection, for any number of threads, sources, *)
(* calls and drops, whether or not connecting may fail.                    *)
(***************************************************************************)
EXTENDS PgConn, TLAPS

(* What is on the connection is what its transaction wrote; a connection   *)
(* that is not open carries nothing.                                       *)
PendingIsLive ==
  /\ conn # "open" => pending = {}
  /\ \A t \in Threads :
       pc[t] = "exit" /\ op[t] = "add" /\ conn = "open" => <<t, source[t]>> \in pending

PgConnInv == TypeOK /\ OwnWork /\ PendingIsLive /\ AddedIsStored

LEMMA InitInv == Init => PgConnInv
  BY PgConnAssumptions
     DEF Init, PgConnInv, TypeOK, LockDiscipline, OwnWork, PendingIsLive, AddedIsStored,
         Inside, Rows

LEMMA StepInv ==
  ASSUME PgConnInv, NEW t \in Threads, Step(t)
  PROVE  PgConnInv'
  <1> USE PgConnAssumptions
      DEF PgConnInv, TypeOK, LockDiscipline, OwnWork, PendingIsLive, AddedIsStored,
          Inside, Goto
  <1>1. CASE Acquire(t)
    BY <1>1 DEF Acquire
  <1>2. CASE Connect(t)
    BY <1>2 DEF Connect
  <1>3. CASE ConnectFails(t)
    BY <1>3 DEF ConnectFails
  <1>4. CASE Read(t)
    BY <1>4 DEF Read
  <1>5. CASE FindDuplicate(t)
    BY <1>5 DEF FindDuplicate
  <1>6. CASE FindNothing(t)
    BY <1>6 DEF FindNothing
  <1>7. CASE Insert(t)
    BY <1>7 DEF Insert
  <1>8. CASE Commit(t)
    BY <1>8 DEF Commit, Rows
  <1>9. CASE Rollback(t)
    BY <1>9 DEF Rollback
  <1>10. CASE Broken(t)
    BY <1>10 DEF Broken
  <1> QED
    BY <1>1, <1>2, <1>3, <1>4, <1>5, <1>6, <1>7, <1>8, <1>9, <1>10 DEF Step

LEMMA CallInv ==
  ASSUME PgConnInv, NEW t \in Threads, NEW o \in {"add", "get"}, NEW s \in Sources, Call(t, o, s)
  PROVE  PgConnInv'
  BY PgConnAssumptions
     DEF Call, PgConnInv, TypeOK, LockDiscipline, OwnWork, PendingIsLive, AddedIsStored,
         Inside, Goto

LEMMA DropInv ==
  ASSUME PgConnInv, Drop
  PROVE  PgConnInv'
  BY PgConnAssumptions
     DEF Drop, PgConnInv, TypeOK, LockDiscipline, OwnWork, PendingIsLive, AddedIsStored,
         Inside, Rows

(* The inductive invariant holds throughout. *)
THEOREM PgConnInvariance == Spec => []PgConnInv
  <1>1. PgConnInv /\ [Next]_vars => PgConnInv'
    <2>1. PgConnInv /\ UNCHANGED vars => PgConnInv'
      BY DEF vars, PgConnInv, TypeOK, LockDiscipline, OwnWork, PendingIsLive, AddedIsStored
    <2> QED
      BY <2>1, StepInv, CallInv, DropInv DEF Next
  <1> QED
    BY InitInv, <1>1, PTL DEF Spec

(* No call commits or reads what another left on the connection. *)
THEOREM WorkIsOwn == Spec => []OwnWork
  BY PgConnInvariance, PTL DEF PgConnInv

(* An acknowledged upload is stored, whatever happens to the connection. *)
THEOREM AcknowledgedIsStored == Spec => []AddedIsStored
  BY PgConnInvariance, PTL DEF PgConnInv

-----------------------------------------------------------------------------
(* What CallsEndUnlessWedged rests on: who holds the lock can go on, and a *)
(* call has only so many steps to go.                                      *)

(* Some step of the thread can be taken. *)
CanStep(t) ==
  \/ pc[t] \in {"enter", "nested"} /\ lock = None
  \/ pc[t] = "connect"
  \/ pc[t] \in {"body", "insert", "exit"} /\ conn # "closed"

(* A call waits for nothing but the lock, and who holds the lock waits for *)
(* nothing, unless the connection is wedged: a lost connection, an error   *)
(* and a transaction that another store began leave no call waiting.       *)
NobodyStuck ==
  ~ Wedged =>
    \A t \in Threads : pc[t] # "idle" => CanStep(IF lock = None THEN t ELSE lock)

(* The connection is not closed under a transaction: the thread that finds *)
(* it broken closes it and leaves.                                         *)
ConnectedInside ==
  \A t \in Threads : pc[t] \in {"body", "insert", "exit", "nested"} => conn # "closed"

(* The steps a call has left at most: add runs a second transaction.       *)
Left(label) ==
  CASE label = "idle"    -> 0
    [] label = "exit"    -> 1
    [] label = "insert"  -> 2
    [] label = "nested"  -> 2
    [] label = "body"    -> 3
    [] label = "connect" -> 4
    [] label = "enter"   -> 5

StepsLeft(t) == Left(pc[t]) + (IF pc[t] # "idle" /\ op[t] = "add" THEN 5 ELSE 0)

(* Every step of a thread in a call brings the call nearer to its end, and *)
(* no other thread and no loss of the connection sets it back.             *)
NearerToItsEnd ==
  \A t \in Threads :
    pc[t] # "idle" => StepsLeft(t)' < StepsLeft(t) \/ UNCHANGED <<pc[t], op[t]>>

LEMMA ConnectedStep ==
  ASSUME PgConnInv, ConnectedInside, [Next]_vars
  PROVE  ConnectedInside'
  <1> USE DEF ConnectedInside, PgConnInv, TypeOK, LockDiscipline, Inside, Goto
  <1>1. ASSUME NEW t \in Threads, Step(t) PROVE ConnectedInside'
    <2>1. CASE Acquire(t)
      BY <2>1 DEF Acquire
    <2>2. CASE Connect(t)
      BY <2>2 DEF Connect
    <2>3. CASE ConnectFails(t) \/ Read(t) \/ FindDuplicate(t) \/ FindNothing(t) \/ Insert(t)
      BY <2>3 DEF ConnectFails, Read, FindDuplicate, FindNothing, Insert
    <2>4. CASE Commit(t) \/ Rollback(t)
      BY <2>4 DEF Commit, Rollback
    <2>5. CASE Broken(t)
      BY <2>5 DEF Broken
    <2> QED
      BY <1>1, <2>1, <2>2, <2>3, <2>4, <2>5 DEF Step
  <1>2. CASE \E t \in Threads, o \in {"add", "get"}, s \in Sources : Call(t, o, s)
    BY <1>2 DEF Call
  <1>3. CASE Drop
    BY <1>3 DEF Drop
  <1>4. CASE UNCHANGED vars
    BY <1>4 DEF vars
  <1> QED
    BY <1>1, <1>2, <1>3, <1>4 DEF Next

(* Whatever drops, fails and overlaps, somebody can go on.                 *)
THEOREM HolderCanStep == Spec => []NobodyStuck
  <1>1. Init => ConnectedInside
    BY DEF Init, ConnectedInside
  <1>2. PgConnInv /\ ConnectedInside /\ [Next]_vars => ConnectedInside'
    BY ConnectedStep
  <1>3. PgConnInv /\ ConnectedInside => NobodyStuck
    <2> SUFFICES ASSUME PgConnInv, ConnectedInside, ~ Wedged,
                        NEW t \in Threads, pc[t] # "idle"
                 PROVE  CanStep(IF lock = None THEN t ELSE lock)
      BY DEF NobodyStuck
    <2>1. \A u \in Threads : pc[u] \in Inside => lock = u
      BY DEF PgConnInv, TypeOK, LockDiscipline
    <2>2. CASE lock = None
      <3>1. pc[t] = "enter"
        BY <2>1, <2>2, PgConnAssumptions DEF PgConnInv, TypeOK
      <3> QED
        BY <2>2, <3>1 DEF CanStep
    <2>3. CASE lock # None
      <3>1. lock \in Threads /\ pc[lock] \in Inside /\ pc[lock] # "nested"
        BY <2>3 DEF PgConnInv, TypeOK, Wedged
      <3> QED
        BY <2>3, <3>1 DEF CanStep, ConnectedInside, Inside
    <2> QED
      BY <2>2, <2>3
  <1> QED
    BY <1>1, <1>2, <1>3, PgConnInvariance, PTL DEF Spec

LEMMA OwnStepNearer ==
  ASSUME PgConnInv, NEW t \in Threads, Step(t), pc[t] # "idle"
  PROVE  /\ StepsLeft(t)' < StepsLeft(t)
         /\ \A u \in Threads \ {t} : UNCHANGED <<pc[u], op[u]>>
  <1>1. pc \in [Threads -> {"idle", "enter"} \cup Inside] /\ op \in [Threads -> {"add", "get"}]
    BY DEF PgConnInv, TypeOK
  <1>2. pc[t] = "nested" => lock # None
    BY PgConnAssumptions DEF PgConnInv, TypeOK, LockDiscipline, Inside
  <1>3. /\ pc' = [pc EXCEPT ![t] = pc'[t]]
        /\ op' = [op EXCEPT ![t] = op'[t]]
        /\ op[t] = "get" => op'[t] = "get"
        /\ op[t] = "add" => op'[t] = "add" \/ (pc[t] = "exit" /\ pc'[t] \in {"enter", "idle"})
    BY <1>1 DEF Step, Acquire, Connect, ConnectFails, Read, FindDuplicate, FindNothing, Insert,
                Commit, Rollback, Broken, Goto
  <1>4. \/ pc[t] = "enter" /\ pc'[t] = "connect"
        \/ pc[t] = "connect" /\ pc'[t] \in {"body", "idle"}
        \/ pc[t] = "body" /\ pc'[t] \in {"exit", "nested", "insert", "idle"}
        \/ pc[t] = "insert" /\ pc'[t] \in {"exit", "idle"}
        \/ pc[t] = "exit" /\ pc'[t] = "idle"
        \/ pc[t] = "exit" /\ pc'[t] = "enter" /\ op[t] = "add" /\ op'[t] = "get"
    BY <1>1, <1>2 DEF Step, Acquire, Connect, ConnectFails, Read, FindDuplicate, FindNothing,
                      Insert, Commit, Rollback, Broken, Goto
  <1>5. StepsLeft(t)' < StepsLeft(t)
    BY <1>1, <1>3, <1>4 DEF StepsLeft, Left, Inside
  <1> QED
    BY <1>1, <1>3, <1>5

(* No call runs for ever: each has at most ten steps, and nothing that     *)
(* other calls or the server do adds to them.                              *)
THEOREM CallsHaveAnEnd == Spec => [][NearerToItsEnd]_vars
  <1>1. ASSUME PgConnInv, [Next]_vars PROVE [NearerToItsEnd]_vars
    <2>1. CASE \E t \in Threads : Step(t)
      <3>1. PICK t \in Threads : Step(t)
        BY <2>1
      <3>2. pc[t] # "idle"
        BY <3>1 DEF Step, Acquire, Connect, ConnectFails, Read, FindDuplicate, FindNothing,
                    Insert, Commit, Rollback, Broken
      <3> QED
        BY <1>1, <3>1, <3>2, OwnStepNearer DEF NearerToItsEnd
    <2>2. CASE \E t \in Threads, o \in {"add", "get"}, s \in Sources : Call(t, o, s)
      BY <1>1, <2>2 DEF Call, Goto, NearerToItsEnd, PgConnInv, TypeOK
    <2>3. CASE Drop \/ UNCHANGED vars
      BY <2>3 DEF Drop, vars, NearerToItsEnd
    <2> QED
      BY <1>1, <2>1, <2>2, <2>3 DEF Next
  <1> QED
    BY <1>1, PgConnInvariance, PTL DEF Spec
=============================================================================
