-------------------------- MODULE EscalationProofs --------------------------
(***************************************************************************)
(* Proofs about Escalation for any number of handlers, decisions, actions, *)
(* case identifiers (shared or not) and stops.                             *)
(***************************************************************************)
EXTENDS Escalation, TLAPS

LEMMA InitHolds == Init => EscalationInv
  BY EscalationAssumptions
     DEF Init, EscalationInv, TypeOK, WriteAhead, PromotedWithProvenance,
         RulingRecorded, Resolved, Open

(* The rulings of the other handlers are untouched while the stores only   *)
(* grow: what a handler has recorded for its own decision stays recorded.  *)
StoresGrow ==
  /\ \A k \in Keys : /\ decision[k] # None => decision'[k] # None
                     /\ adjudication[k] # None => adjudication'[k] # None
                     /\ escalation[k] # None => escalation'[k] # None
  /\ \A c \in CaseIds : golden[c] # None => golden'[c] = golden[c]

HandlerRecorded(t) ==
  /\ pc[t] \in {"open", "lookup"} => decision[call[t].key] # None
  /\ pc[t] \in {"adjudicate", "promote", "update"} =>
       escalation[call[t].key] # None
  /\ pc[t] \in {"promote", "update"} => adjudication[call[t].key] # None
  /\ pc[t] = "update" /\ call[t].promote =>
       /\ golden[CaseId(call[t].key)] # None
       /\ golden[CaseId(call[t].key)].key = call[t].key

LEMMA RecordedByAll ==
  ASSUME EscalationInv, StoresGrow, NEW t \in Threads, HandlerRecorded(t)',
         \A u \in Threads \ {t} : pc'[u] = pc[u] /\ call'[u] = call[u]
  PROVE  RulingRecorded'
  <1>1. ASSUME NEW u \in Threads \ {t} PROVE HandlerRecorded(u)'
    <2>1. HandlerRecorded(u) /\ (pc[u] # "idle" => call[u].key \in Keys)
      BY DEF EscalationInv, TypeOK, RulingRecorded, HandlerRecorded
    <2>2. pc'[u] = pc[u] /\ call'[u] = call[u]
      OBVIOUS
    <2> QED
      BY <2>1, <2>2, EscalationAssumptions DEF HandlerRecorded, StoresGrow
  <1> QED
    BY <1>1 DEF RulingRecorded, HandlerRecorded

-----------------------------------------------------------------------------
(* Each action preserves the invariant. *)

(* Stop, Lookup and PromoteDuplicate only end a call; Resolve and          *)
(* DecideAgain only begin one.                                             *)
LEMMA HandlerSteps ==
  ASSUME EscalationInv, NEW t \in Threads,
         \/ Stop(t) \/ Lookup(t) \/ PromoteDuplicate(t)
         \/ \E k \in Keys : DecideAgain(t, k)
         \/ \E k \in Keys, a \in Actions, p \in Promotions : Resolve(t, k, a, p)
  PROVE  EscalationInv'
  <1>1. UNCHANGED <<decision, adjudication, escalation, golden>>
    BY DEF Stop, Lookup, PromoteDuplicate, DecideAgain, Resolve, Answer, ledger
  <1>2. \A u \in Threads \ {t} : pc'[u] = pc[u] /\ call'[u] = call[u]
    BY DEF EscalationInv, TypeOK, Stop, Lookup, PromoteDuplicate, DecideAgain, Resolve,
           Answer, Finish, Receive, Goto
  <1>3. StoresGrow
    BY <1>1 DEF StoresGrow
  <1>4. WriteAhead' /\ PromotedWithProvenance'
    BY <1>1 DEF EscalationInv, WriteAhead, PromotedWithProvenance, Resolved
  <1>5. CASE Stop(t) \/ Lookup(t) \/ PromoteDuplicate(t)
    <2>1. pc[t] # "idle" /\ pc' = [pc EXCEPT ![t] = "idle"]
          /\ call' = [call EXCEPT ![t] = None]
      BY <1>5 DEF Stop, Lookup, PromoteDuplicate, Answer, Finish, Goto
    <2>2. answered' \subseteq Keys /\ stops' \in 0 .. MaxStops
      BY <1>5, EscalationAssumptions
         DEF EscalationInv, TypeOK, Stop, Lookup, PromoteDuplicate, Answer, Finish, Goto
    <2>3. TypeOK'
      BY <1>1, <2>1, <2>2 DEF EscalationInv, TypeOK
    <2>4. HandlerRecorded(t)'
      BY <2>1 DEF EscalationInv, TypeOK, HandlerRecorded
    <2> QED
      BY <1>2, <1>3, <1>4, <2>3, <2>4, RecordedByAll DEF EscalationInv
  <1>6. CASE \E k \in Keys : DecideAgain(t, k)
    <2>1. PICK k \in Keys : DecideAgain(t, k)
      BY <1>6
    <2>2. TypeOK'
      BY <1>1, <2>1 DEF EscalationInv, TypeOK, DecideAgain, Evaluation, Receive, Goto
    <2>3. HandlerRecorded(t)'
      BY <1>1, <2>1
         DEF EscalationInv, TypeOK, HandlerRecorded, DecideAgain, Evaluation, Receive, Goto
    <2> QED
      BY <1>2, <1>3, <1>4, <2>2, <2>3, RecordedByAll DEF EscalationInv
  <1>7. CASE \E k \in Keys, a \in Actions, p \in Promotions : Resolve(t, k, a, p)
    <2>1. PICK k \in Keys, a \in Actions, p \in Promotions : Resolve(t, k, a, p)
      BY <1>7
    <2>2. TypeOK'
      BY <1>1, <2>1, EscalationAssumptions DEF EscalationInv, TypeOK, Resolve, Receive, Goto
    <2>3. HandlerRecorded(t)'
      BY <1>1, <2>1
         DEF EscalationInv, TypeOK, HandlerRecorded, Resolve, IsOpen, Receive, Goto
    <2> QED
      BY <1>2, <1>3, <1>4, <2>2, <2>3, RecordedByAll DEF EscalationInv
  <1> QED
    BY <1>5, <1>6, <1>7

LEMMA DecideNewStep ==
  ASSUME EscalationInv, NEW t \in Threads, NEW k \in Keys, NEW o \in Outcomes,
         DecideNew(t, k, o)
  PROVE  EscalationInv'
  <1>1. /\ decision[k] = None /\ decision' = [decision EXCEPT ![k] = o]
        /\ o # None
    BY EscalationAssumptions DEF DecideNew, Outcomes
  <1>2. TypeOK'
    BY <1>1 DEF EscalationInv, TypeOK, DecideNew, Evaluation, Receive, Goto
  <1>3. StoresGrow
    BY <1>1 DEF EscalationInv, TypeOK, StoresGrow, DecideNew
  <1>7. WriteAhead'
    <2>1. ASSUME NEW j \in Keys, escalation[j] # None
          PROVE  decision'[j] = decision[j]
      BY <1>1, <2>1, EscalationAssumptions DEF EscalationInv, TypeOK, WriteAhead, Outcomes
    <2> QED
      BY <2>1 DEF EscalationInv, WriteAhead, Resolved, DecideNew
  <1>4. WriteAhead' /\ PromotedWithProvenance'
    BY <1>7 DEF EscalationInv, PromotedWithProvenance, Resolved, DecideNew
  <1>5. HandlerRecorded(t)'
    BY <1>1 DEF EscalationInv, TypeOK, HandlerRecorded, DecideNew, Evaluation, Receive, Goto
  <1>6. \A u \in Threads \ {t} : pc'[u] = pc[u] /\ call'[u] = call[u]
    BY DEF EscalationInv, TypeOK, DecideNew, Receive, Goto
  <1> QED
    BY <1>2, <1>3, <1>4, <1>5, <1>6, RecordedByAll DEF EscalationInv

LEMMA OpenForStep ==
  ASSUME EscalationInv, NEW t \in Threads, OpenFor(t)
  PROVE  EscalationInv'
  <1>1. PICK k \in Keys : k = call[t].key
    BY DEF EscalationInv, TypeOK, OpenFor, Answer, Finish, Goto
  <1>2. /\ pc[t] = "open" /\ decision[k] # None
        /\ pc' = [pc EXCEPT ![t] = "idle"] /\ call' = [call EXCEPT ![t] = None]
        /\ answered' = answered \cup {k}
        /\ UNCHANGED <<decision, adjudication, golden, stops>>
    BY <1>1 DEF EscalationInv, RulingRecorded, OpenFor, Answer, Finish, Goto, ledger
  <1>3. /\ escalation' = escalation
        \/ /\ escalation' = [escalation EXCEPT ![k] = Open]
           /\ decision[k] \in {"approval", "escalate"} /\ escalation[k] = None
    BY <1>1, <1>2 DEF EscalationInv, TypeOK, OpenFor, Outcomes
  <1>4. TypeOK'
    BY <1>2, <1>3 DEF EscalationInv, TypeOK
  <1>5. StoresGrow
    BY <1>2, <1>3 DEF EscalationInv, TypeOK, StoresGrow
  <1>6. ASSUME NEW j \in Keys
        PROVE  /\ Resolved(j)' => Resolved(j) /\ escalation'[j] = escalation[j]
               /\ escalation'[j] # None => decision[j] \in {"approval", "escalate"}
    BY <1>3 DEF EscalationInv, TypeOK, WriteAhead, Resolved, Open
  <1>7. WriteAhead' /\ PromotedWithProvenance'
    BY <1>2, <1>6 DEF EscalationInv, WriteAhead, PromotedWithProvenance
  <1>8. HandlerRecorded(t)'
    BY <1>2 DEF EscalationInv, TypeOK, HandlerRecorded
  <1>9. \A u \in Threads \ {t} : pc'[u] = pc[u] /\ call'[u] = call[u]
    BY <1>2 DEF EscalationInv, TypeOK
  <1> QED
    BY <1>4, <1>5, <1>7, <1>8, <1>9, RecordedByAll DEF EscalationInv

(* Write-ahead: the ruling is in the ledger before the handler goes on. *)
LEMMA AdjudicateStep ==
  ASSUME EscalationInv, NEW t \in Threads, Adjudicate(t)
  PROVE  EscalationInv'
  <1>1. PICK k \in Keys, a \in Actions : k = call[t].key /\ a = call[t].action
    BY DEF EscalationInv, TypeOK, Adjudicate, Goto
  <1>2. /\ pc[t] = "adjudicate" /\ escalation[k] # None
        /\ UNCHANGED <<decision, escalation, golden, call, answered, stops>>
        /\ \/ pc' = [pc EXCEPT ![t] = "promote"] /\ call[t].promote
           \/ pc' = [pc EXCEPT ![t] = "update"] /\ ~ call[t].promote
    BY <1>1 DEF EscalationInv, RulingRecorded, Adjudicate, AfterAdjudication, Goto
  <1>3. /\ adjudication' \in [Keys -> Actions \cup {None}]
        /\ \A j \in Keys : adjudication[j] # None => adjudication'[j] # None
        /\ adjudication'[k] # None
    BY <1>1, EscalationAssumptions DEF EscalationInv, TypeOK, Adjudicate
  <1>4. TypeOK'
    BY <1>2, <1>3 DEF EscalationInv, TypeOK
  <1>5. StoresGrow
    BY <1>2, <1>3 DEF StoresGrow
  <1>6. WriteAhead'
    BY <1>2, <1>3 DEF EscalationInv, WriteAhead, Resolved
  <1>7. PromotedWithProvenance'
    <2>1. ASSUME NEW c \in CaseIds, golden[c] # None
          PROVE  adjudication'[golden[c].key] # None
      <3>1. golden[c].key \in Keys /\ adjudication[golden[c].key] # None
        BY <2>1 DEF EscalationInv, TypeOK, PromotedWithProvenance, Cases
      <3> QED
        BY <1>3, <3>1
    <2> QED
      BY <1>2, <2>1 DEF EscalationInv, PromotedWithProvenance, Resolved
  <1>8. HandlerRecorded(t)'
    BY <1>1, <1>2, <1>3 DEF EscalationInv, TypeOK, HandlerRecorded
  <1>9. \A u \in Threads \ {t} : pc'[u] = pc[u] /\ call'[u] = call[u]
    BY <1>2 DEF EscalationInv, TypeOK
  <1> QED
    BY <1>4, <1>5, <1>6, <1>7, <1>8, <1>9, RecordedByAll DEF EscalationInv

LEMMA PromoteStep ==
  ASSUME EscalationInv, NEW t \in Threads, Promote(t)
  PROVE  EscalationInv'
  <1>1. PICK k \in Keys, a \in Actions : k = call[t].key /\ a = call[t].action
    BY DEF EscalationInv, TypeOK, Promote, Goto
  <1>2. /\ pc[t] = "promote" /\ escalation[k] # None /\ adjudication[k] # None
        /\ UNCHANGED <<decision, adjudication, escalation, call, answered, stops>>
        /\ pc' = [pc EXCEPT ![t] = "update"]
    BY <1>1 DEF EscalationInv, RulingRecorded, Promote, Goto, ledger
  <1>3. PICK c \in CaseIds : c = CaseId(k)
    BY EscalationAssumptions
  <1>4. PICK case \in Cases : case = [key |-> k, action |-> a]
    BY DEF Cases
  <1>5. case.key = k /\ golden[c] = None /\ golden' = [golden EXCEPT ![c] = case]
    BY <1>1, <1>3, <1>4 DEF Promote
  <1>6. golden' \in [CaseIds -> {None} \cup Cases]
    BY <1>5 DEF EscalationInv, TypeOK
  <1>7. TypeOK'
    BY <1>2, <1>6 DEF EscalationInv, TypeOK
  <1>8. StoresGrow
    BY <1>2, <1>5 DEF EscalationInv, TypeOK, StoresGrow
  <1>9. WriteAhead'
    BY <1>2 DEF EscalationInv, WriteAhead, Resolved
  <1>10. PromotedWithProvenance'
    <2>1. ASSUME NEW d \in CaseIds, golden'[d] # None
          PROVE  adjudication'[golden'[d].key] # None
      BY <1>2, <1>5, <2>1 DEF EscalationInv, TypeOK, PromotedWithProvenance
    <2>2. ASSUME NEW j \in Keys, Resolved(j)', escalation'[j].resolution.promoted
          PROVE  golden'[CaseId(j)] # None /\ golden'[CaseId(j)].key = j
      BY <1>2, <1>8, <2>2, EscalationAssumptions
         DEF EscalationInv, PromotedWithProvenance, Resolved, StoresGrow
    <2> QED
      BY <2>1, <2>2 DEF PromotedWithProvenance
  <1>11. golden'[c] # None /\ golden'[c].key = k
    BY <1>4, <1>5, EscalationAssumptions DEF EscalationInv, TypeOK
  <1>12. HandlerRecorded(t)'
    BY <1>1, <1>2, <1>3, <1>11 DEF EscalationInv, TypeOK, HandlerRecorded
  <1>13. \A u \in Threads \ {t} : pc'[u] = pc[u] /\ call'[u] = call[u]
    BY <1>2 DEF EscalationInv, TypeOK
  <1> QED
    BY <1>7, <1>8, <1>9, <1>10, <1>12, <1>13, RecordedByAll DEF EscalationInv

LEMMA UpdateStep ==
  ASSUME EscalationInv, NEW t \in Threads, Update(t)
  PROVE  EscalationInv'
  <1>1. PICK k \in Keys, a \in Actions, p \in BOOLEAN :
          k = call[t].key /\ a = call[t].action /\ p = call[t].promote
    BY DEF EscalationInv, TypeOK, Update, Finish, Goto
  <1>2. PICK esc : esc = [status |-> "resolved", resolution |-> [action |-> a, promoted |-> p]]
    OBVIOUS
  <1>3. /\ escalation' = [escalation EXCEPT ![k] = esc]
        /\ pc' = [pc EXCEPT ![t] = "idle"] /\ call' = [call EXCEPT ![t] = None]
        /\ UNCHANGED <<decision, adjudication, golden, answered, stops>>
    BY <1>1, <1>2 DEF Update, Finish, Goto, ledger
  <1>4. esc \in Closed /\ esc # None /\ esc.resolution.promoted = p
    BY <1>2, EscalationAssumptions DEF Closed
  <1>5. /\ escalation[k] # None /\ adjudication[k] # None
        /\ p => golden[CaseId(k)] # None /\ golden[CaseId(k)].key = k
    BY <1>1 DEF EscalationInv, RulingRecorded, Update, Finish, Goto
  <1>6. TypeOK'
    BY <1>3, <1>4 DEF EscalationInv, TypeOK
  <1>7. StoresGrow
    BY <1>3, <1>4 DEF EscalationInv, TypeOK, StoresGrow
  <1>8. escalation'[k] = esc /\ \A j \in Keys \ {k} : escalation'[j] = escalation[j]
    BY <1>3 DEF EscalationInv, TypeOK
  <1>9. WriteAhead'
    BY <1>3, <1>5, <1>8 DEF EscalationInv, WriteAhead, Resolved
  <1>10. PromotedWithProvenance'
    BY <1>3, <1>4, <1>5, <1>8 DEF EscalationInv, PromotedWithProvenance, Resolved
  <1>11. HandlerRecorded(t)'
    BY <1>3 DEF EscalationInv, TypeOK, HandlerRecorded
  <1>12. \A u \in Threads \ {t} : pc'[u] = pc[u] /\ call'[u] = call[u]
    BY <1>3 DEF EscalationInv, TypeOK
  <1> QED
    BY <1>6, <1>7, <1>9, <1>10, <1>11, <1>12, RecordedByAll DEF EscalationInv

LEMMA NextStep ==
  ASSUME EscalationInv, [Next]_vars
  PROVE  EscalationInv'
  <1>1. CASE Next
    BY <1>1, HandlerSteps, DecideNewStep, OpenForStep, AdjudicateStep, PromoteStep, UpdateStep
       DEF Next, Step, Approve
  <1>2. CASE UNCHANGED vars
    BY <1>2 DEF vars, ledger, EscalationInv, TypeOK, WriteAhead, PromotedWithProvenance,
                RulingRecorded, Resolved
  <1> QED
    BY <1>1, <1>2

-----------------------------------------------------------------------------
(* What a decision is owed: an escalation, or a handler about to open it.  *)

(* A resolution is not None. *)
LEMMA UpdateResolves ==
  ASSUME EscalationInv, NEW t \in Threads, Update(t)
  PROVE  escalation'[call[t].key] # None
  <1>1. PICK k \in Keys, a \in Actions, p \in BOOLEAN :
          k = call[t].key /\ a = call[t].action /\ p = call[t].promote
    BY DEF EscalationInv, TypeOK, Update, Finish, Goto
  <1>2. [status |-> "resolved", resolution |-> [action |-> a, promoted |-> p]] \in Closed
    BY DEF Closed
  <1> QED
    BY <1>1, <1>2, EscalationAssumptions DEF EscalationInv, TypeOK, Update

LEMMA DecideNewOwes ==
  ASSUME EscalationInv, EveryDecisionEscalated,
         NEW t \in Threads, NEW k \in Keys, NEW o \in Outcomes, DecideNew(t, k, o)
  PROVE  EveryDecisionEscalated'
  <1>1. /\ pc[t] = "idle" /\ decision[k] = None /\ o # None
        /\ decision' = [decision EXCEPT ![k] = o]
        /\ pc' = [pc EXCEPT ![t] = "open"]
        /\ call' = [call EXCEPT ![t] = Evaluation(k)]
        /\ UNCHANGED <<escalation, answered, stops>>
    BY EscalationAssumptions DEF DecideNew, Receive, Goto, Outcomes
  <1>2. Opening(k)'
    <2>1. pc'[t] = "open" /\ call'[t].key = k
      BY <1>1 DEF EscalationInv, TypeOK, Evaluation
    <2> QED
      BY <2>1 DEF Opening
  <1>3. ASSUME NEW j \in Keys \ {k}
        PROVE  decision'[j] = decision[j] /\ (Opening(j) => Opening(j)')
    <2>1. decision'[j] = decision[j]
      BY <1>1 DEF EscalationInv, TypeOK
    <2>2. ASSUME NEW u \in Threads, pc[u] = "open" /\ call[u].key = j
          PROVE  pc'[u] = "open" /\ call'[u].key = j
      BY <1>1, <2>2 DEF EscalationInv, TypeOK
    <2> QED
      BY <2>1, <2>2 DEF Opening
  <1>4. decision'[k] = o
    BY <1>1 DEF EscalationInv, TypeOK
  <1>5. \A j \in answered' : decision'[j] # None
    BY <1>1, <1>3, <1>4 DEF EscalationInv, TypeOK, EveryDecisionEscalated
  <1>6. ASSUME stops' = 0, NEW j \in Keys, decision'[j] \in {"approval", "escalate"}
        PROVE  escalation'[j] # None \/ Opening(j)'
    <2>1. CASE j = k
      BY <1>2, <2>1
    <2>2. CASE j # k
      BY <1>1, <1>3, <1>6, <2>2 DEF EveryDecisionEscalated
    <2> QED
      BY <2>1, <2>2
  <1> QED
    BY <1>5, <1>6 DEF EveryDecisionEscalated

LEMMA OpenForPays ==
  ASSUME EscalationInv, EveryDecisionEscalated, NEW t \in Threads, OpenFor(t)
  PROVE  EveryDecisionEscalated'
  <1>1. PICK k \in Keys : k = call[t].key
    BY DEF EscalationInv, TypeOK, OpenFor, Answer, Finish, Goto
  <1>2. /\ pc[t] = "open" /\ decision[k] # None
        /\ pc' = [pc EXCEPT ![t] = "idle"] /\ call' = [call EXCEPT ![t] = None]
        /\ answered' = answered \cup {k}
        /\ UNCHANGED <<decision, stops>>
    BY <1>1 DEF EscalationInv, RulingRecorded, OpenFor, Answer, Finish, Goto, ledger
  <1>3. /\ decision[k] \in {"approval", "escalate"} => escalation'[k] # None
        /\ \A j \in Keys : escalation[j] # None => escalation'[j] # None
    BY <1>1, EscalationAssumptions DEF EscalationInv, TypeOK, OpenFor, Outcomes
  <1>4. ASSUME NEW j \in Keys \ {k}, Opening(j)
        PROVE  Opening(j)'
    <2>1. PICK u \in Threads : pc[u] = "open" /\ call[u].key = j
      BY <1>4 DEF Opening
    <2>2. u # t
      BY <1>1, <2>1
    <2>3. pc'[u] = "open" /\ call'[u].key = j
      BY <1>2, <2>1, <2>2 DEF EscalationInv, TypeOK
    <2> QED
      BY <2>3 DEF Opening
  <1>5. \A j \in answered' : decision'[j] # None
    BY <1>2 DEF EveryDecisionEscalated
  <1> QED
    BY <1>2, <1>3, <1>4, <1>5 DEF EveryDecisionEscalated

LEMMA OwedStep ==
  ASSUME EscalationInv, EveryDecisionEscalated, [Next]_vars
  PROVE  EveryDecisionEscalated'
  <1>1. ASSUME NEW t \in Threads, Stop(t)
        PROVE  EveryDecisionEscalated'
    <2>1. stops' # 0 /\ UNCHANGED <<decision, answered>>
      BY <1>1, EscalationAssumptions DEF EscalationInv, TypeOK, Stop, ledger
    <2> QED
      BY <2>1 DEF EveryDecisionEscalated
  <1>2. ASSUME NEW t \in Threads, Lookup(t)
        PROVE  EveryDecisionEscalated'
    <2>1. /\ pc[t] = "lookup"
          /\ pc' = [pc EXCEPT ![t] = "idle"] /\ call' = [call EXCEPT ![t] = None]
          /\ answered' = answered \cup {call[t].key}
          /\ UNCHANGED <<decision, escalation, stops>>
      BY <1>2 DEF Lookup, Answer, Finish, Goto, ledger
    <2>2. decision[call[t].key] # None
      BY <2>1 DEF EscalationInv, RulingRecorded
    <2>3. \A u \in Threads : pc[u] = "open" => pc'[u] = "open" /\ call'[u] = call[u]
      BY <2>1 DEF EscalationInv, TypeOK
    <2>4. \A k \in Keys : Opening(k) => Opening(k)'
      BY <2>3 DEF Opening
    <2> QED
      BY <2>1, <2>2, <2>4 DEF EveryDecisionEscalated
  <1>3. ASSUME NEW t \in Threads,
               \/ Adjudicate(t) \/ PromoteDuplicate(t) \/ Promote(t) \/ Update(t)
               \/ \E k \in Keys : DecideAgain(t, k)
               \/ \E k \in Keys, a \in Actions, p \in Promotions : Resolve(t, k, a, p)
        PROVE  EveryDecisionEscalated'
    <2>1. UNCHANGED <<decision, answered, stops>>
      BY <1>3 DEF Adjudicate, PromoteDuplicate, Promote, Update, DecideAgain, Resolve, ledger
    <2>2. \A u \in Threads : pc[u] = "open" => pc'[u] = "open" /\ call'[u] = call[u]
      <3>1. pc[t] # "open" /\ \A u \in Threads \ {t} : pc'[u] = pc[u] /\ call'[u] = call[u]
        BY <1>3 DEF EscalationInv, TypeOK, Adjudicate, PromoteDuplicate, Promote, Update,
                    DecideAgain, Resolve, Finish, Receive, Goto
      <3> QED
        BY <3>1
    <2>3. \A k \in Keys : escalation[k] # None => escalation'[k] # None
      <3>1. CASE Update(t)
        <4>1. escalation' \in [Keys -> {None, Open} \cup Closed] /\ call[t].key \in Keys
          BY <3>1, UpdateStep DEF EscalationInv, TypeOK, Update, Finish, Goto
        <4>2. escalation'[call[t].key] # None
          BY <3>1, <4>1, UpdateResolves
        <4> QED
          BY <3>1, <4>1, <4>2 DEF EscalationInv, TypeOK, Update
      <3>2. CASE UNCHANGED escalation
        BY <3>2
      <3> QED
        BY <1>3, <3>1, <3>2 DEF Adjudicate, PromoteDuplicate, Promote, DecideAgain, Resolve
    <2>4. \A k \in Keys : Opening(k) => Opening(k)'
      BY <2>2 DEF Opening
    <2> QED
      BY <2>1, <2>3, <2>4 DEF EveryDecisionEscalated
  <1>4. CASE UNCHANGED vars
    BY <1>4 DEF vars, ledger, EveryDecisionEscalated, Opening
  <1> QED
    BY <1>1, <1>2, <1>3, <1>4, DecideNewOwes, OpenForPays DEF Next, Step, Approve

-----------------------------------------------------------------------------
(* The theorems. *)

(* The inductive invariant holds in every reachable state. *)
THEOREM EscalationInvariance == Spec => []EscalationInv
  BY InitHolds, NextStep, PTL DEF Spec

(* No escalation is closed before its ruling is in the ledger, wherever    *)
(* handlers stop and however many resolve it at the same time.             *)
THEOREM AlwaysWriteAhead == Spec => []WriteAhead
  <1>1. EscalationInv => WriteAhead
    BY DEF EscalationInv
  <1> QED
    BY EscalationInvariance, <1>1, PTL

(* Golden cases come from rulings, and a promotion that was reported is in *)
(* the golden set, for any assignment of case identifiers to decisions.    *)
THEOREM AlwaysPromotedWithProvenance == Spec => []PromotedWithProvenance
  <1>1. EscalationInv => PromotedWithProvenance
    BY DEF EscalationInv
  <1> QED
    BY EscalationInvariance, <1>1, PTL

(* As long as no handler has stopped half-way, every decision that calls   *)
(* for a human and was answered is in the inbox, or about to be: however   *)
(* many evaluate the same request at once.                                 *)
THEOREM AlwaysEscalated == Spec => []EscalatedUnlessStopped
  <1>1. Init => EveryDecisionEscalated
    BY EscalationAssumptions DEF Init, EveryDecisionEscalated, Outcomes
  <1>2. EscalationInv /\ EveryDecisionEscalated /\ [Next]_vars => EveryDecisionEscalated'
    BY OwedStep
  <1>3. EscalationInv /\ EveryDecisionEscalated => EscalatedUnlessStopped
    BY DEF EscalationInv, TypeOK, EveryDecisionEscalated, Opening, EscalatedUnlessStopped,
           AnsweredDecisionsEscalated, Outcomes
  <1> QED
    BY <1>1, <1>2, <1>3, EscalationInvariance, PTL DEF Spec
=============================================================================
