----------------------------- MODULE Escalation -----------------------------
(***************************************************************************)
(* The escalation loop of one company: evaluate_decision (backend/v1_api.py)*)
(* records a decision and opens an escalation for it, resolve              *)
(* (backend/escalation/service.py) records the ruling, promotes the case   *)
(* to the golden set when asked to, and closes the escalation.             *)
(*                                                                         *)
(* Ledger, escalation store and case store are three stores with a         *)
(* transaction each, so a handler that stops between two of them leaves    *)
(* the others behind.  Recording in the ledger is one atomic get-or-append *)
(* here: that is what DecisionService implements (theorem                  *)
(* RefinesAtomicLedger of LedgerProofs).  A key names one event there      *)
(* (KeysNeverReused), so decisions are named by their idempotency key; an  *)
(* escalation and its adjudication by the decision they belong to.         *)
(***************************************************************************)
EXTENDS Naturals

CONSTANTS
  Threads,      \* request handlers
  Keys,         \* decisions, by idempotency key
  Actions,      \* actions an approver may choose
  Promotions,   \* whether approvers ask to promote to golden
  CaseIds,      \* identifiers of golden cases
  CaseId(_),    \* adj-<event_id[:8]>: a prefix, two decisions may share it
  MaxStops,     \* bound: handlers that stop half-way
  None

(* "escalate": the outcome's kind, whatever its reason; "approval": an     *)
(* action that carries approval_required.                                  *)
Outcomes == {"clear", "approval", "escalate"}

Cases == [key : Keys, action : Actions]

Open == [status |-> "open", resolution |-> None]

Closed ==
  [status     : {"resolved"},
   resolution : [action : Actions, promoted : BOOLEAN]]

ASSUME EscalationAssumptions ==
  /\ \A k \in Keys : CaseId(k) \in CaseIds
  /\ Promotions \subseteq BOOLEAN
  /\ None \notin Actions \cup Outcomes \cup Cases \cup {Open} \cup Closed
  /\ MaxStops \in Nat

VARIABLES
  decision,     \* ledger: outcome of the decision under each key, or None
  adjudication, \* ledger: action ruled on the decision, or None
  escalation,   \* escalation store: None or [status, resolution]
  golden,       \* case store: None or [key, action] under each case id
  pc,           \* where each handler is
  call,         \* the request each handler serves: [key, action, promote]
  answered,     \* history: keys of the 200 responses of evaluate_decision
  stops         \* how many handlers stopped half-way

ledger == <<decision, adjudication>>
vars == <<ledger, escalation, golden, pc, call, answered, stops>>

Init ==
  /\ decision = [k \in Keys |-> None]
  /\ adjudication = [k \in Keys |-> None]
  /\ escalation = [k \in Keys |-> None]
  /\ golden = [c \in CaseIds |-> None]
  /\ pc = [t \in Threads |-> "idle"]
  /\ call = [t \in Threads |-> None]
  /\ answered = {}
  /\ stops = 0

-----------------------------------------------------------------------------
Goto(t, from, to) ==
  /\ pc[t] = from
  /\ pc' = [pc EXCEPT ![t] = to]

Receive(t, request, to) ==
  /\ Goto(t, "idle", to)
  /\ call' = [call EXCEPT ![t] = request]

Finish(t, from) ==
  /\ Goto(t, from, "idle")
  /\ call' = [call EXCEPT ![t] = None]

(* A crash, or a store that is unavailable: 503 or no answer.  What the    *)
(* handler has written stays.                                              *)
Stop(t) ==
  /\ pc[t] # "idle"
  /\ stops < MaxStops
  /\ stops' = stops + 1
  /\ Finish(t, pc[t])
  /\ UNCHANGED <<ledger, escalation, golden, answered>>

-----------------------------------------------------------------------------
(* evaluate_decision *)

Evaluation(k) == [key |-> k, action |-> None, promote |-> FALSE]

(* decide records a new decision: created. *)
DecideNew(t, k, o) ==
  /\ decision[k] = None
  /\ Receive(t, Evaluation(k), "open")
  /\ decision' = [decision EXCEPT ![k] = o]
  /\ UNCHANGED <<adjudication, escalation, golden, answered, stops>>

(* The key was used before: the original decision, not created. *)
DecideAgain(t, k) ==
  /\ decision[k] # None
  /\ Receive(t, Evaluation(k), "lookup")
  /\ UNCHANGED <<ledger, escalation, golden, answered, stops>>

Answer(t, from) ==
  /\ Finish(t, from)
  /\ answered' = answered \cup {call[t].key}

(* Mutant of OpenFor: approval_required opens nothing. *)
OpenForEscalateOnly(t) ==
  LET k == call[t].key
  IN  /\ Answer(t, "open")
      /\ escalation' =
           IF decision[k] = "escalate" /\ escalation[k] = None
             THEN [escalation EXCEPT ![k] = Open]
             ELSE escalation
      /\ UNCHANGED <<ledger, golden, stops>>

(* open_for a created decision; add() keeps an escalation that is there. *)
OpenFor(t) ==
  LET k == call[t].key
  IN  /\ Answer(t, "open")
      /\ escalation' =
           IF decision[k] # "clear" /\ escalation[k] = None
             THEN [escalation EXCEPT ![k] = Open]
             ELSE escalation
      /\ UNCHANGED <<ledger, golden, stops>>

(* escalations_by_decision for a decision that was there: only a lookup. *)
Lookup(t) ==
  /\ Answer(t, "lookup")
  /\ UNCHANGED <<ledger, escalation, golden, stops>>

-----------------------------------------------------------------------------
(* resolve *)

IsOpen(k) == escalation[k] # None /\ escalation[k].status = "open"

Resolved(k) == escalation[k] # None /\ escalation[k].status = "resolved"

(* The escalation exists and is not RESOLVED (else 404 or 409). *)
Resolve(t, k, a, p) ==
  /\ IsOpen(k)
  /\ Receive(t, [key |-> k, action |-> a, promote |-> p], "adjudicate")
  /\ UNCHANGED <<ledger, escalation, golden, answered, stops>>

AfterAdjudication(t) == IF call[t].promote THEN "promote" ELSE "update"

(* Mutant of Adjudicate: the ledger may be down, and resolve goes on. *)
AdjudicateFailsOpen(t) ==
  /\ Goto(t, "adjudicate", AfterAdjudication(t))
  /\ adjudication' \in
       {adjudication, [adjudication EXCEPT ![call[t].key] = call[t].action]}
  /\ UNCHANGED <<decision, escalation, golden, call, answered, stops>>

(* Mutant of Adjudicate: a second ruling is an error. *)
AdjudicateOnce(t) ==
  /\ pc[t] = "adjudicate"
  /\ IF adjudication[call[t].key] = None
       THEN /\ Goto(t, "adjudicate", AfterAdjudication(t))
            /\ adjudication' = [adjudication EXCEPT ![call[t].key] = call[t].action]
            /\ UNCHANGED call
       ELSE Finish(t, "adjudicate") /\ UNCHANGED adjudication
  /\ UNCHANGED <<decision, escalation, golden, answered, stops>>

(* record_adjudication: the ruling, or the original one under this key. *)
Adjudicate(t) ==
  /\ Goto(t, "adjudicate", AfterAdjudication(t))
  /\ adjudication' =
       [adjudication EXCEPT ![call[t].key] = IF @ = None THEN call[t].action ELSE @]
  /\ UNCHANGED <<decision, escalation, golden, call, answered, stops>>

(* Mutant of Promote: a case with this identifier is replaced. *)
PromoteOverwrites(t) ==
  /\ Goto(t, "promote", "update")
  /\ golden' = [golden EXCEPT ![CaseId(call[t].key)] =
                  [key |-> call[t].key, action |-> call[t].action]]
  /\ UNCHANGED <<ledger, escalation, call, answered, stops>>

(* _promote_golden adds a case, with the adjudication as its provenance. *)
Promote(t) ==
  /\ golden[CaseId(call[t].key)] = None
  /\ Goto(t, "promote", "update")
  /\ golden' = [golden EXCEPT ![CaseId(call[t].key)] =
                  [key |-> call[t].key, action |-> call[t].action]]
  /\ UNCHANGED <<ledger, escalation, call, answered, stops>>

(* The identifier is taken: ValueError, 400. *)
PromoteDuplicate(t) ==
  /\ golden[CaseId(call[t].key)] # None
  /\ Finish(t, "promote")
  /\ UNCHANGED <<ledger, escalation, golden, answered, stops>>

(* The resolution of this caller, whatever has become of the escalation. *)
Update(t) ==
  /\ Finish(t, "update")
  /\ escalation' =
       [escalation EXCEPT ![call[t].key] =
          [status     |-> "resolved",
           resolution |-> [action |-> call[t].action, promoted |-> call[t].promote]]]
  /\ UNCHANGED <<ledger, golden, answered, stops>>

-----------------------------------------------------------------------------
(* The steps of a handler that does not stop. *)
Step(t) ==
  \/ OpenFor(t)
  \/ Lookup(t)
  \/ Adjudicate(t)
  \/ pc[t] = "promote" /\ (Promote(t) \/ PromoteDuplicate(t))
  \/ Update(t)

Approve(k) ==
  \E t \in Threads, a \in Actions, p \in Promotions : Resolve(t, k, a, p)

Next ==
  \/ \E t \in Threads :
       \/ \E k \in Keys, o \in Outcomes : DecideNew(t, k, o)
       \/ \E k \in Keys : DecideAgain(t, k)
       \/ Step(t)
       \/ Stop(t)
  \/ \E k \in Keys : Approve(k)

Spec == Init /\ [][Next]_vars

(* Handlers that do not stop run on, and approvers keep ruling on an       *)
(* escalation in their inbox until it is closed.  MaxStops bounds the      *)
(* crashes: nothing is promised where every attempt crashes.               *)
FairSpec ==
  /\ Spec
  /\ \A t \in Threads : WF_vars(Step(t))
  /\ \A k \in Keys : SF_vars(Approve(k))

-----------------------------------------------------------------------------
(* Properties. *)

(* Every variable has its type: an escalation has a resolution exactly     *)
(* when it is resolved, a handler has a request exactly when it is busy.   *)
TypeOK ==
  /\ decision \in [Keys -> Outcomes \cup {None}]
  /\ adjudication \in [Keys -> Actions \cup {None}]
  /\ escalation \in [Keys -> {None, Open} \cup Closed]
  /\ golden \in [CaseIds -> {None} \cup Cases]
  /\ pc \in [Threads -> {"idle", "open", "lookup", "adjudicate", "promote", "update"}]
  /\ DOMAIN call = Threads
  /\ \A t \in Threads :
       /\ pc[t] # "idle" => call[t].key \in Keys
       /\ pc[t] \in {"adjudicate", "promote", "update"} =>
            call[t].action \in Actions /\ call[t].promote \in BOOLEAN
       /\ pc[t] = "promote" => call[t].promote
  /\ answered \subseteq Keys
  /\ stops \in 0 .. MaxStops

(* Write-ahead: an escalation is closed only when a ruling on its decision *)
(* is in the ledger, and is open only for a decision that is in the ledger *)
(* and calls for a human (resolve, open_for); no crash undoes it.          *)
WriteAhead ==
  \A k \in Keys :
    /\ Resolved(k) => adjudication[k] # None
    /\ escalation[k] # None => decision[k] \in {"approval", "escalate"}

(* A golden case has provenance: it comes from a decision that was ruled   *)
(* on; and a resolution that says it was promoted has its own case in the  *)
(* golden set, also when two decisions share a case identifier.            *)
PromotedWithProvenance ==
  /\ \A c \in CaseIds : golden[c] # None => adjudication[golden[c].key] # None
  /\ \A k \in Keys :
       Resolved(k) /\ escalation[k].resolution.promoted =>
         golden[CaseId(k)] # None /\ golden[CaseId(k)].key = k

(* An evaluation that escalates opens an escalation (V1_EXECUTION_PLAN.md, *)
(* step 4): once a client was answered 200 and no handler is about to open *)
(* it, the escalation of a decision that calls for one is in the inbox.    *)
AnsweredDecisionsEscalated ==
  \A k \in answered :
    \/ decision[k] = "clear"
    \/ escalation[k] # None
    \/ \E t \in Threads : pc[t] = "open" /\ call[t].key = k

(* ... always, as long as no handler has stopped half-way. *)
EscalatedUnlessStopped == stops = 0 => AnsweredDecisionsEscalated

(* Resolving is idempotent: an approver who repeats a ruling until it is   *)
(* answered closes the escalation, although an attempt of his may have     *)
(* stopped after any step; unless a golden case has taken the case         *)
(* identifier, be it that of an earlier attempt of his own.                *)
ResolvedUnlessTaken ==
  \A k \in Keys : IsOpen(k) ~> Resolved(k) \/ golden[CaseId(k)] # None

(***************************************************************************)
(* The inductive invariant: what a resolver between its steps relies on.   *)
(***************************************************************************)
RulingRecorded ==
  \A t \in Threads :
    /\ pc[t] \in {"open", "lookup"} => decision[call[t].key] # None
    /\ pc[t] \in {"adjudicate", "promote", "update"} =>
         escalation[call[t].key] # None
    /\ pc[t] \in {"promote", "update"} => adjudication[call[t].key] # None
    /\ pc[t] = "update" /\ call[t].promote =>
         /\ golden[CaseId(call[t].key)] # None
         /\ golden[CaseId(call[t].key)].key = call[t].key

(* ... and, while no handler has stopped, what the decisions are owed.     *)
Opening(k) == \E t \in Threads : pc[t] = "open" /\ call[t].key = k

EveryDecisionEscalated ==
  /\ \A k \in answered : decision[k] # None
  /\ stops = 0 =>
       \A k \in Keys :
         decision[k] \in {"approval", "escalate"} => escalation[k] # None \/ Opening(k)

EscalationInv ==
  /\ TypeOK
  /\ WriteAhead
  /\ PromotedWithProvenance
  /\ RulingRecorded
=============================================================================
