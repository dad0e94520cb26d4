------------------------------- MODULE Ledger -------------------------------
(***************************************************************************)
(* DecisionService (backend/ledger/service.py): concurrent callers record  *)
(* decisions and adjudications in the hash-chained ledger of a company.    *)
(* No lock is held between the idempotency lookup, the sealing of an event *)
(* against the chain head and the append, so each is a step of its own; an *)
(* append that lost the race to another caller raises ChainConflict and is *)
(* retried against the new head, a bounded number of times.                *)
(*                                                                         *)
(* A thread is a request handler: pc is "idle" between two calls, "lookup" *)
(* and "seal" before the store is read, "append" before it is written.     *)
(* Threads are handlers of one server process or of several that share the *)
(* Postgres store.  The store survives a crash, a thread does not.         *)
(***************************************************************************)
EXTENDS LedgerStore, FiniteSets

CONSTANTS
  Threads,         \* request handlers
  ClientKeys,      \* idempotency keys clients choose for their decisions
  Facts,           \* fact sets a client may submit
  Bundles,         \* content hashes of the bundles ever published
  Outcomes,        \* outcomes of evaluation and rulings of approvers
  Invalid,         \* evaluate raised InvalidFactsError or KeyError
  Evaluate(_, _),  \* evaluate(facts, bundle): a pure function
  EventIds,        \* uuid4 values
  MAX_CHAIN_CONFLICT_RETRIES

ASSUME LedgerAssumptions ==
  /\ None \notin EventIds \cup Bundles
  /\ Invalid \notin Outcomes
  /\ \A f \in Facts, b \in Bundles : Evaluate(f, b) \in Outcomes \cup {Invalid}
  /\ MAX_CHAIN_CONFLICT_RETRIES \in Nat \ {0}

(* Keys of decisions come from clients, keys of adjudications from the     *)
(* escalation they resolve, which is the only one of its decision.         *)
IdempotencyKeys ==
  ({"client"} \X ClientKeys) \cup ({"adjudication"} \X EventIds)

Contents ==
  [event_type      : {"decision", "adjudication"},
   idempotency_key : IdempotencyKeys,
   facts           : Facts,
   outcome         : Outcomes,
   bundle_hash     : Bundles,
   linked_event_id : EventIds \cup {None}]

VARIABLES
  stream,          \* the ledger: sealed events, oldest first
  active,          \* hash of the active bundle, moved by BundleLifecycle
  pc,              \* where each thread is
  content,         \* what each thread records in its current call
  event,           \* the event each thread sealed last
  attempts,        \* ChainConflicts each thread met in its current call
  answers,         \* history: [key, event_id, created, repeated] of the 200 responses
  base             \* history: length of the ledger when the call began

vars == <<stream, active, pc, content, event, attempts, answers, base>>

Init ==
  /\ stream = <<>>
  /\ active = None
  /\ pc = [t \in Threads |-> "idle"]
  /\ content = [t \in Threads |-> None]
  /\ event = [t \in Threads |-> None]
  /\ attempts = [t \in Threads |-> 0]
  /\ answers = {}
  /\ base = [t \in Threads |-> 0]

-----------------------------------------------------------------------------
(* Steps shared by the operations below. *)

Goto(t, label) == pc' = [pc EXCEPT ![t] = label]

Finish(t) ==
  /\ Goto(t, "idle")
  /\ content' = [content EXCEPT ![t] = None]
  /\ event' = [event EXCEPT ![t] = None]
  /\ attempts' = [attempts EXCEPT ![t] = 0]
  /\ base' = [base EXCEPT ![t] = 0]

(* Some caller of the key was told that it created the event. *)
ToldCreated(key) == \E a \in answers : a.created /\ a.key = key

Respond(t, e, created) ==
  /\ answers' = answers \cup
       {[key      |-> e.content.idempotency_key,
         event_id |-> e.event_id,
         created  |-> created,
         repeated |-> created /\ ToldCreated(e.content.idempotency_key)]}
  /\ Finish(t)

Begin(t, c, label) ==
  /\ pc[t] = "idle"
  /\ Goto(t, label)
  /\ content' = [content EXCEPT ![t] = c]
  /\ base' = [base EXCEPT ![t] = Len(stream)]
  /\ UNCHANGED <<stream, active, event, attempts, answers>>

(* Another component moves the pointer to the active bundle. *)
SetActive(b) ==
  /\ active' = b
  /\ UNCHANGED <<stream, pc, content, event, attempts, answers, base>>

-----------------------------------------------------------------------------
(* decide(): the handler has read the active bundle (409 without one); the *)
(* decision is evaluated against that bundle whatever becomes active       *)
(* later.  Evaluation is pure, so its result is fixed here although the    *)
(* code computes it after the lookup; an evaluation error is only raised   *)
(* then.                                                                   *)
Decide(t, k, f) ==
  /\ active # None
  /\ Begin(t,
           [event_type      |-> "decision",
            idempotency_key |-> <<"client", k>>,
            facts           |-> f,
            outcome         |-> Evaluate(f, active),
            bundle_hash     |-> active,
            linked_event_id |-> None],
           "lookup")

(* The fast path of decide: the original event, or on to the append loop,  *)
(* or 400 when the facts cannot be evaluated.                              *)
LookupHit(t) ==
  LET key == content[t].idempotency_key
  IN  /\ pc[t] = "lookup"
      /\ HasKey(stream, key)
      /\ Respond(t, by_idempotency_key(stream, key), FALSE)
      /\ UNCHANGED <<stream, active>>

LookupMiss(t) ==
  /\ pc[t] = "lookup"
  /\ ~ HasKey(stream, content[t].idempotency_key)
  /\ IF content[t].outcome = Invalid
       THEN Finish(t)
       ELSE Goto(t, "seal") /\ UNCHANGED <<content, event, attempts, base>>
  /\ UNCHANGED <<stream, active, answers>>

(* Mutant of RecordAdjudication: the ruling is filed under the bundle that *)
(* is active now.                                                          *)
RecordAdjudicationUnderActive(t, i, o) ==
  /\ stream[i].content.event_type = "decision"
  /\ Begin(t,
           [event_type      |-> "adjudication",
            idempotency_key |-> <<"adjudication", stream[i].event_id>>,
            facts           |-> stream[i].content.facts,
            outcome         |-> o,
            bundle_hash     |-> active,
            linked_event_id |-> stream[i].event_id],
           "seal")

(* record_adjudication(): a ruling with a non-blank rationale on decision  *)
(* stream[i].  It has no fast path.                                        *)
RecordAdjudication(t, i, o) ==
  /\ stream[i].content.event_type = "decision"
  /\ Begin(t,
           [event_type      |-> "adjudication",
            idempotency_key |-> <<"adjudication", stream[i].event_id>>,
            facts           |-> stream[i].content.facts,
            outcome         |-> o,
            bundle_hash     |-> stream[i].content.bundle_hash,
            linked_event_id |-> stream[i].event_id],
           "seal")

-----------------------------------------------------------------------------
(* The append loop. *)

(* uuid4: an identifier no event, sealed or stored, has. *)
FreshIds ==
  EventIds \ (EventIdsOf(stream)
              \cup {event[u].event_id : u \in {v \in Threads : pc[v] = "append"}})

(* Mutant of Seal: the event is stamped with the bundle active by now.     *)
SealUnderActive(t) ==
  /\ pc[t] = "seal"
  /\ FreshIds # {}
  /\ LET stamped == [content[t] EXCEPT !.bundle_hash = active]
     IN  event' = [event EXCEPT ![t] = sealed(stamped,
                                              CHOOSE id \in FreshIds : TRUE,
                                              chain_head(stream))]
  /\ Goto(t, "append")
  /\ UNCHANGED <<stream, active, content, attempts, answers, base>>

(* _seal_raw(): read the chain head and seal a new event against it. *)
Seal(t) ==
  /\ pc[t] = "seal"
  /\ FreshIds # {}
  /\ event' = [event EXCEPT ![t] = sealed(content[t],
                                          CHOOSE id \in FreshIds : TRUE,
                                          chain_head(stream))]
  /\ Goto(t, "append")
  /\ UNCHANGED <<stream, active, content, attempts, answers, base>>

(* append() finds the key in use: the original event, created = False. *)
AppendExisting(t) ==
  /\ pc[t] = "append"
  /\ AppendReturnsExisting(stream, event[t])
  /\ Respond(t, by_idempotency_key(stream, event[t].content.idempotency_key), FALSE)
  /\ UNCHANGED <<stream, active>>

(* append() inserts the event and the caller is answered. *)
AppendInsert(t) ==
  /\ pc[t] = "append"
  /\ AppendInserts(stream, event[t])
  /\ stream' = Append(stream, event[t])
  /\ Respond(t, event[t], TRUE)
  /\ UNCHANGED active

(* Mutant of AppendConflict: the same event is tried again, not re-sealed. *)
AppendConflictWithoutReseal(t) ==
  /\ pc[t] = "append"
  /\ AppendConflicts(stream, event[t])
  /\ IF attempts[t] + 1 < MAX_CHAIN_CONFLICT_RETRIES
       THEN /\ attempts' = [attempts EXCEPT ![t] = @ + 1]
            /\ UNCHANGED <<pc, content, event, base>>
       ELSE Finish(t)
  /\ UNCHANGED <<stream, active, answers>>

(* append() raises ChainConflict: seal again, or LedgerUnavailableError    *)
(* once the retries are used up.                                           *)
AppendConflict(t) ==
  /\ pc[t] = "append"
  /\ AppendConflicts(stream, event[t])
  /\ IF attempts[t] + 1 < MAX_CHAIN_CONFLICT_RETRIES
       THEN /\ Goto(t, "seal")
            /\ event' = [event EXCEPT ![t] = None]
            /\ attempts' = [attempts EXCEPT ![t] = @ + 1]
            /\ UNCHANGED <<content, base>>
       ELSE Finish(t)
  /\ UNCHANGED <<stream, active, answers>>

(* The insert is committed but the acknowledgement of the commit is lost:  *)
(* the caller gets 503, or the process dies before it answers.             *)
AppendUnacknowledged(t) ==
  /\ pc[t] = "append"
  /\ AppendInserts(stream, event[t])
  /\ stream' = Append(stream, event[t])
  /\ Finish(t)
  /\ UNCHANGED <<active, answers>>

(* Mutant of Abort: the failed append is reported as a success. *)
AbortFailsOpen(t) ==
  /\ pc[t] # "idle"
  /\ IF pc[t] = "append"
       THEN Respond(t, event[t], TRUE)
       ELSE Finish(t) /\ UNCHANGED answers
  /\ UNCHANGED <<stream, active>>

(* A storage failure before anything is committed aborts the call (503,    *)
(* LedgerUnavailableError); a crash of the process ends it as well.        *)
Abort(t) ==
  /\ pc[t] # "idle"
  /\ Finish(t)
  /\ UNCHANGED <<stream, active, answers>>

-----------------------------------------------------------------------------
(* The steps of a call once it has begun, failures aside. *)
Step(t) ==
  \/ LookupHit(t)
  \/ LookupMiss(t)
  \/ Seal(t)
  \/ AppendExisting(t)
  \/ AppendInsert(t)
  \/ AppendConflict(t)

Next ==
  \/ \E b \in Bundles : SetActive(b)
  \/ \E t \in Threads :
       \/ \E k \in ClientKeys, f \in Facts : Decide(t, k, f)
       \/ \E i \in DOMAIN stream, o \in Outcomes : RecordAdjudication(t, i, o)
       \/ Step(t)
       \/ AppendUnacknowledged(t)
       \/ Abort(t)

Spec == Init /\ [][Next]_vars

-----------------------------------------------------------------------------
(* Properties. *)

(* What decide looks up and then tries to record. *)
Requests ==
  [event_type      : {"decision"},
   idempotency_key : IdempotencyKeys,
   facts           : Facts,
   outcome         : Outcomes \cup {Invalid},
   bundle_hash     : Bundles,
   linked_event_id : {None}]

IsEvent(e) == e.content \in Contents /\ e.event_id \in EventIds /\ verify(e)

(* Every variable has its type, and a thread's registers hold what the     *)
(* code holds at that point: the request, the content to record, the event *)
(* sealed from exactly that content.                                       *)
TypeOK ==
  /\ stream \in Seq({stream[i] : i \in DOMAIN stream})
  /\ \A i \in DOMAIN stream : IsEvent(stream[i])
  /\ active \in Bundles \cup {None}
  /\ pc \in [Threads -> {"idle", "lookup", "seal", "append"}]
  /\ DOMAIN content = Threads
  /\ DOMAIN event = Threads
  /\ attempts \in [Threads -> 0 .. MAX_CHAIN_CONFLICT_RETRIES - 1]
  /\ base \in [Threads -> Nat]
  /\ \A t \in Threads :
       /\ pc[t] = "lookup" => content[t] \in Requests
       /\ pc[t] \in {"seal", "append"} => content[t] \in Contents
       /\ pc[t] = "append" => IsEvent(event[t]) /\ event[t].content = content[t]
  /\ answers \subseteq [key : IdempotencyKeys, event_id : EventIds,
                        created : BOOLEAN, repeated : BOOLEAN]

(* The chain verifies in every reachable state: callers that sealed        *)
(* against the same head never both get in (GET /v1/ledger/verify,         *)
(* verify_chain).                                                          *)
ChainValid == verify_chain(stream)

(* An idempotency key names at most one event although the lookup and the  *)
(* append are separate steps (append's check under the lock).              *)
OneEventPerKey ==
  \A i, j \in DOMAIN stream :
    stream[i].content.idempotency_key = stream[j].content.idempotency_key => i = j

(* Of all the callers that use a key, however they race and retry, at most *)
(* one is told created = True, and he only once: evaluate_decision opens   *)
(* the escalation of a decision on that answer alone.                      *)
CreatedOnce ==
  /\ \A a, b \in answers : a.created /\ b.created /\ a.key = b.key => a = b
  /\ \A a \in answers : ~ a.repeated

(* Any recorded decision can be recomputed from what was recorded with it, *)
(* also when the active bundle changed while the call was under way        *)
(* (decide evaluates and records the same bundle).                         *)
Reproducible ==
  \A i \in DOMAIN stream :
    LET c == stream[i].content
    IN  c.event_type = "decision" => c.outcome = Evaluate(c.facts, c.bundle_hash)

(* Content c is a ruling on event e: same facts, same bundle. *)
RulesOn(c, e) ==
  /\ e.event_id = c.linked_event_id
  /\ e.content.event_type = "decision"
  /\ e.content.facts = c.facts
  /\ e.content.bundle_hash = c.bundle_hash

(* A ruling stands after the decision it rules on, for the same facts and  *)
(* under the same bundle (record_adjudication copies both).                *)
RulingsFollowDecisions ==
  \A j \in DOMAIN stream :
    stream[j].content.event_type = "adjudication" =>
      \E i \in 1 .. j - 1 : RulesOn(stream[j].content, stream[i])

(* A call meets a ChainConflict only because other callers got events in:  *)
(* whenever its append is refused for the (n+1)-th time, at least n + 1     *)
(* events were appended since it began, so giving up after MAX refusals    *)
(* means that MAX other calls made progress (_append_sealed).              *)
ConflictMeansProgress ==
  \A t \in Threads :
    pc[t] = "append" /\ AppendConflicts(stream, event[t])
      => attempts[t] < Len(stream) - base[t]

(* The service implements the atomic get-or-append of AtomicLedger: a      *)
(* caller is told only of events that are in the ledger, and the ledger    *)
(* only grows by one new key at a time.                                    *)
Atomic ==
  INSTANCE AtomicLedger
    WITH log <- [i \in DOMAIN stream |->
                   [content |-> stream[i].content, event_id |-> stream[i].event_id]]

ImplementsAtomicLedger == Atomic!Spec

(***************************************************************************)
(* The inductive invariant.  What makes the properties above survive every *)
(* step is what a thread knows between two of its steps: the event it      *)
(* holds was sealed against a head the ledger had at some length n since   *)
(* the call began, n at least the number of events that beat it so far;    *)
(* its identifier is nobody else's; and its content is already right.      *)
(***************************************************************************)
HeadAt(n) == IF n = 0 THEN None ELSE stream[n].event_hash

SealedAgainstPastHead ==
  \A t \in Threads :
    /\ pc[t] = "idle" => attempts[t] = 0
    /\ pc[t] # "idle" => base[t] + attempts[t] <= Len(stream)
    /\ pc[t] = "append" =>
         \E n \in base[t] + attempts[t] .. Len(stream) :
           event[t].prev_event_hash = HeadAt(n)

IdsUnique ==
  \A t \in Threads :
    pc[t] = "append" =>
      /\ event[t].event_id \notin EventIdsOf(stream)
      /\ \A u \in Threads \ {t} :
           pc[u] = "append" => event[u].event_id # event[t].event_id

PendingContentSound ==
  \A t \in Threads :
    LET c == content[t]
    IN  pc[t] # "idle" =>
          /\ c.event_type = "decision" => c.outcome = Evaluate(c.facts, c.bundle_hash)
          /\ c.event_type = "adjudication" =>
               \E i \in DOMAIN stream : RulesOn(c, stream[i])

AnswersRecorded ==
  \A a \in answers :
    \E i \in DOMAIN stream : /\ stream[i].content.idempotency_key = a.key
                            /\ stream[i].event_id = a.event_id

LedgerInv ==
  /\ TypeOK
  /\ ChainValid
  /\ OneEventPerKey
  /\ CreatedOnce
  /\ Reproducible
  /\ RulingsFollowDecisions
  /\ SealedAgainstPastHead
  /\ IdsUnique
  /\ PendingContentSound
  /\ AnswersRecorded
=============================================================================
