# A model of Kernl's decision service

Kernl answers the question "may this action go ahead?" from a bundle of
reviewed policies, records every answer in a hash-chained ledger, hands what it
cannot decide to a human, and lets a policy bundle go live only after its
effect on past cases was replayed and acknowledged. Beside it live a Rust port
of the evaluator for the customer's side and an older pipeline that compiles
documents into a "brain" with a language model. This directory specifies that
system in TLA+, checks small instances of it with TLC, and proves what
matters most for instances of any size with TLAPS. Paths below are relative to
the repository.

## 1. Inventory

### The parts, their state and how they interact

| part | code | state | operations |
|---|---|---|---|
| Decision ledger | `backend/ledger/` | one append-only, hash-chained stream of events per company | `decide`, `record_adjudication`, `verify_chain`, lookups |
| Bundle lifecycle | `backend/bundle/lifecycle.py`, `backend/replay/engine.py` | bundle records with a status, the active pointer, replay runs | `save_draft`, `run`, `acknowledge`, `publish`, `activate` |
| Escalation loop | `backend/escalation/service.py`, `backend/v1_api.py` | escalations, golden cases | `open_for`, `resolve` |
| Decision evaluator | `backend/runtime/evaluator.py`, `backend/bundle/schema.py` | none: a pure function of facts and bundle | `evaluate` |
| Tenants and keys | `backend/onboarding/tenants.py` | companies, API keys | `provision`, `issue_key`, `revoke_key`, `delete_tenant` |
| Onboarding | `backend/onboarding/{service,drafts,sources}.py` | sources, drafts with evidence | `save_draft`, `ground_span`, `remove_evidence`, `set_status`, `assemble_bundle` |
| Postgres stores | `backend/stores_pg.py`, `backend/schema.sql` | every table, one connection, one lock | the adapters of all the above |
| Replay | `backend/replay/{engine,cases}.py` | golden cases of a company | `run`, `passes`, `default_case_set` |
| Container | `backend/v1_container.py` | the wiring; seeds the reference tenants | `get_container`, `_seed_reference_bundles`, `delete_tenant` |
| Reference bundles | `backend/bundle/seed_{rivanly,higgsfield}.py` | none: two bundles and their golden cases | `build_*_bundle`, `build_golden_cases` |
| Edge evaluator | `edge-evaluator/` | none: `evaluate` in Rust | `evaluate` |
| Legacy compile pipeline | `backend/engine/`, `backend/core/{sse,llm}.py`, `backend/schema.sql` | a graph state per job, event queues, slots of the model, tables of the brain | the nodes, `emit_event`, `event_generator`, `llm_call`, `write_brain` |
| Legacy decision runtime | `backend/runtime/*` | none of its own | its routes answer 410 |
| Console | `frontend/` | none of its own | a client of the API |

A request to `POST /v1/decisions/evaluate` reads the active bundle, has the
ledger evaluate and record a decision, and opens an escalation when a human is
needed. `resolve` writes a ruling to the ledger first, may promote the case to
the golden set, and closes the escalation. Golden cases are what a candidate
bundle is replayed on; an acknowledged replay opens `publish`, which moves the
pointer that the next decision reads. Onboarding makes candidate bundles. When
a process comes up, its container sends the reference bundle through the same
gate. A compile runs its nodes one after another, each a few calls of the
language model, and ends in `write_brain`, a dozen calls of the database
without a transaction; listeners follow it over an event queue.

### What is hard

* FastAPI runs synchronous handlers in threads, several server processes may
  share one database, and no service method holds a lock or a transaction
  across two store calls. **Every service method is a sequence of atomic store
  calls with other handlers in between**; that is the grain of all the models.
* A handler can stop between two store calls (the process dies, the database
  goes away); nothing resumes it. Clients retry under idempotency keys.
* Whole rows are read, held in memory and written back later.
* A commit can succeed without its acknowledgement arriving.
* All stores of a container share one connection and one non-reentrant lock.
* Facts may be missing, so a condition is true, false or not known.
* Every process that starts seeds the same database, and may be another release.
* The same decision function exists twice, in languages whose numbers differ.
* An event queue exists for whoever asks first and is deleted by whoever leaves.

`PROJECT.json` lists these as hazards, each at its line with the properties
that cover it.

### What makes each part correct

* Ledger: the chain always verifies; a key names one event; one caller creates
  it; a decision can be recomputed from what is recorded with it; a ruling
  follows its decision; a conflict means that somebody else made progress.
* Lifecycle: what is live has passed an acknowledged replay of exactly its
  content; history is never rewritten; one record is published.
* Escalation: no closure without a ruling in the ledger; no answered decision
  without its escalation; golden cases have provenance; retries succeed.
* Evaluator: the precedence its docstring states, whatever the order of the
  policies; no guess about a missing fact; a complete trace; a rule loses only to a proof.
* Tenants: no lockout; a revoked key stays revoked; deletion leaves nothing.
* Onboarding: exact citations only; acceptance only of valid policies;
  assembled bundles are valid and cited; no acknowledged citation gets lost.
* Postgres: nobody commits another's work; what was acknowledged is stored;
  every call ends.
* Seeding: the reference bundle goes through the gate like any other, a live
  bundle is not replaced, and every start comes up, whatever earlier ones left.
* Reference bundles: the limits their rationales state hold for every request,
  and the golden cases notice the loss of any policy.
* Edge evaluator: the same outcome as the reference, for every request.
* Compile: a stream that says complete, and a complete run, stand for a whole
  brain; readers agree on which brain that is, a listener misses nothing,
  everything ends.

## 2. Modules

| module | models | state and steps |
|---|---|---|
| `LedgerStore` | `ledger/events.py`, both ledger stores | operators: hash chain, `append` with its three outcomes, `verify_chain` |
| `Ledger` | `ledger/service.py` | `stream` and, per thread, where it is in lookup / seal / append; conflicts retry, commits may go unacknowledged, threads abort |
| `AtomicLedger` | what `Ledger` promises: one atomic get-or-append | `log`, `answers` |
| `BundleLifecycle` | `bundle/lifecycle.py`, `replay/engine.py` | `rows`, `active_id`, `runs`; one step per store call of publish and activate |
| `PublishGate` | what `BundleLifecycle` promises: only acknowledged content goes live | `live`, `acknowledged` |
| `Escalation` | `evaluate_decision`, `open_for`, `resolve`, promotion | decision, ruling and escalation of each key, golden cases; over the ledger as one atomic step, which is what `Ledger` is proved to implement |
| `Evaluator` | `runtime/evaluator.py`, `bundle/schema.py` | operators, from validation to the precedence trace |
| `Consultation` | a caller of the evaluator | `bundle`, `facts`: facts arrive one at a time |
| `PgConn` | `SharedPgConn`, `_Tx`, `PgSourceStore` | lock, connection, committed and uncommitted rows, where each thread is |
| `EdgeEvaluator` | `edge-evaluator/src/eval.rs` | operators, written as the port decides: a status per policy, ids instead of positions, casts to 64 bits |
| `EdgeParity` | both evaluators side by side | the states of `Consultation` |
| `Tenants` | `onboarding/tenants.py` over `PgTenantStore` | the tenant, its keys and roles, handlers between store calls |
| `Onboarding` | `onboarding/service.py`, `drafts.py`, `sources.py` | drafts, sources, what each handler has read, assembled bundles |
| `Authoring` | `bundle/schema.py`, `replay/cases.py` | the vocabulary of bundles and golden cases |
| `Rivanly`, `Higgsfield` | `bundle/seed_rivanly.py`, `seed_higgsfield.py` | the two reference bundles, policy by policy, and their golden cases |
| `Replay` | `ReplayEngine.run` as a function | operators: scores, flips, errors, on top of `Evaluator` |
| `ReferenceTenant` | requests to the reference tenants and candidates in the workbench | the facts of a `request` arrive one at a time; a `candidate` lacks a policy or a workflow |
| `Seeding` | `v1_container.py` over `BundleLifecycle` | processes that come up call by call, stop, come up again; an owner who replays and publishes |
| `EventBus` | `core/sse.py` | a queue per job, listeners that come, wait and leave |
| `LlmClient` | `core/llm.py` | slots, attempts and sleeps of the calls of one process |
| `BrainStore` | `schema.sql`, the store calls of `write_brain` | the tables of one company |
| `CompilePipeline` | `engine/graph.py`, `engine/nodes/*` | one graph per job, over `EventBus`, `LlmClient` and `BrainStore` |

`MC*` modules hold the instances, and where a property speaks of calls that
follow one another also the variable that says so; `*Proofs` hold the theorems.
`EvaluatorProofs` is about everything that decides: the evaluator, its port and
the reference bundles. An operator whose
comment begins "Mutant of" is a plausible bug of its neighbour, kept to show
that the properties notice it; no specification uses one.

### Correspondence and abstraction

`pc` names the store call a handler makes next; its other registers are the
local variables of the Python function at that point. A guard is the code's
condition or early return, and an action with a `Refused`, `NoOp`, `Conflict`
or `Existing` in its name is the corresponding error or early return. `map` in
`PROJECT.json` gives the lines of every definition.

* Hashes are injective: `compute_hash` in `LedgerStore` is the record of what
  is hashed, a bundle's content hash is a model value. SHA-256 and canonical
  JSON are what justifies this.
* One company at a time. Every table is keyed by company and no operation
  reads another one's rows. A client's idempotency key is taken never to begin
  with `adjudication:`.
* Evaluation is a constant operator in `Ledger` (a pure function), and the
  whole function in `Evaluator`. There numbers are integers; NaN, lists and
  the wording of explanations are left out. A bundle has one workflow:
  overrides never cross workflows (`Bundle._integrity`).
* `Onboarding` sees a policy as id, workflow, uses of facts and validity, and a
  span as its source and whether the excerpt is exact. Overrides between
  drafts, creation times and issue texts are left out. A draft that the
  extraction proposes enters as one that is saved.
* `Tenants` knows one company, and assumes that no key of it comes from the
  environment (`KERNL_API_KEYS`); bootstrap keys cannot be revoked at all.
* `EdgeEvaluator` and `Evaluator` take numbers that a double holds exactly: both
  sides compare doubles, so rounding is the same on both. A condition holds a
  value of its type.
* `Rivanly` and `Higgsfield` keep every policy, condition and golden case;
  evidence, rationales and wording are left out. Durations are in half hours.
  The cases of the later expansion (`seed_rivanly.py:591-635`) stand with the
  others of their workflow.
* `Seeding` has one company and Postgres. What is in a case is left out: which
  cases the reference bundle fails is chosen at the start. The owner beside the
  seeding processes acknowledges only replays of content of their own, where the
  API takes any run: an owner who overrules a failed replay of the reference
  bundle itself would make it live with that failure, which is what
  acknowledging is for, and `SeededClean` is about what the seeding publishes.
* In `CompilePipeline` what the model answers is a list that is empty, has
  items, or repeats an identifier (which the entities' table refuses). An
  extractor makes one call where the code makes one per batch; the cache of
  answers is left out. Jobs run in processes of their own, which is how the
  repository starts them (`backend/test_compile.py`), so each has its own event
  bus and slots. `event_generator` has no caller in the repository: listeners
  are anybody. Whether anybody inserted the row of a run in `compile_runs`
  beforehand is chosen at the start (`recorded`): nothing in the repository does,
  no table refers to it, and the update that completes the run succeeds without
  one. Stage events with only computation between them are one event.
  Somebody who sets `is_current` by hand, to go back to an older file, is left
  out. `write_brain` never gives up the loop of its process, so that listeners move
  only before and after it, but its calls interleave with those of other jobs.
* `PgConn` has `PgSourceStore` for all the stores: the only adapter whose
  method calls another method of the store within its transaction.
* Signing and timestamps are data that no step depends on, except the order of
  replay runs, which is the order of their positions.

## 3. Runs

Passing runs, with their bounds:

| run | instance | shows |
|---|---|---|
| `ledger` | 2 handlers, 2 keys, 2 bundles, 3 event ids, 2 retries | ledger safety and the refinement of `AtomicLedger` |
| `bundles` | 2 handlers, 3 records, 2 contents, 3 runs, stops anywhere | the gate, history, one record per content, refinement of `PublishGate`; exactly one published record while calls follow one another |
| `escalation` | 2 handlers, 2 decisions sharing a case id, 2 actions, 1 stop, approvers who repeat | write-ahead, provenance, escalation of every answered decision without a stop, closure |
| `evaluator` | all bundles of 3 policies over 2 facts with conditions, overrides and priorities; all facts, one beyond the port's integers and one undeclared; a caller who answers | the decision semantics, the same answer from the Rust port, and that asking ends |
| `pg_conn` | 2 threads, 2 documents, 3 calls each, 2 drops, all failures | isolation, durability, and which calls can hang |
| `tenants` | 2 handlers, 4 keys, 1 stop | revocation lasts; no lockout and complete deletion while calls follow one another |
| `onboarding` | 2 reviewers on 1 draft, or 1 reviewer on 2 drafts; 4 policies, 2 citations | citations, acceptance, the cached flag and assembly survive stale writes; no citation is lost while edits follow one another |
| `reference` | both real bundles with all their golden cases; requests over the values at the boundaries of the conditions; every candidate that lacks a policy or a workflow | the golden sets notice every loss; the refund limits, the fraud screen and the expense ladder have no way round |
| `seeding` | 2 processes, one of a release with one more case, 1 stop, an owner with 2 replays; 3 records, 4 runs | seeds are live only after a clean replay, a live bundle is kept, a process that is up is complete, every start comes up |
| `compile` | 2 jobs nobody listens to, or 1 job with 2 listeners; 1 slot, 2 + 1 retries, 1 kill, any store call fails or goes unacknowledged | streams that say complete, and complete runs, stand for whole brains, readers agree, a single listener loses nothing, everything ends |

Some promises hold only as long as calls neither overlap nor stop half-way.
They are checked inside the racing instance, not in a smaller one: the MC
module adds a variable `alone`, which is true until two handlers have been busy
at once or one has stopped, and the property is `alone => P` (the names end in
`Alone`). So the states before the first overlap are checked with everything
that one caller after another can do.

Why the bounds suffice. Every race found or excluded here is one of two
handlers on one or two objects; a third handler repeats what the second does.
Two retries are the least number at which a retry can succeed and can be the
last. Three records with two contents let one bundle replace another and the
first come back. Three policies are needed for an override chain and for a
cycle that no pair shows; two priorities and two lengths of conditions give
every relation between two policies. Four keys let an owner rotate twice.
Three calls of each of two threads let a thread fail, be overtaken and return;
two drops let the connection be lost again after it was replaced.
One slot makes the calls of a job wait for one another, and one retry of either
kind is the least that can succeed and be the last. The values in `reference`
lie at the thresholds of the conditions and of the limits, so that requests
fall on either side of them. Seeding needs two releases, since a process can be
incomplete only towards a case that the other does not ship. Deadlock is checked
except where a bound stops all handlers (identifiers, calls and drops used up) or
the specification may stop because every caller has what it wants (a compile
that has ended stays ended); `CHECK_DEADLOCK FALSE` says where. Symmetry is used
in safety runs only, over values that are only compared.

Runs that end in a counterexample, each a place where the code departs from
what the repository says of it (`findings` has the quotes):

| run | what happens |
|---|---|
| `escalation_stop` | a handler stops between recording a decision and opening its escalation; the retry does not open it |
| `compile_unwarned` | an extraction that came back empty leaves a complete run without a warning, because `extraction_warnings` looks for keys the state does not have |

Other departures that the models have. Where a property is named, it holds with
the restriction in its name or its second disjunct, and fails without it:

* Overlapping publish/activate calls, or one that stops half-way, leave two
  records published or a pointer to a retired one
  (`ExactlyOnePublished`; `lifecycle.py:5` promises exactly one).
* Of two resolvers that overlap the second closes the escalation with an action
  that is not the one in the ledger's adjudication (the first resolver's).
* Two owners who revoke the last two owner keys at once both pass the check
  (`Administrable`; `tenants.py:176` and `docs/RETENTION_POLICY.md:63` exclude it).
* `PgSourceStore.add` of a document that is already stored waits for its own
  lock, and so does everybody after it (first disjunct of `Wedged`;
  `sources.py:42` says the call is idempotent).
* A failed connect leaves the lock acquired (`_Tx.__enter__` raises after
  `acquire`, so `__exit__` never runs): the second disjunct of `Wedged`, and
  with `Duplicates = FALSE` and `Unreachable = TRUE` the only one.
* `PurgeComplete` fails when a key is issued while its tenant is deleted
  (lookup and insert are separate, `api_keys` has no foreign key).
* `EvidencePreserved` fails when an edit from a stale read writes a citation
  away that another reviewer attached in between.
* A resolver that stops after promoting can never be retried with promotion:
  `ResolvedUnlessTaken` needs its second disjunct even where every decision
  has a case identifier of its own, since the case that took it may be the
  resolver's.
* Two processes that seed at once can replace what the other, or the owner,
  has just published (`LiveBundleKept` is about one that comes up alone;
  `v1_container.py:139-146` speaks of any). A newer release's case is added to
  the corpus under a live bundle, but the bundle is not replayed on it.
* The higgsfield expense ladder lets a new SaaS subscription below 2501 dollars
  through without the CFO, although its own policy routes it there: the rung
  has more conditions, and specificity precedes priority. In rivanly a P0 of an
  enterprise customer in an outage pages on-call although "during outages,
  incident comms replace triage". Higgsfield's fraud screen loses to the annual
  plan's low-usage rule for a purchase older than its account, which is why
  `FraudScreened` asks for facts that can be true.
* The plan that `evaluator.py:10` cites puts authority between priority and
  escalation (`docs/V1_EXECUTION_PLAN.md:120`). The evaluator, its docstring
  (`evaluator.py:17-21`) and the port have no such step: policies that are tied
  on priority conflict whatever their `authority` says, and `DecidesByPrecedence`
  states the order of the docstring. The authority of a policy is only copied
  into the outcome (`evaluator.py:415`) and is left out of the models.
* Nothing in the repository inserts the row that `write_brain` completes
  (`save_compile_run` has no caller, the route that did answers 410,
  `test_compile.py` and `test_higgsfield.py` start a job under a fresh id). The
  update then matches no row and raises nothing (`write_brain.py:190-198`): the job
  emits `pipeline_complete` and no run is complete, so its warnings are stored
  nowhere; those of empty lists are in the stream, a failed insert of the drafts
  is only printed. `CompleteIsWhole` asks for a completed run only of jobs whose
  run is `recorded`, and speaks of drafts only where a run is complete.
* Thresholds at or beyond the ends of 64 bits are compared with a saturated
  number in the port (`EdgeAgrees` is about bundles without one), a boolean
  condition with a value of another type panics there, and a string condition
  that holds a float may print it differently.
* A compile whose source directory is missing reports an error, goes on,
  replaces the brain by an empty one and completes. A failed write leaves no
  current brain, while the agent serves the latest one. Repeated entity ids
  fail after the new file has become current. A node that raises emits no
  terminal event, so its listeners wait for their time-out and its run never
  ends. A listener that leaves deletes the queue under another one, and an event
  after that makes a new queue that nobody deletes. A completion whose
  acknowledgement is lost is reported as an error of a complete run.

### Fairness

Weak fairness of a thread's next step (`Step(t)`): the operating system
schedules every runnable thread, and a store call returns. It does not demand
that a crash, a drop or a new request ever happens. `PgConn` waits for a lock
under weak fairness only; its calls end because each thread makes finitely many
(`MaxCalls`), so that no thread is overtaken for ever; Python's
`threading.Lock` promises no order. `ResolvedUnlessTaken` assumes strong
fairness of `Approve(k)`: an approver keeps repeating a ruling on an escalation
that stays in the inbox; crashes are bounded (`MaxStops`), since nothing can be
promised where every attempt crashes. `AskingEnds` assumes a caller that brings
a fact it was asked for. `ComesUp` assumes that the next step of a process that
comes up is taken (requests keep arriving, and each tries again) while stops are
bounded (`MaxStops`). `Ends` assumes that the loop of each job turns, that the
model's server answers or the client's 120 seconds pass, that a wait for an
event ends after 300 seconds, and that the database answers; a killed process
has no more steps. `Ledger` has no liveness property of its own:
`ConflictMeansProgress` says that a handler goes round its loop only because
another one appended, and `AppendConflict` ends the loop when the retries are
used up.

## 4. Proofs

Every theorem is either of a specification that a run checks, without its
fairness, or of the operators that such a specification is built from
(`TamperEvident`, `OrderIrrelevant`, `SummaryAddsUp`, `CleanSummaryMeansIt`). It
holds for every value of the constants under the named assumptions, which TLC
evaluates on each passing run:

* that `None` is nothing else, that bounds are naturals, that a compile has a
  slot to call with, and that given data has its type (`LedgerAssumptions`,
  `BundleAssumptions`, ..., `NoneIsNoRow`, `WarningsAssumption`,
  `BusAssumptions`, `CompileAssumptions`);
* of bundles only what the schema validates before one is stored (`Integrity`
  in `ConsultationAssumptions`), and for the port that a double and a 64-bit
  integer are numbers (`EdgeAssumptions`);
* of the reference tenants that a sample has the type its fact declares, and that
  the strings the bundles compare with are stripped and in lower case already,
  which one reads off `seed_*.py` (`ReferenceAssumptions`).

### What is proved, and along which argument

* **`LedgerProofs`**: type correctness, the safety properties and
  `RefinesAtomicLedger`. The chain property is not inductive: that an append
  which passes the head check extends the chain needs to know what a thread
  that sealed an event knew. `LedgerInv` adds it: the event was sealed against
  a head the stream had at some length since the call began
  (`SealedAgainstPastHead`), its identifier is still unused (`IdsUnique`), its
  content is already right (`PendingContentSound`), and everybody was told only
  of events that exist (`AnswersRecorded`). Each action then preserves each part.
  Two more theorems say what the chain is for. `NothingRewritten`: the program
  itself never touches a recorded event. `TamperEvident`: nobody else can without
  notice; if a head that was noted once occurs in a stream that verifies, the
  events up to it are those of then, by going backwards from the head, whose hash
  fixes the content and the predecessor's hash.
* **`BundleProofs`**, the lifecycle: `ReplayGated` is about the pointer, but
  handlers write back old snapshots, so the invariant is about history: every
  record that was ever published names its gate, in the store and in every
  handler's registers (`HistoryGated`, `HandlersGated`). `HistoryKept` and
  `ImplementsGate` follow. `ContentRegistersOnce` rests on the unique index
  (`UniqueHash`, Postgres) and on updates that keep a record's content.
  `OnePublishedAlone` holds while one call is under way, so its invariant says
  what that call has done of its change so far (`Progress`: which records are
  published before the first status is written, between the two, and before the
  pointer follows).
* **`BundleProofs`**, the bootstrap: `SeedingInv` is the lifecycle's invariant
  and, for each process, what each stage of its start may rely on (`ProcessInv`:
  the cases are stored before the replay lists them, the replay that is checked
  evaluated them, the draft has the seed's content), and that an acknowledged
  replay of the seed was clean. It holds for any number of processes, of
  any releases, that race and stop; `LiveBundleKeptOneByOne` adds for processes
  that come up one after another that none seeds while a bundle is live.
  `SeedingImplementsGate`: the bootstrap is an implementation of `PublishGate` like
  the calls of an owner. `SeedingTakesNothing` is the action property of all its
  steps. `SeedingNeverBlocked` is what `Seeding` takes for granted where it gives
  the publish of a process no step for a closed gate: acknowledged runs stay
  (`GatesKept`), and `PublishesSeed` says of each stage after the acknowledgement
  that the record in hand has such a run.
* **`EscalationProofs`**: `WriteAhead` and `PromotedWithProvenance`, from what a
  resolver between its steps may rely on (`RulingRecorded`), and
  `EscalatedUnlessStopped`, which is inductive once it is stated for recorded
  decisions and not only for answered ones (`EveryDecisionEscalated`): either the
  escalation exists, or a handler that has not stopped is on its way to open it.
* **`EvaluatorProofs`**, the evaluator: `evaluate` does what its docstring
  says (`DecisionsByPrecedence`), for bundles of any length. The code filters
  successively (overrides, specificity, priority); the docstring compares
  policies one with another. The bridge is that finite sets have greatest
  elements, that acyclic overrides leave somebody standing (by well-founded
  induction on the rank), and that the filters keep exactly the undefeated.
  `DecisionsTyped` contains that `survivors[0]` never fails. `TracesComplete`
  says that the trace accounts for every matched policy: each one that is out has
  exactly one reason (`OneReasonEach`), which names another matched policy
  (`EliminatedByAnother`), and at most the blocked winner has none.
  `OnlyProofDefeats` is the action property: with more facts known, a policy
  loses only to one that has been proven. `OrderIrrelevant`: two bundles with the
  same policies in a different order decide alike, since each filter keeps the
  same policies (`SamePositions`), and `survivors[0]` decides only where it is the
  one survivor; a tie names them all. `QuestionsCanBeAnswered` and
  `AnswersBringCloser` are the safety half of `AskingEnds`: who is asked can
  answer, and each answer leaves fewer facts unknown.
* **`EvaluatorProofs`**, the replay: the counts that an owner reads and the
  bootstrap publishes on. `SummaryAddsUp`: passed, failed and erroneous cases
  are all the cases, each counted once. `CleanSummaryMeansIt`: a count of zero says
  of every single case that it is decided as expected, or as by the live bundle.
* **`EvaluatorProofs`**, the port: `EdgeExact`, it decides like the reference for
  every bundle, all facts and any width of integers, as long as no threshold
  touches the ends of the range. A cast that saturates keeps the order to every
  threshold inside; so conditions, then statuses, then survivors (by id on one
  side, by position on the other) are the same; and since somebody always
  survives, the order in which the two ask their questions does not matter.
* **`EvaluatorProofs`**, the reference bundles: `RefundsAlwaysLimited` and
  `GatesAlwaysHold`, for requests with any numbers and strings, not only the
  samples at the boundaries. The only invariant is that a request is typed
  (`RequestOK`); the rest is about the bundles. A policy approves only if it is
  the one survivor and nothing with authored priority is open (`ApprovedBy`), and
  a matched policy that nothing overrides, beats or blocks decides
  (`DecidedBy`); so each limit comes down to the overrides, lengths and priorities
  of the policies in the way. The cut-off after 60 days, for one, needs all four
  of its override edges, since three of the policies it defeats are more specific.
* **`PgConnProofs`**: isolation and durability, from the discipline of the lock:
  a thread inside a transaction holds it, whatever drops. The safety half of
  `CallsEndUnlessWedged`: `HolderCanStep`, where the connection is not wedged the
  holder of the lock waits for nothing and the others only for it, since the
  connection is never closed under a transaction (`ConnectedInside`); and
  `CallsHaveAnEnd`, each step leaves a call fewer steps to go, a bound that no
  other thread and no drop raises (`StepsLeft`).
* **`TenantsProofs`**: a revoked key never works again, for any races;
  `AdministrableAlone` and `PurgeCompleteAlone`, from what the one request under
  way has already looked up (`RequestInv`: who counted two owners still leaves
  one when it revokes).
* **`OnboardingProofs`**: the state consists of rows that somebody may overwrite
  from a stale copy, so the invariant is about rows wherever they are, in the
  store or in a handler (`SoundRow`); sources only ever grow.
  `AlwaysPreservedAlone` is about the opposite case, in which what a handler has
  read is what is stored (`Keeping`).
* **`CompileProofs`**: `CompileInv` says per stage of `write_brain` what is
  stored and said by then and that a recorded run is complete by the end
  (`JobInv`), and that a current file is the last one (`CurrentIsLatest`);
  `ReadersAlwaysAgree` and `CompleteAlwaysWhole` follow for any number of jobs,
  recorded or not, listeners, failed calls and kills. `NothingLost` is about a
  job's event queue: together with what its one listener has heard it holds the
  job's last events, all of them if it is the job's first queue (`StreamInv`).
  The safety half of `Ends` is about the calls: `CallsBounded`, a job holds at
  most its slots and attempts no call more often than its retries allow, and
  `NoJobStuck`, a compile that has not ended can go on. Its invariant
  (`CallsInv`) is that an extractor that has not returned has a call under way,
  so that the barrier waits for nobody who waits for nothing, and that slots
  are held only by calls, which end of themselves.

The inductive invariants were found with TLC and are proved; the runs check the
properties they imply.

### What is only model-checked

* The liveness properties `ResolvedUnlessTaken`, `AskingEnds`,
  `CallsEndUnlessWedged`, `ComesUp` and `Ends`: fairness and `ENABLED` are beyond
  the prover. Of three of them the reason is proved, as above: that something can
  always be done, stated as a condition on the state (`CanStep`, `CanGoOn`) and not
  with `ENABLED`, and for two of them also that what is done brings the end nearer.
* `GoldenSetGuards`: it is about the replay of two given lists of cases on a
  finite set of candidates, which TLC evaluates in full. There is no larger
  instance a proof would cover, except other functions that normalise strings.

## 5. Not modelled

* `bundle/canonical.py`, `signing.py`, `diff.py`: pure functions of one bundle.
  The models take hashes as injective, which is what canonical JSON and SHA-256
  are for; nothing decides by a signature or a diff. Of `converter.py` only
  `extraction_warnings` and the creation of drafts are modelled.
* The legacy decision runtime (`runtime/brain_agent.py`, `constraint_resolver.py`
  and what they call): its routes answer 410, and its answers are scores over
  embeddings and a language model. Only the brain it loads is modelled.
* `onboarding/extract.py`: a language model proposes; what it may propose enters
  `Onboarding` as policies to save. Of the compile, prompts, chunk sizes,
  discovered metadata, the cache of answers and `import_skills_file`.
* Authentication, the bootstrap keys of the environment, listings,
  serialization, metrics, logs, the console, the start of the stores from the
  environment: no state that a property here is about.
* Cryptography: hashes are injective and signatures are not looked at.

## 6. Running

    tlc -workers 2 -config MCLedger.cfg MCLedger
    tlapm LedgerProofs.tla

Every run takes less than three minutes on two cores; the proofs of a module
take a few minutes.
