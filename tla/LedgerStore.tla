---------------------------- MODULE LedgerStore ----------------------------
(***************************************************************************)
(* The decision ledger of one company as a value: sealed events, the hash  *)
(* chain, and what the store's lookups and its append return               *)
(* (backend/ledger/events.py, backend/ledger/store.py and their Postgres   *)
(* twin PgLedgerStore in backend/stores_pg.py).                            *)
(*                                                                         *)
(* Every index of both stores is keyed by company_id and the Postgres      *)
(* append takes a per-company advisory lock, so the streams of two         *)
(* companies never meet: one stream stands for any of them.                *)
(*                                                                         *)
(* An event is a record                                                    *)
(*   [content, event_id, prev_event_hash, event_hash]                      *)
(* whose content holds the fields a caller of the service determines.      *)
(***************************************************************************)
EXTENDS Naturals, Sequences

CONSTANT
  None             \* Python's None: no previous event, no linked event

(***************************************************************************)
(* SHA-256 over the canonical JSON of everything but event_hash, as a free *)
(* constructor: two bodies have the same hash only if they are the same    *)
(* body.  Timestamps and actors are part of the body in the code and are   *)
(* left out here; event_id already makes bodies distinct.                  *)
(***************************************************************************)
compute_hash(e) == <<"sha256", e.content, e.event_id, e.prev_event_hash>>

sealed(content, id, prev) ==
  [content         |-> content,
   event_id        |-> id,
   prev_event_hash |-> prev,
   event_hash      |-> <<"sha256", content, id, prev>>]

verify(e) == e.event_hash = compute_hash(e)

(* What the store answers about a stream s. *)
chain_head(s) == IF s = <<>> THEN None ELSE s[Len(s)].event_hash

HasKey(s, key) == \E i \in DOMAIN s : s[i].content.idempotency_key = key

by_idempotency_key(s, key) ==
  s[CHOOSE i \in DOMAIN s : s[i].content.idempotency_key = key]

(* GET /v1/ledger/verify: every event is sealed and names its predecessor. *)
verify_chain(s) ==
  \A i \in DOMAIN s :
    /\ verify(s[i])
    /\ s[i].prev_event_hash = IF i = 1 THEN None ELSE s[i - 1].event_hash

(* append(event): which of its three results it gives on stream s. *)
AppendReturnsExisting(s, e) == HasKey(s, e.content.idempotency_key)

AppendConflicts(s, e) ==
  /\ ~ HasKey(s, e.content.idempotency_key)
  /\ e.prev_event_hash # chain_head(s)

(* Mutant of AppendInserts: the head is not checked. *)
AppendInsertsAnywhere(s, e) ==
  verify(e) /\ ~ HasKey(s, e.content.idempotency_key)

AppendInserts(s, e) ==
  /\ verify(e)
  /\ ~ HasKey(s, e.content.idempotency_key)
  /\ e.prev_event_hash = chain_head(s)

EventIdsOf(s) == {s[i].event_id : i \in DOMAIN s}
=============================================================================
