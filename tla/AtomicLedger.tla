---------------------------- MODULE AtomicLedger ----------------------------
(***************************************************************************)
(* What DecisionService promises its callers, whatever happens between its *)
(* reads and its writes: recording is one atomic get-or-append on an       *)
(* append-only log.  An entry is recorded at most once per idempotency     *)
(* key, a caller is only ever told of an entry that is in the log, and no  *)
(* two callers are told that they created it (repeated is never true).     *)
(*   - backend/ledger/service.py, decide: "If the idempotency key was      *)
(*     already used, the ORIGINAL event is returned unchanged";            *)
(*   - backend/ledger/store.py, append.                                    *)
(***************************************************************************)
EXTENDS Naturals, Sequences

CONSTANTS
  Contents,        \* what a caller may ask to record
  EventIds         \* event identifiers

VARIABLES
  log,             \* recorded entries, oldest first
  answers          \* what callers were told: [key, event_id, created, repeated]

vars == <<log, answers>>

Entry == [content : Contents, event_id : EventIds]

Init ==
  /\ log = <<>>
  /\ answers = {}

Answer(e, created) ==
  [key      |-> e.content.idempotency_key,
   event_id |-> e.event_id,
   created  |-> created,
   repeated |-> FALSE]

(* A new key: one entry is appended, the last one of the new log.  The     *)
(* caller hears of it, unless the acknowledgement is lost on the way.      *)
Record ==
  /\ Len(log') = Len(log) + 1
  /\ LET e == log'[Len(log')]
     IN  /\ e \in Entry
         /\ log' = Append(log, e)
         /\ \A i \in DOMAIN log :
              /\ log[i].content.idempotency_key # e.content.idempotency_key
              /\ log[i].event_id # e.event_id
         /\ answers' \in {answers, answers \cup {Answer(e, TRUE)}}

(* A used key: the caller is given the original entry. *)
Recall(i) ==
  /\ answers' = answers \cup {Answer(log[i], FALSE)}
  /\ UNCHANGED log

Next ==
  \/ Record
  \/ \E i \in DOMAIN log : Recall(i)

Spec == Init /\ [][Next]_vars
=============================================================================
