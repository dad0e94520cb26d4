---------------------------- MODULE LedgerProofs ----------------------------
(***************************************************************************)
(* Proofs about Ledger, for any number of threads, keys, bundles and       *)
(* retries.                                                                *)
(***************************************************************************)
EXTENDS Ledger, WellFoundedInduction, TLAPS

(* Sequences whose elements are not drawn from a set given in advance. *)
IsSeq(s) == s \in Seq({s[i] : i \in DOMAIN s})

(* Appending to a sequence adds one last element and keeps the others. *)
LEMMA AppendFacts ==
  ASSUME NEW s, IsSeq(s), NEW e
  PROVE  /\ IsSeq(Append(s, e))
         /\ Len(s) \in Nat
         /\ DOMAIN s = 1 .. Len(s)
         /\ Len(Append(s, e)) = Len(s) + 1
         /\ DOMAIN Append(s, e) = 1 .. Len(s) + 1
         /\ \A i \in 1 .. Len(s) : Append(s, e)[i] = s[i]
         /\ Append(s, e)[Len(s) + 1] = e
  <1> DEFINE S == {s[i] : i \in DOMAIN s}
             T == S \cup {e}
             r == Append(s, e)
  <1>1. s \in Seq(T)
    <2>1. s \in Seq(S)
      BY DEF IsSeq
    <2>2. S \subseteq T
      OBVIOUS
    <2> HIDE DEF S, T
    <2> QED BY <2>1, <2>2
  <1>2. /\ r \in Seq(T)
        /\ Len(s) \in Nat
        /\ DOMAIN s = 1 .. Len(s)
        /\ Len(r) = Len(s) + 1
        /\ DOMAIN r = 1 .. Len(s) + 1
        /\ \A i \in 1 .. Len(s) : r[i] = s[i]
        /\ r[Len(s) + 1] = e
    <2> HIDE DEF S, T
    <2>1. e \in T
      BY DEF T
    <2> QED BY <1>1, <2>1
  <1>3. r \in Seq({r[i] : i \in DOMAIN r})
    <2> DEFINE R == {r[i] : i \in DOMAIN r}
    <2> HIDE DEF r, T
    <2>1. \A i \in 1 .. Len(r) : r[i] \in R
      BY <1>2
    <2> HIDE DEF R
    <2>2. r \in [1 .. Len(r) -> R]
      BY <1>2, <2>1
    <2>3. Len(r) \in Nat
      BY <1>2
    <2>4. r \in Seq(R)
      BY <2>2, <2>3
    <2> QED BY <2>4 DEF R
  <1> QED BY <1>2, <1>3 DEF IsSeq

(* The lookup by key returns a recorded event with that key. *)
LEMMA LookupFacts ==
  ASSUME NEW s, NEW key, HasKey(s, key)
  PROVE  \E i \in DOMAIN s :
           /\ by_idempotency_key(s, key) = s[i]
           /\ s[i].content.idempotency_key = key
  BY DEF HasKey, by_idempotency_key

-----------------------------------------------------------------------------
(* Type correctness. *)

LEMMA FinishTyped ==
  ASSUME TypeOK, NEW t \in Threads, Finish(t)
  PROVE  /\ pc' \in [Threads -> {"idle", "lookup", "seal", "append"}]
         /\ DOMAIN content' = Threads
         /\ DOMAIN event' = Threads
         /\ attempts' \in [Threads -> 0 .. MAX_CHAIN_CONFLICT_RETRIES - 1]
         /\ base' \in [Threads -> Nat]
         /\ pc'[t] = "idle" /\ attempts'[t] = 0
         /\ \A u \in Threads \ {t} :
              /\ pc'[u] = pc[u]
              /\ content'[u] = content[u]
              /\ event'[u] = event[u]
              /\ attempts'[u] = attempts[u]
              /\ base'[u] = base[u]
  BY LedgerAssumptions DEF TypeOK, Finish, Goto

AnswerSet ==
  [key : IdempotencyKeys, event_id : EventIds, created : BOOLEAN, repeated : BOOLEAN]

LEMMA RespondTyped ==
  ASSUME TypeOK, NEW t \in Threads, NEW e, NEW created \in BOOLEAN,
         IsEvent(e), Respond(t, e, created)
  PROVE  answers' \subseteq AnswerSet
  <1>1. e.content.idempotency_key \in IdempotencyKeys /\ e.event_id \in EventIds
    BY DEF IsEvent, Contents
  <1>2. (created /\ ToldCreated(e.content.idempotency_key)) \in BOOLEAN
    OBVIOUS
  <1>3. answers \subseteq AnswerSet
    BY DEF TypeOK, AnswerSet
  <1> DEFINE r == [key      |-> e.content.idempotency_key,
                   event_id |-> e.event_id,
                   created  |-> created,
                   repeated |-> created /\ ToldCreated(e.content.idempotency_key)]
  <1>4. answers' = answers \cup {r}
    BY DEF Respond
  <1>5. r \in AnswerSet
    <2> DEFINE b == created /\ ToldCreated(e.content.idempotency_key)
    <2>1. b \in BOOLEAN
      BY <1>2
    <2> HIDE DEF b
    <2> QED BY <1>1, <2>1 DEF AnswerSet
  <1> HIDE DEF r
  <1> QED BY <1>3, <1>4, <1>5

(* A thread that ends its call while the ledger keeps its type. *)
LEMMA FinishTypeOK ==
  ASSUME TypeOK, NEW t \in Threads, Finish(t),
         IsSeq(stream'), \A i \in DOMAIN stream' : IsEvent(stream'[i]),
         active' = active,
         answers' \subseteq AnswerSet
  PROVE  TypeOK'
  BY FinishTyped DEF TypeOK, IsSeq, AnswerSet

LEMMA InsertTyped ==
  ASSUME TypeOK, NEW t \in Threads, pc[t] = "append",
         stream' = Append(stream, event[t])
  PROVE  IsSeq(stream') /\ \A i \in DOMAIN stream' : IsEvent(stream'[i])
  <1>1. IsSeq(stream) /\ IsEvent(event[t]) /\ \A i \in DOMAIN stream : IsEvent(stream[i])
    BY DEF TypeOK, IsSeq
  <1> QED BY <1>1, AppendFacts

LEMMA TypeStep == TypeOK /\ [Next]_vars => TypeOK'
  <1> SUFFICES ASSUME TypeOK, [Next]_vars PROVE TypeOK'
    OBVIOUS
  <1>0. CASE UNCHANGED vars
    BY <1>0 DEF vars, TypeOK
  <1>1. ASSUME NEW b \in Bundles, SetActive(b)
        PROVE  TypeOK'
    BY <1>1 DEF SetActive, TypeOK
  <1>2. ASSUME NEW t \in Threads, NEW k \in ClientKeys, NEW f \in Facts, Decide(t, k, f)
        PROVE  TypeOK'
    <2> DEFINE c == [event_type      |-> "decision",
                     idempotency_key |-> <<"client", k>>,
                     facts           |-> f,
                     outcome         |-> Evaluate(f, active),
                     bundle_hash     |-> active,
                     linked_event_id |-> None]
    <2>1. c \in Requests
      BY <1>2, LedgerAssumptions DEF Decide, TypeOK, Requests, IdempotencyKeys
    <2>2. /\ pc[t] = "idle"
          /\ pc' = [pc EXCEPT ![t] = "lookup"]
          /\ content' = [content EXCEPT ![t] = c]
          /\ base' = [base EXCEPT ![t] = Len(stream)]
          /\ UNCHANGED <<stream, active, event, attempts, answers>>
      BY <1>2 DEF Decide, Begin, Goto
    <2>3. Len(stream) \in Nat
      BY AppendFacts DEF TypeOK, IsSeq
    <2> HIDE DEF c
    <2> QED BY <2>1, <2>2, <2>3 DEF TypeOK
  <1>3. ASSUME NEW t \in Threads, NEW i \in DOMAIN stream, NEW o \in Outcomes,
               RecordAdjudication(t, i, o)
        PROVE  TypeOK'
    <2> DEFINE c == [event_type      |-> "adjudication",
                     idempotency_key |-> <<"adjudication", stream[i].event_id>>,
                     facts           |-> stream[i].content.facts,
                     outcome         |-> o,
                     bundle_hash     |-> stream[i].content.bundle_hash,
                     linked_event_id |-> stream[i].event_id]
    <2>1. c \in Contents
      BY DEF TypeOK, IsEvent, Contents, IdempotencyKeys
    <2>2. /\ pc[t] = "idle"
          /\ pc' = [pc EXCEPT ![t] = "seal"]
          /\ content' = [content EXCEPT ![t] = c]
          /\ base' = [base EXCEPT ![t] = Len(stream)]
          /\ UNCHANGED <<stream, active, event, attempts, answers>>
      BY <1>3 DEF RecordAdjudication, Begin, Goto
    <2>3. Len(stream) \in Nat
      BY AppendFacts DEF TypeOK, IsSeq
    <2> HIDE DEF c
    <2> QED BY <2>1, <2>2, <2>3 DEF TypeOK
  <1>4. ASSUME NEW t \in Threads, LookupHit(t)
        PROVE  TypeOK'
    <2> DEFINE key == content[t].idempotency_key
               e == by_idempotency_key(stream, key)
    <2>1. HasKey(stream, key) /\ Respond(t, e, FALSE) /\ UNCHANGED <<stream, active>>
      BY <1>4 DEF LookupHit
    <2>2. IsEvent(e)
      BY <2>1, LookupFacts DEF TypeOK
    <2> HIDE DEF e
    <2>3. answers' \subseteq AnswerSet
      BY <2>1, <2>2, RespondTyped
    <2>4. Finish(t)
      BY <2>1 DEF Respond
    <2>5. IsSeq(stream') /\ (\A i \in DOMAIN stream' : IsEvent(stream'[i]))
      BY <2>1 DEF TypeOK, IsSeq
    <2> QED BY <2>1, <2>3, <2>4, <2>5, FinishTypeOK
  <1>5. ASSUME NEW t \in Threads, LookupMiss(t)
        PROVE  TypeOK'
    <2>1. CASE content[t].outcome = Invalid
      BY <1>5, <2>1, FinishTypeOK DEF LookupMiss, TypeOK, IsSeq, AnswerSet
    <2>2. CASE content[t].outcome # Invalid
      <3>1. content[t] \in Contents
        BY <1>5, <2>2 DEF LookupMiss, TypeOK, Requests, Contents
      <3>2. /\ pc' = [pc EXCEPT ![t] = "seal"]
            /\ UNCHANGED <<stream, active, content, event, attempts, answers, base>>
        BY <1>5, <2>2 DEF LookupMiss, Goto
      <3> QED BY <3>1, <3>2 DEF TypeOK
    <2> QED BY <2>1, <2>2
  <1>6. ASSUME NEW t \in Threads, Seal(t)
        PROVE  TypeOK'
    <2> DEFINE e == sealed(content[t], CHOOSE id \in FreshIds : TRUE, chain_head(stream))
    <2>1. IsEvent(e) /\ e.content = content[t]
      BY <1>6 DEF Seal, TypeOK, IsEvent, verify, compute_hash, sealed, FreshIds
    <2>2. /\ pc[t] = "seal"
          /\ pc' = [pc EXCEPT ![t] = "append"]
          /\ event' = [event EXCEPT ![t] = e]
          /\ UNCHANGED <<stream, active, content, attempts, answers, base>>
      BY <1>6 DEF Seal, Goto
    <2> HIDE DEF e
    <2> QED BY <2>1, <2>2 DEF TypeOK
  <1>7. ASSUME NEW t \in Threads, AppendExisting(t)
        PROVE  TypeOK'
    <2> DEFINE key == event[t].content.idempotency_key
               e == by_idempotency_key(stream, key)
    <2>1. HasKey(stream, key) /\ Respond(t, e, FALSE) /\ UNCHANGED <<stream, active>>
      BY <1>7 DEF AppendExisting, AppendReturnsExisting
    <2>2. IsEvent(e)
      BY <2>1, LookupFacts DEF TypeOK
    <2> HIDE DEF e
    <2>3. answers' \subseteq AnswerSet
      BY <2>1, <2>2, RespondTyped
    <2>4. Finish(t)
      BY <2>1 DEF Respond
    <2>5. IsSeq(stream') /\ (\A i \in DOMAIN stream' : IsEvent(stream'[i]))
      BY <2>1 DEF TypeOK, IsSeq
    <2> QED BY <2>1, <2>3, <2>4, <2>5, FinishTypeOK
  <1>8. ASSUME NEW t \in Threads, AppendInsert(t)
        PROVE  TypeOK'
    BY <1>8, InsertTyped, RespondTyped, FinishTypeOK
    DEF AppendInsert, Respond, TypeOK
  <1>9. ASSUME NEW t \in Threads, AppendConflict(t)
        PROVE  TypeOK'
    <2>1. CASE attempts[t] + 1 < MAX_CHAIN_CONFLICT_RETRIES
      <3>1. attempts[t] + 1 \in 0 .. MAX_CHAIN_CONFLICT_RETRIES - 1
        BY <2>1, LedgerAssumptions DEF TypeOK
      <3>2. /\ pc[t] = "append"
            /\ pc' = [pc EXCEPT ![t] = "seal"]
            /\ event' = [event EXCEPT ![t] = None]
            /\ attempts' = [attempts EXCEPT ![t] = @ + 1]
            /\ UNCHANGED <<stream, active, content, answers, base>>
        BY <1>9, <2>1 DEF AppendConflict, Goto
      <3> QED BY <3>1, <3>2 DEF TypeOK
    <2>2. CASE ~ (attempts[t] + 1 < MAX_CHAIN_CONFLICT_RETRIES)
      BY <1>9, <2>2, FinishTypeOK DEF AppendConflict, TypeOK, IsSeq, AnswerSet
    <2> QED BY <2>1, <2>2
  <1>10. ASSUME NEW t \in Threads, AppendUnacknowledged(t)
         PROVE  TypeOK'
    BY <1>10, InsertTyped, FinishTypeOK DEF AppendUnacknowledged, TypeOK, AnswerSet
  <1>11. ASSUME NEW t \in Threads, Abort(t)
         PROVE  TypeOK'
    BY <1>11, FinishTypeOK DEF Abort, TypeOK, IsSeq, AnswerSet
  <1> QED BY <1>0, <1>1, <1>2, <1>3, <1>4, <1>5, <1>6, <1>7, <1>8, <1>9, <1>10, <1>11
          DEF Next, Step

(* Every variable has its type in every reachable state. *)
THEOREM TypeCorrect == Spec => []TypeOK
  <1>1. Init => TypeOK
    BY LedgerAssumptions DEF Init, TypeOK
  <1> QED BY <1>1, TypeStep, PTL DEF Spec

-----------------------------------------------------------------------------
(* The inductive invariant. *)

LEMMA StreamSeq ==
  ASSUME TypeOK
  PROVE  IsSeq(stream) /\ Len(stream) \in Nat /\ DOMAIN stream = 1 .. Len(stream)
  <1>1. IsSeq(stream)
    BY DEF TypeOK, IsSeq
  <1> QED BY <1>1, AppendFacts

(* What an unchanged ledger keeps true. *)
LEMMA StreamKept ==
  ASSUME LedgerInv, stream' = stream
  PROVE  ChainValid' /\ OneEventPerKey' /\ Reproducible' /\ RulingsFollowDecisions'
  BY DEF LedgerInv, ChainValid, OneEventPerKey, Reproducible, RulingsFollowDecisions

(* A thread that ends its call knows nothing any more; the others keep     *)
(* what they know.                                                         *)
LEMMA FinishKept ==
  ASSUME LedgerInv, NEW t \in Threads, Finish(t), stream' = stream
  PROVE  SealedAgainstPastHead' /\ IdsUnique' /\ PendingContentSound'
  <1>1. TypeOK
    BY DEF LedgerInv
  <1>2. SealedAgainstPastHead'
    BY <1>1, FinishTyped DEF LedgerInv, SealedAgainstPastHead, HeadAt
  <1>3. IdsUnique'
    BY <1>1, FinishTyped DEF LedgerInv, IdsUnique
  <1>4. PendingContentSound'
    BY <1>1, FinishTyped DEF LedgerInv, PendingContentSound
  <1> QED BY <1>2, <1>3, <1>4

(* What an insert does to the ledger and to what the other threads know.   *)
LEMMA InsertKept ==
  ASSUME LedgerInv, NEW t \in Threads, pc[t] = "append",
         AppendInserts(stream, event[t]),
         stream' = Append(stream, event[t]), Finish(t)
  PROVE  /\ ChainValid' /\ OneEventPerKey' /\ Reproducible' /\ RulingsFollowDecisions'
         /\ SealedAgainstPastHead' /\ IdsUnique' /\ PendingContentSound'
  <1> DEFINE n == Len(stream)
             e == event[t]
  <1>1. /\ n \in Nat
        /\ DOMAIN stream = 1 .. n
        /\ Len(stream') = n + 1
        /\ DOMAIN stream' = 1 .. n + 1
        /\ \A i \in 1 .. n : stream'[i] = stream[i]
        /\ stream'[n + 1] = e
    BY StreamSeq, AppendFacts DEF LedgerInv
  <1>2. /\ verify(e)
        /\ e.content = content[t]
        /\ \A i \in 1 .. n :
             stream[i].content.idempotency_key # e.content.idempotency_key
        /\ e.prev_event_hash = IF n = 0 THEN None ELSE stream[n].event_hash
    BY <1>1 DEF LedgerInv, TypeOK, AppendInserts, HasKey, chain_head
  <1>3. /\ TypeOK
        /\ pc'[t] = "idle" /\ attempts'[t] = 0
        /\ \A u \in Threads \ {t} :
             /\ pc'[u] = pc[u]
             /\ content'[u] = content[u]
             /\ event'[u] = event[u]
             /\ attempts'[u] = attempts[u]
             /\ base'[u] = base[u]
    BY FinishTyped DEF LedgerInv
  <1> HIDE DEF n, e
  <1>4. ChainValid'
    BY <1>1, <1>2 DEF LedgerInv, ChainValid, verify_chain
  <1>5. OneEventPerKey'
    BY <1>1, <1>2 DEF LedgerInv, OneEventPerKey
  <1>6. Reproducible'
    BY <1>1, <1>2 DEF LedgerInv, Reproducible, PendingContentSound
  <1>7. RulingsFollowDecisions'
    BY <1>1, <1>2 DEF LedgerInv, RulingsFollowDecisions, PendingContentSound
  <1>8. SealedAgainstPastHead'
    <2> DEFINE Behind(u, m) ==
                 event'[u].prev_event_hash = IF m = 0 THEN None ELSE stream'[m].event_hash
    <2>1. ASSUME NEW u \in Threads, pc'[u] # "idle"
          PROVE  /\ base'[u] + attempts'[u] <= n + 1
                 /\ pc'[u] = "append" =>
                      \E m \in base'[u] + attempts'[u] .. n + 1 : Behind(u, m)
      <3>1. /\ u # t
            /\ pc'[u] = pc[u] /\ event'[u] = event[u]
            /\ base'[u] + attempts'[u] = base[u] + attempts[u]
        BY <1>3, <2>1
      <3>2. base[u] + attempts[u] \in Nat
        BY LedgerAssumptions DEF LedgerInv, TypeOK
      <3>3. base[u] + attempts[u] <= n
        BY <2>1, <3>1 DEF LedgerInv, SealedAgainstPastHead, n
      <3>4. CASE pc[u] = "append"
        <4>1. PICK m \in base[u] + attempts[u] .. n : event[u].prev_event_hash = HeadAt(m)
          BY <3>4 DEF LedgerInv, SealedAgainstPastHead, n
        <4>2. m \in base[u] + attempts[u] .. n + 1 /\ (m = 0 \/ m \in 1 .. n)
          BY <1>1, <3>2
        <4>3. Behind(u, m)
          BY <1>1, <3>1, <4>1, <4>2 DEF HeadAt
        <4> QED BY <1>1, <3>1, <3>2, <3>3, <4>2, <4>3
      <3> QED BY <1>1, <3>1, <3>2, <3>3, <3>4
    <2>2. Len(stream)' = n + 1
      BY <1>1
    <2>3. \A u \in Threads : pc'[u] = "idle" => attempts'[u] = 0
      BY <1>3 DEF LedgerInv, SealedAgainstPastHead
    <2> QED BY <2>1, <2>2, <2>3 DEF SealedAgainstPastHead, HeadAt
  <1>9. IdsUnique'
    BY <1>1, <1>3 DEF LedgerInv, IdsUnique, EventIdsOf, e
  <1>10. PendingContentSound'
    BY <1>1, <1>3 DEF LedgerInv, PendingContentSound
  <1> QED BY <1>4, <1>5, <1>6, <1>7, <1>8, <1>9, <1>10

(* The history of answers: nothing said, an event recalled, an event made. *)
LEMMA AnswersKept ==
  ASSUME LedgerInv, answers' = answers,
         \/ stream' = stream
         \/ \E e : stream' = Append(stream, e)
  PROVE  CreatedOnce' /\ AnswersRecorded'
  <1>1. CreatedOnce'
    BY DEF LedgerInv, CreatedOnce
  <1>2. \A i \in DOMAIN stream : i \in DOMAIN stream' /\ stream'[i] = stream[i]
    BY StreamSeq, AppendFacts DEF LedgerInv
  <1>3. AnswersRecorded'
    BY <1>2 DEF LedgerInv, AnswersRecorded
  <1> QED BY <1>1, <1>3

LEMMA RecallKept ==
  ASSUME LedgerInv, NEW t \in Threads, NEW key, HasKey(stream, key), stream' = stream,
         Respond(t, by_idempotency_key(stream, key), FALSE)
  PROVE  CreatedOnce' /\ AnswersRecorded'
  <1>1. PICK i \in DOMAIN stream : by_idempotency_key(stream, key) = stream[i]
    BY LookupFacts
  <1>2. answers' = answers \cup {[key      |-> stream[i].content.idempotency_key,
                                  event_id |-> stream[i].event_id,
                                  created  |-> FALSE,
                                  repeated |-> FALSE]}
    BY <1>1 DEF Respond
  <1>3. CreatedOnce'
    BY <1>2 DEF LedgerInv, CreatedOnce
  <1>4. AnswersRecorded'
    BY <1>2 DEF LedgerInv, AnswersRecorded
  <1> QED BY <1>3, <1>4

(* Nobody was told of an event whose key is new. *)
LEMMA NewKeyUntold ==
  ASSUME LedgerInv, NEW e, AppendInserts(stream, e)
  PROVE  \A a \in answers : a.key # e.content.idempotency_key
  BY DEF LedgerInv, AnswersRecorded, AppendInserts, HasKey

LEMMA InsertAnswer ==
  ASSUME LedgerInv, NEW t \in Threads, NEW e, AppendInserts(stream, e), Respond(t, e, TRUE)
  PROVE  answers' = answers \cup {[key      |-> e.content.idempotency_key,
                                   event_id |-> e.event_id,
                                   created  |-> TRUE,
                                   repeated |-> FALSE]}
  <1>1. ToldCreated(e.content.idempotency_key) = FALSE
    BY NewKeyUntold DEF ToldCreated
  <1>2. (TRUE /\ ToldCreated(e.content.idempotency_key)) = FALSE
    BY <1>1
  <1> QED BY <1>2 DEF Respond

LEMMA CreateKept ==
  ASSUME LedgerInv, NEW t \in Threads, AppendInsert(t)
  PROVE  CreatedOnce' /\ AnswersRecorded'
  <1> DEFINE n == Len(stream)
             e == event[t]
  <1>1. /\ n \in Nat
        /\ DOMAIN stream = 1 .. n
        /\ DOMAIN stream' = 1 .. n + 1
        /\ \A i \in 1 .. n : stream'[i] = stream[i]
        /\ stream'[n + 1] = e
    BY StreamSeq, AppendFacts DEF LedgerInv, AppendInsert
  <1>2. answers' = answers \cup {[key      |-> e.content.idempotency_key,
                                  event_id |-> e.event_id,
                                  created  |-> TRUE,
                                  repeated |-> FALSE]}
    BY InsertAnswer DEF AppendInsert
  <1>3. \A a \in answers : a.key # e.content.idempotency_key
    BY NewKeyUntold DEF AppendInsert
  <1> HIDE DEF n, e
  <1>4. CreatedOnce'
    <2> DEFINE r == [key      |-> e.content.idempotency_key,
                     event_id |-> e.event_id,
                     created  |-> TRUE,
                     repeated |-> FALSE]
    <2>1. r.key = e.content.idempotency_key /\ ~ r.repeated /\ answers' = answers \cup {r}
      BY <1>2
    <2> HIDE DEF r
    <2>2. ASSUME NEW a \in answers', NEW b \in answers', a.created, b.created, a.key = b.key
          PROVE  a = b
      <3>1. CASE a \in answers /\ b \in answers
        BY <2>2, <3>1 DEF LedgerInv, CreatedOnce
      <3>2. CASE a = r \/ b = r
        BY <1>3, <2>1, <2>2, <3>2
      <3> QED BY <2>1, <3>1, <3>2
    <2>3. \A a \in answers' : ~ a.repeated
      BY <2>1 DEF LedgerInv, CreatedOnce
    <2> QED BY <2>2, <2>3 DEF CreatedOnce
  <1>5. AnswersRecorded'
    <2>1. \A a \in answers : \E i \in DOMAIN stream' :
             /\ stream'[i].content.idempotency_key = a.key
             /\ stream'[i].event_id = a.event_id
      BY <1>1 DEF LedgerInv, AnswersRecorded
    <2>2. n + 1 \in DOMAIN stream'
      BY <1>1
    <2> QED BY <1>1, <1>2, <2>1, <2>2 DEF AnswersRecorded
  <1> QED BY <1>4, <1>5
-----------------------------------------------------------------------------
(* A call begins: its content is right and the ledger is where it was. *)
LEMMA BeginKept ==
  ASSUME LedgerInv, NEW t \in Threads, NEW c, NEW label \in {"lookup", "seal"},
         Begin(t, c, label),
         c.event_type = "decision" => c.outcome = Evaluate(c.facts, c.bundle_hash),
         c.event_type = "adjudication" => \E i \in DOMAIN stream : RulesOn(c, stream[i])
  PROVE  SealedAgainstPastHead' /\ IdsUnique' /\ PendingContentSound'
  <1>1. /\ pc[t] = "idle" /\ pc' = [pc EXCEPT ![t] = label]
        /\ content' = [content EXCEPT ![t] = c]
        /\ base' = [base EXCEPT ![t] = Len(stream)]
        /\ UNCHANGED <<stream, active, event, attempts, answers>>
    BY DEF Begin, Goto
  <1>2. TypeOK /\ Len(stream) \in Nat
    BY StreamSeq DEF LedgerInv
  <1>3. SealedAgainstPastHead'
    <2>1. \A n : HeadAt(n)' = HeadAt(n)
      BY <1>1 DEF HeadAt
    <2>2. \A u \in Threads \ {t} :
            event'[u] = event[u] /\ pc'[u] = pc[u] /\ base'[u] = base[u]
      BY <1>1, <1>2 DEF TypeOK
    <2>3. attempts[t] = 0
      BY <1>1 DEF LedgerInv, SealedAgainstPastHead
    <2>4. /\ base'[t] + attempts'[t] <= Len(stream)'
          /\ pc'[t] # "append" /\ pc'[t] # "idle"
      BY <1>1, <1>2, <2>3 DEF TypeOK
    <2> QED BY <1>1, <2>1, <2>2, <2>4 DEF LedgerInv, SealedAgainstPastHead
  <1>4. IdsUnique'
    BY <1>1, <1>2 DEF LedgerInv, TypeOK, IdsUnique
  <1>5. PendingContentSound'
    BY <1>1, <1>2 DEF LedgerInv, TypeOK, PendingContentSound
  <1> QED BY <1>3, <1>4, <1>5

(* An event is sealed against the head the ledger has now, under an        *)
(* identifier nobody has.                                                  *)
LEMMA SealKept ==
  ASSUME LedgerInv, NEW t \in Threads, Seal(t)
  PROVE  SealedAgainstPastHead' /\ IdsUnique' /\ PendingContentSound'
  <1> DEFINE id == CHOOSE x \in FreshIds : TRUE
             e == sealed(content[t], id, chain_head(stream))
  <1>1. /\ pc[t] = "seal" /\ pc' = [pc EXCEPT ![t] = "append"]
        /\ event' = [event EXCEPT ![t] = e]
        /\ UNCHANGED <<stream, active, content, attempts, answers, base>>
    BY DEF Seal, Goto
  <1>2. TypeOK /\ Len(stream) \in Nat /\ DOMAIN stream = 1 .. Len(stream)
    BY StreamSeq DEF LedgerInv
  <1>3. id \in FreshIds
    BY DEF Seal
  <1>4. e.event_id = id /\ e.prev_event_hash = chain_head(stream)
    BY DEF sealed
  <1>5. chain_head(stream) = HeadAt(Len(stream))
    BY <1>2 DEF chain_head, HeadAt
  <1> HIDE DEF id, e
  <1>6. SealedAgainstPastHead'
    <2>1. base[t] + attempts[t] \in Nat /\ base[t] + attempts[t] <= Len(stream)
      BY <1>1, <1>2, LedgerAssumptions DEF LedgerInv, TypeOK, SealedAgainstPastHead
    <2>2. Len(stream) \in base[t] + attempts[t] .. Len(stream)
      BY <1>2, <2>1
    <2>3. \A n : HeadAt(n)' = HeadAt(n)
      BY <1>1 DEF HeadAt
    <2>4. \A u \in Threads \ {t} : event'[u] = event[u] /\ pc'[u] = pc[u]
      BY <1>1, <1>2 DEF TypeOK
    <2>5. event'[t].prev_event_hash = HeadAt(Len(stream)) /\ pc'[t] = "append"
      BY <1>1, <1>2, <1>4, <1>5 DEF TypeOK
    <2> QED BY <1>1, <2>1, <2>2, <2>3, <2>4, <2>5 DEF LedgerInv, SealedAgainstPastHead
  <1>7. IdsUnique'
    <2>1. id \notin EventIdsOf(stream)
      BY <1>3 DEF FreshIds
    <2>2. \A u \in Threads : pc[u] = "append" => event[u].event_id # id
      BY <1>3 DEF FreshIds
    <2> QED BY <1>1, <1>2, <1>4, <2>1, <2>2 DEF LedgerInv, TypeOK, IdsUnique
  <1>8. PendingContentSound'
    BY <1>1, <1>2 DEF LedgerInv, TypeOK, PendingContentSound
  <1> QED BY <1>6, <1>7, <1>8

(* A conflict: the head moved on since the event was sealed, so one more   *)
(* event than the conflicts so far was appended.                           *)
LEMMA ConflictBehind ==
  ASSUME LedgerInv, NEW t \in Threads, pc[t] = "append",
         AppendConflicts(stream, event[t])
  PROVE  base[t] + attempts[t] < Len(stream)
  <1>1. TypeOK /\ Len(stream) \in Nat
    BY StreamSeq DEF LedgerInv
  <1>2. PICK n \in base[t] + attempts[t] .. Len(stream) :
          event[t].prev_event_hash = HeadAt(n)
    BY DEF LedgerInv, SealedAgainstPastHead
  <1>3. chain_head(stream) = HeadAt(Len(stream))
    BY <1>1, StreamSeq DEF chain_head, HeadAt
  <1>4. n # Len(stream)
    BY <1>2, <1>3 DEF AppendConflicts
  <1>5. base[t] + attempts[t] \in Nat
    BY <1>1, LedgerAssumptions DEF TypeOK
  <1> QED BY <1>1, <1>2, <1>4, <1>5

LEMMA ConflictKept ==
  ASSUME LedgerInv, NEW t \in Threads, AppendConflict(t)
  PROVE  SealedAgainstPastHead' /\ IdsUnique' /\ PendingContentSound'
  <1>1. CASE attempts[t] + 1 < MAX_CHAIN_CONFLICT_RETRIES
    <2>1. /\ pc[t] = "append" /\ pc' = [pc EXCEPT ![t] = "seal"]
          /\ event' = [event EXCEPT ![t] = None]
          /\ attempts' = [attempts EXCEPT ![t] = @ + 1]
          /\ UNCHANGED <<stream, active, content, answers, base>>
      BY <1>1 DEF AppendConflict, Goto
    <2>2. TypeOK /\ Len(stream) \in Nat
      BY StreamSeq DEF LedgerInv
    <2>3. base[t] + attempts[t] < Len(stream)
      BY ConflictBehind DEF AppendConflict
    <2>4. base[t] \in Nat /\ attempts[t] \in Nat
      BY <2>2, LedgerAssumptions DEF TypeOK
    <2>5. base'[t] + attempts'[t] <= Len(stream)' /\ pc'[t] = "seal"
      BY <2>1, <2>2, <2>3, <2>4 DEF TypeOK
    <2>6. \A u \in Threads \ {t} :
            event'[u] = event[u] /\ pc'[u] = pc[u] /\ attempts'[u] = attempts[u]
      BY <2>1, <2>2 DEF TypeOK
    <2>7. SealedAgainstPastHead'
      <3>1. \A n : HeadAt(n)' = HeadAt(n)
        BY <2>1 DEF HeadAt
      <3> QED BY <2>1, <2>5, <2>6, <3>1 DEF LedgerInv, SealedAgainstPastHead
    <2>8. IdsUnique'
      BY <2>1, <2>5, <2>6 DEF LedgerInv, IdsUnique
    <2>9. PendingContentSound'
      BY <2>1, <2>5, <2>6 DEF LedgerInv, PendingContentSound
    <2> QED BY <2>7, <2>8, <2>9
  <1>2. CASE ~ (attempts[t] + 1 < MAX_CHAIN_CONFLICT_RETRIES)
    BY <1>2, FinishKept DEF AppendConflict
  <1> QED BY <1>1, <1>2
-----------------------------------------------------------------------------
LEMMA InvInit == Init => LedgerInv
  <1> SUFFICES ASSUME Init PROVE LedgerInv
    OBVIOUS
  <1>1. TypeOK
    BY LedgerAssumptions DEF Init, TypeOK
  <1>2. stream = <<>> /\ Len(stream) = 0 /\ DOMAIN stream = {} /\ answers = {}
    BY DEF Init
  <1>3. \A t \in Threads : pc[t] = "idle" /\ attempts[t] = 0
    BY DEF Init
  <1> QED BY <1>1, <1>2, <1>3
          DEF LedgerInv, ChainValid, verify_chain, OneEventPerKey, CreatedOnce,
              Reproducible, RulingsFollowDecisions, SealedAgainstPastHead,
              IdsUnique, PendingContentSound, AnswersRecorded

(* The parts of the invariant a step establishes, put together. *)
LEMMA Together ==
  ASSUME TypeOK', ChainValid', OneEventPerKey', Reproducible', RulingsFollowDecisions',
         SealedAgainstPastHead', IdsUnique', PendingContentSound',
         CreatedOnce', AnswersRecorded'
  PROVE  LedgerInv'
  BY DEF LedgerInv

LEMMA InvStep == LedgerInv /\ [Next]_vars => LedgerInv'
  <1> SUFFICES ASSUME LedgerInv, [Next]_vars PROVE LedgerInv'
    OBVIOUS
  <1>t. TypeOK'
    BY TypeStep DEF LedgerInv
  <1>0. CASE UNCHANGED vars
    <2>1. SealedAgainstPastHead' /\ IdsUnique' /\ PendingContentSound'
      BY <1>0 DEF vars, LedgerInv, SealedAgainstPastHead, HeadAt, IdsUnique,
                  EventIdsOf, PendingContentSound
    <2> QED BY <1>t, <1>0, <2>1, StreamKept, AnswersKept, Together DEF vars
  <1>1. ASSUME NEW b \in Bundles, SetActive(b)
        PROVE  LedgerInv'
    <2>1. SealedAgainstPastHead' /\ IdsUnique' /\ PendingContentSound'
      BY <1>1 DEF SetActive, LedgerInv, SealedAgainstPastHead, HeadAt, IdsUnique,
                  EventIdsOf, PendingContentSound
    <2> QED BY <1>t, <1>1, <2>1, StreamKept, AnswersKept, Together DEF SetActive
  <1>2. ASSUME NEW t \in Threads, NEW k \in ClientKeys, NEW f \in Facts, Decide(t, k, f)
        PROVE  LedgerInv'
    <2> DEFINE c == [event_type      |-> "decision",
                     idempotency_key |-> <<"client", k>>,
                     facts           |-> f,
                     outcome         |-> Evaluate(f, active),
                     bundle_hash     |-> active,
                     linked_event_id |-> None]
    <2>1. Begin(t, c, "lookup")
      BY <1>2 DEF Decide
    <2>2. c.event_type = "decision" /\ c.outcome = Evaluate(c.facts, c.bundle_hash)
      OBVIOUS
    <2> HIDE DEF c
    <2>3. stream' = stream /\ answers' = answers
      BY <2>1 DEF Begin
    <2>4. SealedAgainstPastHead' /\ IdsUnique' /\ PendingContentSound'
      BY <2>1, <2>2, BeginKept
    <2> QED BY <1>t, <2>3, <2>4, StreamKept, AnswersKept, Together
  <1>3. ASSUME NEW t \in Threads, NEW i \in DOMAIN stream, NEW o \in Outcomes,
               RecordAdjudication(t, i, o)
        PROVE  LedgerInv'
    <2> DEFINE c == [event_type      |-> "adjudication",
                     idempotency_key |-> <<"adjudication", stream[i].event_id>>,
                     facts           |-> stream[i].content.facts,
                     outcome         |-> o,
                     bundle_hash     |-> stream[i].content.bundle_hash,
                     linked_event_id |-> stream[i].event_id]
    <2>1. Begin(t, c, "seal")
      BY <1>3 DEF RecordAdjudication
    <2>2. c.event_type = "adjudication" /\ RulesOn(c, stream[i])
      BY <1>3 DEF RecordAdjudication, RulesOn
    <2> HIDE DEF c
    <2>3. stream' = stream /\ answers' = answers
      BY <2>1 DEF Begin
    <2>4. SealedAgainstPastHead' /\ IdsUnique' /\ PendingContentSound'
      BY <2>1, <2>2, BeginKept
    <2> QED BY <1>t, <2>3, <2>4, StreamKept, AnswersKept, Together
  <1>4. ASSUME NEW t \in Threads, LookupHit(t)
        PROVE  LedgerInv'
    BY <1>t, <1>4, StreamKept, FinishKept, RecallKept, Together DEF LookupHit, Respond
  <1>5. ASSUME NEW t \in Threads, LookupMiss(t)
        PROVE  LedgerInv'
    <2>1. stream' = stream /\ answers' = answers
      BY <1>5 DEF LookupMiss
    <2>2. CASE content[t].outcome = Invalid
      BY <1>t, <1>5, <2>1, <2>2, StreamKept, FinishKept, AnswersKept, Together
      DEF LookupMiss
    <2>3. CASE content[t].outcome # Invalid
      <3>1. /\ pc[t] = "lookup" /\ pc' = [pc EXCEPT ![t] = "seal"]
            /\ UNCHANGED <<content, event, attempts, base>>
        BY <1>5, <2>3 DEF LookupMiss, Goto
      <3>2. \A u \in Threads : /\ pc'[u] = "append" <=> pc[u] = "append"
                               /\ pc'[u] = "idle" <=> pc[u] = "idle"
        BY <3>1 DEF LedgerInv, TypeOK
      <3>3. SealedAgainstPastHead' /\ IdsUnique' /\ PendingContentSound'
        BY <2>1, <3>1, <3>2
        DEF LedgerInv, SealedAgainstPastHead, HeadAt, IdsUnique, EventIdsOf,
            PendingContentSound
      <3> QED BY <1>t, <2>1, <3>3, StreamKept, AnswersKept, Together
    <2> QED BY <2>2, <2>3
  <1>6. ASSUME NEW t \in Threads, Seal(t)
        PROVE  LedgerInv'
    BY <1>t, <1>6, StreamKept, SealKept, AnswersKept, Together DEF Seal
  <1>7. ASSUME NEW t \in Threads, AppendExisting(t)
        PROVE  LedgerInv'
    BY <1>t, <1>7, StreamKept, FinishKept, RecallKept, Together
    DEF AppendExisting, AppendReturnsExisting, Respond
  <1>8. ASSUME NEW t \in Threads, AppendInsert(t)
        PROVE  LedgerInv'
    BY <1>t, <1>8, InsertKept, CreateKept, Together DEF AppendInsert, Respond
  <1>9. ASSUME NEW t \in Threads, AppendConflict(t)
        PROVE  LedgerInv'
    BY <1>t, <1>9, StreamKept, ConflictKept, AnswersKept, Together DEF AppendConflict
  <1>10. ASSUME NEW t \in Threads, AppendUnacknowledged(t)
         PROVE  LedgerInv'
    BY <1>t, <1>10, InsertKept, AnswersKept, Together DEF AppendUnacknowledged
  <1>11. ASSUME NEW t \in Threads, Abort(t)
         PROVE  LedgerInv'
    BY <1>t, <1>11, StreamKept, FinishKept, AnswersKept, Together DEF Abort
  <1> QED BY <1>0, <1>1, <1>2, <1>3, <1>4, <1>5, <1>6, <1>7, <1>8, <1>9, <1>10, <1>11
          DEF Next, Step

(* The inductive invariant holds in every reachable state. *)
THEOREM Invariance == Spec => []LedgerInv
  BY InvInit, InvStep, PTL DEF Spec

(* The hash chain of a company's ledger always verifies, whatever races    *)
(* the callers run and wherever they crash.                                *)
THEOREM ChainAlwaysValid == Spec => []ChainValid
  <1>1. LedgerInv => ChainValid
    BY DEF LedgerInv
  <1> QED BY Invariance, <1>1, PTL

(* An idempotency key never names two events. *)
THEOREM KeysNeverReused == Spec => []OneEventPerKey
  <1>1. LedgerInv => OneEventPerKey
    BY DEF LedgerInv
  <1> QED BY Invariance, <1>1, PTL

(* At most one caller is told that it created the event of a key. *)
THEOREM CreatedAtMostOnce == Spec => []CreatedOnce
  <1>1. LedgerInv => CreatedOnce
    BY DEF LedgerInv
  <1> QED BY Invariance, <1>1, PTL

(* Every decision in the ledger is what its recorded bundle says about its *)
(* recorded facts.                                                         *)
THEOREM DecisionsReproducible == Spec => []Reproducible
  <1>1. LedgerInv => Reproducible
    BY DEF LedgerInv
  <1> QED BY Invariance, <1>1, PTL

(* Every ruling stands after the decision it rules on. *)
THEOREM RulingsAlwaysFollow == Spec => []RulingsFollowDecisions
  <1>1. LedgerInv => RulingsFollowDecisions
    BY DEF LedgerInv
  <1> QED BY Invariance, <1>1, PTL

(* A call that is refused for the n-th time saw n other events go in. *)
THEOREM ConflictsMeanProgress == Spec => []ConflictMeansProgress
  <1>1. LedgerInv => ConflictMeansProgress
    <2> SUFFICES ASSUME LedgerInv, NEW t \in Threads, pc[t] = "append",
                        AppendConflicts(stream, event[t])
                 PROVE  attempts[t] < Len(stream) - base[t]
      BY DEF ConflictMeansProgress
    <2>1. base[t] + attempts[t] < Len(stream)
      BY ConflictBehind
    <2>2. base[t] \in Nat /\ attempts[t] \in Nat /\ Len(stream) \in Nat
      BY StreamSeq, LedgerAssumptions DEF LedgerInv, TypeOK
    <2> QED BY <2>1, <2>2
  <1> QED BY Invariance, <1>1, PTL
-----------------------------------------------------------------------------
(* Refinement of AtomicLedger. *)

EntryOf(e) == [content |-> e.content, event_id |-> e.event_id]
LogOf(s) == [i \in DOMAIN s |-> EntryOf(s[i])]

(* An insert appends one entry, with a new key and a new identifier. *)
LEMMA InsertRefines ==
  ASSUME LedgerInv, NEW t \in Threads, pc[t] = "append",
         AppendInserts(stream, event[t]),
         stream' = Append(stream, event[t]),
         answers' \in {answers,
                       answers \cup {[key      |-> event[t].content.idempotency_key,
                                      event_id |-> event[t].event_id,
                                      created  |-> TRUE,
                                      repeated |-> FALSE]}}
  PROVE  Atomic!Record
  <1> DEFINE n == Len(stream)
             x == EntryOf(event[t])
             L == LogOf(stream)
             R == LogOf(stream')
  <1>1. /\ n \in Nat
        /\ DOMAIN stream = 1 .. n
        /\ DOMAIN stream' = 1 .. n + 1
        /\ \A i \in 1 .. n : stream'[i] = stream[i]
        /\ stream'[n + 1] = event[t]
    BY StreamSeq, AppendFacts DEF LedgerInv
  <1>2. /\ x \in [content : Contents, event_id : EventIds]
        /\ \A i \in 1 .. n : EntryOf(stream[i]) \in [content : Contents, event_id : EventIds]
    BY <1>1 DEF LedgerInv, TypeOK, IsEvent, EntryOf
  <1>3. /\ L = [i \in 1 .. n |-> EntryOf(stream[i])]
        /\ R = [i \in 1 .. n + 1 |-> EntryOf(stream'[i])]
    BY <1>1 DEF LogOf
  <1>4. /\ L \in Seq([content : Contents, event_id : EventIds])
        /\ Len(L) = n /\ DOMAIN L = 1 .. n
    <2> DEFINE E == [content : Contents, event_id : EventIds]
    <2> HIDE DEF L, n, E
    <2>1. \A i \in 1 .. n : EntryOf(stream[i]) \in E
      BY <1>2 DEF E
    <2>2. L \in [1 .. n -> E]
      BY <1>3, <2>1
    <2>3. n \in Nat
      BY <1>1
    <2>4. L \in Seq(E) /\ Len(L) = n /\ DOMAIN L = 1 .. n
      BY <2>2, <2>3
    <2> QED BY <2>4 DEF E
  <1>5. /\ R \in Seq([content : Contents, event_id : EventIds])
        /\ Len(R) = n + 1 /\ R[n + 1] = x
    <2>1. \A i \in 1 .. n + 1 :
             EntryOf(stream'[i]) \in [content : Contents, event_id : EventIds]
      <3> HIDE DEF n
      <3> QED BY <1>1, <1>2
    <2>2. n + 1 \in Nat /\ n + 1 \in 1 .. n + 1
      BY <1>1
    <2> HIDE DEF R, n
    <2> QED BY <1>1, <1>3, <2>1, <2>2
  <1>6. R = Append(L, x)
    <2>1. \A i \in 1 .. n : R[i] = L[i]
      BY <1>1, <1>3
    <2> HIDE DEF L, R, x, n
    <2> QED BY <1>1, <1>2, <1>4, <1>5, <2>1
  <1>7. \A i \in 1 .. n : /\ L[i].content.idempotency_key # x.content.idempotency_key
                          /\ L[i].event_id # x.event_id
    BY <1>1, <1>3 DEF LedgerInv, AppendInserts, HasKey, IdsUnique, EventIdsOf, EntryOf
  <1>8. answers' \in {answers, answers \cup {[key      |-> x.content.idempotency_key,
                                              event_id |-> x.event_id,
                                              created  |-> TRUE,
                                              repeated |-> FALSE]}}
    BY DEF EntryOf
  <1>9. /\ L = [i \in DOMAIN stream |->
                  [content |-> stream[i].content, event_id |-> stream[i].event_id]]
        /\ R = [i \in DOMAIN stream' |->
                  [content |-> stream'[i].content, event_id |-> stream'[i].event_id]]
    BY DEF LogOf, EntryOf
  <1> HIDE DEF L, R, x, n
  <1>10. Len(R) = Len(L) + 1 /\ R[Len(R)] = x
    BY <1>1, <1>4, <1>5
  <1>11. /\ R[Len(R)] \in [content : Contents, event_id : EventIds]
         /\ R = Append(L, R[Len(R)])
         /\ \A i \in DOMAIN L :
              /\ L[i].content.idempotency_key # R[Len(R)].content.idempotency_key
              /\ L[i].event_id # R[Len(R)].event_id
    BY <1>2, <1>4, <1>6, <1>7, <1>10
  <1>12. answers' \in {answers, answers \cup {[key      |-> R[Len(R)].content.idempotency_key,
                                               event_id |-> R[Len(R)].event_id,
                                               created  |-> TRUE,
                                               repeated |-> FALSE]}}
    BY <1>8, <1>10, Zenon
  <1>13. Len(R) = Len(L) + 1
    BY <1>10
  <1> QED BY ONLY <1>9, <1>11, <1>12, <1>13, Zenon
          DEF Atomic!Record, Atomic!Entry, Atomic!Answer

(* Telling a caller of the event recorded under its key is a Recall. *)
LEMMA RecallRefines ==
  ASSUME LedgerInv, NEW t \in Threads, NEW key, HasKey(stream, key), stream' = stream,
         Respond(t, by_idempotency_key(stream, key), FALSE)
  PROVE  Atomic!Next
  <1>1. PICK i \in DOMAIN stream : by_idempotency_key(stream, key) = stream[i]
    BY LookupFacts
  <1>2. answers' = answers \cup {[key      |-> stream[i].content.idempotency_key,
                                  event_id |-> stream[i].event_id,
                                  created  |-> FALSE,
                                  repeated |-> FALSE]}
    BY <1>1 DEF Respond
  <1>3. Atomic!Recall(i)
    BY <1>2 DEF Atomic!Recall, Atomic!Answer
  <1> QED BY <1>3 DEF Atomic!Next

LEMMA StepRefines == LedgerInv /\ [Next]_vars => [Atomic!Next]_(Atomic!vars)
  <1> SUFFICES ASSUME LedgerInv, [Next]_vars PROVE [Atomic!Next]_(Atomic!vars)
    OBVIOUS
  <1>1. CASE stream' = stream /\ answers' = answers
    BY <1>1 DEF Atomic!vars
  <1>2. ASSUME NEW t \in Threads, LookupHit(t)
        PROVE  Atomic!Next
    BY <1>2, RecallRefines DEF LookupHit
  <1>3. ASSUME NEW t \in Threads, AppendExisting(t)
        PROVE  Atomic!Next
    BY <1>3, RecallRefines DEF AppendExisting, AppendReturnsExisting
  <1>4. ASSUME NEW t \in Threads, AppendInsert(t)
        PROVE  Atomic!Next
    BY <1>4, InsertAnswer, InsertRefines DEF AppendInsert, Atomic!Next
  <1>5. ASSUME NEW t \in Threads, AppendUnacknowledged(t)
        PROVE  Atomic!Next
    BY <1>5, InsertRefines DEF AppendUnacknowledged, Atomic!Next
  <1> QED BY <1>1, <1>2, <1>3, <1>4, <1>5
          DEF Next, Step, vars, SetActive, Decide, RecordAdjudication, Begin,
              LookupMiss, Seal, AppendConflict, Abort

(* However the steps of concurrent calls interleave, and whatever calls    *)
(* are cut short, the service behaves as one atomic get-or-append.         *)
THEOREM RefinesAtomicLedger == Spec => ImplementsAtomicLedger
  <1>1. Init => Atomic!Init
    BY DEF Init, Atomic!Init
  <1> QED BY <1>1, StepRefines, Invariance, PTL
          DEF Spec, ImplementsAtomicLedger, Atomic!Spec

-----------------------------------------------------------------------------
(* What the hash chain is for: "making silent history edits detectable"    *)
(* (events.py).  Two chains are compared from an event back to the first.  *)

(* verify(): an event without a hash does not verify. *)
Hashed(s) == \A i \in DOMAIN s : s[i].event_hash # None

(* Everything that is hashed, and the hash. *)
SameEvent(d, e) ==
  /\ d.content = e.content
  /\ d.event_id = e.event_id
  /\ d.prev_event_hash = e.prev_event_hash
  /\ d.event_hash = e.event_hash

LEMMA SeqFacts ==
  ASSUME NEW s, IsSeq(s)
  PROVE  Len(s) \in Nat /\ DOMAIN s = 1 .. Len(s)
  BY AppendFacts

(* Nobody finds two bodies with one hash. *)
LEMMA SameHash ==
  ASSUME NEW d, NEW e, verify(d), verify(e), d.event_hash = e.event_hash
  PROVE  SameEvent(d, e)
  BY DEF verify, compute_hash, SameEvent

(* A non-empty set of naturals has a least element. *)
LEMMA LeastNatural ==
  ASSUME NEW T, T \subseteq Nat, T # {}
  PROVE  \E m \in T : \A k \in T : m <= k
  <1> DEFINE Less == {x \in Nat \X Nat : x[1] < x[2]}
  <1>1. IsWellFoundedOn(Less, Nat)
    <2>1. Less = OpToRel(<, Nat)
      BY DEF OpToRel
    <2> QED
      BY <2>1, NatLessThanWellFounded
  <1> HIDE DEF Less
  <1>2. PICK m \in T : \A k \in T : ~ (<<k, m>> \in Less)
    BY <1>1, WFMin
  <1>3. ASSUME NEW k \in T PROVE m <= k
    <2>1. <<k, m>> \in Nat \X Nat
      OBVIOUS
    <2>2. ~ (<<k, m>>[1] < <<k, m>>[2])
      BY <1>2, <2>1 DEF Less
    <2> QED
      BY <2>2
  <1> QED
    BY <1>3

(* Where two chains agree on one event, they agree as far back as both go: *)
(* the first difference, going back, would be a difference in the hash     *)
(* that its successor names.                                               *)
LEMMA AgreeBackwards ==
  ASSUME NEW s, NEW t, IsSeq(s), IsSeq(t), verify_chain(s), verify_chain(t),
         NEW m \in DOMAIN s, NEW n \in DOMAIN t, s[m].event_hash = t[n].event_hash,
         NEW k \in Nat, k < m, k < n
  PROVE  SameEvent(s[m - k], t[n - k])
  <1> DEFINE T == {j \in Nat : j < m /\ j < n /\ ~ SameEvent(s[m - j], t[n - j])}
  <1>1. /\ Len(s) \in Nat /\ DOMAIN s = 1 .. Len(s)
        /\ Len(t) \in Nat /\ DOMAIN t = 1 .. Len(t)
    BY SeqFacts
  <1>2. ASSUME T # {} PROVE FALSE
    <2>1. PICK j \in T : \A i \in T : j <= i
      <3>1. T \subseteq Nat /\ T # {}
        BY <1>2
      <3> HIDE DEF T
      <3> QED
        BY <3>1, LeastNatural
    <2>2. /\ j \in Nat /\ j < m /\ j < n
          /\ m - j \in DOMAIN s /\ n - j \in DOMAIN t
          /\ ~ SameEvent(s[m - j], t[n - j])
      BY <1>1, <2>1
    <2>3. verify(s[m - j]) /\ verify(t[n - j])
      BY <2>2 DEF verify_chain
    <2>4. CASE j = 0
      <3>1. m - j = m /\ n - j = n
        BY <1>1, <2>4
      <3> QED
        BY <2>2, <2>3, <3>1, SameHash
    <2>5. CASE j # 0
      <3> DEFINE x == m - (j - 1)
                 y == n - (j - 1)
      <3>1. j - 1 \in Nat /\ j - 1 < m /\ j - 1 < n /\ j - 1 < j
        BY <1>1, <2>2, <2>5
      <3>2. j - 1 \notin T
        BY <2>1, <3>1
      <3>3. SameEvent(s[x], t[y])
        BY <3>1, <3>2
      <3>4. /\ x \in DOMAIN s /\ y \in DOMAIN t /\ x # 1 /\ y # 1
            /\ x - 1 = m - j /\ y - 1 = n - j
        BY <1>1, <2>2, <2>5
      <3>5. /\ s[x].prev_event_hash = s[m - j].event_hash
            /\ t[y].prev_event_hash = t[n - j].event_hash
        BY <3>4 DEF verify_chain
      <3> QED
        BY <2>2, <2>3, <3>3, <3>5, SameHash DEF SameEvent
    <2> QED
      BY <2>4, <2>5
  <1> QED
    BY <1>2

(* Whoever has noted the head of a chain, and later finds that hash in a   *)
(* stream that verifies, finds before it exactly the events that were      *)
(* there: none was changed, removed or put in between.                     *)
THEOREM TamperEvident ==
  ASSUME NEW s, NEW t, IsSeq(s), IsSeq(t), Hashed(s), Hashed(t),
         verify_chain(s), verify_chain(t),
         s # <<>>, NEW n \in DOMAIN t, t[n].event_hash = chain_head(s)
  PROVE  n = Len(s) /\ \A i \in DOMAIN s : SameEvent(s[i], t[i])
  <1> DEFINE m == Len(s)
  <1>1. /\ m \in Nat /\ DOMAIN s = 1 .. m /\ m # 0
        /\ Len(t) \in Nat /\ DOMAIN t = 1 .. Len(t)
        /\ m \in DOMAIN s /\ s[m].event_hash = t[n].event_hash
    <2>1. m \in Nat /\ DOMAIN s = 1 .. m /\ Len(t) \in Nat /\ DOMAIN t = 1 .. Len(t)
      BY SeqFacts
    <2>2. m # 0
      BY <2>1 DEF IsSeq
    <2> QED
      BY <2>1, <2>2 DEF chain_head
  <1> HIDE DEF m
  <1>2. ASSUME NEW k \in Nat, k < m, k < n
        PROVE  SameEvent(s[m - k], t[n - k])
    BY <1>1, <1>2, AgreeBackwards
  <1>3. ASSUME m < n PROVE FALSE
    <2>1. /\ m - 1 \in Nat /\ m - 1 < m /\ m - 1 < n /\ m - (m - 1) = 1
          /\ n - m \in DOMAIN t /\ n - (m - 1) \in DOMAIN t
          /\ n - (m - 1) # 1 /\ n - (m - 1) - 1 = n - m
      BY <1>1, <1>3
    <2>2. s[1].prev_event_hash = t[n - (m - 1)].prev_event_hash
      BY <1>2, <2>1 DEF SameEvent
    <2>3. s[1].prev_event_hash = None
      BY <1>1 DEF verify_chain
    <2>4. t[n - (m - 1)].prev_event_hash = t[n - m].event_hash
      BY <2>1 DEF verify_chain
    <2> QED
      BY <2>1, <2>2, <2>3, <2>4 DEF Hashed
  <1>4. ASSUME n < m PROVE FALSE
    <2>1. /\ n - 1 \in Nat /\ n - 1 < m /\ n - 1 < n /\ n - (n - 1) = 1
          /\ m - n \in DOMAIN s /\ m - (n - 1) \in DOMAIN s
          /\ m - (n - 1) # 1 /\ m - (n - 1) - 1 = m - n
      BY <1>1, <1>4
    <2>2. s[m - (n - 1)].prev_event_hash = t[1].prev_event_hash
      BY <1>2, <2>1 DEF SameEvent
    <2>3. t[1].prev_event_hash = None
      BY <1>1 DEF verify_chain
    <2>4. s[m - (n - 1)].prev_event_hash = s[m - n].event_hash
      BY <2>1 DEF verify_chain
    <2> QED
      BY <2>1, <2>2, <2>3, <2>4 DEF Hashed
  <1>5. n = m
    BY <1>1, <1>3, <1>4
  <1>6. ASSUME NEW i \in DOMAIN s PROVE SameEvent(s[i], t[i])
    <2>1. m - i \in Nat /\ m - i < m /\ m - (m - i) = i
      BY <1>1
    <2> QED
      BY <1>2, <1>5, <2>1
  <1> QED
    BY <1>5, <1>6 DEF m

(* The stream only grows: no step, of any handler, touches a recorded      *)
(* event.  So the head that a caller saw stays in the stream, and by       *)
(* TamperEvident pins what it saw (append is the stores' only write).      *)
AppendOnly ==
  \A i \in DOMAIN stream : i \in DOMAIN stream' /\ stream'[i] = stream[i]

LEMMA InsertAppends ==
  ASSUME LedgerInv, NEW e, stream' = Append(stream, e)
  PROVE  AppendOnly
  BY StreamSeq, AppendFacts DEF LedgerInv, AppendOnly

THEOREM NothingRewritten == Spec => [][AppendOnly]_vars
  <1>1. LedgerInv /\ [Next]_vars => [AppendOnly]_vars
    <2> SUFFICES ASSUME LedgerInv, Next PROVE AppendOnly
      OBVIOUS
    <2>1. ASSUME stream' = stream PROVE AppendOnly
      BY <2>1 DEF AppendOnly
    <2>2. ASSUME NEW t \in Threads, AppendInsert(t) PROVE AppendOnly
      BY <2>2, InsertAppends DEF AppendInsert
    <2>3. ASSUME NEW t \in Threads, AppendUnacknowledged(t) PROVE AppendOnly
      BY <2>3, InsertAppends DEF AppendUnacknowledged
    <2> QED
      BY <2>1, <2>2, <2>3
         DEF Next, Step, SetActive, Decide, RecordAdjudication, Begin, LookupHit,
             LookupMiss, Seal, AppendExisting, AppendConflict, Abort
  <1> QED
    BY <1>1, Invariance, PTL DEF Spec
=============================================================================
