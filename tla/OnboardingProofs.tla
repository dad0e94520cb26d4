-------------------------- MODULE OnboardingProofs --------------------------
(***************************************************************************)
(* Proofs about drafts under any number of reviewers.  Whole rows are      *)
(* written back from stale reads, so what holds of every row that anyone   *)
(* has read or written is what survives the races.                         *)
(***************************************************************************)
EXTENDS MCOnboarding, SequenceTheorems, TLAPS

(* A row that may be in the store when the sources ss are.                 *)
SoundRow(r, ss) ==
  /\ r \in Rows
  /\ \A i \in DOMAIN r.evidence : r.evidence[i].source \in ss /\ r.evidence[i].exact
  /\ r.status = "accepted" => r.proposed.valid
  /\ r.publishable => r.proposed.valid /\ r.evidence # <<>>

RowsSound ==
  /\ sources \subseteq Sources
  /\ \A d \in DraftIds : drafts[d] = None \/ SoundRow(drafts[d], sources)
  /\ \A h \in Handlers : read[h] = None \/ SoundRow(read[h], sources)

(* What a handler brings to the operation it is in. *)
RequestsSound ==
  /\ drafts \in [DraftIds -> Rows \cup {None}]
  /\ read \in [Handlers -> Rows \cup {None}]
  /\ pc \in [Handlers -> Operations \cup {"idle"}]
  /\ draft \in [Handlers -> DraftIds]
  /\ input = [h \in Handlers |-> input[h]]
  /\ \A h \in Handlers :
       /\ pc[h] \in {"ground", "remove", "status"} => read[h] # None
       /\ pc[h] = "save" => input[h] \in Policies
       /\ pc[h] = "ground" => input[h] \in Spans
       /\ pc[h] = "status" => input[h] \in {"draft", "accepted", "rejected"}

OnboardingInv == RowsSound /\ RequestsSound /\ AssembledGrounded

-----------------------------------------------------------------------------
(* Edits of a row. *)

LEMMA BuiltRow ==
  ASSUME NEW p \in Policies, NEW ss, NEW ev \in Seq(Spans),
         \A i \in DOMAIN ev : ev[i].source \in ss /\ ev[i].exact
  PROVE  SoundRow(build_draft(p, ev), ss)
  BY OnboardingAssumptions DEF SoundRow, build_draft, Row, Rows, evaluate_draft

LEMMA FirstPart ==
  ASSUME NEW n \in Nat, NEW i \in 1 .. n, NEW k \in 1 .. (n - 1), k <= i - 1
  PROVE  /\ k \in 1 .. (i - 1)
         /\ k \in 1 .. ((i - 1) + (n - i))
         /\ k \in 1 .. n
  OBVIOUS

LEMMA SecondPart ==
  ASSUME NEW n \in Nat, NEW i \in 1 .. n, NEW k \in 1 .. (n - 1), k > i - 1
  PROVE  /\ k - (i - 1) \in 1 .. (n - i)
         /\ k \in 1 .. ((i - 1) + (n - i))
         /\ i + (k - (i - 1)) \in 1 .. n
         /\ i \in Int /\ k \in Int
  OBVIOUS

LEMMA WithoutSubset ==
  ASSUME NEW ev \in Seq(Spans), NEW i \in DOMAIN ev
  PROVE  /\ Without(ev, i) \in Seq(Spans)
         /\ \A k \in DOMAIN Without(ev, i) : \E j \in DOMAIN ev : Without(ev, i)[k] = ev[j]
  <1>1. i \in 1 .. Len(ev) /\ Len(ev) \in Nat
    OBVIOUS
  <1>2. PICK a : a = SubSeq(ev, 1, i - 1)
    OBVIOUS
  <1>3. PICK b : b = SubSeq(ev, i + 1, Len(ev))
    OBVIOUS
  <1>4. /\ a \in Seq(Spans) /\ Len(a) = i - 1
        /\ \A k \in 1 .. Len(a) : a[k] = ev[k]
    BY <1>1, <1>2
  <1>5. /\ b \in Seq(Spans) /\ Len(b) = Len(ev) - i
        /\ \A k \in 1 .. Len(b) : b[k] = ev[i + k]
    BY <1>1, <1>3
  <1>6. PICK c : c = a \o b
    OBVIOUS
  <1>7. /\ c \in Seq(Spans) /\ Len(c) = Len(a) + Len(b)
        /\ \A k \in 1 .. Len(a) + Len(b) : c[k] = IF k <= Len(a) THEN a[k] ELSE b[k - Len(a)]
    BY <1>4, <1>5, <1>6, ConcatProperties
  <1>8. ASSUME NEW k \in 1 .. Len(c)
        PROVE  \E j \in 1 .. Len(ev) : c[k] = ev[j]
    <2>1. PICK n \in Nat : n = Len(ev)
      BY <1>1
    <2>2. /\ i \in 1 .. n /\ k \in 1 .. (n - 1)
          /\ Len(a) = i - 1 /\ Len(b) = n - i
      BY <1>1, <1>4, <1>5, <1>7, <2>1
    <2>3. CASE k <= i - 1
      <3>1. /\ k \in 1 .. (i - 1)
            /\ k \in 1 .. ((i - 1) + (n - i))
            /\ k \in 1 .. n
        BY <2>2, <2>3, FirstPart
      <3>2. a[k] = ev[k]
        BY <1>4, <2>2, <3>1
      <3>3. c[k] = IF k <= Len(a) THEN a[k] ELSE b[k - Len(a)]
        BY <1>7, <2>2, <3>1
      <3>4. c[k] = ev[k]
        BY <2>2, <2>3, <3>2, <3>3
      <3> QED
        BY <2>1, <3>1, <3>4
    <2>4. CASE k > i - 1
      <3>1. /\ k - (i - 1) \in 1 .. (n - i)
            /\ k \in 1 .. ((i - 1) + (n - i))
            /\ i + (k - (i - 1)) \in 1 .. n
            /\ i \in Int /\ k \in Int
        BY <2>2, <2>4, SecondPart
      <3>2. c[k] = b[k - (i - 1)]
        <4>1. c[k] = IF k <= Len(a) THEN a[k] ELSE b[k - Len(a)]
          BY <1>7, <2>2, <3>1
        <4>2. ~ (k <= i - 1)
          BY <2>4, <3>1
        <4> QED
          BY <2>2, <4>1, <4>2
      <3>3. b[k - (i - 1)] = ev[i + (k - (i - 1))]
        BY <1>5, <2>2, <3>1
      <3> QED
        BY <2>1, <3>1, <3>2, <3>3
    <2> QED
      BY <2>2, <2>3, <2>4
  <1>9. Without(ev, i) = c
    BY <1>2, <1>3, <1>6 DEF Without
  <1> QED
    BY <1>7, <1>8, <1>9

LEMMA EditedRow ==
  ASSUME NEW ss, NEW r, SoundRow(r, ss), NEW ev \in Seq(Spans),
         \A i \in DOMAIN ev : ev[i].source \in ss /\ ev[i].exact
  PROVE  SoundRow([r EXCEPT !.evidence = ev, !.publishable = evaluate_draft(r.proposed, ev)], ss)
  BY OnboardingAssumptions DEF SoundRow, Rows, evaluate_draft

LEMMA RestatusedRow ==
  ASSUME NEW ss, NEW r, SoundRow(r, ss), NEW st \in {"draft", "accepted", "rejected"},
         st = "accepted" => r.publishable
  PROVE  SoundRow([r EXCEPT !.status = st], ss)
  BY DEF SoundRow, Rows

-----------------------------------------------------------------------------
(* The steps. *)

LEMMA InitInv == Init => OnboardingInv
  BY DEF Init, OnboardingInv, RowsSound, RequestsSound, AssembledGrounded, Operations

(* What a finished operation leaves: the row written is sound. *)
LEMMA WriteInv ==
  ASSUME OnboardingInv, NEW h \in Handlers, End(h),
         \/ UNCHANGED drafts
         \/ \E r : SoundRow(r, sources) /\ upsert(h, r)
  PROVE  OnboardingInv'
  <1> USE DEF OnboardingInv, RowsSound, RequestsSound
  <1>1. sources' = sources /\ assembled' = assembled /\ draft' = draft
    BY DEF End
  <1>2. \A g \in Handlers : /\ read'[g] = IF g = h THEN None ELSE read[g]
                            /\ pc'[g] = IF g = h THEN "idle" ELSE pc[g]
                            /\ g # h => input'[g] = input[g]
    <2>1. \A g \in Handlers : read'[g] = IF g = h THEN None ELSE read[g]
      BY DEF End
    <2>2. \A g \in Handlers : pc'[g] = IF g = h THEN "idle" ELSE pc[g]
      BY DEF End
    <2>3. \A g \in Handlers : g # h => input'[g] = input[g]
      BY DEF End
    <2> QED
      BY <2>1, <2>2, <2>3
  <1>3. read' \in [Handlers -> Rows \cup {None}] /\ pc' \in [Handlers -> Operations \cup {"idle"}]
    BY DEF End
  <1>4. /\ drafts' \in [DraftIds -> Rows \cup {None}]
        /\ \A d \in DraftIds : drafts'[d] = None \/ SoundRow(drafts'[d], sources)
    BY DEF upsert, SoundRow
  <1>5. input' = [g \in Handlers |-> input'[g]]
    BY DEF End
  <1>6. RowsSound'
    BY <1>1, <1>2, <1>4
  <1>7. RequestsSound'
    BY <1>1, <1>2, <1>3, <1>4, <1>5
  <1>8. AssembledGrounded'
    BY <1>1 DEF AssembledGrounded
  <1> QED
    BY <1>6, <1>7, <1>8

LEMMA OperationInv ==
  ASSUME OnboardingInv, NEW h \in Handlers,
         SaveDraft(h) \/ GroundSpan(h) \/ RemoveEvidence(h) \/ SetStatus(h)
  PROVE  OnboardingInv'
  <1>1. RowsSound /\ RequestsSound
    BY DEF OnboardingInv
  <1>2. read[h] # None =>
          /\ SoundRow(read[h], sources)
          /\ read[h].evidence \in Seq(Spans) /\ read[h].proposed \in Policies
          /\ \A i \in DOMAIN read[h].evidence :
               read[h].evidence[i].source \in sources /\ read[h].evidence[i].exact
    BY <1>1 DEF RowsSound, SoundRow, Rows
  <1>3. CASE SaveDraft(h)
    <2>1. PICK ev : ev = IF read[h] = None THEN <<>> ELSE read[h].evidence
      OBVIOUS
    <2>2. ev \in Seq(Spans) /\ \A i \in DOMAIN ev : ev[i].source \in sources /\ ev[i].exact
      BY <1>2, <2>1
    <2>3. input[h] \in Policies
      BY <1>1, <1>3 DEF SaveDraft, RequestsSound
    <2>4. SoundRow(build_draft(input[h], ev), sources)
      BY <2>2, <2>3, BuiltRow
    <2>5. End(h) /\ upsert(h, build_draft(input[h], ev))
      BY <1>3, <2>1 DEF SaveDraft
    <2> QED
      BY <2>4, <2>5, WriteInv
  <1>4. CASE GroundSpan(h)
    <2>1. read[h] # None /\ input[h] \in Spans
      BY <1>1, <1>4 DEF GroundSpan, RequestsSound
    <2>2. CASE Grounds(input[h]) /\ Len(read[h].evidence) < MaxEvidence
      <3>1. PICK old : old = read[h].evidence
        OBVIOUS
      <3>2. PICK ev : ev = Append(old, input[h])
        OBVIOUS
      <3>3. ev \in Seq(Spans) /\ \A i \in DOMAIN ev : ev[i].source \in sources /\ ev[i].exact
        BY <1>2, <2>1, <2>2, <3>1, <3>2 DEF Grounds
      <3>4. PICK r : r = [read[h] EXCEPT !.evidence = ev,
                                         !.publishable = evaluate_draft(read[h].proposed, ev)]
        OBVIOUS
      <3>5. SoundRow(r, sources)
        BY <1>2, <2>1, <3>3, <3>4, EditedRow
      <3>6. End(h) /\ upsert(h, r)
        BY <1>4, <2>2, <3>1, <3>2, <3>4 DEF GroundSpan
      <3> QED
        BY <3>5, <3>6, WriteInv
    <2>3. CASE ~ (Grounds(input[h]) /\ Len(read[h].evidence) < MaxEvidence)
      BY <1>4, <2>3, WriteInv DEF GroundSpan
    <2> QED
      BY <2>2, <2>3
  <1>5. CASE RemoveEvidence(h)
    <2>1. read[h] # None
      BY <1>1, <1>5 DEF RemoveEvidence, RequestsSound
    <2>2. CASE input[h] \in DOMAIN read[h].evidence
      <3>1. PICK old : old = read[h].evidence
        OBVIOUS
      <3>2. PICK ev : ev = Without(old, input[h])
        OBVIOUS
      <3>3. /\ ev \in Seq(Spans)
            /\ \A k \in DOMAIN ev : \E j \in DOMAIN old : ev[k] = old[j]
        BY <1>2, <2>1, <2>2, <3>1, <3>2, WithoutSubset
      <3>4. \A i \in DOMAIN ev : ev[i].source \in sources /\ ev[i].exact
        BY <1>2, <2>1, <3>1, <3>3
      <3>5. PICK r : r = [read[h] EXCEPT !.evidence = ev,
                                         !.publishable = evaluate_draft(read[h].proposed, ev)]
        OBVIOUS
      <3>6. SoundRow(r, sources)
        BY <1>2, <2>1, <3>3, <3>4, <3>5, EditedRow
      <3>7. End(h) /\ upsert(h, r)
        BY <1>5, <2>2, <3>1, <3>2, <3>5 DEF RemoveEvidence
      <3> QED
        BY <3>6, <3>7, WriteInv
    <2>3. CASE input[h] \notin DOMAIN read[h].evidence
      BY <1>5, <2>3, WriteInv DEF RemoveEvidence
    <2> QED
      BY <2>2, <2>3
  <1>6. CASE SetStatus(h)
    <2>1. read[h] # None /\ input[h] \in {"draft", "accepted", "rejected"}
      BY <1>1, <1>6 DEF SetStatus, RequestsSound
    <2>2. CASE input[h] = "accepted" /\ ~ read[h].publishable
      BY <1>6, <2>2, WriteInv DEF SetStatus
    <2>3. CASE ~ (input[h] = "accepted" /\ ~ read[h].publishable)
      <3>1. PICK r : r = [read[h] EXCEPT !.status = input[h]]
        OBVIOUS
      <3>2. SoundRow(r, sources)
        BY <1>2, <2>1, <2>3, <3>1, RestatusedRow
      <3>3. End(h) /\ upsert(h, r)
        BY <1>6, <2>3, <3>1 DEF SetStatus
      <3> QED
        BY <3>2, <3>3, WriteInv
    <2> QED
      BY <2>2, <2>3
  <1> QED
    BY <1>3, <1>4, <1>5, <1>6

LEMMA GetInv ==
  ASSUME OnboardingInv, NEW h \in Handlers, NEW op \in Operations, NEW d \in DraftIds,
         NEW x \in Requests(op), Get(h, op, d, x)
  PROVE  OnboardingInv'
  <1> USE DEF OnboardingInv
  <1>1. sources' = sources /\ assembled' = assembled /\ drafts' = drafts
    BY DEF Get
  <1>2. /\ read' \in [Handlers -> Rows \cup {None}]
        /\ pc' \in [Handlers -> Operations \cup {"idle"}]
        /\ draft' \in [Handlers -> DraftIds]
    BY DEF Get, RequestsSound
  <1>3. \A g \in Handlers : /\ read'[g] = IF g = h THEN drafts[d] ELSE read[g]
                            /\ g # h => pc'[g] = pc[g] /\ input'[g] = input[g]
    BY DEF Get, RequestsSound
  <1>4. pc'[h] = op /\ input'[h] = x
    BY DEF Get, RequestsSound
  <1>5. RowsSound'
    BY <1>1, <1>3 DEF RowsSound
  <1>6. input' = [g \in Handlers |-> input'[g]]
    BY DEF Get, RequestsSound
  <1>7. \A g \in Handlers :
          /\ pc'[g] \in {"ground", "remove", "status"} => read'[g] # None
          /\ pc'[g] = "save" => input'[g] \in Policies
          /\ pc'[g] = "ground" => input'[g] \in Spans
          /\ pc'[g] = "status" => input'[g] \in {"draft", "accepted", "rejected"}
    <2>1. CASE op = "save"
      BY <1>3, <1>4, <2>1 DEF RequestsSound, Requests
    <2>2. CASE op # "save"
      <3>1. drafts[d] # None
        BY <2>2 DEF Get
      <3> QED
        BY <1>3, <1>4, <2>2, <3>1 DEF RequestsSound, Requests, Operations
    <2> QED
      BY <2>1, <2>2
  <1>8. AssembledGrounded'
    BY <1>1 DEF AssembledGrounded
  <1> QED
    BY <1>1, <1>2, <1>5, <1>6, <1>8, <1>7 DEF RequestsSound

LEMMA AssembleInv ==
  ASSUME OnboardingInv, Assemble
  PROVE  OnboardingInv'
  <1> DEFINE Entry(d) == [policy |-> drafts[d].proposed, evidence |-> Cited(drafts[d].evidence)]
  <1>1. PICK b : b = {Entry(d) : d \in Accepted} /\ assembled' = b
    BY DEF Assemble
  <1>2. ASSUME NEW d \in Accepted
        PROVE  /\ Entry(d).policy.valid /\ Entry(d).evidence # {}
               /\ \A s \in Entry(d).evidence : s.exact
    <2>1. SoundRow(drafts[d], sources) /\ drafts[d].evidence \in Seq(Spans)
      BY DEF OnboardingInv, RowsSound, SoundRow, Rows, Accepted
    <2>2. drafts[d].proposed.valid /\ drafts[d].evidence # <<>>
      BY DEF Assemble, Validates, evaluate_draft
    <2>3. Cited(drafts[d].evidence) # {}
      <3>1. PICK ev : ev = drafts[d].evidence
        OBVIOUS
      <3>2. ev \in Seq(Spans) /\ ev # <<>>
        BY <2>1, <2>2, <3>1
      <3>3. Len(ev) \in Nat /\ Len(ev) # 0
        BY <3>2, EmptySeq
      <3>4. 1 \in DOMAIN ev
        BY <3>2, <3>3
      <3> QED
        BY <3>1, <3>4 DEF Cited
    <2> QED
      BY <2>1, <2>2, <2>3 DEF SoundRow, Cited
  <1>3. ASSUME NEW d \in Accepted, NEW e \in Accepted, Entry(d).policy.id = Entry(e).policy.id
        PROVE  Entry(d) = Entry(e)
    BY <1>3 DEF Assemble, UniqueIds
  <1> HIDE DEF Entry
  <1>4. /\ \A c \in b : c.policy.valid /\ c.evidence # {} /\ \A s \in c.evidence : s.exact
        /\ \A c, e \in b : c.policy.id = e.policy.id => c = e
    BY <1>1, <1>2, <1>3
  <1>5. AssembledGrounded'
    BY <1>1, <1>4 DEF OnboardingInv, AssembledGrounded
  <1>6. UNCHANGED <<sources, drafts, pc, draft, read, input>>
    BY DEF Assemble
  <1>7. RowsSound'
    BY <1>6 DEF OnboardingInv, RowsSound
  <1>8. RequestsSound'
    BY <1>6 DEF OnboardingInv, RequestsSound
  <1> QED
    BY <1>5, <1>7, <1>8 DEF OnboardingInv

LEMMA UploadInv ==
  ASSUME OnboardingInv, NEW s \in Sources, Upload(s)
  PROVE  OnboardingInv'
  <1>1. \A r : SoundRow(r, sources) => SoundRow(r, sources')
    BY DEF SoundRow, Upload
  <1> QED
    BY <1>1 DEF OnboardingInv, RowsSound, RequestsSound, AssembledGrounded, Upload

LEMMA OnboardingStep == OnboardingInv /\ [Next]_vars => OnboardingInv'
  <1>1. OnboardingInv /\ UNCHANGED vars => OnboardingInv'
    BY DEF vars, OnboardingInv, RowsSound, RequestsSound, AssembledGrounded
  <1> QED
    BY <1>1, OperationInv, GetInv, AssembleInv, UploadInv DEF Next

(* The inductive invariant holds throughout. *)
THEOREM OnboardingInvariance == Spec => []OnboardingInv
  BY InitInv, OnboardingStep, PTL DEF Spec

(* Every citation of a draft is the text of a stored source, whatever      *)
(* edits race on it.                                                       *)
THEOREM CitationsExact == Spec => []EvidenceExact
  <1>1. OnboardingInv => EvidenceExact
    BY DEF OnboardingInv, RowsSound, SoundRow, Rows, EvidenceExact, Cited
  <1> QED
    BY <1>1, OnboardingInvariance, PTL

(* What was accepted is a valid policy. *)
THEOREM AcceptedValid == Spec => []AcceptedIsValid
  <1>1. OnboardingInv => AcceptedIsValid
    BY DEF OnboardingInv, RowsSound, SoundRow, AcceptedIsValid, Accepted
  <1> QED
    BY <1>1, OnboardingInvariance, PTL

(* Nothing is assembled that is not valid and cited. *)
THEOREM AssembliesGrounded == Spec => []AssembledGrounded
  BY OnboardingInvariance, PTL DEF OnboardingInv

-----------------------------------------------------------------------------
(* Operations that follow one another: what each of them reads is what is  *)
(* stored when it writes, and no acknowledged citation is lost.            *)

Held(row) == IF row = None THEN {} ELSE Cited(row.evidence)

Keeping ==
  /\ kept = [d \in DraftIds |-> kept[d]]
  /\ \A d \in DraftIds : kept[d] \subseteq Held(drafts[d])
  /\ \A h \in Handlers : pc[h] # "idle" => read[h] = drafts[draft[h]]

LEMMA WithoutKeeps ==
  ASSUME NEW ev \in Seq(Spans), NEW i \in DOMAIN ev
  PROVE  Cited(ev) \ {ev[i]} \subseteq Cited(Without(ev, i))
  <1>1. i \in 1 .. Len(ev) /\ Len(ev) \in Nat
    OBVIOUS
  <1>2. PICK a : a = SubSeq(ev, 1, i - 1)
    OBVIOUS
  <1>3. PICK b : b = SubSeq(ev, i + 1, Len(ev))
    OBVIOUS
  <1>4. /\ a \in Seq(Spans) /\ Len(a) = i - 1
        /\ \A k \in 1 .. (i - 1) : a[k] = ev[k]
    BY <1>1, <1>2
  <1>5. /\ b \in Seq(Spans) /\ Len(b) = Len(ev) - i
        /\ \A k \in 1 .. (Len(ev) - i) : b[k] = ev[i + k]
    BY <1>1, <1>3
  <1>6. PICK c : c = a \o b
    OBVIOUS
  <1>7. /\ c \in Seq(Spans) /\ Len(c) = Len(a) + Len(b)
        /\ \A k \in 1 .. Len(a) + Len(b) : c[k] = IF k <= Len(a) THEN a[k] ELSE b[k - Len(a)]
    BY <1>4, <1>5, <1>6, ConcatProperties
  <1>8. ASSUME NEW j \in 1 .. Len(ev), j # i
        PROVE  \E k \in DOMAIN c : c[k] = ev[j]
    <2>1. CASE j < i
      <3>1. j \in 1 .. (i - 1) /\ j \in 1 .. Len(a) + Len(b) /\ j <= Len(a)
        <4>1. PICK n \in Nat : n = Len(ev)
          BY <1>1
        <4>2. Len(a) = i - 1 /\ Len(b) = n - i /\ i \in 1 .. n /\ j \in 1 .. n
          BY <1>1, <1>4, <1>5, <4>1
        <4> QED
          BY <2>1, <4>2
      <3>2. c[j] = ev[j]
        BY <1>4, <1>7, <3>1
      <3> QED
        BY <1>7, <3>1, <3>2
    <2>2. CASE j > i
      <3>1. PICK n \in Nat : n = Len(ev)
        BY <1>1
      <3>2. Len(a) = i - 1 /\ Len(b) = n - i /\ i \in 1 .. n /\ j \in 1 .. n
        BY <1>1, <1>4, <1>5, <3>1
      <3>3. PICK m : m = j - i
        OBVIOUS
      <3>4. PICK k : k = j - 1
        OBVIOUS
      <3>5. /\ m \in 1 .. (n - i) /\ i + m = j
            /\ k \in 1 .. ((i - 1) + (n - i)) /\ ~ (k <= i - 1) /\ k - (i - 1) = m
        BY <2>2, <3>2, <3>3, <3>4
      <3>6. c[k] = b[m]
        <4>1. c[k] = IF k <= Len(a) THEN a[k] ELSE b[k - Len(a)]
          BY <1>7, <3>2, <3>5
        <4> QED
          BY <3>2, <3>5, <4>1
      <3>7. b[m] = ev[j]
        BY <1>5, <3>1, <3>5
      <3>8. k \in DOMAIN c
        BY <1>7, <3>2, <3>5
      <3> QED
        BY <3>6, <3>7, <3>8
    <2> QED
      BY <1>1, <1>8, <2>1, <2>2
  <1>9. Without(ev, i) = c
    BY <1>2, <1>3, <1>6 DEF Without
  <1>10. ASSUME NEW j \in DOMAIN ev, ev[j] # ev[i]
         PROVE  ev[j] \in Cited(c)
    BY <1>8, <1>10 DEF Cited
  <1> QED
    BY <1>9, <1>10 DEF Cited

(* A row is written from what is stored, and cites what is to be kept.     *)
LEMMA WriteKeeps ==
  ASSUME OnboardingInv, Keeping, ~ Overlap, NEW h \in Handlers, pc[h] # "idle", End(h),
         NEW r \in Rows, upsert(h, r),
         NEW K, K \subseteq Cited(r.evidence), kept' = [kept EXCEPT ![draft[h]] = K]
  PROVE  Keeping'
  <1>1. \A g \in Handlers : pc'[g] = "idle"
    BY DEF OnboardingInv, RequestsSound, End, Overlap
  <1>2. PICK d0 \in DraftIds : d0 = draft[h]
    BY DEF OnboardingInv, RequestsSound
  <1>3. \A d \in DraftIds : drafts'[d] = IF d = d0 THEN r ELSE drafts[d]
    BY <1>2 DEF OnboardingInv, RequestsSound, upsert
  <1>4. /\ kept' = [d \in DraftIds |-> kept'[d]]
        /\ \A d \in DraftIds : kept'[d] = IF d = d0 THEN K ELSE kept[d]
    BY <1>2 DEF Keeping
  <1>5. Held(r) = Cited(r.evidence)
    BY NoneIsNoRow DEF Held
  <1>6. \A d \in DraftIds : kept'[d] \subseteq Held(drafts'[d])
    BY <1>3, <1>4, <1>5 DEF Keeping
  <1> QED
    BY <1>1, <1>4, <1>6 DEF Keeping

LEMMA NoWriteKeeps ==
  ASSUME OnboardingInv, Keeping, ~ Overlap, NEW h \in Handlers, pc[h] # "idle", End(h),
         UNCHANGED <<drafts, kept>>
  PROVE  Keeping'
  <1>1. \A g \in Handlers : pc'[g] = "idle"
    BY DEF OnboardingInv, RequestsSound, End, Overlap
  <1> QED
    BY <1>1 DEF Keeping

LEMMA OperationKeeps ==
  ASSUME OnboardingInv, Keeping, ~ Overlap, NEW h \in Handlers,
         SaveDraft(h) \/ GroundSpan(h) \/ RemoveEvidence(h) \/ SetStatus(h)
  PROVE  Keeping'
  <1>1. PICK d0 \in DraftIds : d0 = draft[h]
    BY DEF OnboardingInv, RequestsSound
  <1>2. PICK row : row = read[h]
    OBVIOUS
  <1>3. pc[h] # "idle" /\ End(h)
    BY DEF SaveDraft, GroundSpan, RemoveEvidence, SetStatus
  <1>4. row = drafts[d0] /\ kept[d0] \subseteq Held(row)
    BY <1>1, <1>2, <1>3 DEF Keeping
  <1>5. row # None => /\ row \in Rows
                      /\ row.evidence \in Seq(Spans)
                      /\ Held(row) = Cited(row.evidence)
    BY <1>2 DEF OnboardingInv, RequestsSound, Rows, Held
  <1>6. ASSUME row \in Rows, NEW ev \in Seq(Spans), NEW v \in BOOLEAN
        PROVE  /\ [row EXCEPT !.evidence = ev, !.publishable = v] \in Rows
               /\ [row EXCEPT !.evidence = ev, !.publishable = v].evidence = ev
    BY <1>6 DEF Rows
  <1>7. \A ev : row \in Rows => evaluate_draft(row.proposed, ev) \in BOOLEAN
    BY OnboardingAssumptions DEF evaluate_draft, Rows
  <1>8. CASE SaveDraft(h)
    <2>1. PICK ev : ev = IF row = None THEN <<>> ELSE row.evidence
      OBVIOUS
    <2>2. ev \in Seq(Spans) /\ kept[d0] \subseteq Cited(ev)
      BY <1>4, <1>5, <2>1 DEF Held
    <2>3. input[h] \in Policies
      BY <1>8 DEF SaveDraft, OnboardingInv, RequestsSound
    <2>4. PICK r : r = build_draft(input[h], ev)
      OBVIOUS
    <2>5. r \in Rows /\ r.evidence = ev
      BY <2>2, <2>3, <2>4, OnboardingAssumptions DEF build_draft, Row, Rows, evaluate_draft
    <2>6. upsert(h, r) /\ kept' = kept
      BY <1>2, <1>8, <2>1, <2>4 DEF SaveDraft
    <2>7. kept' = [kept EXCEPT ![draft[h]] = kept[d0]]
      BY <1>1, <2>6 DEF Keeping
    <2> QED
      BY <1>3, <2>2, <2>5, <2>6, <2>7, WriteKeeps
  <1>9. CASE GroundSpan(h)
    <2>1. row \in Rows /\ input[h] \in Spans
      BY <1>2, <1>5, <1>9 DEF GroundSpan, OnboardingInv, RequestsSound
    <2>2. CASE Grounds(input[h]) /\ Len(row.evidence) < MaxEvidence
      <3>1. PICK old \in Seq(Spans) : old = row.evidence
        BY <1>5, <2>1, NoneIsNoRow
      <3>2. PICK ev : ev = Append(old, input[h])
        OBVIOUS
      <3>3. ev \in Seq(Spans) /\ Cited(old) \cup {input[h]} \subseteq Cited(ev)
        BY <2>1, <3>1, <3>2 DEF Cited
      <3>4. PICK r : r = [row EXCEPT !.evidence = ev,
                                     !.publishable = evaluate_draft(row.proposed, ev)]
        OBVIOUS
      <3>5. r \in Rows /\ r.evidence = ev
        BY <1>6, <1>7, <2>1, <3>3, <3>4
      <3>6. upsert(h, r) /\ kept' = [kept EXCEPT ![draft[h]] = kept[d0] \cup {input[h]}]
        BY <1>1, <1>2, <1>9, <2>2, <3>1, <3>2, <3>4 DEF GroundSpan
      <3>7. kept[d0] \cup {input[h]} \subseteq Cited(r.evidence)
        BY <1>4, <1>5, <2>1, <3>1, <3>3, <3>5, NoneIsNoRow
      <3> QED
        BY <1>3, <3>5, <3>6, <3>7, WriteKeeps
    <2>3. CASE ~ (Grounds(input[h]) /\ Len(row.evidence) < MaxEvidence)
      BY <1>2, <1>3, <1>9, <2>3, NoWriteKeeps DEF GroundSpan
    <2> QED
      BY <2>2, <2>3
  <1>10. CASE RemoveEvidence(h)
    <2>1. row \in Rows
      BY <1>2, <1>5, <1>10 DEF RemoveEvidence, OnboardingInv, RequestsSound
    <2>2. CASE input[h] \in DOMAIN row.evidence
      <3>1. PICK old \in Seq(Spans) : old = row.evidence
        BY <1>5, <2>1, NoneIsNoRow
      <3>2. PICK ev : ev = Without(old, input[h])
        OBVIOUS
      <3>3. ev \in Seq(Spans)
        BY <2>2, <3>1, <3>2, WithoutSubset
      <3>4. Cited(old) \ {old[input[h]]} \subseteq Cited(ev)
        BY <2>2, <3>1, <3>2, WithoutKeeps
      <3>5. PICK r : r = [row EXCEPT !.evidence = ev,
                                     !.publishable = evaluate_draft(row.proposed, ev)]
        OBVIOUS
      <3>6. r \in Rows /\ r.evidence = ev
        BY <1>6, <1>7, <2>1, <3>3, <3>5
      <3>7. upsert(h, r) /\ kept' = [kept EXCEPT ![draft[h]] = kept[d0] \ {old[input[h]]}]
        BY <1>1, <1>2, <1>10, <2>2, <3>1, <3>2, <3>5 DEF RemoveEvidence
      <3>8. kept[d0] \ {old[input[h]]} \subseteq Cited(r.evidence)
        BY <1>4, <1>5, <2>1, <3>1, <3>4, <3>6, NoneIsNoRow
      <3> QED
        BY <1>3, <3>6, <3>7, <3>8, WriteKeeps
    <2>3. CASE input[h] \notin DOMAIN row.evidence
      BY <1>2, <1>3, <1>10, <2>3, NoWriteKeeps DEF RemoveEvidence
    <2> QED
      BY <2>2, <2>3
  <1>11. CASE SetStatus(h)
    <2>1. row \in Rows /\ input[h] \in {"draft", "accepted", "rejected"}
      BY <1>2, <1>5, <1>11 DEF SetStatus, OnboardingInv, RequestsSound
    <2>2. CASE input[h] = "accepted" /\ ~ row.publishable
      BY <1>2, <1>3, <1>11, <2>2, NoWriteKeeps DEF SetStatus
    <2>3. CASE ~ (input[h] = "accepted" /\ ~ row.publishable)
      <3>1. PICK r : r = [row EXCEPT !.status = input[h]]
        OBVIOUS
      <3>2. r \in Rows /\ r.evidence = row.evidence
        BY <2>1, <3>1 DEF Rows
      <3>3. upsert(h, r) /\ kept' = kept
        BY <1>2, <1>11, <2>3, <3>1 DEF SetStatus
      <3>4. kept' = [kept EXCEPT ![draft[h]] = kept[d0]]
        BY <1>1, <3>3 DEF Keeping
      <3>5. kept[d0] \subseteq Cited(r.evidence)
        BY <1>4, <1>5, <2>1, <3>2, NoneIsNoRow
      <3> QED
        BY <1>3, <3>2, <3>3, <3>4, <3>5, WriteKeeps
    <2> QED
      BY <2>2, <2>3
  <1> QED
    BY <1>8, <1>9, <1>10, <1>11

LEMMA StepKeeps ==
  ASSUME OnboardingInv, Keeping, ~ Overlap, [Next]_vars
  PROVE  Keeping'
  <1>1. ASSUME NEW h \in Handlers, NEW op \in Operations, NEW d \in DraftIds,
               NEW x \in Requests(op), Get(h, op, d, x)
        PROVE  Keeping'
    <2>1. UNCHANGED <<drafts, kept>>
      BY <1>1 DEF Get
    <2>2. \A g \in Handlers : /\ g # h => /\ pc'[g] = pc[g] /\ draft'[g] = draft[g]
                                          /\ read'[g] = read[g]
                              /\ g = h => read'[g] = drafts[d] /\ draft'[g] = d
      BY <1>1 DEF Get, OnboardingInv, RequestsSound
    <2> QED
      BY <2>1, <2>2 DEF Keeping
  <1>2. CASE UNCHANGED <<drafts, kept, pc, read, draft>>
    BY <1>2 DEF Keeping
  <1>3. (\E s \in Sources : Upload(s)) \/ Assemble \/ UNCHANGED vars
          => UNCHANGED <<drafts, kept, pc, read, draft>>
    BY DEF Upload, Assemble, vars
  <1> QED
    BY <1>1, <1>2, <1>3, OperationKeeps DEF Next

LEMMA AloneInvariance == MCSpec => [](OnboardingInv /\ (alone => Keeping /\ ~ Overlap))
  <1>1. MCInit => OnboardingInv /\ Keeping /\ ~ Overlap
    <2>1. Init => Keeping /\ ~ Overlap
      BY DEF Init, Keeping, Overlap
    <2> QED
      BY <2>1, InitInv DEF MCInit
  <1>2. OnboardingInv /\ [Next]_vars => OnboardingInv'
    BY OnboardingStep
  <1>3. ASSUME OnboardingInv, alone => Keeping /\ ~ Overlap, [MCNext]_<<vars, alone, scope>>
        PROVE  OnboardingInv' /\ (alone' => Keeping' /\ ~ Overlap')
    <2>1. CASE UNCHANGED <<vars, alone, scope>>
      <3>1. UNCHANGED vars /\ alone' = alone
        BY <2>1
      <3>2. ~ Overlap => ~ Overlap'
        BY <3>1 DEF vars, Overlap
      <3> QED
        BY <1>2, <1>3, <3>1, <3>2, StepKeeps, Zenon
    <2>2. CASE MCNext
      <3>1. Next /\ (alone' => alone /\ ~ Overlap')
        BY <2>2, Zenon DEF MCNext
      <3> QED
        BY <1>2, <1>3, <3>1, StepKeeps, Zenon
    <2> QED
      BY <1>3, <2>1, <2>2
  <1> QED
    BY <1>1, <1>3, PTL DEF MCSpec

(* Where operations follow one another, no acknowledged citation is lost,  *)
(* for any number of reviewers, drafts and citations.                      *)
THEOREM AlwaysPreservedAlone == MCSpec => []EvidencePreservedAlone
  <1>1. (alone => Keeping /\ ~ Overlap) => EvidencePreservedAlone
    BY DEF Keeping, Held, EvidencePreserved, EvidencePreservedAlone
  <1> QED
    BY <1>1, AloneInvariance, PTL
=============================================================================
