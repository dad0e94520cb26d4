---------------------------- MODULE Onboarding ----------------------------
(***************************************************************************)
(* OnboardingService over PgDraftStore and the sources of one company      *)
(* (backend/onboarding/service.py, drafts.py, sources.py): reviewers edit  *)
(* drafts, ground them in sources, accept them, and assemble a bundle.     *)
(* Every operation on a draft reads its row and later writes a whole row   *)
(* back, in transactions of their own.                                     *)
(***************************************************************************)
EXTENDS Sequences, Naturals

CONSTANTS
  Handlers,     \* request threads
  DraftIds,
  Sources,      \* documents that may be uploaded
  Spans,        \* claimed citations: [source, exact]
  Policies,     \* proposed policies: [id, workflow, uses, valid]
  MaxEvidence,  \* bound: citations on a draft
  None

ASSUME OnboardingAssumptions ==
  /\ \A s \in Spans : s.source \in Sources /\ s.exact \in BOOLEAN
  /\ \A p \in Policies : p.valid \in BOOLEAN
  /\ MaxEvidence \in Nat

VARIABLES
  sources,    \* sources that were uploaded
  drafts,     \* each draft: its row, or None
  pc,         \* where each handler is: "idle", or the operation it is in
  draft,      \* the draft it works on
  read,       \* the row it read, or None
  input,      \* the policy, span, index or status of its request
  kept,       \* citations acknowledged on each draft and not removed since
  assembled   \* the bundle assembled last: a set of [policy, evidence]

vars == <<sources, drafts, pc, draft, read, input, kept, assembled>>

Cited(ev) == {ev[i] : i \in DOMAIN ev}

(* evaluate_draft: Policy.model_validate, and a citation at least. *)
evaluate_draft(p, ev) == p.valid /\ ev # <<>>

Row(p, ev, status, publishable) ==
  [proposed |-> p, evidence |-> ev, status |-> status, publishable |-> publishable]

build_draft(p, ev) == Row(p, ev, "draft", evaluate_draft(p, ev))

Without(ev, i) == SubSeq(ev, 1, i - 1) \o SubSeq(ev, i + 1, Len(ev))

Init ==
  /\ sources = {}
  /\ drafts = [d \in DraftIds |-> None]
  /\ pc = [h \in Handlers |-> "idle"]
  /\ draft \in [Handlers -> DraftIds]
  /\ read = [h \in Handlers |-> None]
  /\ input = [h \in Handlers |-> None]
  /\ kept = [d \in DraftIds |-> {}]
  /\ assembled = {}

Upload(s) ==
  /\ sources' = sources \cup {s}
  /\ UNCHANGED <<drafts, pc, draft, read, input, kept, assembled>>

(* Every operation begins with drafts.get; all but save_draft need a row. *)
Get(h, op, d, x) ==
  /\ pc[h] = "idle"
  /\ op # "save" => drafts[d] # None
  /\ pc' = [pc EXCEPT ![h] = op]
  /\ draft' = [draft EXCEPT ![h] = d]
  /\ read' = [read EXCEPT ![h] = drafts[d]]
  /\ input' = [input EXCEPT ![h] = x]
  /\ UNCHANGED <<sources, drafts, kept, assembled>>

(* The operation ends, with or without a change to the draft. *)
End(h) ==
  /\ pc' = [pc EXCEPT ![h] = "idle"]
  /\ read' = [read EXCEPT ![h] = None]
  /\ input' = [input EXCEPT ![h] = None]
  /\ UNCHANGED <<sources, draft, assembled>>

upsert(h, row) == drafts' = [drafts EXCEPT ![draft[h]] = row]

(* Mutants of SaveDraft: an accepted draft stays accepted; the evidence    *)
(* starts anew.                                                            *)
SaveDraftKeepsStatus(h) ==
  LET ev == IF read[h] = None THEN <<>> ELSE read[h].evidence
      st == IF read[h] = None THEN "draft" ELSE read[h].status
  IN  /\ pc[h] = "save"
      /\ upsert(h, Row(input[h], ev, st, evaluate_draft(input[h], ev)))
      /\ UNCHANGED kept
      /\ End(h)

SaveDraftAnew(h) ==
  /\ pc[h] = "save"
  /\ upsert(h, build_draft(input[h], <<>>))
  /\ UNCHANGED kept
  /\ End(h)

SaveDraft(h) ==
  /\ pc[h] = "save"
  /\ upsert(h, build_draft(input[h], IF read[h] = None THEN <<>> ELSE read[h].evidence))
  /\ UNCHANGED kept
  /\ End(h)

(* Mutant of Grounds: any excerpt of an uploaded source will do. *)
GroundsLoosely(s) == s.source \in sources

(* sources.get and ground_evidence: the excerpt is the text at the span. *)
Grounds(s) == s.source \in sources /\ s.exact

GroundSpan(h) ==
  /\ pc[h] = "ground"
  /\ IF Grounds(input[h]) /\ Len(read[h].evidence) < MaxEvidence
       THEN LET ev == Append(read[h].evidence, input[h])
            IN  /\ upsert(h, [read[h] EXCEPT !.evidence = ev,
                                !.publishable = evaluate_draft(read[h].proposed, ev)])
                /\ kept' = [kept EXCEPT ![draft[h]] = @ \cup {input[h]}]
       ELSE UNCHANGED <<drafts, kept>>
  /\ End(h)

RemoveEvidence(h) ==
  /\ pc[h] = "remove"
  /\ IF input[h] \in DOMAIN read[h].evidence
       THEN LET ev == Without(read[h].evidence, input[h])
            IN  /\ upsert(h, [read[h] EXCEPT !.evidence = ev,
                                !.publishable = evaluate_draft(read[h].proposed, ev)])
                /\ kept' = [kept EXCEPT ![draft[h]] = @ \ {read[h].evidence[input[h]]}]
       ELSE UNCHANGED <<drafts, kept>>
  /\ End(h)

SetStatus(h) ==
  /\ pc[h] = "status"
  /\ IF input[h] = "accepted" /\ ~ read[h].publishable
       THEN UNCHANGED drafts
       ELSE upsert(h, [read[h] EXCEPT !.status = input[h]])
  /\ UNCHANGED kept
  /\ End(h)

Accepted == {d \in DraftIds : drafts[d] # None /\ drafts[d].status = "accepted"}

(* Mutant of Validates: that a draft was accepted is trusted. *)
ValidatesAnything(d) == TRUE

Validates(d) == evaluate_draft(drafts[d].proposed, drafts[d].evidence)

(* _infer_workflows: no fact of a workflow is used with two types. *)
Inferable(ds) ==
  \A d, e \in ds :
    LET p == drafts[d].proposed
        q == drafts[e].proposed
    IN  p.workflow = q.workflow =>
          \A u \in p.uses, v \in q.uses : u[1] = v[1] => u[2] = v[2]

UniqueIds(ds) == \A d, e \in ds : drafts[d].proposed.id = drafts[e].proposed.id => d = e

(* assemble_bundle: drafts.list, once, and no other read. *)
Assemble ==
  /\ Accepted # {}
  /\ \A d \in Accepted : Validates(d)
  /\ Inferable(Accepted) /\ UniqueIds(Accepted)
  /\ assembled' =
       {[policy |-> drafts[d].proposed, evidence |-> Cited(drafts[d].evidence)] : d \in Accepted}
  /\ UNCHANGED <<sources, drafts, pc, draft, read, input, kept>>

Requests(op) ==
  CASE op = "save"   -> Policies
    [] op = "ground" -> Spans
    [] op = "remove" -> 1 .. MaxEvidence
    [] op = "status" -> {"draft", "accepted", "rejected"}

Operations == {"save", "ground", "remove", "status"}

Next ==
  \/ \E s \in Sources : Upload(s)
  \/ \E h \in Handlers, op \in Operations, d \in DraftIds : \E x \in Requests(op) : Get(h, op, d, x)
  \/ \E h \in Handlers : SaveDraft(h) \/ GroundSpan(h) \/ RemoveEvidence(h) \/ SetStatus(h)
  \/ Assemble

Spec == Init /\ [][Next]_vars

-----------------------------------------------------------------------------
(* Properties. *)

Rows ==
  [proposed : Policies, evidence : Seq(Spans),
   status : {"draft", "accepted", "rejected"}, publishable : BOOLEAN]

ASSUME NoneIsNoRow == None \notin Rows

IsRow(r) ==
  /\ DOMAIN r = {"proposed", "evidence", "status", "publishable"}
  /\ r.proposed \in Policies
  /\ Cited(r.evidence) \subseteq Spans
  /\ r.status \in {"draft", "accepted", "rejected"}
  /\ r.publishable = evaluate_draft(r.proposed, r.evidence)

(* The state has its type, and publishable, a cached verdict, is right in  *)
(* every row, whoever wrote it from whatever it had read.                  *)
TypeOK ==
  /\ sources \subseteq Sources
  /\ \A d \in DraftIds : drafts[d] = None \/ IsRow(drafts[d])
  /\ pc \in [Handlers -> Operations \cup {"idle"}]
  /\ draft \in [Handlers -> DraftIds]
  /\ \A h \in Handlers : read[h] = None \/ IsRow(read[h])
  /\ kept \in [DraftIds -> SUBSET Spans]

(* No citation without its source: every citation of a draft is the text   *)
(* of a source that is stored, through all edits and races.                *)
EvidenceExact ==
  \A d \in DraftIds :
    drafts[d] # None => \A s \in Cited(drafts[d].evidence) : s.source \in sources /\ s.exact

(* What was accepted is a valid policy: an edit takes the acceptance back. *)
AcceptedIsValid == \A d \in Accepted : drafts[d].proposed.valid

(* Nothing is assembled that is not valid and cited, and no two policies   *)
(* of a bundle have one id.                                                *)
AssembledGrounded ==
  /\ \A c \in assembled : c.policy.valid /\ c.evidence # {} /\ \A s \in c.evidence : s.exact
  /\ \A c, e \in assembled : c.policy.id = e.policy.id => c = e

(* A citation that was acknowledged stays on its draft until somebody      *)
(* removes it.                                                             *)
EvidencePreserved ==
  \A d \in DraftIds : drafts[d] # None => kept[d] \subseteq Cited(drafts[d].evidence)
=============================================================================
