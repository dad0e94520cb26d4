---------------------------- MODULE MCOnboarding ----------------------------
(* Small instances of Onboarding for TLC. *)
EXTENDS Onboarding

CONSTANTS h1, h2, d1, d2

VARIABLES
  alone,  \* no two operations have overlapped
  scope   \* the drafts each reviewer works on

MCSources == {"sop"}

MCSpans == {[source |-> "sop", exact |-> TRUE], [source |-> "sop", exact |-> FALSE]}

(* A policy, an edit of it that is not valid, another policy that uses its *)
(* fact with another type, and one that goes with both.                    *)
MCPolicies ==
  {[id |-> "a", workflow |-> "refund", uses |-> {<<"amount", "number">>}, valid |-> TRUE],
   [id |-> "a", workflow |-> "refund", uses |-> {<<"amount", "number">>}, valid |-> FALSE],
   [id |-> "b", workflow |-> "refund", uses |-> {<<"amount", "string">>}, valid |-> TRUE],
   [id |-> "c", workflow |-> "refund", uses |-> {<<"tier", "string">>}, valid |-> TRUE]}

(* Two reviewers on one draft, or one reviewer on two drafts. *)
Scopes ==
  {[h \in Handlers |-> {d1}],
   [h \in Handlers |-> IF h = h1 THEN {d1, d2} ELSE {}]}

Overlap == \E g, h \in Handlers : g # h /\ pc[g] # "idle" /\ pc[h] # "idle"

MCInit ==
  /\ Init /\ draft = [h \in Handlers |-> d1]
  /\ alone = TRUE
  /\ scope \in Scopes

MCNext ==
  /\ Next
  /\ \A h \in Handlers : pc'[h] # "idle" => draft'[h] \in scope[h]
  /\ alone' = (alone /\ ~ Overlap')
  /\ UNCHANGED scope

MCSpec == MCInit /\ [][MCNext]_<<vars, alone, scope>>

(* Where operations follow one another, no acknowledged citation is lost.  *)
EvidencePreservedAlone == alone => EvidencePreserved
=============================================================================
