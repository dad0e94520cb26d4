---------------------------- MODULE PublishGate ----------------------------
(***************************************************************************)
(* What the bundle lifecycle promises an auditor (the module docstring of  *)
(* backend/bundle/lifecycle.py): the content that is live in a company     *)
(* changes only to content whose replay an owner acknowledged before, and  *)
(* an acknowledgement is never taken back.                                 *)
(***************************************************************************)
CONSTANTS Hashes, None

VARIABLES
  live,            \* content hash of the live bundle, None before the first
  acknowledged     \* content hashes with an acknowledged replay run

Init == live = None /\ acknowledged = {}

Acknowledge(h) ==
  /\ acknowledged' = acknowledged \cup {h}
  /\ UNCHANGED live

GoLive(h) ==
  /\ h \in acknowledged
  /\ live' = h
  /\ UNCHANGED acknowledged

Next == \E h \in Hashes : Acknowledge(h) \/ GoLive(h)

Spec == Init /\ [][Next]_<<live, acknowledged>>
=============================================================================
