------------------------- MODULE MCBundleLifecycle -------------------------
(* Small instances of BundleLifecycle for TLC. *)
EXTENDS BundleLifecycle, TLC

VARIABLE alone  \* no two calls have overlapped, and none stopped half-way

MCSymmetry ==
  Permutations(Threads) \cup Permutations(RecordIds) \cup Permutations(Hashes)

Overlap == \E t, u \in Threads : t # u /\ pc[t] # "idle" /\ pc[u] # "idle"

AloneInit == Init /\ alone = TRUE

AloneNext ==
  \/ Work /\ alone' = (alone /\ ~ Overlap')
  \/ (\E t \in Threads : Stop(t)) /\ alone' = FALSE

AloneSpec == AloneInit /\ [][AloneNext]_<<vars, alone>>

(* Where lifecycle calls follow one another and come to their end, exactly *)
(* one bundle is published, the active one.                                *)
ExactlyOnePublishedAlone == alone => ExactlyOnePublished

(***************************************************************************)
(* The inductive invariant of ExactlyOnePublishedAlone: what the one call  *)
(* under way has done of its change.                                       *)
(***************************************************************************)
Published == {r \in Ids : rows[r].status = "published"}

Pointed == {active_id} \ {None}

(* It has not changed a status yet. *)
Before == {"idle", "add", "publish_active", "publish_gate", "publish_update",
           "activate_active", "activate_retire"}

(* What it saw is the bundle that is active, and not the one it publishes. *)
Replacing == {"publish_gate", "publish_update", "publish_retire", "activate_retire"}

Progress(t) ==
  LET mine == record[t].record_id IN
    /\ pc[t] \in Before => Published = Pointed
    /\ pc[t] = "publish_retire" => Published = Pointed \cup {mine}
    /\ pc[t] = "activate_update" => Published \subseteq {mine}
    /\ pc[t] = "set_active" => Published = {mine}
    /\ pc[t] \in Replacing => current[t] = active /\ active_id # mine
    /\ pc[t] = "add" => record[t].status = "draft"
    /\ pc[t] \in {"publish_update", "publish_retire"} => record[t].status = "published"

AloneInv ==
  alone => /\ ~ Overlap
           /\ \A t \in Threads : pc[t] # "idle" => Progress(t)
           /\ ExactlyOnePublished
=============================================================================
