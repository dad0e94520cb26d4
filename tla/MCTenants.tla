----------------------------- MODULE MCTenants -----------------------------
(* Small instances of Tenants for TLC. *)
EXTENDS Tenants, TLC

CONSTANTS h1, h2, k1, k2, k3, k4

VARIABLE alone  \* no two requests have overlapped, and none stopped half-way

MCKeys == {k1, k2, k3, k4}

Symmetry == Permutations({h1, h2}) \cup Permutations(MCKeys)

Overlap == \E g, h \in Handlers : g # h /\ pc[g] # "idle" /\ pc[h] # "idle"

MCInit == Init /\ alone = TRUE

MCNext == Next /\ alone' = (alone /\ ~ Overlap' /\ stops' = 0)

MCSpec == MCInit /\ [][MCNext]_<<vars, alone>>

(* Where requests follow one another and come to their end, a tenant keeps *)
(* an owner key, and its deletion leaves no key behind.                    *)
AdministrableAlone == alone => Administrable

PurgeCompleteAlone == alone => PurgeComplete
=============================================================================
