--------------------------- MODULE TenantsProofs ---------------------------
(***************************************************************************)
(* Proofs about the keys of a company: what holds whatever races there     *)
(* are, and what holds as long as requests do not overlap.                 *)
(***************************************************************************)
EXTENDS MCTenants, FiniteSetTheorems, TLAPS

LEMMA InitTyped == Init => TypeOK
  <1> SUFFICES ASSUME Init PROVE TypeOK
    OBVIOUS
  <1>1. tenant \in BOOLEAN
    BY DEF Init
  <1>2. stops \in 0 .. MaxStops
    BY TenantsAssumptions DEF Init
  <1>3. role \in [Keys -> Roles] /\ wanted \in [Handlers -> Roles]
    BY DEF Init, Roles
  <1>4. \A h \in Handlers : pc[h] = "idle"
    BY DEF Init
  <1> QED
    BY <1>1, <1>2, <1>3, <1>4 DEF Init, TypeOK

LEMMA StepTyped == TypeOK /\ [Next]_vars => TypeOK'
  <1> SUFFICES ASSUME TypeOK, [Next]_vars PROVE TypeOK'
    OBVIOUS
  <1> USE TenantsAssumptions
  <1> USE DEF TypeOK, Roles, Goto
  <1>1. ASSUME NEW h \in Handlers, Provision(h) PROVE TypeOK'
    BY <1>1 DEF Provision
  <1>2. ASSUME NEW h \in Handlers, Authorize(h) PROVE TypeOK'
    BY <1>2 DEF Authorize
  <1>3. ASSUME NEW h \in Handlers, LookupTenant(h) PROVE TypeOK'
    BY <1>3 DEF LookupTenant
  <1>4. ASSUME NEW h \in Handlers, AddKey(h) PROVE TypeOK'
    BY <1>4 DEF AddKey
  <1>5. ASSUME NEW h \in Handlers, NEW r \in Roles, Issue(h, r) PROVE TypeOK'
    BY <1>5 DEF Issue
  <1>6. ASSUME NEW h \in Handlers, NEW k \in Keys, RevokeGet(h, k) PROVE TypeOK'
    BY <1>6 DEF RevokeGet
  <1>7. ASSUME NEW h \in Handlers, RevokeCount(h) PROVE TypeOK'
    BY <1>7 DEF RevokeCount
  <1>8. ASSUME NEW h \in Handlers, RevokeKey(h) PROVE TypeOK'
    BY <1>8 DEF RevokeKey
  <1>9. ASSUME NEW h \in Handlers, DeleteGet(h) PROVE TypeOK'
    BY <1>9 DEF DeleteGet
  <1>10. ASSUME NEW h \in Handlers, DeletePurge(h) PROVE TypeOK'
    BY <1>10 DEF DeletePurge
  <1>11. ASSUME NEW h \in Handlers, Stop(h) PROVE TypeOK'
    BY <1>11 DEF Stop
  <1>12. CASE UNCHANGED vars
    BY <1>12 DEF vars
  <1> QED
    BY <1>1, <1>2, <1>3, <1>4, <1>5, <1>6, <1>7, <1>8, <1>9, <1>10, <1>11, <1>12 DEF Next

(* The state has its type, for any number of handlers and keys. *)
THEOREM TypeCorrect == Spec => []TypeOK
  BY InitTyped, StepTyped, PTL DEF Spec

(* A revoked key never works again, whatever races with the revocation. *)
THEOREM RevocationsLast == Spec => RevocationLasts
  <1>1. ASSUME TypeOK, [Next]_vars, NEW k \in Keys, keys[k] \in {"revoked", "purged"}
        PROVE  keys'[k] # "active"
    BY <1>1
       DEF TypeOK, Next, vars, Provision, Authorize, LookupTenant, AddKey, Issue, RevokeGet,
           RevokeCount, RevokeKey, DeleteGet, DeletePurge, Stop
  <1>2. TypeOK /\ [Next]_vars
          => [\A k \in Keys : keys[k] \in {"revoked", "purged"} => keys'[k] # "active"]_vars
    BY <1>1
  <1> QED
    BY <1>2, TypeCorrect, PTL DEF Spec, RevocationLasts

-----------------------------------------------------------------------------
(* Requests that do not overlap and do not stop half-way. *)

(* What the steps of a request have established. *)
RequestInv ==
  \A h \in Handlers :
    /\ pc[h] \in {"authorized", "count"} => ActiveOwners # {}
    /\ pc[h] = "revoke" => ActiveOwners \ {target[h]} # {}
    /\ pc[h] \in {"add", "purge"} => tenant
    /\ job[h] = "provision" => wanted[h] = "owner"

SerialInv == TypeOK /\ RequestInv /\ Administrable /\ PurgeComplete

LEMMA AnotherOwner ==
  ASSUME TypeOK, Cardinality(ActiveOwners) > 1, NEW k
  PROVE  ActiveOwners \ {k} # {}
  <1>1. IsFiniteSet(ActiveOwners)
    <2>1. ActiveOwners \in SUBSET Keys
      BY DEF ActiveOwners
    <2> HIDE DEF ActiveOwners
    <2> QED
      BY <2>1, TenantsAssumptions, FS_Subset
  <1>2. ASSUME ActiveOwners \subseteq {k} PROVE FALSE
    <2>1. ActiveOwners = {} \/ ActiveOwners = {k}
      BY <1>2
    <2>2. Cardinality({}) = 0 /\ Cardinality({k}) = 1
      BY FS_EmptySet, FS_Singleton
    <2> QED
      BY <2>1, <2>2
  <1> QED
    BY <1>2

LEMMA SerialStep ==
  ASSUME SerialInv, NEW h \in Handlers,
         \A g \in Handlers : g # h => pc[g] = "idle" /\ pc'[g] = "idle",
         \/ Provision(h) \/ Authorize(h) \/ LookupTenant(h) \/ AddKey(h)
         \/ \E r \in Roles : Issue(h, r)
         \/ \E k \in Keys : RevokeGet(h, k)
         \/ RevokeCount(h) \/ RevokeKey(h)
         \/ DeleteGet(h) \/ DeletePurge(h)
  PROVE  SerialInv'
  <1> USE TenantsAssumptions DEF SerialInv
  <1>1. TypeOK'
    BY StepTyped DEF Next
  <1> USE <1>1
      DEF RequestInv, Administrable, PurgeComplete, Provisioning, ActiveOwners, Goto, TypeOK
  <1>2. CASE Provision(h)
    BY <1>2 DEF Provision
  <1>3. CASE Authorize(h)
    BY <1>3 DEF Authorize
  <1>4. CASE LookupTenant(h)
    BY <1>4 DEF LookupTenant
  <1>5. CASE AddKey(h)
    BY <1>5 DEF AddKey
  <1>6. ASSUME NEW r \in Roles, Issue(h, r) PROVE SerialInv'
    BY <1>6 DEF Issue
  <1>7. ASSUME NEW k \in Keys, RevokeGet(h, k) PROVE SerialInv'
    BY <1>7 DEF RevokeGet
  <1>8. CASE RevokeCount(h)
    <2>1. Cardinality(ActiveOwners) > 1 => ActiveOwners \ {target[h]} # {}
      BY AnotherOwner DEF SerialInv
    <2>2. PICK label \in {"revoke", "idle"} :
            Goto(h, label) /\ (label = "revoke" => Cardinality(ActiveOwners) > 1)
      <3> HIDE DEF ActiveOwners, Goto
      <3> QED
        BY <1>8 DEF RevokeCount
    <2>3. /\ label = "revoke" => ActiveOwners \ {target[h]} # {}
          /\ pc[h] = "count"
          /\ UNCHANGED <<tenant, keys, role, job, wanted, target, stops>>
      BY <1>8, <2>1, <2>2, Zenon DEF RevokeCount
    <2> QED
      BY <2>2, <2>3
  <1>9. CASE RevokeKey(h)
    BY <1>9 DEF RevokeKey
  <1>10. CASE DeleteGet(h)
    BY <1>10 DEF DeleteGet
  <1>11. CASE DeletePurge(h)
    BY <1>11 DEF DeletePurge
  <1> QED
    BY <1>2, <1>3, <1>4, <1>5, <1>6, <1>7, <1>8, <1>9, <1>10, <1>11

(* Who moves is alone in the state it moves from and in the next one. *)
LEMMA OthersIdle ==
  ASSUME TypeOK, NEW h \in Handlers, ~ Overlap, ~ Overlap', pc[h] # "idle" \/ pc'[h] # "idle",
         \A g \in Handlers : g # h => pc'[g] = pc[g]
  PROVE  \A g \in Handlers : g # h => pc[g] = "idle" /\ pc'[g] = "idle"
  BY DEF Overlap

LEMMA AloneStep ==
  ASSUME TypeOK, alone => SerialInv /\ ~ Overlap, [MCNext]_<<vars, alone>>, alone'
  PROVE  SerialInv' /\ ~ Overlap'
  <1>1. CASE UNCHANGED <<vars, alone>>
    BY <1>1 DEF vars, SerialInv, TypeOK, RequestInv, Administrable, PurgeComplete,
                Provisioning, ActiveOwners, Overlap
  <1>2. CASE MCNext
    <2>1. alone /\ ~ Overlap' /\ stops' = 0 /\ Next /\ stops \in Nat
      <3>1. stops \in Nat
        BY TenantsAssumptions DEF TypeOK
      <3> QED
        BY <1>2, <3>1, Zenon DEF MCNext
    <2>2. PICK h \in Handlers :
            \/ Provision(h) \/ Authorize(h) \/ LookupTenant(h) \/ AddKey(h)
            \/ \E r \in Roles : Issue(h, r)
            \/ \E k \in Keys : RevokeGet(h, k)
            \/ RevokeCount(h) \/ RevokeKey(h)
            \/ DeleteGet(h) \/ DeletePurge(h)
      <3>1. \A h \in Handlers : ~ Stop(h)
        BY <2>1 DEF Stop
      <3> QED
        BY <2>1, <3>1 DEF Next
    <2>3. \E label : pc' = [pc EXCEPT ![h] = label]
      BY <2>2, Zenon
         DEF Goto, Provision, Authorize, LookupTenant, AddKey, Issue, RevokeGet, RevokeCount,
             RevokeKey, DeleteGet, DeletePurge
    <2>4. pc[h] # "idle" \/ pc'[h] # "idle"
      BY <2>2
         DEF TypeOK, Goto, Provision, Authorize, LookupTenant, AddKey, Issue, RevokeGet,
             RevokeCount, RevokeKey, DeleteGet, DeletePurge
    <2>5. \A g \in Handlers : g # h => pc'[g] = pc[g]
      BY <2>3 DEF TypeOK
    <2>6. \A g \in Handlers : g # h => pc[g] = "idle" /\ pc'[g] = "idle"
      BY <2>1, <2>4, <2>5, OthersIdle
    <2> QED
      BY <2>1, <2>2, <2>6, SerialStep
  <1> QED
    BY <1>1, <1>2

LEMMA AloneInvariance == MCSpec => [](alone => SerialInv)
  <1>1. MCInit => TypeOK /\ SerialInv /\ ~ Overlap
    <2> SUFFICES ASSUME MCInit PROVE TypeOK /\ SerialInv /\ ~ Overlap
      OBVIOUS
    <2>1. TypeOK
      BY InitTyped DEF MCInit
    <2>2. RequestInv /\ Administrable /\ PurgeComplete /\ ~ Overlap
      BY DEF MCInit, Init, RequestInv, Administrable, PurgeComplete, Overlap
    <2> QED
      BY <2>1, <2>2 DEF SerialInv
  <1>2. TypeOK /\ [MCNext]_<<vars, alone>> => TypeOK'
    BY StepTyped DEF MCNext
  <1>3. TypeOK /\ (alone => SerialInv /\ ~ Overlap) /\ [MCNext]_<<vars, alone>>
          => (alone => SerialInv /\ ~ Overlap)'
    BY AloneStep
  <1> QED
    BY <1>1, <1>2, <1>3, PTL DEF MCSpec

(* Where requests follow one another and come to their end, nobody is      *)
(* locked out of a company, for any number of handlers and keys.           *)
THEOREM AlwaysAdministrableAlone == MCSpec => []AdministrableAlone
  <1>1. (alone => SerialInv) => AdministrableAlone
    BY DEF SerialInv, AdministrableAlone
  <1> QED
    BY <1>1, AloneInvariance, PTL

(* Nor does the deletion of a company leave a key of it behind. *)
THEOREM AlwaysPurgedAlone == MCSpec => []PurgeCompleteAlone
  <1>1. (alone => SerialInv) => PurgeCompleteAlone
    BY DEF SerialInv, PurgeCompleteAlone
  <1> QED
    BY <1>1, AloneInvariance, PTL
=============================================================================
