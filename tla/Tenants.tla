------------------------------ MODULE Tenants ------------------------------
(***************************************************************************)
(* TenantService over PgTenantStore (backend/onboarding/tenants.py,        *)
(* backend/stores_pg.py) as the routes of backend/v1_api.py call it: one   *)
(* company is provisioned, its keys are issued, rotated and revoked, and   *)
(* it is deleted, one step for each call to the store.                     *)
(***************************************************************************)
EXTENDS Naturals, FiniteSets

CONSTANTS
  Handlers,  \* request threads
  Keys,      \* key ids; each is minted at most once
  MaxStops,  \* bound: handlers that stop half-way
  None

ASSUME TenantsAssumptions ==
  /\ None \notin Keys /\ IsFiniteSet(Keys)
  /\ MaxStops \in Nat

Roles == {"owner", "approver", "agent"}

VARIABLES
  tenant,  \* whether the row of companies exists
  keys,    \* each key: "unused", "active", "revoked", or "purged"
  role,    \* the role of each key
  pc,      \* where each handler is
  job,     \* what it does: "provision", "issue", "revoke", "delete"
  wanted,  \* the role to issue
  target,  \* the key to revoke
  stops    \* handlers that stopped

vars == <<tenant, keys, role, pc, job, wanted, target, stops>>

Init ==
  /\ tenant = FALSE
  /\ keys = [k \in Keys |-> "unused"]
  /\ role = [k \in Keys |-> "agent"]
  /\ pc = [h \in Handlers |-> "idle"]
  /\ job = [h \in Handlers |-> "delete"]
  /\ wanted = [h \in Handlers |-> "owner"]
  /\ target = [h \in Handlers |-> None]
  /\ stops = 0

Goto(h, label) == pc' = [pc EXCEPT ![h] = label]

ActiveOwners == {k \in Keys : keys[k] = "active" /\ role[k] = "owner"}

(* provision: add_tenant refuses a company that exists. *)
Provision(h) ==
  /\ pc[h] = "idle" /\ ~ tenant
  /\ tenant' = TRUE
  /\ job' = [job EXCEPT ![h] = "provision"]
  /\ wanted' = [wanted EXCEPT ![h] = "owner"]
  /\ Goto(h, "lookup")
  /\ UNCHANGED <<keys, role, target, stops>>

(* require("owner"): the key resolves when the request comes in. *)
Authorize(h) ==
  /\ pc[h] = "idle" /\ ActiveOwners # {}
  /\ Goto(h, "authorized")
  /\ UNCHANGED <<tenant, keys, role, job, wanted, target, stops>>

Issue(h, r) ==
  /\ pc[h] = "authorized"
  /\ job' = [job EXCEPT ![h] = "issue"]
  /\ wanted' = [wanted EXCEPT ![h] = r]
  /\ Goto(h, "lookup")
  /\ UNCHANGED <<tenant, keys, role, target, stops>>

(* issue_key: get_tenant, then add_key, in transactions of their own. *)
LookupTenant(h) ==
  /\ pc[h] = "lookup"
  /\ Goto(h, IF tenant THEN "add" ELSE "idle")
  /\ UNCHANGED <<tenant, keys, role, job, wanted, target, stops>>

(* Mutant of AddKey: a key id may be one that is in use. *)
AddKeyAnyId(h) ==
  /\ pc[h] = "add"
  /\ \E k \in Keys : /\ keys' = [keys EXCEPT ![k] = "active"]
                     /\ role' = [role EXCEPT ![k] = wanted[h]]
  /\ Goto(h, "idle")
  /\ UNCHANGED <<tenant, job, wanted, target, stops>>

AddKey(h) ==
  /\ pc[h] = "add"
  /\ \E k \in Keys : /\ keys[k] = "unused"
                     /\ keys' = [keys EXCEPT ![k] = "active"]
                     /\ role' = [role EXCEPT ![k] = wanted[h]]
  /\ Goto(h, "idle")
  /\ UNCHANGED <<tenant, job, wanted, target, stops>>

(* revoke_key: get_key; only an active owner key is guarded. *)
RevokeGet(h, k) ==
  /\ pc[h] = "authorized" /\ keys[k] \in {"active", "revoked"}
  /\ job' = [job EXCEPT ![h] = "revoke"]
  /\ target' = [target EXCEPT ![h] = k]
  /\ Goto(h, IF k \in ActiveOwners THEN "count" ELSE "revoke")
  /\ UNCHANGED <<tenant, keys, role, wanted, stops>>

(* Mutant of RevokeCount: the last active owner key may go. *)
RevokeUncounted(h) ==
  /\ pc[h] = "count"
  /\ Goto(h, "revoke")
  /\ UNCHANGED <<tenant, keys, role, job, wanted, target, stops>>

(* ... list_keys: the last active owner key is not revoked. *)
RevokeCount(h) ==
  /\ pc[h] = "count"
  /\ Goto(h, IF Cardinality(ActiveOwners) > 1 THEN "revoke" ELSE "idle")
  /\ UNCHANGED <<tenant, keys, role, job, wanted, target, stops>>

(* ... and the update, which finds no row when the tenant was deleted. *)
RevokeKey(h) ==
  /\ pc[h] = "revoke"
  /\ keys' = [keys EXCEPT ![target[h]] = IF @ = "active" THEN "revoked" ELSE @]
  /\ Goto(h, "idle")
  /\ UNCHANGED <<tenant, role, job, wanted, target, stops>>

(* Container.delete_tenant looks the tenant up first. *)
DeleteGet(h) ==
  /\ pc[h] = "idle" /\ tenant
  /\ job' = [job EXCEPT ![h] = "delete"]
  /\ Goto(h, "purge")
  /\ UNCHANGED <<tenant, keys, role, wanted, target, stops>>

(* Mutant of DeletePurge: the keys that were revoked stay. *)
DeletePurgeActive(h) ==
  /\ pc[h] = "purge"
  /\ keys' = [k \in Keys |-> IF keys[k] = "active" THEN "purged" ELSE keys[k]]
  /\ tenant' = FALSE
  /\ Goto(h, "idle")
  /\ UNCHANGED <<role, job, wanted, target, stops>>

(* PgTenantStore.delete_tenant, one transaction. *)
DeletePurge(h) ==
  /\ pc[h] = "purge"
  /\ keys' = [k \in Keys |-> IF tenant /\ keys[k] # "unused" THEN "purged" ELSE keys[k]]
  /\ tenant' = FALSE
  /\ Goto(h, "idle")
  /\ UNCHANGED <<role, job, wanted, target, stops>>

(* The process stops; what is in the database stays. *)
Stop(h) ==
  /\ pc[h] # "idle" /\ stops < MaxStops
  /\ stops' = stops + 1
  /\ Goto(h, "idle")
  /\ UNCHANGED <<tenant, keys, role, job, wanted, target>>

Next ==
  \E h \in Handlers :
    \/ Provision(h) \/ Authorize(h) \/ LookupTenant(h) \/ AddKey(h)
    \/ \E r \in Roles : Issue(h, r)
    \/ \E k \in Keys : RevokeGet(h, k)
    \/ RevokeCount(h) \/ RevokeKey(h)
    \/ DeleteGet(h) \/ DeletePurge(h)
    \/ Stop(h)

Spec == Init /\ [][Next]_vars

-----------------------------------------------------------------------------
(* Properties. *)

TypeOK ==
  /\ tenant \in BOOLEAN
  /\ keys \in [Keys -> {"unused", "active", "revoked", "purged"}]
  /\ role \in [Keys -> Roles]
  /\ pc \in [Handlers -> {"idle", "authorized", "lookup", "add", "count", "revoke", "purge"}]
  /\ job \in [Handlers -> {"provision", "issue", "revoke", "delete"}]
  /\ wanted \in [Handlers -> Roles]
  /\ target \in [Handlers -> Keys \cup {None}]
  /\ \A h \in Handlers : pc[h] \in {"count", "revoke"} => target[h] \in Keys
  /\ stops \in 0 .. MaxStops

(* Provision is under way: the tenant waits for its first key. *)
Provisioning == \E h \in Handlers : job[h] = "provision" /\ pc[h] \in {"lookup", "add"}

(* A tenant that is provisioned always has an active owner key: nobody is  *)
(* locked out of the administration of a company.                          *)
Administrable == tenant /\ ~ Provisioning => ActiveOwners # {}

(* Deleting a tenant leaves none of its keys behind. *)
PurgeComplete == tenant \/ \A k \in Keys : keys[k] \in {"unused", "purged"}

(* Whatever races with what, a revoked key never works again. *)
RevocationLasts ==
  [][\A k \in Keys : keys[k] \in {"revoked", "purged"} => keys'[k] # "active"]_vars
=============================================================================
