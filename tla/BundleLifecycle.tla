-------------------------- MODULE BundleLifecycle --------------------------
(***************************************************************************)
(* BundleLifecycle (backend/bundle/lifecycle.py) over a bundle store and a *)
(* replay run store, for one company: drafts are saved, replayed, their    *)
(* replays acknowledged, and published; a published bundle can be          *)
(* activated again.                                                        *)
(*                                                                         *)
(* Every call on a store is atomic (a lock or a transaction of its own);   *)
(* publish and activate make up to six of them and hold nothing in         *)
(* between, so each is a step, and what a handler read stays in its        *)
(* registers while others go on.  A handler may stop after any step.       *)
(* Signing, who did it and when are left out: no step depends on them.     *)
(***************************************************************************)
EXTENDS Naturals, Sequences

CONSTANTS
  Threads,      \* request handlers
  RecordIds,    \* uuid4 values of bundle records
  Hashes,       \* content hashes
  UniqueHash,   \* the store refuses a second record of a hash (Postgres)
  MaxRuns,      \* bound: replay runs ever made
  None

(* published stands for published_at # None. *)
Records ==
  [record_id     : RecordIds,
   content_hash  : Hashes,
   status        : {"draft", "published", "retired"},
   published     : BOOLEAN,
   replay_run_id : (1 .. MaxRuns) \cup {None}]

ASSUME BundleAssumptions ==
  /\ None \notin RecordIds \cup Hashes \cup Records
  /\ UniqueHash \in BOOLEAN
  /\ MaxRuns \in Nat

VARIABLES
  rows,         \* the records: RecordIds -> Records, None where there is none
  active_id,    \* the record the company points to
  runs,         \* replay runs, oldest first; a run_id is a position
  pc,           \* where each handler is
  record,       \* the record each handler works on
  current       \* the active record each handler saw

stores == <<rows, active_id, runs>>
vars == <<rows, active_id, runs, pc, record, current>>

Init ==
  /\ rows = [r \in RecordIds |-> None]
  /\ active_id = None
  /\ runs = <<>>
  /\ pc = [t \in Threads |-> "idle"]
  /\ record = [t \in Threads |-> None]
  /\ current = [t \in Threads |-> None]

-----------------------------------------------------------------------------
(* The stores. *)

Ids == {r \in RecordIds : rows[r] # None}

by_hash(h) == {r \in Ids : rows[r].content_hash = h}

active == IF active_id = None THEN None ELSE rows[active_id]

(* Mutant of acknowledged_for: any run of the content opens the gate. *)
runs_for(h) == {i \in DOMAIN runs : runs[i].candidate_bundle_hash = h}

acknowledged_for(h) ==
  {i \in DOMAIN runs : runs[i].candidate_bundle_hash = h /\ runs[i].acknowledged}

(* At most one run: the latest, by created_at. *)
latest_acknowledged_for(h) ==
  {i \in acknowledged_for(h) : \A j \in acknowledged_for(h) : j <= i}

update(row) == rows' = [rows EXCEPT ![row.record_id] = row]

-----------------------------------------------------------------------------
(* Steps of a handler. *)

Goto(t, from, to) ==
  /\ pc[t] = from
  /\ pc' = [pc EXCEPT ![t] = to]

Finish(t, from) ==
  /\ Goto(t, from, "idle")
  /\ record' = [record EXCEPT ![t] = None]
  /\ current' = [current EXCEPT ![t] = None]

(* The process dies or a store call fails: the handler stops where it is,  *)
(* and what it has written stays.                                          *)
Stop(t) ==
  /\ pc[t] # "idle"
  /\ Finish(t, pc[t])
  /\ UNCHANGED stores

-----------------------------------------------------------------------------
(* save_draft *)

(* uuid4: no record has the identifier, nor does a handler about to add it. *)
FreshIds ==
  (RecordIds \ Ids) \ {record[u].record_id : u \in {v \in Threads : pc[v] = "add"}}

(* by_hash finds nothing (otherwise the existing record is the answer and  *)
(* nothing changes): build a draft.                                        *)
SaveDraft(t, r, h) ==
  /\ by_hash(h) = {}
  /\ r \in FreshIds
  /\ record' = [record EXCEPT ![t] =
                  [record_id |-> r, content_hash |-> h, status |-> "draft",
                   published |-> FALSE, replay_run_id |-> None]]
  /\ Goto(t, "idle", "add")
  /\ UNCHANGED <<stores, current>>

(* Mutant of AddDraft: the table has no unique index. *)
AddDraftAnyway(t) ==
  /\ Finish(t, "add")
  /\ update(record[t])
  /\ UNCHANGED <<active_id, runs>>

AddDraft(t) ==
  /\ Finish(t, "add")
  /\ UniqueHash => by_hash(record[t].content_hash) = {}
  /\ update(record[t])
  /\ UNCHANGED <<active_id, runs>>

(* The unique index of Postgres refuses the insert: 500. *)
AddRefused(t) ==
  /\ Finish(t, "add")
  /\ UniqueHash
  /\ by_hash(record[t].content_hash) # {}
  /\ UNCHANGED stores

-----------------------------------------------------------------------------
(* ReplayEngine.run on a stored record and acknowledge.  A run only reads  *)
(* until it is added; acknowledging twice changes no more than a name.     *)

Replay(r) ==
  /\ Len(runs) < MaxRuns
  /\ runs' = Append(runs, [candidate_bundle_hash |-> rows[r].content_hash,
                           acknowledged          |-> FALSE])
  /\ UNCHANGED <<rows, active_id, pc, record, current>>

Acknowledge(i) ==
  /\ runs' = [runs EXCEPT ![i].acknowledged = TRUE]
  /\ UNCHANGED <<rows, active_id, pc, record, current>>

-----------------------------------------------------------------------------
(* publish *)

PublishGet(t, r) ==
  /\ Goto(t, "idle", "publish_active")
  /\ record' = [record EXCEPT ![t] = rows[r]]
  /\ UNCHANGED <<stores, current>>

(* Identical content already live: no-op. *)
PublishNoOp(t) ==
  /\ Finish(t, "publish_active")
  /\ active # None
  /\ active.content_hash = record[t].content_hash
  /\ UNCHANGED stores

PublishActive(t) ==
  /\ Goto(t, "publish_active", "publish_gate")
  /\ active # None => active.content_hash # record[t].content_hash
  /\ current' = [current EXCEPT ![t] = active]
  /\ UNCHANGED <<stores, record>>

(* PublishGateError *)
PublishBlocked(t) ==
  /\ Finish(t, "publish_gate")
  /\ latest_acknowledged_for(record[t].content_hash) = {}
  /\ UNCHANGED stores

PublishGated(t) ==
  /\ Goto(t, "publish_gate", "publish_update")
  /\ \E gate \in latest_acknowledged_for(record[t].content_hash) :
       record' = [record EXCEPT ![t].status = "published",
                                ![t].published = TRUE,
                                ![t].replay_run_id = gate]
  /\ UNCHANGED <<stores, current>>

(* Mutant of PublishUpdate: the bundle that was active stays published. *)
PublishUpdateKeepsActive(t) ==
  /\ Goto(t, "publish_update", "set_active")
  /\ update(record[t])
  /\ UNCHANGED <<active_id, runs, record, current>>

PublishUpdate(t) ==
  /\ Goto(t, "publish_update",
          IF current[t] = None THEN "set_active" ELSE "publish_retire")
  /\ update(record[t])
  /\ UNCHANGED <<active_id, runs, record, current>>

PublishRetire(t) ==
  /\ Goto(t, "publish_retire", "set_active")
  /\ update([current[t] EXCEPT !.status = "retired"])
  /\ UNCHANGED <<active_id, runs, record, current>>

(* The last step of publish and of activate. *)
SetActive(t) ==
  /\ Finish(t, "set_active")
  /\ active_id' = record[t].record_id
  /\ UNCHANGED <<rows, runs>>

-----------------------------------------------------------------------------
(* activate *)

(* Mutant of ActivateGet: drafts may be activated too. *)
ActivateGetAny(t, r) ==
  /\ Goto(t, "idle", "activate_active")
  /\ record' = [record EXCEPT ![t] = rows[r]]
  /\ UNCHANGED <<stores, current>>

(* Only a record that was published before (otherwise PublishGateError). *)
ActivateGet(t, r) ==
  /\ rows[r].published
  /\ Goto(t, "idle", "activate_active")
  /\ record' = [record EXCEPT ![t] = rows[r]]
  /\ UNCHANGED <<stores, current>>

ActivateActive(t) ==
  /\ Goto(t, "activate_active",
          IF active # None /\ active.record_id # record[t].record_id
            THEN "activate_retire" ELSE "activate_update")
  /\ current' = [current EXCEPT ![t] = active]
  /\ UNCHANGED <<stores, record>>

(* Mutant of ActivateRetire: the replaced bundle goes back to a draft. *)
ActivateRetireToDraft(t) ==
  /\ Goto(t, "activate_retire", "activate_update")
  /\ update([current[t] EXCEPT !.status = "draft", !.published = FALSE])
  /\ UNCHANGED <<active_id, runs, record, current>>

ActivateRetire(t) ==
  /\ Goto(t, "activate_retire", "activate_update")
  /\ update([current[t] EXCEPT !.status = "retired"])
  /\ UNCHANGED <<active_id, runs, record, current>>

ActivateUpdate(t) ==
  /\ Goto(t, "activate_update", "set_active")
  /\ update([record[t] EXCEPT !.status = "published"])
  /\ UNCHANGED <<active_id, runs, record, current>>

-----------------------------------------------------------------------------
(* One step of a handler whose store calls succeed, or of the replays. *)
Work ==
  \/ \E t \in Threads :
       \/ \E r \in RecordIds, h \in Hashes : SaveDraft(t, r, h)
       \/ AddDraft(t)
       \/ AddRefused(t)
       \/ \E r \in Ids : PublishGet(t, r)
       \/ PublishNoOp(t)
       \/ PublishActive(t)
       \/ PublishBlocked(t)
       \/ PublishGated(t)
       \/ PublishUpdate(t)
       \/ PublishRetire(t)
       \/ \E r \in Ids : ActivateGet(t, r)
       \/ ActivateActive(t)
       \/ ActivateRetire(t)
       \/ ActivateUpdate(t)
       \/ SetActive(t)
  \/ \E r \in Ids : Replay(r)
  \/ \E i \in DOMAIN runs : Acknowledge(i)

Next == Work \/ \E t \in Threads : Stop(t)

Spec == Init /\ [][Next]_vars

-----------------------------------------------------------------------------
(* Properties. *)

(* Every variable has its type; a handler holds a record wherever it is    *)
(* going to use one.                                                       *)
TypeOK ==
  /\ rows \in [RecordIds -> Records \cup {None}]
  /\ \A r \in Ids : rows[r].record_id = r
  /\ active_id \in RecordIds \cup {None}
  /\ runs \in Seq([candidate_bundle_hash : Hashes, acknowledged : BOOLEAN])
  /\ Len(runs) <= MaxRuns
  /\ pc \in [Threads -> {"idle", "add", "publish_active", "publish_gate",
                         "publish_update", "publish_retire", "set_active",
                         "activate_active", "activate_retire", "activate_update"}]
  /\ record \in [Threads -> Records \cup {None}]
  /\ current \in [Threads -> Records \cup {None}]
  /\ \A t \in Threads : /\ pc[t] = "idle" <=> record[t] = None
                        /\ pc[t] \in {"publish_retire", "activate_retire"}
                             => current[t] # None

(* Run i is an acknowledged replay of exactly content h. *)
Gates(i, h) ==
  /\ i \in DOMAIN runs
  /\ runs[i].candidate_bundle_hash = h
  /\ runs[i].acknowledged

(* PUBLISH IS REPLAY-GATED (lifecycle.py, rules 3 and 5): whatever races   *)
(* and crashes there are, the company points at a record that exists, was  *)
(* published, and names an acknowledged replay of exactly its content.     *)
ReplayGated ==
  active_id # None =>
    /\ active_id \in Ids
    /\ rows[active_id].published
    /\ Gates(rows[active_id].replay_run_id, rows[active_id].content_hash)

(* Records are immutable history: no step removes one, gives it other      *)
(* content, or forgets that it was published, although publish and         *)
(* activate write back whole records they read several steps earlier.      *)
KeepsHistory ==
  \A r \in Ids :
    /\ rows'[r] # None
    /\ rows'[r].content_hash = rows[r].content_hash
    /\ rows[r].published => rows'[r].published

HistoryKept == [][KeepsHistory]_vars

(* The lifecycle implements the gate of PublishGate: what decisions are    *)
(* evaluated against changes only at set_active, to acknowledged content.  *)
Gate ==
  INSTANCE PublishGate
    WITH live         <- IF active_id = None THEN None ELSE rows[active_id].content_hash,
         acknowledged <- {h \in Hashes : \E i \in DOMAIN runs : Gates(i, h)}

ImplementsPublishGate == Gate!Spec

(* Content registers once per tenant (idx_bundles_company_hash; by_hash in *)
(* save_draft when handlers do not overlap).                               *)
OneRecordPerHash ==
  \A r, s \in Ids : rows[r].content_hash = rows[s].content_hash => r = s

(* Exactly one published (active) bundle per company (lifecycle.py:5):     *)
(* while no lifecycle call is under way, the record the company points to  *)
(* is the one whose status is published.                                   *)
ExactlyOnePublished ==
  (\A t \in Threads : pc[t] = "idle")
    => {r \in Ids : rows[r].status = "published"} = {active_id} \ {None}

(***************************************************************************)
(* The inductive invariant of ReplayGated.  It is about history and not    *)
(* about the pointer: every record ever published names its gate, be it in *)
(* a row or in the registers of a handler that will write it back, and the *)
(* records a handler holds are versions of rows that exist.                *)
(***************************************************************************)
GatedIfPublished(row) ==
  row.published => Gates(row.replay_run_id, row.content_hash)

(* A snapshot agrees with its row on what never changes. *)
VersionOfRow(row) ==
  /\ row.record_id \in Ids
  /\ rows[row.record_id].content_hash = row.content_hash

HistoryGated == \A r \in Ids : GatedIfPublished(rows[r])

(* A draft about to be added replaces no record. *)
DraftsFresh ==
  \A t \in Threads :
    pc[t] = "add" =>
      /\ record[t].record_id \notin Ids
      /\ ~ record[t].published
      /\ \A u \in Threads \ {t} :
           pc[u] = "add" => record[u].record_id # record[t].record_id

(* What a handler will write to a row is published by then, with its gate. *)
Writing ==
  {"publish_update", "publish_retire", "set_active",
   "activate_active", "activate_retire", "activate_update"}

HandlerGated(t) ==
  /\ pc[t] \notin {"idle", "add"}
       => VersionOfRow(record[t]) /\ GatedIfPublished(record[t])
  /\ pc[t] \in Writing => record[t].published
  /\ current[t] # None
       => /\ VersionOfRow(current[t])
          /\ GatedIfPublished(current[t])
          /\ current[t].published
  /\ pc[t] \in {"publish_retire", "set_active"}
       => rows[record[t].record_id].published

HandlersGated == \A t \in Threads : HandlerGated(t)

LifecycleInv ==
  /\ TypeOK
  /\ ReplayGated
  /\ HistoryGated
  /\ DraftsFresh
  /\ HandlersGated
=============================================================================
