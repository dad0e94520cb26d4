---------------------------- MODULE BundleProofs ----------------------------
(***************************************************************************)
(* Proofs about BundleLifecycle for any number of handlers, records,       *)
(* contents and replay runs, with and without the unique index, and about  *)
(* the bootstrap (Seeding) for any number of processes, cases and stops.   *)
(***************************************************************************)
EXTENDS MCBundleLifecycle, MCSeeding, WellFoundedInduction, TLAPS

-----------------------------------------------------------------------------
(* What every step leaves intact. *)

(* An acknowledged run stays one. *)
GatesKept == \A i, h : Gates(i, h) => Gates(i, h)'

(* Only handler t moves. *)
OnlyMoves(t) ==
  \A u \in Threads \ {t} :
    /\ pc'[u] = pc[u]
    /\ record'[u] = record[u]
    /\ current'[u] = current[u]

(* The gate found by publish is an acknowledged run of that content. *)
LEMMA GateIsAcknowledged ==
  ASSUME NEW h, NEW gate \in latest_acknowledged_for(h)
  PROVE  Gates(gate, h)
  BY DEF latest_acknowledged_for, acknowledged_for, Gates

(* What a handler relies on survives the steps of the others. *)
LEMMA HandlerKept ==
  ASSUME TypeOK, KeepsHistory, GatesKept,
         NEW t \in Threads, HandlerGated(t),
         pc'[t] = pc[t], record'[t] = record[t], current'[t] = current[t]
  PROVE  HandlerGated(t)'
  <1>1. ASSUME NEW row, VersionOfRow(row), GatedIfPublished(row)
        PROVE  /\ VersionOfRow(row)' /\ GatedIfPublished(row)'
               /\ rows[row.record_id].published => rows'[row.record_id].published
    BY <1>1 DEF VersionOfRow, GatedIfPublished, KeepsHistory, GatesKept, Ids
  <1>2. Writing' = Writing
    BY DEF Writing
  <1>3. CASE pc[t] \notin {"idle", "add"}
    BY <1>1, <1>2, <1>3 DEF HandlerGated
  <1>4. CASE pc[t] \in {"idle", "add"}
    BY <1>1, <1>2, <1>4 DEF HandlerGated, Writing
  <1> QED
    BY <1>3, <1>4

(* The pointer stays on gated history while it does not move. *)
LEMMA PointerKept ==
  ASSUME ReplayGated, KeepsHistory, HistoryGated', active_id' = active_id
  PROVE  ReplayGated'
  BY DEF ReplayGated, KeepsHistory, HistoryGated, GatedIfPublished, Ids

(* The parts of the invariant that a step has to establish, put together. *)
LEMMA StepKeeps ==
  ASSUME LifecycleInv, TypeOK', KeepsHistory, GatesKept, HistoryGated',
         ReplayGated', DraftsFresh',
         NEW t \in Threads, OnlyMoves(t), HandlerGated(t)'
  PROVE  LifecycleInv'
  <1>1. ASSUME NEW u \in Threads PROVE HandlerGated(u)'
    <2>1. CASE u = t
      BY <2>1
    <2>2. CASE u # t
      BY <2>2, HandlerKept DEF OnlyMoves, LifecycleInv, HandlersGated
    <2> QED
      BY <2>1, <2>2
  <1> QED
    BY <1>1 DEF LifecycleInv, HandlersGated

(* A step that only changes a handler's registers. *)
LEMMA LocalStep ==
  ASSUME LifecycleInv, TypeOK', UNCHANGED stores,
         NEW t \in Threads, OnlyMoves(t), HandlerGated(t)',
         pc'[t] = "add" =>
           /\ record'[t].record_id \in FreshIds
           /\ ~ record'[t].published
  PROVE  LifecycleInv' /\ KeepsHistory
  <1> USE DEF stores
  <1>1. KeepsHistory
    BY DEF KeepsHistory, Ids
  <1>2. GatesKept
    BY DEF GatesKept, Gates
  <1>3. HistoryGated'
    BY <1>2 DEF LifecycleInv, HistoryGated, GatedIfPublished, GatesKept, Ids
  <1>4. ReplayGated'
    BY <1>1, <1>3, PointerKept DEF LifecycleInv
  <1>5. DraftsFresh'
    BY DEF LifecycleInv, DraftsFresh, OnlyMoves, FreshIds, Ids
  <1> QED
    BY <1>1, <1>2, <1>3, <1>4, <1>5, StepKeeps

(* A step that writes a published version of a row back to it. *)
LEMMA WriteStep ==
  ASSUME LifecycleInv, TypeOK',
         NEW row \in Records, VersionOfRow(row), GatedIfPublished(row), row.published,
         update(row), UNCHANGED <<active_id, runs>>,
         NEW t \in Threads, OnlyMoves(t), pc'[t] # "add",
         KeepsHistory => HandlerGated(t)'
  PROVE  LifecycleInv' /\ KeepsHistory
  <1> USE DEF update
  <1>1. rows \in [RecordIds -> Records \cup {None}] /\ row # None
    BY BundleAssumptions DEF LifecycleInv, TypeOK, VersionOfRow, Ids
  <1>2. Ids' = Ids
    BY <1>1 DEF VersionOfRow, Ids
  <1>3. KeepsHistory
    BY <1>1, <1>2 DEF KeepsHistory, VersionOfRow, Ids
  <1>4. GatesKept
    BY DEF GatesKept, Gates
  <1>5. HistoryGated'
    BY <1>1, <1>2, <1>4 DEF LifecycleInv, HistoryGated, GatedIfPublished, GatesKept, Ids
  <1>6. ReplayGated'
    BY <1>3, <1>5, PointerKept DEF LifecycleInv
  <1>7. DraftsFresh'
    BY <1>2 DEF LifecycleInv, DraftsFresh, OnlyMoves
  <1> QED
    BY <1>3, <1>4, <1>5, <1>6, <1>7, StepKeeps

-----------------------------------------------------------------------------
(* A record with another status is the same version of its row. *)
LEMMA StatusOnly ==
  ASSUME NEW row \in Records, NEW s \in {"draft", "published", "retired"},
         NEW new, new = [row EXCEPT !.status = s]
  PROVE  /\ new \in Records
         /\ new.record_id = row.record_id
         /\ new.content_hash = row.content_hash
         /\ new.published = row.published
         /\ new.replay_run_id = row.replay_run_id
  BY DEF Records

LEMMA AcknowledgedRun ==
  ASSUME NEW entry \in [candidate_bundle_hash : Hashes, acknowledged : BOOLEAN]
  PROVE  [entry EXCEPT !.acknowledged = TRUE]
           \in [candidate_bundle_hash : Hashes, acknowledged : BOOLEAN]
  OBVIOUS

LEMMA AcknowledgedRuns ==
  ASSUME NEW Run, NEW seq \in Seq(Run), NEW i \in DOMAIN seq,
         \A entry \in Run : [entry EXCEPT !.acknowledged = TRUE] \in Run
  PROVE  /\ [seq EXCEPT ![i].acknowledged = TRUE] \in Seq(Run)
         /\ Len([seq EXCEPT ![i].acknowledged = TRUE]) = Len(seq)
  OBVIOUS

(* What the type invariant says about handler t, which is somewhere. *)
LEMMA HandlerTypes ==
  ASSUME TypeOK, NEW t \in Threads, pc[t] # "idle"
  PROVE  record[t] \in Records
  BY DEF TypeOK

LEMMA InitHolds == Init => LifecycleInv
  <1> SUFFICES ASSUME Init PROVE LifecycleInv
    OBVIOUS
  <1>1. Ids = {}
    BY DEF Init, Ids
  <1>2. TypeOK
    BY <1>1, BundleAssumptions DEF Init, TypeOK
  <1>3. ReplayGated /\ HistoryGated /\ DraftsFresh
    BY <1>1 DEF Init, ReplayGated, HistoryGated, DraftsFresh
  <1>4. HandlersGated
    BY DEF Init, HandlersGated, HandlerGated, Writing
  <1> QED
    BY <1>2, <1>3, <1>4 DEF LifecycleInv

-----------------------------------------------------------------------------
(* Each action preserves the types. *)

LEMMA TypesOfLocalSteps ==
  ASSUME TypeOK, NEW t \in Threads,
         \/ Stop(t)
         \/ \E r \in RecordIds, h \in Hashes : SaveDraft(t, r, h)
         \/ AddRefused(t)
         \/ \E r \in Ids : PublishGet(t, r) \/ ActivateGet(t, r)
         \/ PublishNoOp(t) \/ PublishActive(t) \/ PublishBlocked(t)
         \/ ActivateActive(t)
  PROVE  TypeOK'
  <1>1. CASE Stop(t) \/ AddRefused(t) \/ PublishNoOp(t) \/ PublishBlocked(t)
    BY <1>1 DEF TypeOK, Stop, AddRefused, PublishNoOp, PublishBlocked,
                Finish, Goto, stores, Ids
  <1>2. CASE \E r \in RecordIds, h \in Hashes : SaveDraft(t, r, h)
    <2>1. PICK r \in RecordIds, h \in Hashes : SaveDraft(t, r, h)
      BY <1>2
    <2> DEFINE new == [record_id |-> r, content_hash |-> h, status |-> "draft",
                         published |-> FALSE, replay_run_id |-> None]
    <2>2. new \in Records
      BY DEF Records
    <2>4. new # None
      BY <2>2, BundleAssumptions
    <2>3. record' = [record EXCEPT ![t] = new]
      BY <2>1 DEF SaveDraft
    <2> HIDE DEF new
    <2> QED
      BY <2>1, <2>2, <2>3, <2>4 DEF TypeOK, SaveDraft, Goto, stores, Ids
  <1>3. CASE \E r \in Ids : PublishGet(t, r) \/ ActivateGet(t, r)
    BY <1>3, BundleAssumptions DEF TypeOK, PublishGet, ActivateGet, Goto, stores, Ids
  <1>4. CASE PublishActive(t) \/ ActivateActive(t)
    <2>1. active \in Records \cup {None}
      BY DEF TypeOK, active
    <2>2. /\ pc[t] # "idle"
          /\ \/ pc' = [pc EXCEPT ![t] = "publish_gate"]
             \/ pc' = [pc EXCEPT ![t] = "activate_update"]
             \/ pc' = [pc EXCEPT ![t] = "activate_retire"] /\ active # None
          /\ current' = [current EXCEPT ![t] = active]
          /\ UNCHANGED <<rows, active_id, runs, record>>
      BY <1>4, Zenon DEF PublishActive, ActivateActive, Goto, stores
    <2> QED
      BY <2>1, <2>2 DEF TypeOK, Ids
  <1> QED
    BY <1>1, <1>2, <1>3, <1>4

LEMMA TypesOfWrites ==
  ASSUME TypeOK, NEW t \in Threads, NEW row \in Records,
         row.record_id \in Ids,
         update(row), UNCHANGED <<active_id, runs, record, current>>,
         NEW from, NEW to, Goto(t, from, to),
         from # "idle",
         to \in {"publish_retire", "set_active", "activate_update"},
         to = "publish_retire" => current[t] # None
  PROVE  TypeOK'
  <1>1. rows' \in [RecordIds -> Records \cup {None}]
    BY DEF TypeOK, update
  <1>2. \A r \in Ids' : rows'[r].record_id = r
    BY BundleAssumptions DEF TypeOK, update, Ids
  <1> QED
    BY <1>1, <1>2 DEF TypeOK, Goto

LEMMA TypesOfRunSteps ==
  ASSUME TypeOK,
         \/ \E r \in Ids : Replay(r)
         \/ \E i \in DOMAIN runs : Acknowledge(i)
  PROVE  TypeOK'
  <1>1. CASE \E r \in Ids : Replay(r)
    <2>1. PICK r \in Ids : Replay(r)
      BY <1>1
    <2>2. rows[r].content_hash \in Hashes
      BY DEF TypeOK, Ids, Records
    <2> QED
      BY <2>1, <2>2, BundleAssumptions DEF TypeOK, Replay, Ids
  <1>2. CASE \E i \in DOMAIN runs : Acknowledge(i)
    <2>1. PICK i \in DOMAIN runs : Acknowledge(i)
      BY <1>2
    <2> DEFINE Run == [candidate_bundle_hash : Hashes, acknowledged : BOOLEAN]
    <2>2. runs \in Seq(Run) /\ runs' = [runs EXCEPT ![i].acknowledged = TRUE]
      BY <2>1 DEF TypeOK, Acknowledge
    <2>3. \A entry \in Run : [entry EXCEPT !.acknowledged = TRUE] \in Run
      BY AcknowledgedRun
    <2> HIDE DEF Run
    <2>4. runs' \in Seq(Run) /\ Len(runs') = Len(runs)
      BY <2>2, <2>3, AcknowledgedRuns
    <2> USE DEF Run
    <2> QED
      BY <2>1, <2>4 DEF TypeOK, Acknowledge, Ids
  <1> QED
    BY <1>1, <1>2

LEMMA TypesOfOtherSteps ==
  ASSUME TypeOK, NEW t \in Threads,
         \/ AddDraft(t) \/ PublishGated(t) \/ SetActive(t)
  PROVE  TypeOK'
  <1>1. CASE AddDraft(t)
    <2>1. record[t] \in Records /\ pc[t] = "add"
      BY <1>1, HandlerTypes DEF AddDraft, Finish, Goto
    <2>2. rows' \in [RecordIds -> Records \cup {None}]
      BY <1>1, <2>1 DEF TypeOK, AddDraft, update
    <2>3. \A r \in Ids' : rows'[r].record_id = r
      BY <1>1, <2>1 DEF TypeOK, AddDraft, update, Ids, Records
    <2> QED
      BY <1>1, <2>2, <2>3 DEF TypeOK, AddDraft, Finish, Goto
  <1>2. CASE PublishGated(t)
    <2>1. record[t] \in Records /\ pc[t] = "publish_gate"
      BY <1>2, HandlerTypes DEF PublishGated, Goto
    <2>2. PICK gate \in latest_acknowledged_for(record[t].content_hash) :
            record' = [record EXCEPT ![t].status = "published",
                                     ![t].published = TRUE,
                                     ![t].replay_run_id = gate]
      BY <1>2 DEF PublishGated
    <2>3. gate \in 1 .. MaxRuns
      BY BundleAssumptions DEF TypeOK, latest_acknowledged_for, acknowledged_for
    <2> DEFINE new == [record[t] EXCEPT !.status = "published",
                                        !.published = TRUE,
                                        !.replay_run_id = gate]
    <2>4. new \in Records /\ new # None
      BY <2>1, <2>3, BundleAssumptions DEF Records
    <2>5. record' = [record EXCEPT ![t] = new]
      BY <2>2, <2>1 DEF TypeOK
    <2> HIDE DEF new
    <2> QED
      BY <1>2, <2>4, <2>5 DEF TypeOK, PublishGated, Goto, stores, Ids
  <1>3. CASE SetActive(t)
    <2>1. record[t].record_id \in RecordIds
      BY <1>3, HandlerTypes DEF SetActive, Finish, Goto, Records
    <2> QED
      BY <1>3, <2>1 DEF TypeOK, SetActive, Finish, Goto, Ids
  <1> QED
    BY <1>1, <1>2, <1>3

-----------------------------------------------------------------------------
(* Each action preserves the invariant and the history of the rows. *)

LEMMA LocalSteps ==
  ASSUME LifecycleInv, NEW t \in Threads,
         \/ Stop(t)
         \/ \E r \in RecordIds, h \in Hashes : SaveDraft(t, r, h)
         \/ AddRefused(t)
         \/ \E r \in Ids : PublishGet(t, r) \/ ActivateGet(t, r)
         \/ PublishNoOp(t) \/ PublishActive(t) \/ PublishBlocked(t)
         \/ ActivateActive(t)
  PROVE  LifecycleInv' /\ KeepsHistory
  <1>1. TypeOK /\ TypeOK'
    BY TypesOfLocalSteps DEF LifecycleInv
  <1>2. HandlerGated(t)
    BY DEF LifecycleInv, HandlersGated
  <1>3. UNCHANGED stores /\ OnlyMoves(t)
    BY <1>1 DEF TypeOK, OnlyMoves, Stop, SaveDraft, AddRefused, PublishGet, ActivateGet,
                PublishNoOp, PublishActive, PublishBlocked, ActivateActive, Finish, Goto
  <1>4. ASSUME NEW row PROVE /\ VersionOfRow(row)' <=> VersionOfRow(row)
                             /\ GatedIfPublished(row)' <=> GatedIfPublished(row)
    BY <1>3 DEF VersionOfRow, GatedIfPublished, Gates, Ids, stores
  <1>5. CASE Stop(t) \/ AddRefused(t) \/ PublishNoOp(t) \/ PublishBlocked(t)
    <2>1. pc'[t] = "idle" /\ current'[t] = None
      BY <1>1, <1>5 DEF TypeOK, Stop, AddRefused, PublishNoOp, PublishBlocked, Finish, Goto
    <2>2. HandlerGated(t)'
      BY <2>1 DEF HandlerGated, Writing
    <2> QED
      BY <1>1, <1>3, <2>1, <2>2, LocalStep
  <1>6. CASE \E r \in RecordIds, h \in Hashes : SaveDraft(t, r, h)
    <2>1. PICK r \in RecordIds, h \in Hashes : SaveDraft(t, r, h)
      BY <1>6
    <2>2. /\ pc'[t] = "add" /\ pc[t] = "idle" /\ current'[t] = current[t]
          /\ record'[t].record_id \in FreshIds
          /\ ~ record'[t].published
      BY <1>1, <2>1 DEF TypeOK, SaveDraft, Goto
    <2>3. HandlerGated(t)'
      BY <1>2, <1>4, <2>2 DEF HandlerGated, Writing
    <2> QED
      BY <1>1, <1>3, <2>2, <2>3, LocalStep
  <1>7. CASE \E r \in Ids : PublishGet(t, r) \/ ActivateGet(t, r)
    <2>1. PICK r \in Ids : PublishGet(t, r) \/ ActivateGet(t, r)
      BY <1>7
    <2>2. /\ record'[t] = rows[r] /\ current'[t] = current[t]
          /\ \/ pc'[t] = "publish_active"
             \/ pc'[t] = "activate_active" /\ rows[r].published
      BY <1>1, <2>1 DEF TypeOK, PublishGet, ActivateGet, Goto
    <2>3. VersionOfRow(rows[r]) /\ GatedIfPublished(rows[r])
      BY <1>1 DEF LifecycleInv, TypeOK, HistoryGated, VersionOfRow, Ids
    <2>4. HandlerGated(t)'
      BY <1>2, <1>4, <2>2, <2>3 DEF HandlerGated, Writing
    <2> QED
      BY <1>1, <1>3, <2>2, <2>4, LocalStep
  <1>8. CASE PublishActive(t) \/ ActivateActive(t)
    <2>1. /\ pc[t] \notin {"idle", "add"} /\ record'[t] = record[t] /\ current'[t] = active
          /\ \/ pc'[t] = "publish_gate"
             \/ pc'[t] \in {"activate_retire", "activate_update"} /\ pc[t] = "activate_active"
      BY <1>1, <1>8 DEF TypeOK, PublishActive, ActivateActive, Goto
    <2>2. active # None =>
            VersionOfRow(active) /\ GatedIfPublished(active) /\ active.published
      BY <1>1 DEF LifecycleInv, TypeOK, ReplayGated, HistoryGated, VersionOfRow, Ids, active
    <2>3. HandlerGated(t)'
      BY <1>2, <1>4, <2>1, <2>2 DEF HandlerGated, Writing
    <2> QED
      BY <1>1, <1>3, <2>1, <2>3, LocalStep
  <1> QED
    BY <1>5, <1>6, <1>7, <1>8

(* The gate: what the handler holds from here on is published content. *)
LEMMA GatedStep ==
  ASSUME LifecycleInv, NEW t \in Threads, PublishGated(t)
  PROVE  LifecycleInv' /\ KeepsHistory
  <1>1. TypeOK /\ TypeOK'
    BY TypesOfOtherSteps DEF LifecycleInv
  <1>2. HandlerGated(t) /\ pc[t] = "publish_gate" /\ record[t] \in Records
    BY <1>1, HandlerTypes DEF LifecycleInv, HandlersGated, PublishGated, Goto
  <1>3. UNCHANGED stores /\ OnlyMoves(t)
    BY <1>1 DEF TypeOK, OnlyMoves, PublishGated, Goto
  <1>4. PICK gate \in latest_acknowledged_for(record[t].content_hash) :
          record' = [record EXCEPT ![t].status = "published",
                                   ![t].published = TRUE,
                                   ![t].replay_run_id = gate]
    BY DEF PublishGated
  <1>5. PICK old, new, seen : old = record[t] /\ new = record'[t] /\ seen = current[t]
    OBVIOUS
  <1>6. /\ new.record_id = old.record_id
        /\ new.content_hash = old.content_hash
        /\ new.published
        /\ new.replay_run_id = gate
    BY <1>1, <1>2, <1>4, <1>5 DEF TypeOK, Records
  <1>7. ASSUME NEW row PROVE /\ VersionOfRow(row)' <=> VersionOfRow(row)
                             /\ GatedIfPublished(row)' <=> GatedIfPublished(row)
    BY <1>3 DEF VersionOfRow, GatedIfPublished, Gates, Ids, stores
  <1>8. VersionOfRow(new) /\ GatedIfPublished(new)
    BY <1>2, <1>4, <1>5, <1>6, GateIsAcknowledged
       DEF HandlerGated, VersionOfRow, GatedIfPublished
  <1>9. pc'[t] = "publish_update" /\ current'[t] = seen
    BY <1>1, <1>5 DEF TypeOK, PublishGated, Goto
  <1>10. HandlerGated(t)'
    BY <1>2, <1>5, <1>6, <1>7, <1>8, <1>9 DEF HandlerGated
  <1> QED
    BY <1>1, <1>3, <1>9, <1>10, LocalStep

(* publish and activate write rows back. *)
LEMMA WriteSteps ==
  ASSUME LifecycleInv, NEW t \in Threads,
         \/ PublishUpdate(t) \/ PublishRetire(t)
         \/ ActivateRetire(t) \/ ActivateUpdate(t)
  PROVE  LifecycleInv' /\ KeepsHistory
  <1>1. TypeOK /\ HandlerGated(t)
    BY DEF LifecycleInv, HandlersGated
  <1>2. /\ pc[t] \in {"publish_update", "publish_retire", "activate_retire", "activate_update"}
        /\ record[t] \in Records
    BY <1>1, HandlerTypes
       DEF PublishUpdate, PublishRetire, ActivateRetire, ActivateUpdate, Goto
  <1>3. PICK old, seen : old = record[t] /\ seen = current[t]
    OBVIOUS
  <1>4. /\ VersionOfRow(old) /\ GatedIfPublished(old) /\ old.published
        /\ seen # None => VersionOfRow(seen) /\ GatedIfPublished(seen) /\ seen.published
        /\ pc[t] = "publish_retire" => rows[old.record_id].published
    BY <1>1, <1>2, <1>3 DEF HandlerGated, Writing
  <1>5. ASSUME NEW row \in Records, VersionOfRow(row), GatedIfPublished(row), row.published,
               update(row), UNCHANGED <<active_id, runs, record, current>>,
               NEW from, NEW to, Goto(t, from, to), from # "idle",
               to \in {"publish_retire", "set_active", "activate_update"},
               to = "publish_retire" => seen # None,
               to \in {"publish_retire", "set_active"} =>
                 row.record_id = old.record_id \/ rows[old.record_id].published
        PROVE  LifecycleInv' /\ KeepsHistory
    <2>1. TypeOK'
      BY <1>1, <1>3, <1>5, TypesOfWrites DEF VersionOfRow
    <2>2. /\ OnlyMoves(t)
          /\ pc'[t] = to /\ record'[t] = old /\ current'[t] = seen
      BY <1>1, <1>3, <1>5 DEF TypeOK, OnlyMoves, Goto
    <2>3. ASSUME KeepsHistory PROVE HandlerGated(t)'
      <3>1. ASSUME NEW x, VersionOfRow(x), GatedIfPublished(x)
            PROVE  VersionOfRow(x)' /\ GatedIfPublished(x)'
        BY <1>5, <2>3, <3>1 DEF KeepsHistory, VersionOfRow, GatedIfPublished, Gates, Ids
      <3>2. to \in {"publish_retire", "set_active"} => rows'[old.record_id].published
        BY <1>1, <1>4, <1>5, <2>3 DEF TypeOK, KeepsHistory, VersionOfRow, update, Ids
      <3> QED
        BY <1>4, <1>5, <2>2, <3>1, <3>2 DEF HandlerGated
    <2> QED
      BY <1>5, <2>1, <2>2, <2>3, WriteStep
  <1>6. CASE PublishUpdate(t)
    BY <1>2, <1>3, <1>4, <1>5, <1>6 DEF PublishUpdate
  <1>7. seen # None => seen \in Records
    BY <1>1, <1>3 DEF TypeOK
  <1>8. CASE PublishRetire(t)
    <2>1. pc[t] = "publish_retire" /\ seen # None
      BY <1>1, <1>3, <1>8 DEF TypeOK, PublishRetire, Goto
    <2>2. PICK new : new = [seen EXCEPT !.status = "retired"]
      OBVIOUS
    <2>3. new \in Records /\ VersionOfRow(new) /\ GatedIfPublished(new) /\ new.published
      BY <1>4, <1>7, <2>1, <2>2, StatusOnly DEF VersionOfRow, GatedIfPublished
    <2> QED
      BY <1>3, <1>4, <1>5, <1>8, <2>1, <2>2, <2>3 DEF PublishRetire
  <1>9. CASE ActivateRetire(t)
    <2>1. pc[t] = "activate_retire" /\ seen # None
      BY <1>1, <1>3, <1>9 DEF TypeOK, ActivateRetire, Goto
    <2>2. PICK new : new = [seen EXCEPT !.status = "retired"]
      OBVIOUS
    <2>3. new \in Records /\ VersionOfRow(new) /\ GatedIfPublished(new) /\ new.published
      BY <1>4, <1>7, <2>1, <2>2, StatusOnly DEF VersionOfRow, GatedIfPublished
    <2> QED
      BY <1>3, <1>4, <1>5, <1>9, <2>1, <2>2, <2>3 DEF ActivateRetire
  <1>10. CASE ActivateUpdate(t)
    <2>1. PICK new : new = [old EXCEPT !.status = "published"]
      OBVIOUS
    <2>2. /\ new \in Records /\ VersionOfRow(new) /\ GatedIfPublished(new) /\ new.published
          /\ new.record_id = old.record_id
      BY <1>2, <1>3, <1>4, <2>1, StatusOnly DEF VersionOfRow, GatedIfPublished
    <2> QED
      BY <1>3, <1>5, <1>10, <2>1, <2>2 DEF ActivateUpdate
  <1> QED
    BY <1>6, <1>8, <1>9, <1>10

(* A draft goes to a row that was free, and nobody else is about to use it. *)
LEMMA AddDraftStep ==
  ASSUME LifecycleInv, NEW t \in Threads, AddDraft(t)
  PROVE  LifecycleInv' /\ KeepsHistory
  <1>1. TypeOK /\ TypeOK'
    BY TypesOfOtherSteps DEF LifecycleInv
  <1>2. pc[t] = "add" /\ record[t] \in Records /\ record[t] # None
    BY <1>1, HandlerTypes, BundleAssumptions DEF AddDraft, Finish, Goto
  <1>3. PICK new : new = record[t]
    OBVIOUS
  <1>4. /\ new.record_id \in RecordIds /\ new.record_id \notin Ids
        /\ ~ new.published
        /\ rows' = [rows EXCEPT ![new.record_id] = new]
    BY <1>2, <1>3 DEF LifecycleInv, DraftsFresh, AddDraft, update, Records
  <1>5. Ids' = Ids \cup {new.record_id}
    BY <1>1, <1>2, <1>3, <1>4 DEF TypeOK, Ids
  <1>6. KeepsHistory
    BY <1>1, <1>4 DEF TypeOK, KeepsHistory, Ids
  <1>7. GatesKept
    BY DEF GatesKept, Gates, AddDraft
  <1>8. HistoryGated'
    BY <1>1, <1>4, <1>5, <1>7
       DEF LifecycleInv, TypeOK, HistoryGated, GatedIfPublished, GatesKept, Ids
  <1>9. ReplayGated'
    BY <1>6, <1>8, PointerKept DEF LifecycleInv, AddDraft
  <1>10. OnlyMoves(t) /\ pc'[t] = "idle" /\ current'[t] = None
    BY <1>1 DEF TypeOK, OnlyMoves, AddDraft, Finish, Goto
  <1>11. DraftsFresh'
    BY <1>2, <1>3, <1>5, <1>10 DEF LifecycleInv, DraftsFresh, OnlyMoves
  <1>12. HandlerGated(t)'
    BY <1>10 DEF HandlerGated, Writing
  <1> QED
    BY <1>1, <1>6, <1>7, <1>8, <1>9, <1>10, <1>11, <1>12, StepKeeps

(* The pointer moves to a record the handler has published before. *)
LEMMA SetActiveStep ==
  ASSUME LifecycleInv, NEW t \in Threads, SetActive(t)
  PROVE  LifecycleInv' /\ KeepsHistory
  <1>1. TypeOK /\ TypeOK'
    BY TypesOfOtherSteps DEF LifecycleInv
  <1>2. HandlerGated(t) /\ pc[t] = "set_active"
    BY DEF LifecycleInv, HandlersGated, SetActive, Finish, Goto
  <1>3. KeepsHistory
    BY DEF KeepsHistory, SetActive, Ids
  <1>4. GatesKept
    BY DEF GatesKept, Gates, SetActive
  <1>5. HistoryGated'
    BY <1>4 DEF LifecycleInv, HistoryGated, GatedIfPublished, GatesKept, SetActive, Ids
  <1>6. active_id' \in Ids' /\ rows'[active_id'].published
    BY <1>2 DEF HandlerGated, VersionOfRow, SetActive, Ids
  <1>7. ReplayGated'
    BY <1>5, <1>6 DEF ReplayGated, HistoryGated, GatedIfPublished
  <1>8. OnlyMoves(t) /\ pc'[t] = "idle" /\ current'[t] = None
    BY <1>1 DEF TypeOK, OnlyMoves, SetActive, Finish, Goto
  <1>9. DraftsFresh'
    BY <1>8 DEF LifecycleInv, DraftsFresh, OnlyMoves, SetActive, Ids
  <1>10. HandlerGated(t)'
    BY <1>8 DEF HandlerGated, Writing
  <1> QED
    BY <1>1, <1>3, <1>4, <1>5, <1>7, <1>8, <1>9, <1>10, StepKeeps

(* Replays and acknowledgements add to the runs and touch nothing else. *)
LEMMA RunSteps ==
  ASSUME LifecycleInv,
         \/ \E r \in Ids : Replay(r)
         \/ \E i \in DOMAIN runs : Acknowledge(i)
  PROVE  LifecycleInv' /\ KeepsHistory
  <1>1. UNCHANGED <<rows, active_id, pc, record, current>>
    BY DEF Replay, Acknowledge
  <1>2. TypeOK /\ TypeOK'
    BY TypesOfRunSteps DEF LifecycleInv
  <1>3. KeepsHistory
    BY <1>1 DEF KeepsHistory, Ids
  <1>4. GatesKept
    <2>1. CASE \E r \in Ids : Replay(r)
      BY <1>2, <2>1 DEF TypeOK, GatesKept, Gates, Replay
    <2>2. CASE \E i \in DOMAIN runs : Acknowledge(i)
      BY <1>2, <2>2 DEF TypeOK, GatesKept, Gates, Acknowledge
    <2> QED
      BY <2>1, <2>2
  <1>5. HistoryGated'
    BY <1>1, <1>4 DEF LifecycleInv, HistoryGated, GatedIfPublished, GatesKept, Ids
  <1>6. ReplayGated'
    BY <1>1, <1>3, <1>5, PointerKept DEF LifecycleInv
  <1>7. DraftsFresh'
    BY <1>1 DEF LifecycleInv, DraftsFresh, Ids
  <1>8. ASSUME NEW t \in Threads PROVE HandlerGated(t)'
    <2>1. HandlerGated(t)
      BY DEF LifecycleInv, HandlersGated
    <2>2. pc'[t] = pc[t] /\ record'[t] = record[t] /\ current'[t] = current[t]
      BY <1>1
    <2> QED
      BY <1>2, <1>3, <1>4, <2>1, <2>2, HandlerKept
  <1>9. HandlersGated'
    BY <1>8 DEF HandlersGated
  <1> QED
    BY <1>2, <1>3, <1>5, <1>6, <1>7, <1>9 DEF LifecycleInv

LEMMA NextStep ==
  ASSUME LifecycleInv, Next
  PROVE  LifecycleInv' /\ KeepsHistory
  BY LocalSteps, GatedStep, WriteSteps, AddDraftStep, SetActiveStep, RunSteps
     DEF Next, Work

LEMMA StutterStep ==
  ASSUME LifecycleInv, UNCHANGED vars
  PROVE  LifecycleInv' /\ KeepsHistory
  <1>1. KeepsHistory
    BY DEF vars, KeepsHistory, Ids
  <1>2. TypeOK'
    BY DEF vars, LifecycleInv, TypeOK, Ids
  <1>3. ReplayGated' /\ HistoryGated' /\ DraftsFresh'
    BY DEF vars, LifecycleInv, ReplayGated, HistoryGated, DraftsFresh,
           GatedIfPublished, Gates, Ids
  <1>4. HandlersGated'
    BY DEF vars, LifecycleInv, HandlersGated, HandlerGated, VersionOfRow,
           GatedIfPublished, Gates, Writing, Ids
  <1> QED
    BY <1>1, <1>2, <1>3, <1>4 DEF LifecycleInv

-----------------------------------------------------------------------------
(* The theorems. *)

(* The inductive invariant holds in every reachable state. *)
THEOREM LifecycleInvariance == Spec => []LifecycleInv
  <1>1. LifecycleInv /\ [Next]_vars => LifecycleInv'
    BY NextStep, StutterStep
  <1> QED
    BY InitHolds, <1>1, PTL DEF Spec

(* Publish is replay-gated: what the company points at was published on an *)
(* acknowledged replay of exactly its content, whatever races and stops.   *)
THEOREM AlwaysReplayGated == Spec => []ReplayGated
  <1>1. LifecycleInv => ReplayGated
    BY DEF LifecycleInv
  <1> QED
    BY LifecycleInvariance, <1>1, PTL

(* No handler, however stale what it read, rewrites history. *)
THEOREM HistoryAlwaysKept == Spec => HistoryKept
  <1>1. LifecycleInv /\ [Next]_vars => [KeepsHistory]_vars
    BY NextStep, StutterStep
  <1> QED
    BY LifecycleInvariance, <1>1, PTL DEF Spec, HistoryKept

-----------------------------------------------------------------------------
(* The lifecycle implements PublishGate. *)

live == IF active_id = None THEN None ELSE rows[active_id].content_hash

acknowledged == {h \in Hashes : \E i \in DOMAIN runs : Gates(i, h)}

LEMMA HashesOfRuns ==
  ASSUME NEW seq \in Seq([candidate_bundle_hash : Hashes, acknowledged : BOOLEAN])
  PROVE  \A i \in DOMAIN seq : seq[i].candidate_bundle_hash \in Hashes
  <1> DEFINE Run == [candidate_bundle_hash : Hashes, acknowledged : BOOLEAN]
  <1>1. \A entry \in Run : entry.candidate_bundle_hash \in Hashes
    OBVIOUS
  <1>2. seq \in Seq(Run)
    OBVIOUS
  <1> HIDE DEF Run
  <1>3. \A i \in DOMAIN seq : seq[i] \in Run
    BY <1>2
  <1> QED
    BY <1>1, <1>3

LEMMA RefinementStep ==
  ASSUME LifecycleInv, LifecycleInv', KeepsHistory, [Next]_vars
  PROVE  [Gate!Next]_<<live, acknowledged>>
  <1>0. \A i \in DOMAIN runs : runs[i].candidate_bundle_hash \in Hashes
    BY HashesOfRuns DEF LifecycleInv, TypeOK
  <1>1. active_id' = active_id => live' = live
    BY BundleAssumptions DEF LifecycleInv, ReplayGated, KeepsHistory, live
  <1>2. runs' = runs => acknowledged' = acknowledged
    BY DEF acknowledged, Gates
  <1>3. CASE active_id' = active_id /\ runs' = runs
    BY <1>1, <1>2, <1>3
  <1>4. CASE \E t \in Threads : SetActive(t)
    <2>1. PICK t \in Threads : SetActive(t)
      BY <1>4
    <2>2. UNCHANGED <<rows, runs>> /\ active_id' # None
      <3>1. record[t].record_id \in RecordIds
        BY <2>1, HandlerTypes DEF LifecycleInv, SetActive, Finish, Goto, Records
      <3> QED
        BY <2>1, <3>1, BundleAssumptions DEF SetActive
    <2>3. /\ live' \in Hashes
          /\ Gates(rows[active_id'].replay_run_id, live')
      BY <2>2 DEF LifecycleInv, TypeOK, ReplayGated, Records, Gates, Ids, live
    <2>4. live' \in acknowledged
      BY <2>3 DEF acknowledged, Gates
    <2> QED
      BY <1>2, <2>2, <2>3, <2>4 DEF Gate!Next, Gate!GoLive, live, acknowledged
  <1>5. CASE \E r \in Ids : Replay(r)
    <2>1. PICK entry : runs' = Append(runs, entry) /\ ~ entry.acknowledged
      BY <1>5 DEF Replay
    <2>2. runs \in Seq([candidate_bundle_hash : Hashes, acknowledged : BOOLEAN])
      BY DEF LifecycleInv, TypeOK
    <2>3. \A i, h : Gates(i, h)' <=> Gates(i, h)
      BY <2>1, <2>2 DEF Gates
    <2>4. DOMAIN runs \subseteq DOMAIN runs'
      BY <2>1, <2>2
    <2>5. acknowledged' = acknowledged
      BY <2>3, <2>4 DEF acknowledged, Gates
    <2> QED
      BY <1>1, <1>5, <2>5 DEF Replay
  <1>6. CASE \E i \in DOMAIN runs : Acknowledge(i)
    <2>1. PICK i \in DOMAIN runs : Acknowledge(i)
      BY <1>6
    <2>2. PICK h \in Hashes : h = runs[i].candidate_bundle_hash
      BY <1>0
    <2>3. acknowledged' = acknowledged \cup {h}
      BY <2>1, <2>2 DEF LifecycleInv, TypeOK, acknowledged, Gates, Acknowledge
    <2>4. live' = live
      BY <1>1, <2>1 DEF Acknowledge
    <2> QED
      BY <2>3, <2>4 DEF Gate!Next, Gate!Acknowledge, live, acknowledged
  <1>7. \/ active_id' = active_id /\ runs' = runs
        \/ \E t \in Threads : SetActive(t)
        \/ \E r \in Ids : Replay(r)
        \/ \E i \in DOMAIN runs : Acknowledge(i)
    BY Zenon DEF Next, Work, vars, stores, Stop, SaveDraft, AddDraft, AddRefused,
           PublishGet, PublishNoOp, PublishActive, PublishBlocked, PublishGated,
           PublishUpdate, PublishRetire, ActivateGet, ActivateActive,
           ActivateRetire, ActivateUpdate
  <1> QED
    BY <1>3, <1>4, <1>5, <1>6, <1>7

(* What is live changes only to content that was acknowledged before. *)
THEOREM ImplementsGate == Spec => ImplementsPublishGate
  <1>1. Init => Gate!Init
    BY DEF Init, Gate!Init, Gates
  <1>2. LifecycleInv /\ LifecycleInv' /\ [Next]_vars => [Gate!Next]_<<live, acknowledged>>
    BY RefinementStep, NextStep, StutterStep
  <1> QED
    BY LifecycleInvariance, <1>1, <1>2, PTL
       DEF Spec, ImplementsPublishGate, Gate!Spec, live, acknowledged

-----------------------------------------------------------------------------
(* One record per content: the unique index. *)

(* No step but AddDraft adds a record. *)
LEMMA RecordsAdded ==
  ASSUME LifecycleInv, Next
  PROVE  Ids' \subseteq Ids \/ \E t \in Threads : AddDraft(t)
  <1>1. ASSUME NEW row, VersionOfRow(row), update(row)
        PROVE  Ids' \subseteq Ids
    BY <1>1 DEF LifecycleInv, TypeOK, VersionOfRow, update, Ids
  <1>2. ASSUME NEW t \in Threads,
               \/ PublishUpdate(t) \/ PublishRetire(t)
               \/ ActivateRetire(t) \/ ActivateUpdate(t)
        PROVE  Ids' \subseteq Ids
    <2>1. PICK old, seen : old = record[t] /\ seen = current[t]
      OBVIOUS
    <2>2. /\ VersionOfRow(old)
          /\ seen # None => VersionOfRow(seen) /\ seen \in Records
          /\ pc[t] \in {"publish_retire", "activate_retire"} => seen # None
          /\ old \in Records
      <3>1. HandlerGated(t) /\ TypeOK /\ pc[t] \notin {"idle", "add"}
        BY <1>2 DEF LifecycleInv, HandlersGated, PublishUpdate, PublishRetire,
                    ActivateRetire, ActivateUpdate, Goto
      <3> QED
        BY <2>1, <3>1, HandlerTypes DEF HandlerGated, TypeOK
    <2>3. CASE PublishUpdate(t)
      BY <1>1, <2>1, <2>2, <2>3 DEF PublishUpdate
    <2>4. CASE PublishRetire(t) \/ ActivateRetire(t)
      <3>1. PICK new : new = [seen EXCEPT !.status = "retired"]
        OBVIOUS
      <3>2. VersionOfRow(new)
        BY <2>1, <2>2, <2>4, <3>1, StatusOnly
           DEF VersionOfRow, PublishRetire, ActivateRetire, Goto
      <3> QED
        BY <1>1, <2>1, <2>4, <3>1, <3>2 DEF PublishRetire, ActivateRetire
    <2>5. CASE ActivateUpdate(t)
      <3>1. PICK new : new = [old EXCEPT !.status = "published"]
        OBVIOUS
      <3>2. VersionOfRow(new)
        BY <2>2, <3>1, StatusOnly DEF VersionOfRow
      <3> QED
        BY <1>1, <2>1, <2>5, <3>1, <3>2 DEF ActivateUpdate
    <2> QED
      BY <1>2, <2>3, <2>4, <2>5
  <1>3. CASE rows' = rows
    BY <1>3 DEF Ids
  <1>4. \/ rows' = rows
        \/ \E t \in Threads : AddDraft(t)
        \/ \E t \in Threads : \/ PublishUpdate(t) \/ PublishRetire(t)
                             \/ ActivateRetire(t) \/ ActivateUpdate(t)
    BY Zenon DEF Next, Work, stores, Stop, SaveDraft, AddRefused, PublishGet, PublishNoOp,
                 PublishActive, PublishBlocked, PublishGated, ActivateGet, ActivateActive,
                 SetActive, Replay, Acknowledge
  <1> QED
    BY <1>2, <1>3, <1>4

LEMMA UniqueStep ==
  ASSUME UniqueHash, LifecycleInv, OneRecordPerHash, KeepsHistory, [Next]_vars
  PROVE  OneRecordPerHash'
  <1>1. CASE Ids' \subseteq Ids
    BY <1>1 DEF OneRecordPerHash, KeepsHistory
  <1>2. ASSUME NEW t \in Threads, AddDraft(t)
        PROVE  OneRecordPerHash'
    <2>1. pc[t] = "add" /\ record[t] \in Records /\ record[t] # None
      BY <1>2, HandlerTypes, BundleAssumptions DEF LifecycleInv, AddDraft, Finish, Goto
    <2>2. PICK new : new = record[t]
      OBVIOUS
    <2>3. /\ new.record_id \in RecordIds
          /\ rows' = [rows EXCEPT ![new.record_id] = new]
          /\ \A r \in Ids : rows[r].content_hash # new.content_hash
      BY <1>2, <2>1, <2>2 DEF AddDraft, update, by_hash, Records
    <2>4. ASSUME NEW r \in Ids', r # new.record_id
          PROVE  r \in Ids /\ rows'[r] = rows[r]
      BY <2>3, <2>4 DEF LifecycleInv, TypeOK, Ids
    <2>5. rows'[new.record_id] = new
      BY <2>3 DEF LifecycleInv, TypeOK
    <2> QED
      BY <2>3, <2>4, <2>5 DEF OneRecordPerHash
  <1>3. CASE UNCHANGED vars
    BY <1>3 DEF vars, OneRecordPerHash, Ids
  <1> QED
    BY <1>1, <1>2, <1>3, RecordsAdded

(* Over Postgres content registers once, however many handlers save the    *)
(* same draft at once: rows keep their content and the index refuses a     *)
(* second record of it.                                                    *)
THEOREM ContentRegistersOnce ==
  ASSUME UniqueHash
  PROVE  Spec => []OneRecordPerHash
  <1>1. Init => OneRecordPerHash
    BY DEF Init, OneRecordPerHash, Ids
  <1>2. LifecycleInv /\ OneRecordPerHash /\ [Next]_vars => OneRecordPerHash'
    BY UniqueStep, NextStep, StutterStep
  <1> QED
    BY <1>1, <1>2, LifecycleInvariance, PTL DEF Spec

-----------------------------------------------------------------------------
(* One call at a time: exactly one bundle is published.                    *)

LEMMA StatusAfter ==
  ASSUME TypeOK, NEW row \in Records, update(row)
  PROVE  Published' = IF row.status = "published"
                        THEN Published \cup {row.record_id}
                        ELSE Published \ {row.record_id}
  <1>1. row.record_id \in RecordIds /\ row # None
    BY BundleAssumptions DEF Records
  <1>2. rows'[row.record_id] = row
    BY <1>1 DEF TypeOK, update
  <1>3. \A r \in RecordIds \ {row.record_id} : rows'[r] = rows[r]
    BY <1>1 DEF TypeOK, update
  <1> QED
    BY <1>1, <1>2, <1>3 DEF Published, Ids

(* Where the call stands, seen from the status of the rows alone. *)
LEMMA LocalProgress ==
  ASSUME LifecycleInv, TypeOK', NEW t \in Threads, Progress(t),
         \/ \E r \in RecordIds, h \in Hashes : SaveDraft(t, r, h)
         \/ AddRefused(t)
         \/ \E r \in Ids : PublishGet(t, r) \/ ActivateGet(t, r)
         \/ PublishNoOp(t) \/ PublishActive(t) \/ PublishBlocked(t)
         \/ ActivateActive(t) \/ PublishGated(t)
  PROVE  Progress(t)'
  <1>1. TypeOK /\ HandlerGated(t)
    BY DEF LifecycleInv, HandlersGated
  <1>2. UNCHANGED stores /\ pc[t] \in Before
    BY DEF SaveDraft, AddRefused, PublishGet, ActivateGet, PublishNoOp, PublishActive,
           PublishBlocked, ActivateActive, PublishGated, Finish, Goto, Before
  <1>3. Published = Pointed
    BY <1>2 DEF Progress
  <1>4. Published' = Published /\ Pointed' = Pointed /\ active' = active
    BY <1>2 DEF stores, Published, Pointed, active, Ids
  <1>5. CASE \/ AddRefused(t) \/ PublishNoOp(t) \/ PublishBlocked(t)
             \/ \E r \in Ids : PublishGet(t, r) \/ ActivateGet(t, r)
    <2>1. pc'[t] \in {"idle", "publish_active", "activate_active"}
      BY <1>1, <1>5 DEF TypeOK, AddRefused, PublishNoOp, PublishBlocked, PublishGet,
                        ActivateGet, Finish, Goto
    <2> QED
      BY <1>3, <1>4, <2>1 DEF Progress, Replacing
  <1>6. CASE \E r \in RecordIds, h \in Hashes : SaveDraft(t, r, h)
    <2>1. pc'[t] = "add" /\ record'[t].status = "draft"
      BY <1>1, <1>6 DEF TypeOK, SaveDraft, Goto
    <2> QED
      BY <1>3, <1>4, <2>1 DEF Progress, Replacing
  <1>7. CASE PublishActive(t)
    <2>1. /\ pc'[t] = "publish_gate" /\ record'[t] = record[t] /\ current'[t] = active
          /\ active # None => active.content_hash # record[t].content_hash
      BY <1>1, <1>7 DEF TypeOK, PublishActive, Goto
    <2>2. VersionOfRow(record[t])
      BY <1>1, <1>7 DEF HandlerGated, PublishActive, Goto
    <2>3. active_id # record[t].record_id
      BY <2>1, <2>2, BundleAssumptions DEF VersionOfRow, active, Ids
    <2> QED
      BY <1>2, <1>3, <1>4, <2>1, <2>3 DEF Progress, Replacing, stores
  <1>8. CASE PublishGated(t)
    <2>1. pc[t] = "publish_gate" /\ record[t] \in Records
      BY <1>1, <1>8, HandlerTypes DEF PublishGated, Goto
    <2>2. PICK old, new : old = record[t] /\ new = record'[t]
      OBVIOUS
    <2>3. new.record_id = old.record_id /\ new.status = "published"
      <3>1. PICK gate \in latest_acknowledged_for(record[t].content_hash) :
              record' = [record EXCEPT ![t].status = "published",
                                       ![t].published = TRUE,
                                       ![t].replay_run_id = gate]
        BY <1>8 DEF PublishGated
      <3> QED
        BY <1>1, <2>1, <2>2, <3>1 DEF TypeOK, Records
    <2>4. pc'[t] = "publish_update" /\ current'[t] = current[t]
      BY <1>1, <1>8 DEF TypeOK, PublishGated, Goto
    <2>5. current[t] = active /\ active_id # old.record_id
      BY <2>1, <2>2 DEF Progress, Replacing
    <2> QED
      BY <1>2, <1>3, <1>4, <2>2, <2>3, <2>4, <2>5 DEF Progress, stores
  <1>9. CASE ActivateActive(t)
    <2>1. /\ record'[t] = record[t] /\ current'[t] = active
          /\ pc'[t] = IF active # None /\ active.record_id # record[t].record_id
                        THEN "activate_retire" ELSE "activate_update"
      BY <1>1, <1>9 DEF TypeOK, ActivateActive, Goto
    <2>2. active_id # None => active # None /\ active.record_id = active_id
      BY <1>1, BundleAssumptions DEF LifecycleInv, ReplayGated, TypeOK, active, Ids
    <2>3. record[t].record_id # None
      BY <1>1, <1>9, HandlerTypes, BundleAssumptions DEF ActivateActive, Goto, Records
    <2>4. CASE active # None /\ active.record_id # record[t].record_id
      BY <1>2, <1>3, <1>4, <2>1, <2>2, <2>4 DEF Progress, Replacing, active, stores
    <2>5. CASE ~ (active # None /\ active.record_id # record[t].record_id)
      <3>1. pc'[t] = "activate_update"
        BY <2>1, <2>5
      <3>2. Pointed \subseteq {record[t].record_id}
        BY <2>2, <2>5 DEF Pointed
      <3> QED
        BY <1>3, <1>4, <2>1, <3>1, <3>2 DEF Progress, Replacing, Before
    <2> QED
      BY <2>4, <2>5
  <1> QED
    BY <1>5, <1>6, <1>7, <1>8, <1>9

LEMMA WriteProgress ==
  ASSUME LifecycleInv, TypeOK', NEW t \in Threads, Progress(t),
         \/ AddDraft(t) \/ PublishUpdate(t) \/ PublishRetire(t)
         \/ ActivateRetire(t) \/ ActivateUpdate(t) \/ SetActive(t)
  PROVE  Progress(t)'
  <1>1. TypeOK /\ HandlerGated(t)
    BY DEF LifecycleInv, HandlersGated
  <1>2. PICK old, seen, mine :
          old = record[t] /\ seen = current[t] /\ mine = record[t].record_id
    OBVIOUS
  <1>3. /\ pc[t] # "idle" /\ old \in Records /\ mine \in RecordIds /\ mine # None
        /\ old.record_id = mine
    <2>1. pc[t] # "idle"
      BY DEF AddDraft, PublishUpdate, PublishRetire, ActivateRetire, ActivateUpdate,
             SetActive, Finish, Goto
    <2> QED
      BY <1>1, <1>2, <2>1, HandlerTypes, BundleAssumptions DEF Records
  <1>4. active_id # None => active # None /\ active.record_id = active_id
    BY <1>1, BundleAssumptions DEF LifecycleInv, ReplayGated, TypeOK, active, Ids
  <1>5. CASE AddDraft(t)
    <2>1. /\ pc'[t] = "idle" /\ active_id' = active_id /\ update(old)
          /\ pc[t] = "add"
      BY <1>1, <1>2, <1>5 DEF TypeOK, AddDraft, Finish, Goto
    <2>2. old.status = "draft" /\ Published = Pointed
      BY <1>2, <2>1 DEF Progress, Before
    <2>3. mine \notin Ids
      BY <1>2, <2>1 DEF LifecycleInv, DraftsFresh
    <2>4. Published' = Published
      BY <1>1, <1>3, <2>1, <2>2, <2>3, StatusAfter DEF Published
    <2> QED
      BY <2>1, <2>2, <2>4 DEF Progress, Replacing, Pointed
  <1>6. CASE PublishUpdate(t)
    <2>1. /\ pc[t] = "publish_update" /\ update(old)
          /\ UNCHANGED <<active_id, record, current>>
          /\ pc'[t] = IF seen = None THEN "set_active" ELSE "publish_retire"
      BY <1>1, <1>2, <1>6 DEF TypeOK, PublishUpdate, Goto
    <2>2. /\ Published = Pointed /\ seen = active /\ active_id # mine
          /\ old.status = "published"
      BY <1>2, <2>1 DEF Progress, Before, Replacing
    <2>3. Published' = Pointed \cup {mine} /\ Pointed' = Pointed
      BY <1>1, <1>3, <2>1, <2>2, StatusAfter DEF Pointed
    <2>4. CASE seen = None
      BY <1>2, <1>4, <2>1, <2>2, <2>3, <2>4 DEF Progress, Replacing, Before, Pointed
    <2>5. CASE seen # None
      <3>1. active_id # None /\ rows'[active_id] = rows[active_id]
        <4>1. active_id # None
          BY <2>2, <2>5 DEF active
        <4> QED
          BY <1>1, <1>3, <2>1, <2>2, <4>1 DEF TypeOK, update
      <3>2. active' = active
        BY <2>1, <3>1 DEF active
      <3>3. /\ pc'[t] = "publish_retire" /\ current'[t] = seen
            /\ record'[t].record_id = mine /\ record'[t].status = "published"
        BY <1>2, <2>1, <2>2, <2>5
      <3>4. active_id' # mine /\ Published' = Pointed' \cup {mine} /\ seen = active'
        BY <2>1, <2>2, <2>3, <3>2
      <3> QED
        BY <3>3, <3>4 DEF Progress, Replacing, Before
    <2> QED
      BY <2>4, <2>5
  <1>7. ASSUME NEW new, new = [seen EXCEPT !.status = "retired"], update(new),
               active_id' = active_id, seen = active, seen # None
        PROVE  Published' = Published \ {active_id} /\ active_id # None
    <2>1. seen \in Records
      <3>1. seen \in Records \cup {None}
        BY <1>1, <1>2 DEF TypeOK
      <3> QED
        BY <1>7, <3>1
    <2>2. new \in Records /\ new.record_id = seen.record_id /\ new.status = "retired"
      BY <1>7, <2>1 DEF Records
    <2>3. active_id # None
      BY <1>7 DEF active
    <2> QED
      BY <1>1, <1>4, <1>7, <2>2, <2>3, StatusAfter
  <1>8. CASE PublishRetire(t)
    <2>1. /\ pc[t] = "publish_retire" /\ seen # None
          /\ update([seen EXCEPT !.status = "retired"])
          /\ UNCHANGED <<active_id, record, current>>
          /\ pc'[t] = "set_active"
      BY <1>1, <1>2, <1>8 DEF TypeOK, PublishRetire, Goto
    <2>2. Published = Pointed \cup {mine} /\ seen = active /\ active_id # mine
      BY <1>2, <2>1 DEF Progress, Replacing
    <2>3. Published' = Published \ {active_id} /\ active_id # None
      BY <1>7, <2>1, <2>2
    <2>4. Published' = {mine}
      BY <2>2, <2>3 DEF Pointed
    <2>5. record'[t].record_id = mine
      BY <1>2, <2>1
    <2> QED
      BY <2>1, <2>4, <2>5 DEF Progress, Replacing, Before
  <1>9. CASE ActivateRetire(t)
    <2>1. /\ pc[t] = "activate_retire" /\ seen # None
          /\ update([seen EXCEPT !.status = "retired"])
          /\ UNCHANGED <<active_id, record, current>>
          /\ pc'[t] = "activate_update"
      BY <1>1, <1>2, <1>9 DEF TypeOK, ActivateRetire, Goto
    <2>2. Published = Pointed /\ seen = active
      BY <1>2, <2>1 DEF Progress, Replacing, Before
    <2>3. Published' = Published \ {active_id} /\ active_id # None
      BY <1>7, <2>1, <2>2
    <2>4. Published' = {}
      BY <2>2, <2>3 DEF Pointed
    <2> QED
      BY <2>1, <2>4 DEF Progress, Replacing, Before
  <1>10. CASE ActivateUpdate(t)
    <2>1. /\ pc[t] = "activate_update"
          /\ update([old EXCEPT !.status = "published"])
          /\ UNCHANGED <<active_id, record, current>>
          /\ pc'[t] = "set_active"
      BY <1>1, <1>2, <1>10 DEF TypeOK, ActivateUpdate, Goto
    <2>2. PICK new : new = [old EXCEPT !.status = "published"]
      OBVIOUS
    <2>3. new \in Records /\ new.record_id = mine /\ new.status = "published"
      BY <1>3, <2>2 DEF Records
    <2>4. Published \subseteq {mine}
      BY <1>2, <2>1 DEF Progress
    <2>5. Published' = {mine}
      BY <1>1, <2>1, <2>2, <2>3, <2>4, StatusAfter
    <2>6. record'[t].record_id = mine
      BY <1>2, <2>1
    <2> QED
      BY <2>1, <2>5, <2>6 DEF Progress, Replacing, Before
  <1>11. CASE SetActive(t)
    <2>1. pc[t] = "set_active" /\ pc'[t] = "idle" /\ active_id' = mine /\ rows' = rows
      BY <1>1, <1>2, <1>11 DEF TypeOK, SetActive, Finish, Goto
    <2>2. Published = {mine}
      BY <1>2, <2>1 DEF Progress
    <2>3. Published' = {mine} /\ Pointed' = {mine}
      BY <1>3, <2>1, <2>2 DEF Published, Pointed, Ids
    <2> QED
      BY <2>1, <2>3 DEF Progress, Replacing
  <1> QED
    BY <1>5, <1>6, <1>8, <1>9, <1>10, <1>11

LEMMA AloneStep ==
  ASSUME LifecycleInv, LifecycleInv', AloneInv, [AloneNext]_<<vars, alone>>
  PROVE  AloneInv'
  <1> USE DEF AloneInv
  <1>1. CASE UNCHANGED <<vars, alone>>
    BY <1>1 DEF vars, Overlap, Progress, Published, Pointed, active, ExactlyOnePublished,
                Ids, Before, Replacing
  <1>2. CASE ~ alone'
    BY <1>2
  <1>3. CASE alone' /\ AloneNext
    <2>1. alone /\ ~ Overlap /\ ~ Overlap' /\ Work
      BY <1>3 DEF AloneNext
    <2>2. TypeOK /\ TypeOK'
      BY DEF LifecycleInv
    <2>3. CASE (\E r \in Ids : Replay(r)) \/ (\E i \in DOMAIN runs : Acknowledge(i))
      <3>1. UNCHANGED <<rows, active_id, pc, record, current>>
        BY <2>3 DEF Replay, Acknowledge
      <3> QED
        BY <1>3, <2>1, <3>1 DEF Progress, Published, Pointed, active, ExactlyOnePublished,
                                Ids, Before, Replacing
    <2>4. ASSUME NEW t \in Threads, Progress(t)', OnlyMoves(t),
                 pc[t] # "idle" \/ pc'[t] # "idle"
          PROVE  AloneInv'
      <3>1. \A u \in Threads \ {t} : pc'[u] = "idle"
        BY <2>1, <2>4 DEF Overlap, OnlyMoves
      <3>2. ExactlyOnePublished'
        BY <2>4 DEF ExactlyOnePublished, Progress, Before, Published, Pointed
      <3> QED
        BY <2>1, <2>4, <3>1, <3>2
    <2>5. ASSUME NEW t \in Threads, pc[t] # "idle" \/ \A u \in Threads : pc[u] = "idle"
          PROVE  Progress(t)
      <3>1. CASE pc[t] # "idle"
        BY <2>1, <3>1
      <3>2. CASE \A u \in Threads : pc[u] = "idle"
        BY <2>1, <3>2 DEF ExactlyOnePublished, Progress, Replacing, Published, Pointed
      <3> QED
        BY <2>5, <3>1, <3>2
    <2>6. ASSUME NEW t \in Threads, OnlyMoves(t), pc[t] # "idle" \/ pc'[t] # "idle"
          PROVE  Progress(t)
      BY <2>1, <2>5, <2>6 DEF Overlap, OnlyMoves
    <2>7. ASSUME NEW t \in Threads,
                 \/ \E r \in RecordIds, h \in Hashes : SaveDraft(t, r, h)
                 \/ AddRefused(t)
                 \/ \E r \in Ids : PublishGet(t, r) \/ ActivateGet(t, r)
                 \/ PublishNoOp(t) \/ PublishActive(t) \/ PublishBlocked(t)
                 \/ ActivateActive(t) \/ PublishGated(t)
          PROVE  AloneInv'
      <3>1. OnlyMoves(t) /\ (pc[t] # "idle" \/ pc'[t] # "idle")
        BY <2>2, <2>7
           DEF TypeOK, OnlyMoves, SaveDraft, AddRefused, PublishGet, ActivateGet,
               PublishNoOp, PublishActive, PublishBlocked, ActivateActive, PublishGated,
               Finish, Goto
      <3>2. Progress(t)'
        BY <2>2, <2>6, <2>7, <3>1, LocalProgress
      <3> QED
        BY <2>4, <3>1, <3>2
    <2>8. ASSUME NEW t \in Threads,
                 \/ AddDraft(t) \/ PublishUpdate(t) \/ PublishRetire(t)
                 \/ ActivateRetire(t) \/ ActivateUpdate(t) \/ SetActive(t)
          PROVE  AloneInv'
      <3>1. OnlyMoves(t) /\ pc[t] # "idle"
        BY <2>2, <2>8
           DEF TypeOK, OnlyMoves, AddDraft, PublishUpdate, PublishRetire, ActivateRetire,
               ActivateUpdate, SetActive, Finish, Goto
      <3>2. Progress(t)'
        BY <2>2, <2>6, <2>8, <3>1, WriteProgress
      <3> QED
        BY <2>4, <3>1, <3>2
    <2> QED
      BY <2>1, <2>3, <2>7, <2>8 DEF Work
  <1> QED
    BY <1>1, <1>2, <1>3

(* Where lifecycle calls follow one another and none stops half-way,       *)
(* exactly one bundle is published between them, the active one, whatever  *)
(* was saved, replayed, published and activated before.                    *)
THEOREM OnePublishedAlone == AloneSpec => []ExactlyOnePublishedAlone
  <1>1. AloneInit => LifecycleInv /\ AloneInv
    <2>1. AloneInit => LifecycleInv
      BY InitHolds DEF AloneInit
    <2>2. AloneInit => AloneInv
      BY DEF AloneInit, Init, AloneInv, Overlap, ExactlyOnePublished, Ids
    <2> QED
      BY <2>1, <2>2
  <1>2. [AloneNext]_<<vars, alone>> => [Next]_vars
    BY DEF AloneNext, Next
  <1>3. LifecycleInv /\ [AloneNext]_<<vars, alone>> => LifecycleInv'
    BY <1>2, NextStep, StutterStep
  <1>4. LifecycleInv /\ AloneInv /\ [AloneNext]_<<vars, alone>> => AloneInv'
    BY <1>3, AloneStep
  <1>5. AloneInv => ExactlyOnePublishedAlone
    BY DEF AloneInv, ExactlyOnePublishedAlone
  <1> QED
    BY <1>1, <1>3, <1>4, <1>5, PTL DEF AloneSpec

-----------------------------------------------------------------------------
(* Seeding: processes come up over the lifecycle. *)

LEMMA NewIdsFresh == NewIds \subseteq FreshIds /\ FreshIds \subseteq RecordIds
  <1>1. NewIds \subseteq FreshIds
    BY Zenon DEF NewIds
  <1> QED
    BY <1>1 DEF FreshIds

LEMMA StopProcessStep ==
  ASSUME LifecycleInv, NEW p \in Processes, StopProcess(p)
  PROVE  LifecycleInv' /\ KeepsHistory
  <1>1. /\ p \in Threads
        /\ pc' = [pc EXCEPT ![p] = "idle"]
        /\ record' = [record EXCEPT ![p] = None]
        /\ current' = [current EXCEPT ![p] = None]
        /\ UNCHANGED stores
    BY DEF Processes, StopProcess
  <1>2. TypeOK /\ TypeOK'
    BY <1>1 DEF LifecycleInv, TypeOK, stores, Ids
  <1>3. OnlyMoves(p) /\ pc'[p] = "idle" /\ current'[p] = None
    BY <1>1, <1>2 DEF TypeOK, OnlyMoves
  <1>4. HandlerGated(p)'
    BY <1>3 DEF HandlerGated, Writing
  <1> QED
    BY <1>1, <1>2, <1>3, <1>4, LocalStep

(* What a process does is a step of the lifecycle, or none. *)
LEMMA SeedsStep ==
  ASSUME SeedingInv, NEW p \in Processes, Seeds(p)
  PROVE  Next \/ UNCHANGED vars
  <1>1. p \in Threads /\ ProcessInv(p) /\ Seed \in Hashes
    BY SeedingAssumptions DEF SeedingInv, Processes
  <1>2. CASE \/ Start(p) \/ AddCase(p) \/ FoundActive(p) \/ FoundNone(p)
             \/ SeedDraftKnown(p) \/ ListCases(p) \/ SeedFails(p)
    BY <1>2 DEF Start, AddCase, FoundActive, FoundNone, SeedDraftKnown, ListCases, SeedFails
  <1>3. CASE SaveSeedDraft(p)
    <2>1. PICK r \in RecordIds : SaveDraft(p, r, Seed)
      BY <1>3, NewIdsFresh DEF SaveSeedDraft
    <2> QED
      BY <1>1, <2>1 DEF Next, Work
  <1>4. CASE AddSeedDraft(p) \/ SeedDraftRefused(p)
    BY <1>1, <1>4 DEF AddSeedDraft, SeedDraftRefused, Next, Work
  <1>5. CASE ReplaySeed(p)
    <2>1. draft[p] \in Ids /\ Replay(draft[p])
      BY <1>1, <1>5 DEF ReplaySeed, Score, Enter, ProcessInv, SeedStages, by_hash
    <2> QED
      BY <2>1 DEF Next, Work
  <1>6. CASE AcknowledgeSeed(p)
    <2>1. run[p] \in DOMAIN runs /\ Acknowledge(run[p])
      BY <1>1, <1>6 DEF AcknowledgeSeed, Enter, ProcessInv, runs_for
    <2> QED
      BY <2>1 DEF Next, Work
  <1>7. CASE PublishSeed(p)
    <2>1. stage[p] = "publish"
      BY <1>7 DEF PublishSeed, Leave, Enter
    <2>2. draft[p] \in Ids
      BY <1>1, <2>1 DEF ProcessInv, SeedStages, by_hash
    <2>3. \/ PublishGet(p, draft[p]) \/ PublishActive(p) \/ PublishGated(p)
          \/ PublishUpdate(p) \/ PublishRetire(p) \/ PublishNoOp(p) \/ SetActive(p)
      BY <1>7 DEF PublishSeed
    <2> QED
      BY <1>1, <2>2, <2>3 DEF Next, Work
  <1> QED
    BY <1>2, <1>3, <1>4, <1>5, <1>6, <1>7 DEF Seeds

(* So is what the owner does. *)
LEMMA OwnerStep ==
  ASSUME SeedingInv, OwnerActs
  PROVE  Next \/ UNCHANGED vars
  <1>1. Owner \in Threads /\ Own \in Hashes
    BY SeedingAssumptions
  <1>2. CASE Promote
    BY <1>2 DEF Promote
  <1>3. CASE OwnerReplays
    BY <1>3 DEF OwnerReplays, Score, by_hash, Next, Work
  <1>4. CASE OwnerAcknowledges
    BY <1>4 DEF OwnerAcknowledges, runs_for, Next, Work
  <1>5. CASE OwnerPublishes
    <2>1. CASE \E r \in NewIds : SaveDraft(Owner, r, Own)
      <3>1. PICK r \in RecordIds : SaveDraft(Owner, r, Own)
        BY <2>1, NewIdsFresh
      <3> QED
        BY <1>1, <3>1 DEF Next, Work
    <2>2. CASE \E r \in Ids : PublishGet(Owner, r)
      BY <1>1, <2>2 DEF Next, Work
    <2>3. CASE \/ AddDraft(Owner) \/ PublishNoOp(Owner) \/ PublishActive(Owner)
               \/ PublishBlocked(Owner) \/ PublishGated(Owner) \/ PublishUpdate(Owner)
               \/ PublishRetire(Owner) \/ SetActive(Owner)
      BY <1>1, <2>3 DEF Next, Work
    <2> QED
      BY <1>5, <2>1, <2>2, <2>3 DEF OwnerPublishes
  <1> QED
    BY <1>2, <1>3, <1>4, <1>5 DEF OwnerActs

LEMMA LifecycleOfSeeding ==
  ASSUME SeedingInv, [SeedingNext]_seedVars
  PROVE  LifecycleInv' /\ KeepsHistory
  <1>1. LifecycleInv
    BY DEF SeedingInv
  <1>2. CASE Next \/ UNCHANGED vars
    BY <1>1, <1>2, NextStep, StutterStep
  <1>3. CASE \E p \in Processes : StopProcess(p)
    BY <1>1, <1>3, StopProcessStep
  <1> QED
    BY <1>2, <1>3, SeedsStep, OwnerStep DEF SeedingNext, seedVars

(* What happens to the runs: nothing, a new one is scored, or one is       *)
(* acknowledged, and if it is of the reference bundle it is clean.         *)
LEMMA RunsOfSeeding ==
  ASSUME SeedingInv, [SeedingNext]_seedVars
  PROVE  /\ bad' = bad /\ cases \subseteq cases'
         /\ \/ UNCHANGED <<runs, scored>>
            \/ \E r \in Ids, e \in SUBSET Cases : Score(r, e)
            \/ \E i \in DOMAIN runs :
                 /\ Acknowledge(i) /\ UNCHANGED scored
                 /\ runs[i].candidate_bundle_hash = Seed => Clean(scored[i])
  <1>1. ASSUME NEW p \in Processes, Seeds(p)
        PROVE  /\ bad' = bad /\ cases \subseteq cases'
               /\ \/ UNCHANGED <<runs, scored>>
                  \/ \E r \in Ids, e \in SUBSET Cases : Score(r, e)
                  \/ \E i \in DOMAIN runs :
                       /\ Acknowledge(i) /\ UNCHANGED scored
                       /\ runs[i].candidate_bundle_hash = Seed => Clean(scored[i])
    <2>1. CASE ReplaySeed(p)
      <3>1. draft[p] \in Ids /\ Score(draft[p], listed[p]) /\ listed[p] \in SUBSET Cases
        BY <2>1 DEF SeedingInv, SeedingTypeOK, ReplaySeed, Enter, ProcessInv, SeedStages, by_hash
      <3>2. bad' = bad /\ cases' = cases
        BY <3>1 DEF Score
      <3> QED
        BY <3>1, <3>2
    <2>2. CASE AcknowledgeSeed(p)
      <3>1. /\ run[p] \in DOMAIN runs /\ Acknowledge(run[p])
            /\ Shipped(p) \subseteq scored[run[p]] /\ scored[run[p]] \cap bad = {}
            /\ UNCHANGED <<cases, scored, bad>>
        BY <2>2 DEF SeedingInv, AcknowledgeSeed, Enter, ProcessInv, runs_for
      <3>2. Clean(scored[run[p]])
        BY <3>1 DEF Clean
      <3> QED
        BY <3>1, <3>2
    <2>3. CASE AddCase(p)
      BY <2>3 DEF AddCase, vars
    <2>4. CASE \/ Start(p) \/ FoundActive(p) \/ FoundNone(p)
               \/ SeedDraftKnown(p) \/ SaveSeedDraft(p) \/ AddSeedDraft(p)
               \/ SeedDraftRefused(p) \/ ListCases(p) \/ SeedFails(p) \/ PublishSeed(p)
      <3>1. UNCHANGED <<runs, cases, scored, bad>>
        BY <2>4, Zenon
           DEF Start, FoundActive, FoundNone, SeedDraftKnown, SaveSeedDraft, AddSeedDraft,
               SeedDraftRefused, ListCases, SeedFails, PublishSeed, SaveDraft, AddDraft,
               AddRefused, PublishGet, PublishActive, PublishGated, PublishUpdate,
               PublishRetire, PublishNoOp, SetActive, vars, stores, stored
      <3> QED
        BY <3>1
    <2> QED
      BY <1>1, <2>1, <2>2, <2>3, <2>4 DEF Seeds
  <1>2. CASE OwnerActs
    <2>1. CASE Promote
      BY <2>1 DEF Promote, vars
    <2>2. CASE OwnerReplays
      <3>1. PICK r \in Ids : Score(r, cases)
        BY <2>2 DEF OwnerReplays, by_hash
      <3> QED
        BY <3>1 DEF Score, SeedingInv, SeedingTypeOK
    <2>3. CASE OwnerAcknowledges
      <3>1. PICK i \in DOMAIN runs : Acknowledge(i) /\ UNCHANGED <<cases, scored, bad>>
                                     /\ runs[i].candidate_bundle_hash = Own
        BY <2>3 DEF OwnerAcknowledges, runs_for
      <3> QED
        BY <3>1, SeedingAssumptions
    <2>4. CASE OwnerPublishes
      <3>1. UNCHANGED <<runs, cases, scored, bad>>
        BY <2>4, Zenon
           DEF OwnerPublishes, SaveDraft, AddDraft, PublishGet, PublishActive,
               PublishBlocked, PublishGated, PublishUpdate, PublishRetire, PublishNoOp,
               SetActive, stores, stored
      <3> QED
        BY <3>1
    <2> QED
      BY <1>2, <2>1, <2>2, <2>3, <2>4 DEF OwnerActs
  <1>3. CASE \E p \in Processes : StopProcess(p)
    <2>1. UNCHANGED <<runs, cases, scored, bad>>
      BY <1>3 DEF StopProcess, stores, stored
    <2> QED
      BY <2>1
  <1>4. CASE UNCHANGED seedVars
    BY <1>4 DEF seedVars, vars, stored
  <1> QED
    BY <1>1, <1>2, <1>3, <1>4 DEF SeedingNext

(* Cases, runs and their scores are never lost, nor is the live bundle.    *)
Grown ==
  /\ bad' = bad /\ cases \subseteq cases'
  /\ \A i \in DOMAIN runs :
       /\ i \in DOMAIN runs'
       /\ runs'[i].candidate_bundle_hash = runs[i].candidate_bundle_hash
       /\ scored'[i] = scored[i]
  /\ active_id # None => active_id' # None

LEMMA LiveStays ==
  ASSUME SeedingInv, [SeedingNext]_seedVars, active_id # None
  PROVE  active_id' # None
  <1>1. CASE active_id' = active_id
    BY <1>1
  <1>2. ASSUME NEW t \in Threads, SetActive(t)
        PROVE  active_id' # None
    <2>1. record[t].record_id \in RecordIds
      BY <1>2, HandlerTypes DEF SeedingInv, LifecycleInv, SetActive, Finish, Goto, Records
    <2> QED
      BY <1>2, <2>1, BundleAssumptions DEF SetActive
  <1>3. CASE Next
    <2>1. active_id' = active_id \/ \E t \in Threads : SetActive(t)
      BY <1>3, Zenon
         DEF Next, Work, stores, Stop, SaveDraft, AddDraft, AddRefused, PublishGet,
             PublishNoOp, PublishActive, PublishBlocked, PublishGated, PublishUpdate,
             PublishRetire, ActivateGet, ActivateActive, ActivateRetire, ActivateUpdate,
             Replay, Acknowledge
    <2> QED
      BY <1>1, <1>2, <2>1
  <1>4. CASE UNCHANGED vars \/ \E p \in Processes : StopProcess(p)
    BY <1>1, <1>4 DEF vars, StopProcess, stores
  <1> QED
    BY <1>3, <1>4, SeedsStep, OwnerStep DEF SeedingNext, seedVars

LEMMA Appended ==
  ASSUME NEW S, NEW s \in Seq(S), NEW x \in S
  PROVE  /\ Append(s, x) \in Seq(S)
         /\ Len(s) \in Nat /\ Len(Append(s, x)) = Len(s) + 1
         /\ DOMAIN s = 1 .. Len(s) /\ DOMAIN Append(s, x) = 1 .. (Len(s) + 1)
         /\ \A i \in 1 .. Len(s) : Append(s, x)[i] = s[i]
         /\ Append(s, x)[Len(s) + 1] = x
  OBVIOUS

LEMMA Scored ==
  ASSUME SeedingInv, NEW r \in Ids, NEW e \in SUBSET Cases, Score(r, e)
  PROVE  /\ \A i \in DOMAIN runs :
              i \in DOMAIN runs' /\ runs'[i] = runs[i] /\ scored'[i] = scored[i]
         /\ Len(runs') = Len(runs) + 1 /\ Len(runs') \in DOMAIN runs'
         /\ \A i \in DOMAIN runs' : i \in DOMAIN runs \/ i = Len(runs')
         /\ runs'[Len(runs')].candidate_bundle_hash = rows[r].content_hash
         /\ ~ runs'[Len(runs')].acknowledged
         /\ scored' \in Seq(SUBSET Cases) /\ Len(scored') = Len(runs')
         /\ scored'[Len(runs')] = e
  <1>1. PICK n \in Nat : n = Len(runs) /\ n = Len(scored)
    BY DEF SeedingInv, SeedingTypeOK, LifecycleInv, TypeOK
  <1>2. PICK entry : entry = [candidate_bundle_hash |-> rows[r].content_hash,
                              acknowledged          |-> FALSE]
    OBVIOUS
  <1>3. runs' = Append(runs, entry) /\ scored' = Append(scored, e)
    BY <1>2 DEF Score, Replay
  <1>4. PICK Run : runs \in Seq(Run) /\ entry \in Run
    <2>1. rows[r].content_hash \in Hashes
      BY DEF SeedingInv, LifecycleInv, TypeOK, Ids, Records
    <2>2. entry \in [candidate_bundle_hash : Hashes, acknowledged : BOOLEAN]
      BY <1>2, <2>1
    <2> QED
      BY <2>2 DEF SeedingInv, LifecycleInv, TypeOK
  <1>5. scored \in Seq(SUBSET Cases)
    BY DEF SeedingInv, SeedingTypeOK
  <1>6. /\ \A i \in 1 .. n : runs'[i] = runs[i] /\ scored'[i] = scored[i]
        /\ DOMAIN runs = 1 .. n /\ DOMAIN runs' = 1 .. (n + 1)
        /\ Len(runs') = n + 1 /\ Len(scored') = n + 1
        /\ runs'[n + 1] = entry /\ scored'[n + 1] = e
        /\ scored' \in Seq(SUBSET Cases)
    <2>1. /\ Len(Append(runs, entry)) = Len(runs) + 1
          /\ DOMAIN runs = 1 .. Len(runs)
          /\ DOMAIN Append(runs, entry) = 1 .. (Len(runs) + 1)
          /\ \A i \in 1 .. Len(runs) : Append(runs, entry)[i] = runs[i]
          /\ Append(runs, entry)[Len(runs) + 1] = entry
      BY <1>4, Appended
    <2> DEFINE Sets == SUBSET Cases
    <2>2. scored \in Seq(Sets) /\ e \in Sets
      BY <1>5
    <2> HIDE DEF Sets
    <2>3. /\ Len(Append(scored, e)) = Len(scored) + 1
          /\ \A i \in 1 .. Len(scored) : Append(scored, e)[i] = scored[i]
          /\ Append(scored, e)[Len(scored) + 1] = e
          /\ Append(scored, e) \in Seq(Sets)
      BY <2>2, Appended
    <2>4. scored' \in Seq(SUBSET Cases)
      BY <1>3, <2>3 DEF Sets
    <2> QED
      BY <1>1, <1>3, <2>1, <2>3, <2>4
  <1>7. entry.candidate_bundle_hash = rows[r].content_hash /\ ~ entry.acknowledged
    BY <1>2
  <1> QED
    BY <1>1, <1>6, <1>7

LEMMA Acknowledged ==
  ASSUME SeedingInv, NEW i \in DOMAIN runs, Acknowledge(i)
  PROVE  /\ DOMAIN runs' = DOMAIN runs /\ Len(runs') = Len(runs)
         /\ \A j \in DOMAIN runs :
              /\ runs'[j].candidate_bundle_hash = runs[j].candidate_bundle_hash
              /\ j # i => runs'[j] = runs[j]
  <1>1. \E Run : runs \in Seq(Run)
    BY DEF SeedingInv, LifecycleInv, TypeOK
  <1>2. runs' = [runs EXCEPT ![i] = [@ EXCEPT !.acknowledged = TRUE]]
    BY DEF Acknowledge
  <1>3. \A j \in DOMAIN runs : j # i => runs'[j] = runs[j]
    BY <1>2
  <1>4. runs'[i].candidate_bundle_hash = runs[i].candidate_bundle_hash
    <2>1. PICK before, after : before = runs[i] /\ after = runs'[i]
      OBVIOUS
    <2>2. after = [before EXCEPT !.acknowledged = TRUE]
      BY <1>2, <2>1
    <2>3. before \in [candidate_bundle_hash : Hashes, acknowledged : BOOLEAN]
      <3> DEFINE Run == [candidate_bundle_hash : Hashes, acknowledged : BOOLEAN]
      <3>1. runs \in Seq(Run)
        BY DEF SeedingInv, LifecycleInv, TypeOK
      <3> HIDE DEF Run
      <3>2. runs[i] \in Run
        BY <3>1
      <3> QED
        BY <2>1, <3>2 DEF Run
    <2> QED
      BY <2>1, <2>2, <2>3
  <1>5. DOMAIN runs' = DOMAIN runs /\ Len(runs') = Len(runs)
    BY <1>1, <1>2
  <1> QED
    BY <1>3, <1>4, <1>5

LEMMA SeedingGrows ==
  ASSUME SeedingInv, [SeedingNext]_seedVars
  PROVE  /\ Grown
         /\ scored' \in Seq(SUBSET Cases) /\ Len(scored') = Len(runs')
         /\ \A i \in DOMAIN runs' : Gates(i, Seed)' => Clean(scored[i])'
  <1>1. /\ scored \in Seq(SUBSET Cases) /\ Len(scored) = Len(runs)
        /\ \A i \in DOMAIN runs : Gates(i, Seed) => Clean(scored[i])
    BY DEF SeedingInv, SeedingTypeOK
  <1>2. /\ bad' = bad /\ cases \subseteq cases'
        /\ active_id # None => active_id' # None
    BY RunsOfSeeding, LiveStays
  <1>3. CASE UNCHANGED <<runs, scored>>
    BY <1>1, <1>2, <1>3 DEF Grown, Gates, Clean
  <1>4. ASSUME NEW r \in Ids, NEW e \in SUBSET Cases, Score(r, e)
        PROVE  /\ Grown
               /\ scored' \in Seq(SUBSET Cases) /\ Len(scored') = Len(runs')
               /\ \A i \in DOMAIN runs' : Gates(i, Seed)' => Clean(scored[i])'
    <2>1. Grown
      BY <1>2, <1>4, Scored DEF Grown
    <2>2. ASSUME NEW i \in DOMAIN runs', Gates(i, Seed)'
          PROVE  Clean(scored[i])'
      <3>1. i \in DOMAIN runs /\ runs'[i] = runs[i] /\ scored'[i] = scored[i]
        BY <1>4, <2>2, Scored DEF Gates
      <3>2. Gates(i, Seed)
        BY <2>2, <3>1 DEF Gates
      <3> QED
        BY <1>1, <1>2, <3>1, <3>2 DEF Clean
    <2> QED
      BY <1>4, <2>1, <2>2, Scored
  <1>5. ASSUME NEW i \in DOMAIN runs, Acknowledge(i), scored' = scored,
               runs[i].candidate_bundle_hash = Seed => Clean(scored[i])
        PROVE  /\ Grown
               /\ scored' \in Seq(SUBSET Cases) /\ Len(scored') = Len(runs')
               /\ \A j \in DOMAIN runs' : Gates(j, Seed)' => Clean(scored[j])'
    <2>1. Grown
      BY <1>2, <1>5, Acknowledged DEF Grown
    <2>2. ASSUME NEW j \in DOMAIN runs', Gates(j, Seed)'
          PROVE  Clean(scored[j])
      <3>1. j \in DOMAIN runs /\ runs[j].candidate_bundle_hash = Seed
        BY <1>5, <2>2, Acknowledged DEF Gates
      <3>2. CASE j = i
        BY <1>5, <3>1, <3>2
      <3>3. CASE j # i
        <4>1. Gates(j, Seed)
          BY <1>5, <2>2, <3>1, <3>3, Acknowledged DEF Gates
        <4> QED
          BY <1>1, <3>1, <4>1
      <3> QED
        BY <3>2, <3>3
    <2> QED
      BY <1>1, <1>2, <1>5, <2>1, <2>2, Acknowledged DEF Clean
  <1> QED
    BY <1>3, <1>4, <1>5, RunsOfSeeding

(* Nothing of process q moves. *)
Still(q) ==
  /\ stage'[q] = stage[q] /\ added'[q] = added[q] /\ draft'[q] = draft[q]
  /\ listed'[q] = listed[q] /\ run'[q] = run[q]
  /\ pc'[q] = pc[q] /\ record'[q] = record[q]

(* What a process relies on survives the steps of the others. *)
LEMMA ProcessKept ==
  ASSUME SeedingInv, KeepsHistory, Grown, NEW q \in Processes, Still(q)
  PROVE  ProcessInv(q)'
  <1>1. ProcessInv(q)
    BY DEF SeedingInv
  <1>2. by_hash(Seed) \subseteq by_hash(Seed)'
    BY DEF KeepsHistory, by_hash, Ids
  <1>3. \A i \in runs_for(Seed) : i \in runs_for(Seed)' /\ scored'[i] = scored[i]
    BY DEF Grown, runs_for
  <1>4. SeedStages' = SeedStages
    BY DEF SeedStages
  <1> QED
    BY <1>1, <1>2, <1>3, <1>4 DEF ProcessInv, Still, Grown, Shipped

LEMMA OthersStill ==
  ASSUME SeedingInv, NEW p \in Processes, Seeds(p) \/ StopProcess(p)
  PROVE  \A q \in Processes \ {p} : Still(q)
  <1>1. \A q \in Processes \ {p} :
          /\ stage'[q] = stage[q] /\ added'[q] = added[q] /\ draft'[q] = draft[q]
          /\ listed'[q] = listed[q] /\ run'[q] = run[q]
    <2>1. CASE StopProcess(p)
      BY <2>1 DEF SeedingInv, SeedingTypeOK, StopProcess
    <2>2. CASE Start(p) \/ AddCase(p) \/ FoundNone(p) \/ SeedDraftKnown(p) \/ SaveSeedDraft(p)
               \/ AddSeedDraft(p) \/ ListCases(p) \/ ReplaySeed(p) \/ AcknowledgeSeed(p)
      BY <2>2 DEF SeedingInv, SeedingTypeOK, Start, AddCase, FoundNone, SeedDraftKnown,
                  SaveSeedDraft, AddSeedDraft, ListCases, ReplaySeed, AcknowledgeSeed,
                  Enter, seeding
    <2>3. CASE FoundActive(p) \/ SeedDraftRefused(p) \/ SeedFails(p) \/ PublishSeed(p)
      BY <2>3 DEF SeedingInv, SeedingTypeOK, FoundActive, SeedDraftRefused, SeedFails,
                  PublishSeed, Leave, Enter, seeding
    <2> QED
      BY <2>1, <2>2, <2>3 DEF Seeds
  <1>2. \A q \in Processes \ {p} : pc'[q] = pc[q] /\ record'[q] = record[q]
    <2>1. TypeOK /\ Processes \subseteq Threads
      BY DEF SeedingInv, LifecycleInv, Processes
    <2>2. CASE \/ Start(p) \/ AddCase(p) \/ FoundActive(p) \/ FoundNone(p)
               \/ SeedDraftKnown(p) \/ ListCases(p) \/ SeedFails(p) \/ ReplaySeed(p)
               \/ AcknowledgeSeed(p)
      BY <2>2 DEF Start, AddCase, FoundActive, FoundNone, SeedDraftKnown, ListCases,
                  SeedFails, ReplaySeed, AcknowledgeSeed, Score, Replay, Acknowledge, vars
    <2>3. CASE SaveSeedDraft(p) \/ AddSeedDraft(p) \/ SeedDraftRefused(p) \/ StopProcess(p)
      BY <2>1, <2>3
         DEF TypeOK, SaveSeedDraft, AddSeedDraft, SeedDraftRefused, StopProcess, SaveDraft,
             AddDraft, AddRefused, Finish, Goto
    <2>4. CASE PublishSeed(p)
      BY <2>1, <2>4
         DEF TypeOK, PublishSeed, PublishGet, PublishActive, PublishGated, PublishUpdate,
             PublishRetire, PublishNoOp, SetActive, Finish, Goto
    <2> QED
      BY <2>2, <2>3, <2>4 DEF Seeds
  <1> QED
    BY <1>1, <1>2 DEF Still

LEMMA OwnersStill ==
  ASSUME SeedingInv, OwnerActs
  PROVE  \A q \in Processes : Still(q)
  <1>1. UNCHANGED seeding
    BY DEF OwnerActs
  <1>2. \A q \in Processes : pc'[q] = pc[q] /\ record'[q] = record[q]
    <2>1. TypeOK /\ Processes \subseteq Threads /\ Owner \notin Processes
      BY DEF SeedingInv, LifecycleInv, Processes
    <2>2. CASE Promote \/ OwnerReplays \/ OwnerAcknowledges
      BY <2>2 DEF Promote, OwnerReplays, OwnerAcknowledges, Score, Replay, Acknowledge, vars
    <2>3. CASE OwnerPublishes
      BY <2>1, <2>3
         DEF TypeOK, OwnerPublishes, SaveDraft, AddDraft, PublishGet, PublishNoOp,
             PublishActive, PublishBlocked, PublishGated, PublishUpdate, PublishRetire,
             SetActive, Finish, Goto
    <2> QED
      BY <2>2, <2>3 DEF OwnerActs
  <1> QED
    BY <1>1, <1>2 DEF Still, seeding

LEMMA LeaveTyped ==
  ASSUME SeedingTypeOK, NEW p \in Processes, NEW from, NEW to \in {"down", "up"},
         Leave(p, from, to)
  PROVE  /\ stage' \in [Processes -> {"down", "cases", "save", "list", "replay",
                                      "check", "publish", "up"}]
         /\ added' \in [Processes -> Nat]
         /\ draft' \in [Processes -> RecordIds \cup {None}]
         /\ listed' \in [Processes -> SUBSET Cases]
         /\ run' \in [Processes -> Nat \cup {None}]
  <1>1. stage' \in [Processes -> {"down", "cases", "save", "list", "replay",
                                  "check", "publish", "up"}]
    BY DEF SeedingTypeOK, Leave, Enter
  <1>2. added' \in [Processes -> Nat] /\ draft' \in [Processes -> RecordIds \cup {None}]
    BY DEF SeedingTypeOK, Leave
  <1>3. listed' \in [Processes -> SUBSET Cases] /\ run' \in [Processes -> Nat \cup {None}]
    BY DEF SeedingTypeOK, Leave
  <1> QED
    BY <1>1, <1>2, <1>3

LEMMA SeedingTyped ==
  ASSUME SeedingInv, [SeedingNext]_seedVars
  PROVE  SeedingTypeOK'
  <1>1. scored' \in Seq(SUBSET Cases) /\ Len(scored') = Len(runs')
    BY SeedingGrows
  <1>2. /\ SeedingTypeOK
        /\ \A p \in Processes : ProcessInv(p) /\ p \in Threads
      BY DEF SeedingInv, Processes
  <1>3. ASSUME NEW p \in Processes, Seeds(p) \/ StopProcess(p)
        PROVE  /\ stage' \in [Processes -> {"down", "cases", "save", "list", "replay",
                                            "check", "publish", "up"}]
               /\ added' \in [Processes -> Nat]
               /\ draft' \in [Processes -> RecordIds \cup {None}]
               /\ listed' \in [Processes -> SUBSET Cases]
               /\ run' \in [Processes -> Nat \cup {None}]
               /\ cases' \subseteq Cases
    <2>1. CASE StopProcess(p)
      BY <1>2, <2>1 DEF SeedingTypeOK, StopProcess, stored
    <2>2. CASE Start(p) \/ FoundNone(p) \/ SaveSeedDraft(p) \/ ListCases(p) \/ AcknowledgeSeed(p)
      BY <1>2, <2>2 DEF SeedingTypeOK, Start, FoundNone, SaveSeedDraft, ListCases,
                        AcknowledgeSeed, Enter, seeding, stored
    <2>3. CASE FoundActive(p) \/ SeedDraftRefused(p) \/ SeedFails(p) \/ PublishSeed(p)
      <3>1. cases' = cases
        BY <2>3, Zenon DEF FoundActive, SeedDraftRefused, SeedFails, PublishSeed, stored
      <3>2. \/ UNCHANGED seeding
            \/ Leave(p, "cases", "up") \/ Leave(p, "save", "down")
            \/ Leave(p, "check", "down") \/ Leave(p, "publish", "up")
        BY <2>3, Zenon DEF FoundActive, SeedDraftRefused, SeedFails, PublishSeed
      <3>3. CASE UNCHANGED seeding
        BY <1>2, <3>1, <3>3 DEF SeedingTypeOK, seeding
      <3>4. CASE \/ Leave(p, "cases", "up") \/ Leave(p, "save", "down")
                 \/ Leave(p, "check", "down") \/ Leave(p, "publish", "up")
        BY <1>2, <3>1, <3>4, LeaveTyped DEF SeedingTypeOK
      <3> QED
        BY <3>2, <3>3, <3>4
    <2>4. CASE AddCase(p)
      <3>1. build_golden_cases[p][added[p] + 1] \in Cases
        BY <1>2, <2>4, SeedingAssumptions DEF SeedingTypeOK, AddCase
      <3> QED
        BY <1>2, <2>4, <3>1 DEF SeedingTypeOK, AddCase
    <2>5. CASE SeedDraftKnown(p)
      <3>1. PICK r \in RecordIds : draft' = [draft EXCEPT ![p] = r]
        BY <2>5 DEF SeedDraftKnown, by_hash, Ids
      <3> QED
        BY <1>2, <2>5, <3>1 DEF SeedingTypeOK, SeedDraftKnown, Enter, stored
    <2>6. CASE AddSeedDraft(p)
      <3>1. record[p].record_id \in RecordIds
        BY <1>2, <2>6, HandlerTypes
           DEF SeedingInv, LifecycleInv, AddSeedDraft, AddDraft, Finish, Goto, Records
      <3> QED
        BY <1>2, <2>6, <3>1 DEF SeedingTypeOK, AddSeedDraft, Enter, stored
    <2>7. CASE ReplaySeed(p)
      <3>1. Len(runs') \in Nat
        BY LifecycleOfSeeding DEF LifecycleInv, TypeOK
      <3> QED
        BY <1>2, <2>7, <3>1 DEF SeedingTypeOK, ReplaySeed, Score, Enter
    <2> QED
      BY <1>3, <2>1, <2>2, <2>3, <2>4, <2>5, <2>6, <2>7 DEF Seeds
  <1>4. CASE OwnerActs
    <2>1. cases' \subseteq Cases
      BY <1>2, <1>4 DEF SeedingTypeOK, OwnerActs, Promote, OwnerReplays, OwnerAcknowledges,
                        OwnerPublishes, Score, stored
    <2> QED
      BY <1>1, <1>2, <1>4, <2>1 DEF SeedingTypeOK, OwnerActs, seeding
  <1>5. CASE UNCHANGED seedVars
    BY <1>1, <1>2, <1>5 DEF SeedingTypeOK, seedVars, vars, seeding, stored
  <1> QED
    BY <1>1, <1>3, <1>4, <1>5 DEF SeedingNext, SeedingTypeOK

(* What a process adds as its draft is the reference bundle. *)
LEMMA AddsSeed ==
  ASSUME SeedingInv, NEW p \in Processes, Seeds(p) \/ StopProcess(p), pc'[p] = "add"
  PROVE  record'[p].content_hash = Seed
  <1>1. TypeOK /\ p \in Threads /\ (pc[p] = "add" => record[p].content_hash = Seed)
    BY DEF SeedingInv, LifecycleInv, Processes, ProcessInv
  <1>2. CASE UNCHANGED <<pc, record>>
    BY <1>1, <1>2
  <1>3. CASE SaveSeedDraft(p)
    <2>1. PICK r \in NewIds : SaveDraft(p, r, Seed)
      BY <1>3 DEF SaveSeedDraft
    <2> QED
      BY <1>1, <2>1 DEF TypeOK, SaveDraft
  <1>4. CASE AddSeedDraft(p) \/ SeedDraftRefused(p) \/ StopProcess(p) \/ PublishSeed(p)
    <2>1. pc'[p] # "add"
      BY <1>1, <1>4
         DEF TypeOK, AddSeedDraft, SeedDraftRefused, StopProcess, PublishSeed, AddDraft,
             AddRefused, PublishGet, PublishActive, PublishGated, PublishUpdate,
             PublishRetire, PublishNoOp, SetActive, Finish, Goto
    <2> QED
      BY <2>1
  <1>5. CASE \/ Start(p) \/ AddCase(p) \/ FoundActive(p) \/ FoundNone(p)
             \/ SeedDraftKnown(p) \/ ListCases(p) \/ SeedFails(p) \/ ReplaySeed(p)
             \/ AcknowledgeSeed(p)
    <2>1. UNCHANGED <<pc, record>>
      BY <1>5, Zenon
         DEF Start, AddCase, FoundActive, FoundNone, SeedDraftKnown, ListCases, SeedFails,
             ReplaySeed, AcknowledgeSeed, Score, Replay, Acknowledge, vars
    <2> QED
      BY <1>2, <2>1
  <1> QED
    BY <1>3, <1>4, <1>5 DEF Seeds

(* A process that moves finds at its next stage what it relies on there. *)
LEMMA MoverKept ==
  ASSUME SeedingInv, SeedingTypeOK', LifecycleInv', KeepsHistory, Grown,
         NEW p \in Processes, Seeds(p) \/ StopProcess(p)
  PROVE  ProcessInv(p)'
  <1>1. ProcessInv(p) /\ SeedingTypeOK /\ TypeOK /\ TypeOK' /\ p \in Threads
    BY DEF SeedingInv, LifecycleInv, Processes
  <1>2. by_hash(Seed) \subseteq by_hash(Seed)'
    BY DEF KeepsHistory, by_hash, Ids
  <1>3. \A i \in runs_for(Seed) : i \in runs_for(Seed)' /\ scored'[i] = scored[i]
    BY DEF Grown, runs_for
  <1>4. SeedStages' = SeedStages /\ Shipped(p)' = Shipped(p)
    BY DEF SeedStages, Shipped
  <1>5. pc'[p] = "add" => record'[p].content_hash = Seed
    BY AddsSeed
  <1>6. cases \subseteq cases' /\ (active_id # None => active_id' # None)
    BY DEF Grown
  <1>7. CASE UNCHANGED <<stage, added, draft, listed, run>>
    BY <1>1, <1>2, <1>3, <1>4, <1>5, <1>6, <1>7 DEF ProcessInv
  <1>8. CASE StopProcess(p)
    <2>1. stage'[p] = "down" /\ added'[p] = 0
      BY <1>1, <1>8 DEF SeedingTypeOK, StopProcess
    <2> QED
      BY <1>5, <2>1 DEF ProcessInv, SeedStages
  <1>9. CASE Start(p)
    <2>1. stage'[p] = "cases" /\ added'[p] = 0
      BY <1>1, <1>9 DEF SeedingTypeOK, Start, Enter, ProcessInv
    <2> QED
      BY <1>5, <2>1, SeedingAssumptions DEF ProcessInv, SeedStages
  <1>10. CASE AddCase(p)
    <2>1. PICK n \in Nat : n = added[p]
      BY <1>1 DEF SeedingTypeOK
    <2>2. /\ stage'[p] = "cases" /\ added'[p] = n + 1
          /\ n < Len(build_golden_cases[p])
          /\ build_golden_cases[p][n + 1] \in cases'
          /\ \A i \in 1 .. n : build_golden_cases[p][i] \in cases'
      BY <1>1, <1>6, <1>10, <2>1 DEF SeedingTypeOK, AddCase, ProcessInv
    <2>3. Len(build_golden_cases[p]) \in Nat
      BY SeedingAssumptions
    <2>4. /\ added'[p] <= Len(build_golden_cases[p])
          /\ \A i \in 1 .. added'[p] : build_golden_cases[p][i] \in cases'
      BY <2>1, <2>2, <2>3
    <2> QED
      BY <1>5, <2>2, <2>4 DEF ProcessInv, SeedStages
  <1>11. ASSUME stage[p] = "cases", added[p] = Len(build_golden_cases[p])
         PROVE  Shipped(p) \subseteq cases'
    <2>1. DOMAIN build_golden_cases[p] = 1 .. Len(build_golden_cases[p])
      BY SeedingAssumptions
    <2> QED
      BY <1>1, <1>6, <1>11, <2>1 DEF ProcessInv, Shipped
  <1>12. CASE FoundActive(p)
    <2>1. stage'[p] = "up" /\ Shipped(p) \subseteq cases' /\ active_id' # None
      BY <1>1, <1>6, <1>11, <1>12 DEF SeedingTypeOK, FoundActive, Leave, Enter, active
    <2> QED
      BY <1>4, <1>5, <2>1 DEF ProcessInv, SeedStages
  <1>13. CASE FoundNone(p)
    <2>1. stage'[p] = "save" /\ Shipped(p) \subseteq cases'
      BY <1>1, <1>11, <1>13 DEF SeedingTypeOK, FoundNone, Enter
    <2> QED
      BY <1>4, <1>5, <2>1 DEF ProcessInv, SeedStages
  <1>14. CASE SeedDraftKnown(p) \/ AddSeedDraft(p)
    <2>1. stage[p] = "save" /\ stage'[p] = "list"
      BY <1>1, <1>14 DEF SeedingTypeOK, SeedDraftKnown, AddSeedDraft, Enter
    <2>2. draft'[p] \in by_hash(Seed)'
      <3>1. CASE SeedDraftKnown(p)
        BY <1>1, <1>2, <3>1 DEF SeedingTypeOK, SeedDraftKnown
      <3>2. CASE AddSeedDraft(p)
        <4>1. PICK new \in Records : new = record[p]
          BY <1>1, <3>2 DEF TypeOK, AddSeedDraft, AddDraft, Finish, Goto
        <4>2. new.content_hash = Seed /\ new.record_id \in RecordIds
          BY <1>1, <3>2, <4>1 DEF ProcessInv, AddSeedDraft, AddDraft, Finish, Goto, Records
        <4>3. rows'[new.record_id] = new /\ draft'[p] = new.record_id
          BY <1>1, <3>2, <4>1, <4>2
             DEF TypeOK, SeedingTypeOK, AddSeedDraft, AddDraft, update
        <4> QED
          BY <4>1, <4>2, <4>3, BundleAssumptions DEF by_hash, Ids
      <3> QED
        BY <1>14, <3>1, <3>2
    <2>3. Shipped(p) \subseteq cases'
      BY <1>1, <1>6, <2>1 DEF ProcessInv, SeedStages
    <2> QED
      BY <1>4, <1>5, <2>1, <2>2, <2>3 DEF ProcessInv, SeedStages
  <1>15. ASSUME stage[p] \in SeedStages \ {"save"}
         PROVE  Shipped(p) \subseteq cases' /\ draft[p] \in by_hash(Seed)'
    BY <1>1, <1>2, <1>6, <1>15 DEF ProcessInv
  <1>16. CASE ListCases(p)
    <2>1. /\ stage[p] = "list" /\ stage'[p] = "replay"
          /\ draft' = draft /\ Shipped(p) \subseteq listed'[p]
      BY <1>1, <1>16 DEF SeedingTypeOK, ProcessInv, SeedStages, ListCases, Enter
    <2> QED
      BY <1>4, <1>5, <1>15, <2>1 DEF ProcessInv, SeedStages
  <1>17. CASE ReplaySeed(p)
    <2>1. /\ stage[p] = "replay" /\ stage'[p] = "check" /\ draft' = draft
          /\ draft[p] \in by_hash(Seed) /\ Shipped(p) \subseteq listed[p]
          /\ Score(draft[p], listed[p]) /\ listed[p] \in SUBSET Cases
          /\ run'[p] = Len(runs')
      BY <1>1, <1>17 DEF SeedingTypeOK, ProcessInv, SeedStages, ReplaySeed, Enter
    <2>2. run'[p] \in runs_for(Seed)' /\ scored'[run'[p]] = listed[p]
      BY <2>1, Scored DEF by_hash, runs_for
    <2> QED
      BY <1>4, <1>5, <1>15, <2>1, <2>2 DEF ProcessInv, SeedStages
  <1>18. CASE AcknowledgeSeed(p)
    <2>1. stage[p] = "check" /\ stage'[p] = "publish" /\ draft' = draft
      BY <1>1, <1>18 DEF SeedingTypeOK, AcknowledgeSeed, Enter
    <2> QED
      BY <1>4, <1>5, <1>15, <2>1 DEF ProcessInv, SeedStages
  <1>19. CASE SeedDraftRefused(p) \/ SeedFails(p)
    <2>1. stage'[p] = "down" /\ added'[p] = 0
      BY <1>1, <1>19 DEF SeedingTypeOK, SeedDraftRefused, SeedFails, Leave, Enter
    <2> QED
      BY <1>5, <2>1 DEF ProcessInv, SeedStages
  <1>20. CASE (PublishNoOp(p) \/ SetActive(p)) /\ Leave(p, "publish", "up")
    <2>1. stage[p] = "publish" /\ stage'[p] = "up"
      BY <1>1, <1>20 DEF SeedingTypeOK, Leave, Enter
    <2>2. active_id' # None
      <3>1. CASE PublishNoOp(p)
        BY <1>6, <3>1 DEF PublishNoOp, active
      <3>2. CASE SetActive(p)
        <4>1. record[p].record_id \in RecordIds
          BY <1>1, <3>2, HandlerTypes
             DEF SeedingInv, LifecycleInv, SetActive, Finish, Goto, Records
        <4> QED
          BY <3>2, <4>1, BundleAssumptions DEF SetActive
      <3> QED
        BY <1>20, <3>1, <3>2
    <2>3. Shipped(p) \subseteq cases'
      BY <1>15, <2>1 DEF SeedStages
    <2> QED
      BY <1>4, <1>5, <2>1, <2>2, <2>3 DEF ProcessInv, SeedStages
  <1>21. CASE SaveSeedDraft(p)
    BY <1>7, <1>21 DEF SaveSeedDraft, seeding
  <1>22. CASE PublishSeed(p)
    <2>1. UNCHANGED seeding \/ ((PublishNoOp(p) \/ SetActive(p)) /\ Leave(p, "publish", "up"))
      BY <1>22, Zenon DEF PublishSeed
    <2> QED
      BY <1>7, <1>20, <2>1 DEF seeding
  <1> QED
    BY <1>8, <1>9, <1>10, <1>12, <1>13, <1>14, <1>16, <1>17, <1>18, <1>19, <1>21, <1>22
       DEF Seeds

LEMMA SeedingStep == SeedingInv /\ [SeedingNext]_seedVars => SeedingInv'
  <1> SUFFICES ASSUME SeedingInv, [SeedingNext]_seedVars
               PROVE  SeedingInv'
    OBVIOUS
  <1>1. /\ LifecycleInv' /\ KeepsHistory /\ SeedingTypeOK' /\ Grown
        /\ \A i \in DOMAIN runs' : Gates(i, Seed)' => Clean(scored[i])'
    BY LifecycleOfSeeding, SeedingGrows, SeedingTyped
  <1>2. CASE \E p \in Processes : Seeds(p) \/ StopProcess(p)
    <2>1. PICK p \in Processes : Seeds(p) \/ StopProcess(p)
      BY <1>2
    <2>2. \A q \in Processes : ProcessInv(q)'
      BY <1>1, <2>1, MoverKept, OthersStill, ProcessKept
    <2> QED
      BY <1>1, <2>2 DEF SeedingInv
  <1>3. CASE OwnerActs
    <2>1. \A q \in Processes : ProcessInv(q)'
      BY <1>1, <1>3, OwnersStill, ProcessKept
    <2> QED
      BY <1>1, <2>1 DEF SeedingInv
  <1>4. CASE UNCHANGED seedVars
    <2>1. \A q \in Processes : ProcessInv(q)'
      BY <1>1, <1>4, ProcessKept DEF seedVars, vars, seeding, Still
    <2> QED
      BY <1>1, <2>1 DEF SeedingInv
  <1> QED
    BY <1>2, <1>3, <1>4 DEF SeedingNext

LEMMA SeedingStart == SeedingInit => SeedingInv
  <1> SUFFICES ASSUME SeedingInit
               PROVE  SeedingInv
    OBVIOUS
  <1>1. LifecycleInv
    BY InitHolds DEF SeedingInit
  <1>2. SeedingTypeOK
    <2> DEFINE Sets == SUBSET Cases
    <2>1. scored = <<>> /\ runs = <<>>
      BY DEF SeedingInit, Init
    <2> HIDE DEF Sets
    <2>2. scored \in Seq(Sets) /\ Len(scored) = Len(runs)
      BY <2>1
    <2>3. scored \in Seq(SUBSET Cases) /\ Len(scored) = Len(runs)
      BY <2>2 DEF Sets
    <2> QED
      BY <2>3 DEF SeedingInit, SeedingTypeOK
  <1>3. ASSUME NEW p \in Processes
        PROVE  ProcessInv(p)
    <2>1. stage[p] = "down" /\ added[p] = 0 /\ pc[p] = "idle"
      BY DEF SeedingInit, Init, Processes
    <2> QED
      BY <2>1 DEF ProcessInv, SeedStages
  <1>4. \A i \in DOMAIN runs : Gates(i, Seed) => Clean(scored[i])
    BY DEF SeedingInit, Init
  <1> QED
    BY <1>1, <1>2, <1>3, <1>4 DEF SeedingInv

(* Whatever processes race and stop while they come up, each finds where   *)
(* it goes on what it left there, and the gate is opened to the reference  *)
(* bundle only by a process that found its replay clean.                   *)
THEOREM SeedingInvariance == SeedingSpec => []SeedingInv
  BY SeedingStart, SeedingStep, PTL DEF SeedingSpec

(* Seeded through the real gate: a live reference bundle was published on  *)
(* a replay of all that some release ships in which nothing failed.        *)
THEOREM AlwaysSeededClean == SeedingSpec => []SeededClean
  <1>1. SeedingInv => SeededClean
    BY DEF SeedingInv, LifecycleInv, ReplayGated, SeededClean, active, Gates
  <1> QED
    BY <1>1, SeedingInvariance, PTL

(* A process that is up has a bundle to decide with and the whole corpus   *)
(* its release ships.                                                      *)
THEOREM UpAlwaysComplete == SeedingSpec => []UpIsComplete
  <1>1. ASSUME SeedingInv, NEW p \in Up
        PROVE  active # None /\ Shipped(p) \subseteq cases
    <2>1. active_id # None /\ Shipped(p) \subseteq cases
      BY <1>1 DEF Up, SeedingInv, ProcessInv
    <2> QED
      BY <1>1, <2>1 DEF SeedingInv, LifecycleInv, ReplayGated, active, Ids
  <1>2. SeedingInv => UpIsComplete
    BY <1>1 DEF UpIsComplete
  <1> QED
    BY <1>2, SeedingInvariance, PTL

LEMMA SeedingGateStep ==
  ASSUME SeedingInv, [SeedingNext]_seedVars
  PROVE  [Gate!Next]_<<live, acknowledged>>
  <1>1. LifecycleInv /\ LifecycleInv' /\ KeepsHistory
    BY LifecycleOfSeeding DEF SeedingInv
  <1>2. CASE [Next]_vars
    BY <1>1, <1>2, RefinementStep
  <1>3. CASE \E p \in Processes : StopProcess(p)
    <2>1. UNCHANGED <<rows, active_id, runs>>
      BY <1>3 DEF StopProcess, stores
    <2> QED
      BY <2>1 DEF live, acknowledged, Gates
  <1> QED
    BY <1>2, <1>3, SeedsStep, OwnerStep DEF SeedingNext, seedVars

(* The bootstrap goes through the gate of everyone else: however many      *)
(* processes race and stop while they walk the reference bundle in, what   *)
(* is live changes only to content that was acknowledged before.           *)
THEOREM SeedingImplementsGate == SeedingSpec => ImplementsPublishGate
  <1>1. SeedingInit => Gate!Init
    BY DEF SeedingInit, Init, Gate!Init, Gates
  <1>2. SeedingInv /\ [SeedingNext]_seedVars => [Gate!Next]_<<live, acknowledged>>
    BY SeedingGateStep
  <1> QED
    BY SeedingInvariance, <1>1, <1>2, PTL
       DEF SeedingSpec, ImplementsPublishGate, Gate!Spec, live, acknowledged

(* No start, stop or owner takes anything from the company again: records  *)
(* keep their content and gate, the corpus keeps its cases, a replay keeps *)
(* what it was scored on, and once a bundle is live one is.                *)
NothingTaken ==
  /\ KeepsHistory
  /\ cases \subseteq cases'
  /\ \A i \in DOMAIN runs : i \in DOMAIN runs' /\ scored'[i] = scored[i]
  /\ active_id # None => active_id' # None

THEOREM SeedingTakesNothing == SeedingSpec => [][NothingTaken]_seedVars
  <1>1. SeedingInv /\ [SeedingNext]_seedVars => NothingTaken
    BY LifecycleOfSeeding, RunsOfSeeding, SeedingGrows DEF Grown, NothingTaken
  <1> QED
    BY <1>1, SeedingInvariance, PTL DEF SeedingSpec

(* The gate is open to a process that publishes: publish finds the run it  *)
(* acknowledged, or a later one, so that PublishSeed needs no step for the *)
(* error that publish raises otherwise.                                    *)
GateFound ==
  \A p \in Processes :
    pc[p] = "publish_gate" => latest_acknowledged_for(record[p].content_hash) # {}

(* What a process is about, besides the stage it has come to. *)
PublishesSeed ==
  \A p \in Processes :
    /\ pc[p] = "add" => stage[p] = "save"
    /\ pc[p] \notin {"idle", "add"} => stage[p] = "publish" /\ record[p].content_hash = Seed
    /\ stage[p] = "publish" => \E i \in DOMAIN runs : Gates(i, Seed)

LessNat == {x \in Nat \X Nat : x[1] < x[2]}

LEMMA GreatestBelow ==
  ASSUME NEW n \in Nat, NEW T, T \subseteq 1 .. n, T # {}
  PROVE  \E m \in T : \A j \in T : j <= m
  <1> DEFINE Gaps == {n - j : j \in T}
  <1>1. LessNat = OpToRel(<, Nat)
    BY DEF LessNat, OpToRel
  <1>2. IsWellFoundedOn(LessNat, Nat)
    BY <1>1, NatLessThanWellFounded
  <1>3. Gaps \subseteq Nat /\ Gaps # {}
    <2>1. ASSUME NEW j \in T PROVE n - j \in Nat
      <3>1. j \in Nat /\ j <= n
        OBVIOUS
      <3> QED
        BY <3>1
    <2> QED
      BY <2>1
  <1>4. PICK g \in Gaps : \A x \in Gaps : ~ (<<x, g>> \in LessNat)
    <2> HIDE DEF Gaps
    <2> QED
      BY <1>2, <1>3, WFMin
  <1>5. PICK m \in T : g = n - m
    OBVIOUS
  <1>6. ASSUME NEW j \in T PROVE j <= m
    <2>1. n - j \in Gaps /\ n - j \in Nat /\ g \in Nat
      BY <1>3
    <2>2. ~ (n - j < g)
      <3>1. <<n - j, g>> \in Nat \X Nat
        BY <2>1
      <3>2. ~ (<<n - j, g>>[1] < <<n - j, g>>[2])
        BY <1>4, <2>1, <3>1 DEF LessNat
      <3> QED
        BY <3>2
    <2>3. j \in Int /\ m \in Int
      OBVIOUS
    <2> QED
      BY <1>5, <2>2, <2>3
  <1> QED
    BY <1>6

LEMMA SeedingGatesKept ==
  ASSUME SeedingInv, [SeedingNext]_seedVars
  PROVE  \A i \in DOMAIN runs : Gates(i, Seed) => i \in DOMAIN runs' /\ Gates(i, Seed)'
  <1>1. CASE runs' = runs
    BY <1>1 DEF Gates
  <1>2. ASSUME NEW r \in Ids, NEW e \in SUBSET Cases, Score(r, e)
        PROVE  \A i \in DOMAIN runs : i \in DOMAIN runs' /\ runs'[i] = runs[i]
    BY <1>2, Scored
  <1>3. ASSUME NEW k \in DOMAIN runs, Acknowledge(k)
        PROVE  \A i \in DOMAIN runs : Gates(i, Seed) => i \in DOMAIN runs' /\ Gates(i, Seed)'
    <2>1. TypeOK
      BY DEF SeedingInv, LifecycleInv
    <2>2. TypeOK'
      BY <1>3, <2>1, TypesOfRunSteps
    <2> QED
      BY <1>3, <2>1, <2>2 DEF TypeOK, Gates, Acknowledge
  <1> QED
    BY <1>1, <1>2, <1>3, RunsOfSeeding DEF Gates

LEMMA PublishesSeedStep ==
  ASSUME SeedingInv, PublishesSeed, [SeedingNext]_seedVars
  PROVE  PublishesSeed'
  <1>1. ASSUME NEW q \in Processes, Still(q)
        PROVE  /\ pc'[q] = "add" => stage'[q] = "save"
               /\ pc'[q] \notin {"idle", "add"} =>
                    stage'[q] = "publish" /\ record'[q].content_hash = Seed
               /\ stage'[q] = "publish" => \E i \in DOMAIN runs' : Gates(i, Seed)'
    BY <1>1, SeedingGatesKept DEF PublishesSeed, Still
  <1>2. ASSUME NEW p \in Processes, Seeds(p) \/ StopProcess(p)
        PROVE  /\ pc'[p] = "add" => stage'[p] = "save"
               /\ pc'[p] \notin {"idle", "add"} =>
                    stage'[p] = "publish" /\ record'[p].content_hash = Seed
               /\ stage'[p] = "publish" => \E i \in DOMAIN runs' : Gates(i, Seed)'
    <2>1. ProcessInv(p) /\ SeedingTypeOK /\ TypeOK /\ p \in Threads
      BY DEF SeedingInv, LifecycleInv, Processes
    <2>2. stage[p] = "publish" => \E i \in DOMAIN runs' : Gates(i, Seed)'
      BY SeedingGatesKept, <1>2 DEF PublishesSeed, SeedingNext
    <2>3. CASE StopProcess(p)
      BY <2>1, <2>3 DEF SeedingTypeOK, TypeOK, StopProcess
    <2>4. CASE \/ Start(p) \/ AddCase(p) \/ FoundActive(p) \/ FoundNone(p)
               \/ SeedDraftKnown(p) \/ ListCases(p) \/ ReplaySeed(p) \/ SeedFails(p)
      <3>1. UNCHANGED <<pc, record>>
        BY <2>4, Zenon
           DEF Start, AddCase, FoundActive, FoundNone, SeedDraftKnown, ListCases, SeedFails,
               ReplaySeed, Score, Replay, vars
      <3>2. CASE SeedDraftKnown(p)
        <4>1. pc[p] = "idle" /\ stage'[p] = "list"
          BY <2>1, <3>2 DEF SeedingTypeOK, SeedDraftKnown, Enter
        <4> QED
          BY <3>1, <4>1
      <3>3. CASE AddCase(p)
        <4>1. stage[p] = "cases" /\ stage' = stage
          BY <3>3 DEF AddCase
        <4> QED
          BY <3>1, <4>1 DEF PublishesSeed
      <3>4. CASE Start(p) \/ FoundActive(p) \/ FoundNone(p) \/ ListCases(p) \/ ReplaySeed(p)
                 \/ SeedFails(p)
        <4>1. stage[p] \in {"down", "cases", "list", "replay", "check"} /\ stage'[p] # "publish"
          BY <2>1, <3>4
             DEF SeedingTypeOK, Start, FoundActive, FoundNone, ListCases, ReplaySeed,
                 SeedFails, Enter, Leave
        <4>2. pc[p] = "idle"
          BY <4>1 DEF PublishesSeed
        <4> QED
          BY <3>1, <4>1, <4>2
      <3> QED
        BY <2>4, <3>2, <3>3, <3>4
    <2>5. CASE SaveSeedDraft(p)
      BY <2>1, <2>5 DEF TypeOK, SaveSeedDraft, SaveDraft, Goto, seeding
    <2>6. CASE AddSeedDraft(p) \/ SeedDraftRefused(p)
      <3>1. pc'[p] = "idle" /\ stage'[p] \in {"list", "down"}
        BY <2>1, <2>6
           DEF TypeOK, SeedingTypeOK, AddSeedDraft, AddDraft, SeedDraftRefused, AddRefused,
               Finish, Goto, Enter, Leave
      <3> QED
        BY <3>1
    <2>7. CASE AcknowledgeSeed(p)
      <3>1. /\ stage[p] = "check" /\ stage'[p] = "publish" /\ UNCHANGED <<pc, record>>
            /\ run[p] \in runs_for(Seed) /\ Acknowledge(run[p])
        BY <2>1, <2>7
           DEF SeedingTypeOK, AcknowledgeSeed, Acknowledge, Enter, ProcessInv
      <3>2. pc[p] = "idle"
        BY <3>1 DEF PublishesSeed
      <3>3. \E i \in DOMAIN runs' : Gates(i, Seed)'
        <4>1. PICK k \in DOMAIN runs : Acknowledge(k) /\ runs[k].candidate_bundle_hash = Seed
          BY <3>1 DEF runs_for
        <4>2. k \in DOMAIN runs' /\ runs'[k].candidate_bundle_hash = Seed
          BY <4>1, Acknowledged
        <4>3. runs'[k].acknowledged
          <5>1. runs' = [runs EXCEPT ![k] = [@ EXCEPT !.acknowledged = TRUE]]
            BY <4>1 DEF Acknowledge
          <5>2. PICK before, after : before = runs[k] /\ after = runs'[k]
            OBVIOUS
          <5>3. after = [before EXCEPT !.acknowledged = TRUE]
            BY <4>1, <5>1, <5>2
          <5>4. before \in [candidate_bundle_hash : Hashes, acknowledged : BOOLEAN]
            <6> DEFINE Run == [candidate_bundle_hash : Hashes, acknowledged : BOOLEAN]
            <6>1. runs \in Seq(Run)
              BY <2>1 DEF TypeOK
            <6> HIDE DEF Run
            <6>2. runs[k] \in Run
              BY <4>1, <6>1
            <6> QED
              BY <5>2, <6>2 DEF Run
          <5> QED
            BY <5>2, <5>3, <5>4
        <4> QED
          BY <4>2, <4>3 DEF Gates
      <3> QED
        BY <3>1, <3>2, <3>3
    <2>8. CASE PublishSeed(p)
      <3>1. stage[p] = "publish" /\ pc[p] # "add"
        BY <2>8 DEF PublishSeed, Enter, Leave, PublishesSeed
      <3>2. CASE PublishGet(p, draft[p]) /\ UNCHANGED seeding
        <4>1. draft[p] \in by_hash(Seed)
          BY <2>1, <3>1 DEF ProcessInv, SeedStages
        <4>2. pc'[p] = "publish_active" /\ record'[p] = rows[draft[p]] /\ stage' = stage
          BY <2>1, <3>2 DEF TypeOK, PublishGet, Goto, seeding
        <4> QED
          BY <2>2, <3>1, <4>1, <4>2 DEF by_hash
      <3>3. CASE PublishNoOp(p) \/ SetActive(p)
        <4>1. pc'[p] = "idle" /\ stage'[p] = "up"
          BY <2>1, <2>8, <3>3
             DEF PublishSeed, TypeOK, SeedingTypeOK, PublishNoOp, SetActive, Finish, Goto,
                 PublishGet, PublishActive, PublishGated, PublishUpdate, PublishRetire,
                 Enter, Leave
        <4> QED
          BY <4>1
      <3>4. CASE /\ PublishActive(p) \/ PublishUpdate(p) \/ PublishRetire(p)
                 /\ UNCHANGED seeding
        <4>1. pc[p] \notin {"idle", "add"} /\ record' = record /\ stage' = stage /\ pc'[p] # "add"
          BY <2>1, <3>4
             DEF TypeOK, PublishActive, PublishUpdate, PublishRetire, Goto, seeding
        <4> QED
          BY <2>2, <3>1, <4>1 DEF PublishesSeed
      <3>5. CASE PublishGated(p) /\ UNCHANGED seeding
        <4>1. pc[p] = "publish_gate" /\ pc'[p] = "publish_update" /\ stage' = stage
          BY <2>1, <3>5 DEF TypeOK, PublishGated, Goto, seeding
        <4>2. record'[p].content_hash = record[p].content_hash
          <5>1. record[p] \in Records
            BY <2>1, <4>1, HandlerTypes DEF SeedingInv, LifecycleInv
          <5>2. PICK gate \in latest_acknowledged_for(record[p].content_hash) :
                  record' = [record EXCEPT ![p].status = "published",
                                           ![p].published = TRUE,
                                           ![p].replay_run_id = gate]
            BY <3>5 DEF PublishGated
          <5>3. PICK before, after : before = record[p] /\ after = record'[p]
            OBVIOUS
          <5>4. after.content_hash = before.content_hash
            BY <2>1, <5>1, <5>2, <5>3 DEF TypeOK, Records
          <5> QED
            BY <5>3, <5>4
        <4> QED
          BY <2>2, <3>1, <4>1, <4>2 DEF PublishesSeed
      <3> QED
        BY <2>8, <3>2, <3>3, <3>4, <3>5 DEF PublishSeed
    <2> QED
      BY <1>2, <2>3, <2>4, <2>5, <2>6, <2>7, <2>8 DEF Seeds
  <1>3. CASE \E p \in Processes : Seeds(p) \/ StopProcess(p)
    BY <1>1, <1>2, <1>3, OthersStill DEF PublishesSeed
  <1>4. CASE OwnerActs
    BY <1>1, <1>4, OwnersStill DEF PublishesSeed
  <1>5. CASE UNCHANGED seedVars
    BY <1>1, <1>5 DEF PublishesSeed, seedVars, vars, seeding, Still
  <1> QED
    BY <1>3, <1>4, <1>5 DEF SeedingNext

(* No bootstrap fails at the gate: whatever another process or the owner   *)
(* replays, acknowledges or publishes in between, a process that got as    *)
(* far as publish finds an acknowledged replay of the reference bundle.    *)
THEOREM SeedingNeverBlocked == SeedingSpec => []GateFound
  <1>1. SeedingInit => PublishesSeed
    BY DEF SeedingInit, Init, PublishesSeed, Processes
  <1>2. SeedingInv /\ PublishesSeed /\ [SeedingNext]_seedVars => PublishesSeed'
    BY PublishesSeedStep
  <1>3. SeedingInv /\ PublishesSeed => GateFound
    <2> SUFFICES ASSUME SeedingInv, PublishesSeed, NEW p \in Processes, pc[p] = "publish_gate"
                 PROVE  latest_acknowledged_for(record[p].content_hash) # {}
      BY DEF GateFound
    <2>1. record[p].content_hash = Seed /\ \E i \in DOMAIN runs : Gates(i, Seed)
      BY DEF PublishesSeed
    <2> DEFINE T == acknowledged_for(Seed)
    <2>2. T # {}
      BY <2>1 DEF acknowledged_for, Gates
    <2>3. Len(runs) \in Nat /\ T \subseteq 1 .. Len(runs)
      BY DEF SeedingInv, LifecycleInv, TypeOK, acknowledged_for
    <2>4. \E m \in T : \A j \in T : j <= m
      <3> HIDE DEF T
      <3> QED
        BY <2>2, <2>3, GreatestBelow
    <2> QED
      BY <2>1, <2>4 DEF latest_acknowledged_for
  <1> QED
    BY <1>1, <1>2, <1>3, SeedingInvariance, PTL DEF SeedingSpec

(* While the processes come up one by one, the one on its way to publish   *)
(* found no bundle and there still is none.                                *)
LEMMA OneByOneStep ==
  ASSUME SeedingInv, OneByOneInv, [MCNext]_mcVars, oneByOne
  PROVE  OneByOneInv' /\ NoReplacement
  <1>1. CASE UNCHANGED mcVars
    BY <1>1 DEF mcVars, seedVars, vars, seeding, OneByOneInv, Crowd, ComingUp, NoReplacement
  <1>2. CASE MCNext
    <2>1. SeedingNext /\ oneByOne /\ (oneByOne' => ~ Crowd')
      BY <1>2 DEF MCNext
    <2>2. /\ SeedStages' = SeedStages
          /\ \A q \in Processes : stage[q] \in SeedStages => active_id = None /\ Up = {}
      <3>1. ASSUME NEW q \in Processes, stage[q] \in SeedStages
            PROVE  active_id = None /\ Up = {}
        <4>1. active_id = None
          BY <2>1, <3>1 DEF OneByOneInv
        <4>2. \A p \in Processes : stage[p] = "up" => active_id # None
          BY DEF SeedingInv, ProcessInv
        <4> QED
          BY <4>1, <4>2 DEF Up
      <3> QED
        BY <3>1 DEF SeedStages
    <2>3. CASE OwnerActs
      <3>1. Up # {} /\ UNCHANGED seeding
        BY <2>3 DEF OwnerActs
      <3>2. \A q \in Processes : stage[q] \notin SeedStages
        BY <2>2, <3>1
      <3> QED
        BY <2>1, <2>2, <3>1, <3>2 DEF OneByOneInv, NoReplacement, seeding
    <2>4. ASSUME NEW p \in Processes, Seeds(p) \/ StopProcess(p)
          PROVE  OneByOneInv' /\ NoReplacement
      <3>1. SeedingTypeOK /\ \A q \in Processes \ {p} : stage'[q] = stage[q]
        BY <2>4, OthersStill DEF SeedingInv, Still
      <3>2. CASE SetActive(p) /\ Leave(p, "publish", "up")
        <4>1. stage[p] = "publish" /\ stage'[p] = "up"
          BY <3>1, <3>2 DEF SeedingTypeOK, Leave, Enter
        <4>2. active_id = None
          BY <2>2, <4>1 DEF SeedStages
        <4>3. \A q \in Processes \ {p} : stage[q] \notin SeedStages
          BY <2>1, <4>1 DEF OneByOneInv, Crowd, ComingUp, SeedStages
        <4> QED
          BY <2>1, <2>2, <3>1, <4>1, <4>2, <4>3 DEF OneByOneInv, NoReplacement, SeedStages
      <3>3. CASE active_id' = active_id
        <4>1. ASSUME NEW q \in Processes, stage'[q] \in SeedStages
              PROVE  active_id = None
          <5>1. CASE stage[q] \in SeedStages
            BY <2>2, <5>1
          <5>2. CASE stage[q] \notin SeedStages
            <6>1. q = p
              BY <3>1, <4>1, <5>2
            <6>2. FoundNone(p)
              <7>1. CASE Start(p)
                BY <3>1, <4>1, <6>1, <7>1 DEF SeedingTypeOK, Start, Enter, SeedStages
              <7>2. CASE StopProcess(p)
                BY <3>1, <4>1, <6>1, <7>2 DEF SeedingTypeOK, StopProcess, SeedStages
              <7>3. CASE AddCase(p) \/ SaveSeedDraft(p)
                BY <4>1, <5>2, <6>1, <7>3 DEF AddCase, SaveSeedDraft, seeding
              <7>4. CASE FoundActive(p) \/ SeedDraftRefused(p) \/ SeedFails(p)
                BY <3>1, <4>1, <6>1, <7>4
                   DEF SeedingTypeOK, FoundActive, SeedDraftRefused, SeedFails, Leave,
                       Enter, SeedStages
              <7>5. CASE \/ SeedDraftKnown(p) \/ AddSeedDraft(p) \/ ListCases(p)
                         \/ ReplaySeed(p) \/ AcknowledgeSeed(p)
                BY <5>2, <6>1, <7>5
                   DEF SeedDraftKnown, AddSeedDraft, ListCases, ReplaySeed,
                       AcknowledgeSeed, Enter, SeedStages
              <7>6. CASE PublishSeed(p)
                <8>1. stage[p] = "publish"
                  BY <7>6 DEF PublishSeed, Leave, Enter
                <8> QED
                  BY <5>2, <6>1, <8>1 DEF SeedStages
              <7> QED
                BY <2>4, <7>1, <7>2, <7>3, <7>4, <7>5, <7>6 DEF Seeds
            <6> QED
              BY <6>2 DEF FoundNone, active, SeedingInv, LifecycleInv, ReplayGated, Ids
          <5> QED
            BY <5>1, <5>2
        <4> QED
          BY <2>1, <2>2, <3>3, <4>1 DEF OneByOneInv, NoReplacement
      <3>4. active_id' = active_id \/ (SetActive(p) /\ Leave(p, "publish", "up"))
        BY <2>4, Zenon
           DEF Seeds, StopProcess, Start, AddCase, FoundActive, FoundNone, SeedDraftKnown,
               SaveSeedDraft, AddSeedDraft, SeedDraftRefused, ListCases, ReplaySeed,
               SeedFails, AcknowledgeSeed, PublishSeed, Score, Replay, Acknowledge,
               SaveDraft, AddDraft, AddRefused, PublishGet, PublishActive, PublishGated,
               PublishUpdate, PublishRetire, PublishNoOp, vars, stores
      <3> QED
        BY <3>2, <3>3, <3>4
    <2> QED
      BY <2>1, <2>3, <2>4 DEF SeedingNext
  <1> QED
    BY <1>1, <1>2

(* Where processes come up one after another, none of them ever replaces a *)
(* live bundle, whatever the owner publishes in between and wherever they  *)
(* stop and start again.                                                   *)
THEOREM LiveBundleKeptOneByOne == MCSpec => LiveBundleKept
  <1>1. MCInit => SeedingInv /\ OneByOneInv
    <2>1. MCInit => SeedingInv
      BY SeedingStart DEF MCInit
    <2>2. MCInit => OneByOneInv
      BY DEF MCInit, SeedingInit, OneByOneInv, Crowd, ComingUp, SeedStages
    <2> QED
      BY <2>1, <2>2
  <1>2. [MCNext]_mcVars => [SeedingNext]_seedVars
    BY DEF MCNext, mcVars
  <1>3. SeedingInv /\ [MCNext]_mcVars => SeedingInv'
    BY <1>2, SeedingStep
  <1>4. SeedingInv /\ OneByOneInv /\ [MCNext]_mcVars => OneByOneInv'
    <2>1. [MCNext]_mcVars /\ oneByOne' => oneByOne
      BY DEF MCNext, mcVars
    <2> QED
      BY <2>1, OneByOneStep DEF OneByOneInv
  <1>5. SeedingInv /\ OneByOneInv /\ [MCNext]_mcVars
          => [oneByOne => NoReplacement]_mcVars
    BY OneByOneStep
  <1> QED
    BY <1>1, <1>3, <1>4, <1>5, PTL DEF MCSpec, LiveBundleKept
=============================================================================
