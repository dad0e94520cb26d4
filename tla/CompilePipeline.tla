-------------------------- MODULE CompilePipeline --------------------------
(***************************************************************************)
(* The legacy compile (backend/engine): jobs of one company, each a graph  *)
(* of nodes in a process of its own, over the event bus and the calls of   *)
(* the language model that the process makes, and the store that all jobs  *)
(* share.  The nodes take turns on the loop of their process; write_brain  *)
(* never gives it up, but its calls of the store interleave with those of  *)
(* other jobs.                                                             *)
(***************************************************************************)
EXTENDS EventBus, FiniteSets

CONSTANTS
  Slots, RateRetries, Retries,
  MaxKills      \* bound: processes that are killed

VARIABLES
  phase, attempt,                         \* of LlmClient
  files, current, rows, recorded, runs,   \* of BrainStore
  pc,         \* per job, its next node or store call, or how it ended
  sources,    \* what its documents speak of, None without a directory
  again,      \* the callers whose first answer did not parse
  found,      \* what each extractor returned, None before
  skills,     \* draft_skills, then skills_with_evidence, then final_skills
  warnings,
  kills

(* route_to_extraction. *)
Extractors == {"decisions", "workflows", "exceptions", "contradictions", "entities"}

INSTANCE BrainStore
INSTANCE LlmClient WITH Processes <- Jobs, Callers <- Extractors \cup {"synthesize", "link"}

calls == <<phase, attempt>>
stored == <<files, current, rows, recorded, runs>>
graph == <<pc, sources, again, found, skills, warnings, kills>>
vars == <<bus, calls, stored, graph>>

(* A list the model returned: empty, with items, or with an id twice.      *)
Lists == {"none", "some", "repeated"}

ASSUME CompileAssumptions ==
  /\ None \notin Lists \cup {"related"}
  /\ Slots \in Nat \ {0} /\ RateRetries \in Nat /\ Retries \in Nat

Init ==
  /\ BusInit /\ LlmInit /\ StoreInit(None)
  /\ pc \in [Jobs -> {"load", "killed"}]   \* killed: before its first node
  /\ sources \in [Jobs -> SUBSET Extractors \cup {None}]
  /\ again = [j \in Jobs |-> {}]
  /\ found = [j \in Jobs |-> [c \in Extractors |-> None]]
  /\ skills = [j \in Jobs |-> "none"]
  /\ warnings = [j \in Jobs |-> {}]
  /\ kills = Cardinality({j \in Jobs : pc[j] = "killed"})

Goto(j, next) == pc' = [pc EXCEPT ![j] = next]

(* To put an event on a queue never waits, so stage events with nothing    *)
(* but computation between them are one here: what chunking and the        *)
(* extractors say before they call the model, for one.                     *)
Stage == <<"stage">>

-----------------------------------------------------------------------------
(* Without the directory load_sources reports pipeline_error and returns   *)
(* no files, and the graph goes on.                                        *)
load_sources(j) ==
  /\ pc[j] = "load"
  /\ Goto(j, "chunk")
  /\ Emit(j, Stage \o (IF sources[j] = None THEN <<"pipeline_error">> ELSE Stage))
  /\ UNCHANGED <<calls, stored, sources, again, found, skills, warnings, kills>>

(* chunk_documents, then route_to_extraction: an extractor no chunk is     *)
(* relevant to returns at once, the others call the model.                 *)
chunk_documents(j) ==
  LET relevant == IF sources[j] = None THEN {} ELSE sources[j]
  IN  /\ pc[j] = "chunk"
      /\ Goto(j, "extract")
      /\ found' = [found EXCEPT ![j] =
                     [c \in Extractors |-> IF c \in relevant THEN None ELSE "none"]]
      /\ Ask(j, relevant)
      /\ Emit(j, Stage)
      /\ UNCHANGED <<stored, sources, again, skills, warnings, kills>>

(* A node raises: ainvoke cancels the others and raises; no event tells.   *)
Raise(j) ==
  /\ Goto(j, "raised")
  /\ HangUp(j)
  /\ UNCHANGED <<stored, sources, again, found, skills, warnings, kills>>

(* safe_llm_json_call: an answer that does not parse is asked for again,   *)
(* once; the second failure, whatever it is, returns nothing.  The chunks  *)
(* of an extractor make one batch here, and no batch was asked for before: *)
(* the keys of the cache hold the extractor's name and the text.           *)
AskAgain(j, c) ==
  /\ phase[j][c] = "answered" /\ c \notin again[j]
  /\ again' = [again EXCEPT ![j] = @ \cup {c}]
  /\ Ask(j, {c})
  /\ UNCHANGED <<bus, stored, pc, sources, found, skills, warnings, kills>>

(* What comes back to the caller, first or second time. *)
Result(j, c, lists, r) ==
  /\ \/ r \in lists /\ Read(j, c, "answered")
     \/ r = "none" /\ c \in again[j] /\ Read(j, c, "raised")
  /\ again' = [again EXCEPT ![j] = @ \ {c}]

Extract(j, c, lists) ==
  /\ pc[j] = "extract" /\ found[j][c] = None
  /\ \E r \in lists : Result(j, c, lists, r) /\ found' = [found EXCEPT ![j][c] = r]
  /\ Emit(j, Stage)
  /\ UNCHANGED <<stored, pc, sources, skills, warnings, kills>>

extract_decisions(j) == Extract(j, "decisions", {"none", "some"})
extract_workflows(j) == Extract(j, "workflows", {"none", "some"})
extract_exceptions(j) == Extract(j, "exceptions", {"none", "some"})
detect_contradictions(j) == Extract(j, "contradictions", {"none", "some"})

(* The entities may come with relationships between them. *)
extract_entities(j) == Extract(j, "entities", Lists \cup {"related"})

(* The call raises, or an item of its answer is not a dictionary and       *)
(* the caller does not look.                                               *)
CallRaises(j, c) ==
  /\ \/ phase[j][c] = "raised" /\ c \notin again[j]
     \/ phase[j][c] = "answered" /\ c \in {"entities", "synthesize"}
  /\ Raise(j)
  /\ UNCHANGED bus

(* The barrier: every extractor has returned.  The graph keeps one entity  *)
(* of an id, the list of entities keeps both.                              *)
Extracted(j) == pc[j] = "extract" /\ \A c \in Extractors : found[j][c] # None

build_operational_graph(j) ==
  /\ Extracted(j)
  /\ Goto(j, "discover")
  /\ Emit(j, Stage)
  /\ UNCHANGED <<calls, stored, sources, again, found, skills, warnings, kills>>

discover_operational_metadata(j) ==
  /\ pc[j] = "discover"
  /\ Goto(j, "synthesize")
  /\ Emit(j, Stage)
  /\ UNCHANGED <<calls, stored, sources, again, found, skills, warnings, kills>>

NothingFound(j) == \A c \in Extractors \ {"entities"} : found[j][c] = "none"

synthesize_skills(j) ==
  /\ pc[j] = "synthesize" /\ phase[j]["synthesize"] = "idle"
  /\ Emit(j, Stage)
  /\ IF NothingFound(j)
       THEN Goto(j, "link") /\ UNCHANGED calls
       ELSE Ask(j, {"synthesize"}) /\ UNCHANGED pc
  /\ UNCHANGED <<stored, sources, again, found, skills, warnings, kills>>

SynthesisReturns(j) ==
  /\ pc[j] = "synthesize"
  /\ \E r \in Lists : Result(j, "synthesize", Lists, r) /\ skills' = [skills EXCEPT ![j] = r]
  /\ Goto(j, "link")
  /\ Emit(j, Stage)
  /\ UNCHANGED <<stored, sources, found, warnings, kills>>

link_evidence(j) ==
  /\ pc[j] = "link" /\ phase[j]["link"] = "idle"
  /\ Emit(j, Stage)
  /\ IF skills[j] = "none"
       THEN Goto(j, "score") /\ UNCHANGED calls
       ELSE Ask(j, {"link"}) /\ UNCHANGED pc
  /\ UNCHANGED <<stored, sources, again, found, skills, warnings, kills>>

(* The batch stays as it is when the answer does not parse, else it is     *)
(* whatever the answer holds.                                              *)
LinkReturns(j) ==
  /\ pc[j] = "link" /\ Read(j, "link", "answered")
  /\ \E r \in Lists : skills' = [skills EXCEPT ![j] = r]
  /\ Goto(j, "score")
  /\ Emit(j, Stage)
  /\ UNCHANGED <<stored, sources, again, found, warnings, kills>>

score_confidence(j) ==
  /\ pc[j] = "score"
  /\ Goto(j, "write")
  /\ Emit(j, Stage)
  /\ UNCHANGED <<calls, stored, sources, again, found, skills, warnings, kills>>

(* A document that does not decode, an item that is not a dictionary or    *)
(* holds null where a number or a dictionary is read, a model of           *)
(* embeddings that does not load.                                          *)
NodeRaises(j) ==
  /\ \/ pc[j] \in {"load", "chunk"} /\ sources[j] # None
     \/ Extracted(j) /\ \E c \in {"decisions", "entities"} : found[j][c] # "none"
     \/ pc[j] = "discover" /\ \E c \in Extractors : found[j][c] # "none"
     \/ pc[j] \in {"score", "write"} /\ skills[j] # "none"
  /\ Raise(j)
  /\ Emit(j, Stage)

-----------------------------------------------------------------------------
(* extraction_warnings: of the keys it looks for, the state has these.     *)
Checked == {"contradictions", "entities"}

(* What a run can be warned of. *)
Warnings == Checked \cup {"skills", "drafts"}

ASSUME WarningsAssumption == \A warned \in SUBSET Warnings : warned # None

extraction_warnings(j) ==
  {c \in Checked : found[j][c] = "none"}
    \cup (IF skills[j] = "none" THEN {"skills"} ELSE {})

write_brain(j) ==
  /\ pc[j] = "write"
  /\ Goto(j, "unset")
  /\ warnings' = [warnings EXCEPT ![j] = extraction_warnings(j)]
  /\ Emit(j, Stage \o (IF warnings'[j] = {} THEN <<>> ELSE <<"compile_warnings">>) \o Stage)
  /\ UNCHANGED <<calls, stored, sources, again, found, skills, kills>>

Unacknowledged(j) ==
  /\ Goto(j, "failed")
  /\ Emit(j, <<"pipeline_error">>)

(* A call of the store: done, done without an answer, or not done.  An     *)
(* error ends the job, after what the earlier calls stored.                *)
StoreCall(j, here, next, refused, Effect) ==
  /\ pc[j] = here
  /\ \/ ~refused /\ Effect /\ Goto(j, next) /\ UNCHANGED bus
     \/ ~refused /\ Effect /\ Unacknowledged(j)
     \/ Unacknowledged(j) /\ UNCHANGED stored
  /\ UNCHANGED <<calls, sources, again, found, skills, warnings, kills>>

StoreUnset(j) == StoreCall(j, "unset", "file", FALSE, UnsetCurrent)

StoreFile(j) == StoreCall(j, "file", "skills", CurrentTaken, InsertFile(j))

(* The keys of skills and entities hold their id and the file. *)
StoreSkills(j) ==
  StoreCall(j, "skills", "entities", skills[j] = "repeated",
            IF skills[j] = "none" THEN UNCHANGED stored ELSE InsertRows(j, "skills"))

(* Mutant of StoreEntities: entities the store refuses are left out. *)
StoreEntitiesAnyway(j) ==
  StoreCall(j, "entities", "edges", FALSE,
            IF found[j]["entities"] \in {"none", "repeated"}
              THEN UNCHANGED stored ELSE InsertRows(j, "entities"))

StoreEntities(j) ==
  StoreCall(j, "entities", "edges", found[j]["entities"] = "repeated",
            IF found[j]["entities"] = "none" THEN UNCHANGED stored ELSE InsertRows(j, "entities"))

StoreEdges(j) ==
  StoreCall(j, "edges", "drafts", FALSE,
            IF found[j]["entities"] = "related" THEN InsertRows(j, "edges") ELSE UNCHANGED stored)

(* Drafts never fail the compile: the run is warned. *)
StoreDrafts(j) ==
  /\ pc[j] = "drafts"
  /\ IF skills[j] = "none"
       THEN UNCHANGED <<stored, warnings>>
       ELSE \/ InsertRows(j, "drafts") /\ UNCHANGED warnings
            \/ /\ warnings' = [warnings EXCEPT ![j] = @ \cup {"drafts"}]
               /\ UNCHANGED stored \/ InsertRows(j, "drafts")
  /\ Goto(j, "complete")
  /\ UNCHANGED <<bus, calls, sources, again, found, skills, kills>>

StoreComplete(j) ==
  StoreCall(j, "complete", "told", FALSE, CompleteRun(j, warnings[j]))

PipelineComplete(j) ==
  /\ pc[j] = "told"
  /\ Goto(j, "done")
  /\ Emit(j, Stage \o <<"pipeline_complete">>)
  /\ UNCHANGED <<calls, stored, sources, again, found, skills, warnings, kills>>

-----------------------------------------------------------------------------
Writing == {"unset", "file", "skills", "entities", "edges", "drafts", "complete", "told"}
Ended == {"done", "failed", "raised", "killed"}

(* The process is killed, with its bus and whoever listens in it. *)
Kill(j) ==
  /\ pc[j] \notin Ended /\ kills < MaxKills
  /\ kills' = kills + 1
  /\ Goto(j, "killed")
  /\ HangUp(j)
  /\ LET here == {l \in Listeners : job_id[l] = j}
     IN  /\ listening' = [l \in Listeners |-> IF l \in here THEN 0 ELSE listening[l]]
         /\ closed' = [l \in Listeners |->
                         IF l \in here /\ closed[l] = None THEN "killed" ELSE closed[l]]
  /\ queues' = [queues EXCEPT ![j] = 0]
  /\ UNCHANGED <<emitted, content, heard, stored, sources, again, found, skills, warnings>>

Called(j) ==
  \E c \in Extractors \cup {"synthesize", "link"} :
    Acquire(j, c) \/ Answer(j, c) \/ RateLimited(j, c) \/ AttemptFails(j, c)

(* What the job's process does, of itself and of the model's answers. *)
JobStep(j) ==
  \/ load_sources(j) \/ chunk_documents(j)
  \/ extract_decisions(j) \/ extract_workflows(j) \/ extract_exceptions(j)
  \/ detect_contradictions(j) \/ extract_entities(j)
  \/ build_operational_graph(j) \/ discover_operational_metadata(j)
  \/ synthesize_skills(j) \/ SynthesisReturns(j)
  \/ link_evidence(j) \/ LinkReturns(j)
  \/ score_confidence(j) \/ NodeRaises(j)
  \/ \E c \in Extractors \cup {"synthesize"} : AskAgain(j, c)
  \/ \E c \in Extractors \cup {"synthesize", "link"} : CallRaises(j, c)
  \/ Called(j) /\ UNCHANGED <<bus, stored, graph>>
  \/ write_brain(j)
  \/ StoreUnset(j) \/ StoreFile(j) \/ StoreSkills(j) \/ StoreEntities(j)
  \/ StoreEdges(j) \/ StoreDrafts(j) \/ StoreComplete(j) \/ PipelineComplete(j)

(* A listener runs on the loop that write_brain holds. *)
Listens(l, Step) ==
  /\ pc[job_id[l]] \notin Writing \cup {"killed"}
  /\ Step
  /\ UNCHANGED <<calls, stored, graph>>

Next ==
  \/ \E j \in Jobs : JobStep(j) \/ Kill(j)
  \/ \E l \in Listeners : \/ Listens(l, Subscribe(l))
                          \/ Listens(l, Receive(l))
                          \/ Listens(l, TimeOut(l))
                          \/ Listens(l, Leave(l))

(* The loops turn, the model's server answers or times out (120 s), and so *)
(* does a wait for an event (300 s); the database answers.                 *)
Fairness ==
  /\ \A j \in Jobs : WF_vars(JobStep(j))
  /\ \A l \in Listeners : WF_vars(Listens(l, Receive(l)) \/ Listens(l, TimeOut(l)))

Spec == Init /\ [][Next]_vars /\ Fairness

-----------------------------------------------------------------------------
FileStored(j) == \E i \in DOMAIN files : files[i] = j

SkillsStored(j) == skills[j] # "none" => "skills" \in rows[j]

EntitiesStored(j) == found[j]["entities"] # "none" => "entities" \in rows[j]

EdgesStored(j) == found[j]["entities"] = "related" => "edges" \in rows[j]

DraftsStored(j, warned) == skills[j] # "none" => "drafts" \in rows[j] \cup warned

Stored(j) == FileStored(j) /\ SkillsStored(j) /\ EntitiesStored(j) /\ EdgesStored(j)

Says(events, type) == type \in {events[i] : i \in DOMAIN events}

(* A stream that says complete stands for a brain that is there in full,   *)
(* its file and the rows of its skills, entities and relationships, for a  *)
(* completed run if the run was recorded, and follows a warning if a list  *)
(* the code looks at came back empty.  A run that is complete stands for   *)
(* the same brain, with its drafts or a warning that they failed, and      *)
(* warns of each such list.  A job whose run nobody recorded leaves no     *)
(* trace of drafts that failed (write_brain).                              *)
CompleteIsWhole ==
  \A j \in Jobs :
    /\ Says(emitted[j], "pipeline_complete") =>
         /\ Stored(j)
         /\ j \in recorded => runs[j] # None
         /\ extraction_warnings(j) # {} => Says(emitted[j], "compile_warnings")
    /\ runs[j] # None =>
         /\ Stored(j) /\ DraftsStored(j, runs[j])
         /\ extraction_warnings(j) \subseteq runs[j]

(* The two ways the repository reads a company's brain agree wherever both *)
(* find one, whatever jobs write at once or stop half-way: the current     *)
(* file is one, and the latest (get_current_brain, _load_db).              *)
ReadersAgree == get_current_brain # {} => get_current_brain = _load_db

(* W8 of docs/V1_EXECUTION_PLAN.md: a run that is complete warns of every  *)
(* extraction that returned nothing (extraction_warnings).                 *)
EmptyExtractionSurfaced ==
  \A j \in Jobs : runs[j] # None => {c \in Extractors : found[j][c] = "none"} \subseteq runs[j]

(* Every compile ends, and no listener waits for ever, whatever the model  *)
(* answers and however its calls compete for slots (llm_call, the retries  *)
(* and the terms of 120 and 300 seconds).                                  *)
Ends ==
  <>[](/\ \A j \in Jobs : pc[j] \in Ended
       /\ \A l \in Listeners : listening[l] = 0)

(***************************************************************************)
(* The inductive invariant: where a job is in write_brain says what it has *)
(* stored and said by then, and whether its run can be complete.           *)
(***************************************************************************)
Events == {"stage", "compile_warnings"} \cup Terminal

Nodes == {"load", "chunk", "extract", "discover", "synthesize", "link", "score", "write"}

CompileTypeOK ==
  /\ emitted \in [Jobs -> Seq(Events)]
  /\ pc \in [Jobs -> Nodes \cup Writing \cup Ended]
  /\ found \in [Jobs -> [Extractors -> Lists \cup {"related", None}]]
  /\ skills \in [Jobs -> Lists]
  /\ warnings \in [Jobs -> SUBSET Warnings]
  /\ files \in Seq(Jobs)
  /\ current \subseteq Jobs
  /\ rows \in [Jobs -> SUBSET {"skills", "entities", "edges", "drafts"}]
  /\ recorded \subseteq Jobs
  /\ runs \in [Jobs -> {None} \cup SUBSET Warnings]

(* A file is inserted only where none is current. *)
CurrentIsLatest ==
  current # {} => files # <<>> /\ current = {files[Len(files)]}

(* The stages of write_brain after the call that stores the file, those    *)
(* after the call that stores the skills, and so on.                       *)
JobInv(j) ==
  /\ pc[j] \in Writing \cup {"done"} => extraction_warnings(j) \subseteq warnings[j]
  /\ pc[j] \in (Writing \ {"unset", "file"}) \cup {"done"} => FileStored(j)
  /\ pc[j] \in (Writing \ {"unset", "file", "skills"}) \cup {"done"} => SkillsStored(j)
  /\ pc[j] \in {"edges", "drafts", "complete", "told", "done"} => EntitiesStored(j)
  /\ pc[j] \in {"drafts", "complete", "told", "done"} => EdgesStored(j)
  /\ pc[j] \in {"complete", "told", "done"} => DraftsStored(j, warnings[j])
  /\ pc[j] \in {"told", "done"} /\ j \in recorded => runs[j] # None
  /\ pc[j] \in Writing \cup {"done"} /\ extraction_warnings(j) # {}
       => Says(emitted[j], "compile_warnings")
  /\ Says(emitted[j], "pipeline_complete") =>
       /\ pc[j] \in Ended
       /\ Stored(j)
       /\ j \in recorded => runs[j] # None
       /\ extraction_warnings(j) # {} => Says(emitted[j], "compile_warnings")
  /\ runs[j] # None =>
       /\ pc[j] \in {"told"} \cup Ended
       /\ Stored(j) /\ DraftsStored(j, runs[j])
       /\ extraction_warnings(j) \subseteq runs[j]

CompileInv ==
  /\ CompileTypeOK
  /\ CurrentIsLatest
  /\ \A j \in Jobs : JobInv(j)
=============================================================================
