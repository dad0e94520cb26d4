--------------------------- MODULE CompileProofs ---------------------------
(***************************************************************************)
(* What is proved of the legacy compile: the two ways to read a company's  *)
(* brain agree, a complete run is whole, no job ever waits for what cannot *)
(* come, and a stream loses nothing while one listener listens at a time.  *)
(***************************************************************************)
EXTENDS MCCompilePipeline, FiniteSetTheorems, TLAPS

(* The events of a job say that its pipeline is complete, or that its      *)
(* extractions came back empty.                                            *)
Tells(events) == Says(events, "pipeline_complete")
Warns(events) == Says(events, "compile_warnings")

LEMMA Appended ==
  ASSUME NEW S, NEW s \in Seq(S), NEW x \in S
  PROVE  /\ Append(s, x) \in Seq(S) /\ Append(s, x) # <<>>
         /\ Len(s) \in Nat /\ Len(Append(s, x)) = Len(s) + 1
         /\ DOMAIN s = 1 .. Len(s) /\ DOMAIN Append(s, x) = 1 .. (Len(s) + 1)
         /\ \A i \in 1 .. Len(s) : Append(s, x)[i] = s[i]
         /\ Append(s, x)[Len(s) + 1] = x
  OBVIOUS

LEMMA Concatenated ==
  ASSUME NEW S, NEW s \in Seq(S), NEW t \in Seq(S)
  PROVE  /\ s \o t \in Seq(S)
         /\ Len(s \o t) = Len(s) + Len(t)
         /\ Len(s) \in Nat /\ Len(t) \in Nat
         /\ \A i \in 1 .. Len(s) : (s \o t)[i] = s[i]
         /\ \A i \in 1 .. Len(t) : (s \o t)[Len(s) + i] = t[i]
  OBVIOUS

LEMMA SaysConcatenated ==
  ASSUME NEW S, NEW s \in Seq(S), NEW t \in Seq(S), NEW type
  PROVE  Says(s \o t, type) <=> Says(s, type) \/ Says(t, type)
  <1>1. PICK m \in Nat, n \in Nat, c \in Seq(S) : m = Len(s) /\ n = Len(t) /\ c = s \o t
    BY Concatenated
  <1>2. DOMAIN s = 1 .. m /\ DOMAIN t = 1 .. n /\ DOMAIN c = 1 .. (m + n)
    <2>1. Len(c) = m + n
      BY <1>1, Concatenated
    <2> QED
      BY <1>1, <2>1
  <1>3. /\ \A i \in 1 .. m : i \in 1 .. (m + n) /\ c[i] = s[i]
        /\ \A i \in 1 .. n : m + i \in 1 .. (m + n) /\ c[m + i] = t[i]
    BY <1>1
  <1>4. \A i \in 1 .. (m + n) : i \in 1 .. m \/ (i - m \in 1 .. n /\ i = m + (i - m))
    BY <1>1
  <1>5. ASSUME Says(c, type)
        PROVE  Says(s, type) \/ Says(t, type)
    <2>1. PICK i \in 1 .. (m + n) : c[i] = type
      BY <1>2, <1>5 DEF Says
    <2> QED
      BY <1>2, <1>3, <1>4, <2>1 DEF Says
  <1>6. ASSUME Says(s, type) \/ Says(t, type)
        PROVE  Says(c, type)
    BY <1>2, <1>3, <1>6 DEF Says
  <1> QED
    BY <1>1, <1>5, <1>6

LEMMA TellsConcatenated ==
  ASSUME NEW S, NEW s \in Seq(S), NEW t \in Seq(S)
  PROVE  /\ Tells(s \o t) <=> Tells(s) \/ Tells(t)
         /\ Warns(s \o t) <=> Warns(s) \/ Warns(t)
  BY SaysConcatenated DEF Tells, Warns

(* What a job emits, and whether it says that it is complete, or warns. *)
LEMMA Emitted ==
  ASSUME emitted \in [Jobs -> Seq(Events)], NEW j \in Jobs, NEW types \in Seq(Events),
         Emit(j, types)
  PROVE  /\ emitted' \in [Jobs -> Seq(Events)]
         /\ \A k \in Jobs \ {j} : emitted'[k] = emitted[k]
         /\ Tells(emitted'[j]) <=> Tells(emitted[j]) \/ Tells(types)
         /\ Warns(emitted'[j]) <=> Warns(emitted[j]) \/ Warns(types)
  <1>1. emitted' = [emitted EXCEPT ![j] = @ \o types]
    BY DEF Emit
  <1> DEFINE Kinds == Events
  <1>2. emitted \in [Jobs -> Seq(Kinds)] /\ types \in Seq(Kinds)
    OBVIOUS
  <1> HIDE DEF Kinds
  <1>3. emitted'[j] = emitted[j] \o types /\ emitted[j] \in Seq(Kinds)
    BY <1>1, <1>2
  <1>4. emitted[j] \o types \in Seq(Kinds)
    BY <1>2, <1>3, Concatenated
  <1>5. emitted' \in [Jobs -> Seq(Kinds)]
    BY <1>1, <1>2, <1>4
  <1>6. /\ Tells(emitted'[j]) <=> Tells(emitted[j]) \/ Tells(types)
        /\ Warns(emitted'[j]) <=> Warns(emitted[j]) \/ Warns(types)
    BY <1>2, <1>3, TellsConcatenated
  <1> QED
    BY <1>1, <1>2, <1>5, <1>6 DEF Kinds

LEMMA StageTypes ==
  /\ Stage \in Seq(Events) /\ ~ Tells(Stage)
  /\ <<>> \in Seq(Events) /\ ~ Tells(<<>>)
  /\ <<"pipeline_error">> \in Seq(Events) /\ ~ Tells(<<"pipeline_error">>)
  /\ <<"compile_warnings">> \in Seq(Events) /\ ~ Tells(<<"compile_warnings">>)
  /\ Warns(<<"compile_warnings">>)
  /\ <<"pipeline_complete">> \in Seq(Events)
  BY DEF Stage, Events, Terminal, Tells, Warns, Says

(* Nothing that the invariant says of job k is changed, but for what the   *)
(* store gains.                                                            *)
Kept(k) ==
  /\ pc'[k] = pc[k] /\ found'[k] = found[k] /\ skills'[k] = skills[k]
  /\ warnings'[k] = warnings[k] /\ runs'[k] = runs[k]
  /\ rows[k] \subseteq rows'[k]
  /\ Tells(emitted'[k]) <=> Tells(emitted[k])
  /\ Warns(emitted[k]) => Warns(emitted'[k])
  /\ recorded' = recorded

FilesKept == \A i \in DOMAIN files : i \in DOMAIN files' /\ files'[i] = files[i]

LEMMA JobKept ==
  ASSUME NEW k \in Jobs, JobInv(k), Kept(k), FilesKept
  PROVE  JobInv(k)'
  <1>1. FileStored(k) => FileStored(k)'
    BY DEF FileStored, FilesKept
  <1>2. /\ SkillsStored(k) => SkillsStored(k)'
        /\ EntitiesStored(k) => EntitiesStored(k)'
        /\ EdgesStored(k) => EdgesStored(k)'
    BY DEF SkillsStored, EntitiesStored, EdgesStored, Kept
  <1>3. /\ DraftsStored(k, warnings[k]) => DraftsStored(k, warnings[k])'
        /\ DraftsStored(k, runs[k]) => DraftsStored(k, runs[k])'
    BY DEF DraftsStored, Kept
  <1>4. extraction_warnings(k)' = extraction_warnings(k)
    BY DEF extraction_warnings, Kept
  <1>5. pc'[k] = pc[k] /\ runs'[k] = runs[k] /\ warnings'[k] = warnings[k]
    BY DEF Kept
  <1>6. /\ Tells(emitted[k])' => Tells(emitted[k])
        /\ Warns(emitted[k]) => Warns(emitted[k])'
        /\ recorded' = recorded
    BY DEF Kept, Tells, Warns
  <1> QED
    BY <1>1, <1>2, <1>3, <1>4, <1>5, <1>6 DEF JobInv, Stored, Tells, Warns, Writing, Ended

-----------------------------------------------------------------------------
(* The nodes before write_brain store nothing and never say that the       *)
(* pipeline is complete.                                                   *)

GraphNode(j) ==
  \/ load_sources(j) \/ chunk_documents(j)
  \/ extract_decisions(j) \/ extract_workflows(j) \/ extract_exceptions(j)
  \/ detect_contradictions(j) \/ extract_entities(j)
  \/ build_operational_graph(j) \/ discover_operational_metadata(j)
  \/ synthesize_skills(j) \/ SynthesisReturns(j)
  \/ link_evidence(j) \/ LinkReturns(j)
  \/ score_confidence(j) \/ NodeRaises(j)

LEMMA NodeEmits ==
  ASSUME NEW j \in Jobs, GraphNode(j)
  PROVE  \E types \in Seq(Events) : Emit(j, types) /\ ~ Tells(types)
  <1>1. CASE Emit(j, Stage)
    BY <1>1, StageTypes
  <1>2. CASE load_sources(j)
    <2>1. PICK types : /\ types = Stage \o (IF sources[j] = None THEN <<"pipeline_error">>
                                                               ELSE Stage)
                       /\ Emit(j, types)
      BY <1>2 DEF load_sources
    <2>2. PICK last \in Seq(Events) : types = Stage \o last /\ ~ Tells(last)
      BY <2>1, StageTypes
    <2>3. types \in Seq(Events) /\ ~ Tells(types)
      <3>1. Stage \in Seq(Events) /\ ~ Tells(Stage)
        BY StageTypes
      <3>2. Stage \o last \in Seq(Events)
        BY <3>1, Concatenated
      <3>3. ~ Tells(Stage \o last)
        BY <2>2, <3>1, TellsConcatenated
      <3> QED
        BY <2>2, <3>2, <3>3
    <2> QED
      BY <2>1, <2>3
  <1>3. CASE \/ extract_decisions(j) \/ extract_workflows(j) \/ extract_exceptions(j)
             \/ detect_contradictions(j) \/ extract_entities(j)
    BY <1>1, <1>3
       DEF extract_decisions, extract_workflows, extract_exceptions,
           detect_contradictions, extract_entities, Extract
  <1>4. CASE \/ chunk_documents(j) \/ build_operational_graph(j)
             \/ discover_operational_metadata(j) \/ score_confidence(j)
    BY <1>1, <1>4
       DEF chunk_documents, build_operational_graph, discover_operational_metadata,
           score_confidence
  <1>5. CASE \/ synthesize_skills(j) \/ SynthesisReturns(j)
             \/ link_evidence(j) \/ LinkReturns(j) \/ NodeRaises(j)
    BY <1>1, <1>5
       DEF synthesize_skills, SynthesisReturns, link_evidence, LinkReturns, NodeRaises
  <1> QED
    BY <1>2, <1>3, <1>4, <1>5 DEF GraphNode

LEMMA NodeMoves ==
  ASSUME CompileTypeOK, NEW j \in Jobs, GraphNode(j)
  PROVE  /\ pc[j] \in Nodes
         /\ \E next \in Nodes \cup {"raised"} : pc' = [pc EXCEPT ![j] = next]
  <1>1. pc' = pc => pc' = [pc EXCEPT ![j] = pc[j]]
    BY DEF CompileTypeOK
  <1>2. CASE load_sources(j) \/ chunk_documents(j)
    BY <1>2 DEF load_sources, chunk_documents, Goto, Nodes
  <1>3. CASE \/ extract_decisions(j) \/ extract_workflows(j) \/ extract_exceptions(j)
             \/ detect_contradictions(j) \/ extract_entities(j)
    <2>1. pc[j] = "extract" /\ pc' = pc
      BY <1>3, Zenon
         DEF extract_decisions, extract_workflows, extract_exceptions,
             detect_contradictions, extract_entities, Extract
    <2> QED
      BY <1>1, <2>1 DEF Nodes
  <1>4. CASE build_operational_graph(j) \/ discover_operational_metadata(j)
    BY <1>4 DEF build_operational_graph, discover_operational_metadata, Extracted, Goto, Nodes
  <1>5. CASE synthesize_skills(j) \/ SynthesisReturns(j)
    BY <1>1, <1>5 DEF synthesize_skills, SynthesisReturns, Goto, Nodes
  <1>6. CASE link_evidence(j) \/ LinkReturns(j)
    BY <1>1, <1>6 DEF link_evidence, LinkReturns, Goto, Nodes
  <1>7. CASE score_confidence(j)
    BY <1>7 DEF score_confidence, Goto, Nodes
  <1>8. CASE NodeRaises(j)
    BY <1>8 DEF NodeRaises, Raise, Extracted, Goto, Nodes
  <1> QED
    BY <1>2, <1>3, <1>4, <1>5, <1>6, <1>7, <1>8 DEF GraphNode

LEMMA NodeData ==
  ASSUME CompileTypeOK, NEW j \in Jobs, GraphNode(j)
  PROVE  /\ UNCHANGED <<stored, warnings>>
         /\ found' \in [Jobs -> [Extractors -> Lists \cup {"related", None}]]
         /\ skills' \in [Jobs -> Lists]
         /\ \A k \in Jobs \ {j} : found'[k] = found[k] /\ skills'[k] = skills[k]
  <1>1. UNCHANGED <<stored, warnings>>
    BY Zenon
       DEF GraphNode, load_sources, chunk_documents, extract_decisions, extract_workflows,
           extract_exceptions, detect_contradictions, extract_entities, Extract,
           build_operational_graph, discover_operational_metadata, synthesize_skills,
           SynthesisReturns, link_evidence, LinkReturns, score_confidence, NodeRaises, Raise
  <1>2. CASE UNCHANGED <<found, skills>>
    BY <1>1, <1>2 DEF CompileTypeOK
  <1>3. CASE chunk_documents(j)
    BY <1>1, <1>3 DEF CompileTypeOK, chunk_documents, Lists
  <1>4. ASSUME NEW c \in Extractors, NEW lists \in SUBSET (Lists \cup {"related"}),
               Extract(j, c, lists)
        PROVE  /\ found' \in [Jobs -> [Extractors -> Lists \cup {"related", None}]]
               /\ skills' = skills
               /\ \A k \in Jobs \ {j} : found'[k] = found[k]
    <2>1. PICK r \in lists : Result(j, c, lists, r) /\ found' = [found EXCEPT ![j][c] = r]
      BY <1>4 DEF Extract
    <2> QED
      BY <1>4, <2>1 DEF CompileTypeOK, Extract
  <1>5. CASE \/ extract_decisions(j) \/ extract_workflows(j) \/ extract_exceptions(j)
             \/ detect_contradictions(j) \/ extract_entities(j)
    <2>1. \E c \in Extractors, lists \in SUBSET (Lists \cup {"related"}) : Extract(j, c, lists)
      BY <1>5 DEF extract_decisions, extract_workflows, extract_exceptions,
                  detect_contradictions, extract_entities, Extractors, Lists
    <2> QED
      BY <1>1, <1>4, <2>1 DEF CompileTypeOK
  <1>6. CASE SynthesisReturns(j) \/ LinkReturns(j)
    BY <1>1, <1>6 DEF CompileTypeOK, SynthesisReturns, LinkReturns
  <1>7. CASE \/ load_sources(j) \/ build_operational_graph(j)
             \/ discover_operational_metadata(j) \/ synthesize_skills(j)
             \/ link_evidence(j) \/ score_confidence(j) \/ NodeRaises(j)
    <2>1. UNCHANGED <<found, skills>>
      BY <1>7, Zenon
         DEF load_sources, build_operational_graph, discover_operational_metadata,
             synthesize_skills, link_evidence, score_confidence, NodeRaises, Raise
    <2> QED
      BY <1>2, <2>1
  <1> QED
    BY <1>3, <1>5, <1>6, <1>7 DEF GraphNode

(* A step that says nothing of completion. *)
Quiet(j) == UNCHANGED bus \/ \E types \in Seq(Events) : Emit(j, types) /\ ~ Tells(types)

LEMMA QuietKept ==
  ASSUME CompileTypeOK, NEW j \in Jobs, Quiet(j)
  PROVE  /\ emitted' \in [Jobs -> Seq(Events)]
         /\ \A k \in Jobs : Tells(emitted'[k]) <=> Tells(emitted[k])
         /\ \A k \in Jobs : Warns(emitted[k]) => Warns(emitted'[k])
  <1>1. emitted \in [Jobs -> Seq(Events)]
    BY DEF CompileTypeOK
  <1>2. CASE UNCHANGED bus
    BY <1>1, <1>2 DEF bus
  <1>3. CASE \E types \in Seq(Events) : Emit(j, types) /\ ~ Tells(types)
    <2>1. PICK types \in Seq(Events) : Emit(j, types) /\ ~ Tells(types)
      BY <1>3
    <2>2. \A k \in Jobs \ {j} : emitted'[k] = emitted[k]
      BY <1>1, <2>1, Emitted
    <2>3. /\ Tells(emitted'[j]) <=> Tells(emitted[j])
          /\ Warns(emitted[j]) => Warns(emitted'[j])
      BY <1>1, <2>1, Emitted
    <2>4. emitted' \in [Jobs -> Seq(Events)]
      BY <1>1, <2>1, Emitted
    <2>5. \A k \in Jobs : Tells(emitted'[k]) <=> Tells(emitted[k])
      BY <2>2, <2>3
    <2>6. \A k \in Jobs : Warns(emitted[k]) => Warns(emitted'[k])
      BY <2>2, <2>3
    <2> QED
      BY <2>4, <2>5, <2>6
  <1> QED
    BY <1>2, <1>3 DEF Quiet

(* What is shown of every step of a job. *)
Advances(j) ==
  /\ CompileTypeOK' /\ FilesKept
  /\ JobInv(j)'
  /\ \A k \in Jobs \ {j} : Kept(k)

LEMMA NodeStep ==
  ASSUME CompileInv, NEW j \in Jobs, GraphNode(j)
  PROVE  Advances(j)
  <1>1. CompileTypeOK /\ JobInv(j)
    BY DEF CompileInv
  <1>2. Quiet(j)
    BY NodeEmits DEF Quiet
  <1>3. PICK next \in Nodes \cup {"raised"} : pc' = [pc EXCEPT ![j] = next]
    BY <1>1, NodeMoves
  <1>4. pc[j] \in Nodes
    BY <1>1, NodeMoves
  <1>5. CompileTypeOK'
    <2>1. pc' \in [Jobs -> Nodes \cup Writing \cup Ended]
      BY <1>1, <1>3 DEF CompileTypeOK, Ended
    <2> QED
      BY <1>1, <1>2, <2>1, NodeData, QuietKept DEF CompileTypeOK, stored
  <1>6. FilesKept /\ \A k \in Jobs \ {j} : Kept(k)
    BY <1>1, <1>2, <1>3, NodeData, QuietKept DEF CompileTypeOK, FilesKept, Kept, stored
  <1>7. runs'[j] = None
    BY <1>1, <1>4, NodeData DEF JobInv, Nodes, Ended, stored
  <1>8. pc'[j] \in Nodes \cup {"raised"}
    BY <1>1, <1>3 DEF CompileTypeOK
  <1>9. ~ Tells(emitted[j])'
    BY <1>1, <1>2, <1>4, QuietKept DEF JobInv, Tells, Nodes, Ended
  <1>10. JobInv(j)'
    BY <1>7, <1>8, <1>9 DEF JobInv, Tells, Nodes, Writing
  <1> QED
    BY <1>5, <1>6, <1>10 DEF Advances

(* The calls of the model, and the job's end. *)
LEMMA CallStep ==
  ASSUME CompileInv, NEW j \in Jobs,
         \/ \E c \in Extractors \cup {"synthesize"} : AskAgain(j, c)
         \/ \E c \in Extractors \cup {"synthesize", "link"} : CallRaises(j, c)
         \/ Called(j) /\ UNCHANGED <<bus, stored, graph>>
         \/ Kill(j)
  PROVE  Advances(j)
  <1>1. CompileTypeOK /\ JobInv(j)
    BY DEF CompileInv
  <1>2. /\ UNCHANGED <<emitted, stored, found, skills, warnings>>
        /\ pc' = pc \/ \E end \in {"raised", "killed"} : pc' = [pc EXCEPT ![j] = end]
    BY DEF AskAgain, CallRaises, Raise, Kill, Goto, bus, graph
  <1>3. pc' \in [Jobs -> Nodes \cup Writing \cup Ended]
    BY <1>1, <1>2 DEF CompileTypeOK, Ended
  <1>4. CompileTypeOK' /\ FilesKept
    BY <1>1, <1>2, <1>3 DEF CompileTypeOK, FilesKept, stored
  <1>5. \A k \in Jobs \ {j} : Kept(k)
    BY <1>1, <1>2 DEF CompileTypeOK, Kept, Tells, stored
  <1>6. JobInv(j)'
    <2>1. CASE pc' = pc
      <3>1. Kept(j)
        BY <1>2, <2>1 DEF Kept, Tells, stored
      <3> QED
        BY <1>1, <1>4, <3>1, JobKept
    <2>2. CASE \E end \in {"raised", "killed"} : pc' = [pc EXCEPT ![j] = end]
      <3>1. pc'[j] \in {"raised", "killed"}
        BY <1>1, <2>2 DEF CompileTypeOK
      <3>2. /\ FileStored(j)' <=> FileStored(j)
            /\ SkillsStored(j)' <=> SkillsStored(j)
            /\ EntitiesStored(j)' <=> EntitiesStored(j)
            /\ EdgesStored(j)' <=> EdgesStored(j)
            /\ DraftsStored(j, runs[j])' <=> DraftsStored(j, runs[j])
            /\ extraction_warnings(j)' = extraction_warnings(j)
            /\ runs' = runs /\ recorded' = recorded /\ emitted' = emitted
        BY <1>2 DEF FileStored, SkillsStored, EntitiesStored, EdgesStored, DraftsStored,
                    extraction_warnings, stored
      <3> QED
        BY <1>1, <3>1, <3>2 DEF JobInv, Stored, Writing, Ended
    <2> QED
      BY <1>2, <2>1, <2>2
  <1> QED
    BY <1>4, <1>5, <1>6 DEF Advances

-----------------------------------------------------------------------------
(* write_brain. *)

LEMMA WriteBrainStep ==
  ASSUME CompileInv, NEW j \in Jobs, write_brain(j)
  PROVE  Advances(j)
  <1>1. CompileTypeOK /\ JobInv(j)
    BY DEF CompileInv
  <1>2. /\ pc[j] = "write" /\ pc' = [pc EXCEPT ![j] = "unset"]
        /\ warnings' = [warnings EXCEPT ![j] = extraction_warnings(j)]
        /\ UNCHANGED <<stored, found, skills>>
    BY DEF write_brain, Goto
  <1>3. Quiet(j)
    <2>1. PICK types, told : /\ Emit(j, types) /\ types = (Stage \o told) \o Stage
                             /\ told \in {<<>>, <<"compile_warnings">>}
      BY DEF write_brain
    <2>2. told \in Seq(Events) /\ ~ Tells(told)
      BY <2>1, StageTypes
    <2>3. Stage \o told \in Seq(Events) /\ ~ Tells(Stage \o told)
      BY <2>2, StageTypes, Concatenated, TellsConcatenated
    <2>4. types \in Seq(Events) /\ ~ Tells(types)
      BY <2>1, <2>3, StageTypes, Concatenated, TellsConcatenated
    <2> QED
      BY <2>1, <2>4 DEF Quiet
  <1>4. extraction_warnings(j) \subseteq Warnings
    BY DEF extraction_warnings, Warnings
  <1>5. CompileTypeOK'
    <2>1. pc' \in [Jobs -> Nodes \cup Writing \cup Ended]
      BY <1>1, <1>2 DEF CompileTypeOK, Writing
    <2> QED
      BY <1>1, <1>2, <1>3, <1>4, <2>1, QuietKept DEF CompileTypeOK, stored
  <1>6. FilesKept /\ \A k \in Jobs \ {j} : Kept(k)
    BY <1>1, <1>2, <1>3, QuietKept DEF CompileTypeOK, FilesKept, Kept, stored
  <1>7. runs'[j] = None
    BY <1>1, <1>2 DEF JobInv, Ended, stored
  <1>8. ~ Tells(emitted[j])'
    BY <1>1, <1>2, <1>3, QuietKept DEF JobInv, Tells, Ended
  <1>9. /\ pc'[j] = "unset" /\ extraction_warnings(j)' = warnings'[j]
        /\ extraction_warnings(j)' = extraction_warnings(j)
    BY <1>1, <1>2 DEF CompileTypeOK, extraction_warnings
  <1>10. extraction_warnings(j) # {} => Warns(emitted'[j])
    <2> SUFFICES ASSUME extraction_warnings(j) # {}
                 PROVE  Warns(emitted'[j])
      OBVIOUS
    <2>1. warnings'[j] = extraction_warnings(j)
      BY <1>1, <1>2 DEF CompileTypeOK
    <2>2. Emit(j, (Stage \o <<"compile_warnings">>) \o Stage)
      BY <2>1 DEF write_brain
    <2>3. /\ Stage \o <<"compile_warnings">> \in Seq(Events)
          /\ Warns(Stage \o <<"compile_warnings">>)
      BY StageTypes, Concatenated, TellsConcatenated
    <2>4. /\ (Stage \o <<"compile_warnings">>) \o Stage \in Seq(Events)
          /\ Warns((Stage \o <<"compile_warnings">>) \o Stage)
      BY <2>3, StageTypes, Concatenated, TellsConcatenated
    <2> QED
      BY <1>1, <2>2, <2>4, Emitted DEF CompileTypeOK
  <1>11. JobInv(j)'
    BY <1>7, <1>8, <1>9, <1>10 DEF JobInv, Tells, Warns, Writing
  <1> QED
    BY <1>5, <1>6, <1>11 DEF Advances

StoreAction(j) ==
  \/ StoreUnset(j) \/ StoreFile(j) \/ StoreSkills(j) \/ StoreEntities(j)
  \/ StoreEdges(j) \/ StoreDrafts(j) \/ StoreComplete(j)

(* The calls of the store, in their order. *)
After ==
  {<<"unset", "file">>, <<"file", "skills">>, <<"skills", "entities">>,
   <<"entities", "edges">>, <<"edges", "drafts">>, <<"drafts", "complete">>,
   <<"complete", "told">>}

LEMMA StoreMoves ==
  ASSUME CompileTypeOK, NEW j \in Jobs, StoreAction(j)
  PROVE  /\ Quiet(j) /\ UNCHANGED <<found, skills>>
         /\ pc[j] \in Writing \ {"told"}
         /\ pc' = [pc EXCEPT ![j] = pc'[j]]
         /\ <<pc[j], pc'[j]>> \in After \/ pc'[j] = "failed"
  <1>1. ASSUME NEW here \in Writing \ {"told"}, NEW next \in Writing,
               <<here, next>> \in After, pc[j] = here,
               \/ Goto(j, next) /\ UNCHANGED bus
               \/ Unacknowledged(j)
        PROVE  /\ Quiet(j) /\ pc[j] \in Writing \ {"told"}
               /\ pc' = [pc EXCEPT ![j] = pc'[j]]
               /\ <<pc[j], pc'[j]>> \in After \/ pc'[j] = "failed"
    <2>1. Quiet(j)
      BY <1>1, StageTypes DEF Quiet, Unacknowledged
    <2>2. PICK to : /\ pc' = [pc EXCEPT ![j] = to]
                    /\ to = next \/ to = "failed"
      BY <1>1 DEF Unacknowledged, Goto
    <2>3. pc'[j] = to /\ pc' = [pc EXCEPT ![j] = pc'[j]]
      BY <2>2 DEF CompileTypeOK
    <2> QED
      BY <1>1, <2>1, <2>2, <2>3
  <1>2. UNCHANGED <<found, skills>>
    BY Zenon DEF StoreAction, StoreUnset, StoreFile, StoreSkills, StoreEntities, StoreEdges,
                 StoreDrafts, StoreComplete, StoreCall
  <1>3. CASE StoreUnset(j)
    BY <1>1, <1>2, <1>3 DEF StoreUnset, StoreCall, After, Writing
  <1>4. CASE StoreFile(j)
    BY <1>1, <1>2, <1>4 DEF StoreFile, StoreCall, After, Writing
  <1>5. CASE StoreSkills(j)
    BY <1>1, <1>2, <1>5 DEF StoreSkills, StoreCall, After, Writing
  <1>6. CASE StoreEntities(j)
    BY <1>1, <1>2, <1>6 DEF StoreEntities, StoreCall, After, Writing
  <1>7. CASE StoreEdges(j)
    BY <1>1, <1>2, <1>7 DEF StoreEdges, StoreCall, After, Writing
  <1>8. CASE StoreDrafts(j)
    BY <1>1, <1>2, <1>8 DEF StoreDrafts, After, Writing
  <1>9. CASE StoreComplete(j)
    BY <1>1, <1>2, <1>9 DEF StoreComplete, StoreCall, After, Writing
  <1> QED
    BY <1>3, <1>4, <1>5, <1>6, <1>7, <1>8, <1>9 DEF StoreAction

(* The store only gains, and what is to be in it by the next call is. *)
Gains(j) ==
  /\ rows' \in [Jobs -> SUBSET {"skills", "entities", "edges", "drafts"}]
  /\ warnings' \in [Jobs -> SUBSET Warnings]
  /\ \A k \in Jobs : rows[k] \subseteq rows'[k] /\ warnings[k] \subseteq warnings'[k]
  /\ \A k \in Jobs \ {j} : warnings'[k] = warnings[k]
  /\ files' = files \/ files' = Append(files, j)

LEMMA StoreGains ==
  ASSUME CompileTypeOK, NEW j \in Jobs, StoreAction(j)
  PROVE  Gains(j)
  <1>1. ASSUME NEW kind \in {"skills", "entities", "edges", "drafts"}, InsertRows(j, kind)
        PROVE  /\ rows' \in [Jobs -> SUBSET {"skills", "entities", "edges", "drafts"}]
               /\ \A k \in Jobs : rows[k] \subseteq rows'[k]
               /\ files' = files
    BY <1>1 DEF CompileTypeOK, InsertRows
  <1>2. CASE StoreUnset(j) \/ StoreFile(j) \/ StoreComplete(j)
    <2>1. /\ rows' = rows /\ warnings' = warnings
          /\ files' = files \/ files' = Append(files, j)
      BY <1>2 DEF StoreUnset, StoreFile, StoreComplete, StoreCall, UnsetCurrent, InsertFile,
                  CompleteRun, stored
    <2> QED
      BY <2>1 DEF CompileTypeOK, Gains
  <1>3. CASE StoreSkills(j) \/ StoreEntities(j) \/ StoreEdges(j)
    <2>1. warnings' = warnings /\ (UNCHANGED stored \/ \E kind \in {"skills", "entities", "edges"} :
                                                          InsertRows(j, kind))
      BY <1>3 DEF StoreSkills, StoreEntities, StoreEdges, StoreCall
    <2> QED
      BY <1>1, <2>1 DEF CompileTypeOK, Gains, stored
  <1>4. CASE StoreDrafts(j)
    <2>1. UNCHANGED stored \/ InsertRows(j, "drafts")
      BY <1>4 DEF StoreDrafts
    <2>2. \/ warnings' = warnings
          \/ warnings' = [warnings EXCEPT ![j] = @ \cup {"drafts"}]
      BY <1>4 DEF StoreDrafts
    <2>3. /\ warnings' \in [Jobs -> SUBSET Warnings]
          /\ \A k \in Jobs : warnings[k] \subseteq warnings'[k]
          /\ \A k \in Jobs \ {j} : warnings'[k] = warnings[k]
      BY <2>2 DEF CompileTypeOK, Warnings
    <2> QED
      BY <1>1, <2>1, <2>3 DEF CompileTypeOK, Gains, stored
  <1> QED
    BY <1>2, <1>3, <1>4 DEF StoreAction

LEMMA RunsStored ==
  ASSUME CompileTypeOK, NEW j \in Jobs, StoreAction(j)
  PROVE  /\ runs' \in [Jobs -> {None} \cup SUBSET Warnings]
         /\ \A k \in Jobs \ {j} : runs'[k] = runs[k]
         /\ recorded' = recorded
         /\ \/ runs' = runs /\ (pc'[j] # "told" \/ j \notin recorded)
            \/ /\ pc[j] = "complete" /\ runs'[j] = warnings[j] /\ warnings' = warnings
               /\ UNCHANGED <<files, rows>>
         /\ pc'[j] = "told" => pc[j] = "complete" /\ UNCHANGED <<files, rows, warnings>>
  <1>1. CASE StoreComplete(j)
    <2>1. /\ pc[j] = "complete" /\ warnings' = warnings
          /\ \/ UNCHANGED stored /\ pc' = [pc EXCEPT ![j] = "failed"]
             \/ CompleteRun(j, warnings[j])
      BY <1>1 DEF StoreComplete, StoreCall, Unacknowledged, Goto
    <2> QED
      BY <2>1 DEF CompileTypeOK, CompleteRun, stored
  <1>2. CASE \/ StoreUnset(j) \/ StoreFile(j) \/ StoreSkills(j) \/ StoreEntities(j)
             \/ StoreEdges(j) \/ StoreDrafts(j)
    <2>1. runs' = runs /\ recorded' = recorded
      BY <1>2, Zenon
         DEF StoreUnset, StoreFile, StoreSkills, StoreEntities, StoreEdges, StoreDrafts,
             StoreCall, UnsetCurrent, InsertFile, InsertRows, stored
    <2>2. pc[j] # "complete"
      BY <1>2 DEF StoreUnset, StoreFile, StoreSkills, StoreEntities, StoreEdges,
                  StoreDrafts, StoreCall
    <2>3. pc'[j] # "told"
      BY <2>2, StoreMoves DEF After
    <2> QED
      BY <2>1, <2>3 DEF CompileTypeOK
  <1> QED
    BY <1>1, <1>2 DEF StoreAction

LEMMA FilesStored ==
  ASSUME CompileTypeOK, CurrentIsLatest, NEW j \in Jobs, StoreAction(j)
  PROVE  /\ files' \in Seq(Jobs) /\ current' \subseteq Jobs
         /\ FilesKept /\ CurrentIsLatest'
         /\ files' = Append(files, j) => FileStored(j)'
  <1>1. CASE UNCHANGED <<files, current>>
    BY <1>1 DEF CompileTypeOK, CurrentIsLatest, FilesKept, FileStored
  <1>2. CASE UnsetCurrent
    BY <1>2 DEF CompileTypeOK, CurrentIsLatest, FilesKept, UnsetCurrent, FileStored
  <1>3. CASE InsertFile(j) /\ ~ CurrentTaken
    <2>1. PICK n \in Nat : n = Len(files)
      BY DEF CompileTypeOK
    <2>2. /\ files' \in Seq(Jobs) /\ Len(files') = n + 1
          /\ DOMAIN files = 1 .. n /\ DOMAIN files' = 1 .. (n + 1)
          /\ \A i \in 1 .. n : files'[i] = files[i]
          /\ files'[n + 1] = j /\ files' # <<>>
      <3>1. files \in Seq(Jobs) /\ files' = Append(files, j)
        BY <1>3 DEF CompileTypeOK, InsertFile
      <3> QED
        BY <2>1, <3>1, Appended
    <2>3. current' = {j}
      BY <1>3 DEF CompileTypeOK, InsertFile, CurrentTaken
    <2> QED
      BY <2>1, <2>2, <2>3 DEF CurrentIsLatest, FilesKept, FileStored
  <1>4. CASE StoreUnset(j) \/ StoreFile(j)
    BY <1>1, <1>2, <1>3, <1>4 DEF StoreUnset, StoreFile, StoreCall, stored
  <1>5. CASE StoreSkills(j) \/ StoreEntities(j) \/ StoreEdges(j)
    BY <1>1, <1>5 DEF StoreSkills, StoreEntities, StoreEdges, StoreCall, InsertRows, stored
  <1>6. CASE StoreDrafts(j) \/ StoreComplete(j)
    BY <1>1, <1>6 DEF StoreDrafts, StoreComplete, StoreCall, InsertRows, CompleteRun, stored
  <1> QED
    BY <1>4, <1>5, <1>6 DEF StoreAction

(* Where a call has gone through, what it was to store is there. *)
LEMMA StoredByThen ==
  ASSUME CompileTypeOK, NEW j \in Jobs, StoreAction(j)
  PROVE  /\ pc'[j] = "skills" => files' = Append(files, j)
         /\ pc'[j] = "entities" => SkillsStored(j)'
         /\ pc'[j] = "edges" => EntitiesStored(j)'
         /\ pc'[j] = "drafts" => EdgesStored(j)'
         /\ pc'[j] = "complete" => DraftsStored(j, warnings[j])'
  <1>1. <<pc[j], pc'[j]>> \in After \/ pc'[j] = "failed"
    BY StoreMoves
  <1>2. ASSUME NEW kind \in {"skills", "entities", "edges", "drafts"}, InsertRows(j, kind)
        PROVE  kind \in rows'[j]
    BY <1>2 DEF CompileTypeOK, InsertRows
  <1>3. UNCHANGED <<found, skills>>
    BY StoreMoves
  <1>4. CASE StoreUnset(j)
    <2>1. pc[j] = "unset"
      BY <1>4 DEF StoreUnset, StoreCall
    <2> QED
      BY <1>1, <2>1 DEF After
  <1>5. CASE StoreFile(j)
    <2>1. pc[j] = "file" /\ (InsertFile(j) \/ Goto(j, "failed"))
      BY <1>5 DEF StoreFile, StoreCall, Unacknowledged
    <2>2. pc'[j] \in {"skills", "failed"}
      BY <1>1, <2>1 DEF After
    <2> QED
      BY <2>1, <2>2 DEF CompileTypeOK, InsertFile, Goto
  <1>6. CASE StoreSkills(j)
    <2>1. /\ pc[j] = "skills"
          /\ \/ skills[j] = "none" \/ InsertRows(j, "skills") \/ Goto(j, "failed")
      BY <1>6 DEF StoreSkills, StoreCall, Unacknowledged
    <2>2. pc'[j] \in {"entities", "failed"}
      BY <1>1, <2>1 DEF After
    <2>3. SkillsStored(j)' \/ pc'[j] = "failed"
      BY <1>2, <1>3, <2>1 DEF CompileTypeOK, SkillsStored, Goto
    <2> QED
      BY <2>2, <2>3
  <1>7. CASE StoreEntities(j)
    <2>1. /\ pc[j] = "entities"
          /\ \/ found[j]["entities"] = "none" \/ InsertRows(j, "entities")
             \/ Goto(j, "failed")
      BY <1>7 DEF StoreEntities, StoreCall, Unacknowledged
    <2>2. pc'[j] \in {"edges", "failed"}
      BY <1>1, <2>1 DEF After
    <2>3. EntitiesStored(j)' \/ pc'[j] = "failed"
      BY <1>2, <1>3, <2>1 DEF CompileTypeOK, EntitiesStored, Goto
    <2> QED
      BY <2>2, <2>3
  <1>8. CASE StoreEdges(j)
    <2>1. /\ pc[j] = "edges"
          /\ \/ found[j]["entities"] # "related" \/ InsertRows(j, "edges")
             \/ Goto(j, "failed")
      BY <1>8 DEF StoreEdges, StoreCall, Unacknowledged
    <2>2. pc'[j] \in {"drafts", "failed"}
      BY <1>1, <2>1 DEF After
    <2>3. EdgesStored(j)' \/ pc'[j] = "failed"
      BY <1>2, <1>3, <2>1 DEF CompileTypeOK, EdgesStored, Goto
    <2> QED
      BY <2>2, <2>3
  <1>9. CASE StoreDrafts(j)
    <2>1. /\ pc[j] = "drafts"
          /\ \/ skills[j] = "none" \/ InsertRows(j, "drafts")
             \/ warnings' = [warnings EXCEPT ![j] = @ \cup {"drafts"}]
      BY <1>9 DEF StoreDrafts
    <2>2. pc'[j] \in {"complete", "failed"}
      BY <1>1, <2>1 DEF After
    <2>3. DraftsStored(j, warnings[j])'
      BY <1>2, <1>3, <2>1 DEF CompileTypeOK, DraftsStored
    <2> QED
      BY <2>2, <2>3
  <1>10. CASE StoreComplete(j)
    <2>1. pc[j] = "complete"
      BY <1>10 DEF StoreComplete, StoreCall
    <2> QED
      BY <1>1, <2>1 DEF After
  <1> QED
    BY <1>4, <1>5, <1>6, <1>7, <1>8, <1>9, <1>10 DEF StoreAction

LEMMA StoreStep ==
  ASSUME CompileInv, NEW j \in Jobs, StoreAction(j)
  PROVE  Advances(j)
  <1>1. CompileTypeOK /\ CurrentIsLatest /\ JobInv(j)
    BY DEF CompileInv
  <1>2. /\ Quiet(j) /\ UNCHANGED <<found, skills>>
        /\ pc[j] \in Writing \ {"told"}
        /\ pc' = [pc EXCEPT ![j] = pc'[j]]
        /\ <<pc[j], pc'[j]>> \in After \/ pc'[j] = "failed"
    BY <1>1, StoreMoves
  <1>3. FilesKept
    BY <1>1, FilesStored
  <1>4. CompileTypeOK'
    <2>1. pc'[j] \in Writing \cup {"failed"}
      BY <1>2 DEF After, Writing
    <2>2. pc' \in [Jobs -> Nodes \cup Writing \cup Ended]
      BY <1>1, <1>2, <2>1 DEF CompileTypeOK, Ended
    <2>3. emitted' \in [Jobs -> Seq(Events)]
      BY <1>1, <1>2, QuietKept
    <2>4. /\ found' \in [Jobs -> [Extractors -> Lists \cup {"related", None}]]
          /\ skills' \in [Jobs -> Lists]
      BY <1>1, <1>2 DEF CompileTypeOK
    <2> QED
      BY <1>1, <2>2, <2>3, <2>4, StoreGains, RunsStored, FilesStored DEF CompileTypeOK, Gains
  <1>5. ASSUME NEW k \in Jobs \ {j}
        PROVE  Kept(k)
    <2>1. pc'[k] = pc[k] /\ found'[k] = found[k] /\ skills'[k] = skills[k]
      BY <1>1, <1>2 DEF CompileTypeOK
    <2>2. /\ warnings'[k] = warnings[k] /\ rows[k] \subseteq rows'[k]
          /\ runs'[k] = runs[k] /\ recorded' = recorded
      BY <1>1, StoreGains, RunsStored DEF Gains
    <2>3. /\ Tells(emitted'[k]) <=> Tells(emitted[k])
          /\ Warns(emitted[k]) => Warns(emitted'[k])
      BY <1>1, <1>2, QuietKept
    <2> QED
      BY <2>1, <2>2, <2>3 DEF Kept
  <1>6. runs[j] = None /\ ~ Tells(emitted[j])
    BY <1>1, <1>2 DEF JobInv, Tells, Writing, Ended
  <1>7. /\ ~ Tells(emitted[j])'
        /\ extraction_warnings(j) # {} => Warns(emitted[j])'
        /\ recorded' = recorded
    <2>1. extraction_warnings(j) # {} => Warns(emitted[j])
      BY <1>1, <1>2 DEF JobInv, Warns
    <2> QED
      BY <1>1, <1>2, <1>6, <2>1, QuietKept, RunsStored DEF Tells, Warns
  <1>8. extraction_warnings(j)' = extraction_warnings(j)
    BY <1>2 DEF extraction_warnings
  <1>9. /\ extraction_warnings(j) \subseteq warnings[j]
        /\ warnings[j] \subseteq warnings'[j] /\ rows[j] \subseteq rows'[j]
    BY <1>1, <1>2, StoreGains DEF JobInv, Gains
  <1>10. /\ FileStored(j) => FileStored(j)'
         /\ SkillsStored(j) => SkillsStored(j)'
         /\ EntitiesStored(j) => EntitiesStored(j)'
         /\ EdgesStored(j) => EdgesStored(j)'
    BY <1>2, <1>3, <1>9
       DEF FilesKept, FileStored, SkillsStored, EntitiesStored, EdgesStored
  <1>11. CASE pc'[j] = "told"
    <2>1. pc[j] = "complete" /\ UNCHANGED <<files, rows, warnings>>
      BY <1>1, <1>11, RunsStored
    <2>2. DraftsStored(j, warnings[j])'
      BY <1>1, <1>2, <2>1 DEF JobInv, DraftsStored
    <2>3. Stored(j)'
      BY <1>1, <1>10, <2>1 DEF JobInv, Stored, Writing
    <2>4. \/ runs'[j] = None /\ j \notin recorded
          \/ runs'[j] = warnings[j] /\ runs'[j] # None
      BY <1>1, <1>6, <1>11, RunsStored, WarningsAssumption DEF CompileTypeOK
    <2>5. runs'[j] # None => DraftsStored(j, runs[j])' /\ extraction_warnings(j) \subseteq runs'[j]
      BY <1>9, <2>1, <2>2, <2>4 DEF DraftsStored
    <2>6. JobInv(j)'
      BY <1>7, <1>8, <1>9, <1>11, <2>2, <2>3, <2>4, <2>5
         DEF JobInv, Stored, Tells, Warns
    <2> QED
      BY <1>3, <1>4, <1>5, <2>6 DEF Advances
  <1>12. CASE pc'[j] = "failed"
    <2>1. CASE runs' = runs
      BY <1>3, <1>4, <1>5, <1>6, <1>7, <1>12, <2>1 DEF Advances, JobInv, Tells, Writing, Ended
    <2>2. CASE /\ pc[j] = "complete" /\ runs'[j] = warnings[j] /\ warnings' = warnings
               /\ UNCHANGED <<files, rows>>
      <3>1. DraftsStored(j, runs[j])'
        BY <1>1, <1>2, <2>2 DEF JobInv, DraftsStored
      <3>2. Stored(j)'
        BY <1>1, <1>10, <2>2 DEF JobInv, Stored, Writing
      <3>3. JobInv(j)'
        BY <1>7, <1>8, <1>9, <1>12, <2>2, <3>1, <3>2 DEF JobInv, Tells, Writing, Ended
      <3> QED
        BY <1>3, <1>4, <1>5, <3>3 DEF Advances
    <2> QED
      BY <1>1, <2>1, <2>2, RunsStored
  <1>13. CASE pc'[j] \notin {"told", "failed"}
    <2>1. runs'[j] = None
      <3>1. pc[j] # "complete"
        BY <1>2, <1>13 DEF After
      <3> QED
        BY <1>1, <1>6, <3>1, RunsStored
    <2>2. pc'[j] # "file" => FileStored(j)'
      BY <1>1, <1>2, <1>10, <1>13, FilesStored, StoredByThen DEF JobInv, After, Writing
    <2>3. pc'[j] \notin {"file", "skills"} => SkillsStored(j)'
      BY <1>1, <1>2, <1>10, <1>13, StoredByThen DEF JobInv, After, Writing
    <2>4. pc'[j] \in {"edges", "drafts", "complete"} => EntitiesStored(j)'
      BY <1>1, <1>2, <1>10, <1>13, StoredByThen DEF JobInv, After
    <2>5. pc'[j] \in {"drafts", "complete"} => EdgesStored(j)'
      BY <1>1, <1>2, <1>10, <1>13, StoredByThen DEF JobInv, After
    <2>6. pc'[j] = "complete" => DraftsStored(j, warnings[j])'
      BY <1>1, StoredByThen
    <2>7. pc'[j] \in {"file", "skills", "entities", "edges", "drafts", "complete"}
      BY <1>2, <1>13 DEF After
    <2>8. JobInv(j)'
      BY <1>7, <1>8, <1>9, <2>1, <2>2, <2>3, <2>4, <2>5, <2>6, <2>7
         DEF JobInv, Tells, Warns, Writing
    <2> QED
      BY <1>3, <1>4, <1>5, <2>8 DEF Advances
  <1> QED
    BY <1>11, <1>12, <1>13

LEMMA TellingStep ==
  ASSUME CompileInv, NEW j \in Jobs, PipelineComplete(j)
  PROVE  Advances(j)
  <1>1. CompileTypeOK /\ JobInv(j)
    BY DEF CompileInv
  <1>2. /\ pc[j] = "told" /\ pc' = [pc EXCEPT ![j] = "done"]
        /\ UNCHANGED <<stored, found, skills, warnings>>
    BY DEF PipelineComplete, Goto
  <1>3. /\ emitted' \in [Jobs -> Seq(Events)]
        /\ \A k \in Jobs \ {j} : emitted'[k] = emitted[k]
        /\ Warns(emitted[j]) => Warns(emitted'[j])
    <2>1. PICK types \in Seq(Events) : Emit(j, types)
      BY StageTypes, Concatenated DEF PipelineComplete
    <2> QED
      BY <1>1, <2>1, Emitted DEF CompileTypeOK
  <1>4. CompileTypeOK'
    <2>1. pc' \in [Jobs -> Nodes \cup Writing \cup Ended]
      BY <1>1, <1>2 DEF CompileTypeOK, Ended
    <2> QED
      BY <1>1, <1>2, <1>3, <2>1 DEF CompileTypeOK, stored
  <1>5. FilesKept /\ \A k \in Jobs \ {j} : Kept(k)
    BY <1>1, <1>2, <1>3 DEF CompileTypeOK, FilesKept, Kept, stored
  <1>6. JobInv(j)'
    <2>1. pc'[j] = "done"
      BY <1>1, <1>2 DEF CompileTypeOK
    <2>2. /\ FileStored(j)' <=> FileStored(j)
          /\ SkillsStored(j)' <=> SkillsStored(j)
          /\ EntitiesStored(j)' <=> EntitiesStored(j)
          /\ EdgesStored(j)' <=> EdgesStored(j)
          /\ DraftsStored(j, warnings[j])' <=> DraftsStored(j, warnings[j])
          /\ DraftsStored(j, runs[j])' <=> DraftsStored(j, runs[j])
          /\ extraction_warnings(j)' = extraction_warnings(j)
          /\ runs' = runs /\ warnings' = warnings /\ recorded' = recorded
      BY <1>2 DEF FileStored, SkillsStored, EntitiesStored, EdgesStored, DraftsStored,
                  extraction_warnings, stored
    <2> QED
      BY <1>1, <1>2, <1>3, <2>1, <2>2 DEF JobInv, Stored, Warns, Writing, Ended
  <1> QED
    BY <1>4, <1>5, <1>6 DEF Advances

LEMMA CompileStart == Init => CompileInv
  <1> SUFFICES ASSUME Init
               PROVE  CompileInv
    OBVIOUS
  <1>1. emitted \in [Jobs -> Seq(Events)]
    BY StageTypes DEF Init, BusInit
  <1>2. CompileTypeOK
    <2>1. files \in Seq(Jobs)
      BY DEF Init, StoreInit
    <2> QED
      BY <1>1, <2>1 DEF Init, StoreInit, CompileTypeOK, Nodes, Ended, Lists
  <1>3. CurrentIsLatest
    BY DEF Init, StoreInit, CurrentIsLatest
  <1>4. ASSUME NEW j \in Jobs
        PROVE  JobInv(j)
    <2>1. /\ pc[j] \in {"load", "killed"} /\ runs[j] = None
          /\ emitted[j] = <<>>
      BY DEF Init, StoreInit, BusInit
    <2>2. ~ Tells(emitted[j])
      BY <2>1, StageTypes
    <2> QED
      BY <2>1, <2>2 DEF JobInv, Tells, Writing
  <1> QED
    BY <1>2, <1>3, <1>4 DEF CompileInv

LEMMA ListenerStep ==
  ASSUME CompileInv, NEW l \in Listeners,
         \/ Listens(l, Subscribe(l)) \/ Listens(l, Receive(l))
         \/ Listens(l, TimeOut(l)) \/ Listens(l, Leave(l))
  PROVE  UNCHANGED <<emitted, stored, graph>>
  BY Zenon DEF Listens, Subscribe, Receive, TimeOut, Leave

LEMMA CompileStep == CompileInv /\ [Next]_vars => CompileInv'
  <1> SUFFICES ASSUME CompileInv, [Next]_vars
               PROVE  CompileInv'
    OBVIOUS
  <1>1. CASE UNCHANGED <<emitted, stored, graph>>
    <2>1. CompileTypeOK' /\ CurrentIsLatest'
      BY <1>1 DEF CompileInv, CompileTypeOK, CurrentIsLatest, stored, graph
    <2>2. \A j \in Jobs : JobInv(j)'
      BY <1>1, JobKept DEF CompileInv, Kept, FilesKept, Tells, stored, graph
    <2> QED
      BY <2>1, <2>2 DEF CompileInv
  <1>2. ASSUME NEW j \in Jobs, JobStep(j) \/ Kill(j)
        PROVE  CompileInv'
    <2>1. GraphNode(j) \/ StoreAction(j) \/ write_brain(j) \/ PipelineComplete(j)
            \/ (\E c \in Extractors \cup {"synthesize"} : AskAgain(j, c))
            \/ (\E c \in Extractors \cup {"synthesize", "link"} : CallRaises(j, c))
            \/ (Called(j) /\ UNCHANGED <<bus, stored, graph>>)
            \/ Kill(j)
      BY <1>2, Zenon DEF JobStep, GraphNode, StoreAction
    <2>2. Advances(j)
      BY <2>1, NodeStep, StoreStep, WriteBrainStep, TellingStep, CallStep
    <2>3. CurrentIsLatest'
      <3>1. CASE StoreAction(j)
        BY <3>1, FilesStored DEF CompileInv
      <3>2. CASE UNCHANGED stored
        BY <3>2 DEF CompileInv, CurrentIsLatest, stored
      <3>3. GraphNode(j) => UNCHANGED stored
        BY NodeData DEF CompileInv
      <3>4. /\ write_brain(j) \/ PipelineComplete(j) \/ Kill(j) => UNCHANGED stored
            /\ Called(j) /\ UNCHANGED <<bus, stored, graph>> => UNCHANGED stored
        BY DEF write_brain, PipelineComplete, Kill
      <3>5. /\ \A c \in Extractors \cup {"synthesize"} : AskAgain(j, c) => UNCHANGED stored
            /\ \A c \in Extractors \cup {"synthesize", "link"} :
                 CallRaises(j, c) => UNCHANGED stored
        BY DEF AskAgain, CallRaises, Raise
      <3> QED
        BY <2>1, <3>1, <3>2, <3>3, <3>4, <3>5
    <2>4. \A k \in Jobs : JobInv(k)'
      BY <2>2, JobKept DEF CompileInv, Advances
    <2> QED
      BY <2>2, <2>3, <2>4 DEF CompileInv, Advances
  <1>3. CASE \E l \in Listeners : \/ Listens(l, Subscribe(l)) \/ Listens(l, Receive(l))
                                  \/ Listens(l, TimeOut(l)) \/ Listens(l, Leave(l))
    BY <1>1, <1>3, ListenerStep
  <1>4. CASE UNCHANGED vars
    BY <1>1, <1>4 DEF vars, bus
  <1> QED
    BY <1>2, <1>3, <1>4 DEF Next

THEOREM CompileInvariance == Spec => []CompileInv
  BY CompileStart, CompileStep, PTL DEF Spec

(* The current file of a company, where there is one, is the latest, so    *)
(* both readers of its brain see the same, whatever jobs write at once,    *)
(* fail or are killed half-way.                                            *)
THEOREM ReadersAlwaysAgree == Spec => []ReadersAgree
  <1>1. CompileInv => ReadersAgree
    BY DEF CompileInv, CurrentIsLatest, ReadersAgree, get_current_brain, _load_db
  <1> QED
    BY <1>1, CompileInvariance, PTL

(* A stream says complete, and a run is complete, only once every call of  *)
(* the store has gone through; the run of a job that says so is complete   *)
(* if it was recorded, and what its warnings must name is in them.         *)
THEOREM CompleteAlwaysWhole == Spec => []CompleteIsWhole
  <1>1. ASSUME NEW j \in Jobs, JobInv(j), Says(emitted[j], "pipeline_complete")
        PROVE  /\ Stored(j)
               /\ j \in recorded => runs[j] # None
               /\ extraction_warnings(j) # {} => Says(emitted[j], "compile_warnings")
    BY <1>1 DEF JobInv
  <1>2. ASSUME NEW j \in Jobs, JobInv(j), runs[j] # None
        PROVE  /\ Stored(j) /\ DraftsStored(j, runs[j])
               /\ extraction_warnings(j) \subseteq runs[j]
    BY <1>2 DEF JobInv
  <1>3. CompileInv => CompleteIsWhole
    BY <1>1, <1>2 DEF CompileInv, CompleteIsWhole
  <1> QED
    BY <1>3, CompileInvariance, PTL

-----------------------------------------------------------------------------
(* The calls of the model and their slots. *)

AllCallers == Extractors \cup {"synthesize", "link"}

Phases == {"idle", "queued", "calling", "answered", "raised"}

MostRetries == IF RateRetries > Retries THEN RateRetries ELSE Retries

(* A job never has more calls under way than it has slots, and no call is  *)
(* attempted more often than the retries allow (llm_call).                 *)
SlotsSuffice ==
  \A j \in Jobs :
    /\ Cardinality(Holding(j)) <= Slots
    /\ \A c \in AllCallers : attempt[j][c] \in 0 .. MostRetries

(* Who waits in a job for what became of the call of c. *)
Awaits(j, c) ==
  \/ pc[j] = "extract" /\ c \in Extractors /\ found[j][c] = None
  \/ pc[j] = c

(* Something that a job does of itself, or that the model's server, the    *)
(* store or a clock does for it, can happen next.                          *)
CanGoOn(j) ==
  \/ pc[j] \in (Nodes \ {"extract", "synthesize", "link"}) \cup Writing
  \/ Extracted(j)
  \/ pc[j] \in {"synthesize", "link"} /\ phase[j][pc[j]] = "idle"
  \/ \E c \in AllCallers :
       \/ phase[j][c] = "calling"
       \/ phase[j][c] = "queued" /\ Cardinality(Holding(j)) < Slots
       \/ phase[j][c] \in {"answered", "raised"} /\ Awaits(j, c)

(* No job waits for what cannot come: its barrier waits only for callers   *)
(* whose calls are under way, and whoever waits for a slot waits for a     *)
(* call that ends of itself.                                               *)
NobodyWaitsForNothing == \A j \in Jobs : pc[j] \notin Ended => CanGoOn(j)

(* The inductive invariant: an extractor that has not returned has a call. *)
CallsInv ==
  /\ phase \in [Jobs -> [AllCallers -> Phases]]
  /\ attempt \in [Jobs -> [AllCallers -> 0 .. MostRetries]]
  /\ \A j \in Jobs :
       /\ Cardinality(Holding(j)) <= Slots
       /\ pc[j] = "extract" => \A c \in Extractors : found[j][c] = None => phase[j][c] # "idle"

(* What a step of job j does to the calls. *)
Turns(j) ==
  /\ phase' \in [Jobs -> [AllCallers -> Phases]]
  /\ attempt' \in [Jobs -> [AllCallers -> 0 .. MostRetries]]
  /\ \A k \in Jobs \ {j} : phase'[k] = phase[k]
  /\ Cardinality({c \in AllCallers : phase'[j][c] = "calling"}) <= Slots

LEMMA RetriesNat == MostRetries \in Nat /\ 0 \in 0 .. MostRetries
  BY CompileAssumptions DEF MostRetries

LEMMA FiniteCallers == \A S \in SUBSET AllCallers : IsFiniteSet(S) /\ Cardinality(S) \in Nat
  <1>1. IsFiniteSet({"decisions", "workflows", "exceptions"})
    <2>1. IsFiniteSet({"decisions"} \cup {"workflows"})
      BY FS_Singleton, FS_Union
    <2>2. IsFiniteSet(({"decisions"} \cup {"workflows"}) \cup {"exceptions"})
      BY <2>1, FS_AddElement
    <2>3. ({"decisions"} \cup {"workflows"}) \cup {"exceptions"}
            = {"decisions", "workflows", "exceptions"}
      OBVIOUS
    <2> QED
      BY <2>2, <2>3
  <1>2. IsFiniteSet({"contradictions", "entities"})
    <2>1. IsFiniteSet({"contradictions"} \cup {"entities"})
      BY FS_Singleton, FS_Union
    <2>2. {"contradictions"} \cup {"entities"} = {"contradictions", "entities"}
      OBVIOUS
    <2> QED
      BY <2>1, <2>2
  <1>3. IsFiniteSet({"synthesize", "link"})
    <2>1. IsFiniteSet({"synthesize"} \cup {"link"})
      BY FS_Singleton, FS_Union
    <2>2. {"synthesize"} \cup {"link"} = {"synthesize", "link"}
      OBVIOUS
    <2> QED
      BY <2>1, <2>2
  <1>4. IsFiniteSet({"decisions", "workflows", "exceptions"} \cup {"contradictions", "entities"})
    BY <1>1, <1>2, FS_Union
  <1>5. IsFiniteSet(({"decisions", "workflows", "exceptions"} \cup {"contradictions", "entities"})
                      \cup {"synthesize", "link"})
    BY <1>3, <1>4, FS_Union
  <1>6. ({"decisions", "workflows", "exceptions"} \cup {"contradictions", "entities"})
          \cup {"synthesize", "link"} = AllCallers
    BY DEF AllCallers, Extractors
  <1>7. IsFiniteSet(AllCallers)
    BY <1>5, <1>6
  <1>8. ASSUME NEW S \in SUBSET AllCallers PROVE IsFiniteSet(S)
    BY <1>7, FS_Subset
  <1>9. ASSUME NEW S \in SUBSET AllCallers PROVE Cardinality(S) \in Nat
    BY <1>8, FS_CardinalityType
  <1> QED
    BY <1>8, <1>9

(* Who held no slot before holds none after most steps. *)
LEMMA FewerHold ==
  ASSUME CallsInv, NEW j \in Jobs, NEW ph,
         \A c \in AllCallers : ph[c] = "calling" => phase[j][c] = "calling"
  PROVE  Cardinality({c \in AllCallers : ph[c] = "calling"}) <= Slots
  <1> DEFINE T == {c \in AllCallers : ph[c] = "calling"}
             S == {c \in AllCallers : phase[j][c] = "calling"}
  <1>1. Cardinality(S) <= Slots
    BY DEF CallsInv, Holding, AllCallers
  <1>2. T \in SUBSET S /\ S \in SUBSET AllCallers /\ T \in SUBSET AllCallers
    OBVIOUS
  <1> HIDE DEF S, T
  <1>3. IsFiniteSet(S) /\ Cardinality(S) \in Nat /\ Cardinality(T) \in Nat
    BY <1>2, FiniteCallers
  <1>4. Cardinality(T) <= Cardinality(S)
    BY <1>2, <1>3, FS_Subset
  <1>5. Slots \in Nat
    BY CompileAssumptions
  <1>6. Cardinality(T) <= Slots
    BY <1>1, <1>3, <1>4, <1>5
  <1> QED
    BY <1>6 DEF T

LEMMA AskTurns ==
  ASSUME CallsInv, NEW j \in Jobs, NEW S, Ask(j, S)
  PROVE  /\ Turns(j)
         /\ \A c \in AllCallers :
              phase'[j][c] = IF c \in S THEN "queued" ELSE phase[j][c]
  <1>1. /\ phase' = [phase EXCEPT ![j] =
                       [c \in AllCallers |-> IF c \in S THEN "queued" ELSE phase[j][c]]]
        /\ attempt' = [attempt EXCEPT ![j] =
                         [c \in AllCallers |-> IF c \in S THEN 0 ELSE attempt[j][c]]]
    BY DEF Ask, AllCallers
  <1>2. \A c \in AllCallers : phase'[j][c] = IF c \in S THEN "queued" ELSE phase[j][c]
    BY <1>1 DEF CallsInv
  <1>3. phase' \in [Jobs -> [AllCallers -> Phases]] /\ \A k \in Jobs \ {j} : phase'[k] = phase[k]
    BY <1>1 DEF CallsInv, Phases
  <1>4. attempt' \in [Jobs -> [AllCallers -> 0 .. MostRetries]]
    BY <1>1, RetriesNat DEF CallsInv
  <1>5. Cardinality({c \in AllCallers : phase'[j][c] = "calling"}) <= Slots
    BY <1>2, FewerHold
  <1> QED
    BY <1>2, <1>3, <1>4, <1>5 DEF Turns

LEMMA ReadTurns ==
  ASSUME CallsInv, NEW j \in Jobs, NEW c \in AllCallers, NEW outcome, Read(j, c, outcome)
  PROVE  /\ Turns(j)
         /\ \A d \in AllCallers : phase'[j][d] = IF d = c THEN "idle" ELSE phase[j][d]
  <1>1. /\ phase' = [phase EXCEPT ![j][c] = "idle"]
        /\ attempt' = [attempt EXCEPT ![j][c] = 0]
    BY DEF Read
  <1>2. \A d \in AllCallers : phase'[j][d] = IF d = c THEN "idle" ELSE phase[j][d]
    BY <1>1 DEF CallsInv
  <1>3. phase' \in [Jobs -> [AllCallers -> Phases]] /\ \A k \in Jobs \ {j} : phase'[k] = phase[k]
    BY <1>1 DEF CallsInv, Phases
  <1>4. attempt' \in [Jobs -> [AllCallers -> 0 .. MostRetries]]
    BY <1>1, RetriesNat DEF CallsInv
  <1>5. Cardinality({d \in AllCallers : phase'[j][d] = "calling"}) <= Slots
    BY <1>2, FewerHold
  <1> QED
    BY <1>2, <1>3, <1>4, <1>5 DEF Turns

LEMMA HangUpTurns ==
  ASSUME CallsInv, NEW j \in Jobs, HangUp(j)
  PROVE  Turns(j)
  <1>1. /\ phase' = [phase EXCEPT ![j] = [c \in AllCallers |-> "idle"]]
        /\ attempt' = [attempt EXCEPT ![j] = [c \in AllCallers |-> 0]]
    BY DEF HangUp, AllCallers
  <1>2. \A d \in AllCallers : phase'[j][d] = "idle"
    BY <1>1 DEF CallsInv
  <1>3. phase' \in [Jobs -> [AllCallers -> Phases]] /\ \A k \in Jobs \ {j} : phase'[k] = phase[k]
    BY <1>1 DEF CallsInv, Phases
  <1>4. attempt' \in [Jobs -> [AllCallers -> 0 .. MostRetries]]
    BY <1>1, RetriesNat DEF CallsInv
  <1>5. Cardinality({d \in AllCallers : phase'[j][d] = "calling"}) <= Slots
    BY <1>2, FewerHold
  <1> QED
    BY <1>3, <1>4, <1>5 DEF Turns

LEMMA SameTurns ==
  ASSUME CallsInv, NEW j \in Jobs, UNCHANGED calls
  PROVE  Turns(j) /\ phase' = phase
  <1>1. phase' = phase /\ attempt' = attempt
    BY DEF calls
  <1>2. Cardinality({d \in AllCallers : phase'[j][d] = "calling"}) <= Slots
    BY <1>1, FewerHold
  <1> QED
    BY <1>1, <1>2 DEF Turns, CallsInv

(* A call takes a slot, is retried, or gives its slot back. *)
LEMMA CallTurns ==
  ASSUME CallsInv, NEW j \in Jobs, Called(j)
  PROVE  /\ Turns(j)
         /\ \A d \in AllCallers : phase[j][d] # "idle" => phase'[j][d] # "idle"
  <1>1. PICK c \in AllCallers : Acquire(j, c) \/ Answer(j, c) \/ RateLimited(j, c) \/ AttemptFails(j, c)
    BY DEF Called, AllCallers
  <1>2. CASE Acquire(j, c)
    <2>1. /\ phase' = [phase EXCEPT ![j][c] = "calling"] /\ attempt' = attempt
          /\ phase[j][c] = "queued" /\ Cardinality(Holding(j)) < Slots
      BY <1>2 DEF Acquire
    <2>2. \A d \in AllCallers : phase'[j][d] = IF d = c THEN "calling" ELSE phase[j][d]
      BY <2>1 DEF CallsInv
    <2>3. phase' \in [Jobs -> [AllCallers -> Phases]] /\ \A k \in Jobs \ {j} : phase'[k] = phase[k]
      BY <2>1 DEF CallsInv, Phases
    <2> DEFINE S == {d \in AllCallers : phase[j][d] = "calling"}
               T == {d \in AllCallers : phase'[j][d] = "calling"}
    <2>4. T = S \cup {c} /\ c \notin S /\ S \in SUBSET AllCallers
      BY <2>1, <2>2
    <2>5. Cardinality(S) < Slots
      BY <2>1 DEF Holding, AllCallers
    <2> HIDE DEF S, T
    <2>6. IsFiniteSet(S) /\ Cardinality(S) \in Nat /\ Slots \in Nat
      BY <2>4, FiniteCallers, CompileAssumptions
    <2>7. Cardinality(S \cup {c}) = IF c \in S THEN Cardinality(S) ELSE Cardinality(S) + 1
      BY <2>6, FS_AddElement
    <2>8. Cardinality(T) <= Slots
      BY <2>4, <2>5, <2>6, <2>7
    <2>9. Turns(j)
      BY <2>1, <2>3, <2>8 DEF Turns, T, CallsInv
    <2> QED
      BY <2>2, <2>9
  <1>3. CASE \E end \in {"answered", "raised"} :
               phase' = [phase EXCEPT ![j][c] = end] /\ attempt' = attempt
    <2>1. PICK end \in {"answered", "raised"} :
            phase' = [phase EXCEPT ![j][c] = end] /\ attempt' = attempt
      BY <1>3
    <2>2. \A d \in AllCallers : phase'[j][d] = IF d = c THEN end ELSE phase[j][d]
      BY <2>1 DEF CallsInv
    <2>3. phase' \in [Jobs -> [AllCallers -> Phases]] /\ \A k \in Jobs \ {j} : phase'[k] = phase[k]
      BY <2>1 DEF CallsInv, Phases
    <2>4. Cardinality({d \in AllCallers : phase'[j][d] = "calling"}) <= Slots
      BY <2>2, FewerHold
    <2>5. Turns(j)
      BY <2>1, <2>3, <2>4 DEF Turns, CallsInv
    <2> QED
      BY <2>2, <2>5
  <1>4. CASE /\ attempt' = [attempt EXCEPT ![j][c] = @ + 1] /\ phase' = phase
             /\ attempt[j][c] < RateRetries \/ attempt[j][c] < Retries
    <2>1. attempt[j][c] \in 0 .. MostRetries /\ attempt[j][c] + 1 \in 0 .. MostRetries
      BY <1>4, CompileAssumptions DEF CallsInv, MostRetries
    <2>2. attempt' \in [Jobs -> [AllCallers -> 0 .. MostRetries]]
      BY <1>4, <2>1 DEF CallsInv
    <2>3. Cardinality({d \in AllCallers : phase'[j][d] = "calling"}) <= Slots
      BY <1>4, FewerHold
    <2> QED
      BY <1>4, <2>2, <2>3 DEF Turns, CallsInv
  <1> QED
    BY <1>1, <1>2, <1>3, <1>4 DEF Answer, RateLimited, AttemptFails, RetryOrRaise

LEMMA CallsKept ==
  ASSUME CallsInv, NEW j \in Jobs, Turns(j),
         \A k \in Jobs \ {j} : pc'[k] = pc[k] /\ found'[k] = found[k],
         pc'[j] = "extract" =>
           \A c \in Extractors : found'[j][c] = None => phase'[j][c] # "idle"
  PROVE  CallsInv'
  <1>1. ASSUME NEW k \in Jobs \ {j}
        PROVE  /\ Cardinality(Holding(k))' <= Slots
               /\ pc'[k] = "extract" =>
                    \A c \in Extractors : found'[k][c] = None => phase'[k][c] # "idle"
    <2>1. phase'[k] = phase[k]
      BY DEF Turns
    <2>2. Holding(k)' = Holding(k)
      BY <2>1 DEF Holding
    <2> QED
      BY <2>1, <2>2 DEF CallsInv
  <1>2. Cardinality(Holding(j))' <= Slots
    BY DEF Turns, Holding, AllCallers
  <1> QED
    BY <1>1, <1>2 DEF CallsInv, Turns

LEMMA ExtractKeepsCalls ==
  ASSUME CallsInv, CompileTypeOK, NEW j \in Jobs, NEW c \in Extractors,
         NEW lists \in SUBSET (Lists \cup {"related"}), Extract(j, c, lists)
  PROVE  CallsInv'
  <1>1. PICK r \in lists : Result(j, c, lists, r) /\ found' = [found EXCEPT ![j][c] = r]
    BY DEF Extract
  <1>2. \E outcome : Read(j, c, outcome)
    BY <1>1 DEF Result
  <1>3. /\ Turns(j)
        /\ \A d \in AllCallers : phase'[j][d] = IF d = c THEN "idle" ELSE phase[j][d]
    BY <1>2, ReadTurns DEF AllCallers
  <1>4. pc' = pc /\ r # None
    BY CompileAssumptions DEF Extract
  <1>5. /\ \A k \in Jobs \ {j} : found'[k] = found[k]
        /\ \A d \in Extractors : found'[j][d] = IF d = c THEN r ELSE found[j][d]
    BY <1>1 DEF CompileTypeOK
  <1>6. ASSUME pc'[j] = "extract", NEW d \in Extractors, found'[j][d] = None
        PROVE  phase'[j][d] # "idle"
    BY <1>3, <1>4, <1>5, <1>6 DEF CallsInv, AllCallers
  <1> QED
    BY <1>3, <1>4, <1>5, <1>6, CallsKept

LEMMA CallsStep ==
  ASSUME CompileInv, CallsInv, [Next]_vars
  PROVE  CallsInv'
  <1>1. CompileTypeOK
    BY DEF CompileInv
  <1>2. CASE UNCHANGED <<calls, pc, found>>
    BY <1>2 DEF CallsInv, calls, Holding
  <1>3. ASSUME NEW j \in Jobs, Turns(j), found' = found,
               \E next : pc' = [pc EXCEPT ![j] = next] /\ next # "extract"
        PROVE  CallsInv'
    <2>1. \A k \in Jobs \ {j} : pc'[k] = pc[k] /\ found'[k] = found[k]
      BY <1>1, <1>3 DEF CompileTypeOK
    <2>2. pc'[j] # "extract"
      BY <1>1, <1>3 DEF CompileTypeOK
    <2> QED
      BY <1>3, <2>1, <2>2, CallsKept
  <1>4. ASSUME NEW j \in Jobs, GraphNode(j)
        PROVE  CallsInv'
    <2>1. CASE chunk_documents(j)
      <3>1. PICK S : /\ Ask(j, S)
                     /\ found' = [found EXCEPT ![j] = [c \in Extractors |-> IF c \in S THEN None ELSE "none"]]
                     /\ pc' = [pc EXCEPT ![j] = "extract"]
        BY <2>1 DEF chunk_documents, Goto
      <3>2. /\ Turns(j)
            /\ \A c \in AllCallers : phase'[j][c] = IF c \in S THEN "queued" ELSE phase[j][c]
        BY <3>1, AskTurns
      <3>3. /\ \A k \in Jobs \ {j} : pc'[k] = pc[k] /\ found'[k] = found[k]
            /\ \A c \in Extractors : found'[j][c] = IF c \in S THEN None ELSE "none"
        BY <1>1, <3>1 DEF CompileTypeOK
      <3>4. ASSUME NEW c \in Extractors, found'[j][c] = None PROVE phase'[j][c] # "idle"
        BY <3>2, <3>3, <3>4, CompileAssumptions DEF AllCallers, Lists
      <3> QED
        BY <3>2, <3>3, <3>4, CallsKept
    <2>2. CASE \/ extract_decisions(j) \/ extract_workflows(j) \/ extract_exceptions(j)
               \/ detect_contradictions(j) \/ extract_entities(j)
      <3>1. PICK c \in Extractors, lists \in SUBSET (Lists \cup {"related"}) : Extract(j, c, lists)
        BY <2>2 DEF extract_decisions, extract_workflows, extract_exceptions,
                    detect_contradictions, extract_entities, Extractors, Lists
      <3> QED
        BY <1>1, <3>1, ExtractKeepsCalls
    <2>3. CASE load_sources(j) \/ build_operational_graph(j) \/ discover_operational_metadata(j)
               \/ score_confidence(j)
      <3>1. /\ UNCHANGED calls /\ found' = found
            /\ \E next : pc' = [pc EXCEPT ![j] = next] /\ next # "extract"
        BY <2>3 DEF load_sources, build_operational_graph, discover_operational_metadata,
                    score_confidence, Goto
      <3> QED
        BY <1>3, <3>1, SameTurns
    <2>4. CASE synthesize_skills(j) \/ link_evidence(j)
      <3>1. UNCHANGED calls \/ \E S : Ask(j, S)
        BY <2>4 DEF synthesize_skills, link_evidence
      <3>2. Turns(j)
        BY <3>1, AskTurns, SameTurns
      <3>3. /\ found' = found /\ pc[j] \in {"synthesize", "link"}
            /\ pc' = pc \/ \E next \in {"link", "score"} : pc' = [pc EXCEPT ![j] = next]
        BY <2>4 DEF synthesize_skills, link_evidence, Goto
      <3>4. pc' = pc => pc' = [pc EXCEPT ![j] = pc[j]]
        BY <1>1 DEF CompileTypeOK
      <3>5. \E next : pc' = [pc EXCEPT ![j] = next] /\ next # "extract"
        BY <3>3, <3>4
      <3> QED
        BY <1>3, <3>2, <3>3, <3>5
    <2>5. CASE SynthesisReturns(j) \/ LinkReturns(j)
      <3>1. \E c \in AllCallers : \E outcome : Read(j, c, outcome)
        BY <2>5 DEF SynthesisReturns, LinkReturns, Result, AllCallers
      <3>2. Turns(j)
        BY <3>1, ReadTurns
      <3>3. found' = found /\ \E next : pc' = [pc EXCEPT ![j] = next] /\ next # "extract"
        BY <2>5 DEF SynthesisReturns, LinkReturns, Goto
      <3> QED
        BY <1>3, <3>2, <3>3
    <2>6. CASE NodeRaises(j)
      <3>1. HangUp(j) /\ found' = found /\ pc' = [pc EXCEPT ![j] = "raised"]
        BY <2>6 DEF NodeRaises, Raise, Goto
      <3>2. Turns(j)
        BY <3>1, HangUpTurns
      <3>3. \E next : pc' = [pc EXCEPT ![j] = next] /\ next # "extract"
        <4>1. pc' = [pc EXCEPT ![j] = "raised"] /\ "raised" # "extract"
          BY <3>1
        <4> QED
          BY <4>1, Zenon
      <3> QED
        BY <1>3, <3>1, <3>2, <3>3
    <2> QED
      BY <1>4, <2>1, <2>2, <2>3, <2>4, <2>5, <2>6 DEF GraphNode
  <1>5. ASSUME NEW j \in Jobs, NEW c \in AllCallers, AskAgain(j, c)
        PROVE  CallsInv'
    <2>1. Ask(j, {c}) /\ pc' = pc /\ found' = found
      BY <1>5 DEF AskAgain
    <2>2. Turns(j) /\ \A d \in AllCallers : phase'[j][d] = IF d = c THEN "queued" ELSE phase[j][d]
      BY <2>1, AskTurns
    <2> QED
      BY <2>1, <2>2, CallsKept DEF CallsInv, AllCallers
  <1>6. ASSUME NEW j \in Jobs, NEW c \in AllCallers, CallRaises(j, c)
        PROVE  CallsInv'
    <2>1. HangUp(j) /\ found' = found /\ pc' = [pc EXCEPT ![j] = "raised"]
      BY <1>6 DEF CallRaises, Raise, Goto
    <2>2. Turns(j)
      BY <2>1, HangUpTurns
    <2>3. \E next : pc' = [pc EXCEPT ![j] = next] /\ next # "extract"
      <3>1. pc' = [pc EXCEPT ![j] = "raised"] /\ "raised" # "extract"
        BY <2>1
      <3> QED
        BY <3>1, Zenon
    <2> QED
      BY <1>3, <2>1, <2>2, <2>3
  <1>7. ASSUME NEW j \in Jobs, Called(j), UNCHANGED graph
        PROVE  CallsInv'
    <2>1. Turns(j) /\ \A d \in AllCallers : phase[j][d] # "idle" => phase'[j][d] # "idle"
      BY <1>7, CallTurns
    <2>2. pc' = pc /\ found' = found
      BY <1>7 DEF graph
    <2> QED
      BY <2>1, <2>2, CallsKept DEF CallsInv, AllCallers
  <1>8. ASSUME NEW j \in Jobs, write_brain(j) \/ StoreAction(j) \/ PipelineComplete(j)
        PROVE  CallsInv'
    <2>1. UNCHANGED calls /\ found' = found
      BY <1>8, Zenon
         DEF write_brain, PipelineComplete, StoreAction, StoreUnset, StoreFile, StoreSkills,
             StoreEntities, StoreEdges, StoreDrafts, StoreComplete, StoreCall
    <2>2. \E next : pc' = [pc EXCEPT ![j] = next] /\ next # "extract"
      <3>1. CASE write_brain(j) \/ PipelineComplete(j)
        BY <3>1 DEF write_brain, PipelineComplete, Goto
      <3>2. CASE StoreAction(j)
        BY <1>1, <3>2, StoreMoves DEF After
      <3> QED
        BY <1>8, <3>1, <3>2
    <2> QED
      BY <1>3, <2>1, <2>2, SameTurns
  <1>9. ASSUME NEW j \in Jobs, Kill(j)
        PROVE  CallsInv'
    <2>1. HangUp(j) /\ found' = found /\ pc' = [pc EXCEPT ![j] = "killed"]
      BY <1>9 DEF Kill, Goto
    <2>2. Turns(j)
      BY <2>1, HangUpTurns
    <2>3. \E next : pc' = [pc EXCEPT ![j] = next] /\ next # "extract"
      <3>1. pc' = [pc EXCEPT ![j] = "killed"] /\ "killed" # "extract"
        BY <2>1
      <3> QED
        BY <3>1, Zenon
    <2> QED
      BY <1>3, <2>1, <2>2, <2>3
  <1>10. ASSUME NEW j \in Jobs, JobStep(j) PROVE CallsInv'
    <2>1. \/ GraphNode(j) \/ write_brain(j) \/ StoreAction(j) \/ PipelineComplete(j)
          \/ \E c \in Extractors \cup {"synthesize"} : AskAgain(j, c)
          \/ \E c \in Extractors \cup {"synthesize", "link"} : CallRaises(j, c)
          \/ Called(j) /\ UNCHANGED <<bus, stored, graph>>
      BY <1>10, Zenon DEF JobStep, GraphNode, StoreAction
    <2> QED
      BY <1>4, <1>5, <1>6, <1>7, <1>8, <2>1 DEF AllCallers
  <1>11. CASE \E l \in Listeners : \/ Listens(l, Subscribe(l)) \/ Listens(l, Receive(l))
                                   \/ Listens(l, TimeOut(l)) \/ Listens(l, Leave(l))
    BY <1>2, <1>11 DEF Listens, graph
  <1>12. CASE UNCHANGED vars
    BY <1>2, <1>12 DEF vars, graph
  <1> QED
    BY <1>9, <1>10, <1>11, <1>12 DEF Next

(* The inductive invariant of the calls holds in every reachable state.    *)
THEOREM CallsInvariance == Spec => []CallsInv
  <1>1. Init => CallsInv
    <2> SUFFICES ASSUME Init PROVE CallsInv
      OBVIOUS
    <2>1. /\ phase = [j \in Jobs |-> [c \in AllCallers |-> "idle"]]
          /\ attempt = [j \in Jobs |-> [c \in AllCallers |-> 0]]
      BY DEF Init, LlmInit, AllCallers
    <2>2. phase \in [Jobs -> [AllCallers -> Phases]]
      BY <2>1 DEF Phases
    <2>3. attempt \in [Jobs -> [AllCallers -> 0 .. MostRetries]]
      BY <2>1, RetriesNat
    <2>4. ASSUME NEW j \in Jobs PROVE Cardinality(Holding(j)) <= Slots
      <3>1. Holding(j) = {}
        BY <2>1 DEF Holding, AllCallers
      <3> QED
        BY <3>1, FS_EmptySet, CompileAssumptions
    <2>5. \A j \in Jobs : pc[j] # "extract"
      <3>1. pc \in [Jobs -> {"load", "killed"}]
        BY Zenon DEF Init
      <3> QED
        BY <3>1
    <2> QED
      BY <2>2, <2>3, <2>4, <2>5 DEF CallsInv
  <1>2. CompileInv /\ CallsInv /\ [Next]_vars => CallsInv'
    BY CallsStep
  <1> QED
    BY <1>1, <1>2, CompileInvariance, PTL DEF Spec

(* A job keeps within its slots and each of its calls within its attempts, *)
(* whatever the model answers, however often it limits the rate, whoever   *)
(* asks again, and whenever the job is killed.                             *)
THEOREM CallsBounded == Spec => []SlotsSuffice
  <1>1. CallsInv => SlotsSuffice
    <2> SUFFICES ASSUME CallsInv, NEW j \in Jobs
                 PROVE  /\ Cardinality(Holding(j)) <= Slots
                        /\ \A c \in AllCallers : attempt[j][c] \in 0 .. MostRetries
      BY DEF SlotsSuffice
    <2> QED
      BY DEF CallsInv
  <1> QED
    BY <1>1, CallsInvariance, PTL

(* No compile comes to a stop: neither at the barrier of the extractors,   *)
(* nor for a slot, nor after a call that failed.                           *)
THEOREM NoJobStuck == Spec => []NobodyWaitsForNothing
  <1>1. ASSUME CompileInv, CallsInv, NEW j \in Jobs, pc[j] \notin Ended
        PROVE  CanGoOn(j)
    <2>1. pc[j] \in Nodes \cup Writing \cup Ended /\ phase[j] \in [AllCallers -> Phases]
      BY <1>1 DEF CompileInv, CompileTypeOK, CallsInv
    <2>2. ASSUME NEW c \in AllCallers, phase[j][c] # "idle", Awaits(j, c)
          PROVE  CanGoOn(j)
      <3>1. CASE phase[j][c] \in {"calling", "answered", "raised"}
        BY <2>2, <3>1 DEF CanGoOn
      <3>2. CASE phase[j][c] = "queued" /\ Holding(j) = {}
        <4>1. Cardinality(Holding(j)) < Slots
          BY <3>2, FS_EmptySet, CompileAssumptions
        <4> QED
          BY <3>2, <4>1 DEF CanGoOn
      <3>3. CASE Holding(j) # {}
        BY <3>3 DEF CanGoOn, Holding, AllCallers
      <3> QED
        BY <2>1, <2>2, <3>1, <3>2, <3>3 DEF Phases
    <2>3. CASE pc[j] = "extract"
      <3>1. CASE \A c \in Extractors : found[j][c] # None
        BY <2>3, <3>1 DEF CanGoOn, Extracted
      <3>2. CASE \E c \in Extractors : found[j][c] = None
        BY <1>1, <2>2, <2>3, <3>2 DEF Awaits, CallsInv, AllCallers
      <3> QED
        BY <3>1, <3>2
    <2>4. CASE pc[j] \in {"synthesize", "link"}
      BY <2>2, <2>4 DEF CanGoOn, Awaits, AllCallers
    <2> QED
      BY <1>1, <2>1, <2>3, <2>4 DEF CanGoOn, Nodes
  <1>2. CompileInv /\ CallsInv => NobodyWaitsForNothing
    BY <1>1 DEF NobodyWaitsForNothing
  <1> QED
    BY <1>2, CompileInvariance, CallsInvariance, PTL

-----------------------------------------------------------------------------
(* The stream of events. *)

LEMMA EndsFurther ==
  ASSUME NEW s \in Seq(Nat), NEW t \in Seq(Nat), NEW e \in Nat, EndsAt(s, e),
         \A i \in 1 .. Len(t) : t[i] = e + i
  PROVE  EndsAt(s \o t, e + Len(t))
  <1>1. PICK m \in Nat, n \in Nat, c \in Seq(Nat) : m = Len(s) /\ n = Len(t) /\ c = s \o t
    BY Concatenated
  <1>2. /\ Len(c) = m + n
        /\ \A i \in 1 .. m : c[i] = s[i]
        /\ \A i \in 1 .. n : c[m + i] = t[i]
    BY <1>1, Concatenated
  <1>3. m <= e /\ \A i \in 1 .. m : s[i] = (e - m) + i
    BY <1>1 DEF EndsAt
  <1>4. ASSUME NEW i \in 1 .. (m + n)
        PROVE  c[i] = ((e + n) - (m + n)) + i
    <2>1. CASE i \in 1 .. m
      BY <1>2, <1>3, <2>1
    <2>2. CASE i \notin 1 .. m
      <3>1. PICK k \in 1 .. n : i = m + k
        <4>1. i - m \in 1 .. n /\ i = m + (i - m)
          BY <2>2
        <4> QED
          BY <4>1
      <3>2. c[i] = e + k
        BY <1>1, <1>2, <3>1
      <3> QED
        BY <3>1, <3>2
    <2> QED
      BY <2>1, <2>2
  <1> QED
    BY <1>1, <1>2, <1>3, <1>4 DEF EndsAt

LEMMA NothingEnds == \A e \in Nat : EndsAt(<<>>, e) /\ Len(<<>>) = 0
  BY DEF EndsAt

LEMMA Associates ==
  ASSUME NEW S, NEW r \in Seq(S), NEW s \in Seq(S), NEW t \in Seq(S)
  PROVE  r \o (s \o t) = (r \o s) \o t
  OBVIOUS

LEMMA HeadMoves ==
  ASSUME NEW S, NEW h \in Seq(S), NEW q \in Seq(S), q # <<>>
  PROVE  /\ Append(h, Head(q)) \o Tail(q) = h \o q
         /\ Append(h, Head(q)) \in Seq(S) /\ Tail(q) \in Seq(S)
  OBVIOUS

LEMMA NothingBefore ==
  ASSUME NEW S, NEW s \in Seq(S)
  PROVE  <<>> \o s = s
  OBVIOUS

(* get_queue: the job's queue, or a new one that is empty. *)
LEMMA QueueFound ==
  ASSUME BusInv, NEW j \in Jobs
  PROVE  /\ WithQueue(j) \in Seq(Seq(Nat)) /\ WithQueue(j) # <<>>
         /\ get_queue(j) \in 1 .. Len(WithQueue(j))
         /\ Len(content[j]) \in Nat /\ Len(content[j]) <= Len(WithQueue(j))
         /\ WithQueue(j)[get_queue(j)] \in Seq(Nat)
         /\ queues[j] # 0 => get_queue(j) = queues[j] /\ WithQueue(j) = content[j]
         /\ queues[j] = 0 =>
              /\ get_queue(j) = Len(content[j]) + 1
              /\ WithQueue(j)[get_queue(j)] = <<>>
  <1> DEFINE Q == Seq(Nat)
  <1>1. <<>> \in Q /\ content[j] \in Seq(Q) /\ queues[j] \in Nat
    BY DEF BusInv, BusTypeOK
  <1> HIDE DEF Q
  <1>2. Len(content[j]) \in Nat /\ queues[j] <= Len(content[j])
    BY <1>1 DEF BusInv
  <1>3. CASE queues[j] = 0
    <2>1. WithQueue(j) = Append(content[j], <<>>) /\ get_queue(j) = Len(content[j]) + 1
      BY <1>3 DEF WithQueue, get_queue
    <2>2. /\ WithQueue(j) \in Seq(Q) /\ WithQueue(j) # <<>>
          /\ Len(WithQueue(j)) = Len(content[j]) + 1
          /\ WithQueue(j)[get_queue(j)] = <<>>
      BY <1>1, <2>1, Appended
    <2> QED
      BY <1>1, <1>2, <1>3, <2>1, <2>2 DEF Q
  <1>4. CASE queues[j] # 0
    <2>1. WithQueue(j) = content[j] /\ get_queue(j) = queues[j]
      BY <1>4 DEF WithQueue, get_queue
    <2>2. queues[j] \in 1 .. Len(content[j]) /\ content[j] # <<>>
      BY <1>1, <1>2, <1>4
    <2>3. content[j][queues[j]] \in Q
      BY <1>1, <2>2
    <2> QED
      BY <1>1, <1>2, <1>4, <2>1, <2>2, <2>3 DEF Q
  <1> QED
    BY <1>3, <1>4

(* What a job emits goes at the end of its queue. *)
LEMMA EmitQueues ==
  ASSUME BusInv, NEW j \in Jobs, NEW types \in Seq(Events), Emit(j, types)
  PROVE  /\ emitted' \in [Jobs -> Seq(Events)]
         /\ Len(emitted'[j]) = Len(emitted[j]) + Len(types)
         /\ \A k \in Jobs \ {j} : /\ emitted'[k] = emitted[k] /\ content'[k] = content[k]
                                  /\ queues'[k] = queues[k]
         /\ queues' \in [Jobs -> Nat] /\ queues'[j] = get_queue(j)
         /\ content' \in [Jobs -> Seq(Seq(Nat))]
         /\ Len(content'[j]) = Len(WithQueue(j)) /\ content'[j] # <<>>
         /\ \E numbers \in Seq(Nat) :
              /\ Len(numbers) = Len(types)
              /\ \A i \in 1 .. Len(numbers) : numbers[i] = Len(emitted[j]) + i
              /\ content'[j][get_queue(j)] = WithQueue(j)[get_queue(j)] \o numbers
         /\ UNCHANGED <<listening, heard, closed>>
  <1>1. BusTypeOK
    BY DEF BusInv
  <1>2. PICK q, w : q = get_queue(j) /\ w = WithQueue(j)
    OBVIOUS
  <1>3. /\ w \in Seq(Seq(Nat)) /\ w # <<>> /\ q \in 1 .. Len(w) /\ w[q] \in Seq(Nat)
    BY <1>2, QueueFound
  <1>4. /\ emitted[j] \in Seq(Events) /\ Len(emitted[j]) \in Nat /\ Len(types) \in Nat
        /\ DOMAIN types = 1 .. Len(types)
    <2> DEFINE Kinds == Events
    <2>1. emitted \in [Jobs -> Seq(Kinds)] /\ types \in Seq(Kinds)
      BY <1>1 DEF BusTypeOK
    <2> HIDE DEF Kinds
    <2>2. /\ emitted[j] \in Seq(Kinds) /\ Len(emitted[j]) \in Nat /\ Len(types) \in Nat
          /\ DOMAIN types = 1 .. Len(types)
      BY <2>1
    <2> QED
      BY <2>2 DEF Kinds
  <1>5. PICK numbers : numbers = [i \in DOMAIN types |-> Len(emitted[j]) + i]
    OBVIOUS
  <1>6. /\ numbers \in Seq(Nat) /\ Len(numbers) = Len(types)
        /\ \A i \in 1 .. Len(numbers) : numbers[i] = Len(emitted[j]) + i
    <2>1. numbers \in [1 .. Len(types) -> Nat]
      BY <1>4, <1>5
    <2> QED
      BY <1>4, <1>5, <2>1
  <1>7. /\ emitted' = [emitted EXCEPT ![j] = @ \o types]
        /\ queues' = [queues EXCEPT ![j] = q]
        /\ content' = [content EXCEPT ![j] = [w EXCEPT ![q] = @ \o numbers]]
        /\ UNCHANGED <<listening, heard, closed>>
    BY <1>2, <1>5 DEF Emit
  <1>8. PICK grown : grown = [w EXCEPT ![q] = w[q] \o numbers]
    OBVIOUS
  <1>9. /\ grown \in Seq(Seq(Nat)) /\ Len(grown) = Len(w) /\ grown # <<>>
        /\ grown[q] = w[q] \o numbers
    <2>1. w[q] \o numbers \in Seq(Nat)
      BY <1>3, <1>6, Concatenated
    <2> DEFINE Q == Seq(Nat)
    <2>2. w \in Seq(Q) /\ w[q] \o numbers \in Q
      BY <1>3, <2>1
    <2> HIDE DEF Q
    <2>3. /\ grown \in Seq(Q) /\ Len(grown) = Len(w) /\ grown # <<>>
          /\ grown[q] = w[q] \o numbers
      BY <1>3, <1>8, <2>2
    <2> QED
      BY <2>3 DEF Q
  <1>10. /\ content'[j] = grown /\ content' \in [Jobs -> Seq(Seq(Nat))]
         /\ \A k \in Jobs \ {j} : content'[k] = content[k]
    <2> DEFINE QQ == Seq(Seq(Nat))
    <2>1. content \in [Jobs -> QQ] /\ grown \in QQ
      BY <1>1, <1>9 DEF BusTypeOK
    <2> HIDE DEF QQ
    <2>2. content' = [content EXCEPT ![j] = grown]
      BY <1>7, <1>8
    <2>3. /\ content'[j] = grown /\ content' \in [Jobs -> QQ]
          /\ \A k \in Jobs \ {j} : content'[k] = content[k]
      BY <2>1, <2>2
    <2> QED
      BY <2>3 DEF QQ
  <1>11. /\ queues' \in [Jobs -> Nat] /\ queues'[j] = q
         /\ \A k \in Jobs \ {j} : queues'[k] = queues[k]
    BY <1>1, <1>3, <1>7 DEF BusTypeOK
  <1>12. /\ emitted' \in [Jobs -> Seq(Events)]
         /\ \A k \in Jobs \ {j} : emitted'[k] = emitted[k]
    BY <1>1, Emitted DEF BusTypeOK
  <1>13. Len(emitted'[j]) = Len(emitted[j]) + Len(types)
    <2>1. emitted'[j] = emitted[j] \o types
      BY <1>1, <1>7 DEF BusTypeOK
    <2> QED
      BY <1>4, <2>1, Concatenated
  <1> QED
    BY <1>2, <1>6, <1>7, <1>9, <1>10, <1>11, <1>12, <1>13

(* What a step does to the bus. *)
OnBus ==
  \/ UNCHANGED bus
  \/ \E j \in Jobs, types \in Seq(Events) : Emit(j, types)
  \/ \E l \in Listeners : Subscribe(l) \/ Receive(l) \/ TimeOut(l) \/ Leave(l)
  \/ \E j \in Jobs : Kill(j)

LEMMA StepOnBus == [Next]_vars => OnBus
  <1> SUFFICES ASSUME [Next]_vars
               PROVE  OnBus
    OBVIOUS
  <1>1. CASE UNCHANGED vars
    BY <1>1 DEF vars, OnBus
  <1>2. ASSUME NEW j \in Jobs, JobStep(j)
        PROVE  UNCHANGED bus \/ \E types \in Seq(Events) : Emit(j, types)
    <2>1. CASE GraphNode(j)
      BY <2>1, NodeEmits
    <2>2. CASE write_brain(j)
      <3>1. PICK told \in {<<>>, <<"compile_warnings">>} : Emit(j, (Stage \o told) \o Stage)
        BY <2>2 DEF write_brain
      <3>2. told \in Seq(Events)
        BY StageTypes
      <3>3. (Stage \o told) \o Stage \in Seq(Events)
        BY <3>2, StageTypes, Concatenated
      <3> QED
        BY <3>1, <3>3
    <2>3. CASE StoreUnset(j) \/ StoreFile(j) \/ StoreSkills(j) \/ StoreEntities(j)
      BY <2>3, StageTypes DEF StoreUnset, StoreFile, StoreSkills, StoreEntities, StoreCall,
                              Unacknowledged
    <2>4. CASE StoreEdges(j) \/ StoreDrafts(j) \/ StoreComplete(j)
      BY <2>4, StageTypes DEF StoreEdges, StoreDrafts, StoreComplete, StoreCall, Unacknowledged
    <2>5. CASE PipelineComplete(j)
      <3>1. Stage \o <<"pipeline_complete">> \in Seq(Events)
        BY StageTypes, Concatenated
      <3> QED
        BY <2>5, <3>1 DEF PipelineComplete
    <2>6. CASE \/ \E c \in Extractors \cup {"synthesize"} : AskAgain(j, c)
               \/ \E c \in Extractors \cup {"synthesize", "link"} : CallRaises(j, c)
               \/ Called(j) /\ UNCHANGED <<bus, stored, graph>>
      BY <2>6 DEF AskAgain, CallRaises
    <2> QED
      BY <1>2, <2>1, <2>2, <2>3, <2>4, <2>5, <2>6, Zenon DEF JobStep, GraphNode
  <1>3. CASE \E l \in Listeners : \/ Listens(l, Subscribe(l)) \/ Listens(l, Receive(l))
                                  \/ Listens(l, TimeOut(l)) \/ Listens(l, Leave(l))
    BY <1>3 DEF Listens, OnBus
  <1> QED
    BY <1>1, <1>2, <1>3 DEF Next, OnBus

LEMMA ClosedTyped ==
  ASSUME BusInv, NEW l \in Listeners, NEW why \in {"told", "timeout", "left"}, Close(l, why)
  PROVE  /\ queues' \in [Jobs -> Nat] /\ listening' \in [Listeners -> Nat]
         /\ closed' \in [Listeners -> {None, "told", "timeout", "left", "killed"}]
         /\ \A j \in Jobs : queues'[j] \in {0, queues[j]}
         /\ \A m \in Listeners : listening'[m] \in {0, listening[m]}
         /\ \A m \in Listeners : listening'[m] = 0 /\ closed'[m] = None
              => listening[m] = 0 /\ closed[m] = None
         /\ queues'[job_id[l]] = 0 /\ listening'[l] = 0
         /\ \A j \in Jobs : j # job_id[l] => queues'[j] = queues[j]
         /\ \A m \in Listeners : m # l => listening'[m] = listening[m]
  BY BusAssumptions DEF BusInv, BusTypeOK, Close

LEMMA KillTyped ==
  ASSUME BusInv, NEW j \in Jobs, Kill(j)
  PROVE  /\ queues' \in [Jobs -> Nat] /\ listening' \in [Listeners -> Nat]
         /\ closed' \in [Listeners -> {None, "told", "timeout", "left", "killed"}]
         /\ queues'[j] = 0 /\ \A k \in Jobs : k # j => queues'[k] = queues[k]
         /\ \A m \in Listeners : listening'[m] = IF job_id[m] = j THEN 0 ELSE listening[m]
         /\ \A m \in Listeners : listening'[m] = 0 /\ closed'[m] = None
              => listening[m] = 0 /\ closed[m] = None
         /\ UNCHANGED <<emitted, content, heard>>
  BY BusAssumptions DEF BusInv, BusTypeOK, Kill

(* What one listener receives moves from its queue to what it has heard. *)
LEMMA ReceivedTyped ==
  ASSUME BusInv, NEW l \in Listeners, Receive(l)
  PROVE  /\ emitted' = emitted /\ Waiting(l) # <<>> /\ Waiting(l) \in Seq(Nat)
         /\ listening[l] \in 1 .. Len(content[job_id[l]])
         /\ heard' \in [Listeners -> Seq(Nat)] /\ heard'[l] = Append(heard[l], Head(Waiting(l)))
         /\ \A m \in Listeners : m # l => heard'[m] = heard[m]
         /\ content' \in [Jobs -> Seq(Seq(Nat))]
         /\ content'[job_id[l]][listening[l]] = Tail(Waiting(l))
         /\ \A i \in 1 .. Len(content[job_id[l]]) :
              i # listening[l] => content'[job_id[l]][i] = content[job_id[l]][i]
         /\ \A j \in Jobs : /\ Len(content'[j]) = Len(content[j])
                            /\ content[j] = <<>> <=> content'[j] = <<>>
                            /\ j # job_id[l] => content'[j] = content[j]
         /\ UNCHANGED <<queues, listening, closed>> \/ Close(l, "told")
  <1>1. BusTypeOK /\ job_id[l] \in Jobs /\ listening[l] \in Nat /\ listening[l] # 0
    BY BusAssumptions DEF BusInv, BusTypeOK, Receive
  <1>2. PICK j, q, c, w : j = job_id[l] /\ q = listening[l] /\ c = content[j] /\ w = Waiting(l)
    OBVIOUS
  <1> DEFINE Q == Seq(Nat)
  <1>3. /\ j \in Jobs /\ c \in Seq(Q) /\ Len(c) \in Nat /\ q \in 1 .. Len(c)
        /\ c[q] \in Q /\ w = c[q] /\ w # <<>>
    <2>1. /\ j \in Jobs /\ content \in [Jobs -> Seq(Q)] /\ q <= Len(c) /\ q \in Nat /\ q # 0
          /\ w = c[q] /\ w # <<>>
      BY <1>1, <1>2 DEF BusInv, BusTypeOK, Waiting, Receive
    <2> HIDE DEF Q
    <2> QED
      BY <1>2, <2>1
  <1>4. Append(heard[l], Head(w)) \in Q /\ Tail(w) \in Q
    BY <1>1, <1>3, HeadMoves DEF BusTypeOK
  <1>5. /\ heard' = [heard EXCEPT ![l] = Append(heard[l], Head(w))]
        /\ content' = [content EXCEPT ![j] = [c EXCEPT ![q] = Tail(w)]]
        /\ emitted' = emitted
        /\ UNCHANGED <<queues, listening, closed>> \/ Close(l, "told")
    BY <1>2 DEF Receive
  <1>6. heard \in [Listeners -> Q] /\ content \in [Jobs -> Seq(Q)]
    BY <1>1 DEF BusTypeOK
  <1> HIDE DEF Q
  <1>7. PICK shorter : shorter = [c EXCEPT ![q] = Tail(w)]
    OBVIOUS
  <1>8. /\ shorter \in Seq(Q) /\ Len(shorter) = Len(c) /\ shorter # <<>> /\ c # <<>>
        /\ shorter[q] = Tail(w)
        /\ \A i \in 1 .. Len(c) : i # q => shorter[i] = c[i]
    BY <1>3, <1>4, <1>7
  <1>9. /\ content'[j] = shorter /\ content' \in [Jobs -> Seq(Q)]
        /\ \A k \in Jobs : k # j => content'[k] = content[k]
    BY <1>3, <1>5, <1>6, <1>7, <1>8
  <1>10. /\ heard' \in [Listeners -> Q] /\ heard'[l] = Append(heard[l], Head(w))
         /\ \A m \in Listeners : m # l => heard'[m] = heard[m]
    BY <1>4, <1>5, <1>6
  <1>11. /\ Waiting(l) # <<>> /\ Waiting(l) \in Q
         /\ listening[l] \in 1 .. Len(content[job_id[l]])
    BY <1>2, <1>3
  <1>12. /\ heard' \in [Listeners -> Q] /\ heard'[l] = Append(heard[l], Head(Waiting(l)))
         /\ \A m \in Listeners : m # l => heard'[m] = heard[m]
    BY <1>2, <1>10
  <1>13. content'[job_id[l]][listening[l]] = Tail(Waiting(l))
    BY <1>2, <1>8, <1>9
  <1>14. \A i \in 1 .. Len(content[job_id[l]]) :
           i # listening[l] => content'[job_id[l]][i] = content[job_id[l]][i]
    BY <1>2, <1>8, <1>9
  <1>15. ASSUME NEW k \in Jobs
         PROVE  /\ Len(content'[k]) = Len(content[k])
                /\ content[k] = <<>> <=> content'[k] = <<>>
                /\ k # job_id[l] => content'[k] = content[k]
    BY <1>2, <1>8, <1>9
  <1>16. content' \in [Jobs -> Seq(Q)]
    BY <1>9
  <1> QED
    BY <1>5, <1>11, <1>12, <1>13, <1>14, <1>15, <1>16, Zenon DEF Q

LEMMA SubscribeTyped ==
  ASSUME BusInv, NEW l \in Listeners, Subscribe(l)
  PROVE  LET j == job_id[l]
         IN  /\ j \in Jobs /\ listening[l] = 0 /\ closed[l] = None
             /\ queues' \in [Jobs -> Nat] /\ queues'[j] = get_queue(j)
             /\ content' \in [Jobs -> Seq(Seq(Nat))] /\ content'[j] = WithQueue(j)
             /\ \A k \in Jobs : k # j => queues'[k] = queues[k] /\ content'[k] = content[k]
             /\ listening' \in [Listeners -> Nat] /\ listening'[l] = get_queue(j)
             /\ \A m \in Listeners : m # l => listening'[m] = listening[m]
             /\ UNCHANGED <<emitted, heard, closed>>
  <1>1. PICK j : j = job_id[l]
    OBVIOUS
  <1>2. PICK q, w : q = get_queue(j) /\ w = WithQueue(j)
    OBVIOUS
  <1>3. j \in Jobs
    BY <1>1, BusAssumptions
  <1>4. w \in Seq(Seq(Nat)) /\ q \in Nat
    BY <1>2, <1>3, QueueFound
  <1>5. /\ listening[l] = 0 /\ closed[l] = None
        /\ queues' = [queues EXCEPT ![j] = q]
        /\ content' = [content EXCEPT ![j] = w]
        /\ listening' = [listening EXCEPT ![l] = q]
        /\ UNCHANGED <<emitted, heard, closed>>
    BY <1>1, <1>2 DEF Subscribe
  <1>6. /\ content' \in [Jobs -> Seq(Seq(Nat))] /\ content'[j] = w
        /\ \A k \in Jobs : k # j => content'[k] = content[k]
    <2> DEFINE QQ == Seq(Seq(Nat))
    <2>1. content \in [Jobs -> QQ] /\ w \in QQ
      BY <1>4 DEF BusInv, BusTypeOK
    <2> HIDE DEF QQ
    <2>2. /\ content' \in [Jobs -> QQ] /\ content'[j] = w
          /\ \A k \in Jobs : k # j => content'[k] = content[k]
      BY <1>3, <1>5, <2>1
    <2> QED
      BY <2>2 DEF QQ
  <1>7. /\ queues' \in [Jobs -> Nat] /\ queues'[j] = q
        /\ \A k \in Jobs : k # j => queues'[k] = queues[k]
        /\ listening' \in [Listeners -> Nat] /\ listening'[l] = q
        /\ \A m \in Listeners : m # l => listening'[m] = listening[m]
    BY <1>3, <1>4, <1>5 DEF BusInv, BusTypeOK
  <1> QED
    BY <1>1, <1>2, <1>3, <1>5, <1>6, <1>7

(* Queues that are deleted and listeners that end disturb nothing. *)
LEMMA ClosedKept ==
  ASSUME BusInv, UNCHANGED <<emitted, content, heard>>,
         queues' \in [Jobs -> Nat], listening' \in [Listeners -> Nat],
         closed' \in [Listeners -> {None, "told", "timeout", "left", "killed"}],
         \A j \in Jobs : queues'[j] = 0 \/ queues'[j] = queues[j],
         \A m \in Listeners : listening'[m] = 0 \/ listening'[m] = listening[m],
         \A m \in Listeners : listening'[m] = 0 /\ closed'[m] = None
           => listening[m] = 0 /\ closed[m] = None
  PROVE  BusInv'
  <1>1. BusTypeOK'
    BY DEF BusInv, BusTypeOK
  <1>2. ASSUME NEW j \in Jobs
        PROVE  /\ queues'[j] <= Len(content'[j])
               /\ content'[j] = <<>> => emitted'[j] = <<>>
    <2>1. Len(content[j]) \in Nat
      BY QueueFound
    <2>2. queues'[j] <= Len(content[j])
      BY <2>1 DEF BusInv
    <2> QED
      BY <2>2 DEF BusInv
  <1>3. ASSUME NEW m \in Listeners
        PROVE  /\ listening'[m] <= Len(content'[job_id[m]])
               /\ listening'[m] = 0 /\ closed'[m] = None => heard'[m] = <<>>
    <2>1. job_id[m] \in Jobs /\ Len(content[job_id[m]]) \in Nat
      BY BusAssumptions, QueueFound
    <2> QED
      BY <2>1 DEF BusInv
  <1> QED
    BY <1>1, <1>2, <1>3 DEF BusInv

LEMMA BusStep ==
  ASSUME BusInv, OnBus
  PROVE  BusInv'
  <1>1. /\ BusTypeOK
        /\ \A j \in Jobs : /\ queues[j] \in Nat /\ queues[j] <= Len(content[j])
                           /\ content[j] = <<>> => emitted[j] = <<>>
        /\ \A l \in Listeners :
             /\ job_id[l] \in Jobs /\ listening[l] \in Nat
             /\ listening[l] <= Len(content[job_id[l]])
             /\ listening[l] = 0 /\ closed[l] = None => heard[l] = <<>>
    BY BusAssumptions DEF BusInv, BusTypeOK
  <1>2. CASE UNCHANGED bus
    BY <1>1, <1>2 DEF bus, BusInv, BusTypeOK
  <1>3. ASSUME NEW j \in Jobs, NEW types \in Seq(Events), Emit(j, types)
        PROVE  BusInv'
    <2>1. BusTypeOK'
      BY <1>1, <1>3, EmitQueues DEF BusTypeOK
    <2>2. /\ get_queue(j) \in Nat /\ get_queue(j) <= Len(WithQueue(j))
          /\ Len(content[j]) \in Nat /\ Len(WithQueue(j)) \in Nat
          /\ Len(content[j]) <= Len(WithQueue(j))
      BY QueueFound
    <2>3. /\ queues'[j] = get_queue(j) /\ Len(content'[j]) = Len(WithQueue(j))
          /\ content'[j] # <<>>
          /\ \A k \in Jobs : k # j => /\ queues'[k] = queues[k] /\ content'[k] = content[k]
                                      /\ emitted'[k] = emitted[k]
          /\ UNCHANGED <<listening, heard, closed>>
      BY <1>3, EmitQueues
    <2>4. \A k \in Jobs : /\ queues'[k] <= Len(content'[k])
                          /\ content'[k] = <<>> => emitted'[k] = <<>>
      BY <1>1, <2>2, <2>3
    <2>5. ASSUME NEW l \in Listeners
          PROVE  listening'[l] <= Len(content'[job_id[l]])
      <3>1. CASE job_id[l] = j
        <4>1. PICK n \in Nat, m \in Nat, i \in Nat :
                /\ n = Len(content[j]) /\ m = Len(content'[j]) /\ i = listening[l]
                /\ i <= n /\ n <= m
          BY <1>1, <2>2, <2>3, <3>1
        <4> QED
          BY <2>3, <3>1, <4>1
      <3>2. CASE job_id[l] # j
        BY <1>1, <2>3, <3>2
      <3> QED
        BY <3>1, <3>2
    <2> QED
      BY <1>1, <2>1, <2>3, <2>4, <2>5 DEF BusInv
  <1>4. ASSUME NEW l \in Listeners, Subscribe(l)
        PROVE  BusInv'
    <2>1. PICK j \in Jobs : j = job_id[l]
      BY <1>1
    <2>2. /\ get_queue(j) \in Nat /\ get_queue(j) <= Len(WithQueue(j)) /\ WithQueue(j) # <<>>
          /\ Len(content[j]) \in Nat /\ Len(WithQueue(j)) \in Nat
          /\ Len(content[j]) <= Len(WithQueue(j)) /\ get_queue(j) # 0
      BY QueueFound
    <2>3. /\ queues' \in [Jobs -> Nat] /\ queues'[j] = get_queue(j)
          /\ content' \in [Jobs -> Seq(Seq(Nat))] /\ content'[j] = WithQueue(j)
          /\ \A k \in Jobs : k # j => queues'[k] = queues[k] /\ content'[k] = content[k]
          /\ listening' \in [Listeners -> Nat] /\ listening'[l] = get_queue(j)
          /\ \A m \in Listeners : m # l => listening'[m] = listening[m]
          /\ UNCHANGED <<emitted, heard, closed>>
      BY <1>4, <2>1, SubscribeTyped
    <2>4. BusTypeOK'
      BY <1>1, <2>3 DEF BusTypeOK
    <2>5. \A k \in Jobs : /\ queues'[k] <= Len(content'[k])
                          /\ content'[k] = <<>> => emitted'[k] = <<>>
      BY <1>1, <2>2, <2>3
    <2>6. ASSUME NEW m \in Listeners
          PROVE  /\ listening'[m] <= Len(content'[job_id[m]])
                 /\ listening'[m] = 0 /\ closed'[m] = None => heard'[m] = <<>>
      <3>1. CASE m = l
        BY <2>1, <2>2, <2>3, <3>1
      <3>2. CASE m # l /\ job_id[m] = j
        <4>1. PICK n \in Nat, w \in Nat, i \in Nat :
                /\ n = Len(content[j]) /\ w = Len(content'[j]) /\ i = listening[m]
                /\ i <= n /\ n <= w
          BY <1>1, <2>2, <2>3, <3>2
        <4> QED
          BY <1>1, <2>3, <3>2, <4>1
      <3>3. CASE m # l /\ job_id[m] # j
        BY <1>1, <2>3, <3>3
      <3> QED
        BY <3>1, <3>2, <3>3
    <2> QED
      BY <2>4, <2>5, <2>6 DEF BusInv
  <1>5. ASSUME NEW l \in Listeners, TimeOut(l) \/ Leave(l)
        PROVE  BusInv'
    <2>1. PICK why \in {"told", "timeout", "left"} :
            Close(l, why) /\ UNCHANGED <<emitted, content, heard>>
      BY <1>5 DEF TimeOut, Leave
    <2>2. /\ queues' \in [Jobs -> Nat] /\ listening' \in [Listeners -> Nat]
          /\ closed' \in [Listeners -> {None, "told", "timeout", "left", "killed"}]
      BY <2>1, ClosedTyped
    <2>3. /\ \A j \in Jobs : queues'[j] = 0 \/ queues'[j] = queues[j]
          /\ \A m \in Listeners : listening'[m] = 0 \/ listening'[m] = listening[m]
          /\ \A m \in Listeners : listening'[m] = 0 /\ closed'[m] = None
               => listening[m] = 0 /\ closed[m] = None
      BY <2>1, ClosedTyped
    <2> QED
      BY <2>1, <2>2, <2>3, ClosedKept
  <1>6. ASSUME NEW l \in Listeners, Receive(l)
        PROVE  BusInv'
    <2>1. CASE UNCHANGED <<queues, listening, closed>>
      <3>1. /\ BusTypeOK'
            /\ \A j \in Jobs : /\ queues'[j] <= Len(content'[j])
                               /\ content'[j] = <<>> => emitted'[j] = <<>>
        BY <1>1, <1>6, <2>1, ReceivedTyped DEF BusTypeOK
      <3>2. ASSUME NEW m \in Listeners
            PROVE  /\ listening'[m] <= Len(content'[job_id[m]])
                   /\ listening'[m] = 0 /\ closed'[m] = None => heard'[m] = <<>>
        <4>1. m # l => heard'[m] = heard[m]
          BY <1>6, ReceivedTyped
        <4>2. listening[l] # 0
          BY <1>6 DEF Receive
        <4>3. Len(content'[job_id[m]]) = Len(content[job_id[m]])
          BY <1>1, <1>6, ReceivedTyped
        <4> QED
          BY <1>1, <2>1, <4>1, <4>2, <4>3
      <3> QED
        BY <3>1, <3>2 DEF BusInv
    <2>2. CASE Close(l, "told")
      <3>1. /\ queues' \in [Jobs -> Nat] /\ listening' \in [Listeners -> Nat]
            /\ closed' \in [Listeners -> {None, "told", "timeout", "left", "killed"}]
            /\ \A j \in Jobs : queues'[j] = 0 \/ queues'[j] = queues[j]
            /\ \A m \in Listeners : listening'[m] = 0 \/ listening'[m] = listening[m]
            /\ \A m \in Listeners : listening'[m] = 0 /\ closed'[m] = None
                 => listening[m] = 0 /\ closed[m] = None
        BY <2>2, ClosedTyped
      <3>2. /\ BusTypeOK'
            /\ \A j \in Jobs : content'[j] = <<>> => emitted'[j] = <<>>
        BY <1>1, <1>6, <3>1, ReceivedTyped DEF BusTypeOK
      <3>3. \A j \in Jobs : Len(content'[j]) = Len(content[j]) /\ Len(content[j]) \in Nat
        BY <1>6, ReceivedTyped, QueueFound
      <3>4. \A j \in Jobs : queues'[j] <= Len(content'[j])
        BY <1>1, <3>1, <3>3
      <3>5. ASSUME NEW m \in Listeners
            PROVE  /\ listening'[m] <= Len(content'[job_id[m]])
                   /\ listening'[m] = 0 /\ closed'[m] = None => heard'[m] = <<>>
        <4>1. m # l => heard'[m] = heard[m]
          BY <1>6, ReceivedTyped
        <4>2. listening[l] # 0
          BY <1>6 DEF Receive
        <4> QED
          BY <1>1, <3>1, <3>3, <4>1, <4>2
      <3> QED
        BY <3>2, <3>4, <3>5 DEF BusInv
    <2> QED
      BY <1>6, <2>1, <2>2, ReceivedTyped
  <1>7. ASSUME NEW j \in Jobs, Kill(j)
        PROVE  BusInv'
    <2>1. /\ queues' \in [Jobs -> Nat] /\ listening' \in [Listeners -> Nat]
          /\ closed' \in [Listeners -> {None, "told", "timeout", "left", "killed"}]
          /\ UNCHANGED <<emitted, content, heard>>
      BY <1>7, KillTyped
    <2>2. /\ \A k \in Jobs : queues'[k] = 0 \/ queues'[k] = queues[k]
          /\ \A m \in Listeners : listening'[m] = 0 \/ listening'[m] = listening[m]
          /\ \A m \in Listeners : listening'[m] = 0 /\ closed'[m] = None
               => listening[m] = 0 /\ closed[m] = None
      BY <1>7, KillTyped
    <2> QED
      BY <2>1, <2>2, ClosedKept
  <1> QED
    BY <1>2, <1>3, <1>4, <1>5, <1>6, <1>7 DEF OnBus

(* What is emitted continues the last events. *)
LEMMA LatestGrows ==
  ASSUME BusInv, NEW j \in Jobs, NEW q, NEW s \in Seq(Nat), Latest(j, q, s),
         NEW numbers \in Seq(Nat),
         \A i \in 1 .. Len(numbers) : numbers[i] = Len(emitted[j]) + i,
         Len(emitted'[j]) = Len(emitted[j]) + Len(numbers)
  PROVE  /\ EndsAt(s \o numbers, Len(emitted'[j]))
         /\ q = 1 => Len(s \o numbers) = Len(emitted'[j])
  <1>1. Len(emitted[j]) \in Nat
    BY DEF BusInv, BusTypeOK
  <1>2. EndsAt(s, Len(emitted[j])) /\ (q = 1 => Len(s) = Len(emitted[j]))
    BY DEF Latest
  <1>3. EndsAt(s \o numbers, Len(emitted'[j]))
    BY <1>1, <1>2, EndsFurther
  <1>4. Len(s \o numbers) = Len(s) + Len(numbers)
    BY Concatenated
  <1> QED
    BY <1>2, <1>3, <1>4

(* The first queue of a job is there before its first event. *)
LEMMA NewQueue ==
  ASSUME BusInv, NEW j \in Jobs, queues[j] = 0
  PROVE  Latest(j, get_queue(j), <<>>)
  <1>1. Len(emitted[j]) \in Nat
    BY DEF BusInv, BusTypeOK
  <1>2. get_queue(j) = Len(content[j]) + 1 /\ Len(content[j]) \in Nat
    BY QueueFound
  <1>3. get_queue(j) = 1 => Len(emitted[j]) = 0
    <2>1. ASSUME Len(content[j]) = 0
          PROVE  Len(emitted[j]) = 0
      <3> DEFINE QQ == Seq(Nat)
      <3>1. content[j] \in Seq(QQ)
        BY DEF BusInv, BusTypeOK
      <3> HIDE DEF QQ
      <3>2. content[j] = <<>>
        BY <2>1, <3>1
      <3> QED
        BY <3>2 DEF BusInv
    <2> QED
      BY <1>2, <2>1
  <1> QED
    BY <1>1, <1>3, NothingEnds DEF Latest

LEMMA EmitStream ==
  ASSUME BusInv, StreamInv, NEW j \in Jobs, NEW types \in Seq(Events), Emit(j, types)
  PROVE  StreamInv'
  <1>1. /\ BusTypeOK /\ \A l \in Listeners : job_id[l] \in Jobs
        /\ queues[j] # 0 => get_queue(j) = queues[j] /\ WithQueue(j) = content[j]
    BY BusAssumptions, QueueFound DEF BusInv
  <1>2. /\ Len(emitted'[j]) = Len(emitted[j]) + Len(types)
        /\ \A k \in Jobs : k # j => /\ emitted'[k] = emitted[k] /\ content'[k] = content[k]
                                    /\ queues'[k] = queues[k]
        /\ queues'[j] = get_queue(j)
        /\ UNCHANGED <<listening, heard, closed>>
    BY <1>1, EmitQueues
  <1>3. PICK numbers \in Seq(Nat) :
          /\ Len(numbers) = Len(types)
          /\ \A i \in 1 .. Len(numbers) : numbers[i] = Len(emitted[j]) + i
          /\ content'[j][get_queue(j)] = WithQueue(j)[get_queue(j)] \o numbers
    BY EmitQueues
  <1>4. WithQueue(j)[get_queue(j)] \in Seq(Nat)
    BY QueueFound
  <1>5. ASSUME NEW l \in Listeners, listening'[l] # 0
        PROVE  /\ listening'[l] = queues'[job_id[l]]
               /\ Latest(job_id[l], listening[l], heard[l] \o Waiting(l))'
    <2>1. /\ listening[l] # 0 /\ listening[l] = queues[job_id[l]]
          /\ Latest(job_id[l], listening[l], heard[l] \o Waiting(l))
      BY <1>2, <1>5 DEF StreamInv
    <2>2. CASE job_id[l] # j
      BY <1>1, <1>2, <2>1, <2>2 DEF Latest, Waiting
    <2>3. CASE job_id[l] = j
      <3>1. listening[l] = get_queue(j) /\ Waiting(l) = WithQueue(j)[get_queue(j)]
        BY <1>1, <2>1, <2>3 DEF Waiting
      <3>2. PICK h \in Seq(Nat), w \in Seq(Nat) : h = heard[l] /\ w = Waiting(l)
        BY <1>1, <1>4, <3>1 DEF BusTypeOK
      <3>3. PICK s \in Seq(Nat) : s = h \o w
        BY <3>2, Concatenated
      <3>4. Latest(j, listening[l], s)
        BY <2>1, <2>3, <3>2, <3>3
      <3>5. /\ EndsAt(s \o numbers, Len(emitted'[j]))
            /\ listening[l] = 1 => Len(s \o numbers) = Len(emitted'[j])
        <4>1. Len(emitted'[j]) = Len(emitted[j]) + Len(numbers)
          BY <1>2, <1>3
        <4> QED
          BY <1>3, <3>4, <4>1, LatestGrows
      <3>6. s \o numbers = heard'[l] \o Waiting(l)'
        <4>1. heard'[l] = h
          BY <1>2, <3>2
        <4>2. Waiting(l)' = content'[j][get_queue(j)]
          BY <1>2, <2>3, <3>1 DEF Waiting
        <4>3. Waiting(l)' = w \o numbers
          BY <1>3, <3>1, <3>2, <4>2, Zenon
        <4> QED
          BY <3>3, <4>1, <4>3, Associates
      <3> QED
        BY <1>1, <1>2, <2>1, <2>3, <3>1, <3>5, <3>6 DEF Latest
    <2> QED
      BY <2>2, <2>3
  <1>6. ASSUME NEW k \in Jobs, queues'[k] # 0, ~ Heard(k)'
        PROVE  Latest(k, queues[k], content[k][queues[k]])'
    <2>1. ~ Heard(k)
      BY <1>2, <1>6 DEF Heard
    <2>2. CASE k # j
      BY <1>2, <1>6, <2>1, <2>2 DEF StreamInv, Latest
    <2>3. CASE k = j
      <3>1. Latest(j, get_queue(j), WithQueue(j)[get_queue(j)])
        <4>1. CASE queues[j] = 0
          BY <4>1, NewQueue, QueueFound
        <4>2. CASE queues[j] # 0
          BY <1>1, <2>1, <2>3, <4>2 DEF StreamInv
        <4> QED
          BY <4>1, <4>2
      <3>2. PICK w \in Seq(Nat) : w = WithQueue(j)[get_queue(j)]
        BY <1>4
      <3>3. /\ EndsAt(w \o numbers, Len(emitted'[j]))
            /\ get_queue(j) = 1 => Len(w \o numbers) = Len(emitted'[j])
        <4>1. Len(emitted'[j]) = Len(emitted[j]) + Len(numbers) /\ Latest(j, get_queue(j), w)
          BY <1>2, <1>3, <3>1, <3>2
        <4> QED
          BY <1>3, <4>1, LatestGrows
      <3> QED
        BY <1>2, <1>3, <2>3, <3>2, <3>3 DEF Latest
    <2> QED
      BY <2>2, <2>3
  <1>7. \A l, m \in Listeners : listening'[l] # 0 /\ listening'[m] # 0 => l = m
    BY <1>2 DEF StreamInv
  <1> QED
    BY <1>5, <1>6, <1>7 DEF StreamInv

LEMMA SubscribeStream ==
  ASSUME BusInv, StreamInv, NEW l \in Listeners, Subscribe(l),
         \A m \in Listeners : m # l => listening'[m] = 0
  PROVE  StreamInv'
  <1>1. PICK j \in Jobs : j = job_id[l]
    BY BusAssumptions
  <1>2. PICK q \in Nat, w \in Seq(Nat) : q = get_queue(j) /\ w = WithQueue(j)[q] /\ q # 0
    <2>1. PICK n, ws : n = get_queue(j) /\ ws = WithQueue(j)
      OBVIOUS
    <2>2. ws \in Seq(Seq(Nat)) /\ n \in 1 .. Len(ws) /\ ws[n] \in Seq(Nat)
      BY <2>1, QueueFound
    <2>3. n \in Nat /\ n # 0
      BY <2>2
    <2> QED
      BY <2>1, <2>2, <2>3, Zenon
  <1>3. /\ listening[l] = 0 /\ closed[l] = None
        /\ queues'[j] = q /\ content'[j] = WithQueue(j)
        /\ \A k \in Jobs : k # j => queues'[k] = queues[k] /\ content'[k] = content[k]
        /\ listening'[l] = q
        /\ \A m \in Listeners : m # l => listening[m] = 0
        /\ UNCHANGED <<emitted, heard, closed>>
    BY <1>1, <1>2, SubscribeTyped
  <1>4. heard[l] = <<>>
    BY <1>3 DEF BusInv
  <1>5. Latest(j, q, w)
    <2>1. CASE queues[j] = 0
      BY <1>2, <2>1, NewQueue, QueueFound
    <2>2. CASE queues[j] # 0
      <3>1. q = queues[j] /\ w = content[j][q] /\ ~ Heard(j)
        BY <1>2, <1>3, <2>2, QueueFound DEF Heard
      <3> QED
        BY <2>2, <3>1 DEF StreamInv
    <2> QED
      BY <2>1, <2>2
  <1>6. Latest(job_id[l], listening[l], heard[l] \o Waiting(l))'
    <2>1. heard'[l] \o Waiting(l)' = w
      <3>1. Waiting(l)' = w /\ heard'[l] = <<>>
        BY <1>1, <1>2, <1>3, <1>4 DEF Waiting
      <3> QED
        BY <3>1, NothingBefore
    <2> QED
      BY <1>1, <1>3, <1>5, <2>1 DEF Latest
  <1>7. ASSUME NEW k \in Jobs, queues'[k] # 0, ~ Heard(k)'
        PROVE  Latest(k, queues[k], content[k][queues[k]])'
    <2>1. k # j
      BY <1>1, <1>2, <1>3, <1>7 DEF Heard
    <2>2. ~ Heard(k)
      BY <1>3 DEF Heard
    <2> QED
      BY <1>3, <1>7, <2>1, <2>2 DEF StreamInv, Latest
  <1> QED
    BY <1>1, <1>3, <1>6, <1>7 DEF StreamInv

(* Where the only listener of a queue ends, the queue is gone. *)
LEMMA ClosedStream ==
  ASSUME BusInv, StreamInv, NEW l \in Listeners, listening[l] # 0,
         NEW why \in {"told", "timeout", "left"}, Close(l, why), emitted' = emitted,
         \A k \in Jobs : k # job_id[l] => content'[k] = content[k]
  PROVE  StreamInv'
  <1>1. /\ queues'[job_id[l]] = 0 /\ listening'[l] = 0
        /\ \A k \in Jobs : k # job_id[l] => queues'[k] = queues[k]
        /\ \A m \in Listeners : m # l => listening'[m] = listening[m]
    BY ClosedTyped
  <1>2. \A m \in Listeners : m # l => listening[m] = 0
    BY DEF StreamInv
  <1>3. \A m \in Listeners : listening'[m] = 0
    BY <1>1, <1>2
  <1>4. ASSUME NEW k \in Jobs, queues'[k] # 0
        PROVE  Latest(k, queues[k], content[k][queues[k]])'
    <2>1. k # job_id[l]
      BY <1>1, <1>4
    <2>2. ~ Heard(k)
      BY <1>2, <2>1 DEF Heard
    <2> QED
      BY <1>1, <1>4, <2>1, <2>2 DEF StreamInv, Latest
  <1> QED
    BY <1>3, <1>4 DEF StreamInv

LEMMA ReceiveStream ==
  ASSUME BusInv, StreamInv, NEW l \in Listeners, Receive(l)
  PROVE  StreamInv'
  <1>1. PICK j \in Jobs : j = job_id[l]
    BY BusAssumptions
  <1>2. /\ listening[l] # 0 /\ emitted' = emitted
        /\ \A k \in Jobs : k # j => content'[k] = content[k]
    BY <1>1, ReceivedTyped DEF Receive
  <1>3. CASE Close(l, "told")
    BY <1>1, <1>2, <1>3, ClosedStream
  <1>4. CASE UNCHANGED <<queues, listening, closed>>
    <2>1. PICK h \in Seq(Nat), w \in Seq(Nat) : h = heard[l] /\ w = Waiting(l) /\ w # <<>>
      BY ReceivedTyped DEF BusInv, BusTypeOK
    <2>2. heard'[l] \o Waiting(l)' = h \o w
      <3>1. Waiting(l)' = Tail(w) /\ heard'[l] = Append(h, Head(w))
        BY <1>1, <1>4, <2>1, ReceivedTyped DEF Waiting
      <3>2. Append(h, Head(w)) \o Tail(w) = h \o w
        BY <2>1, HeadMoves
      <3> QED
        BY <3>1, <3>2, Zenon
    <2>3. Latest(job_id[l], listening[l], heard[l] \o Waiting(l))'
      <3>1. Latest(job_id[l], listening[l], h \o w)
        BY <1>2, <2>1 DEF StreamInv
      <3> QED
        BY <1>2, <1>4, <2>2, <3>1 DEF Latest
    <2>4. \A m \in Listeners : m # l => listening[m] = 0
      BY <1>2 DEF StreamInv
    <2>5. ASSUME NEW k \in Jobs, queues'[k] # 0, ~ Heard(k)'
          PROVE  Latest(k, queues[k], content[k][queues[k]])'
      <3>1. ~ Heard(k)
        BY <1>4, <2>5 DEF Heard
      <3>2. k # j
        BY <1>1, <1>2, <3>1 DEF Heard
      <3> QED
        BY <1>2, <1>4, <2>5, <3>1, <3>2 DEF StreamInv, Latest
    <2>6. listening'[l] = queues'[job_id[l]]
      BY <1>2, <1>4 DEF StreamInv
    <2> QED
      BY <1>4, <2>3, <2>4, <2>5, <2>6 DEF StreamInv
  <1> QED
    BY <1>3, <1>4, ReceivedTyped

LEMMA KillStream ==
  ASSUME BusInv, StreamInv, NEW j \in Jobs, Kill(j)
  PROVE  StreamInv'
  <1>1. /\ queues'[j] = 0 /\ \A k \in Jobs : k # j => queues'[k] = queues[k]
        /\ \A m \in Listeners : listening'[m] = IF job_id[m] = j THEN 0 ELSE listening[m]
        /\ UNCHANGED <<emitted, content, heard>>
    BY KillTyped
  <1>2. ASSUME NEW l \in Listeners, listening'[l] # 0
        PROVE  /\ listening'[l] = queues'[job_id[l]]
               /\ Latest(job_id[l], listening[l], heard[l] \o Waiting(l))'
    <2>1. job_id[l] # j /\ listening'[l] = listening[l] /\ job_id[l] \in Jobs
      BY <1>1, <1>2, BusAssumptions
    <2> QED
      BY <1>1, <1>2, <2>1 DEF StreamInv, Latest, Waiting
  <1>3. ASSUME NEW k \in Jobs, queues'[k] # 0, ~ Heard(k)'
        PROVE  Latest(k, queues[k], content[k][queues[k]])'
    <2>1. k # j
      BY <1>1, <1>3
    <2>2. ~ Heard(k)
      BY <1>1, <1>3, <2>1 DEF Heard
    <2> QED
      BY <1>1, <1>3, <2>1, <2>2 DEF StreamInv, Latest
  <1>4. \A l, m \in Listeners : listening'[l] # 0 /\ listening'[m] # 0 => l = m
    BY <1>1 DEF StreamInv
  <1> QED
    BY <1>2, <1>3, <1>4 DEF StreamInv

LEMMA StreamStep ==
  ASSUME BusInv, StreamInv, OnBus,
         \E l \in Listeners : \A m \in Listeners \ {l} : listening'[m] = 0
  PROVE  StreamInv'
  <1>1. CASE UNCHANGED bus
    BY <1>1 DEF bus, StreamInv, Latest, Heard, Waiting
  <1>2. CASE \E j \in Jobs, types \in Seq(Events) : Emit(j, types)
    BY <1>2, EmitStream
  <1>3. ASSUME NEW l \in Listeners, Subscribe(l)
        PROVE  StreamInv'
    <2>1. listening'[l] # 0
      <3>1. PICK j \in Jobs : j = job_id[l]
        BY BusAssumptions
      <3> QED
        BY <1>3, <3>1, SubscribeTyped, QueueFound
    <2>2. \A m \in Listeners : m # l => listening'[m] = 0
      BY <2>1
    <2> QED
      BY <1>3, <2>2, SubscribeStream
  <1>4. ASSUME NEW l \in Listeners, TimeOut(l) \/ Leave(l)
        PROVE  StreamInv'
    <2>1. PICK why \in {"told", "timeout", "left"} :
            Close(l, why) /\ listening[l] # 0 /\ UNCHANGED <<emitted, content, heard>>
      BY <1>4 DEF TimeOut, Leave
    <2> QED
      BY <2>1, ClosedStream
  <1>5. CASE \E l \in Listeners : Receive(l)
    BY <1>5, ReceiveStream
  <1>6. CASE \E j \in Jobs : Kill(j)
    BY <1>6, KillStream
  <1> QED
    BY <1>1, <1>2, <1>3, <1>4, <1>5, <1>6 DEF OnBus

LEMMA AloneStart == MCInit => AloneInv
  <1> SUFFICES ASSUME MCInit
               PROVE  AloneInv
    OBVIOUS
  <1>1. /\ emitted = [j \in Jobs |-> <<>>] /\ queues = [j \in Jobs |-> 0]
        /\ content = [j \in Jobs |-> <<>>] /\ listening = [l \in Listeners |-> 0]
        /\ heard = [l \in Listeners |-> <<>>] /\ closed \in [Listeners -> {None, "left"}]
    BY DEF MCInit, Init, BusInit
  <1>2. BusTypeOK
    <2>1. emitted \in [Jobs -> Seq(Events)]
      BY <1>1, StageTypes
    <2>2. content \in [Jobs -> Seq(Seq(Nat))]
      <3> DEFINE Q == Seq(Nat)
      <3> HIDE DEF Q
      <3>1. content \in [Jobs -> Seq(Q)]
        BY <1>1
      <3> QED
        BY <3>1 DEF Q
    <2>3. heard \in [Listeners -> Seq(Nat)]
      BY <1>1
    <2> QED
      BY <1>1, <2>1, <2>2, <2>3 DEF BusTypeOK
  <1>3. BusInv
    <2>1. \A j \in Jobs : Len(content[j]) = 0 /\ queues[j] = 0 /\ emitted[j] = <<>>
      BY <1>1
    <2>2. \A l \in Listeners : /\ job_id[l] \in Jobs /\ listening[l] = 0 /\ heard[l] = <<>>
      BY <1>1, BusAssumptions
    <2> QED
      BY <1>2, <2>1, <2>2 DEF BusInv
  <1>4. StreamInv
    BY <1>1 DEF StreamInv
  <1> QED
    BY <1>3, <1>4 DEF AloneInv

(* While one listener listens at a time, its stream holds every event from *)
(* the one it began with, in order and once, and the first stream of a job *)
(* begins with the job's first event, whenever the listener comes, goes,   *)
(* times out, or the process is killed.                                    *)
THEOREM NothingLost == MCSpec => []NothingLostAlone
  <1>1. AloneInv /\ [MCNext]_<<vars, alone>> => AloneInv'
    <2> SUFFICES ASSUME AloneInv, [MCNext]_<<vars, alone>>
                 PROVE  AloneInv'
      OBVIOUS
    <2>1. [Next]_vars
      BY DEF MCNext
    <2>2. BusInv' /\ OnBus
      BY <2>1, StepOnBus, BusStep DEF AloneInv
    <2>3. ASSUME alone'
          PROVE  StreamInv'
      <3>1. CASE UNCHANGED <<vars, alone>>
        BY <2>3, <3>1 DEF AloneInv, vars, bus, StreamInv, Latest, Heard, Waiting
      <3>2. CASE MCNext
        <4>1. alone /\ \E l \in Listeners : \A m \in Listeners \ {l} : listening'[m] = 0
          BY <2>3, <3>2 DEF MCNext
        <4> QED
          BY <2>2, <4>1, StreamStep DEF AloneInv
      <3> QED
        BY <3>1, <3>2
    <2> QED
      BY <2>2, <2>3 DEF AloneInv
  <1>2. AloneInv => NothingLostAlone
    <2> SUFFICES ASSUME AloneInv, alone, NEW l \in Listeners, listening[l] # 0
                 PROVE  LET got == heard[l] \o Waiting(l)
                            skipped == Len(emitted[job_id[l]]) - Len(got)
                        IN  /\ got = [i \in 1 .. Len(got) |-> skipped + i]
                            /\ listening[l] = 1 => skipped = 0
      BY DEF NothingLostAlone
    <2>1. PICK j \in Jobs : j = job_id[l]
      BY BusAssumptions
    <2>2. heard[l] \in Seq(Nat) /\ Waiting(l) \in Seq(Nat) /\ Len(emitted[j]) \in Nat
      <3> DEFINE Q == Seq(Nat)
      <3>1. /\ content[j] \in Seq(Q) /\ listening[l] \in Nat /\ listening[l] # 0
            /\ listening[l] <= Len(content[j])
        BY <2>1 DEF AloneInv, BusInv, BusTypeOK
      <3> HIDE DEF Q
      <3>2. content[j][listening[l]] \in Q
        BY <3>1
      <3> QED
        BY <2>1, <3>2 DEF AloneInv, BusInv, BusTypeOK, Waiting, Q
    <2>3. PICK got \in Seq(Nat) : got = heard[l] \o Waiting(l)
      BY <2>2, Concatenated
    <2>4. Latest(j, listening[l], got)
      BY <2>1, <2>3 DEF AloneInv, StreamInv
    <2>5. PICK e \in Nat, n \in Nat : e = Len(emitted[j]) /\ n = Len(got)
      BY <2>2, <2>3
    <2>6. \A i \in 1 .. n : got[i] = (e - n) + i
      BY <2>4, <2>5 DEF Latest, EndsAt
    <2>7. got = [i \in 1 .. n |-> (e - n) + i]
      BY <2>5, <2>6
    <2>8. listening[l] = 1 => e - n = 0
      BY <2>4, <2>5 DEF Latest
    <2> QED
      BY <2>1, <2>3, <2>5, <2>7, <2>8
  <1> QED
    BY <1>1, <1>2, AloneStart, PTL DEF MCSpec
=============================================================================
