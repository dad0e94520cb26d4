----------------------------- MODULE BrainStore -----------------------------
(***************************************************************************)
(* What the legacy compile stores of one company (backend/schema.sql) and  *)
(* write_brain (backend/engine/nodes/write_brain.py) changes, one call of  *)
(* the database each: there is no transaction around them.                 *)
(***************************************************************************)
EXTENDS Naturals, Sequences

CONSTANT Jobs   \* compile jobs; each stores at most one skills file

VARIABLES
  files,     \* skills_files: the jobs whose file was inserted, in order
  current,   \* the jobs whose file has is_current
  rows,      \* what refers to a job's file: "skills", "entities", "edges"; and "drafts"
  recorded,  \* compile_runs: the jobs whose run somebody inserted before they began
  runs       \* per job, None, or the warnings its completed run carries

StoreInit(None) ==
  /\ files = <<>>
  /\ current = {}
  /\ rows = [j \in Jobs |-> {}]
  /\ recorded \in SUBSET Jobs
  /\ runs = [j \in Jobs |-> None]

UnsetCurrent ==
  /\ current' = {}
  /\ UNCHANGED <<files, rows, recorded, runs>>

(* Mutant of CurrentTaken: the index idx_skills_files_current is missing.  *)
NeverTaken == FALSE

(* idx_skills_files_current: a company has one current file.               *)
CurrentTaken == current # {}

InsertFile(j) ==
  /\ files' = Append(files, j)
  /\ current' = current \cup {j}
  /\ UNCHANGED <<rows, recorded, runs>>

InsertRows(j, kind) ==
  /\ rows' = [rows EXCEPT ![j] = @ \cup {kind}]
  /\ UNCHANGED <<files, current, recorded, runs>>

(* An update: where no run was recorded it matches no row, changes nothing *)
(* and succeeds all the same.  No table refers to compile_runs, so the     *)
(* rows above go in without one.                                           *)
CompleteRun(j, warnings) ==
  /\ runs' = IF j \in recorded THEN [runs EXCEPT ![j] = warnings] ELSE runs
  /\ UNCHANGED <<files, current, rows, recorded>>

(* get_current_brain (core/db/supabase.py) reads the current file,         *)
(* _load_db (runtime/brain_agent.py) the latest.                           *)
get_current_brain == current

_load_db == IF files = <<>> THEN {} ELSE {files[Len(files)]}
=============================================================================
