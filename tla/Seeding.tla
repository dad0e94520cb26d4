------------------------------ MODULE Seeding ------------------------------
(***************************************************************************)
(* How a process comes up (backend/v1_container.py): the first request     *)
(* builds the container and walks the reference bundle through the real    *)
(* publish gate of BundleLifecycle, case by case and call by call, over    *)
(* stores it shares with every other process.  A process may stop between  *)
(* any two calls and come up again; one that fails to come up tries again  *)
(* at the next request.  Meanwhile the owner, through a process that is    *)
(* up, promotes cases, replays and publishes a bundle of their own.        *)
(*                                                                         *)
(* One company and Postgres.  What is in a case is left out: bad says      *)
(* which cases the reference bundle does not decide as expected.           *)
(***************************************************************************)
EXTENDS BundleLifecycle

CONSTANTS
  Owner,            \* the owner's request handler
  Seed, Own,        \* contents: the reference bundle and the owner's
  Cases,            \* case ids
  build_golden_cases, \* per process, the cases its release ships, in order
  OwnerRuns,        \* bound: the owner replays while there are fewer runs
  MaxStops          \* bound: how often processes stop

Processes == Threads \ {Owner}

ASSUME SeedingAssumptions ==
  /\ Owner \in Threads
  /\ {Seed, Own} \subseteq Hashes /\ Seed # Own
  /\ \A p \in Processes : build_golden_cases[p] \in Seq(Cases)

VARIABLES
  stage,    \* how far each process has come up
  added,    \* how many of its cases it has added
  draft,    \* the record it got from save_draft
  listed,   \* the cases it read for its replay
  run,      \* its replay run
  cases,    \* the case store
  scored,   \* per run, the cases it evaluated
  bad,      \* the cases the reference bundle fails or cannot evaluate
  stops

seeding == <<stage, added, draft, listed, run, stops>>
stored == <<cases, scored>>
seedVars == <<vars, seeding, stored, bad>>

Shipped(p) == {build_golden_cases[p][i] : i \in DOMAIN build_golden_cases[p]}

SeedingInit ==
  /\ Init
  /\ stage = [p \in Processes |-> "down"]
  /\ added = [p \in Processes |-> 0]
  /\ draft = [p \in Processes |-> None]
  /\ listed = [p \in Processes |-> {}]
  /\ run = [p \in Processes |-> None]
  /\ cases = {}
  /\ scored = <<>>
  /\ bad \in SUBSET Cases
  /\ stops = 0

-----------------------------------------------------------------------------
(* _seed_reference_bundle, one store call at a time. *)

Enter(p, from, to) ==
  /\ stage[p] = from
  /\ stage' = [stage EXCEPT ![p] = to]

(* The registers go with the call; where it ends, the container is there   *)
(* ("up") or is not, and the next request builds it anew ("down").         *)
Leave(p, from, to) ==
  /\ Enter(p, from, to)
  /\ added' = [added EXCEPT ![p] = 0]
  /\ draft' = [draft EXCEPT ![p] = None]
  /\ listed' = [listed EXCEPT ![p] = {}]
  /\ run' = [run EXCEPT ![p] = None]
  /\ UNCHANGED stops

(* Mutant of Start: a process that finds a bundle active is done. *)
StartUnlessActive(p) ==
  /\ Enter(p, "down", IF active = None THEN "cases" ELSE "up")
  /\ UNCHANGED <<vars, added, draft, listed, run, stops, stored, bad>>

(* A request, and get_container under the process's lock. *)
Start(p) ==
  /\ Enter(p, "down", "cases")
  /\ Len(runs) < MaxRuns
  /\ UNCHANGED <<vars, added, draft, listed, run, stops, stored, bad>>

(* A case already there is passed over: ValueError. *)
AddCase(p) ==
  /\ stage[p] = "cases"
  /\ added[p] < Len(build_golden_cases[p])
  /\ cases' = cases \cup {build_golden_cases[p][added[p] + 1]}
  /\ added' = [added EXCEPT ![p] = @ + 1]
  /\ UNCHANGED <<vars, stage, draft, listed, run, stops, scored, bad>>

(* Mutant of FoundActive: a bundle that is not the reference is replaced. *)
FoundSeedActive(p) ==
  /\ added[p] = Len(build_golden_cases[p])
  /\ active # None /\ active.content_hash = Seed
  /\ Leave(p, "cases", "up")
  /\ UNCHANGED <<vars, stored, bad>>

FoundActive(p) ==
  /\ added[p] = Len(build_golden_cases[p])
  /\ active # None
  /\ Leave(p, "cases", "up")
  /\ UNCHANGED <<vars, stored, bad>>

(* Mutant of FoundNone, with FoundSeedActive. *)
FoundNoSeed(p) ==
  /\ added[p] = Len(build_golden_cases[p])
  /\ active # None => active.content_hash # Seed
  /\ Enter(p, "cases", "save")
  /\ UNCHANGED <<vars, added, draft, listed, run, stops, stored, bad>>

FoundNone(p) ==
  /\ added[p] = Len(build_golden_cases[p])
  /\ active = None
  /\ Enter(p, "cases", "save")
  /\ UNCHANGED <<vars, added, draft, listed, run, stops, stored, bad>>

(* Mutant of SeedDraftKnown: saving what is registered already is refused. *)
SeedDraftKnownRefused(p) ==
  /\ by_hash(Seed) # {}
  /\ pc[p] = "idle"
  /\ Leave(p, "save", "down")
  /\ UNCHANGED <<vars, stored, bad>>

(* save_draft: a record of the content is there already, be it a draft, or *)
(* the published record of a start that stopped before set_active.         *)
SeedDraftKnown(p) ==
  /\ pc[p] = "idle"
  /\ Enter(p, "save", "list")
  /\ \E r \in by_hash(Seed) : draft' = [draft EXCEPT ![p] = r]
  /\ UNCHANGED <<vars, added, listed, run, stops, stored, bad>>

(* uuid4: any fresh identifier is as good as another. *)
NewIds == {r \in FreshIds : r = CHOOSE i \in FreshIds : TRUE}

SaveSeedDraft(p) ==
  /\ stage[p] = "save"
  /\ \E r \in NewIds : SaveDraft(p, r, Seed)
  /\ UNCHANGED <<seeding, stored, bad>>

AddSeedDraft(p) ==
  /\ AddDraft(p)
  /\ Enter(p, "save", "list")
  /\ draft' = [draft EXCEPT ![p] = record[p].record_id]
  /\ UNCHANGED <<added, listed, run, stops, stored, bad>>

(* Another process has registered it in between. *)
SeedDraftRefused(p) ==
  /\ AddRefused(p)
  /\ Leave(p, "save", "down")
  /\ UNCHANGED <<stored, bad>>

ListCases(p) ==
  /\ Enter(p, "list", "replay")
  /\ listed' = [listed EXCEPT ![p] = cases]
  /\ UNCHANGED <<vars, added, draft, run, stops, stored, bad>>

(* ReplayEngine.run scores the cases it was given and stores the run. *)
Score(r, evaluated) ==
  /\ Replay(r)
  /\ scored' = Append(scored, evaluated)
  /\ UNCHANGED <<cases, bad>>

ReplaySeed(p) ==
  /\ Enter(p, "replay", "check")
  /\ Score(draft[p], listed[p])
  /\ run' = [run EXCEPT ![p] = Len(runs')]
  /\ UNCHANGED <<added, draft, listed, stops>>

(* golden_failed or errors: RuntimeError, refusing to publish. *)
SeedFails(p) ==
  /\ Leave(p, "check", "down")
  /\ scored[run[p]] \cap bad # {}
  /\ UNCHANGED <<vars, stored, bad>>

(* Mutant of AcknowledgeSeed: the summary is not looked at. *)
AcknowledgeSeedAnyway(p) ==
  /\ Enter(p, "check", "publish")
  /\ Acknowledge(run[p])
  /\ UNCHANGED <<added, draft, listed, run, stops, cases, scored, bad>>

AcknowledgeSeed(p) ==
  /\ Enter(p, "check", "publish")
  /\ scored[run[p]] \cap bad = {}
  /\ Acknowledge(run[p])
  /\ UNCHANGED <<added, draft, listed, run, stops, cases, scored, bad>>

(* publish, step by step, until it returns: the container is there.        *)
(* PublishBlocked cannot be: the run just acknowledged opens the gate.     *)
PublishSeed(p) ==
  \/ /\ stage[p] = "publish"
     /\ \/ PublishGet(p, draft[p])
        \/ PublishActive(p)
        \/ PublishGated(p)
        \/ PublishUpdate(p)
        \/ PublishRetire(p)
     /\ UNCHANGED <<seeding, stored, bad>>
  \/ /\ PublishNoOp(p) \/ SetActive(p)
     /\ Leave(p, "publish", "up")
     /\ UNCHANGED <<stored, bad>>

Seeds(p) ==
  \/ Start(p) \/ AddCase(p) \/ FoundActive(p) \/ FoundNone(p)
  \/ SeedDraftKnown(p) \/ SaveSeedDraft(p) \/ AddSeedDraft(p)
  \/ SeedDraftRefused(p) \/ ListCases(p) \/ ReplaySeed(p)
  \/ SeedFails(p) \/ AcknowledgeSeed(p) \/ PublishSeed(p)

(* The process stops, wherever it is. *)
StopProcess(p) ==
  /\ stops < MaxStops
  /\ stage[p] # "down"
  /\ stage' = [stage EXCEPT ![p] = "down"]
  /\ added' = [added EXCEPT ![p] = 0]
  /\ draft' = [draft EXCEPT ![p] = None]
  /\ listed' = [listed EXCEPT ![p] = {}]
  /\ run' = [run EXCEPT ![p] = None]
  /\ stops' = stops + 1
  /\ pc' = [pc EXCEPT ![p] = "idle"]
  /\ record' = [record EXCEPT ![p] = None]
  /\ current' = [current EXCEPT ![p] = None]
  /\ UNCHANGED <<stores, stored, bad>>

-----------------------------------------------------------------------------
(* The owner, through a process that is up. *)

Up == {p \in Processes : stage[p] = "up"}

(* Container._promote_golden, at the end of an escalation. *)
Promote ==
  \E c \in Cases \ UNION {Shipped(p) : p \in Processes} :
    /\ cases' = cases \cup {c}
    /\ UNCHANGED <<vars, scored, bad>>

(* The owner works on content of their own. *)
OwnerReplays ==
  \E r \in by_hash(Own) : Len(runs) < OwnerRuns /\ Score(r, cases)

OwnerAcknowledges ==
  \E i \in runs_for(Own) :
    /\ Acknowledge(i)
    /\ UNCHANGED <<cases, scored, bad>>

OwnerPublishes ==
  /\ \/ \E r \in NewIds : SaveDraft(Owner, r, Own)
     \/ AddDraft(Owner)
     \/ \E r \in Ids : PublishGet(Owner, r)
     \/ PublishNoOp(Owner)
     \/ PublishActive(Owner)
     \/ PublishBlocked(Owner)
     \/ PublishGated(Owner)
     \/ PublishUpdate(Owner)
     \/ PublishRetire(Owner)
     \/ SetActive(Owner)
  /\ UNCHANGED <<stored, bad>>

OwnerActs ==
  /\ Up # {}
  /\ Promote \/ OwnerReplays \/ OwnerAcknowledges \/ OwnerPublishes
  /\ UNCHANGED seeding

SeedingNext ==
  \/ \E p \in Processes : Seeds(p) \/ StopProcess(p)
  \/ OwnerActs

SeedingSpec == SeedingInit /\ [][SeedingNext]_seedVars

-----------------------------------------------------------------------------
(* Properties. *)

(* What a replay of the reference bundle evaluated was all that some       *)
(* release ships, and nothing that fails.                                  *)
Clean(evaluated) ==
  /\ \E p \in Processes : Shipped(p) \subseteq evaluated
  /\ evaluated \cap bad = {}

(* SEEDED THROUGH THE REAL GATE (v1_container.py:8-11): while the          *)
(* reference bundle is live, the replay it was published on evaluated      *)
(* every case some release ships, and not one of the evaluated cases       *)
(* failed, whichever processes raced or stopped between replay,            *)
(* acknowledge and publish.                                                *)
SeededClean ==
  (active # None /\ active.content_hash = Seed) => Clean(scored[active.replay_run_id])

(* A process that is up has a bundle to decide with, and its company's     *)
(* corpus holds every case its release ships, even when another release    *)
(* published the bundle earlier.                                           *)
UpIsComplete ==
  \A p \in Up : active # None /\ Shipped(p) \subseteq cases

(* More than one process is coming up. *)
ComingUp == {p \in Processes : stage[p] \notin {"down", "up"}}

Crowd == \E p, q \in ComingUp : p # q

(* NEVER RE-PUBLISH (v1_container.py:139-146): a process coming up never   *)
(* replaces a bundle that is live.                                         *)
NoReplacement == active_id # None /\ active_id' # active_id => stage' = stage

(* Where the reference bundle passes the cases that come with it, every    *)
(* process comes up, and after the last stop stays up, whatever record,    *)
(* replay or half-made publish an earlier start has left.                  *)
Passes == \A p \in Processes : Shipped(p) \cap bad = {}

ComesUp == Passes => \A p \in Processes : <>[](stage[p] = "up")

(***************************************************************************)
(* The inductive invariant: what each process relies on where it is, and   *)
(* that nobody acknowledges a replay of the reference bundle but a process *)
(* that found it clean.                                                    *)
(***************************************************************************)
SeedingTypeOK ==
  /\ stage \in [Processes -> {"down", "cases", "save", "list", "replay", "check",
                              "publish", "up"}]
  /\ added \in [Processes -> Nat]
  /\ draft \in [Processes -> RecordIds \cup {None}]
  /\ listed \in [Processes -> SUBSET Cases]
  /\ run \in [Processes -> Nat \cup {None}]
  /\ cases \subseteq Cases
  /\ scored \in Seq(SUBSET Cases)
  /\ Len(scored) = Len(runs)

(* A process that found no bundle is past its cases and not up. *)
SeedStages == {"save", "list", "replay", "check", "publish"}

ProcessInv(p) ==
  /\ stage[p] = "down" => added[p] = 0
  /\ stage[p] = "cases" =>
       /\ added[p] <= Len(build_golden_cases[p])
       /\ \A i \in 1 .. added[p] : build_golden_cases[p][i] \in cases
  /\ stage[p] \in SeedStages \cup {"up"} => Shipped(p) \subseteq cases
  /\ stage[p] \in SeedStages \ {"save"} => draft[p] \in by_hash(Seed)
  /\ stage[p] = "replay" => Shipped(p) \subseteq listed[p]
  /\ stage[p] = "check" =>
       run[p] \in runs_for(Seed) /\ Shipped(p) \subseteq scored[run[p]]
  /\ stage[p] = "up" => active_id # None
  /\ pc[p] = "add" => record[p].content_hash = Seed

SeedingInv ==
  /\ LifecycleInv
  /\ SeedingTypeOK
  /\ \A p \in Processes : ProcessInv(p)
  /\ \A i \in DOMAIN runs : Gates(i, Seed) => Clean(scored[i])
=============================================================================
