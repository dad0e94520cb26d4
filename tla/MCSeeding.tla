----------------------------- MODULE MCSeeding -----------------------------
(* Two processes, the second of a release that ships one more case, and    *)
(* the owner.                                                              *)
EXTENDS Seeding, FiniteSets, TLC

CONSTANTS p1, p2, o, c1, c2, c3

MCCases == p1 :> <<c1>> @@ p2 :> <<c1, c2>>

VARIABLE oneByOne  \* no two processes have come up at the same time

mcVars == <<seedVars, oneByOne>>

(* At most one case fails: the newer one or one the owner promotes. *)
MCInit ==
  /\ SeedingInit
  /\ c1 \notin bad
  /\ Cardinality(bad) <= 1
  /\ oneByOne = TRUE

MCNext == SeedingNext /\ oneByOne' = (oneByOne /\ ~ Crowd')

(* Requests keep coming, and a process that is coming up goes on. *)
MCSpec ==
  /\ MCInit
  /\ [][MCNext]_mcVars
  /\ \A p \in Processes : WF_mcVars(Seeds(p) /\ oneByOne' = (oneByOne /\ ~ Crowd'))

(* Where processes come up one after another, the owner's choice stays. *)
LiveBundleKept == [][oneByOne => NoReplacement]_mcVars

(* Why it stays: a process that is on its way to publish found no bundle,  *)
(* and none of the others was up.                                          *)
OneByOneInv ==
  oneByOne => /\ ~ Crowd
              /\ \A p \in Processes : stage[p] \in SeedStages => active_id = None
=============================================================================
