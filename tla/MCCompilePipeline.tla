------------------------- MODULE MCCompilePipeline -------------------------
(***************************************************************************)
(* Two compiles of one company that nobody listens to, or one compile with *)
(* two listeners.                                                          *)
(***************************************************************************)
EXTENDS CompilePipeline

VARIABLE alone   \* ghost: no two listeners of the job listened at once

MCJobs == {"j1", "j2"}
MCListeners == {"l1", "l2"}
MCjob_id == [l \in MCListeners |-> "j2"]

MCInit ==
  /\ Init
  /\ \/ /\ pc = [j \in MCJobs |-> "load"]
        /\ closed = [l \in MCListeners |-> "left"]
        /\ sources["j1"] \in {None, {"decisions", "entities"}, {"workflows"},
                                {"exceptions"}, {"contradictions"}}
        /\ sources["j2"] = {}
        /\ recorded \in {{"j1"}, {"j2"}}
     \/ /\ pc = [j1 |-> "killed", j2 |-> "load"]
        /\ closed = [l \in MCListeners |-> None]
        /\ sources["j1"] = None /\ sources["j2"] \in {None, {}}
        /\ recorded = {}
  /\ alone = TRUE

(* The listeners are alike: l1 is the one that begins first. *)
InOrder == listening'["l2"] # 0 => listening["l1"] # 0 \/ closed["l1"] # None

MCNext ==
  /\ Next
  /\ InOrder
  /\ alone' = (alone /\ \E l \in Listeners : \A m \in Listeners \ {l} : listening'[m] = 0)

MCSpec == MCInit /\ [][MCNext]_<<vars, alone>> /\ Fairness

(* While one listener listens at a time, it hears every event from the one *)
(* it began with, in order, or it waits in its queue; the first listener   *)
(* begins with the job's first event (event_generator, emit_event).        *)
NothingLostAlone ==
  alone =>
    \A l \in Listeners : listening[l] # 0 =>
      LET got == heard[l] \o Waiting(l)
          skipped == Len(emitted[job_id[l]]) - Len(got)
      IN  /\ got = [i \in 1..Len(got) |-> skipped + i]
          /\ listening[l] = 1 => skipped = 0

(***************************************************************************)
(* The inductive invariant: a job's queue, with what its one listener has  *)
(* heard before, holds its events up to the last one.                      *)
(***************************************************************************)
BusTypeOK ==
  /\ emitted \in [Jobs -> Seq(Events)]
  /\ queues \in [Jobs -> Nat]
  /\ content \in [Jobs -> Seq(Seq(Nat))]
  /\ listening \in [Listeners -> Nat]
  /\ heard \in [Listeners -> Seq(Nat)]
  /\ closed \in [Listeners -> {None, "told", "timeout", "left", "killed"}]

(* Queues exist, the first one since the job's first event; a listener has *)
(* heard nothing before it begins, and begins once.                        *)
BusInv ==
  /\ BusTypeOK
  /\ \A j \in Jobs : /\ queues[j] <= Len(content[j])
                     /\ content[j] = <<>> => emitted[j] = <<>>
  /\ \A l \in Listeners :
       /\ listening[l] <= Len(content[job_id[l]])
       /\ listening[l] = 0 /\ closed[l] = None => heard[l] = <<>>

(* The last events of n, numbered on. *)
EndsAt(events, n) ==
  /\ Len(events) <= n
  /\ \A i \in 1..Len(events) : events[i] = (n - Len(events)) + i

Latest(j, q, events) ==
  /\ EndsAt(events, Len(emitted[j]))
  /\ q = 1 => Len(events) = Len(emitted[j])

Heard(j) == \E l \in Listeners : job_id[l] = j /\ listening[l] # 0

StreamInv ==
  /\ \A l, m \in Listeners : listening[l] # 0 /\ listening[m] # 0 => l = m
  /\ \A l \in Listeners :
       listening[l] # 0 => /\ listening[l] = queues[job_id[l]]
                           /\ Latest(job_id[l], listening[l], heard[l] \o Waiting(l))
  /\ \A j \in Jobs :
       queues[j] # 0 /\ ~Heard(j) => Latest(j, queues[j], content[j][queues[j]])

AloneInv == BusInv /\ (alone => StreamInv)
=============================================================================
