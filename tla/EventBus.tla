------------------------------ MODULE EventBus ------------------------------
(***************************************************************************)
(* CompilationEventBus (backend/core/sse.py): a queue of events per job,   *)
(* made by whoever asks for it first, job or listener, and deleted by the  *)
(* listener that ends.  A queue is kept here after it was deleted, since a *)
(* second listener may still wait on it.  Events are numbered in the order *)
(* in which their job emitted them.                                        *)
(***************************************************************************)
EXTENDS Naturals, Sequences

CONSTANTS
  Jobs,       \* compile jobs
  Listeners,  \* calls of event_generator
  job_id,     \* the job each listener asks for
  None

ASSUME BusAssumptions ==
  /\ job_id \in [Listeners -> Jobs]
  /\ None \notin {"told", "timeout", "left", "killed"}

VARIABLES
  emitted,    \* per job, the types of its events
  queues,     \* per job, the number of its queue, 0 where it has none
  content,    \* per job and queue, the events that wait in it
  listening,  \* the queue each listener holds, 0 before and after
  heard,      \* the events each listener was sent
  closed      \* why it ended: "told", "timeout", "left" or "killed"

bus == <<emitted, queues, content, listening, heard, closed>>

BusInit ==
  /\ emitted = [j \in Jobs |-> <<>>]
  /\ queues = [j \in Jobs |-> 0]
  /\ content = [j \in Jobs |-> <<>>]
  /\ listening = [l \in Listeners |-> 0]
  /\ heard = [l \in Listeners |-> <<>>]
  /\ closed \in [Listeners -> {None, "left"}]   \* left: before it listens

(* get_queue: the queue the bus has for the job, or a new one. *)
get_queue(j) == IF queues[j] = 0 THEN Len(content[j]) + 1 ELSE queues[j]

WithQueue(j) == IF queues[j] = 0 THEN Append(content[j], <<>>) ELSE content[j]

(* A stretch of a job that nothing interrupts emits its events at once: to *)
(* put on a queue without a bound does not wait.                           *)
Emit(j, types) ==
  LET numbers == [i \in DOMAIN types |-> Len(emitted[j]) + i]
  IN  /\ emitted' = [emitted EXCEPT ![j] = @ \o types]
      /\ queues' = [queues EXCEPT ![j] = get_queue(j)]
      /\ content' = [content EXCEPT ![j] = [WithQueue(j) EXCEPT ![get_queue(j)] = @ \o numbers]]
      /\ UNCHANGED <<listening, heard, closed>>

Subscribe(l) ==
  LET j == job_id[l]
  IN  /\ listening[l] = 0 /\ closed[l] = None
      /\ queues' = [queues EXCEPT ![j] = get_queue(j)]
      /\ content' = [content EXCEPT ![j] = WithQueue(j)]
      /\ listening' = [listening EXCEPT ![l] = get_queue(j)]
      /\ UNCHANGED <<emitted, heard, closed>>

Terminal == {"pipeline_complete", "pipeline_error"}

(* finally: the job's queue is deleted, whichever queue it is by now. *)
Close(l, why) ==
  /\ queues' = [queues EXCEPT ![job_id[l]] = 0]
  /\ listening' = [listening EXCEPT ![l] = 0]
  /\ closed' = [closed EXCEPT ![l] = why]

Waiting(l) == content[job_id[l]][listening[l]]

(* Mutant of Receive: what waited longer is dropped for the latest event. *)
ReceiveLatest(l) ==
  LET j == job_id[l]
      q == Waiting(l)
  IN  /\ listening[l] # 0 /\ q # <<>>
      /\ heard' = [heard EXCEPT ![l] = Append(@, q[Len(q)])]
      /\ content' = [content EXCEPT ![j][listening[l]] = <<>>]
      /\ UNCHANGED emitted
      /\ IF emitted[j][q[Len(q)]] \in Terminal
           THEN Close(l, "told")
           ELSE UNCHANGED <<queues, listening, closed>>

Receive(l) ==
  LET j == job_id[l]
      q == Waiting(l)
  IN  /\ listening[l] # 0 /\ q # <<>>
      /\ heard' = [heard EXCEPT ![l] = Append(@, Head(q))]
      /\ content' = [content EXCEPT ![j][listening[l]] = Tail(q)]
      /\ UNCHANGED emitted
      /\ IF emitted[j][Head(q)] \in Terminal
           THEN Close(l, "told")
           ELSE UNCHANGED <<queues, listening, closed>>

(* 300 seconds without an event. *)
TimeOut(l) ==
  /\ listening[l] # 0 /\ Waiting(l) = <<>>
  /\ Close(l, "timeout")
  /\ UNCHANGED <<emitted, content, heard>>

(* The client is gone. *)
Leave(l) ==
  /\ listening[l] # 0
  /\ Close(l, "left")
  /\ UNCHANGED <<emitted, content, heard>>
=============================================================================
