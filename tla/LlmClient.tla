----------------------------- MODULE LlmClient -----------------------------
(***************************************************************************)
(* llm_call (backend/core/llm.py): the callers of one process share a      *)
(* semaphore; a call holds its slot through all of its attempts and the    *)
(* sleeps between them.                                                    *)
(***************************************************************************)
EXTENDS Naturals, FiniteSets

CONSTANTS
  Processes,    \* one per compile job
  Callers,      \* the coroutines of a process that call
  Slots,        \* Semaphore(4)
  RateRetries,  \* 4: the last attempt that is retried after a rate limit
  Retries       \* 2: attempts that are retried after any error

VARIABLES
  phase,    \* "idle", "queued", "calling", "answered" or "raised"
  attempt

LlmInit ==
  /\ phase = [p \in Processes |-> [c \in Callers |-> "idle"]]
  /\ attempt = [p \in Processes |-> [c \in Callers |-> 0]]

(* The calls the coroutines of a process begin at once. *)
Ask(p, callers) ==
  /\ phase' = [phase EXCEPT ![p] = [c \in Callers |-> IF c \in callers THEN "queued" ELSE @[c]]]
  /\ attempt' = [attempt EXCEPT ![p] = [c \in Callers |-> IF c \in callers THEN 0 ELSE @[c]]]

(* What became of the call is read: the coroutine goes on. *)
Read(p, c, outcome) ==
  /\ phase[p][c] = outcome
  /\ phase' = [phase EXCEPT ![p][c] = "idle"]
  /\ attempt' = [attempt EXCEPT ![p][c] = 0]

(* The process, or its graph, ends with the calls it has. *)
HangUp(p) ==
  /\ phase' = [phase EXCEPT ![p] = [c \in Callers |-> "idle"]]
  /\ attempt' = [attempt EXCEPT ![p] = [c \in Callers |-> 0]]

Holding(p) == {c \in Callers : phase[p][c] = "calling"}

Acquire(p, c) ==
  /\ phase[p][c] = "queued"
  /\ Cardinality(Holding(p)) < Slots
  /\ phase' = [phase EXCEPT ![p][c] = "calling"]
  /\ UNCHANGED attempt

Answer(p, c) ==
  /\ phase[p][c] = "calling"
  /\ phase' = [phase EXCEPT ![p][c] = "answered"]
  /\ UNCHANGED attempt

(* Mutant of RetryOrRaise: the attempts begin again. *)
RetryForever(p, c, retried) ==
  /\ attempt' = [attempt EXCEPT ![p][c] = IF retried THEN @ + 1 ELSE 0]
  /\ UNCHANGED phase

RetryOrRaise(p, c, retried) ==
  IF retried
    THEN attempt' = [attempt EXCEPT ![p][c] = @ + 1] /\ UNCHANGED phase
    ELSE phase' = [phase EXCEPT ![p][c] = "raised"] /\ UNCHANGED attempt

(* A status of 413 or 429. *)
RateLimited(p, c) ==
  /\ phase[p][c] = "calling"
  /\ RetryOrRaise(p, c, attempt[p][c] < RateRetries \/ attempt[p][c] < Retries)

(* Any other error, a timeout of 120 seconds among them. *)
AttemptFails(p, c) ==
  /\ phase[p][c] = "calling"
  /\ RetryOrRaise(p, c, attempt[p][c] < Retries)
=============================================================================
