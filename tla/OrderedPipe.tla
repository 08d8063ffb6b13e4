---------------------------- MODULE OrderedPipe ----------------------------
(***************************************************************************)
(* What a user of StreamBuffer_t is promised, without threads, queues or   *)
(* buffers: the tasks cut from the stream are numbered in the order of the *)
(* stream, and what reaches the sink is the result of task 0, then of task *)
(* 1, and so on, each once.  WorkerHive implements this specification.     *)
(***************************************************************************)
EXTENDS Naturals, Sequences

VARIABLES
  submitted,   \* number of tasks handed over; the tasks are 0..submitted-1
  delivered    \* the tasks whose results the sink has received, in order

pipeVars == <<submitted, delivered>>

Init ==
  /\ submitted = 0
  /\ delivered = <<>>

(* A flush of the stream cuts the buffered bytes into one or more tasks.   *)
Submit ==
  /\ submitted' \in Nat
  /\ submitted' > submitted
  /\ UNCHANGED delivered

(* The sink receives the result of the oldest task it has not yet got.     *)
Deliver ==
  /\ Len(delivered) < submitted
  /\ delivered' = Append(delivered, Len(delivered))
  /\ UNCHANGED submitted

Next == Submit \/ Deliver

Spec == Init /\ [][Next]_pipeVars

(* With fairness of Deliver every submitted task reaches the sink.         *)
FairSpec == Spec /\ WF_pipeVars(Deliver)
=============================================================================
