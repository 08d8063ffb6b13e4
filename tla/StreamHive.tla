----------------------------- MODULE StreamHive -----------------------------
(***************************************************************************)
(* StreamBuffer_t with its ThreadWorkerHive: the bytes of StreamBuffer     *)
(* meet the threads, result buffers and condition variables of WorkerHive. *)
(* A step of the program is a step of both modules, or of one while the    *)
(* other rests.  The hive sees the tasks of the stream by their ids; what  *)
(* reaches the sink is func_ of the bytes read for them, and func_ is the  *)
(* Identity of src/test2.cpp.                                              *)
(***************************************************************************)
EXTENDS StreamBuffer

CONSTANTS ResultBuffers, NoBuffer

ASSUME StreamHiveAssumption ==
  /\ IsFiniteSet(ResultBuffers) /\ Cardinality(ResultBuffers) = Threads + 2
  /\ NoBuffer \notin ResultBuffers
  /\ NoTask \notin Nat

VARIABLES
  empty_result_queue, results, write_id, stopping,
  worker_pc, res, writer_pc, writer_res,
  owner_pc,    \* WorkerHive's caller_pc: the stream in use, or stop()
  content, out
hiveVars == <<empty_result_queue, results, write_id, stopping, worker_pc, res,
              writer_pc, writer_res, owner_pc, content, out>>

(* A task has data_, size_ and id_.  worker_loop's local variable still    *)
(* has them in give_back_buffer, when the task is done for the hive.       *)
Done(w)    == hand[w] = NoTask \/ worker_pc[w] \in {"get_task", "task_wait"}
TaskId(w)  == IF Done(w) THEN NoTask ELSE hand[w].id
QueuedIds  == [i \in 1..Len(task_queue) |-> task_queue[i].id]

Hive == INSTANCE WorkerHive WITH
          task_queue <- QueuedIds,
          task       <- [w \in Workers |-> TaskId(w)],
          caller_pc  <- owner_pc,
          Batches    <- 1..MaxBytes,
          MaxTasks   <- MaxBytes,
          WriteId0   <- 0

(* The constructor of the stream starts the hive and takes a buffer.       *)
InitStream == Init /\ Hive!Init

(* While the program's behaviour is defined.                               *)
HiveAlone == caller_pc # "undefined" /\ UNCHANGED vars
-----------------------------------------------------------------------------
(* The owner writes to the stream.                                         *)
UseStream ==
  /\ owner_pc = "stream"
  /\ CallerStep
  /\ IF next_id' = next_id THEN UNCHANGED hiveVars
                           ELSE Hive!EnqueueTask(next_id' - next_id)

(* ~StreamBuffer_t after its sync(), and ~ThreadWorkerHive: stop().        *)
Destroy ==
  /\ caller_pc = "idle" /\ pos = 0
  /\ UNCHANGED vars
  /\ Hive!StopBegin
InStop == HiveAlone /\ (Hive!StopDrain \/ Hive!StopLoop)

(* worker_loop, in its order.                                              *)
WaitForTask(w) ==
  /\ hand[w] = NoTask /\ task_queue = <<>>
  /\ HiveAlone
  /\ Hive!GetTask(w)
TakeTask(w)         == GetTask(w) /\ Hive!GetTask(w)
TakeResultBuffer(w) == HiveAlone /\ Hive!GetResultBuffer(w)
CallFunc(w)         == Process(w) /\ Hive!Compute(w)
Publish(w)          == HiveAlone /\ Hive!Publish(w)
ReturnBuffer(w) ==
  /\ worker_pc[w] = "get_task"
  /\ GiveBackBuffer(w)
  /\ UNCHANGED hiveVars

WorkerLoop(w) ==
  \/ WaitForTask(w) \/ TakeTask(w) \/ TakeResultBuffer(w)
  \/ CallFunc(w) \/ Publish(w) \/ ReturnBuffer(w)

WriterLoop == HiveAlone /\ Hive!WriterStep

HiveThreads == WriterLoop \/ \E w \in Workers : WorkerLoop(w)

StreamNext == UseStream \/ Destroy \/ InStop \/ HiveThreads

StreamSpec == InitStream /\ [][StreamNext]_<<vars, hiveVars>>
-----------------------------------------------------------------------------
Identity(bytes) == bytes
Sink == FlattenSeq([i \in 1..Len(out) |-> Identity(consumed[out[i]])])

(* What the sink has received, byte for byte, is the beginning of what the *)
(* user wrote, whatever way the bytes took: through the put area, round it *)
(* in a write that overflows it, through reused buffers.  Not so once a    *)
(* task pointed into the user's array, which the user may change.          *)
SinkIsStream == lent \/ \A i \in 1..Len(Sink) : Sink[i] = i - 1
=============================================================================
