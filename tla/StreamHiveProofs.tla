---------------------------- MODULE StreamHiveProofs --------------------------
(***************************************************************************)
(* Proofs about StreamHive: the second generation from write() to the sink.*)
(***************************************************************************)
EXTENDS StreamHive, StreamBufferProofs, WellFoundedInduction

HiveP == INSTANCE WorkerHiveProofs WITH
           task_queue <- QueuedIds,
           task       <- [w \in Workers |-> TaskId(w)],
           caller_pc  <- owner_pc,
           Batches    <- 1..MaxBytes,
           MaxTasks   <- MaxBytes,
           WriteId0   <- 0

LEMMA SameHive ==
  /\ Hive!Init => HiveP!Init
  /\ [Hive!Next]_(Hive!vars) => [HiveP!Next]_(HiveP!vars)
<1>1. Hive!Init => HiveP!Init
  BY DEF Hive!Init, HiveP!Init
<1>2. Hive!vars = HiveP!vars
  BY DEF Hive!vars, HiveP!vars
<1>3. \A k \in 1..MaxBytes : Hive!EnqueueTask(k) => HiveP!EnqueueTask(k)
  BY DEF Hive!EnqueueTask, HiveP!EnqueueTask, Hive!callVars, HiveP!callVars,
         Hive!writerVars, HiveP!writerVars, Hive!WakeWorkers,
         HiveP!WakeWorkers
<1>4. \A w \in Workers : Hive!GetTask(w) => HiveP!GetTask(w)
  BY DEF Hive!GetTask, HiveP!GetTask, Hive!writerVars, HiveP!writerVars
<1>5. \A w \in Workers : Hive!GetResultBuffer(w) => HiveP!GetResultBuffer(w)
  BY DEF Hive!GetResultBuffer, HiveP!GetResultBuffer, Hive!callVars,
         HiveP!callVars, Hive!writerVars, HiveP!writerVars
<1>6. \A w \in Workers : Hive!Compute(w) => HiveP!Compute(w)
  BY DEF Hive!Compute, HiveP!Compute, Hive!callVars, HiveP!callVars,
         Hive!writerVars, HiveP!writerVars
<1>7. \A w \in Workers : Hive!Publish(w) => HiveP!Publish(w)
  BY DEF Hive!Publish, HiveP!Publish, Hive!callVars, HiveP!callVars,
         Hive!NotifyOneBee, HiveP!NotifyOneBee, Hive!CallerAsleep,
         HiveP!CallerAsleep, Hive!AfterWait, HiveP!AfterWait
<1>8. Hive!WriterSleep => HiveP!WriterSleep
  BY DEF Hive!WriterSleep, HiveP!WriterSleep, Hive!callVars, HiveP!callVars,
         Hive!workerVars, HiveP!workerVars
<1>9. Hive!WriterExit => HiveP!WriterExit
  BY DEF Hive!WriterExit, HiveP!WriterExit, Hive!callVars, HiveP!callVars,
         Hive!workerVars, HiveP!workerVars
<1>10. Hive!WriterTake => HiveP!WriterTake
  BY DEF Hive!WriterTake, HiveP!WriterTake, Hive!callVars, HiveP!callVars,
         Hive!workerVars, HiveP!workerVars, Hive!Restrict, HiveP!Restrict
<1>11. Hive!WriterSputn => HiveP!WriterSputn
  BY DEF Hive!WriterSputn, HiveP!WriterSputn, Hive!callVars, HiveP!callVars,
         Hive!workerVars, HiveP!workerVars
<1>12. Hive!GiveBackResult => HiveP!GiveBackResult
  BY DEF Hive!GiveBackResult, HiveP!GiveBackResult, Hive!callVars,
         HiveP!callVars, Hive!WakeWorkers, HiveP!WakeWorkers
<1>13. Hive!StopBegin => HiveP!StopBegin
  BY DEF Hive!StopBegin, HiveP!StopBegin, Hive!is_task_queue_empty,
         HiveP!is_task_queue_empty, Hive!callVars, HiveP!callVars,
         Hive!workerVars, HiveP!workerVars, Hive!writerVars, HiveP!writerVars
<1>14. Hive!StopDrain => HiveP!StopDrain
  BY DEF Hive!StopDrain, HiveP!StopDrain, Hive!callVars, HiveP!callVars,
         Hive!workerVars, HiveP!workerVars
<1>15. Hive!StopLoop => HiveP!StopLoop
  BY DEF Hive!StopLoop, HiveP!StopLoop, Hive!callVars, HiveP!callVars,
         Hive!workerVars, HiveP!workerVars, Hive!writerVars, HiveP!writerVars
<1>16. Hive!Next => HiveP!Next
  BY <1>3, <1>4, <1>5, <1>6, <1>7, <1>8, <1>9, <1>10,
     <1>11, <1>12, <1>13, <1>14, <1>15
  DEF    Hive!Next, HiveP!Next, Hive!StreamNext, HiveP!StreamNext,
         Hive!WorkerStep, HiveP!WorkerStep, Hive!WriterStep, HiveP!WriterStep,
         Hive!StopStep, HiveP!StopStep
<1> QED
  BY <1>1, <1>2, <1>16 DEF Hive!vars, HiveP!vars
-----------------------------------------------------------------------------
(* A step of the program is one of the stream buffer, or hides from it.    *)
LEMMA StepOfStream == [StreamNext]_<<vars, hiveVars>> => [Next]_vars
<1>1. UseStream => CallerStep
  BY DEF UseStream
<1>2. Destroy => UNCHANGED vars
  BY DEF Destroy
<1>3. InStop => UNCHANGED vars
  BY DEF InStop, HiveAlone
<1>4. WriterLoop => UNCHANGED vars
  BY DEF WriterLoop, HiveAlone
<1>5. \A w \in Workers : WorkerLoop(w) => WorkerStep(w) \/ UNCHANGED vars
  BY DEF WorkerLoop, WaitForTask, TakeTask, TakeResultBuffer, CallFunc,
         Publish, ReturnBuffer, HiveAlone, WorkerStep
<1>6. UNCHANGED <<vars, hiveVars>> => UNCHANGED vars
  OBVIOUS
<1> QED
  BY <1>1, <1>2, <1>3, <1>4, <1>5, <1>6 DEF StreamNext, HiveThreads, Next

(* The stream buffer loses nothing by having the hive behind it.           *)
THEOREM ImplementsStream == StreamSpec => Spec
<1>1. InitStream => Init
  BY DEF InitStream
<1> QED
  BY <1>1, StepOfStream, PTL DEF StreamSpec, Spec

LEMMA StreamInvHolds == StreamSpec => []StreamInv
<1>1. TypeOK /\ CallInv /\ IdsInv => StreamInv
  BY DEF StreamInv
<1> QED
  BY <1>1, ImplementsStream, StreamInvariance, PTL

(* A step of the caller pushes tasks and numbers them, or leaves the queue *)
(* alone; it never takes one.                                              *)
LEMMA CallerQueue ==
  ASSUME StreamInv, CallerStep
  PROVE  /\ hand' = hand
         /\ next_id \in Nat /\ next_id' \in Nat
         /\ \/ next_id' = next_id /\ task_queue' = task_queue
            \/ next_id' > next_id
<1> DEFINE Quiet == next_id' = next_id /\ task_queue' = task_queue
<1>1. TypeOK /\ CallInv /\ next_id \in Nat
  BY DEF StreamInv, TypeOK
<1>2. ASSUME NEW buf \in Pointers, NEW len \in Nat, NEW next,
             EnqueueTask(buf, len, next)
      PROVE  next_id' \in Nat /\ (Quiet \/ next_id' > next_id)
  <2>1. \/ Quiet
        \/ \E new \in Seq(Tasks) : /\ Len(new) \in Nat \ {0}
                                   /\ next_id' = next_id + Len(new)
    BY <1>1, <1>2, EnqueueEffect
  <2> QED
    BY <1>1, <2>1
<1>3. ASSUME NEW n \in WriteSizes, Xsputn(n) PROVE hand' = hand /\ Quiet
  BY <1>3 DEF Xsputn, workerVars
<1>4. ASSUME Sputc \/ Sync \/ GetEmptyBuffer \/ PutRest
      PROVE  hand' = hand /\ Quiet
  BY <1>4 DEF Sputc, Sync, GetEmptyBuffer, PutRest, workerVars
<1>5. ASSUME FlushEnqueue
      PROVE  hand' = hand /\ next_id' \in Nat /\ (Quiet \/ next_id' > next_id)
  <2>1. EnqueueTask(base, pos, "get_buffer") /\ hand' = hand
    BY <1>5 DEF FlushEnqueue, Current, workerVars
  <2>2. base \in Pointers /\ pos \in Nat
    BY <1>1, Constants DEF TypeOK
  <2> QED
    BY <1>2, <2>1, <2>2
<1>6. ASSUME EnqueueRest
      PROVE  hand' = hand /\ next_id' \in Nat /\ (Quiet \/ next_id' > next_id)
  <2>1. /\ EnqueueTask([blk |-> User, off |-> src], rest, "idle")
        /\ hand' = hand /\ rest >= BufferSize
    BY <1>6 DEF EnqueueRest, workerVars
  <2>2. /\ rest \in Nat /\ src # ByValue /\ src \in ByValue..UserSize
    BY <1>1, <2>1, Constants DEF TypeOK, CallInv
  <2>3. [blk |-> User, off |-> src] \in Pointers
    BY <2>2, Constants DEF Pointers, ByValue
  <2> QED
    BY <1>2, <2>1, <2>2, <2>3
<1> QED
  BY <1>1, <1>3, <1>4, <1>5, <1>6 DEF CallerStep

(* When the caller pushes tasks the hive gets them in one step.             *)
LEMMA UseOfHive ==
  ASSUME StreamInv, UseStream
  PROVE  \/ Hive!Next
         \/ /\ task_queue' = task_queue /\ next_id' = next_id /\ hand' = hand
            /\ UNCHANGED hiveVars
<1>1. /\ CallerStep
      /\ next_id' = next_id => UNCHANGED hiveVars
      /\ next_id' # next_id => Hive!EnqueueTask(next_id' - next_id)
  BY DEF UseStream
<1>2. /\ hand' = hand /\ next_id \in Nat /\ next_id' \in Nat
      /\ \/ next_id' = next_id /\ task_queue' = task_queue
         \/ next_id' > next_id
  BY <1>1, CallerQueue
<1>3. CASE next_id' = next_id
  BY <1>1, <1>2, <1>3
<1>4. CASE next_id' # next_id
  <2>1. PICK m \in Nat, n \in Nat : m = next_id /\ n = next_id' /\ n > m
    BY <1>2, <1>4
  <2>2. n - m \in Nat /\ n - m >= 1
    <3>1. \A a, b \in Nat : a > b => a - b \in Nat /\ a - b >= 1
      OBVIOUS
    <3>2. n > m
      BY <2>1
    <3> QED
      BY <3>1, <3>2
  <2>4. Hive!EnqueueTask(n - m)
    BY <1>1, <1>4, <2>1
  <2>5. m + (n - m) <= MaxBytes
    BY <2>1, <2>4 DEF Hive!EnqueueTask
  <2>6. n - m \in 1..MaxBytes
    BY <2>2, <2>5, Constants
  <2> QED
    BY <2>4, <2>6 DEF Hive!Next, Hive!StreamNext
<1> QED
  BY <1>3, <1>4

(* A step of the program is one of the hive, or hides from it: the calls   *)
(* on the put area, and the return of an input buffer.                     *)
LEMMA StepOfHive ==
  ASSUME StreamInv, [StreamNext]_<<vars, hiveVars>>
  PROVE  [Hive!Next]_(Hive!vars)
<1>0. ASSUME task_queue' = task_queue, next_id' = next_id, hand' = hand,
             UNCHANGED hiveVars
      PROVE  UNCHANGED Hive!vars
  <2>1. QueuedIds' = QueuedIds
    BY <1>0 DEF QueuedIds
  <2>2. \A w \in Workers : TaskId(w)' = TaskId(w)
    BY <1>0 DEF TaskId, Done, hiveVars
  <2>3. [w \in Workers |-> TaskId(w)]' = [w \in Workers |-> TaskId(w)]
    BY <2>2
  <2> QED
    BY <1>0, <2>1, <2>3 DEF Hive!vars, hiveVars
<1>1. ASSUME UseStream PROVE [Hive!Next]_(Hive!vars)
  BY <1>0, <1>1, UseOfHive
<1>2. Destroy => Hive!Next
  BY DEF Destroy, Hive!Next, Hive!StopStep
<1>3. InStop => Hive!Next
  BY DEF InStop, Hive!Next, Hive!StopStep
<1>4. WriterLoop => Hive!Next
  BY DEF WriterLoop, Hive!Next, Hive!StreamNext
<1>5. ASSUME NEW w \in Workers, WorkerLoop(w), ~ReturnBuffer(w)
      PROVE  Hive!Next
  BY <1>5 DEF WorkerLoop, WaitForTask, TakeTask, TakeResultBuffer, CallFunc,
              Publish, Hive!Next, Hive!StreamNext, Hive!WorkerStep
<1>6. ASSUME NEW w \in Workers, ReturnBuffer(w)
      PROVE  UNCHANGED Hive!vars
  <2>1. /\ worker_pc[w] = "get_task" /\ UNCHANGED hiveVars
        /\ task_queue' = task_queue /\ next_id' = next_id
        /\ hand' = [hand EXCEPT ![w] = NoTask]
    BY <1>6 DEF ReturnBuffer, GiveBackBuffer, callerVars
  <2>2. hand \in [Workers -> Tasks \cup {NoTask}] /\ worker_pc' = worker_pc
    BY <2>1 DEF StreamInv, TypeOK, hiveVars
  <2>3. ASSUME NEW v \in Workers PROVE TaskId(v)' = TaskId(v)
    <3>1. CASE v = w
      BY <2>1, <2>2, <3>1 DEF TaskId, Done
    <3>2. CASE v # w
      BY <2>1, <2>2, <3>2 DEF TaskId, Done
    <3> QED
      BY <3>1, <3>2
  <2>4. [v \in Workers |-> TaskId(v)]' = [v \in Workers |-> TaskId(v)]
    BY <2>3
  <2>5. QueuedIds' = QueuedIds
    BY <2>1 DEF QueuedIds
  <2> QED
    BY <2>1, <2>4, <2>5 DEF Hive!vars, hiveVars
<1>7. ASSUME UNCHANGED <<vars, hiveVars>> PROVE UNCHANGED Hive!vars
  BY <1>0, <1>7 DEF vars
<1> QED
  BY <1>1, <1>2, <1>3, <1>4, <1>5, <1>6, <1>7 DEF StreamNext, HiveThreads

(* The stream drives the hive as WorkerHive says it may be driven, and the *)
(* hive sees nothing of the put area: what holds of the hive with any      *)
(* caller holds of it behind the stream buffer.                            *)
THEOREM ImplementsHive == StreamSpec => Hive!Spec
<1>1. InitStream => Hive!Init
  BY DEF InitStream
<1>2. StreamInv /\ [StreamNext]_<<vars, hiveVars>> => [Hive!Next]_(Hive!vars)
  BY StepOfHive
<1> QED
  BY <1>1, <1>2, StreamInvHolds, PTL DEF StreamSpec, Hive!Spec
-----------------------------------------------------------------------------
(* Where a worker is in worker_loop, and what it has in hand there: its    *)
(* task from get_task to give_back_buffer, the bytes read from func_ on.   *)
LoopPcs == {"get_task", "task_wait", "get_result_buffer", "buffer_wait",
            "compute", "publish"}
Link(w) ==
  /\ ~Has(w) => worker_pc[w] \in {"get_task", "task_wait"}
  /\ Has(w) => worker_pc[w] # "task_wait"
  /\ processed[w] <=> Has(w) /\ worker_pc[w] \in {"publish", "get_task"}
LinkInv ==
  /\ worker_pc \in [Workers -> LoopPcs]
  /\ \A w \in Workers : Link(w)

LEMMA LinkOthers ==
  ASSUME NEW w \in Workers, Link(w), worker_pc'[w] = worker_pc[w],
         hand'[w] = hand[w], processed'[w] = processed[w]
  PROVE  Link(w)'
BY DEF Link, Has

LEMMA LinkSame ==
  ASSUME LinkInv, UNCHANGED <<hand, processed, worker_pc>>
  PROVE  LinkInv'
BY DEF LinkInv, Link, Has

(* A notify_all moves sleepers, who have no task or no result buffer, back *)
(* to their test.                                                          *)
LEMMA LinkWake ==
  ASSUME LinkInv, UNCHANGED <<hand, processed>>,
         \/ Hive!WakeWorkers("task_wait", "get_task")
         \/ Hive!WakeWorkers("buffer_wait", "get_result_buffer")
  PROVE  LinkInv'
<1>1. worker_pc' \in [Workers -> LoopPcs]
  BY DEF Hive!WakeWorkers, LinkInv, LoopPcs
<1>2. ASSUME NEW w \in Workers PROVE Link(w)'
  <2>1. Link(w) /\ hand'[w] = hand[w] /\ processed'[w] = processed[w]
    BY DEF LinkInv
  <2>2. \/ worker_pc'[w] = worker_pc[w]
        \/ worker_pc[w] = "task_wait" /\ worker_pc'[w] = "get_task"
        \/ worker_pc[w] = "buffer_wait" /\ worker_pc'[w] = "get_result_buffer"
    BY DEF Hive!WakeWorkers
  <2> QED
    BY <2>1, <2>2 DEF Link, Has
<1> QED
  BY <1>1, <1>2 DEF LinkInv

LEMMA LinkWorker ==
  ASSUME StreamInv, LinkInv, NEW w \in Workers, WorkerLoop(w)
  PROVE  LinkInv'
<1>1. /\ hand \in [Workers -> Tasks \cup {NoTask}]
      /\ processed \in [Workers -> BOOLEAN]
      /\ worker_pc \in [Workers -> LoopPcs]
      /\ \A v \in Workers : Link(v)
  BY DEF StreamInv, TypeOK, LinkInv
<1>2. ASSUME NEW pc \in LoopPcs, worker_pc' = [worker_pc EXCEPT ![w] = pc]
      PROVE  /\ worker_pc' \in [Workers -> LoopPcs] /\ worker_pc'[w] = pc
             /\ \A v \in Workers : v # w => worker_pc'[v] = worker_pc[v]
  BY <1>1, <1>2
<1>3. CASE WaitForTask(w)
  <2>1. /\ hand[w] = NoTask /\ hand' = hand /\ processed' = processed
        /\ worker_pc' = [worker_pc EXCEPT ![w] = "task_wait"]
    BY <1>3 DEF WaitForTask, HiveAlone, vars, Hive!GetTask, QueuedIds
  <2>2. /\ worker_pc' \in [Workers -> LoopPcs] /\ worker_pc'[w] = "task_wait"
        /\ \A v \in Workers : v # w => worker_pc'[v] = worker_pc[v]
    BY <1>2, <2>1 DEF LoopPcs
  <2>3. ~processed[w]
    BY <1>1, <2>1 DEF Link, Has
  <2>4. Link(w)'
    BY <2>1, <2>2, <2>3 DEF Link, Has
  <2> QED
    BY <1>1, <2>1, <2>2, <2>4, LinkOthers DEF LinkInv
<1>4. CASE TakeTask(w)
  <2>1. /\ hand[w] = NoTask /\ task_queue # <<>> /\ processed' = processed
        /\ hand' = [hand EXCEPT ![w] = task_queue[1]]
    BY <1>4 DEF TakeTask, GetTask
  <2>2. task_queue[1] \in Tasks /\ task_queue[1] # NoTask
    BY <1>4, GetTaskEffect DEF TakeTask, StreamInv
  <2>3. /\ hand'[w] = task_queue[1] /\ ~processed[w]
        /\ \A v \in Workers : v # w => hand'[v] = hand[v]
    BY <1>1, <2>1 DEF Link, Has
  <2>4. Len(task_queue) \in Nat \ {0}
    BY <1>4, GetTaskEffect DEF TakeTask, StreamInv
  <2>5. QueuedIds # <<>>
    BY <2>4 DEF QueuedIds
  <2>6. worker_pc' = [worker_pc EXCEPT ![w] = "get_result_buffer"]
    BY <1>4, <2>5 DEF TakeTask, Hive!GetTask
  <2>7. /\ worker_pc' \in [Workers -> LoopPcs]
        /\ worker_pc'[w] = "get_result_buffer"
        /\ \A v \in Workers : v # w => worker_pc'[v] = worker_pc[v]
    BY <1>2, <2>6 DEF LoopPcs
  <2>8. Link(w)'
    BY <2>1, <2>2, <2>3, <2>7 DEF Link, Has
  <2> QED
    BY <1>1, <2>1, <2>3, <2>7, <2>8, LinkOthers DEF LinkInv
<1>5. CASE TakeResultBuffer(w)
  <2>1. /\ hand' = hand /\ processed' = processed
        /\ worker_pc[w] = "get_result_buffer"
        /\ \E pc \in {"buffer_wait", "compute"} :
             worker_pc' = [worker_pc EXCEPT ![w] = pc]
    BY <1>5 DEF TakeResultBuffer, HiveAlone, vars, Hive!GetResultBuffer
  <2>2. PICK pc \in {"buffer_wait", "compute"} :
          /\ worker_pc' \in [Workers -> LoopPcs] /\ worker_pc'[w] = pc
          /\ \A v \in Workers : v # w => worker_pc'[v] = worker_pc[v]
    BY <1>2, <2>1 DEF LoopPcs
  <2>3. Link(w)'
    BY <1>1, <2>1, <2>2 DEF Link, Has
  <2> QED
    BY <1>1, <2>1, <2>2, <2>3, LinkOthers DEF LinkInv
<1>6. CASE CallFunc(w)
  <2>1. /\ hand[w] # NoTask /\ hand' = hand
        /\ processed' = [processed EXCEPT ![w] = TRUE]
        /\ worker_pc' = [worker_pc EXCEPT ![w] = "publish"]
    BY <1>6 DEF CallFunc, Process, Hive!Compute
  <2>2. /\ worker_pc' \in [Workers -> LoopPcs] /\ worker_pc'[w] = "publish"
        /\ \A v \in Workers : v # w => worker_pc'[v] = worker_pc[v]
    BY <1>2, <2>1 DEF LoopPcs
  <2>3. /\ processed'[w] /\ \A v \in Workers : v # w => processed'[v] = processed[v]
    BY <1>1, <2>1
  <2>4. Link(w)'
    BY <2>1, <2>2, <2>3 DEF Link, Has
  <2> QED
    BY <1>1, <2>1, <2>2, <2>3, <2>4, LinkOthers DEF LinkInv
<1>7. CASE Publish(w)
  <2>1. /\ hand' = hand /\ processed' = processed
        /\ worker_pc[w] = "publish"
        /\ worker_pc' = [worker_pc EXCEPT ![w] = "get_task"]
    BY <1>7 DEF Publish, HiveAlone, vars, Hive!Publish
  <2>2. /\ worker_pc' \in [Workers -> LoopPcs] /\ worker_pc'[w] = "get_task"
        /\ \A v \in Workers : v # w => worker_pc'[v] = worker_pc[v]
    BY <1>2, <2>1 DEF LoopPcs
  <2>3. Link(w)'
    BY <1>1, <2>1, <2>2 DEF Link, Has
  <2> QED
    BY <1>1, <2>1, <2>2, <2>3, LinkOthers DEF LinkInv
<1>8. CASE ReturnBuffer(w)
  <2>1. /\ worker_pc[w] = "get_task" /\ worker_pc' = worker_pc
        /\ hand' = [hand EXCEPT ![w] = NoTask]
        /\ processed' = [processed EXCEPT ![w] = FALSE]
    BY <1>8 DEF ReturnBuffer, GiveBackBuffer, hiveVars
  <2>2. /\ hand'[w] = NoTask /\ ~processed'[w]
        /\ \A v \in Workers : v # w => /\ hand'[v] = hand[v]
                                       /\ processed'[v] = processed[v]
    BY <1>1, <2>1
  <2>3. Link(w)'
    BY <2>1, <2>2 DEF Link, Has
  <2> QED
    BY <1>1, <2>1, <2>2, <2>3, LinkOthers DEF LinkInv
<1> QED
  BY <1>3, <1>4, <1>5, <1>6, <1>7, <1>8 DEF WorkerLoop

LEMMA StepLink ==
  ASSUME StreamInv, LinkInv, [StreamNext]_<<vars, hiveVars>>
  PROVE  LinkInv'
<1>1. CASE UseStream
  <2>1. UNCHANGED <<hand, processed>>
    BY <1>1 DEF UseStream, CallerStep, Xsputn, Sputc, Sync, FlushEnqueue,
                GetEmptyBuffer, PutRest, EnqueueRest, workerVars
  <2>2. UNCHANGED worker_pc \/ Hive!WakeWorkers("task_wait", "get_task")
    BY <1>1 DEF UseStream, hiveVars, Hive!EnqueueTask
  <2> QED
    BY <2>1, <2>2, LinkSame, LinkWake
<1>2. CASE Destroy \/ InStop
  BY <1>2, LinkSame DEF Destroy, InStop, HiveAlone, vars, Hive!StopBegin,
         Hive!StopDrain, Hive!StopLoop, Hive!workerVars
<1>3. CASE WriterLoop
  <2>1. UNCHANGED <<hand, processed>>
    BY <1>3 DEF WriterLoop, HiveAlone, vars
  <2>2. \/ UNCHANGED worker_pc
        \/ Hive!WakeWorkers("buffer_wait", "get_result_buffer")
    BY <1>3 DEF WriterLoop, Hive!WriterStep, Hive!WriterSleep, Hive!WriterExit,
           Hive!WriterTake, Hive!WriterSputn, Hive!GiveBackResult,
           Hive!workerVars
  <2> QED
    BY <2>1, <2>2, LinkSame, LinkWake
<1>4. CASE \E w \in Workers : WorkerLoop(w)
  BY <1>4, LinkWorker
<1>5. CASE UNCHANGED <<vars, hiveVars>>
  BY <1>5, LinkSame DEF vars, hiveVars
<1> QED
  BY <1>1, <1>2, <1>3, <1>4, <1>5 DEF StreamNext, HiveThreads

LEMMA LinkHolds == StreamSpec => [](StreamInv /\ LinkInv)
<1>1. InitStream => LinkInv
  BY DEF InitStream, Init, Hive!Init, LinkInv, Link, Has, LoopPcs
<1>2. StreamInv /\ LinkInv /\ [StreamNext]_<<vars, hiveVars>> => LinkInv'
  BY StepLink
<1> QED
  BY <1>1, <1>2, StreamInvHolds, PTL DEF StreamSpec
-----------------------------------------------------------------------------
(* What the sink has got was read by func_: tasks in the order of their    *)
(* numbers, each of which is neither in the queue nor waiting for func_.   *)
LEMMA WrittenWasRead ==
  ASSUME StreamInv, LinkInv, HiveP!IInv
  PROVE  /\ Len(out) \in Nat /\ Len(out) <= next_id
         /\ \A i \in 1..Len(out) : out[i] = i - 1 /\ i - 1 \in DOMAIN consumed
<1>1. /\ Len(task_queue) \in Nat /\ next_id \in Nat
      /\ next_id - Len(task_queue) \in Nat
  BY LenProperties DEF StreamInv, TypeOK, IdsInv, FirstQueued
<1>2. Len(QueuedIds) = Len(task_queue)
  BY <1>1 DEF QueuedIds
<1>3. write_id \in Nat /\ Len(out) \in Nat
  BY LenProperties DEF HiveP!IInv, HiveP!TypeOK, HiveP!ResultsTypeOK,
         HiveP!OutputTypeOK
<1>4. /\ \A i \in 1..Len(out) : out[i] = 0 + i - 1
      /\ Len(out) = write_id - 0 - (IF writer_pc = "sputn" THEN 1 ELSE 0)
  BY DEF HiveP!IInv, HiveP!OutInv, HiveP!OutInOrder
<1>5. /\ Len(out) <= write_id
      /\ \A i \in 1..Len(out) : /\ out[i] = i - 1
                                /\ i - 1 \in Nat /\ i - 1 < write_id
  BY <1>3, <1>4
<1>6. ASSUME NEW id \in Nat, id < write_id
      PROVE  id < next_id - Len(task_queue)
  <2>1. id \in 0..(write_id - 1)
    BY <1>3, <1>6
  <2> QED
    BY <1>2, <2>1 DEF HiveP!IInv, HiveP!TaskInv, HiveP!Popped
<1>7. ASSUME NEW id \in Nat, id < write_id PROVE id \in DOMAIN consumed
  <2>1. id \in 0..(next_id - Len(task_queue) - 1)
    BY <1>1, <1>6, <1>7
  <2>2. SUFFICES ASSUME NEW w \in Workers, Has(w), hand[w].id = id
                 PROVE  id \in DOMAIN consumed
    BY <2>1 DEF StreamInv, IdsInv, FirstQueued
  <2>3. CASE processed[w]
    BY <2>2, <2>3 DEF StreamInv, IdsInv
  <2>4. CASE ~processed[w]
    <3>1. TaskId(w) = id
      BY <2>2, <2>4 DEF LinkInv, Link, TaskId, Done, Has
    <3>2. [v \in Workers |-> TaskId(v)][w] = id /\ id # NoTask
      BY <3>1, StreamHiveAssumption
    <3>3. ~(0 <= id /\ id < write_id)
      BY <3>2 DEF HiveP!IInv, HiveP!TaskInv, HiveP!InHand, HiveP!Written
    <3> QED
      BY <1>7, <3>3
  <2> QED
    BY <2>3, <2>4
<1>8. write_id <= next_id
  <2>1. CASE write_id = 0
    BY <1>1, <2>1
  <2>2. CASE write_id # 0
    <3>1. write_id - 1 \in Nat /\ write_id - 1 < write_id
      BY <1>3, <2>2
    <3>2. write_id - 1 < next_id - Len(task_queue)
      BY <1>6, <3>1
    <3> QED
      BY <1>1, <1>3, <3>2
  <2> QED
    BY <2>1, <2>2
<1> QED
  BY <1>1, <1>3, <1>5, <1>7, <1>8
-----------------------------------------------------------------------------
(* Consecutive pieces of 0, 1, 2, ... put one after the other.             *)
LEMMA LeastOf ==
  ASSUME NEW S, S \subseteq Nat, S # {}
  PROVE  \E x \in S : \A y \in S : x <= y
<1> DEFINE less == OpToRel(<, Nat)
<1>1. IsWellFoundedOn(less, Nat)
  BY NatLessThanWellFounded
<1>2. PICK x \in S : \A y \in S : ~(<<y, x>> \in less)
  <2> HIDE DEF less
  <2> QED
    BY <1>1, WFMin
<1>3. ASSUME NEW y \in S PROVE x <= y
  <2>1. x \in Nat /\ y \in Nat
    OBVIOUS
  <2>2. ~(y < x)
    BY <1>2, <2>1 DEF OpToRel
  <2> QED
    BY <2>1, <2>2
<1> QED
  BY <1>3

Count(n)   == [k \in 1..n |-> k - 1]
From(a, b) == [k \in 1..(b - a) |-> a + k - 1]

LEMMA CountOn ==
  ASSUME NEW a \in Nat, NEW b \in Nat, a <= b
  PROVE  Count(a) \o From(a, b) = Count(b)
<1> DEFINE c == Count(a)
           f == From(a, b)
<1>1. c \in [1..a -> Nat] /\ \A k \in 1..a : c[k] = k - 1
  BY DEF Count
<1>2. b - a \in Nat /\ f \in [1..(b - a) -> Nat]
      /\ \A k \in 1..(b - a) : f[k] = a + k - 1
  BY DEF From
<1> HIDE DEF c, f
<1>3. c \in Seq(Nat) /\ Len(c) = a /\ f \in Seq(Nat) /\ Len(f) = b - a
  BY <1>1, <1>2, FunctionIsSeq
<1>4. /\ c \o f \in Seq(Nat) /\ Len(c \o f) = a + (b - a)
      /\ \A i \in 1..(a + (b - a)) :
           (c \o f)[i] = IF i <= a THEN c[i] ELSE f[i - a]
  BY <1>3, ConcatProperties
<1>5. a + (b - a) = b
  OBVIOUS
<1>6. \A i \in 1..b : (c \o f)[i] = i - 1
  <2> TAKE i \in 1..b
  <2>1. CASE i <= a
    BY <1>1, <1>4, <1>5, <2>1
  <2>2. CASE ~(i <= a)
    <3>1. i - a \in 1..(b - a) /\ a + (i - a) - 1 = i - 1
      BY <2>2
    <3>2. f[i - a] = a + (i - a) - 1
      BY <1>2, <3>1
    <3> QED
      BY <1>4, <1>5, <2>2, <3>1, <3>2
  <2> QED
    BY <2>1, <2>2
<1>7. c \o f = [k \in 1..b |-> k - 1]
  <2> DEFINE g == c \o f
  <2>1. g \in Seq(Nat) /\ DOMAIN g = 1..b
    BY <1>4, <1>5, LenProperties
  <2>2. g = [k \in DOMAIN g |-> g[k]]
    <3> HIDE DEF g
    <3>1. g \in [1..Len(g) -> Nat]
      BY <2>1, LenProperties
    <3> QED
      BY <3>1
  <2> QED
    BY <1>6, <2>1, <2>2
<1> QED
  BY <1>7 DEF c, f, Count

LEMMA FlattenPieces ==
  ASSUME NEW n \in Nat, NEW s \in [Nat -> Nat], s[0] = 0,
         \A i \in 0..(n - 1) : s[i] <= s[i + 1]
  PROVE  FlattenSeq([i \in 1..n |-> From(s[i - 1], s[i])]) = Count(s[n])
<1> DEFINE q == [i \in 1..n |-> From(s[i - 1], s[i])]
           F == [i \in 1..n |-> Count(s[i])]
           Good(g) == g = [i \in 1..n |-> IF i = 1 THEN q[i] ELSE g[i - 1] \o q[i]]
<1>1. Len(q) = n
  OBVIOUS
<1>2. CASE n = 0
  <2>1. FlattenSeq(q) = q
    BY <1>1, <1>2 DEF FlattenSeq
  <2>2. 1..n = {} /\ 1..s[n] = {}
    BY <1>2
  <2>3. q = Count(s[n])
    BY <2>2 DEF Count
  <2> QED
    BY <2>1, <2>3
<1>3. CASE n # 0
  <2>1. \A i \in 1..n : q[i] = From(s[i - 1], s[i]) /\ F[i] = Count(s[i])
    OBVIOUS
  <2>2. q[1] = F[1]
    <3>1. 1 \in 1..n /\ 1 - 1 = 0 /\ s[1] \in Nat
      BY <1>3
    <3>2. q[1] = From(0, s[1]) /\ F[1] = Count(s[1])
      BY <2>1, <3>1
    <3>3. s[1] - 0 = s[1] /\ \A k \in 1..s[1] : 0 + k - 1 = k - 1
      BY <3>1
    <3> QED
      BY <3>2, <3>3 DEF From, Count
  <2>3. ASSUME NEW i \in 1..n, i # 1
        PROVE  i - 1 \in 1..n /\ F[i - 1] \o q[i] = F[i]
    <3>1. /\ i - 1 \in 1..n /\ i - 1 \in 0..(n - 1) /\ (i - 1) + 1 = i
          /\ i - 1 \in Nat /\ i \in Nat
      BY <2>3
    <3>2. s[i - 1] \in Nat /\ s[i] \in Nat /\ s[i - 1] <= s[i]
      BY <3>1
    <3>3. Count(s[i - 1]) \o From(s[i - 1], s[i]) = Count(s[i])
      BY <3>2, CountOn
    <3> QED
      BY <2>1, <3>1, <3>3
  <2>4. Good(F)
    <3>1. \A i \in 1..n : F[i] = IF i = 1 THEN q[i] ELSE F[i - 1] \o q[i]
      BY <2>2, <2>3
    <3> HIDE DEF q
    <3> QED
      BY <3>1
  <2>5. ASSUME NEW g, Good(g) PROVE g[n] = F[n]
    <3> DEFINE Bad == {i \in 1..n : g[i] # F[i]}
    <3>1. \A i \in 1..n : g[i] = IF i = 1 THEN q[i] ELSE g[i - 1] \o q[i]
      <4> HIDE DEF q
      <4> QED
        BY <2>5
    <3> HIDE DEF q, F
    <3>2. SUFFICES ASSUME Bad # {} PROVE FALSE
      BY <1>3
    <3>3. PICK m \in Bad : \A y \in Bad : m <= y
      <4>1. Bad \subseteq Nat
        OBVIOUS
      <4> HIDE DEF Bad
      <4> QED
        BY <3>2, <4>1, LeastOf
    <3>4. m \in 1..n /\ g[m] # F[m]
      OBVIOUS
    <3>5. m # 1
      BY <2>2, <3>1, <3>4
    <3>6. m - 1 \in 1..n /\ ~(m <= m - 1)
      BY <3>4, <3>5
    <3>7. g[m - 1] = F[m - 1]
      BY <3>3, <3>6
    <3> QED
      BY <2>3, <3>1, <3>4, <3>5, <3>7
  <2>6. FlattenSeq(q) = (CHOOSE g : Good(g))[n]
    BY <1>1, <1>3 DEF FlattenSeq
  <2>7. Good(CHOOSE g : Good(g))
    BY <2>4
  <2>8. (CHOOSE g : Good(g))[n] = F[n]
    BY <2>5, <2>7
  <2>9. F[n] = Count(s[n])
    BY <1>3, <2>1
  <2> QED
    BY <2>6, <2>8, <2>9
<1> QED
  BY <1>2, <1>3
-----------------------------------------------------------------------------
LEMMA SinkIsCount ==
  ASSUME StreamInv, LinkInv, HiveP!IInv, NEW s \in [Nat -> Nat], Starts(s)
  PROVE  Sink = Count(s[Len(out)])
<1> DEFINE n == Len(out)
<1>1. /\ n \in Nat /\ next_id \in Nat /\ n <= next_id
      /\ \A i \in 1..n : out[i] = i - 1 /\ i - 1 \in DOMAIN consumed
  BY WrittenWasRead DEF StreamInv, TypeOK
<1> HIDE DEF n
<1>2. /\ s[0] = 0
      /\ \A i \in 0..(next_id - 1) : s[i] <= s[i + 1]
      /\ \A i \in DOMAIN consumed : consumed[i] = From(s[i], s[i + 1])
  BY DEF Starts, From
<1>3. \A i \in 0..(n - 1) : s[i] <= s[i + 1]
  <2>1. \A i \in 0..(n - 1) : i \in 0..(next_id - 1)
    BY <1>1
  <2> QED
    BY <1>2, <2>1
<1>4. \A i \in 1..n : Identity(consumed[out[i]]) = From(s[i - 1], s[i])
  <2> TAKE i \in 1..n
  <2>1. out[i] = i - 1 /\ i - 1 \in DOMAIN consumed /\ (i - 1) + 1 = i
    BY <1>1
  <2> QED
    BY <1>2, <2>1 DEF Identity
<1>5. [i \in 1..n |-> Identity(consumed[out[i]])]
        = [i \in 1..n |-> From(s[i - 1], s[i])]
  BY <1>4
<1>6. FlattenSeq([i \in 1..n |-> From(s[i - 1], s[i])]) = Count(s[n])
  BY <1>1, <1>2, <1>3, FlattenPieces
<1> QED
  BY <1>5, <1>6 DEF Sink, n

(* With one worker, what the sink has received is the beginning of what    *)
(* the user wrote, byte for byte, as long as no task has pointed into the  *)
(* user's array: for streams, writes and buffers of any size, through any  *)
(* number of fills of the same buffers, and with the destructor's stop()   *)
(* begun at any time.                                                      *)
THEOREM SinkGetsTheStream ==
  ASSUME Threads = 1
  PROVE  StreamSpec => []SinkIsStream
<1>1. HiveP!Spec => []HiveP!IInv
  <2>1. /\ \A S : IsFiniteSet(S) <=> HiveP!IsFiniteSet(S)
        /\ \A S : Cardinality(S) = HiveP!Cardinality(S)
    BY DEF IsFiniteSet, HiveP!IsFiniteSet, Cardinality, HiveP!Cardinality
  <2>2. /\ HiveP!IsFiniteSet(Workers) /\ Workers # {}
        /\ HiveP!IsFiniteSet(ResultBuffers)
        /\ HiveP!Cardinality(ResultBuffers) = HiveP!Cardinality(Workers) + 2
        /\ 1..MaxBytes \subseteq Nat \ {0}
        /\ MaxBytes \in Nat
        /\ 0 \in Nat
        /\ NoTask \notin Nat
        /\ NoBuffer \notin ResultBuffers
    BY <2>1, StreamAssumption, StreamHiveAssumption, Constants DEF Threads
  <2> QED
    BY <2>2, HiveP!Invariance
<1>2. StreamSpec => [](StreamInv /\ LinkInv /\ HiveP!IInv)
  <2>1. InitStream => HiveP!Init
    BY SameHive DEF InitStream
  <2>2. StreamInv /\ [StreamNext]_<<vars, hiveVars>>
          => [HiveP!Next]_(HiveP!vars)
    BY StepOfHive, SameHive
  <2> QED
    BY <1>1, <2>1, <2>2, LinkHolds, PTL DEF StreamSpec, HiveP!Spec
<1>3. StreamInv /\ BytesInv /\ LinkInv /\ HiveP!IInv => SinkIsStream
  <2> SUFFICES ASSUME StreamInv, BytesInv, LinkInv, HiveP!IInv, ~lent,
                      NEW i \in 1..Len(Sink)
               PROVE  Sink[i] = i - 1
    BY DEF SinkIsStream
  <2>1. PICK s \in [Nat -> Nat] : Starts(s)
    BY DEF BytesInv, Bytes
  <2>2. Sink = Count(s[Len(out)])
    BY <2>1, SinkIsCount
  <2>3. s[Len(out)] \in Nat
    BY <2>1, WrittenWasRead
  <2>4. \A m \in Nat : Len(Count(m)) = m /\ \A k \in 1..m : Count(m)[k] = k - 1
    BY DEF Count
  <2> QED
    BY <2>2, <2>3, <2>4
<1> QED
  BY <1>2, <1>3, ImplementsStream, BytesInvariance, PTL

(* What holds of the stream alone holds of the stream with its hive: every *)
(* byte is accounted for, and with one worker, as long as no task points   *)
(* into the user's array, every buffer has one holder and the put area is  *)
(* one whole buffer.                                                       *)
THEOREM StreamOfHive ==
  /\ StreamSpec => [](TypeOK /\ BytesAccounted)
  /\ Threads = 1 => (StreamSpec => [](OneHolder /\ PutAreaInBounds))
<1>1. StreamSpec => [](TypeOK /\ BytesAccounted)
  BY ImplementsStream, StreamInvariance, EveryByteIsAccounted, PTL
<1>2. ASSUME Threads = 1 PROVE StreamSpec => [](OneHolder /\ PutAreaInBounds)
  <2>1. Spec => []OneHolder
    BY <1>2, BufferHasOneHolder
  <2>2. Spec => []PutAreaInBounds
    BY <1>2, PutAreaIsABuffer
  <2> QED
    BY <2>1, <2>2, ImplementsStream, PTL
<1> QED
  BY <1>1, <1>2
=============================================================================
