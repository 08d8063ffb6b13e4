----------------------------- MODULE WorkerHive -----------------------------
(***************************************************************************)
(* ThreadWorkerHive and the task queue of StreamBuffer_t that feeds it     *)
(* (src/src/Streambuf_Modifier_t.{h,cpp}).                                 *)
(*                                                                         *)
(* Threads: one caller (the thread that owns the stream: it enqueues tasks *)
(* and finally runs stop()), the worker bees, and the writing queen bee.   *)
(* Every critical section of the code is one action, because every shared  *)
(* member is read and written only under its mutex:                        *)
(*    task_lock_       task_queue, next_id                                 *)
(*    worker_bee_stop_ empty_result_queue                                  *)
(*    bee_stop_        results, write_id, stopping                         *)
(* A thread asleep on a condition variable has a pc of its own; notify_all *)
(* moves every sleeper back to its test, notify_one moves one sleeper.     *)
(*                                                                         *)
(* The bytes of a task are StreamBuffer's concern; here a task is its id,  *)
(* and a result buffer holds the id of the task whose output it contains.  *)
(***************************************************************************)
EXTENDS Integers, Sequences, FiniteSets, Functions

CONSTANTS
  Workers,        \* the threads of worker_bees_
  ResultBuffers,  \* the buffers start_workers allocates: threads + 2
  Batches,        \* how many tasks one enqueue_task call may push
  MaxTasks,       \* bound of the model: tasks submitted in a behaviour
  WriteId0,       \* what write_id_ holds when the writer starts: the member
                  \* has no initialiser and only reset() assigns it
  NoTask, NoBuffer

ASSUME HiveAssumption ==
  /\ IsFiniteSet(Workers) /\ Workers # {}
  /\ IsFiniteSet(ResultBuffers)
  /\ Cardinality(ResultBuffers) = Cardinality(Workers) + 2
  /\ Batches \subseteq Nat \ {0}
  /\ MaxTasks \in Nat
  /\ WriteId0 \in Nat
  /\ NoTask \notin Nat
  /\ NoBuffer \notin ResultBuffers

VARIABLES
  task_queue,          \* ids of the queued tasks, oldest first
  next_id,             \* the id the next task gets
  empty_result_queue,  \* the free result buffers (the code's FIFO order of
                       \* equal buffers is abstracted to a choice)
  results,             \* finished, unwritten: task id -> result buffer
  write_id,            \* the id the writer waits for
  stopping,            \* the flag stop() raises for the writer
  worker_pc, task, res,    \* per worker: control, local task, local buffer
  writer_pc, writer_res,   \* the writer: control, local buffer
  caller_pc,           \* the owner of the stream
  content,             \* result buffer -> task whose output func_ put there
  out                  \* what writing_sink_ received: one task id per sputn

callVars   == <<task_queue, next_id>>
workerVars == <<worker_pc, task, res>>
writerVars == <<writer_pc, writer_res>>
vars == <<task_queue, next_id, empty_result_queue, results, write_id,
          stopping, worker_pc, task, res, writer_pc, writer_res, caller_pc,
          content, out>>

(* start_workers has run: stopping_ is false, threads + 2 result buffers   *)
(* are free, every worker is about to call get_task.                       *)
Init ==
  /\ task_queue = <<>>
  /\ next_id = 0
  /\ empty_result_queue = ResultBuffers
  /\ results = [id \in {} |-> NoBuffer]
  /\ write_id = WriteId0
  /\ stopping = FALSE
  /\ worker_pc = [w \in Workers |-> "get_task"]
  /\ task = [w \in Workers |-> NoTask]
  /\ res = [w \in Workers |-> NoBuffer]
  /\ writer_pc = "check"
  /\ writer_res = NoBuffer
  /\ caller_pc = "stream"
  /\ content = [b \in ResultBuffers |-> NoTask]
  /\ out = <<>>
-----------------------------------------------------------------------------
(* Condition variables.                                                    *)

(* notify_all on task_go_ or on worker_bee_go_: the workers asleep at pc   *)
(* "from" test their condition again.  The slip of it is a call forgotten. *)
WakeNobody(from, to) == UNCHANGED worker_pc
WakeWorkers(from, to) ==
  worker_pc' = [w \in Workers |-> IF worker_pc[w] = from THEN to
                                                         ELSE worker_pc[w]]

(* Where the thread that sleeps at a wait in stop() continues.             *)
AfterWait == [drain_wait |-> "stop_drain", loop_wait |-> "stop_loop"]
CallerAsleep == caller_pc \in DOMAIN AfterWait

(* notify_one on bee_go_, on which the writer and the thread in stop() may *)
(* both sleep: one of them is woken, whichever the runtime picks.  Again   *)
(* the slip is a call forgotten.                                           *)
NotifyNoBee == UNCHANGED <<writer_pc, caller_pc>>
NotifyOneBee ==
  \/ /\ writer_pc = "asleep"
     /\ writer_pc' = "check"
     /\ UNCHANGED caller_pc
  \/ /\ CallerAsleep
     /\ caller_pc' = AfterWait[caller_pc]
     /\ UNCHANGED writer_pc
  \/ /\ writer_pc # "asleep" /\ ~CallerAsleep
     /\ UNCHANGED <<writer_pc, caller_pc>>
-----------------------------------------------------------------------------
(* The caller while it writes to the stream.                               *)

(* StreamBuffer_t::enqueue_task: k tasks with consecutive ids, pushed      *)
(* under one hold of task_lock_, then notify_all.                          *)
EnqueueTask(k) ==
  /\ caller_pc = "stream"
  /\ next_id + k <= MaxTasks
  /\ task_queue' = task_queue \o [i \in 1..k |-> next_id + i - 1]
  /\ next_id' = next_id + k
  /\ WakeWorkers("task_wait", "get_task")
  /\ UNCHANGED <<empty_result_queue, results, write_id, stopping, task, res,
                 writerVars, caller_pc, content, out>>
-----------------------------------------------------------------------------
(* ThreadWorkerHive::worker_loop.                                          *)

(* StreamBuffer_t::get_task: sleep on task_go_ until the queue has a task, *)
(* then pop the oldest.  Its "return false" needs an empty queue right     *)
(* after the wait for a non-empty one, so no step of a worker ends it.     *)
GetTask(w) ==
  /\ worker_pc[w] = "get_task"
  /\ \/ /\ task_queue = <<>>
        /\ worker_pc' = [worker_pc EXCEPT ![w] = "task_wait"]
        /\ UNCHANGED <<task_queue, task>>
     \/ /\ task_queue # <<>>
        /\ worker_pc' = [worker_pc EXCEPT ![w] = "get_result_buffer"]
        /\ task' = [task EXCEPT ![w] = Head(task_queue)]
        /\ task_queue' = Tail(task_queue)
  /\ UNCHANGED <<next_id, empty_result_queue, results, write_id, stopping,
                 res, writerVars, caller_pc, content, out>>

(* get_result_buffer: sleep on worker_bee_go_ until a buffer is free.      *)
GetResultBuffer(w) ==
  /\ worker_pc[w] = "get_result_buffer"
  /\ \/ /\ empty_result_queue = {}
        /\ worker_pc' = [worker_pc EXCEPT ![w] = "buffer_wait"]
        /\ UNCHANGED <<empty_result_queue, res>>
     \/ \E b \in empty_result_queue :
        /\ res' = [res EXCEPT ![w] = b]
        /\ empty_result_queue' = empty_result_queue \ {b}
        /\ worker_pc' = [worker_pc EXCEPT ![w] = "compute"]
  /\ UNCHANGED <<callVars, results, write_id, stopping, task, writerVars,
                 caller_pc, content, out>>

(* func_ runs outside every lock and fills the worker's result buffer.     *)
Compute(w) ==
  /\ worker_pc[w] = "compute"
  /\ content' = [content EXCEPT ![res[w]] = task[w]]
  /\ worker_pc' = [worker_pc EXCEPT ![w] = "publish"]
  /\ UNCHANGED <<callVars, empty_result_queue, results, write_id, stopping,
                 task, res, writerVars, caller_pc, out>>

(* results_[task.id_] = (res, size) and notify_one, under bee_stop_.  The  *)
(* give_back_buffer that follows returns the input buffer only.            *)
Publish(w) ==
  /\ worker_pc[w] = "publish"
  /\ results' = [id \in DOMAIN results \cup {task[w]} |->
                   IF id = task[w] THEN res[w] ELSE results[id]]
  /\ NotifyOneBee
  /\ worker_pc' = [worker_pc EXCEPT ![w] = "get_task"]
  /\ task' = [task EXCEPT ![w] = NoTask]
  /\ res' = [res EXCEPT ![w] = NoBuffer]
  /\ UNCHANGED <<callVars, empty_result_queue, write_id, stopping, writer_res,
                 content, out>>

WorkerStep(w) ==
  GetTask(w) \/ GetResultBuffer(w) \/ Compute(w) \/ Publish(w)
-----------------------------------------------------------------------------
(* ThreadWorkerHive::writer_loop.                                          *)

(* The wait: neither told to stop nor the next result there.               *)
WriterSleep ==
  /\ writer_pc = "check"
  /\ ~stopping /\ write_id \notin DOMAIN results
  /\ writer_pc' = "asleep"
  /\ UNCHANGED <<callVars, empty_result_queue, results, write_id, stopping,
                 workerVars, writer_res, caller_pc, content, out>>

(* Told to stop and nothing stored: leave the loop.  (Told to stop while   *)
(* only later results are stored, the code spins: no step here.)           *)
WriterExit ==
  /\ writer_pc = "check"
  /\ stopping /\ DOMAIN results = {}
  /\ writer_pc' = "done"
  /\ UNCHANGED <<callVars, empty_result_queue, results, write_id, stopping,
                 workerVars, writer_res, caller_pc, content, out>>

(* Slips of writer_loop: results_.begin() for results_.find(write_id_); no *)
(* results_.erase.                                                         *)
WriterTakeFirst ==
  /\ writer_pc = "check"
  /\ \E id \in DOMAIN results :
       /\ writer_res' = results[id]
       /\ results' = Restrict(results, DOMAIN results \ {id})
  /\ write_id' = write_id + 1
  /\ writer_pc' = "sputn"
  /\ UNCHANGED <<callVars, empty_result_queue, stopping, workerVars,
                 caller_pc, content, out>>
WriterTakeNoErase ==
  /\ writer_pc = "check"
  /\ write_id \in DOMAIN results
  /\ writer_res' = results[write_id]
  /\ write_id' = write_id + 1
  /\ writer_pc' = "sputn"
  /\ UNCHANGED <<callVars, empty_result_queue, results, stopping, workerVars,
                 caller_pc, content, out>>

(* Take the next result out of the map.  Nobody is notified.               *)
WriterTake ==
  /\ writer_pc = "check"
  /\ write_id \in DOMAIN results
  /\ writer_res' = results[write_id]
  /\ results' = Restrict(results, DOMAIN results \ {write_id})
  /\ write_id' = write_id + 1
  /\ writer_pc' = "sputn"
  /\ UNCHANGED <<callVars, empty_result_queue, stopping, workerVars,
                 caller_pc, content, out>>

(* writing_sink_->sputn, outside the lock.                                 *)
WriterSputn ==
  /\ writer_pc = "sputn"
  /\ out' = Append(out, content[writer_res])
  /\ writer_pc' = "give_back"
  /\ UNCHANGED <<callVars, empty_result_queue, results, write_id, stopping,
                 workerVars, writer_res, caller_pc, content>>

(* A slip of give_back_result: the pointer is cleared first.               *)
GiveBackResultCleared ==
  /\ writer_pc = "give_back"
  /\ writer_res' = NoBuffer
  /\ empty_result_queue' = empty_result_queue \cup {writer_res'}
  /\ WakeWorkers("buffer_wait", "get_result_buffer")
  /\ writer_pc' = "check"
  /\ UNCHANGED <<callVars, results, write_id, stopping, task, res, caller_pc,
                 content, out>>

(* give_back_result: free the buffer, notify_all on worker_bee_go_.        *)
GiveBackResult ==
  /\ writer_pc = "give_back"
  /\ empty_result_queue' = empty_result_queue \cup {writer_res}
  /\ WakeWorkers("buffer_wait", "get_result_buffer")
  /\ writer_pc' = "check"
  /\ writer_res' = NoBuffer
  /\ UNCHANGED <<callVars, results, write_id, stopping, task, res, caller_pc,
                 content, out>>

WriterStep ==
  WriterSleep \/ WriterExit \/ WriterTake \/ WriterSputn \/ GiveBackResult
-----------------------------------------------------------------------------
(* ThreadWorkerHive::stop, run by the caller.                              *)

(* A slip of stop: the queue is not inspected.                             *)
StopBeginAnyway ==
  /\ caller_pc = "stream"
  /\ caller_pc' = "stop_drain"
  /\ UNCHANGED <<callVars, empty_result_queue, results, write_id, stopping,
                 workerVars, writerVars, content, out>>

(* The queue is inspected under task_lock_; only an empty queue leads to   *)
(* the branch that raises stopping_.                                       *)
is_task_queue_empty == task_queue = <<>>
StopBegin ==
  /\ caller_pc = "stream"
  /\ caller_pc' = IF is_task_queue_empty THEN "stop_drain" ELSE "stop_loop"
  /\ UNCHANGED <<callVars, empty_result_queue, results, write_id, stopping,
                 workerVars, writerVars, content, out>>

(* Wait on bee_go_ until no result is stored, then raise the flag and      *)
(* notify_all.                                                             *)
StopDrain ==
  /\ caller_pc = "stop_drain"
  /\ \/ /\ DOMAIN results # {}
        /\ caller_pc' = "drain_wait"
        /\ UNCHANGED <<stopping, writer_pc>>
     \/ /\ DOMAIN results = {}
        /\ stopping' = TRUE
        /\ writer_pc' = IF writer_pc = "asleep" THEN "check" ELSE writer_pc
        /\ caller_pc' = "stop_loop"
  /\ UNCHANGED <<callVars, empty_result_queue, results, write_id, workerVars,
                 writer_res, content, out>>

(* The second loop waits for an empty map again, then joins the workers,   *)
(* none of which ever returns.                                             *)
StopLoop ==
  /\ caller_pc = "stop_loop"
  /\ caller_pc' = IF DOMAIN results = {} THEN "join" ELSE "loop_wait"
  /\ UNCHANGED <<callVars, empty_result_queue, results, write_id, stopping,
                 workerVars, writerVars, content, out>>

StopStep == StopBegin \/ StopDrain \/ StopLoop
-----------------------------------------------------------------------------
(* The stream while it is in use, and its whole life with stop().          *)
StreamNext ==
  \/ \E k \in Batches : EnqueueTask(k)
  \/ \E w \in Workers : WorkerStep(w)
  \/ WriterStep

Next == StreamNext \/ StopStep

Spec == Init /\ [][Next]_vars

(* The operating system runs every thread that can run; the mutexes are    *)
(* held for a bounded time, so a step that stays possible is taken.        *)
Fairness ==
  /\ \A w \in Workers : WF_vars(WorkerStep(w))
  /\ WF_vars(WriterStep)

StreamSpec     == Init /\ [][StreamNext]_vars
FairStreamSpec == StreamSpec /\ Fairness

(* The caller's thread, once in stop(), runs when it can.                  *)
FairStopSpec == Spec /\ Fairness /\ WF_vars(StopDrain \/ StopLoop)
-----------------------------------------------------------------------------
(* Where a task or a result buffer is.                                     *)

InHand(w) == task[w] # NoTask
Taken     == 0 .. (next_id - Len(task_queue) - 1)   \* popped from the queue
WriterHas == writer_pc \in {"sputn", "give_back"}
Unwritten == {id \in 0 .. (next_id - 1) : id \notin WriteId0 .. (write_id - 1)}

QueueTypeOK ==
  /\ task_queue \in Seq(Nat)
  /\ next_id \in Nat
ResultsTypeOK ==
  /\ empty_result_queue \in SUBSET ResultBuffers
  /\ DOMAIN results \subseteq Nat
  /\ results \in [DOMAIN results -> ResultBuffers]
  /\ write_id \in Nat
  /\ stopping \in BOOLEAN
WorkersTypeOK ==
  /\ worker_pc \in [Workers -> {"get_task", "task_wait", "get_result_buffer",
                                "buffer_wait", "compute", "publish"}]
  /\ task \in [Workers -> Nat \cup {NoTask}]
  /\ res \in [Workers -> ResultBuffers \cup {NoBuffer}]
ControlTypeOK ==
  /\ writer_pc \in {"check", "asleep", "sputn", "give_back", "done"}
  /\ writer_res \in ResultBuffers \cup {NoBuffer}
  /\ caller_pc \in {"stream", "stop_drain", "drain_wait", "stop_loop",
                    "loop_wait", "join"}
OutputTypeOK ==
  /\ content \in [ResultBuffers -> Nat \cup {NoTask}]
  /\ out \in Seq(Nat \cup {NoTask})
TypeOK ==
  QueueTypeOK /\ ResultsTypeOK /\ WorkersTypeOK /\ ControlTypeOK /\ OutputTypeOK

(* Results are completed in any order and by any worker, but the sink gets *)
(* the output of the tasks in the order in which enqueue_task numbered     *)
(* them: no output twice, none skipped, none read from a buffer another    *)
(* worker has meanwhile filled.                                            *)
OutInOrder == \A i \in 1..Len(out) : out[i] = WriteId0 + i - 1

(* A task that left the queue is in the hands of one worker, or stored in  *)
(* results_, or taken by the writer: never lost, never in two places.      *)
TaskConservation ==
  /\ Taken = {task[w] : w \in {v \in Workers : InHand(v)}} \cup DOMAIN results
               \cup WriteId0 .. (write_id - 1)
  /\ \A w \in Workers : InHand(w) => /\ task[w] \notin DOMAIN results
                                     /\ task[w] \notin WriteId0 .. (write_id - 1)
  /\ \A v, w \in Workers : InHand(v) /\ task[v] = task[w] => v = w
  /\ DOMAIN results \cap WriteId0 .. (write_id - 1) = {}
  /\ \A i \in 1..Len(task_queue) :
       task_queue[i] = next_id - Len(task_queue) + i - 1

(* A result buffer is free, or with one worker, or stored under one id, or *)
(* with the writer: never leaked and never shared by two of them.          *)
BufferOwnership ==
  /\ ResultBuffers = empty_result_queue
        \cup {res[w] : w \in {v \in Workers : res[v] # NoBuffer}}
        \cup {results[id] : id \in DOMAIN results}
        \cup (IF WriterHas THEN {writer_res} ELSE {})
  /\ \A w \in Workers : res[w] # NoBuffer =>
       /\ res[w] \notin empty_result_queue
       /\ \A id \in DOMAIN results : results[id] # res[w]
       /\ \A v \in Workers : res[v] = res[w] => v = w
       /\ WriterHas => writer_res # res[w]
  /\ \A id \in DOMAIN results :
       /\ results[id] \notin empty_result_queue
       /\ \A jd \in DOMAIN results : results[jd] = results[id] => id = jd
       /\ WriterHas => writer_res # results[id]
  /\ WriterHas => writer_res \notin empty_result_queue

(* The hive is an ordered pipe: each step submits tasks, or hands the next *)
(* result to the sink, or is invisible.                                    *)
Pipe == INSTANCE OrderedPipe WITH submitted <- next_id, delivered <- out
PipeSpec == Pipe!Spec

(* stop() raises the flag only in a state in which, and after which, the   *)
(* task queue is empty, although it looked at the queue under another lock *)
(* and earlier.                                                            *)
StopAfterQueueDrained == stopping => task_queue = <<>>

(* A writer that left its loop leaves at most one task per worker          *)
(* unwritten: the ones the workers had in hand when the flag was raised.   *)
LossBoundedByWorkers ==
  writer_pc = "done" => Cardinality(Unwritten) <= Cardinality(Workers)

(* No thread sleeps on something that is there: while the stream is in use *)
(* the single notify_one of a publishing worker reaches the writer (stop() *)
(* may sleep on the same condition variable and be woken in its place),    *)
(* and the workers' two notify_all leave nobody behind, ever.              *)
NoLostWakeup ==
  /\ writer_pc = "asleep" /\ caller_pc = "stream" =>
       write_id \notin DOMAIN results
  /\ \A w \in Workers : /\ worker_pc[w] = "task_wait" => task_queue = <<>>
                        /\ worker_pc[w] = "buffer_wait" => empty_result_queue = {}

(* The stream is in use, tasks are unwritten, and every thread of the hive *)
(* sleeps.                                                                 *)
Stalled ==
  /\ caller_pc = "stream" /\ Len(out) < next_id
  /\ writer_pc = "asleep"
  /\ \A w \in Workers : worker_pc[w] \in {"task_wait", "buffer_wait"}

(* While the stream is in use the hive comes to a standstill in one way    *)
(* only: every result buffer holds the result of a later task and the      *)
(* worker with the next task waits for a buffer.  More tasks are then      *)
(* outstanding than there are result buffers.                              *)
StallOnlyByExhaustion ==
  Stalled /\ WriteId0 = 0 =>
    /\ empty_result_queue = {}
    /\ Cardinality(DOMAIN results) = Cardinality(ResultBuffers)
    /\ \E w \in Workers : worker_pc[w] = "buffer_wait" /\ task[w] = write_id
    /\ next_id - Len(out) > Cardinality(ResultBuffers)

(* Every result buffer is stored, and none under the id the writer needs.  *)
Exhausted ==
  /\ Cardinality(DOMAIN results) = Cardinality(ResultBuffers)
  /\ write_id \notin DOMAIN results

(* Every task that enqueue_task accepted reaches the sink, unless the hive *)
(* runs out of result buffers in that way; by StallOnlyByExhaustion it     *)
(* cannot while no more tasks than result buffers are outstanding.         *)
DeliveredUnlessExhausted ==
  \A n \in 1..MaxTasks : (next_id >= n) ~> (Len(out) >= n \/ Exhausted)

(* Every task that enqueue_task accepted reaches the sink.  False: with a  *)
(* task more than result buffers the standstill can happen.                *)
EveryTaskDelivered ==
  \A n \in 1..MaxTasks : (next_id >= n) ~> (Len(out) >= n)

(* When the writer has left its loop, every submitted task was written.    *)
(* False: stop() does not wait for the tasks the workers have in hand.     *)
WriterDrainsBeforeExit == writer_pc = "done" => Len(out) = next_id

(* A sleeping writer is woken when the result it waits for is stored.      *)
(* False once stop() sleeps on the same condition variable: the worker's   *)
(* notify_one may wake that thread instead.                                *)
WriterNoticesResult ==
  (writer_pc = "asleep" /\ write_id \in DOMAIN results) ~> writer_pc # "asleep"
-----------------------------------------------------------------------------
(* The inductive invariant behind the safety properties above.             *)

(* A thread's local variables are set exactly where it uses them.          *)
ControlInv ==
  /\ \A w \in Workers :
       /\ InHand(w) <=> worker_pc[w] \in {"get_result_buffer", "buffer_wait",
                                         "compute", "publish"}
       /\ res[w] # NoBuffer <=> worker_pc[w] \in {"compute", "publish"}
  /\ WriterHas <=> writer_res # NoBuffer

(* The queue holds the last ids given out, in order.                       *)
QueueInv ==
  /\ Len(task_queue) <= next_id
  /\ \A i \in 1..Len(task_queue) :
       task_queue[i] = next_id - Len(task_queue) + i - 1

(* Where the popped tasks are, element by element.                         *)
Popped(id)  == id < next_id - Len(task_queue)
Written(id) == WriteId0 <= id /\ id < write_id
TaskInv ==
  /\ WriteId0 <= write_id
  /\ \A w \in Workers : InHand(w) => /\ Popped(task[w])
                                     /\ task[w] \notin DOMAIN results
                                     /\ ~Written(task[w])
  /\ \A v, w \in Workers : InHand(v) /\ task[v] = task[w] => v = w
  /\ \A id \in DOMAIN results : Popped(id) /\ ~Written(id)
  /\ \A id \in WriteId0 .. (write_id - 1) : Popped(id)
  /\ \A id \in Taken :
       \/ \E w \in Workers : task[w] = id
       \/ id \in DOMAIN results
       \/ Written(id)

(* Where the result buffers are, element by element.                       *)
BufferInv ==
  /\ \A w \in Workers : res[w] # NoBuffer => /\ res[w] \notin empty_result_queue
                                             /\ res[w] # writer_res
  /\ \A v, w \in Workers : res[v] # NoBuffer /\ res[v] = res[w] => v = w
  /\ \A w \in Workers, id \in DOMAIN results : results[id] # res[w]
  /\ \A id \in DOMAIN results : /\ results[id] \notin empty_result_queue
                                /\ results[id] # writer_res
  /\ \A id, jd \in DOMAIN results : results[id] = results[jd] => id = jd
  /\ writer_res \notin empty_result_queue
  /\ \A b \in ResultBuffers :
       \/ b \in empty_result_queue
       \/ \E w \in Workers : res[w] = b
       \/ \E id \in DOMAIN results : results[id] = b
       \/ writer_res = b

(* A buffer holds the output of the task it stands for until the sink has  *)
(* taken it.                                                               *)
ContentInv ==
  /\ \A w \in Workers : worker_pc[w] = "publish" => content[res[w]] = task[w]
  /\ \A id \in DOMAIN results : content[results[id]] = id
  /\ writer_pc = "sputn" => content[writer_res] = write_id - 1

(* write_id counts what the sink has received, and what the writer is      *)
(* about to hand to it.                                                    *)
OutInv ==
  /\ OutInOrder
  /\ Len(out) = write_id - WriteId0 - (IF writer_pc = "sputn" THEN 1 ELSE 0)

(* The thread in stop() has left the stream; once it waits for the map to  *)
(* drain, nothing enters the queue.                                        *)
StopInv ==
  /\ caller_pc \in {"stop_drain", "drain_wait"} => task_queue = <<>>
  /\ stopping => task_queue = <<>> /\ caller_pc \in {"stop_loop", "loop_wait",
                                                     "join"}

IInv == /\ TypeOK /\ ControlInv /\ QueueInv /\ TaskInv /\ BufferInv
        /\ ContentInv /\ OutInv /\ StopInv
=============================================================================
