---------------------------- MODULE DataModifier ----------------------------
(***************************************************************************)
(* The first generation (src/src/old_code_base): ParallelDataModifier, its *)
(* worker threads, and ParallelStreambufModifier, whose functions are the  *)
(* calls it gets.                                                          *)
(*                                                                         *)
(* The caller is one thread.  A call of the stream buffer becomes a list   *)
(* of steps (todo), which the actions below take from its front; a step    *)
(* that the code would repeat for ever without effect has no action, and   *)
(* the caller stays in front of it.  The put area is the caller's own, so  *)
(* a call settles it at once.  ParallelOstreamModifier forwards its calls. *)
(* ContinuousWriter adds the writer threads and the next-state relation.   *)
(*                                                                         *)
(* A worker keeps a reference to its element of workers_, which dangles    *)
(* when the vector grows out of its capacity: what it then reads in        *)
(* running is undefined.  A task holds a reference to a chunk that is gone *)
(* when it runs, so the contents of results are not modelled.              *)
(***************************************************************************)
EXTENDS Chunks, FiniteSetsExt, SequencesExt, Functions

CONSTANTS
  ThreadCounts,   \* arguments of the constructor and of set_threads (with
                  \* 0 of them enqueue_task would divide by zero)
  BufferSizes,    \* arguments of set_buffer_size; the first size is one too
  WriteSizes,     \* the lengths of write() calls
  MaxBytes,       \* bound: bytes of the stream
  NoTask

ASSUME ModifierAssumption ==
  /\ ThreadCounts \subseteq Nat \ {0} /\ ThreadCounts # {}
  /\ IsFiniteSet(ThreadCounts)
  /\ BufferSizes \subseteq Nat \ {0} /\ BufferSizes # {}
  /\ WriteSizes \subseteq Nat \ {0}
  /\ MaxBytes \in Nat
  /\ NoTask \notin Nat

Slots == 1..Max(ThreadCounts)    \* indices of workers_, from 1

VARIABLES
  fill, size,     \* the put area: bytes in it, and its size
  total,          \* bytes accepted so far
  chunks,         \* the sizes of all chunks; task id is chunk id + 1, and
                  \* current_id_ is their number
  tasks,          \* tasks_: the ids of the queued tasks
  results,        \* results_: the ids of the futures
  done,           \* the ids whose future is ready
  local, next_id, \* local_results and next_id_ of flush_to
  written,        \* the ids whose results were written to the stream
  threads, stop,  \* threads_, stop_
  continues,      \* continues_write_
  running,        \* workers_[i].running
  capacity,       \* the capacity of workers_
  worker_pc,      \* per slot: "none", "start", "loop", "get_task", "asleep",
                  \* "run" or "ended" (the thread has returned)
  hand,           \* per slot: the task being run
  dangling,       \* slots whose thread's reference dangles
  todo            \* what the caller's current call has still to do
areaVars   == <<fill, size, total, continues>>
queueVars  == <<chunks, results>>
flushVars  == <<local, next_id, written>>
threadVars == <<threads, running, capacity>>
workerVars == <<worker_pc, hand, dangling>>
modifierVars == <<tasks, done, stop, queueVars, flushVars, threadVars, workerVars>>
vars == <<areaVars, modifierVars, todo>>

(* The constructors: of ParallelStreambufModifier, which starts with a     *)
(* buffer, of ParallelDataModifier, which starts no thread, and of         *)
(* ParallelOstreamModifier, which puts the two together.                   *)
InitArea ==
  /\ size \in BufferSizes /\ fill = 0 /\ total = 0
  /\ continues = (threads >= 3)
InitModifier ==
  /\ threads \in ThreadCounts
  /\ chunks = <<>> /\ tasks = <<>> /\ results = <<>>
  /\ done = {} /\ local = <<>> /\ next_id = 0 /\ written = <<>>
  /\ stop = FALSE
  /\ running = <<>> /\ capacity = 0
  /\ worker_pc = [i \in Slots |-> "none"]
  /\ hand = [i \in Slots |-> NoTask]
  /\ dangling = {}
Init == InitModifier /\ InitArea /\ todo = <<>>
-----------------------------------------------------------------------------
(* What the functions do, as lists of steps.                               *)

Step(op)        == [op |-> op, n |-> 0]
StepWith(op, n) == [op |-> op, n |-> n]

FlushBuffer ==
  (IF continues THEN <<>> ELSE <<Step("flush_to")>>)
    \o <<StepWith("enqueue_task", fill)>>
FinishUp == <<Step("finish_wait"), Step("raise_stop"), StepWith("shrink", 1)>>

(* A slip of sync: the results are not fetched.                            *)
SyncUnflushed == FlushBuffer \o FinishUp
SyncAll       == FlushBuffer \o FinishUp \o <<Step("flush_to")>>

(* set_mod_function and set_threads of ParallelDataModifier.               *)
ModFunctionSteps == FinishUp \o <<StepWith("grow", threads)>>
SetThreadsSteps(n) ==
  <<StepWith("shrink", n), StepWith("grow", n), StepWith("threads", n)>>

Call(steps) ==
  /\ todo = <<>>
  /\ todo' = steps
  /\ UNCHANGED <<modifierVars, continues>>

(* xsputn: what does not fit comes after a flush, in the empty put area    *)
(* or, if it is longer than that, as a task.                               *)
Write(n) ==
  LET fits  == n <= size - fill
      large == ~fits /\ n > size
  IN
  /\ total + n <= MaxBytes
  /\ total' = total + n
  /\ fill' = CASE fits  -> fill + n
               [] large -> 0
               [] OTHER -> n
  /\ Call(IF fits THEN <<>>
          ELSE FlushBuffer
                 \o IF large THEN <<StepWith("enqueue_task", n)>> ELSE <<>>)
  /\ UNCHANGED size

(* sputc: one byte, by overflow when the put area is full.                 *)
Overflow == Write(1)

Sync ==
  /\ Call(SyncAll)
  /\ fill' = 0
  /\ UNCHANGED <<size, total>>

SetModFunction ==
  /\ Call(SyncAll \o ModFunctionSteps)
  /\ fill' = 0
  /\ UNCHANGED <<size, total>>

SetBufferSize(n) ==
  /\ Call(SyncAll)
  /\ fill' = 0
  /\ size' = n
  /\ UNCHANGED total

SetThreads(n) ==
  /\ Call(SetThreadsSteps(n))
  /\ UNCHANGED <<fill, size, total>>

(* The destructors: of the stream buffer, sync, and then of its members,   *)
(* finish_up.  The threads left in workers_ are joinable, which ends the   *)
(* program; no thread has a step after "destroyed".                        *)
Destroy ==
  /\ Call(SyncAll \o FinishUp \o <<Step("destroyed")>>)
  /\ fill' = 0
  /\ UNCHANGED <<size, total>>
-----------------------------------------------------------------------------
(* The caller's steps in ParallelDataModifier.                             *)

At(op)  == todo # <<>> /\ Head(todo).op = op
Arg     == Head(todo).n
Return  == todo' = Tail(todo)

(* call_for_task_.notify_one, n times: as many sleepers go to their test.  *)
Notify(n) ==
  LET sleepers == {i \in Slots : worker_pc[i] = "asleep"} IN
  \E woken \in kSubset(Min({n, Cardinality(sleepers)}), sleepers) :
    worker_pc' = [i \in Slots |-> IF i \in woken THEN "get_task"
                                                 ELSE worker_pc[i]]

(* ThreadTask and ThreadFuture: an id with a task, and with its future.    *)
(* Of the next n chunks, and of the last n.                                *)
ThreadTasks(n)   == [i \in 1..n |-> Len(chunks) + i - 1]
ThreadFutures(n) == [i \in 1..n |-> Len(chunks) - n + i - 1]

(* enqueue_task(data), of no data or of at least a byte for each thread    *)
(* (fewer bytes make chunks of no byte, for ever): the tasks, under one    *)
(* lock, and then their futures, under another.                            *)
EnqueueNothing ==
  /\ At("enqueue_task") /\ Arg = 0
  /\ Return
  /\ UNCHANGED <<areaVars, modifierVars>>

EnqueueTask ==
  /\ At("enqueue_task") /\ Arg >= threads
  /\ LET new == Pieces(Arg, threads) IN
       /\ chunks' = chunks \o [i \in 1..Len(new) |-> new[i].size]
       /\ tasks' = tasks \o ThreadTasks(Len(new))
       /\ Notify(Len(new))
       /\ todo' = <<StepWith("results", Len(new))>> \o Tail(todo)
  /\ UNCHANGED <<areaVars, results, hand, dangling, done, flushVars, stop,
                 threadVars>>

EnqueueResults ==
  /\ At("results")
  /\ results' = results \o ThreadFutures(Arg)
  /\ Return
  /\ UNCHANGED <<areaVars, chunks, tasks, done, flushVars, stop, threadVars,
                 workerVars>>

(* next_id_ of flush_to; and a slip of it, ids counted from 1.             *)
FirstIdFromOne == Len(chunks) - Len(results) + 1
FirstId        == Len(chunks) - Len(results)

(* flush_to and flush, first half: take all futures.  Without any they     *)
(* return.                                                                 *)
FlushSwap ==
  /\ At("flush_to") \/ At("flush")
  /\ local' = results
  /\ results' = <<>>
  /\ next_id' = FirstId
  /\ todo' = (IF results = <<>> THEN <<>>
              ELSE <<Step(IF At("flush") THEN "collect" ELSE "write")>>)
                 \o Tail(todo)
  /\ UNCHANGED <<areaVars, chunks, tasks, done, written, stop, threadVars,
                 workerVars>>

(* The results the loop asks for; and a slip of it, any that is not yet    *)
(* written.                                                                *)
DueInAnyOrder == ToSet(local) \ ToSet(written)
Due           == ToSet(local) \cap {next_id}

(* Second half: get() waits for the next result in order.  The results are *)
(* not removed, so the loop goes on when all are written, or collected.    *)
FlushWrite ==
  /\ At("write") \/ At("collect")
  /\ \E id \in Due \cap done :
       written' = IF At("write") THEN Append(written, id) ELSE written
  /\ next_id' = next_id + 1
  /\ UNCHANGED <<areaVars, queueVars, tasks, done, local, stop, threadVars,
                 workerVars, todo>>

(* finish_up: wait until no task is queued, and raise the flag - after the *)
(* lock is released, and without a notification.                           *)
FinishWait ==
  /\ At("finish_wait")
  /\ tasks = <<>>
  /\ Return
  /\ UNCHANGED <<areaVars, modifierVars>>

RaiseStop ==
  /\ At("raise_stop")
  /\ stop' = TRUE
  /\ Return
  /\ UNCHANGED <<areaVars, queueVars, tasks, done, flushVars, threadVars,
                 workerVars>>

(* The loops "while (workers_.size() > n) stop_worker()" and               *)
(* "while (workers_.size() < n) start_worker()" end.                       *)
LoopEnds ==
  /\ \/ At("shrink") /\ Len(running) <= Arg
     \/ At("grow") /\ Len(running) >= Arg
  /\ Return
  /\ UNCHANGED <<areaVars, modifierVars>>

(* workers_[i].running = false for the last one; and a slip without it.    *)
LeftRunning == running
ToldToEnd   == [running EXCEPT ![Len(running)] = FALSE]

(* stop_worker, in that loop or on its own, up to the join; the first      *)
(* worker is never stopped.                                                *)
StopWorker ==
  /\ \/ At("shrink") /\ Len(running) > Arg
     \/ At("stop_worker")
  /\ Len(running) > 1
  /\ running' = ToldToEnd
  /\ todo' = <<Step("join")>> \o IF At("shrink") THEN todo ELSE Tail(todo)
  /\ UNCHANGED <<areaVars, queueVars, tasks, done, flushVars, stop, threads,
                 capacity, workerVars>>

Join ==
  /\ At("join")
  /\ LET i == Len(running) IN
       /\ worker_pc[i] = "ended"
       /\ worker_pc' = [worker_pc EXCEPT ![i] = "none"]
       /\ dangling' = dangling \ {i}
       /\ running' = Front(running)
  /\ Return
  /\ UNCHANGED <<areaVars, queueVars, tasks, done, flushVars, stop, threads,
                 capacity, hand>>

(* The test of start_worker; and a slip, without it.                       *)
AnyRoom        == TRUE
RoomForAThread == Len(running) < threads

(* start_worker, unless there are threads_ workers already.  A full vector *)
(* moves its elements to one of twice the capacity.  The new thread may    *)
(* run before its element is there: it then looks it up in the old vector, *)
(* or, if the vector does not grow, reads running too early.               *)
Early(grows) == IF grows THEN "loop" ELSE "ended"
StartWorker ==
  /\ At("grow") /\ Len(running) < Arg
  /\ RoomForAThread
  /\ LET i == Len(running) + 1 IN
       /\ running' = Append(running, TRUE)
       /\ \E pc \in {"start", Early(i > capacity)} :
            worker_pc' = [worker_pc EXCEPT ![i] = pc]
       /\ IF i > capacity
          THEN /\ capacity' = Max({1, 2 * capacity})
               /\ dangling' = {j \in 1..i : worker_pc'[j] # "start"}
          ELSE UNCHANGED <<capacity, dangling>>
  /\ stop' = FALSE
  /\ UNCHANGED <<areaVars, queueVars, tasks, done, flushVars, threads, hand,
                 todo>>

(* The end of set_threads.                                                 *)
StoreThreads ==
  /\ At("threads")
  /\ threads' = Arg
  /\ Return
  /\ UNCHANGED <<areaVars, queueVars, tasks, done, flushVars, stop, running,
                 capacity, workerVars>>

(* What the caller does under the lock of results_, and what it does not.  *)
ResultStep == EnqueueResults \/ FlushSwap
OtherStep ==
  \/ EnqueueNothing \/ EnqueueTask \/ FlushWrite \/ FinishWait \/ RaiseStop
  \/ LoopEnds \/ StopWorker \/ Join \/ StartWorker \/ StoreThreads
-----------------------------------------------------------------------------
(* worker_thread(i): the caller's variables it does not touch.             *)
CallerUnchanged == UNCHANGED <<areaVars, queueVars, flushVars, stop, threadVars,
                               dangling, todo>>
Gone        == At("destroyed")
Goto(i, pc) == worker_pc' = [worker_pc EXCEPT ![i] = pc]

(* Worker& w = workers_[id].                                               *)
Bind(i) ==
  /\ worker_pc[i] = "start"
  /\ Goto(i, "loop")
  /\ UNCHANGED <<tasks, done, hand>> /\ CallerUnchanged

(* while (w.running); anything can be read through a dangling reference.   *)
ReadRunning(i) ==
  /\ worker_pc[i] = "loop"
  /\ \E value \in IF i \in dangling THEN BOOLEAN ELSE {running[i]} :
       Goto(i, IF value THEN "get_task" ELSE "ended")
  /\ UNCHANGED <<tasks, done, hand>> /\ CallerUnchanged

(* What a worker takes; and a slip: one told to stop drops what it took.   *)
TakenUnlessTold(i) == IF running[i] THEN Head(tasks) ELSE NoTask
Taken(i)           == Head(tasks)

(* Under the lock: take a task if there is one; without one, sleep if      *)
(* stop_ is set (the wait's predicate) and start over if it is not.  The   *)
(* caller may set stop_ between the predicate and the test after it, which *)
(* then ends the thread.                                                   *)
GetTask(i) ==
  /\ worker_pc[i] = "get_task"
  /\ IF tasks # <<>>
     THEN /\ hand' = [hand EXCEPT ![i] = Taken(i)]
          /\ tasks' = Tail(tasks)
          /\ Goto(i, "run")
     ELSE /\ \/ stop /\ Goto(i, "asleep")
             \/ ~stop /\ Goto(i, "loop")
             \/ ~stop /\ At("raise_stop") /\ Goto(i, "ended")
          /\ UNCHANGED <<tasks, hand>>
  /\ UNCHANGED done /\ CallerUnchanged

(* The task runs, and its future becomes ready.                            *)
RunTask(i) ==
  /\ worker_pc[i] = "run"
  /\ done' = done \cup {hand[i]}
  /\ hand' = [hand EXCEPT ![i] = NoTask]
  /\ Goto(i, "loop")
  /\ UNCHANGED tasks /\ CallerUnchanged

WorkerStep(i) == ~Gone /\ (Bind(i) \/ ReadRunning(i) \/ GetTask(i) \/ RunTask(i))

(* What the owner of a ParallelOstreamModifier may call.                   *)
Calls ==
  \/ \E n \in WriteSizes : Write(n)
  \/ Overflow \/ Sync \/ SetModFunction \/ Destroy
  \/ \E n \in BufferSizes : SetBufferSize(n)
  \/ \E n \in ThreadCounts : SetThreads(n)
-----------------------------------------------------------------------------
Ids == 0..(Len(chunks) - 1)

(* Types.  There are never more workers than threads_, and the workers are *)
(* the threads that were started and not joined.                           *)
WorkerPcs == {"none", "start", "loop", "get_task", "asleep", "run", "ended"}
TypeOK ==
  /\ fill \in 0..size /\ size \in BufferSizes /\ total \in 0..MaxBytes
  /\ chunks \in Seq(1..MaxBytes)
  /\ {tasks, results, local, written} \subseteq Seq(Ids) /\ done \subseteq Ids
  /\ next_id \in 0..Len(chunks)
  /\ threads \in ThreadCounts /\ {stop, continues} \subseteq BOOLEAN
  /\ running \in Seq(BOOLEAN) /\ Len(running) <= threads
  /\ capacity \in Nat /\ Len(running) <= capacity
  /\ dangling \subseteq 1..Len(running)
  /\ worker_pc \in [Slots -> WorkerPcs] /\ hand \in [Slots -> Ids \cup {NoTask}]
  /\ \A i \in Slots : /\ worker_pc[i] = "none" <=> i > Len(running)
                      /\ worker_pc[i] = "run" <=> hand[i] # NoTask

(* Every byte accepted is in the put area or in a chunk, or the current    *)
(* call has still to enqueue it; the task of a chunk is queued, or run by  *)
(* one worker, or done, also when workers are stopped and started; and its *)
(* future is with results_ or with flush_to, or about to be stored.        *)
InHand == {i \in Slots : hand[i] # NoTask}
Pending == {i \in DOMAIN todo : todo[i].op = "enqueue_task"}
ChunkBytes   == UNION {{i} \X (1..chunks[i]) : i \in DOMAIN chunks}
PendingBytes == UNION {{i} \X (1..todo[i].n) : i \in Pending}
TaskKept ==
  /\ total = fill + Cardinality(ChunkBytes) + Cardinality(PendingBytes)
  /\ Ids = ToSet(tasks) \cup {hand[i] : i \in InHand} \cup done
  /\ Len(chunks) = Len(tasks) + Cardinality(InHand) + Cardinality(done)
  /\ LET futures ==
           local \o results \o IF At("results") THEN ThreadFutures(Arg) ELSE <<>>
     IN  ToSet(futures) = Ids /\ Len(futures) = Len(chunks)

(* A flush_to that has results writes them all, unless every worker is     *)
(* gone: one may leave in the window of GetTask, for ever if it is the     *)
(* first, and any through a dangling reference.                            *)
Flushed   == ToSet(local) \subseteq ToSet(written)
NoWorkers == \A i \in Slots : worker_pc[i] \in {"none", "ended"}
FlushWritesAll == At("write") ~> (Flushed \/ NoWorkers)

(* A join of a worker ends, or the worker sleeps, which it does only when  *)
(* stop_ is set, or the worker's reference dangles.                        *)
JoinEndsOrSleeps ==
  At("join") ~> \/ ~At("join")
                \/ stop /\ worker_pc[Len(running)] = "asleep"
                \/ Len(running) \in dangling
=============================================================================
