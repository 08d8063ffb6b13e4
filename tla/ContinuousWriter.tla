-------------------------- MODULE ContinuousWriter --------------------------
(***************************************************************************)
(* DataModifier with the other way to get at the results of a              *)
(* ParallelDataModifier: flush_to(os, true) exchanges a worker for a       *)
(* thread that writes results as they come.  The stream buffer never calls *)
(* it.  A behaviour is either that of a ParallelOstreamModifier or that of *)
(* a ParallelDataModifier used directly, as src/src/tests/Stress_test.cpp  *)
(* does: set_mod_function, flush_to(os, true), then enqueue_task and       *)
(* flush_to(os, true) in turn, and the destructor.                         *)
(*                                                                         *)
(* A writer holds the lock of results_ from its test to the end of its     *)
(* write ("get"), also while it waits for the future.                      *)
(***************************************************************************)
EXTENDS DataModifier

CONSTANT MaxWriters    \* bound: the writers started in a behaviour

ASSUME WriterAssumption == MaxWriters \in Nat \ {0}

VARIABLES
  direct,           \* a ParallelDataModifier is used directly
  write_id,         \* the member next_id_
  writer_pc,        \* writers_: per writer "start", "loop", "lock", "get",
                    \* "join", "asleep" or "ended"
  writer_capacity,  \* the capacity of writers_
  writer_dangling   \* writers whose reference into writers_ dangles
writerVars == <<direct, write_id, writer_pc, writer_capacity, writer_dangling>>
allVars    == <<vars, writerVars>>

Writers == DOMAIN writer_pc

(* The first call of flush_to(os, true) belongs to the start.              *)
ContinueSteps == <<Step("stop_worker"), Step("start_writer")>>
InitAll ==
  /\ InitModifier /\ InitArea
  /\ direct \in BOOLEAN
  /\ direct => size = Max(BufferSizes)    \* there is no put area
  /\ todo = IF direct THEN ModFunctionSteps \o ContinueSteps ELSE <<>>
  /\ write_id = 1
  /\ writer_pc = <<>> /\ writer_capacity = 0 /\ writer_dangling = {}
-----------------------------------------------------------------------------
(* The caller.                                                             *)

EnqueueAndContinue(n) ==
  /\ direct
  /\ total + n <= MaxBytes
  /\ Len(writer_pc) < MaxWriters
  /\ total' = total + n
  /\ Call(<<StepWith("enqueue_task", n)>> \o ContinueSteps)
  /\ UNCHANGED <<fill, size, writerVars>>

Flush ==
  /\ direct
  /\ Call(<<Step("flush")>>)
  /\ UNCHANGED <<areaVars, writerVars>>

(* The destructor; the test's data has at least one piece.                 *)
DestroyModifier ==
  /\ direct
  /\ chunks # <<>>
  /\ Call(FinishUp \o <<Step("destroyed")>>)
  /\ UNCHANGED <<areaVars, writerVars>>

(* stop_worker when there is at most one.                                  *)
KeepWorker ==
  /\ At("stop_worker") /\ Len(running) <= 1
  /\ Return
  /\ UNCHANGED <<areaVars, modifierVars, writerVars>>

(* start_writer: another stop_worker if there are threads_ threads, then   *)
(* the thread.                                                             *)
StartWriter ==
  /\ At("start_writer")
  /\ todo' = (IF Len(running) + Len(writer_pc) >= threads
              THEN <<Step("stop_worker")>> ELSE <<>>)
               \o <<Step("add_writer")>> \o Tail(todo)
  /\ UNCHANGED <<areaVars, modifierVars, writerVars>>

AddWriter ==
  /\ At("add_writer")
  /\ \E pc \in {"start", Early(Len(writer_pc) = writer_capacity)} :
       writer_pc' = Append(writer_pc, pc)
  /\ IF Len(writer_pc) = writer_capacity
     THEN /\ writer_capacity' = Max({1, 2 * writer_capacity})
          /\ writer_dangling' = {j \in DOMAIN writer_pc' : writer_pc'[j] # "start"}
     ELSE UNCHANGED <<writer_capacity, writer_dangling>>
  /\ Return
  /\ UNCHANGED <<areaVars, modifierVars, direct, write_id>>
-----------------------------------------------------------------------------
(* writer_thread(os, j).                                                   *)

WriterGoto(j, pc) == writer_pc' = [writer_pc EXCEPT ![j] = pc]
ResultLockFree    == \A j \in Writers : writer_pc[j] \notin {"get", "join"}

(* call_for_result_.notify_one, n times.                                   *)
NotifyWriters(n) ==
  /\ LET sleepers == {j \in Writers : writer_pc[j] = "asleep"} IN
     \E woken \in kSubset(Min({n, Cardinality(sleepers)}), sleepers) :
       writer_pc' = [j \in Writers |-> IF j \in woken THEN "lock"
                                                     ELSE writer_pc[j]]
  /\ UNCHANGED <<direct, write_id, writer_capacity, writer_dangling>>

WriterBind(j) ==
  /\ writer_pc[j] = "start"
  /\ WriterGoto(j, "loop")
  /\ UNCHANGED <<vars, direct, write_id, writer_capacity, writer_dangling>>

WriterReadRunning(j) ==
  /\ writer_pc[j] = "loop"
  /\ \E value \in IF j \in writer_dangling THEN BOOLEAN ELSE {TRUE} :
       WriterGoto(j, IF value THEN "lock" ELSE "ended")
  /\ UNCHANGED <<vars, direct, write_id, writer_capacity, writer_dangling>>

(* The search in results_; and a slip of it, which looks at the oldest     *)
(* result only.                                                            *)
FoundInFront == results # <<>> /\ Head(results) = write_id
Found        == write_id \in ToSet(results)

(* start_worker returns at once, and so does stop_writer; it would join    *)
(* the last writer otherwise.                                              *)
StartWorkerReturns == Len(running) + Len(writer_pc) >= threads
StopWriterReturns  == Len(writer_pc) <= 1

(* What the loop does under the lock, with a task left to come or without. *)
Search == IF Found THEN "get" ELSE "loop"
Ahead  == IF StopWriterReturns THEN "loop" ELSE "join"

(* The predicate of the wait does not look at results_; as in GetTask, the *)
(* caller may set stop_ between it and the test after it.  With no task    *)
(* left to come (write_id > current_id_) the writer calls start_worker,    *)
(* which by WriterAlone returns at once, and stop_writer.                  *)
WriterTest(j) ==
  LET ahead == write_id > Len(chunks)
      sleeps == tasks = <<>> /\ stop /\ ~ahead
  IN
  /\ writer_pc[j] = "lock"
  /\ ResultLockFree
  /\ \/ sleeps /\ WriterGoto(j, "asleep")
     \/ ~sleeps /\ results = <<>> /\ (stop \/ At("raise_stop"))
          /\ WriterGoto(j, "ended")
     \/ ~sleeps /\ ~(results = <<>> /\ stop)
          /\ WriterGoto(j, IF ahead THEN Ahead ELSE Search)
  /\ UNCHANGED <<vars, direct, write_id, writer_capacity, writer_dangling>>

(* ++next_id_; and a slip, which has it twice.                             *)
NextWriteIdTwice == write_id + 2
NextWriteId      == write_id + 1

(* get() waits; the result is erased only if it is the oldest.             *)
WriterWrite(j) ==
  /\ writer_pc[j] = "get"
  /\ write_id \in done
  /\ written' = Append(written, write_id)
  /\ write_id' = NextWriteId
  /\ results' = IF Head(results) = write_id THEN Tail(results) ELSE results
  /\ WriterGoto(j, "loop")
  /\ UNCHANGED <<areaVars, tasks, done, chunks, local, next_id, stop, threadVars,
                 workerVars, todo, direct, writer_capacity, writer_dangling>>

WriterStep(j) ==
  /\ ~Gone
  /\ WriterBind(j) \/ WriterReadRunning(j) \/ WriterTest(j) \/ WriterWrite(j)
-----------------------------------------------------------------------------
CallerRuns ==
  \/ OtherStep /\ UNCHANGED writerVars
  \/ ResultStep /\ ResultLockFree
       /\ IF At("results") THEN NotifyWriters(Arg) ELSE UNCHANGED writerVars
  \/ KeepWorker \/ StartWriter \/ AddWriter

WorkerRuns(i) ==
  /\ WorkerStep(i)
  /\ IF worker_pc[i] = "run" THEN NotifyWriters(1) ELSE UNCHANGED writerVars

DirectCalls ==
  (\E n \in WriteSizes : EnqueueAndContinue(n)) \/ Flush \/ DestroyModifier

Next ==
  \/ ~direct /\ Calls /\ UNCHANGED writerVars
  \/ DirectCalls
  \/ CallerRuns
  \/ \E i \in Slots : WorkerRuns(i)
  \/ \E j \in 1..MaxWriters : j \in Writers /\ WriterStep(j)

Spec == InitAll /\ [][Next]_allVars

(* The threads run when they can, the caller once it is in a call.         *)
FairSpec ==
  /\ Spec
  /\ \A i \in Slots : WF_allVars(WorkerRuns(i))
  /\ \A j \in 1..MaxWriters : WF_allVars(j \in Writers /\ WriterStep(j))
  /\ WF_allVars(CallerRuns)
-----------------------------------------------------------------------------
(* Types, of both modules.                                                 *)
AllTypeOK ==
  /\ TypeOK
  /\ direct \in BOOLEAN
  /\ write_id \in 1..(MaxBytes + 1)
  /\ writer_pc \in Seq({"start", "loop", "lock", "get", "join", "asleep", "ended"})
  /\ writer_capacity \in Nat
  /\ Len(writer_pc) <= MaxWriters /\ Len(writer_pc) <= writer_capacity
  /\ writer_dangling \subseteq Writers
  /\ ~direct => writer_pc = <<>>

(* Results are written in the order of their ids, and not before they are  *)
(* there, whatever order the workers finish in and however many writers    *)
(* there are.  The writers begin with id 1, and id 0 is never written.     *)
WrittenInOrder ==
  /\ \A i \in DOMAIN written : written[i] = i - (IF direct THEN 0 ELSE 1)
  /\ ToSet(written) \subseteq done

(* A writer gets ahead of the ids only when it is the only one and there   *)
(* are threads_ threads: its start_worker and stop_writer then do nothing. *)
(* Otherwise it would join another writer while it holds the lock which    *)
(* that one needs in order to end.                                         *)
WriterAlone ==
  Writers # {} /\ write_id > Len(chunks) =>
    StopWriterReturns /\ StartWorkerReturns

(* A stream buffer that has accepted a byte is never destroyed: the        *)
(* flush_to in its destructor's sync does not return.                      *)
DestroyedUnused == Gone /\ ~direct => total = 0

(* The writers write every result but the first, until the destructor      *)
(* raises stop_ or flush takes the results, unless the workers or the      *)
(* writers are gone, all of them through dangling references.              *)
NoWriters == \A j \in Writers : writer_pc[j] = "ended"
ToBeWritten == ToSet(results) \ (ToSet(written) \cup {0})
ContinuousWritesAll ==
  (direct /\ ToBeWritten # {}) ~>
    (ToBeWritten = {} \/ stop \/ NoWorkers \/ NoWriters)
=============================================================================
