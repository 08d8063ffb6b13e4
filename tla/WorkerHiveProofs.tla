-------------------------- MODULE WorkerHiveProofs --------------------------
(***************************************************************************)
(* Theorems about WorkerHive, for any number of workers, any batches and   *)
(* any bound on the tasks.                                                 *)
(***************************************************************************)
EXTENDS WorkerHive, TLAPS, SequenceTheorems, FiniteSetTheorems

-----------------------------------------------------------------------------
(* Types and control.                                                      *)

LEMMA InitTypeOK == Init => TypeOK
<1> SUFFICES ASSUME Init PROVE TypeOK
  OBVIOUS
<1>1. QueueTypeOK
  BY DEF Init, QueueTypeOK
<1>2. ResultsTypeOK
  BY HiveAssumption DEF Init, ResultsTypeOK
<1>3. WorkersTypeOK
  BY DEF Init, WorkersTypeOK
<1>4. ControlTypeOK
  BY DEF Init, ControlTypeOK
<1>5. OutputTypeOK
  BY DEF Init, OutputTypeOK
<1> QED
  BY <1>1, <1>2, <1>3, <1>4, <1>5 DEF TypeOK

LEMMA InitControlInv == Init => ControlInv
  BY DEF Init, ControlInv, InHand, WriterHas

(* The tasks of one batch, as a sequence.                                  *)
LEMMA BatchSeq ==
  ASSUME NEW k \in Nat, NEW n \in Nat
  PROVE  /\ [i \in 1..k |-> n + i - 1] \in Seq(Nat)
         /\ Len([i \in 1..k |-> n + i - 1]) = k
<1> DEFINE s == [i \in 1..k |-> n + i - 1]
<1>1. s \in [1..k -> Nat]
  OBVIOUS
<1>2. s \in Seq(Nat)
  BY <1>1, SeqDef
<1>3. DOMAIN s = 1..k /\ DOMAIN s = 1..Len(s) /\ Len(s) \in Nat
  BY <1>2, LenProperties
<1> QED
  BY <1>2, <1>3

(* Each action keeps the types.                                            *)
LEMMA NextTypeOK == TypeOK /\ ControlInv /\ [Next]_vars => TypeOK'
<1> SUFFICES ASSUME TypeOK, ControlInv, [Next]_vars PROVE TypeOK'
  OBVIOUS
<1> USE DEF TypeOK
<1>1. ASSUME NEW k \in Batches, EnqueueTask(k) PROVE TypeOK'
  <2>1. k \in Nat
    BY HiveAssumption
  <2>2. [i \in 1..k |-> next_id + i - 1] \in Seq(Nat)
    BY <2>1, BatchSeq DEF QueueTypeOK
  <2>3. QueueTypeOK'
    BY <1>1, <2>1, <2>2, ConcatProperties DEF QueueTypeOK, EnqueueTask
  <2>4. WorkersTypeOK'
    BY <1>1 DEF WorkersTypeOK, EnqueueTask, WakeWorkers
  <2> QED
    BY <1>1, <2>3, <2>4
       DEF EnqueueTask, writerVars, ResultsTypeOK, ControlTypeOK, OutputTypeOK
<1>2. ASSUME NEW w \in Workers, GetTask(w) PROVE TypeOK'
  <2>1. CASE task_queue = <<>> /\ UNCHANGED <<task_queue, task>>
    BY <1>2, <2>1 DEF GetTask, writerVars, QueueTypeOK, ResultsTypeOK,
                      WorkersTypeOK, ControlTypeOK, OutputTypeOK
  <2>2. CASE task_queue # <<>>
    <3>1. Head(task_queue) \in Nat /\ Tail(task_queue) \in Seq(Nat)
      BY <2>2, HeadTailProperties DEF QueueTypeOK
    <3>2. QueueTypeOK'
      BY <1>2, <2>2, <3>1 DEF GetTask, QueueTypeOK
    <3>3. WorkersTypeOK'
      BY <1>2, <2>2, <3>1 DEF GetTask, WorkersTypeOK
    <3> QED
      BY <1>2, <3>2, <3>3
         DEF GetTask, writerVars, ResultsTypeOK, ControlTypeOK, OutputTypeOK
  <2> QED
    BY <1>2, <2>1, <2>2 DEF GetTask
<1>3. ASSUME NEW w \in Workers, GetResultBuffer(w) PROVE TypeOK'
  BY <1>3 DEF GetResultBuffer, callVars, writerVars, QueueTypeOK,
              ResultsTypeOK, WorkersTypeOK, ControlTypeOK, OutputTypeOK
<1>4. ASSUME NEW w \in Workers, Compute(w) PROVE TypeOK'
  BY <1>4 DEF Compute, callVars, writerVars, QueueTypeOK, ResultsTypeOK,
              WorkersTypeOK, ControlTypeOK, OutputTypeOK
<1>5. ASSUME NEW w \in Workers, Publish(w) PROVE TypeOK'
  <2>1. task[w] \in Nat /\ res[w] \in ResultBuffers
    BY <1>5 DEF Publish, ControlInv, InHand, WorkersTypeOK
  <2>2. ResultsTypeOK'
    BY <1>5, <2>1 DEF Publish, ResultsTypeOK
  <2>3. WorkersTypeOK'
    BY <1>5 DEF Publish, WorkersTypeOK
  <2>4. ControlTypeOK'
    BY <1>5 DEF Publish, NotifyOneBee, AfterWait, CallerAsleep, ControlTypeOK
  <2> QED
    BY <1>5, <2>2, <2>3, <2>4 DEF Publish, callVars, QueueTypeOK, OutputTypeOK
<1>6. CASE WriterSleep
  BY <1>6 DEF WriterSleep, callVars, workerVars, QueueTypeOK, ResultsTypeOK,
              WorkersTypeOK, ControlTypeOK, OutputTypeOK
<1>7. CASE WriterExit
  BY <1>7 DEF WriterExit, callVars, workerVars, QueueTypeOK, ResultsTypeOK,
              WorkersTypeOK, ControlTypeOK, OutputTypeOK
<1>8. CASE WriterTake
  <2>1. ResultsTypeOK'
    BY <1>8 DEF WriterTake, Restrict, ResultsTypeOK
  <2>2. ControlTypeOK'
    BY <1>8 DEF WriterTake, ControlTypeOK, ResultsTypeOK
  <2> QED
    BY <1>8, <2>1, <2>2 DEF WriterTake, callVars, workerVars, QueueTypeOK,
                            WorkersTypeOK, OutputTypeOK
<1>9. CASE WriterSputn
  <2>1. writer_res \in ResultBuffers
    BY <1>9 DEF WriterSputn, ControlInv, WriterHas, ControlTypeOK
  <2>2. OutputTypeOK'
    BY <1>9, <2>1 DEF WriterSputn, OutputTypeOK
  <2> QED
    BY <1>9, <2>2 DEF WriterSputn, callVars, workerVars, QueueTypeOK,
                      ResultsTypeOK, WorkersTypeOK, ControlTypeOK
<1>10. CASE GiveBackResult
  <2>1. writer_res \in ResultBuffers
    BY <1>10 DEF GiveBackResult, ControlInv, WriterHas, ControlTypeOK
  <2>2. WorkersTypeOK'
    BY <1>10 DEF GiveBackResult, WakeWorkers, WorkersTypeOK
  <2> QED
    BY <1>10, <2>1, <2>2 DEF GiveBackResult, callVars, QueueTypeOK,
                             ResultsTypeOK, ControlTypeOK, OutputTypeOK
<1>11. CASE StopStep
  <2>1. ControlTypeOK' /\ ResultsTypeOK'
    BY <1>11 DEF StopStep, StopBegin, StopDrain, StopLoop, writerVars,
                 ControlTypeOK, ResultsTypeOK
  <2> QED
    BY <1>11, <2>1 DEF StopStep, StopBegin, StopDrain, StopLoop, callVars,
                       workerVars, QueueTypeOK, WorkersTypeOK, OutputTypeOK
<1>12. CASE UNCHANGED vars
  BY <1>12 DEF vars, QueueTypeOK, ResultsTypeOK, WorkersTypeOK, ControlTypeOK,
               OutputTypeOK
<1> QED
  BY <1>1, <1>2, <1>3, <1>4, <1>5, <1>6, <1>7, <1>8, <1>9, <1>10, <1>11, <1>12
     DEF Next, StreamNext, WorkerStep, WriterStep

(* Each action keeps control and local variables in step.                  *)
LEMMA NextControlInv == TypeOK /\ ControlInv /\ [Next]_vars => ControlInv'
<1> SUFFICES ASSUME TypeOK, ControlInv, [Next]_vars PROVE ControlInv'
  OBVIOUS
<1> USE DEF ControlInv, InHand, WriterHas
<1>1. ASSUME NEW k \in Batches, EnqueueTask(k) PROVE ControlInv'
  BY <1>1 DEF EnqueueTask, WakeWorkers, writerVars, TypeOK, WorkersTypeOK
<1>2. ASSUME NEW w \in Workers, GetTask(w) PROVE ControlInv'
  <2>1. task_queue # <<>> => Head(task_queue) \in Nat
    BY HeadTailProperties DEF TypeOK, QueueTypeOK
  <2> QED
    BY <1>2, <2>1, HiveAssumption DEF GetTask, writerVars, TypeOK, WorkersTypeOK
<1>3. ASSUME NEW w \in Workers, GetResultBuffer(w) PROVE ControlInv'
  BY <1>3, HiveAssumption
     DEF GetResultBuffer, writerVars, TypeOK, WorkersTypeOK, ResultsTypeOK
<1>4. ASSUME NEW w \in Workers, Compute(w) PROVE ControlInv'
  BY <1>4 DEF Compute, writerVars, TypeOK, WorkersTypeOK
<1>5. ASSUME NEW w \in Workers, Publish(w) PROVE ControlInv'
  <2>1. UNCHANGED writer_res /\ WriterHas' = WriterHas
    BY <1>5 DEF Publish, NotifyOneBee
  <2> QED
    BY <1>5, <2>1 DEF Publish, TypeOK, WorkersTypeOK
<1>6. CASE WriterSleep \/ WriterExit
  BY <1>6 DEF WriterSleep, WriterExit, workerVars
<1>7. CASE WriterTake
  BY <1>7, HiveAssumption DEF WriterTake, workerVars, TypeOK, ResultsTypeOK
<1>8. CASE WriterSputn
  BY <1>8 DEF WriterSputn, workerVars
<1>9. CASE GiveBackResult
  BY <1>9 DEF GiveBackResult, WakeWorkers, TypeOK, WorkersTypeOK
<1>10. CASE StopStep
  BY <1>10 DEF StopStep, StopBegin, StopDrain, StopLoop, workerVars, writerVars
<1>11. CASE UNCHANGED vars
  BY <1>11 DEF vars
<1> QED
  BY <1>1, <1>2, <1>3, <1>4, <1>5, <1>6, <1>7, <1>8, <1>9, <1>10, <1>11
     DEF Next, StreamNext, WorkerStep, WriterStep

(* Every variable keeps its type, for any number of threads and buffers.   *)
THEOREM TypeCorrect == Spec => [](TypeOK /\ ControlInv)
  BY InitTypeOK, InitControlInv, NextTypeOK, NextControlInv, PTL DEF Spec

-----------------------------------------------------------------------------
(* The queue.                                                              *)

(* What EnqueueTask and GetTask make of the queue and of next_id.          *)
LEMMA EnqueueEffect ==
  ASSUME TypeOK, NEW k \in Batches, EnqueueTask(k)
  PROVE  /\ k \in Nat
         /\ next_id' = next_id + k
         /\ Len(task_queue') = Len(task_queue) + k
         /\ \A i \in 1..Len(task_queue') :
              task_queue'[i] = IF i <= Len(task_queue) THEN task_queue[i]
                               ELSE next_id + (i - Len(task_queue)) - 1
<1> DEFINE batch == [i \in 1..k |-> next_id + i - 1]
<1>1. k \in Nat
  BY HiveAssumption
<1>2. batch \in Seq(Nat) /\ Len(batch) = k
  BY <1>1, BatchSeq DEF TypeOK, QueueTypeOK
<1>3. task_queue' = task_queue \o batch /\ next_id' = next_id + k
  BY DEF EnqueueTask
<1>4. task_queue \in Seq(Nat) /\ Len(task_queue) \in Nat
  BY LenProperties DEF TypeOK, QueueTypeOK
<1> HIDE DEF batch
<1>5. /\ Len(task_queue') = Len(task_queue) + k
      /\ \A i \in 1..Len(task_queue) + k :
           task_queue'[i] = IF i <= Len(task_queue) THEN task_queue[i]
                            ELSE batch[i - Len(task_queue)]
  BY <1>2, <1>3, <1>4, ConcatProperties
<1>6. \A i \in 1..Len(task_queue) + k :
        ~(i <= Len(task_queue)) =>
          batch[i - Len(task_queue)] = next_id + (i - Len(task_queue)) - 1
  BY <1>1, <1>4 DEF batch
<1> QED
  BY <1>1, <1>3, <1>5, <1>6

LEMMA GetTaskEffect ==
  ASSUME TypeOK, NEW w \in Workers, GetTask(w), task_queue' # task_queue
  PROVE  /\ task_queue # <<>>
         /\ Len(task_queue) \in Nat \ {0}
         /\ Len(task_queue') = Len(task_queue) - 1
         /\ \A i \in 1..Len(task_queue') : task_queue'[i] = task_queue[i + 1]
         /\ task' = [task EXCEPT ![w] = task_queue[1]]
         /\ UNCHANGED next_id
<1>1. task_queue # <<>> /\ task_queue' = Tail(task_queue)
  BY DEF GetTask
<1>2. task_queue \in Seq(Nat)
  BY DEF TypeOK, QueueTypeOK
<1>3. Head(task_queue) = task_queue[1]
  BY <1>1, <1>2
<1>4. Len(task_queue) \in Nat \ {0}
  BY <1>1, <1>2, EmptySeq
<1>5. /\ Len(Tail(task_queue)) = Len(task_queue) - 1
      /\ \A i \in 1..Len(Tail(task_queue)) :
           Tail(task_queue)[i] = task_queue[i + 1]
  BY <1>1, <1>2, HeadTailProperties
<1> QED
  BY <1>1, <1>3, <1>4, <1>5 DEF GetTask

(* Every other step leaves the queue alone.                                *)
LEMMA QueueFrame ==
  ASSUME [Next]_vars,
         ~(\E k \in Batches : EnqueueTask(k)),
         ~(\E w \in Workers : GetTask(w))
  PROVE  UNCHANGED <<task_queue, next_id>>
  BY DEF Next, StreamNext, WorkerStep, WriterStep, GetResultBuffer, Compute,
         Publish, WriterSleep, WriterExit, WriterTake, WriterSputn,
         GiveBackResult, StopStep, StopBegin, StopDrain, StopLoop, callVars,
         vars

LEMMA NextQueueInv == TypeOK /\ QueueInv /\ [Next]_vars => QueueInv'
<1> SUFFICES ASSUME TypeOK, QueueInv, [Next]_vars PROVE QueueInv'
  OBVIOUS
<1>0. Len(task_queue) \in Nat /\ next_id \in Nat
  BY LenProperties DEF TypeOK, QueueTypeOK
<1>1. ASSUME NEW k \in Batches, EnqueueTask(k) PROVE QueueInv'
  BY <1>0, <1>1, EnqueueEffect DEF QueueInv
<1>2. ASSUME NEW w \in Workers, GetTask(w) PROVE QueueInv'
  <2>1. CASE task_queue' = task_queue
    BY <1>2, <2>1 DEF QueueInv, GetTask
  <2>2. CASE task_queue' # task_queue
    <3>1. /\ Len(task_queue) \in Nat \ {0}
          /\ Len(task_queue') = Len(task_queue) - 1
          /\ \A i \in 1..Len(task_queue') : task_queue'[i] = task_queue[i + 1]
          /\ next_id' = next_id
      BY <1>2, <2>2, GetTaskEffect
    <3> QED
      BY <1>0, <3>1 DEF QueueInv
  <2> QED
    BY <2>1, <2>2
<1>3. CASE ~(\E k \in Batches : EnqueueTask(k))
           /\ ~(\E w \in Workers : GetTask(w))
  BY <1>3, QueueFrame DEF QueueInv
<1> QED
  BY <1>1, <1>2, <1>3

-----------------------------------------------------------------------------
(* The way of a task: queue, hand, map, sink.                              *)

LEMMA InitTaskInv == Init => QueueInv /\ TaskInv
<1> SUFFICES ASSUME Init PROVE QueueInv /\ TaskInv
  OBVIOUS
<1>1. Len(task_queue) = 0 /\ Taken = {} /\ WriteId0 .. (write_id - 1) = {}
  BY HiveAssumption DEF Init, Taken
<1> QED
  BY <1>1, HiveAssumption DEF Init, QueueInv, TaskInv, InHand

(* Publish and WriterTake as changes of the map's domain.                  *)
LEMMA PublishEffect ==
  ASSUME TypeOK, ControlInv, NEW w \in Workers, Publish(w)
  PROVE  /\ task[w] \in Nat /\ res[w] \in ResultBuffers
         /\ DOMAIN results' = DOMAIN results \cup {task[w]}
         /\ \A id \in DOMAIN results' :
              results'[id] = IF id = task[w] THEN res[w] ELSE results[id]
         /\ task' = [task EXCEPT ![w] = NoTask]
         /\ res' = [res EXCEPT ![w] = NoBuffer]
         /\ UNCHANGED <<task_queue, next_id, empty_result_queue, write_id,
                        writer_res, content, out>>
  BY DEF Publish, ControlInv, InHand, TypeOK, WorkersTypeOK, callVars

LEMMA TakeEffect ==
  ASSUME TypeOK, WriterTake
  PROVE  /\ write_id \in DOMAIN results /\ write_id' = write_id + 1
         /\ writer_res' = results[write_id] /\ writer_res' \in ResultBuffers
         /\ DOMAIN results' = DOMAIN results \ {write_id}
         /\ \A id \in DOMAIN results' : results'[id] = results[id]
         /\ UNCHANGED <<task_queue, next_id, empty_result_queue, task, res,
                        worker_pc, content, out>>
  BY DEF WriterTake, Restrict, TypeOK, ResultsTypeOK, callVars, workerVars

LEMMA NextTaskInv ==
  TypeOK /\ ControlInv /\ QueueInv /\ TaskInv /\ [Next]_vars => TaskInv'
<1> SUFFICES ASSUME TypeOK, ControlInv, QueueInv, TaskInv, [Next]_vars
             PROVE  TaskInv'
  OBVIOUS
<1>0. /\ Len(task_queue) \in Nat /\ next_id \in Nat /\ write_id \in Nat
      /\ WriteId0 \in Nat /\ NoTask \notin Nat /\ DOMAIN results \subseteq Nat
      /\ task \in [Workers -> Nat \cup {NoTask}]
      /\ Len(task_queue) <= next_id
  BY HiveAssumption, LenProperties
     DEF TypeOK, QueueTypeOK, ResultsTypeOK, WorkersTypeOK, QueueInv
<1>1. ASSUME NEW k \in Batches, EnqueueTask(k) PROVE TaskInv'
  <2>1. next_id' - Len(task_queue') = next_id - Len(task_queue)
    BY <1>0, <1>1, EnqueueEffect
  <2>2. UNCHANGED <<write_id, task, results>>
    BY <1>1 DEF EnqueueTask
  <2> QED
    BY <2>1, <2>2 DEF TaskInv, InHand, Popped, Written, Taken
<1>2. ASSUME NEW w \in Workers, GetTask(w) PROVE TaskInv'
  <2>1. UNCHANGED <<write_id, results, next_id>>
    BY <1>2 DEF GetTask
  <2>2. CASE task_queue' = task_queue
    <3>1. UNCHANGED task
      BY <1>2, <2>2, GetTaskEffect, <1>0, HeadTailProperties
         DEF GetTask, TypeOK, QueueTypeOK
    <3> QED
      BY <2>1, <2>2, <3>1 DEF TaskInv, InHand, Popped, Written, Taken
  <2>3. CASE task_queue' # task_queue
    <3> DEFINE p == next_id - Len(task_queue)
    <3>1. /\ Len(task_queue) \in Nat \ {0}
          /\ Len(task_queue') = Len(task_queue) - 1
          /\ task' = [task EXCEPT ![w] = task_queue[1]]
      BY <1>2, <2>3, GetTaskEffect
    <3>2. task_queue[1] = p /\ p \in Nat
      BY <1>0, <3>1 DEF QueueInv
    <3>3. ~InHand(w)
      BY <1>2 DEF GetTask, ControlInv
    <3>4. \A id \in Nat : /\ Popped(id) <=> id < p
                          /\ Popped(id)' <=> id < p + 1
      BY <1>0, <2>1, <3>1 DEF Popped
    <3>5. /\ p \notin DOMAIN results
          /\ ~Written(p)
          /\ \A v \in Workers : task[v] # p
      BY <1>0, <3>2, <3>4 DEF TaskInv, InHand, Written
    <3>6. Taken = 0 .. (p - 1) /\ Taken' = 0 .. p
      BY <1>0, <2>1, <3>1 DEF Taken
    <3>7. \A v \in Workers : task'[v] = IF v = w THEN p ELSE task[v]
      BY <1>0, <3>1, <3>2
    <3> HIDE DEF p
    <3>8. \A v \in Workers : InHand(v)' => /\ Popped(task[v])'
                                           /\ task'[v] \notin DOMAIN results'
                                           /\ ~Written(task[v])'
      BY <1>0, <2>1, <3>2, <3>4, <3>5, <3>7 DEF TaskInv, InHand, Written, Popped
    <3>9. \A u, v \in Workers : InHand(u)' /\ task'[u] = task'[v] => u = v
      BY <3>2, <3>5, <3>7 DEF TaskInv, InHand
    <3>10. \A id \in DOMAIN results' : Popped(id)' /\ ~Written(id)'
      BY <1>0, <2>1, <3>2, <3>4 DEF TaskInv, Written
    <3>11. \A id \in WriteId0' .. (write_id' - 1) : Popped(id)'
      BY <1>0, <2>1, <3>2, <3>4 DEF TaskInv
    <3>12. \A id \in Taken' : \/ \E v \in Workers : task'[v] = id
                              \/ id \in DOMAIN results'
                              \/ Written(id)'
      <4> SUFFICES ASSUME NEW id \in 0 .. p, id \notin DOMAIN results,
                          ~Written(id)
                   PROVE  \E v \in Workers : task'[v] = id
        BY <2>1, <3>6 DEF Written
      <4>1. CASE id = p
        BY <3>7, <4>1
      <4>2. CASE id # p
        <5>1. id \in Taken
          BY <3>2, <3>6, <4>2
        <5>2. PICK v \in Workers : task[v] = id
          BY <5>1 DEF TaskInv
        <5>3. v # w
          BY <1>0, <3>2, <3>3, <5>2 DEF InHand
        <5> QED
          BY <3>7, <5>2, <5>3
      <4> QED
        BY <4>1, <4>2
    <3> QED
      BY <2>1, <3>8, <3>9, <3>10, <3>11, <3>12 DEF TaskInv
  <2> QED
    BY <2>2, <2>3
<1>3. ASSUME NEW w \in Workers, Publish(w) PROVE TaskInv'
  <2>1. /\ task[w] \in Nat
        /\ DOMAIN results' = DOMAIN results \cup {task[w]}
        /\ task' = [task EXCEPT ![w] = NoTask]
        /\ UNCHANGED <<task_queue, next_id, write_id>>
    BY <1>3, PublishEffect
  <2>2. \A v \in Workers : task'[v] = IF v = w THEN NoTask ELSE task[v]
    BY <1>0, <2>1
  <2>3. InHand(w)
    BY <1>0, <2>1 DEF InHand
  <2>4. Taken' = Taken /\ \A id : Popped(id)' = Popped(id)
                               /\ Written(id)' = Written(id)
    BY <2>1 DEF Taken, Popped, Written
  <2>5. \A v \in Workers : InHand(v)' => /\ Popped(task[v])'
                                         /\ task'[v] \notin DOMAIN results'
                                         /\ ~Written(task[v])'
    BY <2>1, <2>2, <2>3 DEF TaskInv, InHand, Popped, Written
  <2>6. \A u, v \in Workers : InHand(u)' /\ task'[u] = task'[v] => u = v
    BY <2>2 DEF TaskInv, InHand
  <2>7. \A id \in DOMAIN results' : Popped(id)' /\ ~Written(id)'
    BY <2>1, <2>3, <2>4 DEF TaskInv
  <2>8. \A id \in WriteId0 .. (write_id - 1) : Popped(id)'
    BY <2>4 DEF TaskInv
  <2>9. \A id \in Taken' : \/ \E v \in Workers : task'[v] = id
                           \/ id \in DOMAIN results'
                           \/ Written(id)'
    BY <2>1, <2>2, <2>4 DEF TaskInv
  <2> QED
    BY <2>1, <2>5, <2>6, <2>7, <2>8, <2>9 DEF TaskInv
<1>4. CASE WriterTake
  <2>1. /\ write_id \in DOMAIN results
        /\ write_id' = write_id + 1
        /\ DOMAIN results' = DOMAIN results \ {write_id}
        /\ UNCHANGED <<task_queue, next_id, task>>
    BY <1>4, TakeEffect
  <2>2. Taken' = Taken /\ \A id : Popped(id)' = Popped(id)
    BY <2>1 DEF Taken, Popped
  <2>3. \A id \in Nat : Written(id)' <=> Written(id) \/ id = write_id
    BY <1>0, <2>1 DEF TaskInv, Written
  <2>4. \A v \in Workers : InHand(v)' => /\ Popped(task[v])'
                                         /\ task'[v] \notin DOMAIN results'
                                         /\ ~Written(task[v])'
    <3> SUFFICES ASSUME NEW v \in Workers, InHand(v)'
                 PROVE  /\ Popped(task[v])'
                        /\ task'[v] \notin DOMAIN results'
                        /\ ~Written(task[v])'
      OBVIOUS
    <3>1. InHand(v) /\ task'[v] = task[v] /\ task[v] \in Nat
      BY <1>0, <2>1 DEF InHand
    <3>2. Popped(task[v]) /\ task[v] \notin DOMAIN results /\ ~Written(task[v])
      BY <3>1 DEF TaskInv
    <3>3. Popped(task[v])'
      BY <2>1, <3>2 DEF Popped
    <3>4. ~Written(task[v])'
      BY <1>0, <2>1, <3>1, <3>2 DEF Written
    <3> QED
      BY <2>1, <3>1, <3>2, <3>3, <3>4
  <2>5. \A u, v \in Workers : InHand(u)' /\ task'[u] = task'[v] => u = v
    BY <2>1 DEF TaskInv, InHand
  <2>6. \A id \in DOMAIN results' : Popped(id)' /\ ~Written(id)'
    BY <1>0, <2>1, <2>2, <2>3 DEF TaskInv
  <2>7. \A id \in WriteId0 .. (write_id' - 1) : Popped(id)'
    BY <1>0, <2>1, <2>2 DEF TaskInv
  <2>8. \A id \in Taken' : \/ \E v \in Workers : task'[v] = id
                           \/ id \in DOMAIN results'
                           \/ Written(id)'
    <3>1. Taken \subseteq Nat
      BY DEF Taken
    <3> QED
      BY <2>1, <2>2, <2>3, <3>1 DEF TaskInv
  <2> QED
    BY <1>0, <2>1, <2>4, <2>5, <2>6, <2>7, <2>8 DEF TaskInv
<1>5. CASE UNCHANGED <<task_queue, next_id, write_id, task, results>>
  BY <1>5 DEF TaskInv, InHand, Popped, Written, Taken
<1> QED
  BY <1>1, <1>2, <1>3, <1>4, <1>5
     DEF Next, StreamNext, WorkerStep, WriterStep, GetResultBuffer, Compute,
         WriterSleep, WriterExit, WriterSputn, GiveBackResult, StopStep,
         StopBegin, StopDrain, StopLoop, callVars, workerVars, vars

-----------------------------------------------------------------------------
(* The way of a result buffer: free, worker, map, writer, free.            *)

LEMMA InitBufferInv == Init => BufferInv
  BY HiveAssumption DEF Init, BufferInv

LEMMA NextBufferInv ==
  TypeOK /\ ControlInv /\ TaskInv /\ BufferInv /\ [Next]_vars => BufferInv'
<1> SUFFICES ASSUME TypeOK, ControlInv, TaskInv, BufferInv, [Next]_vars
             PROVE  BufferInv'
  OBVIOUS
<1>0. /\ res \in [Workers -> ResultBuffers \cup {NoBuffer}]
      /\ results \in [DOMAIN results -> ResultBuffers]
      /\ NoBuffer \notin ResultBuffers
      /\ empty_result_queue \subseteq ResultBuffers
      /\ write_id \in Nat
  BY HiveAssumption DEF TypeOK, ResultsTypeOK, WorkersTypeOK
<1>1. ASSUME NEW w \in Workers, GetResultBuffer(w) PROVE BufferInv'
  <2>1. UNCHANGED <<results, writer_res>>
    BY <1>1 DEF GetResultBuffer, writerVars
  <2>2. CASE UNCHANGED <<empty_result_queue, res>>
    BY <2>1, <2>2 DEF BufferInv
  <2>3. ASSUME NEW b \in empty_result_queue,
               res' = [res EXCEPT ![w] = b],
               empty_result_queue' = empty_result_queue \ {b}
        PROVE  BufferInv'
    <3>1. \A v \in Workers : res'[v] = IF v = w THEN b ELSE res[v]
      BY <1>0, <2>3
    <3>2. /\ b \in ResultBuffers /\ b # NoBuffer /\ b # writer_res
          /\ \A v \in Workers : res[v] # b
          /\ \A id \in DOMAIN results : results[id] # b
      BY <1>0, <2>3 DEF BufferInv
    <3>3. res[w] = NoBuffer
      BY <1>1 DEF GetResultBuffer, ControlInv
    <3>4. \A v \in Workers : res'[v] # NoBuffer =>
             res'[v] \notin empty_result_queue' /\ res'[v] # writer_res'
      BY <2>1, <2>3, <3>1, <3>2 DEF BufferInv
    <3>5. \A u, v \in Workers : res'[u] # NoBuffer /\ res'[u] = res'[v] => u = v
      BY <3>1, <3>2 DEF BufferInv
    <3>6. \A v \in Workers, id \in DOMAIN results' : results'[id] # res'[v]
      BY <2>1, <3>1, <3>2 DEF BufferInv
    <3>7. \A c \in ResultBuffers : \/ c \in empty_result_queue'
                                   \/ \E v \in Workers : res'[v] = c
                                   \/ \E id \in DOMAIN results' : results'[id] = c
                                   \/ writer_res' = c
      <4> SUFFICES ASSUME NEW c \in ResultBuffers, c # b,
                          NEW v \in Workers, res[v] = c
                   PROVE  res'[v] = c
        BY <2>1, <2>3, <3>1 DEF BufferInv
      <4> QED
        BY <1>0, <3>1, <3>3
    <3> QED
      BY <2>1, <2>3, <3>4, <3>5, <3>6, <3>7 DEF BufferInv
  <2> QED
    BY <1>1, <2>2, <2>3 DEF GetResultBuffer
<1>2. ASSUME NEW w \in Workers, Publish(w) PROVE BufferInv'
  <2>1. /\ task[w] \in Nat /\ res[w] \in ResultBuffers
        /\ DOMAIN results' = DOMAIN results \cup {task[w]}
        /\ \A id \in DOMAIN results' :
             results'[id] = IF id = task[w] THEN res[w] ELSE results[id]
        /\ res' = [res EXCEPT ![w] = NoBuffer]
        /\ UNCHANGED <<empty_result_queue, writer_res>>
    BY <1>2, PublishEffect
  <2>2. \A v \in Workers : res'[v] = IF v = w THEN NoBuffer ELSE res[v]
    BY <1>0, <2>1
  <2>3. /\ res[w] # NoBuffer /\ res[w] \notin empty_result_queue
        /\ res[w] # writer_res
        /\ \A v \in Workers : res[v] = res[w] => v = w
        /\ \A id \in DOMAIN results : results[id] # res[w]
    BY <1>0, <2>1 DEF BufferInv
  <2>4. task[w] \notin DOMAIN results
    BY <2>1, HiveAssumption DEF TaskInv, InHand
  <2>5. \A id \in DOMAIN results : id \in DOMAIN results' /\ results'[id] = results[id]
    BY <2>1, <2>4
  <2>6. task[w] \in DOMAIN results' /\ results'[task[w]] = res[w]
    BY <2>1
  <2>7. \A v \in Workers : res'[v] # NoBuffer =>
           res'[v] \notin empty_result_queue' /\ res'[v] # writer_res'
    BY <2>1, <2>2 DEF BufferInv
  <2>8. \A u, v \in Workers : res'[u] # NoBuffer /\ res'[u] = res'[v] => u = v
    BY <2>2 DEF BufferInv
  <2>9. \A v \in Workers, id \in DOMAIN results' : results'[id] # res'[v]
    BY <1>0, <2>1, <2>2, <2>3 DEF BufferInv
  <2>10. \A id \in DOMAIN results' : /\ results'[id] \notin empty_result_queue'
                                     /\ results'[id] # writer_res'
    BY <2>1, <2>3 DEF BufferInv
  <2>11. \A id, jd \in DOMAIN results' : results'[id] = results'[jd] => id = jd
    BY <2>1, <2>3 DEF BufferInv
  <2>12. \A c \in ResultBuffers : \/ c \in empty_result_queue'
                                  \/ \E v \in Workers : res'[v] = c
                                  \/ \E id \in DOMAIN results' : results'[id] = c
                                  \/ writer_res' = c
    BY <2>1, <2>2, <2>5, <2>6 DEF BufferInv
  <2> QED
    BY <2>1, <2>7, <2>8, <2>9, <2>10, <2>11, <2>12 DEF BufferInv
<1>3. CASE WriterTake
  <2>1. /\ write_id \in DOMAIN results
        /\ writer_res' = results[write_id]
        /\ DOMAIN results' = DOMAIN results \ {write_id}
        /\ \A id \in DOMAIN results' : results'[id] = results[id]
        /\ UNCHANGED <<empty_result_queue, res>>
    BY <1>3, TakeEffect
  <2>2. writer_res = NoBuffer
    BY <1>3 DEF WriterTake, ControlInv, WriterHas
  <2>3. \A c \in ResultBuffers : \/ c \in empty_result_queue'
                                 \/ \E v \in Workers : res'[v] = c
                                 \/ \E id \in DOMAIN results' : results'[id] = c
                                 \/ writer_res' = c
    BY <1>0, <2>1, <2>2 DEF BufferInv
  <2> QED
    BY <2>1, <2>3 DEF BufferInv
<1>4. CASE GiveBackResult
  <2>1. /\ writer_res # NoBuffer
        /\ empty_result_queue' = empty_result_queue \cup {writer_res}
        /\ writer_res' = NoBuffer
        /\ UNCHANGED <<results, res>>
    BY <1>4 DEF GiveBackResult, ControlInv, WriterHas
  <2>2. NoBuffer \notin empty_result_queue'
    BY <1>0, <2>1
  <2>3. \A w \in Workers : res[w] # NoBuffer => res[w] \notin empty_result_queue'
    BY <2>1 DEF BufferInv
  <2>4. \A id \in DOMAIN results : /\ results[id] \notin empty_result_queue'
                                   /\ results[id] # NoBuffer
    BY <1>0, <2>1 DEF BufferInv
  <2> QED
    BY <2>1, <2>2, <2>3, <2>4 DEF BufferInv
<1>5. CASE UNCHANGED <<empty_result_queue, results, res, writer_res>>
  BY <1>5 DEF BufferInv
<1> QED
  BY <1>1, <1>2, <1>3, <1>4, <1>5
     DEF Next, StreamNext, WorkerStep, WriterStep, EnqueueTask, GetTask,
         Compute, WriterSleep, WriterExit, WriterSputn, StopStep, StopBegin,
         StopDrain, StopLoop, workerVars, writerVars, vars

-----------------------------------------------------------------------------
(* What the buffers contain, and what reaches the sink.                    *)

LEMMA InitOutInv == Init => ContentInv /\ OutInv /\ StopInv
  BY HiveAssumption DEF Init, ContentInv, OutInv, OutInOrder, StopInv

LEMMA NextContentInv ==
  TypeOK /\ ControlInv /\ TaskInv /\ BufferInv /\ ContentInv /\ [Next]_vars
    => ContentInv'
<1> SUFFICES ASSUME TypeOK, ControlInv, TaskInv, BufferInv, ContentInv,
                    [Next]_vars
             PROVE  ContentInv'
  OBVIOUS
<1>0. /\ worker_pc \in [Workers -> {"get_task", "task_wait",
               "get_result_buffer", "buffer_wait", "compute", "publish"}]
      /\ task \in [Workers -> Nat \cup {NoTask}]
      /\ res \in [Workers -> ResultBuffers \cup {NoBuffer}]
      /\ content \in [ResultBuffers -> Nat \cup {NoTask}]
      /\ results \in [DOMAIN results -> ResultBuffers]
      /\ write_id \in Nat
  BY DEF TypeOK, ResultsTypeOK, WorkersTypeOK, OutputTypeOK
<1>1. ASSUME NEW k \in Batches, EnqueueTask(k) PROVE ContentInv'
  BY <1>0, <1>1 DEF EnqueueTask, WakeWorkers, writerVars, ContentInv
<1>2. ASSUME NEW w \in Workers, GetTask(w) PROVE ContentInv'
  <2>1. \A v \in Workers : worker_pc'[v] = "publish" =>
                             worker_pc[v] = "publish" /\ task'[v] = task[v]
    BY <1>0, <1>2 DEF GetTask
  <2> QED
    BY <1>2, <2>1 DEF GetTask, writerVars, ContentInv
<1>3. ASSUME NEW w \in Workers, GetResultBuffer(w) PROVE ContentInv'
  <2>1. \A v \in Workers : worker_pc'[v] = "publish" =>
                             worker_pc[v] = "publish" /\ res'[v] = res[v]
    BY <1>0, <1>3 DEF GetResultBuffer
  <2> QED
    BY <1>3, <2>1 DEF GetResultBuffer, writerVars, ContentInv
<1>4. ASSUME NEW w \in Workers, Compute(w) PROVE ContentInv'
  <2>1. /\ worker_pc[w] = "compute"
        /\ content' = [content EXCEPT ![res[w]] = task[w]]
        /\ worker_pc' = [worker_pc EXCEPT ![w] = "publish"]
        /\ UNCHANGED <<results, write_id, task, res, writer_pc, writer_res>>
    BY <1>4 DEF Compute, writerVars
  <2>2. res[w] # NoBuffer /\ res[w] \in ResultBuffers
    BY <1>0, <2>1 DEF ControlInv
  <2>3. content'[res[w]] = task[w]
        /\ \A b \in ResultBuffers : b # res[w] => content'[b] = content[b]
    BY <1>0, <2>1, <2>2
  <2>4. \A v \in Workers : worker_pc'[v] = "publish" => content'[res[v]] = task[v]
    <3> SUFFICES ASSUME NEW v \in Workers, worker_pc'[v] = "publish", v # w
                 PROVE  content'[res[v]] = task[v]
      BY <2>3
    <3>1. worker_pc[v] = "publish"
      BY <1>0, <2>1
    <3>2. res[v] \in ResultBuffers /\ res[v] # res[w]
      BY <1>0, <2>2, <3>1 DEF ControlInv, BufferInv
    <3> QED
      BY <2>3, <3>1, <3>2 DEF ContentInv
  <2>5. \A id \in DOMAIN results : content'[results[id]] = id
    BY <1>0, <2>3 DEF BufferInv, ContentInv
  <2>6. writer_pc = "sputn" => content'[writer_res] = write_id - 1
    <3> SUFFICES ASSUME writer_pc = "sputn"
                 PROVE  content'[writer_res] = write_id - 1
      OBVIOUS
    <3>1. writer_res \in ResultBuffers
      BY DEF ControlInv, WriterHas, TypeOK, ControlTypeOK
    <3>2. writer_res # res[w]
      BY <2>2 DEF BufferInv
    <3> QED
      BY <2>3, <3>1, <3>2 DEF ContentInv
  <2> QED
    BY <2>1, <2>4, <2>5, <2>6 DEF ContentInv
<1>5. ASSUME NEW w \in Workers, Publish(w) PROVE ContentInv'
  <2>1. /\ task[w] \in Nat
        /\ DOMAIN results' = DOMAIN results \cup {task[w]}
        /\ \A id \in DOMAIN results' :
             results'[id] = IF id = task[w] THEN res[w] ELSE results[id]
        /\ UNCHANGED <<write_id, writer_res, content>>
    BY <1>5, PublishEffect
  <2>2. content[res[w]] = task[w]
    BY <1>5 DEF Publish, ContentInv
  <2>3. \A v \in Workers : worker_pc'[v] = "publish" =>
          /\ worker_pc[v] = "publish"
          /\ task'[v] = task[v] /\ res'[v] = res[v]
    BY <1>0, <1>5 DEF Publish
  <2>4. writer_pc' = "sputn" => writer_pc = "sputn"
    BY <1>5 DEF Publish, NotifyOneBee
  <2>5. \A id \in DOMAIN results' : content[results'[id]] = id
    BY <2>1, <2>2 DEF ContentInv
  <2> QED
    BY <2>1, <2>3, <2>4, <2>5 DEF ContentInv
<1>6. CASE WriterTake
  <2>1. /\ write_id \in DOMAIN results /\ write_id' = write_id + 1
        /\ writer_res' = results[write_id]
        /\ DOMAIN results' = DOMAIN results \ {write_id}
        /\ \A id \in DOMAIN results' : results'[id] = results[id]
        /\ UNCHANGED <<task, res, worker_pc, content>>
    BY <1>6, TakeEffect
  <2>2. content[writer_res'] = write_id' - 1
    BY <1>0, <2>1 DEF ContentInv
  <2> QED
    BY <2>1, <2>2 DEF ContentInv
<1>7. CASE GiveBackResult
  <2>1. \A v \in Workers : worker_pc'[v] = "publish" => worker_pc[v] = "publish"
    BY <1>0, <1>7 DEF GiveBackResult, WakeWorkers
  <2> QED
    BY <1>7, <2>1 DEF GiveBackResult, ContentInv
<1>8. CASE WriterSleep \/ WriterExit \/ WriterSputn
  BY <1>8 DEF WriterSleep, WriterExit, WriterSputn, workerVars, ContentInv
<1>9. CASE StopStep
  BY <1>9 DEF StopStep, StopBegin, StopDrain, StopLoop, workerVars, writerVars,
              ContentInv
<1>10. CASE UNCHANGED vars
  BY <1>10 DEF vars, ContentInv
<1> QED
  BY <1>1, <1>2, <1>3, <1>4, <1>5, <1>6, <1>7, <1>8, <1>9, <1>10
     DEF Next, StreamNext, WorkerStep, WriterStep

(* What WriterSputn hands to the sink is the task that is due.             *)
LEMMA SputnEffect ==
  ASSUME TypeOK, ControlInv, ContentInv, OutInv, WriterSputn
  PROVE  /\ out' = Append(out, WriteId0 + Len(out))
         /\ Len(out) \in Nat /\ WriteId0 + Len(out) = write_id - 1
<1>1. content[writer_res] = write_id - 1
  BY DEF WriterSputn, ContentInv
<1>2. Len(out) = write_id - WriteId0 - 1
  BY DEF WriterSputn, OutInv
<1>3. Len(out) \in Nat /\ write_id \in Nat /\ WriteId0 \in Nat
  BY HiveAssumption, LenProperties DEF TypeOK, OutputTypeOK, ResultsTypeOK
<1> QED
  BY <1>1, <1>2, <1>3 DEF WriterSputn

LEMMA NextOutInv ==
  TypeOK /\ ControlInv /\ ContentInv /\ OutInv /\ [Next]_vars => OutInv'
<1> SUFFICES ASSUME TypeOK, ControlInv, ContentInv, OutInv, [Next]_vars
             PROVE  OutInv'
  OBVIOUS
<1>0. /\ Len(out) \in Nat /\ write_id \in Nat /\ WriteId0 \in Nat
      /\ out \in Seq(Nat \cup {NoTask})
  BY HiveAssumption, LenProperties DEF TypeOK, OutputTypeOK, ResultsTypeOK
<1>1. CASE WriterSputn
  <2>1. out' = Append(out, WriteId0 + Len(out))
    BY <1>1, SputnEffect
  <2>2. /\ Len(out') = Len(out) + 1
        /\ \A i \in 1..Len(out) : out'[i] = out[i]
        /\ out'[Len(out) + 1] = WriteId0 + Len(out)
    BY <1>0, <2>1
  <2>3. /\ UNCHANGED write_id /\ writer_pc = "sputn" /\ writer_pc' = "give_back"
    BY <1>1 DEF WriterSputn
  <2>4. PICK n \in Nat : n = Len(out)
    BY <1>0
  <2>5. Len(out') = write_id' - WriteId0 - (IF writer_pc' = "sputn" THEN 1 ELSE 0)
    <3>1. n = write_id - WriteId0 - 1
      BY <2>3, <2>4 DEF OutInv
    <3>2. Len(out') = n + 1 /\ write_id' = write_id
      BY <2>2, <2>3, <2>4
    <3>3. n + 1 = write_id - WriteId0 - 0
      BY <1>0, <3>1
    <3> QED
      BY <2>3, <3>2, <3>3
  <2>6. ASSUME NEW i \in 1..(n + 1) PROVE out'[i] = WriteId0 + i - 1
    <3>1. CASE i \in 1..n
      BY <2>2, <2>4, <3>1 DEF OutInv, OutInOrder
    <3>2. CASE i = n + 1
      <4>1. WriteId0 + (n + 1) - 1 = WriteId0 + n
        BY <1>0
      <4> QED
        BY <2>2, <2>4, <3>2, <4>1
    <3> QED
      BY <3>1, <3>2
  <2> QED
    BY <2>2, <2>4, <2>5, <2>6 DEF OutInv, OutInOrder
<1>2. CASE WriterTake
  BY <1>0, <1>2 DEF WriterTake, OutInv, OutInOrder
<1>3. ASSUME NEW w \in Workers, Publish(w) PROVE OutInv'
  <2>1. (writer_pc' = "sputn") = (writer_pc = "sputn")
    BY <1>3 DEF Publish, NotifyOneBee
  <2> QED
    BY <1>3, <2>1 DEF Publish, OutInv, OutInOrder
<1>4. CASE StopStep
  <2>1. (writer_pc' = "sputn") = (writer_pc = "sputn") /\ UNCHANGED <<out, write_id>>
    BY <1>4 DEF StopStep, StopBegin, StopDrain, StopLoop, writerVars
  <2> QED
    BY <2>1 DEF OutInv, OutInOrder
<1>5. CASE WriterSleep \/ WriterExit \/ GiveBackResult
  BY <1>5 DEF WriterSleep, WriterExit, GiveBackResult, OutInv, OutInOrder
<1>6. CASE UNCHANGED <<out, write_id, writer_pc>>
  BY <1>6 DEF OutInv, OutInOrder
<1> QED
  BY <1>1, <1>2, <1>3, <1>4, <1>5, <1>6
     DEF Next, StreamNext, WorkerStep, WriterStep, EnqueueTask, GetTask,
         GetResultBuffer, Compute, writerVars, vars

LEMMA NextStopInv == TypeOK /\ StopInv /\ [Next]_vars => StopInv'
<1> SUFFICES ASSUME TypeOK, StopInv, [Next]_vars PROVE StopInv'
  OBVIOUS
<1>1. ASSUME NEW k \in Batches, EnqueueTask(k) PROVE StopInv'
  BY <1>1 DEF EnqueueTask, StopInv
<1>2. ASSUME NEW w \in Workers, GetTask(w) PROVE StopInv'
  <2>1. task_queue = <<>> => task_queue' = <<>>
    BY <1>2 DEF GetTask
  <2> QED
    BY <1>2, <2>1 DEF GetTask, StopInv
<1>3. ASSUME NEW w \in Workers, Publish(w) PROVE StopInv'
  BY <1>3 DEF Publish, NotifyOneBee, CallerAsleep, AfterWait, callVars, StopInv
<1>4. CASE StopStep
  BY <1>4 DEF StopStep, StopBegin, is_task_queue_empty, StopDrain, StopLoop,
              callVars, StopInv
<1>5. CASE UNCHANGED <<task_queue, stopping, caller_pc>>
  BY <1>5 DEF StopInv
<1> QED
  BY <1>1, <1>2, <1>3, <1>4, <1>5
     DEF Next, StreamNext, WorkerStep, WriterStep, GetResultBuffer, Compute,
         WriterSleep, WriterExit, WriterTake, WriterSputn, GiveBackResult,
         callVars, vars

-----------------------------------------------------------------------------
(* The theorems.                                                           *)

(* The inductive invariant of the hive: the lemmas above, put together.    *)
THEOREM Invariance == Spec => []IInv
<1>1. Init => IInv
  BY InitTypeOK, InitControlInv, InitTaskInv, InitBufferInv, InitOutInv DEF IInv
<1>2. IInv /\ [Next]_vars => IInv'
  BY NextTypeOK, NextControlInv, NextQueueInv, NextTaskInv, NextBufferInv,
     NextContentInv, NextOutInv, NextStopInv DEF IInv
<1> QED
  BY <1>1, <1>2, PTL DEF Spec

(* However the workers interleave, worker_loop and writer_loop hand the    *)
(* results to writing_sink_ in the order of the task ids, each once, each  *)
(* from a buffer nobody has overwritten.                                   *)
THEOREM OrderedOutput == Spec => []OutInOrder
<1>1. IInv => OutInOrder
  BY DEF IInv, OutInv
<1> QED
  BY <1>1, Invariance, PTL

(* A task that get_task has popped is in one place: with one worker, in    *)
(* results_, or with the writer and beyond.                                *)
THEOREM NoTaskLost == Spec => []TaskConservation
<1>1. IInv => TaskConservation
  <2> SUFFICES ASSUME IInv PROVE TaskConservation
    OBVIOUS
  <2>0. /\ Len(task_queue) \in Nat /\ next_id \in Nat /\ write_id \in Nat
        /\ WriteId0 \in Nat /\ NoTask \notin Nat /\ DOMAIN results \subseteq Nat
        /\ task \in [Workers -> Nat \cup {NoTask}]
        /\ Len(task_queue) <= next_id
    BY HiveAssumption, LenProperties
       DEF IInv, TypeOK, QueueTypeOK, ResultsTypeOK, WorkersTypeOK, QueueInv
  <2> DEFINE Hands == {task[w] : w \in {v \in Workers : InHand(v)}}
             Done == WriteId0 .. (write_id - 1)
  <2>1. \A id \in Nat : /\ id \in Taken <=> Popped(id)
                        /\ id \in Done <=> Written(id)
    BY <2>0 DEF Taken, Popped, Written
  <2>2. Hands \subseteq Nat /\ Done \subseteq Nat /\ Taken \subseteq Nat
    BY <2>0 DEF Taken, InHand
  <2>3. Taken \subseteq Hands \cup DOMAIN results \cup Done
    <3> SUFFICES ASSUME NEW id \in Taken, id \notin DOMAIN results, id \notin Done
                 PROVE  id \in Hands
      OBVIOUS
    <3>1. PICK w \in Workers : task[w] = id
      BY <2>1, <2>2 DEF IInv, TaskInv
    <3> QED
      BY <2>0, <2>2, <3>1 DEF InHand
  <2>4. Hands \subseteq Taken
    BY <2>1, <2>2 DEF IInv, TaskInv
  <2>5. DOMAIN results \subseteq Taken /\ Done \subseteq Taken
        /\ DOMAIN results \cap Done = {}
    BY <2>0, <2>1, <2>2 DEF IInv, TaskInv
  <2>6. \A w \in Workers : InHand(w) => /\ task[w] \notin DOMAIN results
                                        /\ task[w] \notin Done
    BY <2>0, <2>1 DEF IInv, TaskInv, InHand
  <2>7. \A v, w \in Workers : InHand(v) /\ task[v] = task[w] => v = w
    BY DEF IInv, TaskInv
  <2>8. \A i \in 1..Len(task_queue) :
          task_queue[i] = next_id - Len(task_queue) + i - 1
    BY DEF IInv, QueueInv
  <2> QED
    BY <2>3, <2>4, <2>5, <2>6, <2>7, <2>8 DEF TaskConservation
<1> QED
  BY <1>1, Invariance, PTL

(* A result buffer is never leaked and never used by two threads at once.  *)
THEOREM OneOwnerPerBuffer == Spec => []BufferOwnership
<1>1. IInv => BufferOwnership
  <2> SUFFICES ASSUME IInv PROVE BufferOwnership
    OBVIOUS
  <2>0. /\ res \in [Workers -> ResultBuffers \cup {NoBuffer}]
        /\ results \in [DOMAIN results -> ResultBuffers]
        /\ NoBuffer \notin ResultBuffers
        /\ empty_result_queue \subseteq ResultBuffers
        /\ writer_res \in ResultBuffers \cup {NoBuffer}
        /\ WriterHas <=> writer_res # NoBuffer
    BY HiveAssumption DEF IInv, TypeOK, ResultsTypeOK, WorkersTypeOK,
                          ControlTypeOK, ControlInv
  <2>1. ResultBuffers = empty_result_queue
          \cup {res[w] : w \in {v \in Workers : res[v] # NoBuffer}}
          \cup {results[id] : id \in DOMAIN results}
          \cup (IF WriterHas THEN {writer_res} ELSE {})
    <3>1. \A b \in ResultBuffers : \/ b \in empty_result_queue
                                   \/ \E w \in Workers : res[w] = b
                                   \/ \E id \in DOMAIN results : results[id] = b
                                   \/ writer_res = b
      BY DEF IInv, BufferInv
    <3> QED
      BY <2>0, <3>1
  <2> QED
    BY <2>0, <2>1 DEF IInv, BufferInv, BufferOwnership
<1> QED
  BY <1>1, Invariance, PTL

(* stop() raises stopping_ only when no queued task can be left behind.    *)
THEOREM StopSeesDrainedQueue == Spec => []StopAfterQueueDrained
<1>1. IInv => StopAfterQueueDrained
  BY DEF IInv, StopInv, StopAfterQueueDrained
<1> QED
  BY <1>1, Invariance, PTL

(* The hive whose write_id_ starts at 0 implements the ordered pipe:       *)
(* enqueue_task submits, sputn delivers, everything else is invisible.     *)
THEOREM ImplementsPipe == ASSUME WriteId0 = 0 PROVE Spec => PipeSpec
<1>1. Init => Pipe!Init
  BY DEF Init, Pipe!Init
<1>2. IInv /\ [Next]_vars => [Pipe!Next]_Pipe!pipeVars
  <2> SUFFICES ASSUME IInv, [Next]_vars
               PROVE  [Pipe!Next]_Pipe!pipeVars
    OBVIOUS
  <2>1. ASSUME NEW k \in Batches, EnqueueTask(k) PROVE Pipe!Submit
    <3>1. k \in Nat \ {0} /\ next_id \in Nat
      BY HiveAssumption DEF IInv, TypeOK, QueueTypeOK
    <3> QED
      BY <2>1, <3>1 DEF EnqueueTask, Pipe!Submit
  <2>2. CASE WriterSputn
    <3>1. /\ out' = Append(out, Len(out))
          /\ Len(out) = write_id - 1 /\ Len(out) \in Nat
      BY <2>2, SputnEffect DEF IInv
    <3>2. Popped(write_id - 1)
      BY <3>1, HiveAssumption DEF IInv, TaskInv, TypeOK, ResultsTypeOK
    <3>3. Len(out) < next_id
      BY <3>1, <3>2, LenProperties DEF Popped, IInv, TypeOK, QueueTypeOK
    <3> QED
      BY <2>2, <3>1, <3>3 DEF WriterSputn, callVars, Pipe!Next, Pipe!Deliver
  <2>3. CASE UNCHANGED <<next_id, out>>
    BY <2>3 DEF Pipe!pipeVars
  <2> QED
    BY <2>1, <2>2, <2>3
       DEF Next, StreamNext, WorkerStep, WriterStep, GetTask, GetResultBuffer,
           Compute, Publish, WriterSleep, WriterExit, WriterTake,
           GiveBackResult, StopStep, StopBegin, StopDrain, StopLoop, callVars,
           vars, Pipe!Next
<1> QED
  BY <1>1, <1>2, Invariance, PTL DEF Spec, PipeSpec, Pipe!Spec

-----------------------------------------------------------------------------
(* Condition variables.                                                    *)

LEMMA NextKeepsWakeups == TypeOK /\ NoLostWakeup /\ [Next]_vars => NoLostWakeup'
<1> SUFFICES ASSUME TypeOK, NoLostWakeup, [Next]_vars PROVE NoLostWakeup'
  OBVIOUS
<1>0. worker_pc \in [Workers -> {"get_task", "task_wait", "get_result_buffer",
                                 "buffer_wait", "compute", "publish"}]
  BY DEF TypeOK, WorkersTypeOK
<1> USE DEF NoLostWakeup
<1>1. ASSUME NEW k \in Batches, EnqueueTask(k) PROVE NoLostWakeup'
  BY <1>0, <1>1 DEF EnqueueTask, WakeWorkers, writerVars
<1>2. ASSUME NEW w \in Workers, GetTask(w) PROVE NoLostWakeup'
  BY <1>0, <1>2 DEF GetTask, writerVars
<1>3. ASSUME NEW w \in Workers, GetResultBuffer(w) PROVE NoLostWakeup'
  BY <1>0, <1>3 DEF GetResultBuffer, callVars, writerVars
<1>4. ASSUME NEW w \in Workers, Compute(w) PROVE NoLostWakeup'
  BY <1>0, <1>4 DEF Compute, callVars, writerVars
<1>5. ASSUME NEW w \in Workers, Publish(w) PROVE NoLostWakeup'
  <2>1. ~(writer_pc' = "asleep" /\ caller_pc' = "stream")
    BY <1>5 DEF Publish, NotifyOneBee, CallerAsleep, AfterWait
  <2> QED
    BY <1>0, <1>5, <2>1 DEF Publish, callVars
<1>6. CASE WriterStep
  BY <1>0, <1>6 DEF WriterStep, WriterSleep, WriterExit, WriterTake, WriterSputn,
                    GiveBackResult, WakeWorkers, callVars, workerVars
<1>7. CASE StopStep
  BY <1>0, <1>7 DEF StopStep, StopBegin, StopDrain, StopLoop, callVars,
                    workerVars, writerVars
<1>8. CASE UNCHANGED vars
  BY <1>8 DEF vars
<1> QED
  BY <1>1, <1>2, <1>3, <1>4, <1>5, <1>6, <1>7, <1>8
     DEF Next, StreamNext, WorkerStep

(* The wait and notify pairs of the hive lose no wakeup, as long as the    *)
(* thread in stop() does not share the writer's condition variable.        *)
THEOREM WakeupsReach == Spec => []NoLostWakeup
<1>1. Init => NoLostWakeup
  BY DEF Init, NoLostWakeup
<1>2. IInv => TypeOK
  BY DEF IInv
<1> QED
  BY <1>1, <1>2, NextKeepsWakeups, Invariance, PTL DEF Spec

(* Only an exhausted supply of result buffers brings the hive to a         *)
(* standstill: with no more tasks outstanding than threads + 2 it runs on. *)
THEOREM StallNeedsExhaustion == Spec => []StallOnlyByExhaustion
<1>1. IInv /\ NoLostWakeup => StallOnlyByExhaustion
  <2> SUFFICES ASSUME IInv, NoLostWakeup, Stalled, WriteId0 = 0
               PROVE  /\ empty_result_queue = {}
                      /\ Cardinality(DOMAIN results) = Cardinality(ResultBuffers)
                      /\ \E w \in Workers : /\ worker_pc[w] = "buffer_wait"
                                            /\ task[w] = write_id
                      /\ next_id - Len(out) > Cardinality(ResultBuffers)
    BY DEF StallOnlyByExhaustion
  <2>0. /\ next_id \in Nat /\ write_id \in Nat /\ Len(task_queue) \in Nat
        /\ task \in [Workers -> Nat \cup {NoTask}] /\ NoTask \notin Nat
        /\ DOMAIN results \subseteq Nat
        /\ results \in [DOMAIN results -> ResultBuffers]
        /\ NoBuffer \notin ResultBuffers
        /\ empty_result_queue \subseteq ResultBuffers
        /\ IsFiniteSet(ResultBuffers) /\ Workers # {}
    BY HiveAssumption, LenProperties
       DEF IInv, TypeOK, QueueTypeOK, ResultsTypeOK, WorkersTypeOK
  <2>1. Len(out) = write_id /\ write_id < next_id
    BY <2>0 DEF IInv, OutInv, Stalled
  <2>2. write_id \notin DOMAIN results
    BY DEF Stalled, NoLostWakeup
  <2>3. \A w \in Workers : \/ worker_pc[w] = "task_wait" /\ task_queue = <<>>
                           \/ worker_pc[w] = "buffer_wait" /\ InHand(w)
    BY DEF Stalled, NoLostWakeup, IInv, ControlInv
  <2>4. Popped(write_id)
    <3>1. CASE task_queue = <<>>
      BY <2>0, <2>1, <3>1, EmptySeq DEF Popped
    <3>2. CASE task_queue # <<>>
      <4>1. PICK w \in Workers : InHand(w)
        BY <2>0, <2>3, <3>2
      <4>2. task[w] \in Nat /\ Popped(task[w]) /\ ~Written(task[w])
        BY <2>0, <4>1 DEF IInv, TaskInv, InHand
      <4> QED
        BY <2>0, <4>2 DEF Popped, Written
    <3> QED
      BY <3>1, <3>2
  <2>5. PICK w \in Workers : task[w] = write_id
    <3>1. write_id \in Taken /\ ~Written(write_id)
      BY <2>0, <2>4 DEF Taken, Popped, Written
    <3> QED
      BY <2>2, <3>1 DEF IInv, TaskInv
  <2>6. worker_pc[w] = "buffer_wait"
    <3>1. InHand(w)
      BY <2>0, <2>5 DEF InHand
    <3> QED
      BY <2>3, <3>1 DEF IInv, ControlInv
  <2>7. empty_result_queue = {}
    BY <2>6 DEF NoLostWakeup
  <2>8. \A b \in ResultBuffers : \E id \in DOMAIN results : results[id] = b
    <3>1. writer_res = NoBuffer /\ \A v \in Workers : res[v] = NoBuffer
      BY DEF Stalled, IInv, ControlInv, WriterHas
    <3> QED
      BY <2>0, <2>7, <3>1 DEF IInv, BufferInv
  <2>9. /\ results \in Injection(DOMAIN results, ResultBuffers)
        /\ results \in Surjection(DOMAIN results, ResultBuffers)
    BY <2>0, <2>8 DEF IInv, BufferInv, Injection, Surjection, IsInjective
  <2>10. /\ IsFiniteSet(DOMAIN results)
         /\ Cardinality(DOMAIN results) = Cardinality(ResultBuffers)
    BY <2>0, <2>9, FS_Injection
  <2>11. DOMAIN results \subseteq (write_id + 1) .. (next_id - 1)
    BY <2>0, <2>2 DEF IInv, TaskInv, Popped, Written
  <2>12. Cardinality(DOMAIN results) <= next_id - 1 - write_id
    <3> DEFINE later == (write_id + 1) .. (next_id - 1)
    <3>1. IsFiniteSet(later) /\ Cardinality(later) = next_id - 1 - write_id
      <4>1. write_id + 1 \in Int /\ next_id - 1 \in Int
        BY <2>0
      <4>2. /\ IsFiniteSet(later)
            /\ Cardinality(later) = IF write_id + 1 > next_id - 1 THEN 0
                                    ELSE (next_id - 1) - (write_id + 1) + 1
        BY <4>1, FS_Interval
      <4> QED
        BY <2>0, <2>1, <4>2
    <3> HIDE DEF later
    <3>2. Cardinality(DOMAIN results) <= Cardinality(later)
      BY <2>11, <3>1, FS_Subset DEF later
    <3> QED
      BY <3>1, <3>2
  <2>13. Cardinality(DOMAIN results) \in Nat
    BY <2>10, FS_CardinalityType
  <2> QED
    BY <2>0, <2>1, <2>5, <2>6, <2>7, <2>10, <2>12, <2>13
<1> QED
  BY <1>1, Invariance, WakeupsReach, PTL

-----------------------------------------------------------------------------
(* What stop() may lose.                                                   *)

(* The writer leaves only once it is told to.                              *)
DoneWhenTold == writer_pc = "done" => stopping

LEMMA NextDoneWhenTold == TypeOK /\ DoneWhenTold /\ [Next]_vars => DoneWhenTold'
<1> SUFFICES ASSUME TypeOK, DoneWhenTold, [Next]_vars PROVE DoneWhenTold'
  OBVIOUS
<1>1. ASSUME NEW w \in Workers, Publish(w) PROVE DoneWhenTold'
  BY <1>1 DEF Publish, NotifyOneBee, DoneWhenTold
<1>2. CASE WriterStep
  BY <1>2 DEF WriterStep, WriterSleep, WriterExit, WriterTake, WriterSputn,
              GiveBackResult, DoneWhenTold
<1>3. CASE StopStep
  BY <1>3 DEF StopStep, StopBegin, StopDrain, StopLoop, writerVars, DoneWhenTold
<1>4. CASE UNCHANGED <<writer_pc, stopping>>
  BY <1>4 DEF DoneWhenTold
<1> QED
  BY <1>1, <1>2, <1>3, <1>4
     DEF Next, StreamNext, WorkerStep, EnqueueTask, GetTask, GetResultBuffer,
         Compute, writerVars, vars

(* When nothing is queued and nothing stored, every unwritten task is with *)
(* a worker, and no worker has two.                                        *)
LEMMA UnwrittenInHand ==
  ASSUME IInv, task_queue = <<>>, DOMAIN results = {}
  PROVE  Cardinality(Unwritten) <= Cardinality(Workers)
<1>1. /\ next_id \in Nat /\ write_id \in Nat /\ WriteId0 \in Nat
      /\ IsFiniteSet(Workers) /\ Len(task_queue) = 0
  BY HiveAssumption, EmptySeq DEF IInv, TypeOK, QueueTypeOK, ResultsTypeOK
<1>2. \A id \in Unwritten : \E w \in Workers : task[w] = id
  <2> SUFFICES ASSUME NEW id \in Unwritten PROVE \E w \in Workers : task[w] = id
    OBVIOUS
  <2>1. id \in Taken /\ ~Written(id)
    BY <1>1 DEF Unwritten, Taken, Written
  <2> QED
    BY <2>1 DEF IInv, TaskInv
<1> DEFINE worker == [id \in Unwritten |-> CHOOSE w \in Workers : task[w] = id]
<1>3. \A id \in Unwritten : worker[id] \in Workers /\ task[worker[id]] = id
  BY <1>2
<1> HIDE DEF worker
<1>4. worker \in Injection(Unwritten, Workers)
  <2>1. worker \in [Unwritten -> Workers]
    BY <1>3 DEF worker
  <2> QED
    BY <1>3, <2>1 DEF Injection, IsInjective
<1> QED
  BY <1>1, <1>4, FS_Injection

(* stop() loses no more tasks than there are workers: when the writer      *)
(* leaves, the queue and the map are empty, so what is unwritten is with   *)
(* the workers; and as the owner has left the stream, and nobody writes,   *)
(* the unwritten tasks are the same ever after.                            *)
THEOREM LossIsBounded == Spec => []LossBoundedByWorkers
<1>1. Init => DoneWhenTold /\ LossBoundedByWorkers
  BY DEF Init, DoneWhenTold, LossBoundedByWorkers
<1>2. /\ IInv /\ DoneWhenTold /\ LossBoundedByWorkers
      /\ [Next]_vars
      => LossBoundedByWorkers'
  <2> SUFFICES ASSUME IInv, DoneWhenTold, LossBoundedByWorkers, [Next]_vars,
                      writer_pc' = "done"
               PROVE  (Cardinality(Unwritten) <= Cardinality(Workers))'
    BY DEF LossBoundedByWorkers
  <2>1. CASE WriterExit
    <3>1. Cardinality(Unwritten) <= Cardinality(Workers)
      BY <2>1, UnwrittenInHand DEF WriterExit, IInv, StopInv
    <3> QED
      BY <2>1, <3>1 DEF WriterExit, callVars, Unwritten
  <2>2. CASE writer_pc = "done"
    <3>1. caller_pc # "stream"
      BY <2>2 DEF DoneWhenTold, IInv, StopInv
    <3>2. UNCHANGED <<next_id, write_id>>
      BY <2>2, <3>1
         DEF Next, StreamNext, WorkerStep, WriterStep, EnqueueTask, GetTask,
             GetResultBuffer, Compute, Publish, WriterSleep, WriterExit,
             WriterTake, WriterSputn, GiveBackResult, StopStep, StopBegin,
             StopDrain, StopLoop, callVars, vars
    <3>3. UNCHANGED Unwritten
      BY <3>2 DEF Unwritten
    <3> QED
      BY <2>2, <3>3 DEF LossBoundedByWorkers
  <2>3. CASE ~WriterExit /\ writer_pc # "done"
    <3>1. ASSUME NEW w \in Workers, Publish(w) PROVE FALSE
      BY <2>3, <3>1 DEF Publish, NotifyOneBee
    <3>2. CASE StopStep
      BY <2>3, <3>2 DEF StopStep, StopBegin, StopDrain, StopLoop, writerVars
    <3> QED
      BY <2>3, <3>1, <3>2
         DEF Next, StreamNext, WorkerStep, WriterStep, EnqueueTask, GetTask,
             GetResultBuffer, Compute, WriterSleep, WriterTake, WriterSputn,
             GiveBackResult, writerVars, vars
  <2> QED
    BY <2>1, <2>2, <2>3
<1>3. IInv => TypeOK
  BY DEF IInv
<1> QED
  BY <1>1, <1>2, <1>3, NextDoneWhenTold, Invariance, PTL DEF Spec
=============================================================================
