----------------------- MODULE ContinuousWriterProofs -----------------------
(***************************************************************************)
(* Proofs about ContinuousWriter, and with it about DataModifier, for any  *)
(* thread counts, sizes and lengths: the types, that tasks, futures and    *)
(* bytes are kept, and that results are written in order.                  *)
(***************************************************************************)
EXTENDS ContinuousWriter, ChunksProofs, SequenceTheorems, FiniteSetTheorems,
        FunctionTheorems, WellFoundedInduction
-----------------------------------------------------------------------------
(* What is still to do in a call.                                          *)

Op(i)    == todo[i].op
StepOK(s) ==
  /\ s.op = "enqueue_task" => s.n <= MaxBytes
  /\ s.op \in {"grow", "threads"} => s.n \in ThreadCounts
  /\ s.op = "shrink" => s.n > 0

(* The steps are well formed, and those that an action puts in front of    *)
(* the others are nowhere else.  A worker is joined after it was told to   *)
(* end, which the first one never is.                                      *)
StepOps ==
  {"enqueue_task", "results", "flush_to", "write", "flush", "collect", "finish_wait",
   "raise_stop", "shrink", "grow", "threads", "join", "stop_worker", "start_writer",
   "add_writer", "destroyed"}
InFront == {"results", "write", "collect", "join"}
TodoInv ==
  /\ todo \in Seq([op : StepOps, n : Nat])
  /\ \A i \in 1..Len(todo) : StepOK(todo[i])
  /\ \A i \in 2..Len(todo) : Op(i) \notin InFront
  /\ At("join") => Len(running) > 1
  /\ fill <= total

(* A call of the stream buffer.  set_threads has stopped the workers that  *)
(* are too many before it starts others, and starts no more than it will   *)
(* allow.  A destructor has its last flush_to before it, after every       *)
(* enqueue_task, or it is in that flush_to, or there never was a byte.     *)
StreamOps == {"enqueue_task", "results", "flush_to", "write", "finish_wait",
              "raise_stop", "shrink", "grow", "threads", "join", "destroyed"}
StreamInv ==
  ~direct =>
    /\ \A i \in 1..Len(todo) : Op(i) \in StreamOps
    /\ \A i \in 1..Len(todo) : Op(i) = "threads" =>
         /\ \A j \in 1..(i - 1) : Op(j) = "grow" => todo[j].n = todo[i].n
         /\ \/ Len(running) <= todo[i].n
            \/ \E j \in 1..(i - 1) : Op(j) = "shrink" /\ todo[j].n = todo[i].n
    /\ \A i \in 1..Len(todo) : Op(i) = "destroyed" =>
         /\ fill = 0
         /\ \/ At("write")
            \/ total = 0
            \/ \E j \in 1..(i - 1) :
                 /\ Op(j) = "flush_to"
                 /\ \A k \in (j + 1)..Len(todo) : Op(k) # "enqueue_task"

(* A call of a ParallelDataModifier that is used directly.  Before the     *)
(* first chunk, workers are started up to threads_, and one of them makes  *)
(* room for the first writer if there are that many.                       *)
Ops == [i \in 1..Len(todo) |-> Op(i)]
StartOps ==
  {<<"finish_wait", "raise_stop", "shrink", "grow", "stop_worker", "start_writer">>,
   <<"raise_stop", "shrink", "grow", "stop_worker", "start_writer">>,
   <<"shrink", "grow", "stop_worker", "start_writer">>}
GrowOps == {<<"grow", "stop_worker", "start_writer">>}
StopOps ==
  {<<"stop_worker", "start_writer">>, <<"join", "start_writer">>,
   <<"stop_worker", "add_writer">>, <<"join", "add_writer">>}
AddOps == {<<"start_writer">>, <<"add_writer">>}
EnqueueOps == {<<"enqueue_task", "stop_worker", "start_writer">>}
ResultsOps == {<<"results", "stop_worker", "start_writer">>}
EndOps ==
  {<<"finish_wait", "raise_stop", "shrink", "destroyed">>,
   <<"raise_stop", "shrink", "destroyed">>, <<"shrink", "destroyed">>,
   <<"join", "shrink", "destroyed">>, <<"destroyed">>}
WriterOps == StartOps \cup GrowOps \cup StopOps \cup AddOps \cup EnqueueOps \cup ResultsOps
DirectOK(ops, none, writers, workers, limit) ==
  /\ ops \in WriterOps \cup EndOps \cup {<<>>, <<"flush">>, <<"collect">>}
  /\ ops \in WriterOps => writers < MaxWriters
  /\ ops \in StartOps \cup GrowOps => none /\ writers = 0
  /\ ops \in StartOps => workers = 0
  /\ none =>
       /\ ops \notin ResultsOps \cup EndOps \cup {<<"collect">>}
       /\ ops \in StopOps => writers = 0 /\ workers >= limit
       /\ ops \in AddOps => writers = 0 /\ workers + 1 >= limit
       /\ ops \in EnqueueOps \cup {<<>>, <<"flush">>} =>
            writers = 1 /\ workers + 1 >= limit
DirectInv ==
  direct =>
    /\ DirectOK(Ops, chunks = <<>>, Len(writer_pc), Len(running), threads)
    /\ \A i \in 1..Len(todo) : Op(i) = "grow" => todo[i].n = threads
    /\ At("enqueue_task") => Arg > 0
-----------------------------------------------------------------------------
(* The tasks.  tasks_ holds the last ids in order; an id before these is   *)
(* in the hand of one worker, or done.                                     *)
FirstQueued == Len(chunks) - Len(tasks)
Busy(i) == hand[i] # NoTask
TasksInv ==
  /\ FirstQueued \in Nat
  /\ \A k \in 1..Len(tasks) : tasks[k] = FirstQueued + k - 1
  /\ \A i \in Slots : Busy(i) => hand[i] < FirstQueued /\ hand[i] \notin done
  /\ \A i, j \in Slots : Busy(i) /\ Busy(j) /\ hand[i] = hand[j] => i = j
  /\ \A id \in done : id < FirstQueued
  /\ \A id \in 0..(FirstQueued - 1) :
       id \in done \/ \E i \in Slots : Busy(i) /\ hand[i] = id

(* The futures.  results_ has all there are, in the order of their ids,    *)
(* but for those of the enqueue_task in progress; or flush_to, or flush,   *)
(* has taken all, and never returns.                                       *)
Upto(n) == [i \in 1..n |-> i - 1]
Taking  == At("write") \/ At("collect")
ToCome  == IF At("results") THEN Arg ELSE 0
FuturesInv ==
  /\ ToCome <= Len(chunks)
  /\ Taking => results = <<>> /\ local = Upto(Len(chunks)) /\ chunks # <<>>
  /\ ~Taking => local = <<>> /\ results = Upto(Len(chunks) - ToCome)

(* What was written: by flush_to from id 0, by the writers from id 1.  One *)
(* writer at a time has the lock of results_, and the future it waits for  *)
(* is there; none is ahead of the ids in a way that matters.               *)
WrittenInv ==
  /\ ToSet(written) \subseteq done
  /\ ~direct => /\ written = Upto(Len(written))
                /\ write_id = 1
                /\ written # <<>> => At("write")
                /\ At("write") => next_id = Len(written)
  /\ direct => /\ \A i \in 1..Len(written) : written[i] = i
               /\ write_id = Len(written) + 1
  /\ write_id > 1 => write_id <= Len(chunks)
  /\ \A j \in Writers : /\ writer_pc[j] = "get" => write_id \in ToSet(results)
                        /\ writer_pc[j] # "join"
  /\ \A j, k \in Writers : writer_pc[j] = "get" /\ writer_pc[k] = "get" => j = k

(* Every byte accepted is in the put area, in a chunk or in the call.      *)
BytesInv ==
  /\ IsFiniteSet(ChunkBytes) /\ IsFiniteSet(PendingBytes)
  /\ total = fill + Cardinality(ChunkBytes) + Cardinality(PendingBytes)

ModifierInv ==
  /\ AllTypeOK
  /\ TodoInv /\ StreamInv /\ DirectInv
  /\ TasksInv /\ FuturesInv /\ WrittenInv /\ BytesInv
-----------------------------------------------------------------------------
(* Constants and sequences.                                                *)

LEMMA LeastOf ==
  ASSUME NEW S, S \subseteq Nat, S # {}
  PROVE  \E x \in S : \A y \in S : x <= y
<1> DEFINE less == OpToRel(<, Nat)
<1>1. IsWellFoundedOn(less, Nat)
  BY NatLessThanWellFounded
<1>2. PICK x \in S : \A y \in S : ~(<<y, x>> \in less)
  <2> HIDE DEF less
  <2> QED
    BY <1>1, WFMin
<1>3. ASSUME NEW y \in S PROVE x <= y
  <2>1. x \in Nat /\ y \in Nat
    OBVIOUS
  <2>2. ~(y < x)
    BY <1>2, <2>1 DEF OpToRel
  <2> QED
    BY <2>1, <2>2
<1> QED
  BY <1>3

(* A finite set of numbers has a largest one: it has the fewest above it.  *)
LEMMA MaxOf ==
  ASSUME NEW S, S \subseteq Nat, S # {}, IsFiniteSet(S)
  PROVE  Max(S) \in S /\ \A y \in S : y <= Max(S)
<1> DEFINE Above(x) == {y \in S : y > x}
           C == {Cardinality(Above(x)) : x \in S}
<1>1. \A x \in S : IsFiniteSet(Above(x)) /\ Cardinality(Above(x)) \in Nat
  <2> SUFFICES ASSUME NEW x \in S
               PROVE  IsFiniteSet(Above(x)) /\ Cardinality(Above(x)) \in Nat
    OBVIOUS
  <2>1. Above(x) \in SUBSET S
    OBVIOUS
  <2> HIDE DEF Above
  <2> QED
    BY <2>1, FS_Subset, FS_CardinalityType
<1>2. C \subseteq Nat /\ C # {}
  BY <1>1
<1>3. PICK c \in C : \A d \in C : c <= d
  <2> HIDE DEF C
  <2> QED
    BY <1>2, LeastOf
<1>4. PICK x \in S : c = Cardinality(Above(x))
  OBVIOUS
<1>5. ASSUME NEW y \in S, y > x PROVE FALSE
  <2>1. x \in Nat /\ y \in Nat
    OBVIOUS
  <2>2. Above(y) \in SUBSET Above(x) /\ y \in Above(x) /\ y \notin Above(y)
    <3>1. \A z \in S : z \in Nat
      OBVIOUS
    <3>2. \A z \in S : z > y => z > x
      BY <1>5, <2>1, <3>1
    <3>3. ~(y > y)
      BY <2>1
    <3> QED
      BY <1>5, <3>2, <3>3, Zenon
  <2>3. Cardinality(Above(y)) \in C
    OBVIOUS
  <2> HIDE DEF Above, C
  <2>4. /\ Cardinality(Above(y)) <= Cardinality(Above(x))
        /\ Cardinality(Above(x)) = Cardinality(Above(y)) => Above(x) = Above(y)
    BY <1>1, <2>2, FS_Subset
  <2>5. Cardinality(Above(x)) <= Cardinality(Above(y))
    BY <1>3, <1>4, <2>3
  <2> QED
    BY <1>1, <2>2, <2>4, <2>5
<1>6. \A y \in S : x >= y
  <2>1. \A y \in S : y \in Nat
    OBVIOUS
  <2> QED
    BY <1>5, <2>1
<1>7. Max(S) \in S /\ \A y \in S : Max(S) >= y
  BY <1>6 DEF Max
<1> QED
  <2>1. \A y \in S : y \in Nat
    OBVIOUS
  <2> QED
    BY <1>7, <2>1

LEMMA MaxOfTwo ==
  ASSUME NEW a \in Nat, NEW b \in Nat
  PROVE  Max({a, b}) \in Nat /\ Max({a, b}) >= a /\ Max({a, b}) >= b
<1>1. \E x \in {a, b} : \A y \in {a, b} : x >= y
  <2>1. CASE a >= b
    BY <2>1
  <2>2. CASE b >= a
    BY <2>2
  <2> QED
    BY <2>1, <2>2
<1>2. Max({a, b}) \in {a, b} /\ \A y \in {a, b} : Max({a, b}) >= y
  BY <1>1 DEF Max
<1> QED
  BY <1>2

LEMMA Constants ==
  /\ ThreadCounts \subseteq Nat \ {0} /\ BufferSizes \subseteq Nat \ {0}
  /\ WriteSizes \subseteq Nat \ {0} /\ MaxBytes \in Nat
  /\ NoTask \notin Nat /\ MaxWriters \in Nat \ {0}
  /\ Max(ThreadCounts) \in Nat
  /\ \A n \in ThreadCounts : n <= Max(ThreadCounts)
<1>1. ThreadCounts \subseteq Nat /\ ThreadCounts # {} /\ IsFiniteSet(ThreadCounts)
  BY ModifierAssumption
<1>2. Max(ThreadCounts) \in ThreadCounts /\ \A n \in ThreadCounts : n <= Max(ThreadCounts)
  BY <1>1, MaxOf
<1> QED
  BY <1>1, <1>2, ModifierAssumption, WriterAssumption

(* A function on 1..n is a sequence of length n.                           *)
LEMMA FunctionIsSeq ==
  ASSUME NEW S, NEW n \in Nat, NEW f \in [1..n -> S]
  PROVE  f \in Seq(S) /\ Len(f) = n
<1>1. f \in Seq(S)
  BY SeqDef
<1>2. DOMAIN f = 1..n /\ DOMAIN f = 1..Len(f) /\ Len(f) \in Nat
  BY <1>1, LenProperties
<1> QED
  BY <1>1, <1>2

(* One element in front of a sequence.                                     *)
LEMMA Prepend ==
  ASSUME NEW S, NEW s \in Seq(S), NEW e \in S
  PROVE  /\ <<e>> \o s \in Seq(S)
         /\ Len(<<e>> \o s) = Len(s) + 1
         /\ (<<e>> \o s)[1] = e
         /\ \A i \in 1..Len(s) : (<<e>> \o s)[i + 1] = s[i]
<1> DEFINE p == <<e>>
<1>1. p \in Seq(S) /\ Len(p) = 1 /\ p[1] = e
  OBVIOUS
<1>2. Len(s) \in Nat
  BY LenProperties
<1> HIDE DEF p
<1>3. /\ p \o s \in Seq(S) /\ Len(p \o s) = Len(p) + Len(s)
      /\ \A i \in 1..(Len(p) + Len(s)) :
           (p \o s)[i] = IF i <= Len(p) THEN p[i] ELSE s[i - Len(p)]
  BY <1>1, ConcatProperties
<1>4. (p \o s)[1] = e
  BY <1>1, <1>2, <1>3
<1>5. ASSUME NEW i \in 1..Len(s) PROVE (p \o s)[i + 1] = s[i]
  <2>1. i + 1 \in 1..(Len(p) + Len(s)) /\ ~(i + 1 <= Len(p)) /\ i + 1 - Len(p) = i
    BY <1>1, <1>2
  <2> QED
    BY <1>3, <2>1
<1> QED
  BY <1>1, <1>2, <1>3, <1>4, <1>5 DEF p
-----------------------------------------------------------------------------
(* What the steps do to the rest of the call.                              *)
StepSet == [op : StepOps, n : Nat]

LEMMA TodoFacts ==
  ASSUME todo \in Seq(StepSet)
  PROVE  /\ Len(todo) \in Nat /\ DOMAIN todo = 1..Len(todo)
         /\ \A i \in 1..Len(todo) : todo[i] \in StepSet
         /\ todo # <<>> <=> Len(todo) > 0
         /\ Len(todo) > 0 => Head(todo) = todo[1]
<1>1. Len(todo) \in Nat /\ DOMAIN todo = 1..Len(todo) /\ todo \in [1..Len(todo) -> StepSet]
  BY LenProperties
<1>2. todo # <<>> <=> Len(todo) > 0
  BY EmptySeq, <1>1
<1> QED
  BY <1>1, <1>2

LEMMA Returned ==
  ASSUME todo \in Seq(StepSet), todo # <<>>, todo' = Tail(todo)
  PROVE  /\ todo' \in Seq(StepSet) /\ Len(todo)' = Len(todo) - 1
         /\ \A i \in 1..(Len(todo) - 1) : todo'[i] = todo[i + 1]
  BY HeadTailProperties

LEMMA Replaced ==
  ASSUME todo \in Seq(StepSet), todo # <<>>, NEW s \in StepSet,
         todo' = <<s>> \o Tail(todo)
  PROVE  /\ todo' \in Seq(StepSet) /\ Len(todo)' = Len(todo)
         /\ todo'[1] = s
         /\ \A i \in 2..Len(todo) : todo'[i] = todo[i]
<1> DEFINE t == Tail(todo)
           r == todo'
<1>1. t \in Seq(StepSet) /\ Len(t) = Len(todo) - 1
      /\ \A i \in 1..Len(t) : t[i] = todo[i + 1]
  BY HeadTailProperties
<1>2. Len(todo) \in Nat
  BY TodoFacts
<1>3. r = <<s>> \o t
  OBVIOUS
<1> HIDE DEF t, r
<1>4. /\ r \in Seq(StepSet) /\ Len(r) = Len(t) + 1 /\ r[1] = s
      /\ \A i \in 1..Len(t) : r[i + 1] = t[i]
  BY <1>1, <1>3, Prepend
<1>5. ASSUME NEW i \in 2..Len(todo) PROVE r[i] = todo[i]
  <2> DEFINE j == i - 1
  <2>1. j \in 1..Len(t) /\ j + 1 = i
    BY <1>1, <1>2
  <2> HIDE DEF j
  <2> QED
    BY <1>1, <1>4, <2>1
<1> QED
  BY <1>1, <1>2, <1>4, <1>5 DEF r

LEMMA Pushed ==
  ASSUME todo \in Seq(StepSet), NEW s \in StepSet, todo' = <<s>> \o todo
  PROVE  /\ todo' \in Seq(StepSet) /\ Len(todo)' = Len(todo) + 1
         /\ todo'[1] = s
         /\ \A i \in 1..Len(todo) : todo'[i + 1] = todo[i]
  BY Prepend
-----------------------------------------------------------------------------
(* The caller's steps keep TodoInv and StreamInv.                          *)

LEMMA AtFacts ==
  ASSUME todo \in Seq(StepSet), NEW op
  PROVE  /\ At(op) <=> Len(todo) > 0 /\ Op(1) = op
         /\ At(op) => Arg = todo[1].n /\ todo # <<>> /\ todo[1] \in StepSet
<1>1. /\ Len(todo) \in Nat /\ (todo # <<>> <=> Len(todo) > 0)
      /\ Len(todo) > 0 => Head(todo) = todo[1]
      /\ \A i \in 1..Len(todo) : todo[i] \in StepSet
  BY TodoFacts
<1> QED
  BY <1>1 DEF At, Op, Arg

LEMMA AtFactsNext ==
  ASSUME todo' \in Seq(StepSet), NEW op
  PROVE  At(op)' <=> Len(todo') > 0 /\ Op(1)' = op
<1>1. Len(todo') \in Nat
  BY LenProperties
<1>2. todo' # <<>> <=> Len(todo') > 0
  BY <1>1, EmptySeq
<1>3. Len(todo') > 0 => Head(todo') = todo'[1]
  OBVIOUS
<1> QED
  BY <1>2, <1>3 DEF At, Op

LEMMA ReturnKeeps ==
  ASSUME TodoInv, StreamInv, todo # <<>>, todo' = Tail(todo),
         UNCHANGED <<fill, total, direct>>,
         Len(running) \in Nat, Len(running') \in Nat, Len(running') <= Len(running),
         ~direct => /\ Op(1) # "write"
                    /\ Op(1) = "flush_to" =>
                         \/ fill # 0 \/ total = 0
                         \/ \E k \in 2..Len(todo) : Op(k) = "enqueue_task",
         Op(1) = "shrink" => Len(running') <= todo[1].n
  PROVE  TodoInv' /\ StreamInv'
<1>1. /\ todo \in Seq(StepSet) /\ \A i \in 1..Len(todo) : StepOK(todo[i])
      /\ \A i \in 2..Len(todo) : Op(i) \notin InFront
  BY DEF TodoInv, StepSet
<1>2. /\ todo' \in Seq(StepSet) /\ Len(todo') = Len(todo) - 1
      /\ \A i \in 1..(Len(todo) - 1) : todo'[i] = todo[i + 1]
  BY <1>1, Returned
<1>3. Len(todo) \in Nat /\ Len(todo) > 0
  BY <1>1, TodoFacts
<1> DEFINE L == Len(todo)
<1>4. \A i \in 1..(L - 1) : i + 1 \in 2..L /\ Op(i)' = Op(i + 1) /\ todo'[i] = todo[i + 1]
  BY <1>2, <1>3 DEF Op
<1>5. Len(todo') = L - 1 /\ L \in Nat /\ L > 0
  BY <1>2, <1>3
<1>6. \A i \in 2..L : i - 1 \in 1..(L - 1) /\ Op(i - 1)' = Op(i) /\ todo'[i - 1] = todo[i]
  <2> SUFFICES ASSUME NEW i \in 2..L
               PROVE  i - 1 \in 1..(L - 1) /\ Op(i - 1)' = Op(i) /\ todo'[i - 1] = todo[i]
    OBVIOUS
  <2>1. i - 1 \in 1..(L - 1) /\ i - 1 + 1 = i
    BY <1>3
  <2> QED
    BY <1>4, <2>1
<1> HIDE DEF L
<1>7. TodoInv'
  <2>1. \A i \in 1..(L - 1) : StepOK(todo'[i])
    BY <1>1, <1>4 DEF L
  <2>2. \A i \in 1..(L - 1) : Op(i)' \notin InFront
    BY <1>1, <1>4 DEF L
  <2>3. ~At("join")'
    <3>1. At("join")' => Len(todo') > 0 /\ Op(1)' = "join"
      BY <1>2, AtFactsNext
    <3> QED
      BY <1>5, <2>2, <3>1 DEF InFront
  <2> QED
    BY <1>2, <1>5, <2>1, <2>2, <2>3 DEF TodoInv, StepSet
<1>8. ASSUME ~direct
      PROVE  /\ \A i \in 1..(L - 1) : Op(i)' \in StreamOps
             /\ \A i \in 1..(L - 1) : Op(i)' = "threads" =>
                  /\ \A j \in 1..(i - 1) : Op(j)' = "grow" => todo'[j].n = todo'[i].n
                  /\ \/ Len(running') <= todo'[i].n
                     \/ \E j \in 1..(i - 1) : Op(j)' = "shrink" /\ todo'[j].n = todo'[i].n
  <2>1. /\ \A i \in 1..L : Op(i) \in StreamOps
        /\ \A i \in 1..L : Op(i) = "threads" =>
             /\ \A j \in 1..(i - 1) : Op(j) = "grow" => todo[j].n = todo[i].n
             /\ \/ Len(running) <= todo[i].n
                \/ \E j \in 1..(i - 1) : Op(j) = "shrink" /\ todo[j].n = todo[i].n
    BY <1>8 DEF StreamInv, L
  <2>2. ASSUME NEW i \in 1..(L - 1), Op(i)' = "threads"
        PROVE  /\ \A j \in 1..(i - 1) : Op(j)' = "grow" => todo'[j].n = todo'[i].n
               /\ \/ Len(running') <= todo'[i].n
                  \/ \E j \in 1..(i - 1) : Op(j)' = "shrink" /\ todo'[j].n = todo'[i].n
    <3>1. i + 1 \in 1..L /\ Op(i + 1) = "threads" /\ todo'[i] = todo[i + 1] /\ i + 1 - 1 = i
      BY <1>4, <1>5, <2>2
    <3>2. /\ \A j \in 1..i : Op(j) = "grow" => todo[j].n = todo[i + 1].n
          /\ \/ Len(running) <= todo[i + 1].n
             \/ \E j \in 1..i : Op(j) = "shrink" /\ todo[j].n = todo[i + 1].n
      BY <2>1, <3>1
    <3>3. \A j \in 1..(i - 1) : Op(j)' = "grow" => todo'[j].n = todo'[i].n
      <4> SUFFICES ASSUME NEW j \in 1..(i - 1), Op(j)' = "grow"
                   PROVE  todo'[j].n = todo'[i].n
        OBVIOUS
      <4>1. j \in 1..(L - 1) /\ j + 1 \in 1..i
        BY <1>5
      <4> QED
        BY <1>4, <3>1, <3>2, <4>1
    <3>4. CASE Len(running) <= todo[i + 1].n
      <4>1. todo[i + 1].n \in Nat
        <5>1. todo[i + 1] \in StepSet
          BY <1>1, <3>1, TodoFacts DEF L
        <5> QED
          BY <5>1 DEF StepSet
      <4>2. PICK n \in Nat : n = todo[i + 1].n
        BY <4>1
      <4>3. Len(running') <= n
        BY <3>4, <4>2
      <4> QED
        BY <3>1, <3>3, <4>2, <4>3
    <3>5. CASE \E j \in 1..i : Op(j) = "shrink" /\ todo[j].n = todo[i + 1].n
      <4>1. PICK j \in 1..i : Op(j) = "shrink" /\ todo[j].n = todo[i + 1].n
        BY <3>5
      <4>2. CASE j = 1
        BY <3>1, <3>3, <4>1, <4>2
      <4>3. CASE j # 1
        <5>1. j \in 2..L /\ j - 1 \in 1..(i - 1)
          BY <1>5, <4>3
        <5> QED
          BY <1>6, <3>1, <3>3, <4>1, <5>1
      <4> QED
        BY <4>2, <4>3
    <3> QED
      BY <3>2, <3>4, <3>5
  <2>3. \A i \in 1..(L - 1) : Op(i)' \in StreamOps
    <3> SUFFICES ASSUME NEW i \in 1..(L - 1) PROVE Op(i)' \in StreamOps
      OBVIOUS
    <3>1. i + 1 \in 1..L /\ Op(i)' = Op(i + 1)
      BY <1>4, <1>5
    <3> QED
      BY <2>1, <3>1
  <2> QED
    BY <2>2, <2>3
<1>9. ASSUME ~direct, NEW i \in 1..(L - 1), Op(i)' = "destroyed"
      PROVE  /\ fill' = 0
             /\ \/ total' = 0
                \/ \E j \in 1..(i - 1) :
                     /\ Op(j)' = "flush_to"
                     /\ \A k \in (j + 1)..(L - 1) : Op(k)' # "enqueue_task"
  <2>1. i + 1 \in 1..L /\ Op(i + 1) = "destroyed" /\ i + 1 - 1 = i
    BY <1>4, <1>5, <1>9
  <2>2. ~At("write")
    BY <1>1, <1>9, AtFacts
  <2>3. /\ fill = 0
        /\ \/ total = 0
           \/ \E j \in 1..i : /\ Op(j) = "flush_to"
                              /\ \A k \in (j + 1)..L : Op(k) # "enqueue_task"
    BY <1>9, <2>1, <2>2 DEF StreamInv, L
  <2>4. CASE \E j \in 1..i : /\ Op(j) = "flush_to"
                             /\ \A k \in (j + 1)..L : Op(k) # "enqueue_task"
    <3>1. PICK j \in 1..i : /\ Op(j) = "flush_to"
                            /\ \A k \in (j + 1)..L : Op(k) # "enqueue_task"
      BY <2>4
    <3>2. CASE j = 1
      <4>1. total = 0
        BY <1>9, <2>3, <3>1, <3>2 DEF L
      <4> QED
        BY <2>3, <4>1
    <3>3. CASE j # 1
      <4>1. j \in 2..L /\ j - 1 \in 1..(i - 1)
        BY <1>5, <3>3
      <4>2. \A k \in (j - 1 + 1)..(L - 1) : Op(k)' # "enqueue_task"
        <5> SUFFICES ASSUME NEW k \in (j - 1 + 1)..(L - 1) PROVE Op(k)' # "enqueue_task"
          OBVIOUS
        <5>1. k \in 1..(L - 1) /\ k + 1 \in (j + 1)..L
          BY <1>5, <4>1
        <5> QED
          BY <1>4, <3>1, <5>1
      <4> QED
        BY <1>6, <2>3, <3>1, <4>1, <4>2
    <3> QED
      BY <3>2, <3>3
  <2> QED
    BY <2>3, <2>4
<1> QED
  BY <1>5, <1>7, <1>8, <1>9 DEF StreamInv

LEMMA ReplaceKeeps ==
  ASSUME TodoInv, StreamInv, todo # <<>>, NEW s \in StepSet,
         todo' = <<s>> \o Tail(todo),
         UNCHANGED <<fill, total, direct>>, Len(running') = Len(running),
         s.op = "join" => Len(running) > 1,
         s.op \notin {"enqueue_task", "grow", "threads", "shrink", "destroyed"},
         ~direct => /\ s.op \in StreamOps
                    /\ Op(1) \notin {"shrink", "write"}
                    /\ Op(1) = "flush_to" => s.op = "write"
  PROVE  TodoInv' /\ StreamInv'
<1> DEFINE L == Len(todo)
<1>1. /\ todo \in Seq(StepSet) /\ \A i \in 1..L : StepOK(todo[i])
      /\ \A i \in 2..L : Op(i) \notin InFront
      /\ fill <= total
  BY DEF TodoInv, StepSet
<1>2. /\ todo' \in Seq(StepSet) /\ Len(todo') = L /\ todo'[1] = s
      /\ \A i \in 2..L : todo'[i] = todo[i]
  BY <1>1, Replaced
<1>3. L \in Nat /\ L > 0
  BY <1>1, TodoFacts
<1> HIDE DEF L
<1>4. \A i \in 2..L : Op(i)' = Op(i)
  BY <1>2 DEF Op
<1>5. Op(1)' = s.op
  BY <1>2 DEF Op
<1>6. \A i \in 1..L : i = 1 \/ i \in 2..L
  BY <1>3
<1>7. \A op : At(op)' <=> s.op = op
  <2> SUFFICES ASSUME NEW op PROVE At(op)' <=> s.op = op
    OBVIOUS
  <2> QED
    BY <1>2, <1>3, <1>5, AtFactsNext
<1>8. TodoInv'
  <2>1. StepOK(s)
    BY DEF StepOK
  <2>2. \A i \in 1..L : StepOK(todo'[i])
    BY <1>1, <1>2, <1>6, <2>1 DEF L
  <2>3. \A i \in 2..L : Op(i)' \notin InFront
    BY <1>1, <1>4 DEF L
  <2> QED
    BY <1>1, <1>2, <1>7, <2>2, <2>3 DEF TodoInv, StepSet
<1>9. ASSUME ~direct, NEW i \in 1..L
      PROVE  /\ Op(i)' \in StreamOps
             /\ Op(i)' = "threads" =>
                  /\ \A j \in 1..(i - 1) : Op(j)' = "grow" => todo'[j].n = todo'[i].n
                  /\ \/ Len(running') <= todo'[i].n
                     \/ \E j \in 1..(i - 1) : Op(j)' = "shrink" /\ todo'[j].n = todo'[i].n
  <2>1. Op(i)' \in StreamOps
    BY <1>4, <1>5, <1>6, <1>9 DEF StreamInv, L
  <2>2. ASSUME Op(i)' = "threads"
        PROVE  /\ \A j \in 1..(i - 1) : Op(j)' = "grow" => todo'[j].n = todo'[i].n
               /\ \/ Len(running') <= todo'[i].n
                  \/ \E j \in 1..(i - 1) : Op(j)' = "shrink" /\ todo'[j].n = todo'[i].n
    <3>1. i \in 2..L /\ Op(i) = "threads" /\ todo'[i] = todo[i]
      BY <1>2, <1>4, <1>5, <1>6, <2>2
    <3>2. /\ \A j \in 1..(i - 1) : Op(j) = "grow" => todo[j].n = todo[i].n
          /\ \/ Len(running) <= todo[i].n
             \/ \E j \in 1..(i - 1) : Op(j) = "shrink" /\ todo[j].n = todo[i].n
      BY <1>9, <3>1 DEF StreamInv, L
    <3>3. \A j \in 1..(i - 1) : j # 1 => j \in 2..L
      BY <1>3, <3>1
    <3>4. Op(1)' # "grow" /\ Op(1) # "shrink"
      BY <1>5, <1>9
    <3>5. \A j \in 1..(i - 1) : Op(j)' = "grow" => todo'[j].n = todo'[i].n
      BY <1>2, <1>4, <3>1, <3>2, <3>3, <3>4
    <3>6. CASE Len(running) <= todo[i].n
      <4>1. Len(running') <= todo'[i].n
        BY <3>1, <3>6
      <4> QED
        BY <3>5, <4>1
    <3>7. CASE \E j \in 1..(i - 1) : Op(j) = "shrink" /\ todo[j].n = todo[i].n
      <4>1. PICK j \in 1..(i - 1) : Op(j) = "shrink" /\ todo[j].n = todo[i].n
        BY <3>7
      <4>2. j \in 2..L
        BY <3>3, <3>4, <4>1
      <4> QED
        BY <1>2, <1>4, <3>1, <3>5, <4>1, <4>2
    <3> QED
      BY <3>2, <3>6, <3>7
  <2> QED
    BY <2>1, <2>2
<1>10. ASSUME ~direct, NEW i \in 1..L, Op(i)' = "destroyed"
       PROVE  /\ fill' = 0
              /\ \/ At("write")'
                 \/ total' = 0
                 \/ \E j \in 1..(i - 1) :
                      /\ Op(j)' = "flush_to"
                      /\ \A k \in (j + 1)..L : Op(k)' # "enqueue_task"
  <2>1. i \in 2..L /\ Op(i) = "destroyed"
    BY <1>4, <1>5, <1>6, <1>10
  <2>2. ~At("write")
    BY <1>1, <1>10, AtFacts
  <2>3. /\ fill = 0
        /\ \/ total = 0
           \/ \E j \in 1..(i - 1) : /\ Op(j) = "flush_to"
                                    /\ \A k \in (j + 1)..L : Op(k) # "enqueue_task"
    BY <1>10, <2>1, <2>2 DEF StreamInv, L
  <2>4. CASE \E j \in 1..(i - 1) : /\ Op(j) = "flush_to"
                                   /\ \A k \in (j + 1)..L : Op(k) # "enqueue_task"
    <3>1. PICK j \in 1..(i - 1) : /\ Op(j) = "flush_to"
                                  /\ \A k \in (j + 1)..L : Op(k) # "enqueue_task"
      BY <2>4
    <3>2. CASE j = 1
      BY <1>7, <1>10, <2>3, <3>1, <3>2
    <3>3. CASE j # 1
      <4>1. j \in 2..L /\ \A k \in (j + 1)..L : k \in 2..L
        BY <1>3, <2>1, <3>3
      <4> QED
        BY <1>4, <2>3, <3>1, <4>1
    <3> QED
      BY <3>2, <3>3
  <2> QED
    BY <2>3, <2>4
<1> QED
  BY <1>2, <1>8, <1>9, <1>10 DEF StreamInv

(* A join before the rest of a loop that stops workers.                    *)
LEMMA PushKeeps ==
  ASSUME TodoInv, StreamInv, NEW s \in StepSet, s.op = "join", todo' = <<s>> \o todo,
         UNCHANGED <<fill, total, direct>>, Len(running') = Len(running),
         Len(running) > 1, At("shrink")
  PROVE  TodoInv' /\ StreamInv'
<1> DEFINE L == Len(todo)
<1>1. /\ todo \in Seq(StepSet) /\ \A i \in 1..L : StepOK(todo[i])
      /\ \A i \in 2..L : Op(i) \notin InFront
      /\ fill <= total
  BY DEF TodoInv, StepSet
<1>2. /\ todo' \in Seq(StepSet) /\ Len(todo') = L + 1 /\ todo'[1] = s
      /\ \A i \in 1..L : todo'[i + 1] = todo[i]
  BY <1>1, Pushed
<1>3. L \in Nat /\ L > 0 /\ Op(1) = "shrink"
  BY <1>1, AtFacts, TodoFacts
<1>0. \A i \in 1..L : Op(i) \notin InFront
  BY <1>1, <1>3 DEF InFront
<1> HIDE DEF L
<1>4. \A i \in 1..L : Op(i + 1)' = Op(i)
  BY <1>2 DEF Op
<1>5. Op(1)' = "join"
  BY <1>2 DEF Op
<1>6. \A i \in 1..(L + 1) : i = 1 \/ (i - 1 \in 1..L /\ i - 1 + 1 = i)
  BY <1>3
<1>7. \A i \in 2..(L + 1) : /\ i - 1 \in 1..L /\ Op(i)' = Op(i - 1)
                            /\ todo'[i] = todo[i - 1]
  <2> SUFFICES ASSUME NEW i \in 2..(L + 1)
               PROVE  /\ i - 1 \in 1..L /\ Op(i)' = Op(i - 1)
                      /\ todo'[i] = todo[i - 1]
    OBVIOUS
  <2> DEFINE j == i - 1
  <2>1. j \in 1..L /\ j + 1 = i
    BY <1>3
  <2> HIDE DEF j
  <2>2. Op(i)' = Op(j) /\ todo'[i] = todo[j]
    BY <1>2, <1>4, <2>1
  <2> QED
    BY <2>1, <2>2 DEF j
<1>8. TodoInv'
  <2>1. StepOK(s)
    BY DEF StepOK
  <2>2. \A i \in 1..(L + 1) : StepOK(todo'[i])
    <3> SUFFICES ASSUME NEW i \in 1..(L + 1) PROVE StepOK(todo'[i])
      OBVIOUS
    <3>1. i = 1 \/ i \in 2..(L + 1)
      OBVIOUS
    <3> QED
      BY <1>1, <1>2, <1>7, <2>1, <3>1 DEF L
  <2>3. \A i \in 2..(L + 1) : Op(i)' \notin InFront
    BY <1>0, <1>7
  <2> QED
    BY <1>1, <1>2, <2>2, <2>3 DEF TodoInv, StepSet
<1>9. ASSUME ~direct, NEW i \in 1..(L + 1)
      PROVE  /\ Op(i)' \in StreamOps
             /\ Op(i)' = "threads" =>
                  /\ \A j \in 1..(i - 1) : Op(j)' = "grow" => todo'[j].n = todo'[i].n
                  /\ \/ Len(running') <= todo'[i].n
                     \/ \E j \in 1..(i - 1) : Op(j)' = "shrink" /\ todo'[j].n = todo'[i].n
  <2>1. Op(i)' \in StreamOps
    <3>1. i = 1 \/ i \in 2..(L + 1)
      OBVIOUS
    <3>2. \A k \in 1..L : Op(k) \in StreamOps
      BY <1>9 DEF StreamInv, L
    <3> QED
      BY <1>5, <1>7, <3>1, <3>2 DEF StreamOps
  <2>2. ASSUME Op(i)' = "threads"
        PROVE  /\ \A j \in 1..(i - 1) : Op(j)' = "grow" => todo'[j].n = todo'[i].n
               /\ \/ Len(running') <= todo'[i].n
                  \/ \E j \in 1..(i - 1) : Op(j)' = "shrink" /\ todo'[j].n = todo'[i].n
    <3>1. i \in 2..(L + 1)
      BY <1>5, <2>2
    <3> DEFINE h == i - 1
    <3>2. h \in 1..L /\ h + 1 = i /\ Op(h) = "threads" /\ todo'[i] = todo[h]
      <4>1. h \in 1..L /\ Op(i)' = Op(h) /\ todo'[i] = todo[h]
        BY <1>7, <3>1
      <4>2. h + 1 = i
        BY <3>1
      <4> QED
        BY <2>2, <4>1, <4>2
    <3>3. /\ \A j \in 1..(h - 1) : Op(j) = "grow" => todo[j].n = todo[h].n
          /\ \/ Len(running) <= todo[h].n
             \/ \E j \in 1..(h - 1) : Op(j) = "shrink" /\ todo[j].n = todo[h].n
      <4> HIDE DEF h
      <4> QED
        BY <1>9, <3>2 DEF StreamInv, L
    <3>4. ASSUME NEW j \in 1..(i - 1), Op(j)' = "grow"
          PROVE  todo'[j].n = todo'[i].n
      <4>1. j # 1
        BY <1>5, <3>4
      <4>2. j \in 2..(L + 1) /\ j - 1 \in 1..(h - 1)
        BY <1>3, <4>1
      <4> HIDE DEF h
      <4> QED
        BY <1>7, <3>2, <3>3, <3>4, <4>2
    <3>5. CASE Len(running) <= todo[h].n
      <4>1. Len(running') <= todo'[i].n
        BY <3>2, <3>5
      <4> QED
        BY <3>4, <4>1
    <3>6. CASE \E j \in 1..(h - 1) : Op(j) = "shrink" /\ todo[j].n = todo[h].n
      <4>1. PICK j \in 1..(h - 1) : Op(j) = "shrink" /\ todo[j].n = todo[h].n
        BY <3>6
      <4>2. j \in 1..L /\ j + 1 \in 1..(i - 1)
        BY <1>3
      <4> HIDE DEF h
      <4>3. Op(j + 1)' = "shrink" /\ todo'[j + 1].n = todo'[i].n
        BY <1>2, <1>4, <3>2, <4>1, <4>2
      <4> QED
        BY <3>4, <4>2, <4>3
    <3> HIDE DEF h
    <3> QED
      BY <3>3, <3>5, <3>6
  <2> QED
    BY <2>1, <2>2
<1>10. ASSUME ~direct, NEW i \in 1..(L + 1), Op(i)' = "destroyed"
       PROVE  /\ fill' = 0
              /\ \/ total' = 0
                 \/ \E j \in 1..(i - 1) :
                      /\ Op(j)' = "flush_to"
                      /\ \A k \in (j + 1)..(L + 1) : Op(k)' # "enqueue_task"
  <2>0. i \in 2..(L + 1)
    BY <1>5, <1>10
  <2> DEFINE h == i - 1
  <2>1. h \in 1..L /\ h + 1 = i /\ Op(h) = "destroyed"
    BY <1>7, <1>10, <2>0
  <2> HIDE DEF h
  <2>2. ~At("write")
    BY <1>1, <1>3, AtFacts
  <2>3. /\ fill = 0
        /\ \/ total = 0
           \/ \E j \in 1..(h - 1) : /\ Op(j) = "flush_to"
                                    /\ \A k \in (j + 1)..L : Op(k) # "enqueue_task"
    BY <1>10, <2>1, <2>2 DEF StreamInv, L
  <2>4. CASE \E j \in 1..(h - 1) : /\ Op(j) = "flush_to"
                                   /\ \A k \in (j + 1)..L : Op(k) # "enqueue_task"
    <3>1. PICK j \in 1..(h - 1) : /\ Op(j) = "flush_to"
                                  /\ \A k \in (j + 1)..L : Op(k) # "enqueue_task"
      BY <2>4
    <3>2. j \in 1..L /\ j + 1 \in 1..(i - 1)
      BY <1>3, <2>1
    <3>3. \A k \in (j + 1 + 1)..(L + 1) : k \in 2..(L + 1) /\ k - 1 \in (j + 1)..L
      BY <1>3, <3>2
    <3> QED
      BY <1>4, <1>7, <2>3, <3>1, <3>2, <3>3
  <2> QED
    BY <2>3, <2>4
<1> QED
  BY <1>2, <1>8, <1>9, <1>10 DEF StreamInv

(* A step of others, or of a loop that starts workers.                     *)
LEMMA StayKeeps ==
  ASSUME TodoInv, StreamInv, todo' = todo, UNCHANGED <<fill, total, direct>>,
         \/ Len(running') = Len(running)
         \/ /\ At("grow") /\ Len(running) \in Nat /\ Len(running') = Len(running) + 1
            /\ Len(running') <= Arg
  PROVE  TodoInv' /\ StreamInv'
<1>1. CASE Len(running') = Len(running)
  BY <1>1 DEF TodoInv, StreamInv, At, Op, StepSet
<1>2. CASE /\ At("grow") /\ Len(running) \in Nat /\ Len(running') = Len(running) + 1
           /\ Len(running') <= Arg
  <2>1. /\ todo \in Seq(StepSet) /\ Len(todo) > 0 /\ Op(1) = "grow" /\ Arg = todo[1].n
        /\ Len(todo) \in Nat
    BY <1>2, AtFacts, TodoFacts DEF TodoInv, StepSet
  <2>2. ~At("join") /\ ~At("join")'
    BY <1>2 DEF At
  <2>3. TodoInv'
    BY <2>2 DEF TodoInv, Op, StepSet
  <2>4. ASSUME ~direct, NEW i \in 1..Len(todo), Op(i) = "threads"
        PROVE  Len(running') <= todo[i].n
    <3>1. i # 1
      BY <2>1, <2>4
    <3>2. 1 \in 1..(i - 1)
      BY <2>1, <3>1
    <3>3. todo[1].n = todo[i].n
      BY <2>1, <2>4, <3>2 DEF StreamInv
    <3> QED
      BY <1>2, <2>1, <3>3
  <2>5. StreamInv'
    BY <2>4 DEF StreamInv, At, Op
  <2> QED
    BY <2>3, <2>5
<1> QED
  BY <1>1, <1>2
-----------------------------------------------------------------------------
(* The kinds of steps, and what they leave alone.                          *)
CallStep    == (~direct /\ Calls) \/ DirectCalls
QuietStep   == EnqueueNothing \/ FinishWait \/ LoopEnds \/ KeepWorker \/ StartWriter
ThreadsStep == RaiseStop \/ StopWorker \/ Join \/ StartWorker \/ StoreThreads
WorkerMoves(i) == Bind(i) \/ ReadRunning(i)
WriterMoves(j) == WriterBind(j) \/ WriterReadRunning(j) \/ WriterTest(j)

LEMMA NextCases ==
  ASSUME [Next]_allVars
  PROVE  \/ UNCHANGED allVars
         \/ CallStep /\ UNCHANGED <<modifierVars, continues, writerVars>>
         \/ QuietStep /\ UNCHANGED <<areaVars, modifierVars, writerVars>>
         \/ ThreadsStep /\ UNCHANGED <<areaVars, queueVars, tasks, done, flushVars,
                                       hand, writerVars>>
         \/ AddWriter
         \/ EnqueueTask /\ UNCHANGED writerVars
         \/ EnqueueResults /\ ResultLockFree /\ NotifyWriters(Arg)
         \/ FlushSwap /\ ResultLockFree /\ UNCHANGED writerVars
         \/ FlushWrite /\ UNCHANGED writerVars
         \/ \E i \in Slots : WorkerMoves(i) /\ UNCHANGED writerVars
         \/ \E i \in Slots : GetTask(i) /\ UNCHANGED writerVars
         \/ \E i \in Slots : RunTask(i) /\ NotifyWriters(1)
         \/ \E j \in Writers : WriterMoves(j)
         \/ \E j \in Writers : WriterWrite(j)
<1>1. CASE ~direct /\ Calls /\ UNCHANGED writerVars
  <2>1. UNCHANGED <<modifierVars, continues>>
    BY <1>1 DEF Calls, Write, Overflow, Sync, SetModFunction, Destroy, SetBufferSize,
                SetThreads, Call
  <2> QED
    BY <1>1, <2>1 DEF CallStep
<1>2. CASE DirectCalls
  <2>1. UNCHANGED <<modifierVars, continues, writerVars>>
    BY <1>2 DEF DirectCalls, EnqueueAndContinue, Flush, DestroyModifier, Call, areaVars
  <2> QED
    BY <1>2, <2>1 DEF CallStep
<1>3. CASE OtherStep /\ UNCHANGED writerVars
  <2>1. CASE EnqueueNothing \/ FinishWait \/ LoopEnds
    BY <1>3, <2>1 DEF EnqueueNothing, FinishWait, LoopEnds, QuietStep
  <2>2. CASE EnqueueTask \/ FlushWrite
    BY <1>3, <2>2
  <2>3. CASE ThreadsStep
    <3>1. UNCHANGED <<areaVars, queueVars, tasks, done, flushVars, hand>>
      BY <2>3 DEF ThreadsStep, RaiseStop, StopWorker, Join, StartWorker, StoreThreads,
                  workerVars
    <3> QED
      BY <1>3, <2>3, <3>1
  <2> QED
    BY <1>3, <2>1, <2>2, <2>3 DEF OtherStep, ThreadsStep
<1>4. CASE /\ ResultStep /\ ResultLockFree
           /\ IF At("results") THEN NotifyWriters(Arg) ELSE UNCHANGED writerVars
  <2>1. CASE EnqueueResults
    BY <1>4, <2>1 DEF EnqueueResults
  <2>2. CASE FlushSwap
    <3>1. ~At("results")
      BY <2>2 DEF FlushSwap, At
    <3> QED
      BY <1>4, <2>2, <3>1
  <2> QED
    BY <1>4, <2>1, <2>2 DEF ResultStep
<1>5. CASE KeepWorker \/ StartWriter \/ AddWriter
  BY <1>5 DEF KeepWorker, StartWriter, QuietStep
<1>6. CASE \E i \in Slots : WorkerRuns(i)
  <2>1. PICK i \in Slots : WorkerRuns(i)
    BY <1>6
  <2>2. /\ Bind(i) \/ ReadRunning(i) \/ GetTask(i) \/ RunTask(i)
        /\ IF worker_pc[i] = "run" THEN NotifyWriters(1) ELSE UNCHANGED writerVars
    BY <2>1 DEF WorkerRuns, WorkerStep
  <2>3. CASE WorkerMoves(i)
    <3>1. worker_pc[i] # "run"
      BY <2>3 DEF WorkerMoves, Bind, ReadRunning
    <3> QED
      BY <2>2, <2>3, <3>1
  <2>4. CASE GetTask(i)
    <3>1. worker_pc[i] # "run"
      BY <2>4 DEF GetTask
    <3> QED
      BY <2>2, <2>4, <3>1
  <2>5. CASE RunTask(i)
    <3>1. worker_pc[i] = "run"
      BY <2>5 DEF RunTask
    <3> QED
      BY <2>2, <2>5, <3>1
  <2> QED
    BY <2>2, <2>3, <2>4, <2>5 DEF WorkerMoves
<1>7. CASE \E j \in 1..MaxWriters : j \in Writers /\ WriterStep(j)
  BY <1>7 DEF WriterStep, WriterMoves
<1> QED
  BY <1>1, <1>2, <1>3, <1>4, <1>5, <1>6, <1>7 DEF Next, CallerRuns
-----------------------------------------------------------------------------
(* The types, in four parts.                                               *)
WriterPcs == {"start", "loop", "lock", "get", "join", "asleep", "ended"}

AreaTypes ==
  fill \in 0..size /\ size \in BufferSizes /\ total \in 0..MaxBytes /\ continues \in BOOLEAN
QueueTypes ==
  /\ chunks \in Seq(1..MaxBytes)
  /\ tasks \in Seq(Ids) /\ results \in Seq(Ids) /\ local \in Seq(Ids)
  /\ written \in Seq(Ids) /\ done \subseteq Ids
  /\ next_id \in 0..Len(chunks)
  /\ hand \in [Slots -> Ids \cup {NoTask}]
ThreadTypes ==
  /\ threads \in ThreadCounts /\ stop \in BOOLEAN
  /\ running \in Seq(BOOLEAN) /\ Len(running) <= threads
  /\ capacity \in Nat /\ Len(running) <= capacity
  /\ dangling \subseteq 1..Len(running)
  /\ worker_pc \in [Slots -> WorkerPcs]
  /\ \A i \in Slots : /\ worker_pc[i] = "none" <=> i > Len(running)
                      /\ worker_pc[i] = "run" <=> hand[i] # NoTask
WriterTypes ==
  /\ direct \in BOOLEAN
  /\ write_id \in 1..(MaxBytes + 1)
  /\ writer_pc \in Seq(WriterPcs)
  /\ writer_capacity \in Nat
  /\ Len(writer_pc) <= MaxWriters /\ Len(writer_pc) <= writer_capacity
  /\ writer_dangling \subseteq Writers
  /\ ~direct => writer_pc = <<>>

LEMMA TypesSplit == AllTypeOK <=> AreaTypes /\ QueueTypes /\ ThreadTypes /\ WriterTypes
  BY DEF AllTypeOK, TypeOK, AreaTypes, QueueTypes, ThreadTypes, WriterTypes, WriterPcs

LEMMA TypesSplitNext ==
  AllTypeOK' <=> AreaTypes' /\ QueueTypes' /\ ThreadTypes' /\ WriterTypes'
  BY DEF AllTypeOK, TypeOK, AreaTypes, QueueTypes, ThreadTypes, WriterTypes, WriterPcs
-----------------------------------------------------------------------------
(* Each step keeps the types.                                              *)

LEMMA WriteArea ==
  ASSUME AreaTypes, fill <= total, NEW n \in Nat, n > 0, Write(n)
  PROVE  /\ AreaTypes' /\ fill' <= total'
         /\ n <= size - fill => fill' = fill + n
         /\ ~(n <= size - fill) /\ n > size => fill' = 0
         /\ ~(n <= size - fill) /\ ~(n > size) => fill' = n
<1>1. size \in Nat /\ fill \in Nat /\ fill <= size /\ total \in Nat /\ total <= MaxBytes
      /\ MaxBytes \in Nat
  BY Constants DEF AreaTypes
<1>2. total' = total + n /\ total + n <= MaxBytes /\ size' = size /\ continues' = continues
  BY DEF Write, Call
<1>3. fill' = CASE n <= size - fill -> fill + n
                [] ~(n <= size - fill) /\ n > size -> 0
                [] OTHER -> n
  BY DEF Write
<1>4. CASE n <= size - fill
  <2>1. fill' = fill + n
    BY <1>3, <1>4
  <2> QED
    BY <1>1, <1>2, <1>4, <2>1 DEF AreaTypes
<1>5. CASE ~(n <= size - fill) /\ n > size
  <2>1. fill' = 0
    BY <1>3, <1>5
  <2> QED
    BY <1>1, <1>2, <1>5, <2>1 DEF AreaTypes
<1>6. CASE ~(n <= size - fill) /\ ~(n > size)
  <2>1. fill' = n
    BY <1>3, <1>6
  <2> QED
    BY <1>1, <1>2, <1>6, <2>1 DEF AreaTypes
<1> QED
  BY <1>4, <1>5, <1>6

LEMMA CallArea ==
  ASSUME AreaTypes, fill <= total, CallStep
  PROVE  AreaTypes' /\ fill' <= total'
<1>1. size \in Nat /\ fill \in Nat /\ fill <= size /\ total \in Nat /\ total <= MaxBytes
      /\ MaxBytes \in Nat /\ BufferSizes \subseteq Nat /\ WriteSizes \subseteq Nat \ {0}
  BY Constants DEF AreaTypes
<1>2. CASE \E n \in Nat : n > 0 /\ Write(n)
  BY <1>2, WriteArea
<1>3. CASE Sync \/ SetModFunction \/ Destroy
  BY <1>1, <1>3 DEF AreaTypes, Sync, SetModFunction, Destroy, Call
<1>4. CASE \E n \in BufferSizes : SetBufferSize(n)
  BY <1>1, <1>4 DEF AreaTypes, SetBufferSize, Call
<1>5. CASE \E n \in ThreadCounts : SetThreads(n)
  BY <1>5 DEF AreaTypes, SetThreads, Call
<1>6. CASE DirectCalls
  <2>1. CASE \E n \in WriteSizes : EnqueueAndContinue(n)
    BY <1>1, <2>1 DEF AreaTypes, EnqueueAndContinue, Call
  <2>2. CASE Flush \/ DestroyModifier
    BY <2>2 DEF AreaTypes, Flush, DestroyModifier, areaVars
  <2> QED
    BY <1>6, <2>1, <2>2 DEF DirectCalls
<1>7. (\E n \in WriteSizes : Write(n)) \/ Overflow => \E n \in Nat : n > 0 /\ Write(n)
  BY <1>1 DEF Overflow
<1> QED
  BY <1>2, <1>3, <1>4, <1>5, <1>6, <1>7 DEF CallStep, Calls
-----------------------------------------------------------------------------
(* The ids, and the queues of them.                                        *)

LEMMA SeqGrows ==
  ASSUME NEW S, NEW T, S \subseteq T, NEW s \in Seq(S)
  PROVE  s \in Seq(T)
<1>1. Len(s) \in Nat /\ s \in [1..Len(s) -> S]
  BY LenProperties
<1>2. s \in [1..Len(s) -> T]
  BY <1>1
<1> QED
  BY <1>1, <1>2, SeqDef

LEMMA IdsGrow ==
  ASSUME NEW m \in Nat, NEW n \in Nat, m <= n
  PROVE  0..(m - 1) \subseteq 0..(n - 1)
OBVIOUS

LEMMA UptoIsSeq ==
  ASSUME NEW a \in Nat, NEW n \in Nat, NEW m \in Nat, a + n <= m
  PROVE  /\ [i \in 1..n |-> a + i - 1] \in Seq(0..(m - 1))
         /\ Len([i \in 1..n |-> a + i - 1]) = n
<1> DEFINE f == [i \in 1..n |-> a + i - 1]
<1>1. f \in [1..n -> 0..(m - 1)]
  OBVIOUS
<1> HIDE DEF f
<1>2. f \in Seq(0..(m - 1)) /\ Len(f) = n
  BY <1>1, FunctionIsSeq
<1> QED
  BY <1>2 DEF f

LEMMA LenChunks ==
  ASSUME QueueTypes
  PROVE  /\ Len(chunks) \in Nat /\ Len(tasks) \in Nat /\ Len(results) \in Nat
         /\ Len(local) \in Nat /\ Len(written) \in Nat
BY LenProperties DEF QueueTypes

(* What enqueue_task adds: a chunk, and a task, for each piece.            *)
LEMMA EnqueueTaskEffect ==
  ASSUME QueueTypes, TodoInv, threads \in ThreadCounts, EnqueueTask,
         NEW n, n = NumChunks(Arg, threads),
         NEW p, p = Pieces(Arg, threads)
  PROVE  /\ Arg \in Nat \ {0} /\ Arg <= MaxBytes /\ threads \in Nat \ {0} /\ threads <= Arg
         /\ n \in Nat \ {0} /\ p \in [1..n -> [off : Nat, size : Nat \ {0}]]
         /\ chunks' \in Seq(1..MaxBytes) /\ Len(chunks') = Len(chunks) + n
         /\ \A i \in 1..Len(chunks) : chunks'[i] = chunks[i]
         /\ \A i \in 1..n : chunks'[Len(chunks) + i] = p[i].size
         /\ tasks' = tasks \o ThreadTasks(n)
         /\ Notify(n)
         /\ todo' = <<StepWith("results", n)>> \o Tail(todo)
<1>1. /\ Arg \in Nat /\ Arg <= MaxBytes /\ threads \in Nat \ {0} /\ threads <= Arg
      /\ todo # <<>> /\ MaxBytes \in Nat
  <2>1. todo \in Seq(StepSet) /\ At("enqueue_task") /\ threads <= Arg
    BY DEF TodoInv, StepSet, EnqueueTask
  <2>2. Arg = todo[1].n /\ todo # <<>> /\ todo[1] \in StepSet /\ Len(todo) > 0
        /\ Op(1) = "enqueue_task" /\ Len(todo) \in Nat
    BY <2>1, AtFacts, TodoFacts
  <2>3. StepOK(todo[1])
    BY <2>2 DEF TodoInv
  <2> QED
    BY <2>1, <2>2, <2>3, Constants DEF StepOK, StepSet, Op
<1>2. Arg \in Nat \ {0}
  BY <1>1
<1>3. n \in Nat \ {0} /\ p \in [1..n -> [off : Nat, size : Nat \ {0}]]
      /\ \A i \in 1..n : p[i].off + p[i].size <= Arg
  BY <1>1, <1>2, PiecesTile, PiecesPartition
<1>4. Len(p) = n
  BY <1>3, FunctionIsSeq
<1>5. /\ chunks' = chunks \o [i \in 1..Len(p) |-> p[i].size]
      /\ tasks' = tasks \o ThreadTasks(Len(p))
      /\ Notify(Len(p))
      /\ todo' = <<StepWith("results", Len(p))>> \o Tail(todo)
  BY DEF EnqueueTask
<1> DEFINE f == [i \in 1..n |-> p[i].size]
<1>6. chunks' = chunks \o f
  BY <1>4, <1>5
<1>7. \A i \in 1..n : p[i].size \in 1..MaxBytes
  <2> SUFFICES ASSUME NEW i \in 1..n PROVE p[i].size \in 1..MaxBytes
    OBVIOUS
  <2>1. p[i] \in [off : Nat, size : Nat \ {0}] /\ p[i].off + p[i].size <= Arg
    BY <1>3
  <2>2. PICK a \in Nat, b \in Nat \ {0} : a = p[i].off /\ b = p[i].size
    BY <2>1
  <2>3. a + b <= Arg
    BY <2>1, <2>2
  <2> QED
    BY <1>1, <2>2, <2>3
<1>8. f \in [1..n -> 1..MaxBytes]
  BY <1>7
<1>9. \A i \in 1..n : f[i] = p[i].size
  OBVIOUS
<1> HIDE DEF f
<1>10. f \in Seq(1..MaxBytes) /\ Len(f) = n
  BY <1>3, <1>8, FunctionIsSeq
<1>11. chunks \in Seq(1..MaxBytes) /\ Len(chunks) \in Nat
  BY LenChunks DEF QueueTypes
<1> DEFINE c == chunks'
<1>12. c = chunks \o f
  BY <1>6
<1> HIDE DEF c
<1>13. /\ c \in Seq(1..MaxBytes) /\ Len(c) = Len(chunks) + n
       /\ \A i \in 1..(Len(chunks) + n) :
            c[i] = IF i <= Len(chunks) THEN chunks[i] ELSE f[i - Len(chunks)]
  <2>1. PICK S : S = 1..MaxBytes
    OBVIOUS
  <2>2. chunks \in Seq(S) /\ f \in Seq(S)
    BY <1>10, <1>11, <2>1
  <2>3. /\ chunks \o f \in Seq(S) /\ Len(chunks \o f) = Len(chunks) + Len(f)
        /\ \A i \in 1..(Len(chunks) + Len(f)) :
             (chunks \o f)[i] = IF i <= Len(chunks) THEN chunks[i] ELSE f[i - Len(chunks)]
    BY <2>2, ConcatProperties
  <2> QED
    BY <1>10, <1>12, <2>1, <2>3
<1>14. \A i \in 1..Len(chunks) : c[i] = chunks[i]
  BY <1>3, <1>11, <1>13
<1>15. \A i \in 1..n : c[Len(chunks) + i] = p[i].size
  <2> SUFFICES ASSUME NEW i \in 1..n PROVE c[Len(chunks) + i] = p[i].size
    OBVIOUS
  <2> DEFINE m == Len(chunks)
             k == m + i
  <2>1. k \in 1..(m + n) /\ ~(k <= m) /\ k - m = i
    BY <1>3, <1>11
  <2> HIDE DEF k
  <2>2. c[k] = f[k - m]
    BY <1>13, <2>1
  <2> QED
    BY <1>9, <2>1, <2>2 DEF k
<1> QED
  BY <1>1, <1>2, <1>3, <1>4, <1>5, <1>13, <1>14, <1>15 DEF c

LEMMA TasksAdded ==
  ASSUME QueueTypes, NEW n \in Nat, tasks' = tasks \o ThreadTasks(n),
         Len(chunks') = Len(chunks) + n
  PROVE  /\ tasks' \in Seq(Ids') /\ Len(tasks') = Len(tasks) + n
         /\ \A k \in 1..Len(tasks) : tasks'[k] = tasks[k]
         /\ \A k \in 1..n : tasks'[Len(tasks) + k] = Len(chunks) + k - 1
<1> DEFINE f == ThreadTasks(n)
           t == tasks'
           m == Len(tasks)
           c == Len(chunks)
<1>1. m \in Nat /\ c \in Nat /\ tasks \in Seq(0..(c - 1))
  BY LenChunks DEF QueueTypes, Ids
<1>2. Ids' = 0..(c + n - 1)
  BY DEF Ids
<1>3. f = [i \in 1..n |-> c + i - 1]
  BY DEF ThreadTasks
<1>4. t = tasks \o f
  OBVIOUS
<1> HIDE DEF f, t, m, c
<1>5. c + n \in Nat /\ c <= c + n
  BY <1>1
<1>6. f \in Seq(0..(c + n - 1)) /\ Len(f) = n
  BY <1>1, <1>3, <1>5, UptoIsSeq
<1>7. tasks \in Seq(0..(c + n - 1))
  <2>1. 0..(c - 1) \subseteq 0..(c + n - 1)
    BY <1>1, <1>5, IdsGrow
  <2> QED
    BY <1>1, <2>1, SeqGrows
<1>8. /\ t \in Seq(0..(c + n - 1)) /\ Len(t) = m + n
      /\ \A i \in 1..(m + n) : t[i] = IF i <= m THEN tasks[i] ELSE f[i - m]
  <2>1. PICK S : S = 0..(c + n - 1)
    OBVIOUS
  <2>2. tasks \in Seq(S) /\ f \in Seq(S)
    BY <1>6, <1>7, <2>1
  <2>3. /\ tasks \o f \in Seq(S) /\ Len(tasks \o f) = Len(tasks) + Len(f)
        /\ \A i \in 1..(Len(tasks) + Len(f)) :
             (tasks \o f)[i] = IF i <= Len(tasks) THEN tasks[i] ELSE f[i - Len(tasks)]
    BY <2>2, ConcatProperties
  <2>4. Len(tasks) = m
    BY DEF m
  <2> QED
    BY <1>4, <1>6, <2>1, <2>3, <2>4
<1>9. \A k \in 1..m : t[k] = tasks[k]
  BY <1>1, <1>8
<1>10. ASSUME NEW k \in 1..n PROVE t[m + k] = c + k - 1
  <2> DEFINE i == m + k
  <2>1. i \in 1..(m + n) /\ ~(i <= m) /\ i - m = k
    BY <1>1
  <2> HIDE DEF i
  <2>2. t[i] = f[k]
    BY <1>8, <2>1
  <2>3. f[k] = c + k - 1
    BY <1>3
  <2> QED
    BY <2>2, <2>3 DEF i
<1> QED
  BY <1>2, <1>8, <1>9, <1>10 DEF t, m, c

(* QueueTypes only grows with the chunks.                                  *)
LEMMA QueueGrows ==
  ASSUME QueueTypes, NEW n \in Nat, Len(chunks') = Len(chunks) + n,
         chunks' \in Seq(1..MaxBytes), tasks' \in Seq(Ids'),
         UNCHANGED <<results, local, written, done, next_id, hand>>
  PROVE  QueueTypes' /\ Ids \subseteq Ids'
<1> DEFINE I == Ids
           J == Ids'
<1>1. I \subseteq J
  <2>1. Len(chunks) \in Nat /\ Len(chunks) + n \in Nat /\ Len(chunks) <= Len(chunks) + n
    BY LenChunks
  <2> QED
    BY <2>1, IdsGrow DEF Ids
<1>2. next_id' \in 0..Len(chunks')
  <2>1. Len(chunks) \in Nat /\ next_id \in 0..Len(chunks)
    BY LenChunks DEF QueueTypes
  <2> QED
    BY <2>1
<1>3. /\ results \in Seq(I) /\ local \in Seq(I) /\ written \in Seq(I) /\ done \subseteq I
      /\ hand \in [Slots -> I \cup {NoTask}]
  BY DEF QueueTypes
<1> HIDE DEF I, J
<1>4. results \in Seq(J) /\ local \in Seq(J) /\ written \in Seq(J) /\ done \subseteq J
  BY <1>1, <1>3, SeqGrows
<1>5. hand \in [Slots -> J \cup {NoTask}]
  BY <1>1, <1>3
<1> QED
  BY <1>1, <1>2, <1>4, <1>5 DEF QueueTypes, I, J

LEMMA Appended ==
  ASSUME NEW S, NEW s \in Seq(S), NEW e \in S
  PROVE  /\ Append(s, e) \in Seq(S) /\ Len(Append(s, e)) = Len(s) + 1
         /\ \A i \in 1..Len(s) : Append(s, e)[i] = s[i]
         /\ Append(s, e)[Len(s) + 1] = e
BY AppendProperties

LEMMA TailOf ==
  ASSUME NEW S, NEW s \in Seq(S), s # <<>>
  PROVE  /\ Head(s) \in S /\ Head(s) = s[1] /\ Len(s) \in Nat \ {0}
         /\ Tail(s) \in Seq(S) /\ Len(Tail(s)) = Len(s) - 1
         /\ \A i \in 1..(Len(s) - 1) : Tail(s)[i] = s[i + 1]
<1>1. Len(s) \in Nat \ {0}
  BY EmptySeq, LenProperties
<1> QED
  BY <1>1, HeadTailProperties

(* The elements of a sequence, and of the sequences made of it.            *)
LEMMA InSeq ==
  ASSUME NEW S, NEW s \in Seq(S), NEW x
  PROVE  x \in ToSet(s) <=> \E i \in 1..Len(s) : s[i] = x
<1>1. DOMAIN s = 1..Len(s)
  BY LenProperties
<1> QED
  BY <1>1 DEF ToSet

LEMMA ElementsOf ==
  ASSUME NEW S, NEW s \in Seq(S)
  PROVE  ToSet(s) \subseteq S
<1>1. DOMAIN s = 1..Len(s) /\ s \in [1..Len(s) -> S]
  BY LenProperties
<1> QED
  BY <1>1 DEF ToSet

LEMMA QueueSteps ==
  ASSUME QueueTypes, UNCHANGED chunks
  PROVE  /\ Ids' = Ids
         /\ UNCHANGED <<tasks, results, local, written, done, next_id, hand>>
              => QueueTypes'
  BY DEF QueueTypes, Ids

LEMMA ResultsTypes ==
  ASSUME QueueTypes, ToCome <= Len(chunks), At("results") => Arg \in Nat, EnqueueResults
  PROVE  QueueTypes' /\ results' = results \o ThreadFutures(Arg) /\ Arg \in Nat
<1> DEFINE f == ThreadFutures(Arg)
           c == Len(chunks)
           d == Len(chunks) - Arg
<1>1. Arg \in Nat /\ Arg <= c /\ c \in Nat
  BY LenChunks DEF EnqueueResults, ToCome
<1>2. f = [i \in 1..Arg |-> d + i - 1] /\ d \in Nat /\ d + Arg <= c
  BY <1>1 DEF ThreadFutures
<1> HIDE DEF f, c, d
<1>3. f \in Seq(0..(c - 1))
  BY <1>1, <1>2, UptoIsSeq
<1>4. results \in Seq(0..(c - 1))
  BY DEF QueueTypes, Ids, c
<1>5. results \o f \in Seq(0..(c - 1))
  BY <1>3, <1>4, ConcatProperties
<1>6. results' \in Seq(Ids)
  BY <1>5 DEF EnqueueResults, Ids, f, c
<1> QED
  BY <1>1, <1>6 DEF EnqueueResults, QueueTypes, Ids, flushVars, workerVars, c

LEMMA SwapTypes ==
  ASSUME QueueTypes, Len(results) = Len(chunks), FlushSwap
  PROVE  QueueTypes' /\ next_id' = 0
<1>1. next_id' = 0
  BY LenChunks DEF FlushSwap, FirstId
<1>2. 0 \in 0..Len(chunks) /\ <<>> \in Seq(Ids)
  BY LenChunks
<1> QED
  BY <1>1, <1>2 DEF FlushSwap, QueueTypes, Ids, workerVars

LEMMA WriteTypes ==
  ASSUME QueueTypes, FlushWrite
  PROVE  /\ QueueTypes' /\ next_id \in done /\ next_id \in ToSet(local)
         /\ At("write") => written' = Append(written, next_id)
         /\ ~At("write") => UNCHANGED written
<1>1. /\ next_id \in done /\ next_id \in ToSet(local)
      /\ written' = IF At("write") THEN Append(written, next_id) ELSE written
  BY DEF FlushWrite, Due
<1>2. next_id \in Ids /\ written \in Seq(Ids)
  BY <1>1 DEF QueueTypes
<1>3. written' \in Seq(Ids)
  BY <1>1, <1>2, Appended
<1>4. next_id + 1 \in 0..Len(chunks)
  BY <1>2, LenChunks DEF Ids
<1>5. UNCHANGED <<chunks, results, tasks, done, local, hand>> /\ next_id' = next_id + 1
  BY DEF FlushWrite, queueVars, workerVars
<1> QED
  BY <1>1, <1>3, <1>4, <1>5 DEF QueueTypes, Ids

LEMMA GetTaskTypes ==
  ASSUME QueueTypes, NEW i \in Slots, GetTask(i)
  PROVE  QueueTypes'
<1>1. CASE tasks = <<>>
  <2>1. UNCHANGED <<chunks, tasks, results, local, written, done, next_id, hand>>
    BY <1>1 DEF GetTask, CallerUnchanged, queueVars, flushVars
  <2> QED
    BY <2>1, QueueSteps
<1>2. CASE tasks # <<>>
  <2>1. /\ hand' = [hand EXCEPT ![i] = Head(tasks)] /\ tasks' = Tail(tasks)
        /\ UNCHANGED <<chunks, results, local, written, done, next_id>>
    BY <1>2 DEF GetTask, CallerUnchanged, queueVars, flushVars, Taken
  <2>2. Head(tasks) \in Ids /\ Tail(tasks) \in Seq(Ids)
    BY <1>2, TailOf DEF QueueTypes
  <2>3. hand' \in [Slots -> Ids \cup {NoTask}]
    BY <2>1, <2>2 DEF QueueTypes
  <2> QED
    BY <2>1, <2>2, <2>3 DEF QueueTypes, Ids
<1> QED
  BY <1>1, <1>2

LEMMA RunTaskTypes ==
  ASSUME QueueTypes, NEW i \in Slots, RunTask(i), hand[i] # NoTask
  PROVE  QueueTypes'
<1>1. /\ done' = done \cup {hand[i]} /\ hand' = [hand EXCEPT ![i] = NoTask]
      /\ UNCHANGED <<chunks, tasks, results, local, written, next_id>>
  BY DEF RunTask, CallerUnchanged, queueVars, flushVars
<1>2. hand[i] \in Ids /\ hand' \in [Slots -> Ids \cup {NoTask}]
  BY <1>1 DEF QueueTypes
<1> QED
  BY <1>1, <1>2 DEF QueueTypes, Ids

LEMMA WriterWriteTypes ==
  ASSUME QueueTypes, NEW j \in Writers, WriterWrite(j)
  PROVE  QueueTypes' /\ write_id \in Ids
<1>1. /\ write_id \in done /\ written' = Append(written, write_id)
      /\ UNCHANGED <<chunks, tasks, done, local, next_id, hand>>
      /\ results' = results \/ results' = Tail(results)
  BY DEF WriterWrite, workerVars
<1>2. write_id \in Ids
  BY <1>1 DEF QueueTypes
<1>3. written' \in Seq(Ids)
  BY <1>1, <1>2, Appended DEF QueueTypes
<1>4. results \in Seq(Ids)
  BY DEF QueueTypes
<1>5. results' \in Seq(Ids)
  <2>1. results = <<>> => Tail(results) = <<>>
    OBVIOUS
  <2> QED
    BY <1>1, <1>4, <2>1, TailOf
<1> QED
  BY <1>1, <1>2, <1>3, <1>5 DEF QueueTypes, Ids
-----------------------------------------------------------------------------
(* The workers.                                                            *)

(* A notification only makes sleepers go on.                               *)
LEMMA Notified ==
  ASSUME NEW n, Notify(n), worker_pc \in [Slots -> WorkerPcs]
  PROVE  /\ worker_pc' \in [Slots -> WorkerPcs]
         /\ \A i \in Slots : \/ worker_pc'[i] = worker_pc[i]
                             \/ worker_pc[i] = "asleep" /\ worker_pc'[i] = "get_task"
<1>1. PICK woken \in SUBSET {i \in Slots : worker_pc[i] = "asleep"} :
        worker_pc' = [i \in Slots |-> IF i \in woken THEN "get_task" ELSE worker_pc[i]]
  BY DEF Notify, kSubset
<1> QED
  BY <1>1 DEF WorkerPcs

LEMMA ThreadFacts ==
  ASSUME ThreadTypes
  PROVE  /\ threads \in Nat \ {0} /\ threads <= Max(ThreadCounts)
         /\ Max(ThreadCounts) \in Nat
         /\ Len(running) \in Nat /\ Len(running) <= Max(ThreadCounts)
         /\ 1..Len(running) \subseteq Slots
         /\ NoTask \notin Nat
<1>1. threads \in Nat \ {0} /\ threads <= Max(ThreadCounts) /\ Max(ThreadCounts) \in Nat
      /\ NoTask \notin Nat
  BY Constants DEF ThreadTypes
<1>2. Len(running) \in Nat /\ Len(running) <= threads
  BY LenProperties DEF ThreadTypes
<1> QED
  BY <1>1, <1>2 DEF Slots

LEMMA EnqueueThreads ==
  ASSUME ThreadTypes, NEW n, Notify(n), UNCHANGED <<stop, threadVars, dangling, hand>>
  PROVE  ThreadTypes'
<1>1. /\ worker_pc' \in [Slots -> WorkerPcs]
      /\ \A i \in Slots : \/ worker_pc'[i] = worker_pc[i]
                          \/ worker_pc[i] = "asleep" /\ worker_pc'[i] = "get_task"
  BY Notified DEF ThreadTypes
<1> QED
  BY <1>1 DEF ThreadTypes, threadVars

(* One worker goes to another place, and takes or finishes a task.         *)
LEMMA WorkerGoes ==
  ASSUME ThreadTypes, NEW i \in Slots, NEW pc \in WorkerPcs \ {"none"}, NEW t,
         Goto(i, pc), worker_pc[i] # "none", hand' = [hand EXCEPT ![i] = t],
         hand \in [Slots -> Ids \cup {NoTask}],
         pc = "run" <=> t # NoTask,
         UNCHANGED <<stop, threadVars, dangling>>
  PROVE  ThreadTypes'
<1>1. worker_pc' = [worker_pc EXCEPT ![i] = pc] /\ worker_pc' \in [Slots -> WorkerPcs]
  BY DEF Goto, ThreadTypes
<1>2. \A k \in Slots : /\ worker_pc'[k] = IF k = i THEN pc ELSE worker_pc[k]
                       /\ hand'[k] = IF k = i THEN t ELSE hand[k]
  BY <1>1 DEF ThreadTypes
<1>3. ASSUME NEW k \in Slots
      PROVE  /\ worker_pc'[k] = "none" <=> k > Len(running)
             /\ worker_pc'[k] = "run" <=> hand'[k] # NoTask
  <2>1. /\ worker_pc[k] = "none" <=> k > Len(running)
        /\ worker_pc[k] = "run" <=> hand[k] # NoTask
    BY DEF ThreadTypes
  <2> QED
    BY <1>2, <2>1
<1> QED
  BY <1>1, <1>3 DEF ThreadTypes, threadVars

LEMMA WorkerMovesTypes ==
  ASSUME ThreadTypes, QueueTypes, NEW i \in Slots,
         WorkerMoves(i) \/ GetTask(i) \/ RunTask(i)
  PROVE  ThreadTypes'
<1>0. hand \in [Slots -> Ids \cup {NoTask}] /\ hand = [hand EXCEPT ![i] = hand[i]]
  BY DEF QueueTypes
<1>1. UNCHANGED <<stop, threadVars, dangling>>
  BY DEF WorkerMoves, Bind, ReadRunning, GetTask, RunTask, CallerUnchanged
<1>2. worker_pc[i] = "run" <=> hand[i] # NoTask
  BY DEF ThreadTypes
<1>3. CASE WorkerMoves(i)
  <2>1. /\ \E pc \in {"loop", "get_task", "ended"} : Goto(i, pc)
        /\ worker_pc[i] \in {"start", "loop"} /\ hand' = hand
    BY <1>3 DEF WorkerMoves, Bind, ReadRunning
  <2>2. PICK pc \in {"loop", "get_task", "ended"} : Goto(i, pc)
    BY <2>1
  <2>3. pc \in WorkerPcs \ {"none"} /\ pc # "run" /\ hand[i] = NoTask
        /\ worker_pc[i] # "none"
    BY <1>2, <2>1 DEF WorkerPcs
  <2> QED
    BY <1>0, <1>1, <2>1, <2>2, <2>3, WorkerGoes
<1>4. CASE GetTask(i) /\ tasks # <<>>
  <2>1. /\ hand' = [hand EXCEPT ![i] = Head(tasks)] /\ Goto(i, "run")
        /\ worker_pc[i] = "get_task"
    BY <1>4 DEF GetTask, Taken
  <2>2. Head(tasks) # NoTask
    <3>1. Head(tasks) \in Nat
      BY <1>4, TailOf DEF QueueTypes, Ids
    <3> QED
      BY <3>1, ThreadFacts
  <2>3. "run" \in WorkerPcs \ {"none"} /\ worker_pc[i] # "none"
    BY <2>1 DEF WorkerPcs
  <2> QED
    BY <1>0, <1>1, <2>1, <2>2, <2>3, WorkerGoes
<1>5. CASE GetTask(i) /\ tasks = <<>>
  <2>1. /\ \E pc \in {"loop", "asleep", "ended"} : Goto(i, pc)
        /\ worker_pc[i] = "get_task" /\ hand' = hand
    BY <1>5 DEF GetTask
  <2>2. PICK pc \in {"loop", "asleep", "ended"} : Goto(i, pc)
    BY <2>1
  <2>3. pc \in WorkerPcs \ {"none"} /\ pc # "run" /\ hand[i] = NoTask
        /\ worker_pc[i] # "none"
    BY <1>2, <2>1 DEF WorkerPcs
  <2> QED
    BY <1>0, <1>1, <2>1, <2>2, <2>3, WorkerGoes
<1>6. CASE RunTask(i)
  <2>1. /\ hand' = [hand EXCEPT ![i] = NoTask] /\ Goto(i, "loop")
        /\ worker_pc[i] = "run"
    BY <1>6 DEF RunTask
  <2>2. "loop" \in WorkerPcs \ {"none"} /\ "loop" # "run" /\ worker_pc[i] # "none"
    BY <2>1 DEF WorkerPcs
  <2> QED
    BY <1>0, <1>1, <2>1, <2>2, WorkerGoes
<1> QED
  BY <1>3, <1>4, <1>5, <1>6

(* stop_worker, without and with the join.                                 *)
LEMMA StopTypes ==
  ASSUME ThreadTypes, StopWorker
  PROVE  ThreadTypes' /\ Len(running)' = Len(running) /\ Len(running) > 1
<1>1. /\ running' = [running EXCEPT ![Len(running)] = FALSE]
      /\ UNCHANGED <<stop, threads, capacity, worker_pc, hand, dangling>>
      /\ Len(running) > 1
  BY DEF StopWorker, ToldToEnd, workerVars
<1>2. running \in Seq(BOOLEAN) /\ Len(running) \in Nat /\ running \in [1..Len(running) -> BOOLEAN]
  BY LenProperties DEF ThreadTypes
<1>3. running' \in [1..Len(running) -> BOOLEAN]
  BY <1>1, <1>2
<1>4. running' \in Seq(BOOLEAN) /\ Len(running') = Len(running)
  BY <1>2, <1>3, FunctionIsSeq
<1> QED
  BY <1>1, <1>4 DEF ThreadTypes

LEMMA JoinTypes ==
  ASSUME ThreadTypes, Join, Len(running) > 1
  PROVE  ThreadTypes' /\ Len(running)' = Len(running) - 1
<1> DEFINE n == Len(running)
           pc == worker_pc'
<1>1. /\ pc = [worker_pc EXCEPT ![n] = "none"] /\ worker_pc[n] = "ended"
      /\ dangling' = dangling \ {n} /\ running' = Front(running)
      /\ UNCHANGED <<stop, threads, capacity, hand>>
  BY DEF Join
<1>2. n \in Nat /\ running \in Seq(BOOLEAN) /\ running # <<>> /\ n \in Slots
      /\ threads \in Nat
  <2>1. n \in Nat /\ 1..n \subseteq Slots /\ threads \in Nat
    BY ThreadFacts
  <2>2. n \in 1..n
    BY <2>1
  <2> QED
    BY <2>1, <2>2, EmptySeq DEF ThreadTypes
<1>3. running' = SubSeq(running, 1, n - 1)
  BY <1>1 DEF Front
<1>4. running' \in Seq(BOOLEAN) /\ Len(running') = n - 1
  <2>1. n - 1 \in 0..n
    BY <1>2
  <2> HIDE DEF n
  <2>2. 1 \in 1..(n + 1) /\ n - 1 \in 0..n
    BY <1>2, <2>1
  <2> QED
    BY <1>2, <1>3, <2>2, SubSeqProperties DEF n
<1>5. pc \in [Slots -> WorkerPcs]
  BY <1>1 DEF ThreadTypes, WorkerPcs
<1>6. ASSUME NEW k \in Slots
      PROVE  /\ pc[k] = "none" <=> k > n - 1
             /\ pc[k] = "run" <=> hand[k] # NoTask
  <2>1. /\ worker_pc[k] = "none" <=> k > n
        /\ worker_pc[k] = "run" <=> hand[k] # NoTask
    BY DEF ThreadTypes
  <2>2. pc[k] = IF k = n THEN "none" ELSE worker_pc[k]
    BY <1>1 DEF ThreadTypes
  <2>3. k \in Nat
    BY DEF Slots
  <2> HIDE DEF n, pc
  <2> QED
    BY <1>1, <1>2, <2>1, <2>2, <2>3
<1>7. dangling' \subseteq 1..(n - 1)
  <2>1. dangling \subseteq 1..n
    BY DEF ThreadTypes
  <2> HIDE DEF n
  <2> QED
    BY <1>1, <1>2, <2>1
<1>8. n - 1 <= threads /\ n - 1 <= capacity
  <2>1. n <= threads /\ n <= capacity /\ capacity \in Nat
    BY DEF ThreadTypes
  <2> HIDE DEF n
  <2> QED
    BY <1>2, <2>1
<1> QED
  BY <1>1, <1>4, <1>5, <1>6, <1>7, <1>8 DEF ThreadTypes

(* start_worker.                                                           *)
LEMMA StartTypes ==
  ASSUME ThreadTypes, StartWorker
  PROVE  ThreadTypes' /\ Len(running)' = Len(running) + 1
<1> DEFINE n == Len(running)
           m == n + 1
           pcs == worker_pc'
<1>1. /\ n < threads /\ running' = Append(running, TRUE) /\ stop' = FALSE
      /\ UNCHANGED <<threads, hand>>
      /\ \E pc \in {"start", "loop", "ended"} : pcs = [worker_pc EXCEPT ![m] = pc]
  BY DEF StartWorker, RoomForAThread, Early
<1>2. PICK pc \in {"start", "loop", "ended"} : pcs = [worker_pc EXCEPT ![m] = pc]
  BY <1>1
<1>3. n \in Nat /\ m \in Slots /\ threads \in Nat /\ running \in Seq(BOOLEAN)
  BY <1>1, ThreadFacts DEF ThreadTypes, Slots
<1>4. running' \in Seq(BOOLEAN) /\ Len(running') = m
  BY <1>1, <1>3, Appended
<1>5. pcs \in [Slots -> WorkerPcs]
  BY <1>2 DEF ThreadTypes, WorkerPcs
<1>6. ASSUME NEW k \in Slots
      PROVE  /\ pcs[k] = "none" <=> k > m
             /\ pcs[k] = "run" <=> hand[k] # NoTask
  <2>1. /\ worker_pc[k] = "none" <=> k > n
        /\ worker_pc[k] = "run" <=> hand[k] # NoTask
    BY DEF ThreadTypes
  <2>2. pcs[k] = IF k = m THEN pc ELSE worker_pc[k]
    BY <1>2 DEF ThreadTypes
  <2>3. k \in Nat
    BY DEF Slots
  <2> HIDE DEF n, pcs
  <2> QED
    BY <1>3, <2>1, <2>2, <2>3
<1>7. capacity' \in Nat /\ m <= capacity' /\ dangling' \subseteq 1..m
  <2>1. /\ n <= capacity /\ capacity \in Nat /\ dangling \subseteq 1..n
    BY DEF ThreadTypes
  <2>2. CASE m > capacity
    <3>1. capacity' = Max({1, 2 * capacity}) /\ dangling' = {j \in 1..m : pcs[j] # "start"}
      BY <2>2 DEF StartWorker
    <3> HIDE DEF n, pcs
    <3>2. capacity = n
      BY <1>3, <2>1, <2>2
    <3>3. capacity' \in Nat /\ capacity' >= 1 /\ capacity' >= 2 * capacity
      BY <2>1, <3>1, MaxOfTwo
    <3> QED
      BY <1>3, <3>1, <3>2, <3>3
  <2>3. CASE ~(m > capacity)
    <3>1. capacity' = capacity /\ dangling' = dangling
      BY <2>3 DEF StartWorker
    <3> HIDE DEF n, pcs
    <3> QED
      BY <1>3, <2>1, <2>3, <3>1
  <2> QED
    BY <2>2, <2>3
<1>8. m <= threads
  <2> HIDE DEF n
  <2> QED
    BY <1>1, <1>3
<1> QED
  BY <1>1, <1>4, <1>5, <1>6, <1>7, <1>8 DEF ThreadTypes

LEMMA StoreTypes ==
  ASSUME ThreadTypes, StoreThreads, Arg \in ThreadCounts, Len(running) <= Arg
  PROVE  ThreadTypes'
BY DEF ThreadTypes, StoreThreads, workerVars
-----------------------------------------------------------------------------
(* The writers.                                                            *)

LEMMA WriterFacts ==
  ASSUME WriterTypes
  PROVE  /\ Len(writer_pc) \in Nat /\ Writers = 1..Len(writer_pc)
         /\ \A j \in Writers : writer_pc[j] \in WriterPcs
         /\ writer_pc \in [Writers -> WriterPcs]
BY LenProperties DEF WriterTypes, Writers

LEMMA SameWriters ==
  ASSUME WriterTypes, writer_pc' \in [Writers -> WriterPcs],
         UNCHANGED <<direct, writer_capacity, writer_dangling>>,
         write_id' \in 1..(MaxBytes + 1)
  PROVE  WriterTypes' /\ Writers' = Writers /\ Len(writer_pc)' = Len(writer_pc)
<1> DEFINE n == Len(writer_pc)
           w == writer_pc'
<1>1. n \in Nat /\ Writers = 1..n
  BY WriterFacts
<1>2. w \in [1..n -> WriterPcs]
  BY <1>1
<1> HIDE DEF n, w
<1>3. w \in Seq(WriterPcs) /\ Len(w) = n /\ DOMAIN w = 1..n
  BY <1>1, <1>2, FunctionIsSeq
<1>4. Writers' = Writers
  BY <1>1, <1>3 DEF Writers, w
<1>5. writer_pc = <<>> => w = <<>>
  <2>1. writer_pc = <<>> => n = 0
    BY DEF n
  <2>2. n = 0 => w = <<>>
    BY <1>3, EmptySeq
  <2> QED
    BY <2>1, <2>2
<1> QED
  BY <1>3, <1>4, <1>5 DEF WriterTypes, n, w

LEMMA NotifyWritersTypes ==
  ASSUME WriterTypes, NEW n, NotifyWriters(n)
  PROVE  /\ WriterTypes' /\ Writers' = Writers /\ Len(writer_pc)' = Len(writer_pc)
         /\ UNCHANGED <<direct, write_id>>
         /\ \A j \in Writers : \/ writer_pc'[j] = writer_pc[j]
                               \/ writer_pc[j] = "asleep" /\ writer_pc'[j] = "lock"
<1>1. PICK woken \in SUBSET {j \in Writers : writer_pc[j] = "asleep"} :
        writer_pc' = [j \in Writers |-> IF j \in woken THEN "lock" ELSE writer_pc[j]]
  BY DEF NotifyWriters, kSubset
<1>2. /\ UNCHANGED <<direct, write_id, writer_capacity, writer_dangling>>
      /\ write_id \in 1..(MaxBytes + 1)
  BY DEF NotifyWriters, WriterTypes
<1>3. writer_pc' \in [Writers -> WriterPcs]
  BY <1>1, WriterFacts DEF WriterPcs
<1>4. \A j \in Writers : \/ writer_pc'[j] = writer_pc[j]
                         \/ writer_pc[j] = "asleep" /\ writer_pc'[j] = "lock"
  BY <1>1
<1> QED
  BY <1>2, <1>3, <1>4, SameWriters

LEMMA WriterGoes ==
  ASSUME WriterTypes, NEW j \in Writers, NEW pc \in WriterPcs, WriterGoto(j, pc),
         UNCHANGED <<direct, writer_capacity, writer_dangling>>,
         write_id' \in 1..(MaxBytes + 1)
  PROVE  /\ WriterTypes' /\ Writers' = Writers /\ Len(writer_pc)' = Len(writer_pc)
         /\ \A k \in Writers : writer_pc'[k] = IF k = j THEN pc ELSE writer_pc[k]
<1>1. writer_pc \in [Writers -> WriterPcs] /\ writer_pc' = [writer_pc EXCEPT ![j] = pc]
  BY WriterFacts DEF WriterGoto
<1>2. writer_pc' \in [Writers -> WriterPcs]
      /\ \A k \in Writers : writer_pc'[k] = IF k = j THEN pc ELSE writer_pc[k]
  BY <1>1
<1> QED
  BY <1>2, SameWriters

(* What a writer decides.                                                  *)
LEMMA WriterMovesEffect ==
  ASSUME WriterTypes, NEW j \in Writers, WriterMoves(j)
  PROVE  /\ UNCHANGED <<vars, direct, write_id, writer_capacity, writer_dangling>>
         /\ writer_pc[j] \in {"start", "loop", "lock"}
         /\ \E pc \in WriterPcs :
              /\ WriterGoto(j, pc)
              /\ pc = "get" => writer_pc[j] = "lock" /\ ResultLockFree
                               /\ write_id \in ToSet(results)
              /\ pc = "join" => /\ writer_pc[j] = "lock"
                                /\ write_id > Len(chunks) /\ ~StopWriterReturns
<1>1. CASE WriterBind(j)
  BY <1>1 DEF WriterBind, WriterPcs
<1>2. CASE WriterReadRunning(j)
  <2>1. WriterGoto(j, "lock") \/ WriterGoto(j, "ended")
    BY <1>2 DEF WriterReadRunning
  <2> QED
    BY <1>2, <2>1 DEF WriterReadRunning, WriterPcs
<1>3. CASE WriterTest(j)
  <2>1. /\ UNCHANGED <<vars, direct, write_id, writer_capacity, writer_dangling>>
        /\ writer_pc[j] = "lock" /\ ResultLockFree
        /\ \/ WriterGoto(j, "asleep") \/ WriterGoto(j, "ended")
           \/ write_id > Len(chunks) /\ WriterGoto(j, Ahead)
           \/ WriterGoto(j, Search)
    BY <1>3 DEF WriterTest
  <2>2. CASE write_id > Len(chunks) /\ WriterGoto(j, Ahead)
    BY <2>1, <2>2 DEF Ahead, WriterPcs
  <2>3. CASE WriterGoto(j, Search)
    BY <2>1, <2>3 DEF Search, Found, WriterPcs
  <2>4. CASE WriterGoto(j, "asleep") \/ WriterGoto(j, "ended")
    BY <2>1, <2>4 DEF WriterPcs
  <2> QED
    BY <2>1, <2>2, <2>3, <2>4
<1> QED
  BY <1>1, <1>2, <1>3 DEF WriterMoves

LEMMA AddWriterTypes ==
  ASSUME WriterTypes, AddWriter, direct, Len(writer_pc) < MaxWriters
  PROVE  /\ WriterTypes' /\ Len(writer_pc)' = Len(writer_pc) + 1
         /\ Writers' = Writers \cup {Len(writer_pc) + 1}
         /\ \A j \in Writers : writer_pc'[j] = writer_pc[j]
         /\ writer_pc'[Len(writer_pc) + 1] \in {"start", "loop", "ended"}
         /\ UNCHANGED <<direct, write_id>>
<1> DEFINE n == Len(writer_pc)
           w == writer_pc'
<1>1. /\ n \in Nat /\ n < MaxWriters /\ MaxWriters \in Nat /\ Writers = 1..n
      /\ writer_pc \in Seq(WriterPcs)
      /\ writer_capacity \in Nat /\ n <= writer_capacity /\ writer_dangling \subseteq 1..n
  BY WriterFacts, Constants DEF WriterTypes
<1>2. PICK pc \in {"start", "loop", "ended"} : w = Append(writer_pc, pc)
  BY DEF AddWriter, Early
<1>3. UNCHANGED <<direct, write_id>>
  BY DEF AddWriter
<1> HIDE DEF n, w
<1>4. /\ w \in Seq(WriterPcs) /\ Len(w) = n + 1
      /\ \A j \in 1..n : w[j] = writer_pc[j]
      /\ w[n + 1] = pc
  BY <1>1, <1>2, Appended DEF n, WriterPcs
<1>5. DOMAIN w = 1..(n + 1)
  BY <1>4, LenProperties
<1>6. 1..(n + 1) = 1..n \cup {n + 1}
  BY <1>1
<1>7. writer_capacity' \in Nat /\ n + 1 <= writer_capacity' /\ writer_dangling' \subseteq 1..(n + 1)
  <2>1. CASE n = writer_capacity
    <3>1. /\ writer_capacity' = Max({1, 2 * writer_capacity})
          /\ writer_dangling' = {j \in DOMAIN w : w[j] # "start"}
      BY <2>1 DEF AddWriter, n, w
    <3>2. writer_capacity' \in Nat /\ writer_capacity' >= 1 /\ writer_capacity' >= 2 * writer_capacity
      BY <1>1, <3>1, MaxOfTwo
    <3> QED
      BY <1>1, <1>5, <2>1, <3>1, <3>2
  <2>2. CASE n # writer_capacity
    <3>1. UNCHANGED <<writer_capacity, writer_dangling>>
      BY <2>2 DEF AddWriter, n
    <3> QED
      BY <1>1, <2>2, <3>1
  <2> QED
    BY <2>1, <2>2
<1>8. Writers' = 1..(n + 1)
  BY <1>5 DEF Writers, w
<1>9. w # <<>> /\ n + 1 <= MaxWriters
  BY <1>1, <1>4, EmptySeq
<1>10. WriterTypes'
  BY <1>3, <1>4, <1>7, <1>8, <1>9 DEF WriterTypes, w
<1> QED
  BY <1>1, <1>2, <1>3, <1>4, <1>6, <1>8, <1>10 DEF n, w
-----------------------------------------------------------------------------
(* The tasks.                                                              *)

LEMMA TasksAddedInv ==
  ASSUME QueueTypes, TasksInv, NEW n \in Nat, tasks' = tasks \o ThreadTasks(n),
         Len(chunks') = Len(chunks) + n, UNCHANGED <<hand, done>>
  PROVE  TasksInv'
<1> DEFINE m == Len(tasks)
           c == Len(chunks)
           f == c - m
           t == tasks'
<1>1. /\ m \in Nat /\ c \in Nat /\ f \in Nat /\ FirstQueued = f
      /\ \A k \in 1..m : tasks[k] = f + k - 1
  BY LenChunks DEF TasksInv, FirstQueued
<1>2. /\ Len(t) = m + n
      /\ \A k \in 1..m : t[k] = tasks[k]
      /\ \A k \in 1..n : t[m + k] = c + k - 1
  BY TasksAdded
<1>3. FirstQueued' = f
  <2>1. FirstQueued' = c + n - Len(t)
    BY DEF FirstQueued
  <2> HIDE DEF m, c, t
  <2>2. c + n - (m + n) = c - m
    BY <1>1
  <2> QED
    BY <1>2, <2>1, <2>2
<1>4. ASSUME NEW k \in 1..(m + n) PROVE t[k] = f + k - 1
  <2> HIDE DEF m, c, t
  <2>1. CASE k <= m
    <3>1. k \in 1..m
      BY <1>1, <2>1
    <3> QED
      BY <1>1, <1>2, <3>1
  <2>2. CASE ~(k <= m)
    <3>1. PICK i \in 1..n : m + i = k
      <4>1. k - m \in 1..n /\ m + (k - m) = k
        BY <1>1, <2>2
      <4> QED
        BY <4>1
    <3>2. t[k] = c + i - 1
      BY <1>2, <3>1
    <3>3. c + i - 1 = c - m + k - 1
      BY <1>1, <3>1
    <3> QED
      BY <3>2, <3>3
  <2> QED
    BY <2>1, <2>2
<1>5. \A k \in 1..Len(t) : t[k] = FirstQueued' + k - 1
  BY <1>2, <1>3, <1>4
<1>6. FirstQueued' = FirstQueued /\ hand' = hand /\ done' = done
  BY <1>1, <1>3
<1> QED
  BY <1>1, <1>5, <1>6 DEF TasksInv, Busy, t

LEMMA TasksStay ==
  ASSUME TasksInv, UNCHANGED <<chunks, tasks, hand, done>>
  PROVE  TasksInv'
BY DEF TasksInv, FirstQueued, Busy

LEMMA GetTaskInv ==
  ASSUME QueueTypes, ThreadTypes, TasksInv, NEW i \in Slots, GetTask(i)
  PROVE  TasksInv'
<1>1. CASE tasks = <<>>
  <2>1. UNCHANGED <<chunks, tasks, hand, done>>
    BY <1>1 DEF GetTask, CallerUnchanged, queueVars
  <2> QED
    BY <2>1, TasksStay
<1>2. CASE tasks # <<>>
  <2> DEFINE m == Len(tasks)
             c == Len(chunks)
             F == FirstQueued
             t == tasks'
             h == hand'
  <2>1. /\ t = Tail(tasks) /\ h = [hand EXCEPT ![i] = Head(tasks)]
        /\ UNCHANGED <<chunks, done>> /\ worker_pc[i] = "get_task"
    BY <1>2 DEF GetTask, CallerUnchanged, queueVars, Taken
  <2>2. /\ F \in Nat /\ F = c - m /\ c \in Nat
        /\ \A k \in 1..m : tasks[k] = F + k - 1
    BY LenChunks DEF TasksInv, FirstQueued
  <2>3. /\ m \in Nat \ {0} /\ Head(tasks) = tasks[1] /\ Len(t) = m - 1
        /\ \A k \in 1..(m - 1) : t[k] = tasks[k + 1]
    BY <1>2, <2>1, TailOf DEF QueueTypes
  <2>4. \A k \in Slots : h[k] = IF k = i THEN F ELSE hand[k]
    <3>1. tasks[1] = F
      <4> HIDE DEF F, m
      <4> QED
        BY <2>2, <2>3
    <3> QED
      BY <2>1, <2>3, <3>1 DEF QueueTypes
  <2>5. hand[i] = NoTask /\ F # NoTask
    BY <2>1, <2>2, ThreadFacts DEF ThreadTypes
  <2>6. FirstQueued' = F + 1
    <3>1. FirstQueued' = c - Len(t)
      BY <2>1 DEF FirstQueued
    <3> HIDE DEF c, t, m, F
    <3> QED
      BY <2>2, <2>3, <3>1
  <2>7. ASSUME NEW k \in 1..(m - 1) PROVE t[k] = F + 1 + k - 1
    <3> HIDE DEF c, t, m, F
    <3>1. t[k] = tasks[k + 1] /\ k + 1 \in 1..m
      BY <2>3
    <3>2. tasks[k + 1] = F + (k + 1) - 1
      BY <2>2, <3>1
    <3> QED
      BY <2>2, <3>1, <3>2
  <2>8. \A k \in Slots : hand[k] # NoTask => hand[k] \in Nat /\ hand[k] < F /\ hand[k] \notin done
    BY DEF TasksInv, Busy, QueueTypes, Ids
  <2>9. \A id \in done : id \in Nat /\ id < F
    BY DEF TasksInv, QueueTypes, Ids
  <2>10. \A j, k \in Slots : hand[j] # NoTask /\ hand[k] # NoTask /\ hand[j] = hand[k] => j = k
    BY DEF TasksInv, Busy
  <2>11. \A id \in 0..(F - 1) : id \in done \/ \E k \in Slots : hand[k] # NoTask /\ hand[k] = id
    BY DEF TasksInv, Busy
  <2> HIDE DEF c, t, m, F, h
  <2>12. \A k \in Slots : h[k] # NoTask => h[k] < F + 1 /\ h[k] \notin done
    BY <2>2, <2>4, <2>8, <2>9
  <2>13. \A j, k \in Slots : h[j] # NoTask /\ h[k] # NoTask /\ h[j] = h[k] => j = k
    BY <2>2, <2>4, <2>8, <2>10
  <2>14. \A id \in done : id < F + 1
    BY <2>2, <2>9
  <2>15. ASSUME NEW id \in 0..F
         PROVE  id \in done \/ \E k \in Slots : h[k] # NoTask /\ h[k] = id
    <3>1. CASE id = F
      BY <2>4, <2>5, <3>1
    <3>2. CASE id # F
      <4>1. id \in 0..(F - 1)
        BY <2>2, <3>2
      <4>2. CASE id \in done
        BY <4>2
      <4>3. CASE \E k \in Slots : hand[k] # NoTask /\ hand[k] = id
        <5>1. PICK k \in Slots : hand[k] # NoTask /\ hand[k] = id
          BY <4>3
        <5>2. k # i
          BY <2>5, <5>1
        <5> QED
          BY <2>4, <5>1, <5>2
      <4> QED
        BY <2>11, <4>1, <4>2, <4>3
    <3> QED
      BY <3>1, <3>2
  <2>17. \A k \in Slots : Busy(k)' <=> h[k] # NoTask
    BY DEF Busy, h
  <2>18. done' = done /\ tasks' = t /\ hand' = h
    BY <2>1 DEF t, h
  <2>19. PICK G : G = F + 1
    OBVIOUS
  <2>20. FirstQueued' = G /\ G \in Nat /\ 0..(G - 1) = 0..F
    BY <2>2, <2>6, <2>19
  <2>21. ASSUME NEW k \in 1..Len(t) PROVE t[k] = G + k - 1
    <3>1. k \in 1..(m - 1)
      BY <2>3
    <3>2. t[k] = F + 1 + k - 1
      BY <2>7, <3>1
    <3> QED
      BY <2>19, <3>2
  <2>22. \A k \in Slots : Busy(k)' => h[k] < G /\ h[k] \notin done
    BY <2>12, <2>17, <2>19
  <2>23. \A j, k \in Slots : Busy(j)' /\ Busy(k)' /\ h[j] = h[k] => j = k
    BY <2>13, <2>17
  <2>24. \A id \in done : id < G
    BY <2>14, <2>19
  <2>25. \A id \in 0..(G - 1) : id \in done \/ \E k \in Slots : Busy(k)' /\ h[k] = id
    BY <2>15, <2>17, <2>20
  <2> QED
    BY <2>18, <2>20, <2>21, <2>22, <2>23, <2>24, <2>25 DEF TasksInv
<1> QED
  BY <1>1, <1>2

LEMMA RunTaskInv ==
  ASSUME QueueTypes, ThreadTypes, TasksInv, NEW i \in Slots, RunTask(i)
  PROVE  TasksInv' /\ hand[i] # NoTask
<1> DEFINE h == hand'
           d == done'
           F == FirstQueued
<1>1. /\ h = [hand EXCEPT ![i] = NoTask] /\ d = done \cup {hand[i]}
      /\ UNCHANGED <<chunks, tasks>> /\ hand[i] # NoTask
  BY DEF RunTask, CallerUnchanged, queueVars, ThreadTypes
<1>2. \A k \in Slots : h[k] = IF k = i THEN NoTask ELSE hand[k]
  BY <1>1 DEF QueueTypes
<1>3. /\ \A k \in Slots : hand[k] # NoTask => hand[k] < F /\ hand[k] \notin done
      /\ \A j, k \in Slots : hand[j] # NoTask /\ hand[k] # NoTask /\ hand[j] = hand[k] => j = k
      /\ \A id \in done : id < F
      /\ \A id \in 0..(F - 1) : id \in done \/ \E k \in Slots : hand[k] # NoTask /\ hand[k] = id
      /\ F \in Nat /\ \A k \in 1..Len(tasks) : tasks[k] = F + k - 1
  BY DEF TasksInv, Busy
<1>4. F' = F /\ tasks' = tasks
  BY <1>1 DEF FirstQueued
<1>5. \A k \in Slots : Busy(k)' <=> h[k] # NoTask
  BY DEF Busy
<1> HIDE DEF h, d, F
<1>6. \A k \in Slots : h[k] # NoTask => h[k] < F /\ h[k] \notin d
  BY <1>1, <1>2, <1>3
<1>7. \A j, k \in Slots : h[j] # NoTask /\ h[k] # NoTask /\ h[j] = h[k] => j = k
  BY <1>2, <1>3
<1>8. \A id \in d : id < F
  BY <1>1, <1>3
<1>9. ASSUME NEW id \in 0..(F - 1)
      PROVE  id \in d \/ \E k \in Slots : h[k] # NoTask /\ h[k] = id
  <2>1. CASE id \in done
    BY <1>1, <2>1
  <2>2. CASE \E k \in Slots : hand[k] # NoTask /\ hand[k] = id
    <3>1. PICK k \in Slots : hand[k] # NoTask /\ hand[k] = id
      BY <2>2
    <3> QED
      BY <1>1, <1>2, <3>1
  <2> QED
    BY <1>3, <2>1, <2>2
<1> QED
  BY <1>1, <1>3, <1>4, <1>5, <1>6, <1>7, <1>8, <1>9 DEF TasksInv, F, h, d
-----------------------------------------------------------------------------
(* The calls.  The steps of a new call are in front of nothing.            *)

Callable == {x \in StepSet : StepOK(x) /\ x.op \notin InFront}
Plain    == {x \in Callable : x.op \in StreamOps \ {"threads", "destroyed"}}

LEMMA CallableTodo ==
  ASSUME todo' \in Seq(Callable), fill' <= total'
  PROVE  /\ TodoInv' /\ Len(todo') \in Nat /\ DOMAIN todo' = 1..Len(todo')
         /\ \A i \in 1..Len(todo') : todo'[i] \in Callable
         /\ \A op \in InFront : ~At(op)'
<1> DEFINE t == todo'
<1>1. Len(t) \in Nat /\ DOMAIN t = 1..Len(t) /\ t \in [1..Len(t) -> Callable]
  BY LenProperties
<1>2. \A i \in 1..Len(t) : t[i] \in Callable
  BY <1>1
<1>3. t \in Seq(StepSet)
  <2>1. Callable \subseteq StepSet
    BY DEF Callable
  <2> HIDE DEF t
  <2> QED
    BY <2>1, SeqGrows DEF t
<1>4. \A i \in 1..Len(t) : StepOK(t[i]) /\ Op(i)' \notin InFront
  BY <1>2 DEF Callable, Op
<1>5. ASSUME NEW op \in InFront PROVE ~At(op)'
  <2>1. At(op)' <=> Len(t) > 0 /\ Op(1)' = op
    BY <1>3, AtFactsNext
  <2> QED
    BY <1>1, <1>4, <1>5, <2>1
<1>6. At("join")' => Len(running)' > 1
  BY <1>5 DEF InFront
<1> QED
  BY <1>1, <1>2, <1>3, <1>4, <1>5, <1>6 DEF TodoInv, StepSet

LEMMA PlainSteps ==
  ASSUME AreaTypes, threads \in ThreadCounts, fill <= total
  PROVE  /\ StepWith("enqueue_task", fill) \in Plain
         /\ \A n \in Nat : n <= MaxBytes => StepWith("enqueue_task", n) \in Plain
         /\ Step("flush_to") \in Plain /\ Step("finish_wait") \in Plain
         /\ Step("raise_stop") \in Plain /\ StepWith("shrink", 1) \in Plain
         /\ StepWith("grow", threads) \in Plain
<1>1. fill \in Nat /\ fill <= MaxBytes /\ threads \in Nat
  BY Constants DEF AreaTypes
<1>2. ASSUME NEW op \in {"enqueue_task", "flush_to", "finish_wait", "raise_stop",
                          "shrink", "grow"},
             NEW n \in Nat, op = "enqueue_task" => n <= MaxBytes,
             op = "grow" => n \in ThreadCounts, op = "shrink" => n > 0
      PROVE  StepWith(op, n) \in Plain
  <2>1. PICK s : s = StepWith(op, n)
    OBVIOUS
  <2>0. op \in StepOps
    BY <1>2 DEF StepOps
  <2>2. s = [op |-> op, n |-> n]
    BY <2>1 DEF StepWith
  <2>4. s \in StepSet
    BY <2>0, <2>2 DEF StepSet
  <2>5. s.op = op /\ s.n = n
    BY <2>2
  <2>3. StepOK(s) /\ op \notin InFront /\ op \in StreamOps \ {"threads", "destroyed"}
    BY <1>2, <2>5 DEF StepOK, InFront, StreamOps
  <2> QED
    BY <2>1, <2>3, <2>4, <2>5 DEF Callable, Plain
<1>3. \A op : Step(op) = StepWith(op, 0)
  BY DEF Step, StepWith
<1> QED
  BY <1>1, <1>2, <1>3

LEMMA PlainLists ==
  ASSUME AreaTypes, threads \in ThreadCounts, fill <= total
  PROVE  /\ FlushBuffer \in Seq(Plain) /\ FinishUp \in Seq(Plain)
         /\ <<Step("flush_to")>> \in Seq(Plain)
         /\ FlushBuffer \o FinishUp \in Seq(Plain)
         /\ SyncAll \in Seq(Plain) /\ ModFunctionSteps \in Seq(Plain)
         /\ SyncAll = (FlushBuffer \o FinishUp) \o <<Step("flush_to")>>
<1>1. /\ StepWith("enqueue_task", fill) \in Plain
      /\ Step("flush_to") \in Plain /\ Step("finish_wait") \in Plain
      /\ Step("raise_stop") \in Plain /\ StepWith("shrink", 1) \in Plain
      /\ StepWith("grow", threads) \in Plain
  BY PlainSteps
<1>2. /\ <<>> \in Seq(Plain) /\ <<Step("flush_to")>> \in Seq(Plain)
      /\ <<StepWith("enqueue_task", fill)>> \in Seq(Plain)
      /\ <<StepWith("grow", threads)>> \in Seq(Plain)
      /\ FinishUp \in Seq(Plain)
  BY <1>1 DEF FinishUp
<1>3. FlushBuffer \in Seq(Plain)
  BY <1>2, ConcatProperties DEF FlushBuffer
<1>4. FlushBuffer \o FinishUp \in Seq(Plain)
  BY <1>2, <1>3, ConcatProperties
<1>5. SyncAll = (FlushBuffer \o FinishUp) \o <<Step("flush_to")>>
  BY DEF SyncAll
<1>6. SyncAll \in Seq(Plain)
  BY <1>2, <1>4, <1>5, ConcatProperties
<1>7. ModFunctionSteps \in Seq(Plain)
  BY <1>2, ConcatProperties DEF ModFunctionSteps
<1> QED
  BY <1>2, <1>3, <1>4, <1>5, <1>6, <1>7

LEMMA PlainStream ==
  ASSUME todo' \in Seq(Plain), fill' <= total'
  PROVE  todo' \in Seq(Callable) /\ StreamInv'
<1> DEFINE t == todo'
<1>1. Len(t) \in Nat /\ DOMAIN t = 1..Len(t) /\ t \in [1..Len(t) -> Plain]
  BY LenProperties
<1>2. t \in Seq(Callable)
  <2>1. Plain \subseteq Callable
    BY DEF Plain
  <2> HIDE DEF t
  <2> QED
    BY <2>1, SeqGrows DEF t
<1>3. \A i \in 1..Len(t) : t[i] \in Plain
  BY <1>1
<1>4. \A i \in 1..Len(t) : /\ Op(i)' \in StreamOps
                           /\ Op(i)' # "threads" /\ Op(i)' # "destroyed"
  BY <1>3 DEF Op, Plain
<1> QED
  BY <1>2, <1>4 DEF StreamInv

LEMMA WriteCall ==
  ASSUME AreaTypes, threads \in ThreadCounts, fill <= total, todo = <<>>,
         NEW n \in Nat, n > 0, Write(n)
  PROVE  todo' \in Seq(Plain)
<1>1. n <= MaxBytes
  BY Constants DEF AreaTypes, Write
<1>2. /\ FlushBuffer \in Seq(Plain) /\ <<>> \in Seq(Plain)
      /\ <<StepWith("enqueue_task", n)>> \in Seq(Plain)
  BY <1>1, PlainLists, PlainSteps
<1>3. /\ FlushBuffer \o <<>> \in Seq(Plain)
      /\ FlushBuffer \o <<StepWith("enqueue_task", n)>> \in Seq(Plain)
  BY <1>2, ConcatProperties
<1>4. todo' = IF n <= size - fill THEN <<>>
              ELSE FlushBuffer \o IF ~(n <= size - fill) /\ n > size
                                  THEN <<StepWith("enqueue_task", n)>> ELSE <<>>
  BY DEF Write, Call
<1> QED
  BY <1>2, <1>3, <1>4

LEMMA SetThreadsCall ==
  ASSUME NEW n \in ThreadCounts, SetThreads(n)
  PROVE  todo' \in Seq(Callable) /\ StreamInv'
<1> DEFINE t == todo'
<1>1. t = <<StepWith("shrink", n), StepWith("grow", n), StepWith("threads", n)>>
  BY DEF SetThreads, SetThreadsSteps, Call
<1>2. n \in Nat /\ n > 0
  BY Constants
<1>3. ASSUME NEW op \in {"shrink", "grow", "threads"}
      PROVE  StepWith(op, n) \in Callable /\ StepWith(op, n).op = op /\ StepWith(op, n).n = n
  <2>1. PICK s : s = StepWith(op, n)
    OBVIOUS
  <2>2. op \in StepOps /\ op \notin InFront /\ op # "enqueue_task"
    BY <1>3 DEF StepOps, InFront
  <2>3. s = [op |-> op, n |-> n]
    BY <2>1 DEF StepWith
  <2>4. s \in StepSet /\ s.op = op /\ s.n = n
    BY <1>2, <2>2, <2>3 DEF StepSet
  <2> QED
    BY <1>2, <2>1, <2>2, <2>4 DEF Callable, StepOK
<1>4. /\ StepWith("shrink", n) \in Callable /\ StepWith("grow", n) \in Callable
      /\ StepWith("threads", n) \in Callable
  BY <1>3
<1>5. t \in Seq(Callable) /\ Len(t) = 3
      /\ t[1] = StepWith("shrink", n) /\ t[2] = StepWith("grow", n)
      /\ t[3] = StepWith("threads", n)
  BY <1>1, <1>4
<1>6. /\ Op(1)' = "shrink" /\ Op(2)' = "grow" /\ Op(3)' = "threads"
      /\ t[1].n = n /\ t[2].n = n /\ t[3].n = n
  BY <1>3, <1>5 DEF Op
<1> HIDE DEF t
<1>7. \A i \in 1..Len(t) : i = 1 \/ i = 2 \/ i = 3
  BY <1>5
<1>8. \A i \in 1..Len(t) : /\ Op(i)' \in StreamOps
                           /\ Op(i)' # "destroyed"
                           /\ Op(i)' = "threads" => i = 3
  BY <1>6, <1>7 DEF StreamOps
<1>9. \A j \in 1..(3 - 1) : Op(j)' = "grow" => t[j].n = t[3].n
  <2>1. \A j \in 1..(3 - 1) : j = 1 \/ j = 2
    OBVIOUS
  <2> QED
    BY <1>6, <2>1
<1>10. \E j \in 1..(3 - 1) : Op(j)' = "shrink" /\ t[j].n = t[3].n
  <2>1. 1 \in 1..(3 - 1)
    OBVIOUS
  <2> QED
    BY <1>6, <2>1
<1>11. StreamInv'
  BY <1>8, <1>9, <1>10 DEF StreamInv, t
<1> QED
  BY <1>5, <1>11 DEF t

(* One element behind a sequence.                                          *)
LEMMA Ended ==
  ASSUME NEW S, NEW s \in Seq(S), NEW e \in S
  PROVE  /\ s \o <<e>> \in Seq(S) /\ Len(s \o <<e>>) = Len(s) + 1
         /\ \A i \in 1..Len(s) : (s \o <<e>>)[i] = s[i]
         /\ (s \o <<e>>)[Len(s) + 1] = e
<1>1. s \o <<e>> = Append(s, e)
  BY AppendIsConcat
<1> QED
  BY <1>1, Appended

LEMMA Joined ==
  ASSUME NEW S, NEW s \in Seq(S), NEW t \in Seq(S)
  PROVE  /\ s \o t \in Seq(S) /\ Len(s \o t) = Len(s) + Len(t)
         /\ \A i \in 1..Len(s) : (s \o t)[i] = s[i]
         /\ \A i \in 1..Len(t) : (s \o t)[Len(s) + i] = t[i]
<1> DEFINE r == s \o t
           m == Len(s)
           n == Len(t)
<1>1. m \in Nat /\ n \in Nat
  BY LenProperties
<1>2. /\ r \in Seq(S) /\ Len(r) = m + n
      /\ \A i \in 1..(m + n) : r[i] = IF i <= m THEN s[i] ELSE t[i - m]
  BY ConcatProperties
<1> HIDE DEF r, m, n
<1>3. \A i \in 1..m : r[i] = s[i]
  BY <1>1, <1>2
<1>4. ASSUME NEW i \in 1..n PROVE r[m + i] = t[i]
  <2> DEFINE k == m + i
  <2>1. k \in 1..(m + n) /\ ~(k <= m) /\ k - m = i
    BY <1>1
  <2> HIDE DEF k
  <2>2. r[k] = t[i]
    BY <1>2, <2>1
  <2> QED
    BY <2>2 DEF k
<1> QED
  BY <1>2, <1>3, <1>4 DEF r, m, n

(* The steps t are plain but for the last, e, and after a g none enqueues. *)
LastIs(t, g, e) ==
  /\ t \in Seq(Callable)
  /\ \E n \in Nat : \E j \in 1..n :
       /\ Len(t) = n + 1 /\ t[n + 1] = e /\ t[j] = g
       /\ \A i \in 1..n : t[i] \in Plain
       /\ \A k \in (j + 1)..n : t[k].op # "enqueue_task"

LEMMA LastFlush ==
  ASSUME NEW b \in Seq(Plain), NEW g \in Plain, NEW f \in Seq(Plain), NEW e \in Callable,
         \A i \in 1..Len(f) : f[i].op # "enqueue_task",
         NEW u, u = b \o <<g>>, NEW v, v = u \o f, NEW t, t = v \o <<e>>
  PROVE  LastIs(t, g, e)
<1>1. u \in Seq(Plain) /\ Len(u) = Len(b) + 1 /\ u[Len(b) + 1] = g
  BY Ended
<1>2. PICK m, l : m = Len(u) /\ l = Len(f)
  OBVIOUS
<1>3. m \in Nat /\ m > 0 /\ l \in Nat /\ m + l \in Nat /\ m \in 1..(m + l) /\ u[m] = g
  <2>1. Len(b) \in Nat /\ Len(f) \in Nat
    BY LenProperties
  <2> QED
    BY <1>1, <1>2, <2>1
<1>4. /\ v \in Seq(Plain) /\ Len(v) = Len(u) + Len(f)
      /\ \A i \in 1..Len(u) : v[i] = u[i]
      /\ \A i \in 1..Len(f) : v[Len(u) + i] = f[i]
  BY <1>1, Joined
<1>5. v \in Seq(Callable)
  <2>1. Plain \subseteq Callable
    BY DEF Plain
  <2> QED
    BY <1>4, <2>1, SeqGrows
<1>6. /\ t \in Seq(Callable) /\ Len(t) = Len(v) + 1
      /\ \A i \in 1..Len(v) : t[i] = v[i]
      /\ t[Len(v) + 1] = e
  BY <1>5, Ended
<1>7. PICK n : n = m + l
  OBVIOUS
<1>8. n \in Nat /\ Len(v) = n /\ m \in 1..n
  BY <1>2, <1>3, <1>4, <1>7
<1>9. \A i \in 1..n : t[i] = v[i] /\ t[i] \in Plain
  <2>1. v \in [1..n -> Plain]
    BY <1>4, <1>8, LenProperties
  <2> QED
    BY <1>6, <1>8, <2>1
<1>10. t[m] = g
  <2>1. m \in 1..m
    BY <1>3
  <2> QED
    BY <1>2, <1>3, <1>4, <1>8, <1>9, <2>1
<1>11. ASSUME NEW k \in (m + 1)..n PROVE t[k].op # "enqueue_task"
  <2>1. PICK i : i = k - m
    OBVIOUS
  <2>2. i \in 1..l /\ m + i = k /\ k \in 1..n
    BY <1>3, <1>7, <2>1
  <2>3. t[k] = f[i]
    BY <1>2, <1>4, <1>9, <2>2
  <2> QED
    BY <1>2, <2>2, <2>3
<1> QED
  BY <1>6, <1>8, <1>9, <1>10, <1>11 DEF LastIs

(* The last call: its second flush_to, with no enqueue_task after it.      *)
LEMMA DestroyCall ==
  ASSUME AreaTypes, threads \in ThreadCounts, fill <= total, Destroy
  PROVE  todo' \in Seq(Callable) /\ StreamInv'
<1> DEFINE t == todo'
           b == FlushBuffer \o FinishUp
           f == FinishUp
           g == Step("flush_to")
           e == Step("destroyed")
<1>1. t = ((b \o <<g>>) \o f) \o <<e>> /\ fill' = 0
  BY PlainLists DEF Destroy, Call
<1>2. b \in Seq(Plain) /\ f \in Seq(Plain) /\ g \in Plain
  BY PlainLists, PlainSteps
<1>3. e \in Callable /\ e.op = "destroyed" /\ g.op = "flush_to"
  <2>1. PICK s : s = e
    OBVIOUS
  <2>2. s = [op |-> "destroyed", n |-> 0]
    BY <2>1 DEF Step
  <2>3. s \in StepSet
    BY <2>2 DEF StepSet, StepOps
  <2>4. e \in Callable
    BY <2>1, <2>2, <2>3 DEF Callable, StepOK, InFront
  <2> QED
    BY <2>4 DEF Step
<1>4. \A i \in 1..Len(f) : f[i].op # "enqueue_task"
  <2>1. Len(f) = 3 /\ f[1] = Step("finish_wait")
        /\ f[2] = Step("raise_stop") /\ f[3] = StepWith("shrink", 1)
    BY DEF FinishUp
  <2>2. \A i \in 1..Len(f) : i = 1 \/ i = 2 \/ i = 3
    BY <2>1
  <2>3. /\ Step("finish_wait").op # "enqueue_task" /\ Step("raise_stop").op # "enqueue_task"
        /\ StepWith("shrink", 1).op # "enqueue_task"
    BY DEF Step, StepWith
  <2> HIDE DEF f
  <2> QED
    BY <2>1, <2>2, <2>3
<1> HIDE DEF t, b, f, g, e
<1>5. LastIs(t, g, e)
  <2>1. PICK u : u = b \o <<g>>
    OBVIOUS
  <2>2. PICK v : v = u \o f
    OBVIOUS
  <2>3. t = v \o <<e>>
    BY <1>1, <2>1, <2>2
  <2> QED
    BY <1>2, <1>3, <1>4, <2>1, <2>2, <2>3, LastFlush, Zenon
<1>0. PICK n \in Nat : \E j \in 1..n :
           /\ Len(t) = n + 1 /\ t[n + 1] = e /\ t[j] = g
           /\ \A i \in 1..n : t[i] \in Plain
           /\ \A k \in (j + 1)..n : t[k].op # "enqueue_task"
  BY <1>5 DEF LastIs
<1>6. PICK j \in 1..n :
           /\ Len(t) = n + 1 /\ t[n + 1] = e /\ t[j] = g
           /\ \A i \in 1..n : t[i] \in Plain
           /\ \A k \in (j + 1)..n : t[k].op # "enqueue_task"
  BY <1>0
<1>7. PICK L : L = n + 1
  OBVIOUS
<1>8. Len(t) = L /\ t[L] = e /\ L - 1 = n /\ L \in Nat
  BY <1>6, <1>7
<1>9. \A i \in 1..L : i \in 1..n \/ i = L
  BY <1>7
<1>10. \A i \in 1..n : /\ t[i].op \in StreamOps
                       /\ t[i].op # "threads" /\ t[i].op # "destroyed"
  BY <1>6 DEF Plain
<1>11. \A i : Op(i)' = t[i].op
  BY DEF Op, t
<1>12. \A i \in 1..L : /\ Op(i)' \in StreamOps
                       /\ Op(i)' # "threads"
                       /\ Op(i)' = "destroyed" => i = L
  BY <1>3, <1>8, <1>9, <1>10, <1>11 DEF StreamOps
<1>13. \A k \in (j + 1)..L : Op(k)' # "enqueue_task"
  <2> SUFFICES ASSUME NEW k \in (j + 1)..L PROVE Op(k)' # "enqueue_task"
    OBVIOUS
  <2>1. k = L \/ k \in (j + 1)..n
    BY <1>7
  <2> QED
    BY <1>3, <1>6, <1>8, <1>11, <2>1
<1>14. j \in 1..(L - 1) /\ Op(j)' = "flush_to"
  BY <1>3, <1>6, <1>8, <1>11
<1>15. \E h \in 1..(L - 1) : /\ Op(h)' = "flush_to"
                             /\ \A k \in (h + 1)..L : Op(k)' # "enqueue_task"
  BY <1>13, <1>14
<1>16. ASSUME NEW i \in 1..Len(todo'), Op(i)' = "destroyed"
       PROVE  /\ fill' = 0
              /\ \E h \in 1..(i - 1) :
                   /\ Op(h)' = "flush_to"
                   /\ \A k \in (h + 1)..Len(todo') : Op(k)' # "enqueue_task"
  <2>1. Len(todo') = L
    BY <1>8 DEF t
  <2>2. i = L
    BY <1>8, <1>12, <1>16, <2>1
  <2>3. \E h \in 1..(L - 1) : /\ Op(h)' = "flush_to"
                              /\ \A k \in (h + 1)..Len(todo') : Op(k)' # "enqueue_task"
    BY <1>15, <2>1, Zenon
  <2> QED
    BY <1>1, <2>2, <2>3, Zenon
<1>17. StreamInv'
  <2>1. Len(todo') = L
    BY <1>8 DEF t
  <2>2. \A i \in 1..Len(todo') : Op(i)' \in StreamOps /\ Op(i)' # "threads"
    BY <1>8, <1>12, <2>1
  <2> QED
    BY <1>16, <2>2, Zenon DEF StreamInv
<1> QED
  BY <1>5, <1>17 DEF t, LastIs

LEMMA StreamCall ==
  ASSUME AreaTypes, threads \in ThreadCounts, fill <= total, todo = <<>>, Calls
  PROVE  todo' \in Seq(Callable) /\ StreamInv'
<1>1. CASE \E n \in Nat : n > 0 /\ Write(n)
  <2>1. todo' \in Seq(Plain) /\ fill' <= total'
    BY <1>1, WriteCall, WriteArea
  <2> QED
    BY <2>1, PlainStream
<1>2. CASE Sync \/ SetModFunction \/ \E n \in BufferSizes : SetBufferSize(n)
  <2>1. fill' = 0 /\ total' \in Nat /\ (todo' = SyncAll \/ todo' = SyncAll \o ModFunctionSteps)
    BY <1>2 DEF Sync, SetModFunction, SetBufferSize, Call, AreaTypes
  <2>2. SyncAll \in Seq(Plain) /\ SyncAll \o ModFunctionSteps \in Seq(Plain)
    BY PlainLists, ConcatProperties
  <2>3. todo' \in Seq(Plain)
    BY <2>1, <2>2, Zenon
  <2>4. fill' <= total'
    BY <2>1
  <2> QED
    BY <2>3, <2>4, PlainStream
<1>3. CASE \E n \in ThreadCounts : SetThreads(n)
  BY <1>3, SetThreadsCall
<1>4. CASE Destroy
  BY <1>4, DestroyCall
<1>5. (\E n \in WriteSizes : Write(n)) \/ Overflow => \E n \in Nat : n > 0 /\ Write(n)
  BY Constants DEF Overflow
<1> QED
  BY <1>1, <1>2, <1>3, <1>4, <1>5 DEF Calls

LEMMA CallableStep ==
  ASSUME NEW op \in StepOps \ InFront, NEW n \in Nat, op = "enqueue_task" => n <= MaxBytes,
         op \in {"grow", "threads"} => n \in ThreadCounts, op = "shrink" => n > 0
  PROVE  StepWith(op, n) \in Callable /\ StepWith(op, n).op = op /\ StepWith(op, n).n = n
<1>1. PICK s : s = StepWith(op, n)
  OBVIOUS
<1>2. s = [op |-> op, n |-> n]
  BY <1>1 DEF StepWith
<1>3. s \in StepSet /\ s.op = op /\ s.n = n
  BY <1>2 DEF StepSet
<1> QED
  BY <1>1, <1>3 DEF Callable, StepOK

(* The calls of a ParallelDataModifier, and its start, step by step.       *)
LEMMA StepIs ==
  /\ \A op : Step(op) = StepWith(op, 0)
  /\ \A op \in {"flush", "finish_wait", "raise_stop", "stop_worker", "start_writer",
                "add_writer", "destroyed"} : Step(op) \in Callable /\ Step(op).op = op
  /\ StepWith("shrink", 1) \in Callable /\ StepWith("shrink", 1).op = "shrink"
<1>1. \A op : Step(op) = StepWith(op, 0)
  BY DEF Step, StepWith
<1>2. ASSUME NEW op \in {"flush", "finish_wait", "raise_stop", "stop_worker", "start_writer",
                         "add_writer", "destroyed"}
      PROVE  Step(op) \in Callable /\ Step(op).op = op
  <2>1. op \in StepOps \ InFront /\ op \notin {"enqueue_task", "grow", "threads", "shrink"}
    BY <1>2 DEF StepOps, InFront
  <2>2. StepWith(op, 0) \in Callable /\ StepWith(op, 0).op = op
    BY <2>1, CallableStep
  <2> QED
    BY <1>1, <2>2
<1>3. StepWith("shrink", 1) \in Callable /\ StepWith("shrink", 1).op = "shrink"
  <2>1. "shrink" \in StepOps \ InFront
    BY DEF StepOps, InFront
  <2> QED
    BY <2>1, CallableStep
<1> QED
  BY <1>1, <1>2, <1>3

LEMMA DirectLists ==
  /\ ContinueSteps \in Seq(Callable) /\ Len(ContinueSteps) = 2
  /\ ContinueSteps[1].op = "stop_worker" /\ ContinueSteps[2].op = "start_writer"
  /\ FinishUp \in Seq(Callable) /\ Len(FinishUp) = 3
  /\ FinishUp[1].op = "finish_wait" /\ FinishUp[2].op = "raise_stop"
  /\ FinishUp[3].op = "shrink"
  /\ \A i \in 1..3 : FinishUp[i].op # "grow"
<1>1. /\ Step("stop_worker") \in Callable /\ Step("stop_worker").op = "stop_worker"
      /\ Step("start_writer") \in Callable /\ Step("start_writer").op = "start_writer"
      /\ Step("finish_wait") \in Callable /\ Step("finish_wait").op = "finish_wait"
      /\ Step("raise_stop") \in Callable /\ Step("raise_stop").op = "raise_stop"
      /\ StepWith("shrink", 1) \in Callable /\ StepWith("shrink", 1).op = "shrink"
  BY StepIs
<1>2. /\ ContinueSteps \in Seq(Callable) /\ Len(ContinueSteps) = 2
      /\ ContinueSteps[1] = Step("stop_worker") /\ ContinueSteps[2] = Step("start_writer")
  BY <1>1 DEF ContinueSteps
<1>3. /\ FinishUp \in Seq(Callable) /\ Len(FinishUp) = 3
      /\ FinishUp[1] = Step("finish_wait") /\ FinishUp[2] = Step("raise_stop")
      /\ FinishUp[3] = StepWith("shrink", 1)
  BY <1>1 DEF FinishUp
<1>4. \A i \in 1..3 : i = 1 \/ i = 2 \/ i = 3
  OBVIOUS
<1> QED
  BY <1>1, <1>2, <1>3, <1>4
-----------------------------------------------------------------------------
(* The steps of a ParallelDataModifier.                                    *)

LEMMA OpsFacts ==
  ASSUME todo \in Seq(StepSet)
  PROVE  /\ Ops \in Seq(StepOps) /\ Len(Ops) = Len(todo) /\ Len(todo) \in Nat
         /\ Ops = <<>> <=> todo = <<>>
         /\ \A op : At(op) <=> Len(Ops) > 0 /\ Ops[1] = op
         /\ \A i \in 1..Len(todo) : Ops[i] = Op(i)
<1> DEFINE n == Len(todo)
<1>1. n \in Nat /\ \A i \in 1..n : todo[i] \in StepSet
  BY TodoFacts
<1>2. Ops \in [1..n -> StepOps] /\ \A i \in 1..n : Ops[i] = Op(i)
  BY <1>1 DEF Ops, Op, StepSet
<1> HIDE DEF n
<1>3. Ops \in Seq(StepOps) /\ Len(Ops) = n
  BY <1>1, <1>2, FunctionIsSeq
<1>4. /\ Ops = <<>> <=> n = 0
      /\ todo = <<>> <=> n = 0
  BY <1>1, <1>3, EmptySeq DEF n
<1>5. ASSUME NEW op PROVE At(op) <=> Len(Ops) > 0 /\ Ops[1] = op
  <2>1. At(op) <=> n > 0 /\ Op(1) = op
    BY AtFacts DEF n
  <2>2. n > 0 => 1 \in 1..n
    BY <1>1
  <2> QED
    BY <1>2, <1>3, <2>1, <2>2
<1> QED
  BY <1>1, <1>2, <1>3, <1>4, <1>5 DEF n

LEMMA OneOp ==
  ASSUME NEW f, NEW n, n = 1, f = [i \in 1..n |-> f[i]]
  PROVE  f = <<f[1]>>
OBVIOUS
LEMMA TwoOps ==
  ASSUME NEW f, NEW n, n = 2, f = [i \in 1..n |-> f[i]]
  PROVE  f = <<f[1], f[2]>>
OBVIOUS
LEMMA ThreeOps ==
  ASSUME NEW f, NEW n, n = 3, f = [i \in 1..n |-> f[i]]
  PROVE  f = <<f[1], f[2], f[3]>>
OBVIOUS

LEMMA OpsHead ==
  ASSUME NEW o, o \in WriterOps \cup EndOps \cup {<<>>, <<"flush">>, <<"collect">>}, Len(o) > 0
  PROVE  /\ o[1] = "finish_wait" =>
              \/ o = <<"finish_wait", "raise_stop", "shrink", "grow", "stop_worker", "start_writer">>
              \/ o = <<"finish_wait", "raise_stop", "shrink", "destroyed">>
         /\ o[1] = "raise_stop" =>
              \/ o = <<"raise_stop", "shrink", "grow", "stop_worker", "start_writer">>
              \/ o = <<"raise_stop", "shrink", "destroyed">>
         /\ o[1] = "shrink" =>
              \/ o = <<"shrink", "grow", "stop_worker", "start_writer">>
              \/ o = <<"shrink", "destroyed">>
         /\ o[1] = "grow" => o = <<"grow", "stop_worker", "start_writer">>
         /\ o[1] = "stop_worker" =>
              o = <<"stop_worker", "start_writer">> \/ o = <<"stop_worker", "add_writer">>
         /\ o[1] = "join" =>
              \/ o = <<"join", "start_writer">> \/ o = <<"join", "add_writer">>
              \/ o = <<"join", "shrink", "destroyed">>
         /\ o[1] = "start_writer" => o = <<"start_writer">>
         /\ o[1] = "add_writer" => o = <<"add_writer">>
         /\ o[1] = "enqueue_task" => o = <<"enqueue_task", "stop_worker", "start_writer">>
         /\ o[1] = "results" => o = <<"results", "stop_worker", "start_writer">>
         /\ o[1] = "flush" => o = <<"flush">>
         /\ o[1] = "collect" => o = <<"collect">>
         /\ o[1] \notin {"flush_to", "write", "threads"}
BY DEF WriterOps, EndOps, StartOps, GrowOps, StopOps, AddOps, EnqueueOps, ResultsOps

(* What each step makes of the rest of the call.                           *)
LEMMA DirectReturns ==
  ASSUME NEW o, NEW none \in BOOLEAN, NEW w \in Nat, NEW r \in Nat, NEW t \in Nat \ {0},
         DirectOK(o, none, w, r, t), Len(o) > 0
  PROVE  /\ o[1] \in {"finish_wait", "raise_stop", "stop_worker", "results", "shrink", "flush"}
              => DirectOK(Tail(o), none, w, r, t)
         /\ o[1] = "grow" /\ r >= t => DirectOK(Tail(o), none, w, r, t)
         /\ o[1] = "join" /\ r > 1 => DirectOK(Tail(o), none, w, r - 1, t)
         /\ o[1] = "add_writer" => DirectOK(Tail(o), none, w + 1, r, t)
<1>0. o \in WriterOps \cup EndOps \cup {<<>>, <<"flush">>, <<"collect">>}
  BY DEF DirectOK
<1> USE DEF WriterOps, EndOps, StartOps, GrowOps, StopOps, AddOps, EnqueueOps, ResultsOps
<1>1. ASSUME o[1] = "finish_wait" PROVE DirectOK(Tail(o), none, w, r, t)
  <2>1. CASE o = <<"finish_wait", "raise_stop", "shrink", "grow", "stop_worker", "start_writer">>
    <3>1. PICK p : p = <<"raise_stop", "shrink", "grow", "stop_worker", "start_writer">>
      OBVIOUS
    <3>2. Tail(o) = p
      BY <2>1, <3>1
    <3>3. DirectOK(p, none, w, r, t)
      BY <1>1, <2>1, <3>1 DEF DirectOK
    <3> QED
      BY <3>2, <3>3
  <2>2. CASE o = <<"finish_wait", "raise_stop", "shrink", "destroyed">>
    <3>1. PICK p : p = <<"raise_stop", "shrink", "destroyed">>
      OBVIOUS
    <3>2. Tail(o) = p
      BY <2>2, <3>1
    <3>3. DirectOK(p, none, w, r, t)
      BY <1>1, <2>2, <3>1 DEF DirectOK
    <3> QED
      BY <3>2, <3>3
  <2> QED
    BY <1>0, <1>1, <2>1, <2>2, OpsHead
<1>2. ASSUME o[1] = "raise_stop" PROVE DirectOK(Tail(o), none, w, r, t)
  <2>1. CASE o = <<"raise_stop", "shrink", "grow", "stop_worker", "start_writer">>
    <3>1. PICK p : p = <<"shrink", "grow", "stop_worker", "start_writer">>
      OBVIOUS
    <3>2. Tail(o) = p
      BY <2>1, <3>1
    <3>3. DirectOK(p, none, w, r, t)
      BY <1>2, <2>1, <3>1 DEF DirectOK
    <3> QED
      BY <3>2, <3>3
  <2>2. CASE o = <<"raise_stop", "shrink", "destroyed">>
    <3>1. PICK p : p = <<"shrink", "destroyed">>
      OBVIOUS
    <3>2. Tail(o) = p
      BY <2>2, <3>1
    <3>3. DirectOK(p, none, w, r, t)
      BY <1>2, <2>2, <3>1 DEF DirectOK
    <3> QED
      BY <3>2, <3>3
  <2> QED
    BY <1>0, <1>2, <2>1, <2>2, OpsHead
<1>3. ASSUME o[1] = "shrink" PROVE DirectOK(Tail(o), none, w, r, t)
  <2>1. CASE o = <<"shrink", "grow", "stop_worker", "start_writer">>
    <3>1. PICK p : p = <<"grow", "stop_worker", "start_writer">>
      OBVIOUS
    <3>2. Tail(o) = p
      BY <2>1, <3>1
    <3>3. DirectOK(p, none, w, r, t)
      BY <1>3, <2>1, <3>1 DEF DirectOK
    <3> QED
      BY <3>2, <3>3
  <2>2. CASE o = <<"shrink", "destroyed">>
    <3>1. PICK p : p = <<"destroyed">>
      OBVIOUS
    <3>2. Tail(o) = p
      BY <2>2, <3>1
    <3>3. DirectOK(p, none, w, r, t)
      BY <1>3, <2>2, <3>1 DEF DirectOK
    <3> QED
      BY <3>2, <3>3
  <2> QED
    BY <1>0, <1>3, <2>1, <2>2, OpsHead
<1>4. ASSUME o[1] = "stop_worker" PROVE DirectOK(Tail(o), none, w, r, t)
  <2>1. CASE o = <<"stop_worker", "start_writer">>
    <3>1. PICK p : p = <<"start_writer">>
      OBVIOUS
    <3>2. Tail(o) = p
      BY <2>1, <3>1
    <3>3. DirectOK(p, none, w, r, t)
      BY <1>4, <2>1, <3>1 DEF DirectOK
    <3> QED
      BY <3>2, <3>3
  <2>2. CASE o = <<"stop_worker", "add_writer">>
    <3>1. PICK p : p = <<"add_writer">>
      OBVIOUS
    <3>2. Tail(o) = p
      BY <2>2, <3>1
    <3>3. DirectOK(p, none, w, r, t)
      BY <1>4, <2>2, <3>1 DEF DirectOK
    <3> QED
      BY <3>2, <3>3
  <2> QED
    BY <1>0, <1>4, <2>1, <2>2, OpsHead
<1>5. ASSUME o[1] = "results" PROVE DirectOK(Tail(o), none, w, r, t)
  <2>1. CASE o = <<"results", "stop_worker", "start_writer">>
    <3>1. PICK p : p = <<"stop_worker", "start_writer">>
      OBVIOUS
    <3>2. Tail(o) = p
      BY <2>1, <3>1
    <3>3. DirectOK(p, none, w, r, t)
      BY <1>5, <2>1, <3>1 DEF DirectOK
    <3> QED
      BY <3>2, <3>3
  <2> QED
    BY <1>0, <1>5, <2>1, OpsHead
<1>6. ASSUME o[1] = "flush" PROVE DirectOK(Tail(o), none, w, r, t)
  <2>1. CASE o = <<"flush">>
    <3>1. PICK p : p = <<>>
      OBVIOUS
    <3>2. Tail(o) = p
      BY <2>1, <3>1
    <3>3. DirectOK(p, none, w, r, t)
      BY <1>6, <2>1, <3>1 DEF DirectOK
    <3> QED
      BY <3>2, <3>3
  <2> QED
    BY <1>0, <1>6, <2>1, OpsHead
<1>7. ASSUME o[1] = "grow" /\ r >= t PROVE DirectOK(Tail(o), none, w, r, t)
  <2>1. CASE o = <<"grow", "stop_worker", "start_writer">>
    <3>1. PICK p : p = <<"stop_worker", "start_writer">>
      OBVIOUS
    <3>2. Tail(o) = p
      BY <2>1, <3>1
    <3>3. DirectOK(p, none, w, r, t)
      BY <1>7, <2>1, <3>1 DEF DirectOK
    <3> QED
      BY <3>2, <3>3
  <2> QED
    BY <1>0, <1>7, <2>1, OpsHead
<1>8. ASSUME o[1] = "join" /\ r > 1 PROVE DirectOK(Tail(o), none, w, r - 1, t)
  <2>1. CASE o = <<"join", "start_writer">>
    <3>1. PICK p : p = <<"start_writer">>
      OBVIOUS
    <3>2. Tail(o) = p
      BY <2>1, <3>1
    <3>3. DirectOK(p, none, w, r - 1, t)
      BY <1>8, <2>1, <3>1 DEF DirectOK
    <3> QED
      BY <3>2, <3>3
  <2>2. CASE o = <<"join", "add_writer">>
    <3>1. PICK p : p = <<"add_writer">>
      OBVIOUS
    <3>2. Tail(o) = p
      BY <2>2, <3>1
    <3>3. DirectOK(p, none, w, r - 1, t)
      BY <1>8, <2>2, <3>1 DEF DirectOK
    <3> QED
      BY <3>2, <3>3
  <2>3. CASE o = <<"join", "shrink", "destroyed">>
    <3>1. PICK p : p = <<"shrink", "destroyed">>
      OBVIOUS
    <3>2. Tail(o) = p
      BY <2>3, <3>1
    <3>3. DirectOK(p, none, w, r - 1, t)
      BY <1>8, <2>3, <3>1 DEF DirectOK
    <3> QED
      BY <3>2, <3>3
  <2> QED
    BY <1>0, <1>8, <2>1, <2>2, <2>3, OpsHead
<1>9. ASSUME o[1] = "add_writer" PROVE DirectOK(Tail(o), none, w + 1, r, t)
  <2>1. CASE o = <<"add_writer">>
    <3>1. PICK p : p = <<>>
      OBVIOUS
    <3>2. Tail(o) = p
      BY <2>1, <3>1
    <3>3. DirectOK(p, none, w + 1, r, t)
      BY <1>9, <2>1, <3>1 DEF DirectOK
    <3> QED
      BY <3>2, <3>3
  <2> QED
    BY <1>0, <1>9, <2>1, OpsHead
<1> QED
  BY <1>1, <1>2, <1>3, <1>4, <1>5, <1>6, <1>7, <1>8, <1>9

LEMMA DirectReplaces ==
  ASSUME NEW o, NEW none \in BOOLEAN, NEW w \in Nat, NEW r \in Nat, NEW t \in Nat \ {0},
         DirectOK(o, none, w, r, t), Len(o) > 0
  PROVE  /\ o[1] = "enqueue_task" =>
              /\ Len(o) = 3 /\ o[2] = "stop_worker" /\ o[3] = "start_writer"
              /\ DirectOK(<<"results", "stop_worker", "start_writer">>, FALSE, w, r, t)
         /\ o[1] = "stop_worker" =>
              Len(o) = 2 /\ DirectOK(<<"join", o[2]>>, none, w, r, t)
         /\ o[1] = "start_writer" =>
              /\ Len(o) = 1 /\ DirectOK(<<"add_writer">>, none, w, r, t)
              /\ r + w >= t => DirectOK(<<"stop_worker", "add_writer">>, none, w, r, t)
         /\ o[1] = "flush" =>
              Len(o) = 1 /\ (~none => DirectOK(<<"collect">>, none, w, r, t))
         /\ o[1] = "shrink" /\ r > 1 =>
              /\ Len(o) = 2 /\ o[2] = "destroyed"
              /\ DirectOK(<<"join", "shrink", "destroyed">>, none, w, r, t)
         /\ o[1] = "grow" => \A n : DirectOK(o, none, w, n, t)
         /\ o[1] = "add_writer" => w < MaxWriters
         /\ o[1] \notin {"flush_to", "write", "threads"}
<1>0. o \in WriterOps \cup EndOps \cup {<<>>, <<"flush">>, <<"collect">>}
  BY DEF DirectOK
<1> USE DEF WriterOps, EndOps, StartOps, GrowOps, StopOps, AddOps, EnqueueOps, ResultsOps
<1>1. ASSUME o[1] = "enqueue_task"
      PROVE  /\ Len(o) = 3 /\ o[2] = "stop_worker" /\ o[3] = "start_writer"
             /\ DirectOK(<<"results", "stop_worker", "start_writer">>, FALSE, w, r, t)
  <2>1. o = <<"enqueue_task", "stop_worker", "start_writer">>
    BY <1>0, <1>1, OpsHead
  <2>2. PICK p : p = <<"results", "stop_worker", "start_writer">>
    OBVIOUS
  <2>3. DirectOK(p, FALSE, w, r, t)
    BY <2>1, <2>2 DEF DirectOK
  <2> QED
    BY <2>1, <2>2, <2>3
<1>2. ASSUME o[1] = "stop_worker"
      PROVE  Len(o) = 2 /\ DirectOK(<<"join", o[2]>>, none, w, r, t)
  <2>1. o = <<"stop_worker", "start_writer">> \/ o = <<"stop_worker", "add_writer">>
    BY <1>0, <1>2, OpsHead
  <2>2. PICK p : p = <<"join", o[2]>>
    OBVIOUS
  <2>3. DirectOK(p, none, w, r, t)
    BY <2>1, <2>2 DEF DirectOK
  <2> QED
    BY <2>1, <2>2, <2>3
<1>3. ASSUME o[1] = "start_writer"
      PROVE  /\ Len(o) = 1 /\ DirectOK(<<"add_writer">>, none, w, r, t)
             /\ r + w >= t => DirectOK(<<"stop_worker", "add_writer">>, none, w, r, t)
  <2>1. o = <<"start_writer">>
    BY <1>0, <1>3, OpsHead
  <2>2. PICK p : p = <<"add_writer">>
    OBVIOUS
  <2>3. DirectOK(p, none, w, r, t)
    BY <2>1, <2>2 DEF DirectOK
  <2>4. PICK q : q = <<"stop_worker", "add_writer">>
    OBVIOUS
  <2>5. r + w >= t => DirectOK(q, none, w, r, t)
    BY <2>1, <2>4 DEF DirectOK
  <2> QED
    BY <2>1, <2>2, <2>3, <2>4, <2>5
<1>4. ASSUME o[1] = "flush"
      PROVE  Len(o) = 1 /\ (~none => DirectOK(<<"collect">>, none, w, r, t))
  <2>1. o = <<"flush">>
    BY <1>0, <1>4, OpsHead
  <2>2. PICK p : p = <<"collect">>
    OBVIOUS
  <2>3. ~none => DirectOK(p, none, w, r, t)
    BY <2>1, <2>2 DEF DirectOK
  <2> QED
    BY <2>1, <2>2, <2>3
<1>5. ASSUME o[1] = "shrink", r > 1
      PROVE  /\ Len(o) = 2 /\ o[2] = "destroyed"
             /\ DirectOK(<<"join", "shrink", "destroyed">>, none, w, r, t)
  <2>1. o = <<"shrink", "grow", "stop_worker", "start_writer">> \/ o = <<"shrink", "destroyed">>
    BY <1>0, <1>5, OpsHead
  <2>2. o = <<"shrink", "destroyed">>
    BY <1>5, <2>1 DEF DirectOK
  <2>3. PICK p : p = <<"join", "shrink", "destroyed">>
    OBVIOUS
  <2>4. DirectOK(p, none, w, r, t)
    BY <2>2, <2>3 DEF DirectOK
  <2> QED
    BY <2>2, <2>3, <2>4
<1>6. ASSUME o[1] = "grow" PROVE \A n : DirectOK(o, none, w, n, t)
  <2>1. o = <<"grow", "stop_worker", "start_writer">>
    BY <1>0, <1>6, OpsHead
  <2> QED
    BY <2>1 DEF DirectOK
<1>7. ASSUME o[1] = "add_writer" PROVE w < MaxWriters
  <2>1. o = <<"add_writer">>
    BY <1>0, <1>7, OpsHead
  <2> QED
    BY <2>1 DEF DirectOK
<1>8. o[1] \notin {"flush_to", "write", "threads"}
  BY <1>0, OpsHead
<1> QED
  BY <1>1, <1>2, <1>3, <1>4, <1>5, <1>6, <1>7, <1>8

LEMMA DirectStarts ==
  ASSUME NEW none \in BOOLEAN, NEW w \in Nat, NEW r \in Nat, NEW t \in Nat \ {0},
         DirectOK(<<>>, none, w, r, t)
  PROVE  /\ w < MaxWriters =>
              DirectOK(<<"enqueue_task", "stop_worker", "start_writer">>, none, w, r, t)
         /\ DirectOK(<<"flush">>, none, w, r, t)
         /\ ~none => DirectOK(<<"finish_wait", "raise_stop", "shrink", "destroyed">>, none, w, r, t)
<1> USE DEF WriterOps, EndOps, StartOps, GrowOps, StopOps, AddOps, EnqueueOps, ResultsOps
<1>1. PICK o : o = <<>>
  OBVIOUS
<1>2. DirectOK(o, none, w, r, t)
  BY <1>1
<1>3. PICK p : p = <<"enqueue_task", "stop_worker", "start_writer">>
  OBVIOUS
<1>4. w < MaxWriters => DirectOK(p, none, w, r, t)
  BY <1>1, <1>2, <1>3 DEF DirectOK
<1>5. PICK q : q = <<"flush">>
  OBVIOUS
<1>6. DirectOK(q, none, w, r, t)
  BY <1>1, <1>2, <1>5 DEF DirectOK
<1>7. PICK s : s = <<"finish_wait", "raise_stop", "shrink", "destroyed">>
  OBVIOUS
<1>8. ~none => DirectOK(s, none, w, r, t)
  BY <1>7 DEF DirectOK
<1> QED
  BY <1>3, <1>4, <1>5, <1>6, <1>7, <1>8

LEMMA OpsOf ==
  ASSUME NEW t \in Seq(StepSet), NEW o, o = [i \in 1..Len(t) |-> t[i].op]
  PROVE  /\ o \in Seq(StepOps) /\ Len(o) = Len(t) /\ Len(t) \in Nat
         /\ \A i \in 1..Len(t) : o[i] = t[i].op
<1>1. Len(t) \in Nat /\ \A i \in 1..Len(t) : t[i] \in StepSet
  BY LenProperties
<1>2. o \in [1..Len(t) -> StepOps] /\ \A i \in 1..Len(t) : o[i] = t[i].op
  BY <1>1 DEF StepSet
<1> QED
  BY <1>1, <1>2, FunctionIsSeq

LEMMA OpsNext ==
  ASSUME todo' \in Seq(StepSet)
  PROVE  /\ Ops' \in Seq(StepOps) /\ Len(Ops') = Len(todo') /\ Len(todo') \in Nat
         /\ \A i \in 1..Len(todo') : Ops'[i] = todo'[i].op
<1>1. Ops' = [i \in 1..Len(todo') |-> todo'[i].op]
  BY DEF Ops, Op
<1> QED
  BY <1>1, OpsOf

LEMMA OpsReturned ==
  ASSUME todo \in Seq(StepSet), todo # <<>>, todo' = Tail(todo)
  PROVE  Ops' = Tail(Ops) /\ Len(Ops) > 0
<1> DEFINE n == Len(todo)
<1>1. /\ Ops \in Seq(StepOps) /\ Len(Ops) = n /\ n \in Nat
      /\ \A i \in 1..n : Ops[i] = todo[i].op
  BY OpsFacts DEF Op
<1>2. todo' \in Seq(StepSet) /\ Len(todo') = n - 1 /\ \A i \in 1..(n - 1) : todo'[i] = todo[i + 1]
  BY Returned
<1>3. Ops' \in Seq(StepOps) /\ Len(Ops') = n - 1 /\ \A i \in 1..(n - 1) : Ops'[i] = todo'[i].op
  BY <1>2, OpsNext
<1>4. n > 0
  BY TodoFacts
<1> HIDE DEF n
<1>5. Ops # <<>>
  BY <1>1, <1>4, EmptySeq
<1>6. Tail(Ops) \in Seq(StepOps) /\ Len(Tail(Ops)) = n - 1
      /\ \A i \in 1..(n - 1) : Tail(Ops)[i] = Ops[i + 1]
  BY <1>1, <1>5, TailOf
<1>7. ASSUME NEW i \in 1..(n - 1) PROVE Ops'[i] = Tail(Ops)[i]
  <2>1. i + 1 \in 1..n
    BY <1>1
  <2> QED
    BY <1>1, <1>2, <1>3, <1>6, <2>1
<1> QED
  BY <1>1, <1>3, <1>4, <1>6, <1>7, SeqEqual

LEMMA OpsReplaced ==
  ASSUME todo \in Seq(StepSet), todo # <<>>, NEW s \in StepSet,
         todo' = <<s>> \o Tail(todo)
  PROVE  /\ Len(Ops) \in Nat /\ Len(Ops) > 0
         /\ Ops' = [i \in 1..Len(Ops) |-> IF i = 1 THEN s.op ELSE Ops[i]]
<1> DEFINE n == Len(todo)
<1>1. /\ Ops \in Seq(StepOps) /\ Len(Ops) = n /\ n \in Nat
      /\ \A i \in 1..n : Ops[i] = todo[i].op
  BY OpsFacts DEF Op
<1>2. /\ todo' \in Seq(StepSet) /\ Len(todo') = n
      /\ todo'[1] = s /\ \A i \in 2..n : todo'[i] = todo[i]
  BY Replaced
<1>3. Ops' = [i \in 1..n |-> todo'[i].op]
  BY <1>2 DEF Ops, Op
<1>4. n > 0
  BY TodoFacts
<1> HIDE DEF n
<1>5. ASSUME NEW i \in 1..n PROVE todo'[i].op = IF i = 1 THEN s.op ELSE Ops[i]
  <2>1. i # 1 => i \in 2..n
    BY <1>1
  <2> QED
    BY <1>1, <1>2, <2>1
<1> QED
  BY <1>1, <1>3, <1>4, <1>5

LEMMA OpsPushed ==
  ASSUME todo \in Seq(StepSet), NEW s \in StepSet, todo' = <<s>> \o todo
  PROVE  /\ Len(Ops) \in Nat
         /\ Ops' = [i \in 1..(Len(Ops) + 1) |-> IF i = 1 THEN s.op ELSE Ops[i - 1]]
<1> DEFINE n == Len(todo)
<1>1. /\ Ops \in Seq(StepOps) /\ Len(Ops) = n /\ n \in Nat
      /\ \A i \in 1..n : Ops[i] = todo[i].op
  BY OpsFacts DEF Op
<1>2. /\ todo' \in Seq(StepSet) /\ Len(todo') = n + 1
      /\ todo'[1] = s /\ \A i \in 1..n : todo'[i + 1] = todo[i]
  BY Pushed
<1>3. Ops' = [i \in 1..(n + 1) |-> todo'[i].op]
  BY <1>2 DEF Ops, Op
<1> HIDE DEF n
<1>4. ASSUME NEW i \in 1..(n + 1) PROVE todo'[i].op = IF i = 1 THEN s.op ELSE Ops[i - 1]
  <2>1. CASE i = 1
    BY <1>2, <2>1
  <2>2. CASE i # 1
    <3>1. i - 1 \in 1..n /\ (i - 1) + 1 = i
      BY <1>1, <2>2
    <3> QED
      BY <1>1, <1>2, <2>2, <3>1
  <2> QED
    BY <2>1, <2>2
<1> QED
  BY <1>1, <1>3, <1>4

(* enqueue_task is only ever the first step.                               *)
LEMMA OpsRest ==
  ASSUME NEW o, o \in WriterOps \cup EndOps \cup {<<>>, <<"flush">>, <<"collect">>}, Len(o) > 0
  PROVE  Len(Tail(o)) > 0 => Tail(o)[1] # "enqueue_task"
BY DEF WriterOps, EndOps, StartOps, GrowOps, StopOps, AddOps, EnqueueOps, ResultsOps

LEMMA DirectReturn ==
  ASSUME TodoInv, DirectInv, todo # <<>>, todo' = Tail(todo),
         UNCHANGED <<direct, threads>>,
         direct => DirectOK(Tail(Ops), chunks' = <<>>, Len(writer_pc)', Len(running)', threads)
  PROVE  DirectInv'
<1> SUFFICES ASSUME direct PROVE DirectInv'
  BY DEF DirectInv
<1>1. todo \in Seq(StepSet)
  BY DEF TodoInv, StepSet
<1>2. Ops' = Tail(Ops) /\ Len(Ops) > 0
  BY <1>1, OpsReturned
<1>3. Len(Tail(Ops)) > 0 => Tail(Ops)[1] # "enqueue_task"
  <2>1. Ops \in WriterOps \cup EndOps \cup {<<>>, <<"flush">>, <<"collect">>}
    BY DEF DirectInv, DirectOK
  <2> HIDE DEF WriterOps, EndOps, Ops
  <2> QED
    BY <1>2, <2>1, OpsRest
<1>4. todo' \in Seq(StepSet) /\ Len(todo') = Len(todo) - 1
      /\ \A i \in 1..(Len(todo) - 1) : todo'[i] = todo[i + 1]
  BY <1>1, Returned
<1>5. Len(todo) \in Nat
  BY <1>1, TodoFacts
<1>6. ~At("enqueue_task")'
  <2>1. At("enqueue_task")' => Len(todo') > 0 /\ Op(1)' = "enqueue_task"
    BY <1>4, AtFactsNext
  <2>2. Len(Ops') = Len(todo') /\ \A i \in 1..Len(todo') : Ops'[i] = todo'[i].op
    BY <1>4, OpsNext
  <2>3. Len(todo') > 0 => Ops'[1] = Op(1)'
    <3>1. Len(todo') > 0 => 1 \in 1..Len(todo')
      BY <1>4, <1>5
    <3> QED
      BY <2>2, <3>1 DEF Op
  <2> QED
    BY <1>2, <1>3, <2>1, <2>2, <2>3
<1>7. ASSUME NEW i \in 1..Len(todo'), todo'[i].op = "grow" PROVE todo'[i].n = threads'
  <2>1. i + 1 \in 1..Len(todo) /\ i \in 1..(Len(todo) - 1)
    BY <1>4, <1>5
  <2> QED
    BY <1>4, <1>7, <2>1 DEF DirectInv, Op
<1> QED
  BY <1>2, <1>6, <1>7 DEF DirectInv, Op

LEMMA DirectReplace ==
  ASSUME TodoInv, DirectInv, todo # <<>>, NEW s \in StepSet, s.op \notin {"grow", "enqueue_task"},
         todo' = <<s>> \o Tail(todo), UNCHANGED <<direct, threads>>,
         direct => DirectOK(Ops', chunks' = <<>>, Len(writer_pc)', Len(running)', threads)
  PROVE  DirectInv'
<1> SUFFICES ASSUME direct PROVE DirectInv'
  BY DEF DirectInv
<1>1. todo \in Seq(StepSet)
  BY DEF TodoInv, StepSet
<1>2. /\ todo' \in Seq(StepSet) /\ Len(todo') = Len(todo)
      /\ todo'[1] = s /\ \A i \in 2..Len(todo) : todo'[i] = todo[i]
  BY <1>1, Replaced
<1>3. Len(todo) \in Nat
  BY <1>1, TodoFacts
<1>4. ~At("enqueue_task")'
  <2>1. At("enqueue_task")' => Op(1)' = "enqueue_task"
    BY <1>2, AtFactsNext
  <2> QED
    BY <1>2, <2>1 DEF Op
<1>5. ASSUME NEW i \in 1..Len(todo'), todo'[i].op = "grow" PROVE todo'[i].n = threads'
  <2>1. i # 1 /\ i \in 1..Len(todo)
    BY <1>2, <1>5
  <2>2. i \in 2..Len(todo)
    BY <1>3, <2>1
  <2> QED
    BY <1>2, <1>5, <2>1, <2>2 DEF DirectInv, Op
<1> QED
  BY <1>4, <1>5 DEF DirectInv, Op

LEMMA DirectPush ==
  ASSUME TodoInv, DirectInv, NEW s \in StepSet, s.op \notin {"grow", "enqueue_task"},
         todo' = <<s>> \o todo, UNCHANGED <<direct, threads>>,
         direct => DirectOK(Ops', chunks' = <<>>, Len(writer_pc)', Len(running)', threads)
  PROVE  DirectInv'
<1> SUFFICES ASSUME direct PROVE DirectInv'
  BY DEF DirectInv
<1>1. todo \in Seq(StepSet)
  BY DEF TodoInv, StepSet
<1>2. /\ todo' \in Seq(StepSet) /\ Len(todo') = Len(todo) + 1
      /\ todo'[1] = s /\ \A i \in 1..Len(todo) : todo'[i + 1] = todo[i]
  BY <1>1, Pushed
<1>3. Len(todo) \in Nat
  BY <1>1, TodoFacts
<1>4. ~At("enqueue_task")'
  <2>1. At("enqueue_task")' => Op(1)' = "enqueue_task"
    BY <1>2, AtFactsNext
  <2> QED
    BY <1>2, <2>1 DEF Op
<1>5. ASSUME NEW i \in 1..Len(todo'), todo'[i].op = "grow" PROVE todo'[i].n = threads'
  <2>1. i # 1 /\ i \in 1..(Len(todo) + 1)
    BY <1>2, <1>5
  <2>2. i - 1 \in 1..Len(todo) /\ (i - 1) + 1 = i
    BY <1>3, <2>1
  <2>3. todo'[i] = todo[i - 1]
    BY <1>2, <2>2
  <2> QED
    BY <1>5, <2>2, <2>3 DEF DirectInv, Op
<1> QED
  BY <1>4, <1>5 DEF DirectInv, Op

LEMMA DirectStay ==
  ASSUME DirectInv, todo' = todo, UNCHANGED <<direct, threads>>,
         direct => DirectOK(Ops, chunks' = <<>>, Len(writer_pc)', Len(running)', threads)
  PROVE  DirectInv'
<1>1. Ops' = Ops /\ (At("enqueue_task")' <=> At("enqueue_task")) /\ Arg' = Arg
  BY DEF Ops, Op, At, Arg
<1>2. \A i : Op(i)' = Op(i)
  BY DEF Op
<1> QED
  BY <1>1, <1>2 DEF DirectInv

(* A list of steps with as many names.                                     *)
LEMMA CalledOps ==
  ASSUME todo' \in Seq(Callable), \A i \in 1..Len(todo') : todo'[i].op # "grow",
         Len(todo') > 0, todo'[1].op = "enqueue_task" => todo'[1].n > 0,
         UNCHANGED <<direct, threads>>,
         DirectOK(Ops', chunks' = <<>>, Len(writer_pc)', Len(running)', threads)
  PROVE  DirectInv'
<1>1. todo' \in Seq(StepSet)
  <2>1. Callable \subseteq StepSet
    BY DEF Callable
  <2> QED
    BY <2>1, SeqGrows
<1>2. todo' # <<>> /\ Head(todo') = todo'[1]
  BY <1>1, EmptySeq
<1>3. At("enqueue_task")' => Arg' > 0
  BY <1>2 DEF At, Arg
<1> QED
  BY <1>3 DEF DirectInv, Op

LEMMA FourOps ==
  ASSUME NEW f, NEW n, n = 4, f = [i \in 1..n |-> f[i]]
  PROVE  f = <<f[1], f[2], f[3], f[4]>>
OBVIOUS

LEMMA NoOps ==
  ASSUME todo = <<>>
  PROVE  Ops = <<>>
<1>1. todo \in Seq(StepSet)
  OBVIOUS
<1> QED
  BY <1>1, OpsFacts

LEMMA DirectCall ==
  ASSUME AreaTypes, ThreadTypes, WriterTypes, DirectInv, DirectCalls,
         UNCHANGED <<modifierVars, continues, writerVars>>
  PROVE  todo' \in Seq(Callable) /\ StreamInv' /\ DirectInv'
<1>1. direct /\ todo = <<>> /\ UNCHANGED <<direct, threads, chunks, writer_pc, running>>
  BY DEF DirectCalls, EnqueueAndContinue, Flush, DestroyModifier, Call, modifierVars,
         writerVars, threadVars, queueVars
<1>2. StreamInv'
  BY <1>1 DEF StreamInv
<1> DEFINE none == chunks = <<>>
           w == Len(writer_pc)
           r == Len(running)
<1>3. threads \in Nat \ {0} /\ r \in Nat /\ w \in Nat /\ none \in BOOLEAN
  BY ThreadFacts, WriterFacts
<1>4. DirectOK(<<>>, none, w, r, threads)
  BY <1>1, NoOps DEF DirectInv
<1>5. none' = none /\ w' = w /\ r' = r
  BY <1>1
<1> HIDE DEF none, w, r
<1>6. /\ w < MaxWriters =>
           DirectOK(<<"enqueue_task", "stop_worker", "start_writer">>, none, w, r, threads)
      /\ DirectOK(<<"flush">>, none, w, r, threads)
      /\ ~none => DirectOK(<<"finish_wait", "raise_stop", "shrink", "destroyed">>,
                           none, w, r, threads)
  BY <1>3, <1>4, DirectStarts
<1>7. /\ ContinueSteps \in Seq(Callable) /\ Len(ContinueSteps) = 2
      /\ ContinueSteps[1].op = "stop_worker" /\ ContinueSteps[2].op = "start_writer"
      /\ FinishUp \in Seq(Callable) /\ Len(FinishUp) = 3
      /\ FinishUp[1].op = "finish_wait" /\ FinishUp[2].op = "raise_stop"
      /\ FinishUp[3].op = "shrink"
  BY DirectLists
<1>a. Callable \subseteq StepSet
  BY DEF Callable
<1>8. CASE \E n \in WriteSizes : EnqueueAndContinue(n)
  <2>1. PICK n \in WriteSizes : EnqueueAndContinue(n)
    BY <1>8
  <2>2. n \in Nat /\ n > 0 /\ n <= MaxBytes
    <3>1. n \in Nat \ {0} /\ total \in Nat /\ MaxBytes \in Nat
      BY Constants DEF AreaTypes
    <3>2. total + n <= MaxBytes
      BY <2>1 DEF EnqueueAndContinue
    <3> QED
      BY <3>1, <3>2
  <2> DEFINE s == StepWith("enqueue_task", n)
  <2>3. s \in Callable /\ s.op = "enqueue_task" /\ s.n = n
    <3>1. "enqueue_task" \in StepOps \ InFront
      BY DEF StepOps, InFront
    <3> QED
      BY <2>2, <3>1, CallableStep
  <2>4. todo' = <<s>> \o ContinueSteps
    BY <2>1 DEF EnqueueAndContinue, Call
  <2> HIDE DEF s
  <2>5. /\ todo' \in Seq(Callable) /\ Len(todo') = 3 /\ todo'[1] = s
        /\ todo'[2] = ContinueSteps[1] /\ todo'[3] = ContinueSteps[2]
    <3>1. /\ todo' \in Seq(Callable) /\ Len(todo') = Len(ContinueSteps) + 1
          /\ todo'[1] = s
          /\ \A i \in 1..Len(ContinueSteps) : todo'[i + 1] = ContinueSteps[i]
      BY <1>7, <2>3, <2>4, Prepend
    <3>2. 1 \in 1..Len(ContinueSteps) /\ 2 \in 1..Len(ContinueSteps) /\ 1 + 1 = 2 /\ 2 + 1 = 3
      BY <1>7
    <3> QED
      BY <1>7, <3>1, <3>2
  <2>6. Ops' = <<"enqueue_task", "stop_worker", "start_writer">>
    <3>1. Ops' = [i \in 1..3 |-> Ops'[i]]
      BY <2>5 DEF Ops
    <3>2. Ops' = <<Ops'[1], Ops'[2], Ops'[3]>>
      BY <3>1, ThreeOps
    <3>3. Ops'[1] = "enqueue_task" /\ Ops'[2] = "stop_worker" /\ Ops'[3] = "start_writer"
      BY <1>7, <2>3, <2>5 DEF Ops, Op
    <3> QED
      BY <3>2, <3>3
  <2>7. \A i \in 1..Len(todo') : todo'[i].op # "grow"
    BY <1>7, <2>3, <2>5
  <2>8. w < MaxWriters
    BY <2>1 DEF EnqueueAndContinue, w
  <2>9. DirectOK(Ops', none', w', r', threads)
    BY <1>5, <1>6, <2>6, <2>8
  <2>10. Len(todo') > 0 /\ (todo'[1].op = "enqueue_task" => todo'[1].n > 0)
    BY <2>2, <2>3, <2>5
  <2>11. DirectInv'
    BY <1>1, <2>5, <2>7, <2>9, <2>10, CalledOps DEF none, w, r
  <2> QED
    BY <1>2, <2>5, <2>11
<1>9. CASE Flush
  <2>1. todo' = <<Step("flush")>>
    BY <1>9 DEF Flush, Call
  <2>2. Step("flush") \in Callable /\ Step("flush").op = "flush"
    BY StepIs
  <2>3. todo' \in Seq(Callable) /\ Len(todo') = 1 /\ todo'[1].op = "flush"
    BY <2>1, <2>2
  <2>4. Ops' = <<"flush">>
    <3>1. Ops' = [i \in 1..1 |-> Ops'[i]]
      BY <2>3 DEF Ops
    <3>2. Ops' = <<Ops'[1]>>
      BY <3>1, OneOp
    <3>3. Ops'[1] = "flush"
      BY <2>3 DEF Ops, Op
    <3> QED
      BY <3>2, <3>3
  <2>5. DirectOK(Ops', none', w', r', threads)
    BY <1>5, <1>6, <2>4
  <2>6. DirectInv'
    BY <1>1, <2>3, <2>5, CalledOps DEF none, w, r
  <2> QED
    BY <1>2, <2>3, <2>6
<1>10. CASE DestroyModifier
  <2> DEFINE e == Step("destroyed")
  <2>1. todo' = FinishUp \o <<e>>
    BY <1>10 DEF DestroyModifier, Call
  <2>2. e \in Callable /\ e.op = "destroyed"
    BY StepIs
  <2> HIDE DEF e
  <2>3. /\ todo' \in Seq(Callable) /\ Len(todo') = 4 /\ todo'[1] = FinishUp[1]
        /\ todo'[2] = FinishUp[2] /\ todo'[3] = FinishUp[3] /\ todo'[4] = e
    <3>1. /\ todo' \in Seq(Callable) /\ Len(todo') = Len(FinishUp) + 1
          /\ \A i \in 1..Len(FinishUp) : todo'[i] = FinishUp[i]
          /\ todo'[Len(FinishUp) + 1] = e
      <4>1. PICK f : f = FinishUp
        OBVIOUS
      <4>2. f \in Seq(Callable) /\ todo' = f \o <<e>>
        BY <1>7, <2>1, <4>1
      <4>3. /\ f \o <<e>> \in Seq(Callable) /\ Len(f \o <<e>>) = Len(f) + 1
            /\ \A i \in 1..Len(f) : (f \o <<e>>)[i] = f[i]
            /\ (f \o <<e>>)[Len(f) + 1] = e
        BY <2>2, <4>2, Ended
      <4> QED
        BY <4>1, <4>2, <4>3
    <3> QED
      BY <1>7, <3>1
  <2>4. Ops' = <<"finish_wait", "raise_stop", "shrink", "destroyed">>
    <3>1. Ops' = [i \in 1..4 |-> Ops'[i]]
      BY <2>3 DEF Ops
    <3>2. Ops' = <<Ops'[1], Ops'[2], Ops'[3], Ops'[4]>>
      BY <3>1, FourOps
    <3>3. /\ Ops'[1] = "finish_wait" /\ Ops'[2] = "raise_stop" /\ Ops'[3] = "shrink"
          /\ Ops'[4] = "destroyed"
      BY <1>7, <2>2, <2>3 DEF Ops, Op
    <3> QED
      BY <3>2, <3>3
  <2>5. \A i \in 1..Len(todo') : todo'[i].op # "grow"
    BY <1>7, <2>2, <2>3
  <2>6. ~none
    BY <1>10 DEF DestroyModifier, none
  <2>7. DirectOK(Ops', none', w', r', threads)
    BY <1>5, <1>6, <2>4, <2>6
  <2>8. Len(todo') > 0 /\ (todo'[1].op = "enqueue_task" => todo'[1].n > 0)
    BY <1>7, <2>3
  <2>9. DirectInv'
    BY <1>1, <2>3, <2>5, <2>7, <2>8, CalledOps DEF none, w, r
  <2> QED
    BY <1>2, <2>3, <2>9
<1> QED
  BY <1>8, <1>9, <1>10 DEF DirectCalls
-----------------------------------------------------------------------------
(* Each step keeps the invariants about what is still to do.               *)

CallInv == TodoInv /\ StreamInv /\ DirectInv
CallInvNext == TodoInv' /\ StreamInv' /\ DirectInv'

(* The steps of the caller, by what comes first.                           *)
LEMMA FrontStep ==
  ASSUME CallInv, NEW op, At(op)
  PROVE  /\ todo \in Seq(StepSet) /\ todo # <<>> /\ Len(todo) \in Nat /\ Len(todo) > 0
         /\ Op(1) = op /\ Arg = todo[1].n /\ Arg \in Nat /\ StepOK(todo[1])
         /\ Len(Ops) = Len(todo) /\ Ops[1] = op
         /\ ~direct => op \in StreamOps
         /\ direct => op \notin {"flush_to", "write", "threads"}
<1>1. todo \in Seq(StepSet)
  BY DEF CallInv, TodoInv, StepSet
<1>2. Len(todo) > 0 /\ Op(1) = op /\ Arg = todo[1].n /\ todo # <<>> /\ todo[1] \in StepSet
  BY <1>1, AtFacts
<1>3. Len(todo) \in Nat /\ 1 \in 1..Len(todo)
  BY <1>1, <1>2, TodoFacts
<1>4. Len(Ops) = Len(todo) /\ Ops[1] = op
  BY <1>1, <1>2, <1>3, OpsFacts
<1>5. direct => op \notin {"flush_to", "write", "threads"}
  <2>1. direct => Ops \in WriterOps \cup EndOps \cup {<<>>, <<"flush">>, <<"collect">>}
    BY DEF CallInv, DirectInv, DirectOK
  <2> HIDE DEF Ops, WriterOps, EndOps
  <2> QED
    BY <1>2, <1>4, <2>1, OpsHead
<1>6. ~direct => op \in StreamOps
  BY <1>2, <1>3 DEF CallInv, StreamInv
<1>7. StepOK(todo[1])
  BY <1>3 DEF CallInv, TodoInv
<1> QED
  BY <1>1, <1>2, <1>3, <1>4, <1>5, <1>6, <1>7 DEF StepSet

(* What DirectReturns and DirectReplaces say of the current state.         *)
LEMMA DirectFacts ==
  ASSUME CallInv, ThreadTypes, WriterTypes, direct
  PROVE  /\ DirectOK(Ops, chunks = <<>>, Len(writer_pc), Len(running), threads)
         /\ (chunks = <<>>) \in BOOLEAN /\ Len(writer_pc) \in Nat /\ Len(running) \in Nat
         /\ threads \in Nat \ {0}
  BY ThreadFacts, WriterFacts DEF CallInv, DirectInv

(* A step that only ends.                                                  *)
LEMMA Ends ==
  ASSUME CallInv, ThreadTypes, WriterTypes, NEW op, At(op), Return,
         op \in {"enqueue_task", "finish_wait", "raise_stop", "results", "flush",
                 "stop_worker", "shrink", "grow"},
         op = "shrink" => Len(running) <= Arg,
         op = "grow" => Len(running) >= Arg,
         op = "enqueue_task" => Arg = 0,
         op = "flush" => chunks = <<>>,
         UNCHANGED <<fill, total, direct, threads, chunks>>,
         Len(writer_pc') = Len(writer_pc), Len(running') = Len(running)
  PROVE  CallInvNext
<1>1. /\ todo \in Seq(StepSet) /\ todo # <<>> /\ Len(todo) > 0
      /\ Op(1) = op /\ Arg = todo[1].n /\ Arg \in Nat
      /\ Len(Ops) = Len(todo) /\ Ops[1] = op
  BY FrontStep
<1>2. Len(running) \in Nat
  BY ThreadFacts
<1>3. TodoInv' /\ StreamInv'
  <2>1. todo' = Tail(todo)
    BY DEF Return
  <2>2. op # "write" /\ op # "flush_to"
    OBVIOUS
  <2> QED
    BY <1>1, <1>2, <2>1, <2>2, ReturnKeeps DEF CallInv
<1>4. ASSUME direct
      PROVE  DirectOK(Tail(Ops), chunks' = <<>>, Len(writer_pc'), Len(running'), threads)
  <2> DEFINE none == chunks = <<>>
             w == Len(writer_pc)
             r == Len(running)
  <2>1. DirectOK(Ops, none, w, r, threads)
        /\ none \in BOOLEAN /\ w \in Nat /\ r \in Nat /\ threads \in Nat \ {0}
    BY <1>4, DirectFacts
  <2>2. op = "grow" => r >= threads
    <3>1. op = "grow" => 1 \in 1..Len(todo)
      <4>1. Len(todo) \in Nat
        BY <1>1, TodoFacts
      <4> QED
        BY <1>1, <4>1
    <3>2. op = "grow" => Arg = threads
      BY <1>1, <1>4, <3>1 DEF CallInv, DirectInv
    <3> QED
      BY <3>2
  <2>3. op # "enqueue_task"
    <3>1. op = "enqueue_task" => Arg > 0
      BY <1>4 DEF CallInv, DirectInv
    <3> QED
      BY <3>1
  <2>4. (chunks' = <<>>) = none /\ Len(writer_pc') = w /\ Len(running') = r
    OBVIOUS
  <2> HIDE DEF none, w, r
  <2>5. DirectOK(Tail(Ops), none, w, r, threads)
    BY <1>1, <2>1, <2>2, <2>3, DirectReturns
  <2> QED
    BY <2>4, <2>5
<1>5. DirectInv'
  BY <1>1, <1>4, DirectReturn DEF CallInv, Return
<1> QED
  BY <1>3, <1>5 DEF CallInvNext

LEMMA StartWriterCall ==
  ASSUME CallInv, ThreadTypes, WriterTypes, StartWriter,
         UNCHANGED <<areaVars, modifierVars, writerVars>>
  PROVE  /\ CallInvNext /\ todo' \in Seq(Callable)
         /\ \A i \in 1..Len(todo') : todo'[i].op # "enqueue_task"
         /\ \A i \in 1..Len(todo) : todo[i].op # "enqueue_task"
<1>1. At("start_writer")
  BY DEF StartWriter
<1>2. /\ todo \in Seq(StepSet) /\ todo # <<>> /\ Len(todo) \in Nat /\ Len(todo) > 0
      /\ Op(1) = "start_writer" /\ Len(Ops) = Len(todo) /\ Ops[1] = "start_writer"
  BY <1>1, FrontStep
<1>3. direct
  BY <1>1, FrontStep DEF StreamOps
<1>4. UNCHANGED <<fill, total, direct, threads, chunks, writer_pc, running>>
  BY DEF areaVars, modifierVars, writerVars, threadVars, queueVars
<1> DEFINE none == chunks = <<>>
           w == Len(writer_pc)
           r == Len(running)
           t == threads
<1>5. DirectOK(Ops, none, w, r, t)
      /\ none \in BOOLEAN /\ w \in Nat /\ r \in Nat /\ t \in Nat \ {0}
  BY <1>3, DirectFacts
<1>6. none' = none /\ w' = w /\ r' = r /\ t' = t
  BY <1>4
<1> HIDE DEF none, w, r, t
<1>7. /\ Len(Ops) = 1 /\ DirectOK(<<"add_writer">>, none, w, r, t)
      /\ r + w >= t => DirectOK(<<"stop_worker", "add_writer">>, none, w, r, t)
  BY <1>2, <1>5, DirectReplaces
<1>a. PICK addW : addW = Step("add_writer")
  OBVIOUS
<1>b. PICK stopW : stopW = Step("stop_worker")
  OBVIOUS
<1>8. addW \in Callable /\ addW.op = "add_writer" /\ stopW \in Callable /\ stopW.op = "stop_worker"
  BY <1>a, <1>b, StepIs
<1>9. Tail(todo) = <<>>
  <2>1. Tail(todo) \in Seq(StepSet) /\ Len(Tail(todo)) = 0
    <3>1. Tail(todo) \in Seq(StepSet) /\ Len(Tail(todo)) = Len(todo) - 1
      BY <1>2, TailOf
    <3>2. Len(todo) = 1
      BY <1>2, <1>7
    <3> QED
      BY <3>1, <3>2
  <2> QED
    BY <2>1, EmptySeq
<1>10. fill' <= total' /\ fill <= total
  BY <1>4 DEF CallInv, TodoInv
<1>11. ASSUME r + w >= t
       PROVE  /\ CallInvNext /\ todo' \in Seq(Callable)
              /\ \A i \in 1..Len(todo') : todo'[i].op # "enqueue_task"
  <2>1. todo' = (<<stopW>> \o <<addW>>) \o <<>>
    BY <1>9, <1>11, <1>a, <1>b DEF StartWriter, r, w, t
  <2>2. <<stopW>> \in Seq(Callable) /\ Len(<<stopW>>) = 1 /\ <<stopW>>[1] = stopW
    BY <1>8
  <2>3. PICK p : p = <<stopW>>
    OBVIOUS
  <2>4. PICK u : u = p \o <<addW>>
    OBVIOUS
  <2>5. u \in Seq(Callable) /\ Len(u) = 2 /\ u[1] = stopW /\ u[2] = addW
    <3>1. p \in Seq(Callable) /\ Len(p) = 1 /\ p[1] = stopW
      BY <2>2, <2>3
    <3>2. /\ u \in Seq(Callable) /\ Len(u) = Len(p) + 1
          /\ \A i \in 1..Len(p) : u[i] = p[i]
          /\ u[Len(p) + 1] = addW
      <4>1. PICK S : S = Callable
        OBVIOUS
      <4>2. p \in Seq(S) /\ addW \in S
        BY <1>8, <3>1, <4>1
      <4>3. /\ p \o <<addW>> \in Seq(S) /\ Len(p \o <<addW>>) = Len(p) + 1
            /\ \A i \in 1..Len(p) : (p \o <<addW>>)[i] = p[i]
            /\ (p \o <<addW>>)[Len(p) + 1] = addW
        BY <4>2, Ended
      <4> QED
        BY <2>4, <4>1, <4>3
    <3> QED
      BY <3>1, <3>2
  <2>6. todo' = u
    BY <2>1, <2>3, <2>4, <2>5
  <2>7. Ops' = <<"stop_worker", "add_writer">>
    <3>1. Ops' = [i \in 1..2 |-> Ops'[i]]
      BY <2>5, <2>6 DEF Ops
    <3>2. Ops' = <<Ops'[1], Ops'[2]>>
      BY <3>1, TwoOps
    <3>3. Ops'[1] = "stop_worker" /\ Ops'[2] = "add_writer"
      <4>1. todo' \in Seq(StepSet) /\ Len(todo') = 2
        BY <2>5, <2>6, SeqGrows DEF Callable
      <4>2. \A i \in 1..2 : Ops'[i] = todo'[i].op
        BY <4>1, OpsNext
      <4>3. todo'[1] = stopW /\ todo'[2] = addW
        BY <2>5, <2>6
      <4>4. Ops'[1] = todo'[1].op /\ Ops'[2] = todo'[2].op
        BY <4>2
      <4> QED
        BY <1>8, <4>3, <4>4
    <3> QED
      BY <3>2, <3>3
  <2>8. \A i \in 1..Len(todo') : todo'[i].op # "grow"
    <3>1. \A i \in 1..Len(u) : i = 1 \/ i = 2
      BY <2>5
    <3>2. "stop_worker" # "grow" /\ "add_writer" # "grow"
      OBVIOUS
    <3> QED
      BY <1>8, <2>5, <2>6, <3>1, <3>2
  <2>a. \A i \in 1..Len(todo') : todo'[i].op # "enqueue_task"
    <3>1. \A i \in 1..Len(u) : i = 1 \/ i = 2
      BY <2>5
    <3>2. "stop_worker" # "enqueue_task" /\ "add_writer" # "enqueue_task"
      OBVIOUS
    <3> QED
      BY <1>8, <2>5, <2>6, <3>1, <3>2
  <2>9. DirectOK(Ops', none', w', r', threads)
    BY <1>6, <1>7, <1>11, <2>7 DEF t
  <2>10. todo' \in Seq(Callable) /\ Len(todo') > 0 /\ todo'[1].op # "enqueue_task"
    <3>1. u[1].op = "stop_worker" /\ "stop_worker" # "enqueue_task"
      BY <1>8, <2>5
    <3> QED
      BY <2>5, <2>6, <3>1
  <2>11. DirectInv'
    BY <1>4, <2>8, <2>9, <2>10, CalledOps DEF none, w, r
  <2>12. TodoInv'
    BY <1>10, <2>10, CallableTodo
  <2> QED
    BY <1>3, <1>4, <2>10, <2>11, <2>12, <2>a DEF CallInvNext, StreamInv
<1>12. ASSUME ~(r + w >= t)
       PROVE  /\ CallInvNext /\ todo' \in Seq(Callable)
              /\ \A i \in 1..Len(todo') : todo'[i].op # "enqueue_task"
  <2>1. todo' = (<<>> \o <<addW>>) \o <<>>
    BY <1>9, <1>12, <1>a DEF StartWriter, r, w, t
  <2>2. todo' \in Seq(Callable) /\ Len(todo') = 1 /\ todo'[1] = addW
    <3>1. <<addW>> \in Seq(Callable) /\ Len(<<addW>>) = 1 /\ <<addW>>[1] = addW
      BY <1>8
    <3>2. PICK p : p = <<addW>>
      OBVIOUS
    <3>3. p \in Seq(Callable) /\ Len(p) = 1 /\ p[1] = addW
      BY <3>1, <3>2
    <3>4. todo' = p
      BY <2>1, <3>2, <3>3
    <3> QED
      BY <3>3, <3>4
  <2>3. Ops' = <<"add_writer">>
    <3>1. Ops' = [i \in 1..1 |-> Ops'[i]]
      BY <2>2 DEF Ops
    <3>2. Ops' = <<Ops'[1]>>
      BY <3>1, OneOp
    <3>3. Ops'[1] = "add_writer"
      BY <1>8, <2>2 DEF Ops, Op
    <3> QED
      BY <3>2, <3>3
  <2>4. \A i \in 1..Len(todo') : todo'[i].op # "grow"
    BY <1>8, <2>2
  <2>a. \A i \in 1..Len(todo') : todo'[i].op # "enqueue_task"
    BY <1>8, <2>2
  <2>5. DirectOK(Ops', none', w', r', threads)
    BY <1>6, <1>7, <2>3 DEF t
  <2>6. todo' \in Seq(Callable) /\ Len(todo') > 0 /\ todo'[1].op # "enqueue_task"
    BY <1>8, <2>2
  <2>7. DirectInv'
    BY <1>4, <2>4, <2>5, <2>6, CalledOps DEF none, w, r
  <2>8. TodoInv'
    BY <1>10, <2>6, CallableTodo
  <2> QED
    BY <1>3, <1>4, <2>6, <2>7, <2>8, <2>a DEF CallInvNext, StreamInv
<1>13. \A i \in 1..Len(todo) : todo[i].op # "enqueue_task"
  BY <1>2, <1>7 DEF Op
<1> QED
  BY <1>11, <1>12, <1>13

LEMMA QuietCall ==
  ASSUME CallInv, ThreadTypes, WriterTypes, QuietStep,
         UNCHANGED <<areaVars, modifierVars, writerVars>>
  PROVE  CallInvNext
<1>1. UNCHANGED <<fill, total, direct, threads, chunks, writer_pc, running>>
  BY DEF areaVars, modifierVars, writerVars, threadVars, queueVars
<1>2. Len(running') = Len(running)
  BY <1>1
<1>3. CASE EnqueueNothing
  <2>1. At("enqueue_task") /\ Arg = 0 /\ Return
    BY <1>3 DEF EnqueueNothing
  <2> QED
    BY <1>1, <1>2, <2>1, Ends
<1>4. CASE FinishWait
  <2>1. At("finish_wait") /\ Return
    BY <1>4 DEF FinishWait
  <2> QED
    BY <1>1, <1>2, <2>1, Ends
<1>5. CASE LoopEnds
  <2>1. CASE At("shrink") /\ Len(running) <= Arg
    <3>1. Return
      BY <1>5 DEF LoopEnds
    <3> QED
      BY <1>1, <1>2, <2>1, <3>1, Ends
  <2>2. CASE At("grow") /\ Len(running) >= Arg
    <3>1. Return
      BY <1>5 DEF LoopEnds
    <3> QED
      BY <1>1, <1>2, <2>2, <3>1, Ends
  <2> QED
    BY <1>5, <2>1, <2>2 DEF LoopEnds
<1>6. CASE KeepWorker
  <2>1. At("stop_worker") /\ Return
    BY <1>6 DEF KeepWorker
  <2> QED
    BY <1>1, <1>2, <2>1, Ends
<1>7. CASE StartWriter
  BY <1>7, StartWriterCall
<1> QED
  BY <1>3, <1>4, <1>5, <1>6, <1>7 DEF QuietStep

LEMMA JoinStep == Step("join") \in StepSet /\ Step("join").op = "join"
  BY DEF Step, StepSet, StepOps

LEMMA StopCall ==
  ASSUME CallInv, ThreadTypes, WriterTypes, StopWorker,
         UNCHANGED <<areaVars, queueVars, writerVars>>
  PROVE  CallInvNext
<1>1. UNCHANGED <<fill, total, direct, threads, chunks, writer_pc>>
  BY DEF StopWorker, areaVars, queueVars, writerVars
<1>2. Len(running') = Len(running) /\ Len(running) > 1
  BY StopTypes
<1> DEFINE none == chunks = <<>>
           w == Len(writer_pc)
           r == Len(running)
           t == threads
<1>3. direct => DirectOK(Ops, none, w, r, t)
                /\ none \in BOOLEAN /\ w \in Nat /\ r \in Nat /\ t \in Nat \ {0}
  BY DirectFacts
<1>4. (chunks' = <<>>) = none /\ Len(writer_pc') = w /\ Len(running') = r /\ threads' = t
      /\ threads = t /\ r > 1
  BY <1>1, <1>2
<1> HIDE DEF none, w, r, t
<1>5. PICK s : s = Step("join")
  OBVIOUS
<1>6. s \in StepSet /\ s.op = "join"
  BY <1>5, JoinStep
<1>7. CASE At("shrink")
  <2>1. todo' = <<s>> \o todo
    BY <1>5, <1>7 DEF StopWorker
  <2>2. /\ todo \in Seq(StepSet) /\ todo # <<>> /\ Len(Ops) > 0 /\ Ops[1] = "shrink"
    BY <1>7, FrontStep
  <2>3. TodoInv' /\ StreamInv'
    BY <1>1, <1>2, <1>6, <1>7, <2>1, PushKeeps DEF CallInv
  <2>4. ASSUME direct PROVE DirectOK(Ops', none, w, r, t)
    <3>1. Len(Ops) = 2 /\ Ops[2] = "destroyed"
          /\ DirectOK(<<"join", "shrink", "destroyed">>, none, w, r, t)
      BY <1>3, <1>4, <2>2, <2>4, DirectReplaces
    <3>2. Ops' = [i \in 1..(Len(Ops) + 1) |-> IF i = 1 THEN s.op ELSE Ops[i - 1]]
      BY <1>6, <2>1, <2>2, OpsPushed
    <3> DEFINE o == Ops
               n == Len(o) + 1
    <3>3. n = 3 /\ o[1] = "shrink" /\ o[2] = "destroyed"
      BY <2>2, <3>1
    <3> HIDE DEF o
    <3>4. PICK f : f = [i \in 1..3 |-> IF i = 1 THEN s.op ELSE o[i - 1]]
      OBVIOUS
    <3>5. f = <<"join", "shrink", "destroyed">>
      <4>1. f[1] = "join" /\ f[2] = "shrink" /\ f[3] = "destroyed"
        BY <1>6, <3>3, <3>4
      <4>2. f = [i \in 1..3 |-> f[i]]
        BY <3>4
      <4>3. f = <<f[1], f[2], f[3]>>
        BY <4>2, ThreeOps
      <4> QED
        BY <4>1, <4>3
    <3>6. Ops' = f
      BY <3>2, <3>3, <3>4 DEF o
    <3> QED
      BY <3>1, <3>5, <3>6
  <2>5. DirectInv'
    BY <1>1, <1>4, <1>6, <2>1, <2>4, DirectPush DEF CallInv
  <2> QED
    BY <2>3, <2>5 DEF CallInvNext
<1>8. CASE ~At("shrink")
  <2>1. todo' = <<s>> \o Tail(todo) /\ At("stop_worker")
    BY <1>5, <1>8 DEF StopWorker
  <2>2. /\ todo \in Seq(StepSet) /\ todo # <<>> /\ Len(Ops) > 0 /\ Ops[1] = "stop_worker"
        /\ Op(1) = "stop_worker" /\ direct
    BY <2>1, FrontStep DEF StreamOps
  <2>3. TodoInv' /\ StreamInv'
    BY <1>1, <1>2, <1>6, <2>1, <2>2, ReplaceKeeps DEF CallInv
  <2>4. DirectOK(Ops', none, w, r, t)
    <3>1. Len(Ops) = 2 /\ DirectOK(<<"join", Ops[2]>>, none, w, r, t)
      BY <1>3, <2>2, DirectReplaces
    <3>2. Ops' = [i \in 1..Len(Ops) |-> IF i = 1 THEN s.op ELSE Ops[i]]
      BY <1>6, <2>1, <2>2, OpsReplaced
    <3> DEFINE o == Ops
    <3>3. Len(o) = 2
      BY <3>1
    <3> HIDE DEF o
    <3>4. PICK f : f = [i \in 1..2 |-> IF i = 1 THEN s.op ELSE o[i]]
      OBVIOUS
    <3>5. f = <<"join", o[2]>>
      <4>1. f[1] = "join" /\ f[2] = o[2]
        BY <1>6, <3>4
      <4>2. f = [i \in 1..2 |-> f[i]]
        BY <3>4
      <4>3. f = <<f[1], f[2]>>
        BY <4>2, TwoOps
      <4> QED
        BY <4>1, <4>3
    <3>6. Ops' = f
      BY <3>2, <3>3, <3>4 DEF o
    <3> QED
      BY <3>1, <3>5, <3>6 DEF o
  <2>5. DirectInv'
    BY <1>1, <1>4, <1>6, <2>1, <2>2, <2>4, DirectReplace DEF CallInv
  <2> QED
    BY <2>3, <2>5 DEF CallInvNext
<1> QED
  BY <1>7, <1>8

LEMMA JoinCall ==
  ASSUME CallInv, ThreadTypes, WriterTypes, Join, UNCHANGED <<areaVars, queueVars, writerVars>>
  PROVE  CallInvNext /\ ThreadTypes'
<1>1. UNCHANGED <<fill, total, direct, threads, chunks, writer_pc>>
  BY DEF Join, areaVars, queueVars, writerVars
<1>2. At("join") /\ todo' = Tail(todo)
  BY DEF Join, Return
<1>3. /\ todo \in Seq(StepSet) /\ todo # <<>> /\ Len(Ops) > 0 /\ Ops[1] = "join"
      /\ Op(1) = "join"
  BY <1>2, FrontStep
<1>4. Len(running) > 1
  BY <1>2 DEF CallInv, TodoInv
<1>5. ThreadTypes' /\ Len(running') = Len(running) - 1
  BY <1>4, JoinTypes
<1> DEFINE none == chunks = <<>>
           w == Len(writer_pc)
           r == Len(running)
           t == threads
<1>6. direct => DirectOK(Ops, none, w, r, t)
                /\ none \in BOOLEAN /\ w \in Nat /\ r \in Nat /\ t \in Nat \ {0}
  BY DirectFacts
<1>7. (chunks' = <<>>) = none /\ Len(writer_pc') = w /\ Len(running') = r - 1 /\ threads' = t
      /\ threads = t /\ r > 1 /\ r \in Nat
  BY <1>1, <1>4, <1>5, ThreadFacts
<1>8. TodoInv' /\ StreamInv'
  <2>1. r - 1 \in Nat /\ r - 1 <= r
    BY <1>7
  <2>2. Len(running) \in Nat /\ Len(running') \in Nat /\ Len(running') <= Len(running)
    BY <1>7, <2>1
  <2> QED
    BY <1>1, <1>2, <1>3, <2>2, ReturnKeeps DEF CallInv
<1> HIDE DEF none, w, r, t
<1>9. direct => DirectOK(Tail(Ops), none, w, r - 1, t)
  BY <1>3, <1>6, <1>7, DirectReturns
<1>10. DirectInv'
  BY <1>1, <1>2, <1>3, <1>7, <1>9, DirectReturn DEF CallInv
<1> QED
  BY <1>5, <1>8, <1>10 DEF CallInvNext

LEMMA StartCall ==
  ASSUME CallInv, ThreadTypes, WriterTypes, StartWorker,
         UNCHANGED <<areaVars, queueVars, writerVars>>
  PROVE  CallInvNext
<1>1. UNCHANGED <<fill, total, direct, threads, chunks, writer_pc, todo>>
  BY DEF StartWorker, areaVars, queueVars, writerVars
<1>2. At("grow") /\ Len(running) < Arg
  BY DEF StartWorker
<1>3. /\ todo \in Seq(StepSet) /\ todo # <<>> /\ Len(Ops) > 0 /\ Ops[1] = "grow" /\ Arg \in Nat
  BY <1>2, FrontStep
<1>4. Len(running') = Len(running) + 1 /\ Len(running) \in Nat
  BY StartTypes, ThreadFacts
<1>5. TodoInv' /\ StreamInv'
  <2>1. Len(running') <= Arg
    BY <1>2, <1>3, <1>4
  <2> QED
    BY <1>1, <1>2, <1>4, <2>1, StayKeeps DEF CallInv
<1> DEFINE none == chunks = <<>>
           w == Len(writer_pc)
           r == Len(running)
           t == threads
           k == Len(running')
<1>6. direct => DirectOK(Ops, none, w, r, t)
                /\ none \in BOOLEAN /\ w \in Nat /\ r \in Nat /\ t \in Nat \ {0}
  BY DirectFacts
<1>7. (chunks' = <<>>) = none /\ Len(writer_pc') = w /\ threads = t
  BY <1>1
<1> HIDE DEF none, w, r, t, k
<1>8. direct => DirectOK(Ops, none, w, k, t)
  BY <1>3, <1>6, DirectReplaces
<1>9. DirectInv'
  BY <1>1, <1>7, <1>8, DirectStay DEF CallInv, k
<1> QED
  BY <1>5, <1>9 DEF CallInvNext

LEMMA StoreCall ==
  ASSUME CallInv, ThreadTypes, WriterTypes, StoreThreads,
         UNCHANGED <<areaVars, queueVars, writerVars>>
  PROVE  CallInvNext /\ ThreadTypes'
<1>1. UNCHANGED <<fill, total, direct, chunks, writer_pc, running>>
  BY DEF StoreThreads, areaVars, queueVars, writerVars
<1>2. At("threads") /\ todo' = Tail(todo)
  BY DEF StoreThreads, Return
<1>3. /\ todo \in Seq(StepSet) /\ todo # <<>> /\ Len(todo) \in Nat /\ Len(todo) > 0
      /\ Op(1) = "threads" /\ Arg = todo[1].n /\ StepOK(todo[1]) /\ ~direct
  BY <1>2, FrontStep
<1>4. Arg \in ThreadCounts
  BY <1>3 DEF StepOK, Op
<1>5. Len(running) <= Arg
  <2>1. 1 \in 1..Len(todo) /\ 1..(1 - 1) = {}
    BY <1>3
  <2>2. \/ Len(running) <= todo[1].n
        \/ \E j \in 1..(1 - 1) : Op(j) = "shrink" /\ todo[j].n = todo[1].n
    BY <1>3, <2>1 DEF CallInv, StreamInv
  <2> QED
    BY <1>3, <2>1, <2>2
<1>6. ThreadTypes'
  BY <1>4, <1>5, StoreTypes
<1>7. TodoInv' /\ StreamInv'
  <2>1. Len(running) \in Nat /\ Len(running') = Len(running)
    BY <1>1, ThreadFacts
  <2> QED
    BY <1>1, <1>2, <1>3, <2>1, ReturnKeeps DEF CallInv
<1>8. DirectInv'
  BY <1>1, <1>3 DEF DirectInv
<1> QED
  BY <1>6, <1>7, <1>8 DEF CallInvNext

LEMMA ThreadsCall ==
  ASSUME CallInv, ThreadTypes, WriterTypes, ThreadsStep,
         UNCHANGED <<areaVars, queueVars, hand, writerVars>>
  PROVE  CallInvNext /\ ThreadTypes'
<1>1. CASE RaiseStop
  <2>1. At("raise_stop") /\ Return /\ stop' = TRUE
        /\ UNCHANGED <<fill, total, direct, threads, chunks, writer_pc, running,
                       capacity, worker_pc, hand, dangling>>
    BY <1>1 DEF RaiseStop, areaVars, queueVars, writerVars, threadVars, workerVars
  <2>2. Len(running') = Len(running)
    BY <2>1
  <2>3. CallInvNext
    BY <2>1, <2>2, Ends
  <2>4. ThreadTypes'
    BY <2>1 DEF ThreadTypes
  <2> QED
    BY <2>3, <2>4
<1>2. CASE StopWorker
  BY <1>2, StopCall, StopTypes
<1>3. CASE Join
  BY <1>3, JoinCall
<1>4. CASE StartWorker
  BY <1>4, StartCall, StartTypes
<1>5. CASE StoreThreads
  BY <1>5, StoreCall
<1> QED
  BY <1>1, <1>2, <1>3, <1>4, <1>5 DEF ThreadsStep

LEMMA AddWriterCall ==
  ASSUME CallInv, ThreadTypes, WriterTypes, AddWriter
  PROVE  /\ CallInvNext /\ WriterTypes' /\ Len(writer_pc') = Len(writer_pc) + 1
         /\ Writers' = Writers \cup {Len(writer_pc) + 1}
         /\ \A j \in Writers : writer_pc'[j] = writer_pc[j]
         /\ writer_pc'[Len(writer_pc) + 1] \in {"start", "loop", "ended"}
         /\ UNCHANGED <<direct, write_id>> /\ direct
         /\ todo' = Tail(todo) /\ UNCHANGED <<areaVars, modifierVars>>
<1>1. /\ UNCHANGED <<fill, total, direct, threads, chunks, running>>
      /\ UNCHANGED <<areaVars, modifierVars>>
  BY DEF AddWriter, areaVars, modifierVars, threadVars, queueVars
<1>2. At("add_writer") /\ todo' = Tail(todo)
  BY DEF AddWriter, Return
<1>3. /\ todo \in Seq(StepSet) /\ todo # <<>> /\ Len(Ops) > 0 /\ Ops[1] = "add_writer"
      /\ Op(1) = "add_writer" /\ direct
  BY <1>2, FrontStep DEF StreamOps
<1> DEFINE none == chunks = <<>>
           w == Len(writer_pc)
           r == Len(running)
           t == threads
<1>4. DirectOK(Ops, none, w, r, t)
      /\ none \in BOOLEAN /\ w \in Nat /\ r \in Nat /\ t \in Nat \ {0}
  BY <1>3, DirectFacts
<1>5. (chunks' = <<>>) = none /\ threads = t /\ Len(running') = r /\ w = Len(writer_pc)
  BY <1>1
<1> HIDE DEF none, w, r, t
<1>6. DirectOK(Tail(Ops), none, w + 1, r, t) /\ w < MaxWriters
  BY <1>3, <1>4, DirectReturns, DirectReplaces
<1>7. /\ WriterTypes' /\ Len(writer_pc)' = Len(writer_pc) + 1
      /\ Writers' = Writers \cup {Len(writer_pc) + 1}
      /\ \A j \in Writers : writer_pc'[j] = writer_pc[j]
      /\ writer_pc'[Len(writer_pc) + 1] \in {"start", "loop", "ended"}
      /\ UNCHANGED <<direct, write_id>>
  BY <1>3, <1>5, <1>6, AddWriterTypes
<1>8. DirectInv'
  <2>1. Len(writer_pc') = w + 1
    BY <1>5, <1>7
  <2> QED
    BY <1>1, <1>2, <1>3, <1>5, <1>6, <2>1, DirectReturn DEF CallInv
<1>9. TodoInv' /\ StreamInv'
  <2>1. Len(running) \in Nat /\ Len(running') = Len(running)
    BY <1>1, ThreadFacts
  <2> QED
    BY <1>1, <1>2, <1>3, <2>1, ReturnKeeps DEF CallInv
<1> QED
  BY <1>1, <1>2, <1>3, <1>7, <1>8, <1>9 DEF CallInvNext

LEMMA EnqueueCall ==
  ASSUME CallInv, ThreadTypes, WriterTypes, At("enqueue_task"), NEW n \in Nat,
         todo' = <<StepWith("results", n)>> \o Tail(todo),
         UNCHANGED <<areaVars, threadVars, writerVars>>, chunks' # <<>>
  PROVE  CallInvNext
<1>1. UNCHANGED <<fill, total, direct, threads, writer_pc, running>>
  BY DEF areaVars, writerVars, threadVars
<1>2. /\ todo \in Seq(StepSet) /\ todo # <<>> /\ Len(Ops) > 0 /\ Ops[1] = "enqueue_task"
      /\ Op(1) = "enqueue_task"
  BY FrontStep
<1>3. PICK s : s = StepWith("results", n)
  OBVIOUS
<1>4. s \in StepSet /\ s.op = "results"
  BY <1>3 DEF StepWith, StepSet, StepOps
<1>5. todo' = <<s>> \o Tail(todo)
  BY <1>3
<1>6. TodoInv' /\ StreamInv'
  <2>1. Len(running') = Len(running)
    BY <1>1
  <2>2. s.op \in StreamOps
        /\ s.op \notin {"join", "enqueue_task", "grow", "threads", "shrink", "destroyed"}
    BY <1>4 DEF StreamOps
  <2>3. "enqueue_task" \notin {"shrink", "write"} /\ "enqueue_task" # "flush_to"
    OBVIOUS
  <2> QED
    BY <1>1, <1>2, <1>4, <1>5, <2>1, <2>2, <2>3, ReplaceKeeps DEF CallInv
<1> DEFINE none == chunks = <<>>
           w == Len(writer_pc)
           r == Len(running)
           t == threads
<1>7. direct => DirectOK(Ops, none, w, r, t)
                /\ none \in BOOLEAN /\ w \in Nat /\ r \in Nat /\ t \in Nat \ {0}
  BY DirectFacts
<1>8. (chunks' = <<>>) = FALSE /\ Len(writer_pc') = w /\ Len(running') = r /\ threads = t
  BY <1>1
<1> HIDE DEF none, w, r, t
<1>9. ASSUME direct PROVE DirectOK(Ops', FALSE, w, r, t)
  <2>1. Len(Ops) = 3 /\ Ops[2] = "stop_worker" /\ Ops[3] = "start_writer"
        /\ DirectOK(<<"results", "stop_worker", "start_writer">>, FALSE, w, r, t)
    BY <1>2, <1>7, <1>9, DirectReplaces
  <2>2. Ops' = [i \in 1..Len(Ops) |-> IF i = 1 THEN s.op ELSE Ops[i]]
    BY <1>2, <1>4, <1>5, OpsReplaced
  <2> DEFINE o == Ops
  <2>3. Len(o) = 3 /\ o[2] = "stop_worker" /\ o[3] = "start_writer"
    BY <2>1
  <2> HIDE DEF o
  <2>4. PICK f : f = [i \in 1..3 |-> IF i = 1 THEN s.op ELSE o[i]]
    OBVIOUS
  <2>5. f = <<"results", "stop_worker", "start_writer">>
    <3>1. f[1] = "results" /\ f[2] = "stop_worker" /\ f[3] = "start_writer"
      BY <1>4, <2>3, <2>4
    <3>2. f = [i \in 1..3 |-> f[i]]
      BY <2>4
    <3>3. f = <<f[1], f[2], f[3]>>
      BY <3>2, ThreeOps
    <3> QED
      BY <3>1, <3>3
  <2>6. Ops' = f
    BY <2>2, <2>3, <2>4 DEF o
  <2> QED
    BY <2>1, <2>5, <2>6
<1>10. DirectInv'
  <2>1. s.op \notin {"grow", "enqueue_task"}
    BY <1>4
  <2> QED
    BY <1>1, <1>2, <1>4, <1>5, <1>8, <1>9, <2>1, DirectReplace DEF CallInv
<1> QED
  BY <1>6, <1>10 DEF CallInvNext

LEMMA StayCall ==
  ASSUME CallInv, ThreadTypes, WriterTypes,
         UNCHANGED <<fill, total, direct, threads, chunks, running, todo>>,
         Len(writer_pc') = Len(writer_pc)
  PROVE  CallInvNext
<1>1. Len(running') = Len(running) /\ (chunks' = <<>>) = (chunks = <<>>)
  OBVIOUS
<1>2. TodoInv' /\ StreamInv'
  BY <1>1, StayKeeps DEF CallInv
<1>3. direct => DirectOK(Ops, chunks' = <<>>, Len(writer_pc'), Len(running'), threads)
  BY <1>1, DirectFacts
<1>4. DirectInv'
  BY <1>3, DirectStay DEF CallInv
<1> QED
  BY <1>2, <1>4 DEF CallInvNext

LEMMA NoFutures ==
  ASSUME FuturesInv, QueueTypes, ~At("results"), ~Taking, results = <<>>
  PROVE  chunks = <<>>
<1>1. Len(chunks) \in Nat
  BY LenChunks
<1>2. results = Upto(Len(chunks))
  BY <1>1 DEF FuturesInv, ToCome
<1>3. Upto(Len(chunks)) \in Seq(0..(Len(chunks) - 1)) /\ Len(Upto(Len(chunks))) = Len(chunks)
  <2>1. PICK n \in Nat : n = Len(chunks)
    BY <1>1
  <2>2. [i \in 1..n |-> 0 + i - 1] \in Seq(0..(n - 1)) /\ Len([i \in 1..n |-> 0 + i - 1]) = n
    <3>1. 0 + n <= n
      BY <2>1
    <3> QED
      BY <2>1, <3>1, UptoIsSeq
  <2>3. Upto(n) = [i \in 1..n |-> 0 + i - 1]
    BY DEF Upto
  <2> QED
    BY <2>1, <2>2, <2>3
<1>4. Len(chunks) = 0
  <2>1. Len(results) = 0
    OBVIOUS
  <2> QED
    BY <1>2, <1>3, <2>1
<1> QED
  BY <1>4, EmptySeq DEF QueueTypes

LEMMA NoBytesYet ==
  ASSUME CallInv, AreaTypes, BytesInv, chunks = <<>>, NEW k \in Nat, k = Len(todo),
         \A i \in 1..k : Op(i) # "enqueue_task"
  PROVE  total = fill
<1>1. ChunkBytes = {}
  BY DEF ChunkBytes
<1>2. PendingBytes = {}
  <2>1. DOMAIN todo = 1..k
    BY TodoFacts DEF CallInv, TodoInv, StepSet
  <2>2. Pending = {}
    BY <2>1 DEF Pending, Op
  <2> QED
    BY <2>2 DEF PendingBytes
<1>3. fill \in Nat
  BY Constants DEF AreaTypes
<1> QED
  BY <1>1, <1>2, <1>3, FS_EmptySet DEF BytesInv

(* What comes next is not one of the steps that an action puts in front.   *)
LEMMA ReturnedFront ==
  ASSUME TodoInv, todo # <<>>, todo' = Tail(todo)
  PROVE  \A op \in InFront : ~At(op)'
<1>1. todo \in Seq(StepSet) /\ \A i \in 2..Len(todo) : Op(i) \notin InFront
  BY DEF TodoInv, StepSet
<1>2. /\ todo' \in Seq(StepSet) /\ Len(todo') = Len(todo) - 1
      /\ \A i \in 1..(Len(todo) - 1) : todo'[i] = todo[i + 1]
  BY <1>1, Returned
<1>3. Len(todo) \in Nat
  BY <1>1, TodoFacts
<1>4. ASSUME NEW op \in InFront, At(op)' PROVE FALSE
  <2>1. Len(todo') > 0 /\ Op(1)' = op
    BY <1>2, <1>4, AtFactsNext
  <2>2. 1 \in 1..(Len(todo) - 1) /\ 2 \in 2..Len(todo) /\ 1 + 1 = 2
    BY <1>2, <1>3, <2>1
  <2>3. Op(2) = op
    BY <1>2, <2>1, <2>2 DEF Op
  <2> QED
    BY <1>1, <1>4, <2>2, <2>3
<1> QED
  BY <1>4

LEMMA ReturnedNotTaking ==
  ASSUME \A op \in InFront : ~At(op)'
  PROVE  ~Taking' /\ ~At("results")' /\ ToCome' = 0 /\ ~At("write")'
BY DEF InFront, Taking, ToCome

(* flush_to and flush: the futures, if there are any, are taken.           *)
LEMMA SwapCall ==
  ASSUME CallInv, AreaTypes, QueueTypes, ThreadTypes, WriterTypes, FuturesInv, BytesInv,
         FlushSwap, UNCHANGED writerVars
  PROVE  /\ CallInvNext
         /\ results = <<>> => ~Taking'
         /\ results # <<>> => Taking' /\ (At("flush_to") <=> At("write")')
         /\ ~At("results")' /\ ~At("results") /\ ~Taking
         /\ results = <<>> => chunks = <<>>
         /\ results # <<>> => chunks # <<>>
<1>1. UNCHANGED <<fill, total, direct, threads, chunks, writer_pc, running>>
  BY DEF FlushSwap, areaVars, writerVars, threadVars
<1>2. PICK op \in {"flush_to", "flush"} : At(op)
  BY DEF FlushSwap
<1>3. /\ todo \in Seq(StepSet) /\ todo # <<>> /\ Len(todo) \in Nat /\ Len(todo) > 0
      /\ Op(1) = op /\ Len(Ops) = Len(todo) /\ Ops[1] = op
      /\ op = "flush_to" => ~direct
      /\ op = "flush" => direct
  BY <1>2, FrontStep DEF StreamOps
<1>4. \A x : At(x) => x = op
  BY <1>2 DEF At
<1>5. ~At("results") /\ ~Taking
  BY <1>4 DEF Taking
<1>6. results = <<>> => chunks = <<>>
  BY <1>5, NoFutures
<1>7. results # <<>> => chunks # <<>>
  <2>1. chunks = <<>> => results \in Seq({})
    BY DEF QueueTypes, Ids
  <2>2. chunks = <<>> => results = <<>>
    <3>1. results \in Seq(Ids) /\ Len(results) \in Nat
      BY LenChunks DEF QueueTypes
    <3>2. \A i \in 1..Len(results) : results[i] \in Ids
      BY <3>1, ElementsOf
    <3>3. chunks = <<>> => Ids = {}
      BY DEF Ids
    <3>4. Len(results) > 0 => 1 \in 1..Len(results)
      BY <3>1
    <3> QED
      BY <3>1, <3>2, <3>3, <3>4, EmptySeq
  <2> QED
    BY <2>2
<1>8. Len(running) \in Nat /\ Len(running') = Len(running)
  BY <1>1, ThreadFacts
<1>9. CASE results = <<>>
  <2>1. todo' = Tail(todo)
    <3>1. todo' = <<>> \o Tail(todo)
      BY <1>9 DEF FlushSwap
    <3>2. Tail(todo) \in Seq(StepSet)
      BY <1>3, TailOf
    <3> QED
      BY <3>1, <3>2
  <2>2. CASE op = "flush"
    <3>1. Return
      BY <2>1 DEF Return
    <3>2. CallInvNext
      BY <1>1, <1>2, <1>6, <1>8, <1>9, <2>2, <3>1, Ends
    <3> QED
      BY <1>3, <1>5, <1>6, <1>9, <2>1, <3>2, ReturnedFront, ReturnedNotTaking DEF CallInv
  <2>3. CASE op = "flush_to"
    <3>1. \/ fill # 0 \/ total = 0
          \/ \E k \in 2..Len(todo) : Op(k) = "enqueue_task"
      <4>1. ASSUME \A k \in 2..Len(todo) : Op(k) # "enqueue_task"
            PROVE  total = fill
        <5>1. \A k \in 1..Len(todo) : k = 1 \/ k \in 2..Len(todo)
          BY <1>3
        <5>2. \A k \in 1..Len(todo) : Op(k) # "enqueue_task"
          BY <1>3, <2>3, <4>1, <5>1
        <5> QED
          BY <1>3, <1>6, <1>9, <5>2, NoBytesYet
      <4> QED
        BY <4>1
    <3>2. TodoInv' /\ StreamInv'
      BY <1>1, <1>3, <1>8, <2>1, <2>3, <3>1, ReturnKeeps DEF CallInv
    <3>3. DirectInv'
      BY <1>1, <1>3, <2>3 DEF DirectInv
    <3> QED
      BY <1>3, <1>5, <1>6, <1>9, <2>1, <3>2, <3>3, ReturnedFront, ReturnedNotTaking
         DEF CallInv, CallInvNext
  <2> QED
    BY <2>2, <2>3
<1>10. CASE results # <<>>
  <2>1. PICK s : s = Step(IF At("flush") THEN "collect" ELSE "write")
    OBVIOUS
  <2>2. /\ s \in StepSet /\ s.op = IF op = "flush" THEN "collect" ELSE "write"
    <3>1. At("flush") <=> op = "flush"
      BY <1>2, <1>4
    <3> QED
      BY <2>1, <3>1 DEF Step, StepSet, StepOps
  <2>3. todo' = <<s>> \o Tail(todo)
    BY <1>10, <2>1 DEF FlushSwap
  <2>4. todo' \in Seq(StepSet) /\ Len(todo') = Len(todo) /\ todo'[1] = s
    BY <1>3, <2>2, <2>3, Replaced
  <2>5. \A x : At(x)' <=> x = s.op
    <3>1. Op(1)' = s.op
      BY <2>4 DEF Op
    <3> QED
      BY <1>3, <2>4, <3>1, AtFactsNext
  <2>6. TodoInv' /\ StreamInv'
    <3>1. s.op \notin {"join", "enqueue_task", "grow", "threads", "shrink", "destroyed"}
      BY <2>2
    <3>2. ~direct => s.op \in StreamOps /\ s.op = "write"
      BY <1>3, <2>2 DEF StreamOps
    <3>3. op \notin {"shrink", "write"}
      OBVIOUS
    <3> QED
      BY <1>1, <1>3, <1>8, <2>2, <2>3, <3>1, <3>2, <3>3, ReplaceKeeps DEF CallInv
  <2> DEFINE none == chunks = <<>>
             w == Len(writer_pc)
             r == Len(running)
             t == threads
  <2>7. direct => DirectOK(Ops, none, w, r, t)
                  /\ none \in BOOLEAN /\ w \in Nat /\ r \in Nat /\ t \in Nat \ {0}
    BY DirectFacts
  <2>8. (chunks' = <<>>) = none /\ Len(writer_pc') = w /\ Len(running') = r /\ threads = t
        /\ ~none
    BY <1>1, <1>7, <1>10
  <2> HIDE DEF none, w, r, t
  <2>9. ASSUME direct PROVE DirectOK(Ops', none, w, r, t)
    <3>1. Len(Ops) = 1 /\ DirectOK(<<"collect">>, none, w, r, t)
      BY <1>3, <2>7, <2>8, <2>9, DirectReplaces
    <3>2. Ops' = [i \in 1..Len(Ops) |-> IF i = 1 THEN s.op ELSE Ops[i]]
      BY <1>3, <2>2, <2>3, OpsReplaced
    <3>3. Ops' = <<"collect">>
      <4>1. s.op = "collect"
        BY <1>3, <2>2, <2>9
      <4> DEFINE o == Ops
      <4>2. PICK f : f = [i \in 1..1 |-> IF i = 1 THEN s.op ELSE o[i]]
        OBVIOUS
      <4> HIDE DEF o
      <4>3. f = [i \in 1..1 |-> f[i]] /\ f[1] = "collect"
        BY <4>1, <4>2
      <4>4. f = <<f[1]>>
        BY <4>3, OneOp
      <4>5. Len(o) = 1
        BY <3>1 DEF o
      <4>6. Ops' = f
        BY <3>2, <4>2, <4>5 DEF o
      <4> QED
        BY <4>3, <4>4, <4>6
    <3> QED
      BY <3>1, <3>3
  <2>10. DirectInv'
    <3>1. s.op \notin {"grow", "enqueue_task"}
      BY <2>2
    <3> QED
      BY <1>1, <1>3, <2>2, <2>3, <2>8, <2>9, <3>1, DirectReplace DEF CallInv
  <2>11. Taking' /\ (At("flush_to") <=> At("write")') /\ ~At("results")'
    <3>1. At("flush_to") <=> op = "flush_to"
      BY <1>2, <1>4
    <3> QED
      BY <2>2, <2>5, <3>1 DEF Taking
  <2> QED
    BY <1>5, <1>7, <1>10, <2>6, <2>10, <2>11 DEF CallInvNext
<1> QED
  BY <1>9, <1>10
-----------------------------------------------------------------------------
(* The futures.                                                            *)

LEMMA UptoFacts ==
  ASSUME NEW n \in Nat
  PROVE  /\ Upto(n) \in Seq(0..(n - 1)) /\ Len(Upto(n)) = n
         /\ \A i \in 1..n : Upto(n)[i] = i - 1
<1>1. [i \in 1..n |-> 0 + i - 1] \in Seq(0..(n - 1)) /\ Len([i \in 1..n |-> 0 + i - 1]) = n
  <2>1. 0 + n <= n
    OBVIOUS
  <2> QED
    BY <2>1, UptoIsSeq
<1>2. Upto(n) = [i \in 1..n |-> 0 + i - 1]
  BY DEF Upto
<1>3. \A i \in 1..n : Upto(n)[i] = i - 1
  BY DEF Upto
<1> QED
  BY <1>1, <1>2, <1>3

LEMMA UptoGrows ==
  ASSUME NEW m \in Nat, NEW n \in Nat, NEW f, f = [i \in 1..n |-> m + i - 1]
  PROVE  Upto(m) \o f = Upto(m + n)
<1> DEFINE S == 0..(m + n - 1)
           u == Upto(m)
           v == Upto(m + n)
           c == u \o f
<1>1. /\ u \in Seq(0..(m - 1)) /\ Len(u) = m /\ \A i \in 1..m : u[i] = i - 1
  BY UptoFacts
<1>2. m + n \in Nat /\ m <= m + n
  OBVIOUS
<1>3. v \in Seq(S) /\ Len(v) = m + n /\ \A i \in 1..(m + n) : v[i] = i - 1
  BY <1>2, UptoFacts
<1>4. f \in Seq(S) /\ Len(f) = n /\ \A i \in 1..n : f[i] = m + i - 1
  BY <1>2, UptoIsSeq
<1>5. u \in Seq(S)
  <2>1. 0..(m - 1) \subseteq S
    BY <1>2, IdsGrow
  <2> HIDE DEF u, S
  <2> QED
    BY <1>1, <2>1, SeqGrows
<1> HIDE DEF u, v, S
<1>6. /\ c \in Seq(S) /\ Len(c) = m + n
      /\ \A i \in 1..m : c[i] = u[i]
      /\ \A i \in 1..n : c[m + i] = f[i]
  <2>1. /\ u \o f \in Seq(S) /\ Len(u \o f) = Len(u) + Len(f)
        /\ \A i \in 1..Len(u) : (u \o f)[i] = u[i]
        /\ \A i \in 1..Len(f) : (u \o f)[Len(u) + i] = f[i]
    BY <1>4, <1>5, Joined
  <2>2. Len(u) = m /\ Len(f) = n
    BY <1>1, <1>4
  <2> QED
    BY <2>1, <2>2
<1> HIDE DEF c
<1>7. ASSUME NEW i \in 1..(m + n) PROVE c[i] = v[i]
  <2>1. CASE i <= m
    BY <1>1, <1>3, <1>6, <2>1
  <2>2. CASE i > m
    <3>1. PICK k \in 1..n : i = m + k
      <4>1. i - m \in 1..n /\ i = m + (i - m)
        BY <2>2
      <4> QED
        BY <4>1
    <3>2. c[m + k] = m + k - 1
      BY <1>4, <1>6
    <3> QED
      BY <1>3, <3>1, <3>2
  <2> QED
    BY <2>1, <2>2
<1> QED
  BY <1>3, <1>6, <1>7, SeqEqual DEF c, u, v

LEMMA NotInFront ==
  ASSUME NEW op, op \notin InFront, At(op)
  PROVE  ~Taking /\ ~At("results") /\ ToCome = 0 /\ ~At("write")
BY DEF InFront, At, Taking, ToCome

LEMMA FuturesStay ==
  ASSUME FuturesInv, UNCHANGED <<chunks, results, local>>, Taking' <=> Taking, ToCome' = ToCome
  PROVE  FuturesInv'
BY DEF FuturesInv

LEMMA FuturesEnqueue ==
  ASSUME QueueTypes, FuturesInv, ~Taking, ToCome = 0, NEW n \in Nat,
         Len(chunks') = Len(chunks) + n, ToCome' = n, ~Taking', UNCHANGED <<results, local>>
  PROVE  FuturesInv'
<1> DEFINE m == Len(chunks)
<1>1. m \in Nat /\ Len(chunks') = m + n
  BY LenChunks
<1>2. m - 0 = m /\ m + n - n = m /\ n <= m + n
  BY <1>1
<1> HIDE DEF m
<1>3. local = <<>> /\ results = Upto(m)
  BY <1>2 DEF FuturesInv, m
<1>4. ToCome' <= Len(chunks')
  BY <1>1, <1>2
<1>5. results' = Upto(Len(chunks') - ToCome')
  BY <1>1, <1>2, <1>3
<1> QED
  BY <1>3, <1>4, <1>5 DEF FuturesInv, Upto

LEMMA FuturesResults ==
  ASSUME QueueTypes, FuturesInv, At("results"), Arg \in Nat, EnqueueResults,
         ~Taking', ToCome' = 0
  PROVE  /\ FuturesInv' /\ results' = Upto(Len(chunks))
         /\ Arg <= Len(chunks) /\ results = Upto(Len(chunks) - Arg) /\ ~Taking
<1> DEFINE m == Len(chunks)
           k == Arg
<1>1. m \in Nat /\ k \in Nat /\ ToCome = k /\ ~Taking
  BY LenChunks DEF ToCome, Taking, At
<1>2. k <= m /\ local = <<>> /\ results = Upto(m - k)
  BY <1>1 DEF FuturesInv
<1>3. results' = results \o ThreadFutures(k) /\ UNCHANGED <<chunks, local>>
  BY DEF EnqueueResults, flushVars
<1>4. PICK f : f = ThreadFutures(k)
  OBVIOUS
<1> DEFINE d == m - k
<1>5. d \in Nat /\ d + k = m /\ m - 0 = m
  BY <1>1, <1>2
<1>6. f = [i \in 1..k |-> d + i - 1]
  BY <1>4 DEF ThreadFutures
<1>7. results' = Upto(d) \o f
  BY <1>2, <1>3, <1>4
<1>8. results' = Upto(m)
  <2> HIDE DEF m, k, d
  <2> QED
    BY <1>1, <1>5, <1>6, <1>7, UptoGrows
<1>9. FuturesInv'
  <2>1. Len(chunks') = m /\ local' = <<>>
    BY <1>2, <1>3
  <2>2. 0 <= m
    BY <1>1
  <2>3. results' = Upto(Len(chunks') - ToCome')
    BY <1>5, <1>8, <2>1
  <2> QED
    BY <2>1, <2>2, <2>3 DEF FuturesInv, Upto
<1> QED
  BY <1>1, <1>2, <1>8, <1>9

LEMMA FuturesSwap ==
  ASSUME QueueTypes, FuturesInv, FlushSwap, ~Taking, ToCome = 0, ToCome' = 0,
         results = <<>> => ~Taking' /\ chunks = <<>>,
         results # <<>> => Taking' /\ chunks # <<>>
  PROVE  /\ FuturesInv' /\ results = Upto(Len(chunks)) /\ Len(results) = Len(chunks)
         /\ next_id' = 0
<1> DEFINE m == Len(chunks)
<1>1. m \in Nat /\ m - 0 = m
  BY LenChunks
<1>2. local = <<>> /\ results = Upto(m)
  BY <1>1 DEF FuturesInv
<1>3. local' = results /\ results' = <<>> /\ UNCHANGED chunks
      /\ next_id' = Len(chunks) - Len(results)
  BY DEF FlushSwap, FirstId
<1>4. Len(results) = m
  BY <1>1, <1>2, UptoFacts
<1>5. 0 <= m /\ Len(chunks') = m
  BY <1>1, <1>3
<1>6. CASE results = <<>>
  <2>1. ~Taking' /\ m = 0
    BY <1>6
  <2>2. results' = Upto(Len(chunks') - ToCome')
    <3>1. Len(chunks') - ToCome' = m
      BY <1>1, <1>5
    <3> QED
      BY <1>2, <1>3, <1>6, <3>1
  <2>3. FuturesInv'
    BY <1>3, <1>5, <1>6, <2>1, <2>2 DEF FuturesInv, Upto
  <2> QED
    BY <1>1, <1>2, <1>3, <1>4, <2>3
<1>7. CASE results # <<>>
  <2>1. FuturesInv'
    BY <1>2, <1>3, <1>5, <1>7 DEF FuturesInv, Upto
  <2> QED
    BY <1>1, <1>2, <1>3, <1>4, <2>1
<1> QED
  BY <1>6, <1>7
-----------------------------------------------------------------------------
(* What is written.                                                        *)

LEMMA WrittenStay ==
  ASSUME WrittenInv, WriterTypes, UNCHANGED <<written, direct, write_id>>, done \subseteq done',
         Len(chunks) \in Nat, Len(chunks') \in Nat, Len(chunks) <= Len(chunks'),
         ~direct => /\ At("write")' => next_id' = Len(written)
                    /\ written # <<>> => At("write")',
         \A j \in Writers' : /\ writer_pc'[j] # "join"
                             /\ writer_pc'[j] = "get" => j \in Writers /\ writer_pc[j] = "get",
         \/ \A j \in Writers : writer_pc[j] # "get"
         \/ ToSet(results) \subseteq ToSet(results')
  PROVE  WrittenInv'
<1>1. ToSet(written)' \subseteq done'
  BY DEF WrittenInv
<1>2. ~direct' => /\ written' = Upto(Len(written))'
                  /\ write_id' = 1
                  /\ written' # <<>> => At("write")'
                  /\ At("write")' => next_id' = Len(written)'
  BY DEF WrittenInv, Upto
<1>3. direct' => /\ \A i \in 1..Len(written)' : written'[i] = i
                 /\ write_id' = Len(written)' + 1
  BY DEF WrittenInv
<1>4. write_id' > 1 => write_id' <= Len(chunks)'
  <2>1. PICK w \in Nat : w = write_id
    BY Constants DEF WriterTypes
  <2>2. w > 1 => w <= Len(chunks)
    BY <2>1 DEF WrittenInv
  <2>3. PICK m \in Nat : m = Len(chunks)
    OBVIOUS
  <2>4. PICK n \in Nat : n = Len(chunks')
    OBVIOUS
  <2>5. w > 1 => w <= n
    BY <2>2, <2>3, <2>4
  <2> QED
    BY <2>1, <2>4, <2>5
<1>5. \A j \in Writers' : /\ writer_pc'[j] = "get" => write_id' \in ToSet(results)'
                          /\ writer_pc'[j] # "join"
  BY DEF WrittenInv
<1>6. \A j, k \in Writers' : writer_pc'[j] = "get" /\ writer_pc'[k] = "get" => j = k
  BY DEF WrittenInv
<1> QED
  BY <1>1, <1>2, <1>3, <1>4, <1>5, <1>6 DEF WrittenInv

(* No writer is ahead of the ids but the first, before the first chunk.    *)
LEMMA Alone ==
  ASSUME CallInv, ThreadTypes, WriterTypes, QueueTypes, WrittenInv,
         Writers # {}, write_id > Len(chunks)
  PROVE  StopWriterReturns /\ StartWorkerReturns
<1>1. direct
  <2>1. Writers = 1..Len(writer_pc)
    BY WriterFacts
  <2>2. ~direct => writer_pc = <<>>
    BY DEF WriterTypes
  <2>3. ~direct => Writers = {}
    BY <2>2 DEF Writers
  <2> QED
    BY <2>3
<1>2. chunks = <<>>
  <2>1. PICK w \in Nat : w = write_id
    BY Constants DEF WriterTypes
  <2>2. PICK m \in Nat : m = Len(chunks)
    BY LenChunks
  <2>3. w >= 1
    BY <2>1, Constants DEF WriterTypes
  <2>4. w > m /\ (w > 1 => w <= m)
    BY <2>1, <2>2 DEF WrittenInv
  <2>5. m = 0
    BY <2>3, <2>4
  <2> QED
    BY <2>2, <2>5, EmptySeq DEF QueueTypes
<1> DEFINE o == Ops
           w == Len(writer_pc)
           r == Len(running)
           t == threads
<1>3. DirectOK(o, chunks = <<>>, w, r, t) /\ w \in Nat /\ r \in Nat /\ t \in Nat \ {0}
  BY <1>1, DirectFacts
<1>4. w # 0
  <2>1. Writers = 1..w
    BY WriterFacts
  <2> HIDE DEF w
  <2>2. w = 0 => 1..w = {}
    OBVIOUS
  <2> QED
    BY <2>1, <2>2
<1> HIDE DEF o, w, r, t
<1>5. DirectOK(o, TRUE, w, r, t)
  BY <1>2, <1>3
<1>6. w = 1 /\ r + 1 >= t
  BY <1>4, <1>5 DEF DirectOK, WriterOps
<1>7. w <= 1 /\ r + w >= t
  BY <1>3, <1>6
<1> QED
  BY <1>7 DEF w, r, t, StopWriterReturns, StartWorkerReturns

LEMMA WriterMovesInv ==
  ASSUME CallInv, ThreadTypes, WriterTypes, QueueTypes, WrittenInv,
         NEW j \in Writers, WriterMoves(j)
  PROVE  /\ WriterTypes' /\ WrittenInv' /\ Len(writer_pc') = Len(writer_pc)
         /\ UNCHANGED <<vars, direct, write_id>>
<1>1. /\ UNCHANGED <<vars, direct, write_id, writer_capacity, writer_dangling>>
      /\ writer_pc[j] \in {"start", "loop", "lock"}
      /\ \E pc \in WriterPcs :
           /\ WriterGoto(j, pc)
           /\ pc = "get" => writer_pc[j] = "lock" /\ ResultLockFree
                            /\ write_id \in ToSet(results)
           /\ pc = "join" => /\ writer_pc[j] = "lock"
                             /\ write_id > Len(chunks) /\ ~StopWriterReturns
  BY WriterMovesEffect
<1>2. PICK pc \in WriterPcs :
        /\ WriterGoto(j, pc)
        /\ pc = "get" => writer_pc[j] = "lock" /\ ResultLockFree
                         /\ write_id \in ToSet(results)
        /\ pc = "join" => /\ writer_pc[j] = "lock"
                          /\ write_id > Len(chunks) /\ ~StopWriterReturns
  BY <1>1
<1>3. pc # "join"
  BY <1>2, Alone
<1>4. /\ WriterTypes' /\ Writers' = Writers /\ Len(writer_pc)' = Len(writer_pc)
      /\ \A k \in Writers : writer_pc'[k] = IF k = j THEN pc ELSE writer_pc[k]
  <2>1. write_id' \in 1..(MaxBytes + 1)
    BY <1>1 DEF WriterTypes
  <2> QED
    BY <1>1, <1>2, <2>1, WriterGoes
<1>5. UNCHANGED <<written, done, results, chunks, next_id, todo>>
  BY <1>1 DEF vars, modifierVars, queueVars, flushVars
<1>6. CASE pc # "get"
  <2>1. /\ \A k \in Writers' : /\ writer_pc'[k] # "join"
                               /\ writer_pc'[k] = "get" => k \in Writers /\ writer_pc[k] = "get"
    BY <1>3, <1>4, <1>6 DEF WrittenInv
  <2>2. Len(chunks) \in Nat /\ Len(chunks') \in Nat /\ Len(chunks) <= Len(chunks')
    BY <1>5, LenChunks
  <2>3. ~direct => /\ At("write")' => next_id' = Len(written)
                   /\ written # <<>> => At("write")'
    BY <1>5 DEF WrittenInv, At
  <2>4. WrittenInv'
    BY <1>1, <1>5, <2>1, <2>2, <2>3, WrittenStay
  <2> QED
    BY <1>1, <1>4, <2>4
<1>7. CASE pc = "get"
  <2>1. \A k \in Writers : writer_pc[k] \notin {"get", "join"}
    BY <1>2, <1>7 DEF ResultLockFree
  <2>2. \A k \in Writers' : /\ writer_pc'[k] = "get" => k = j /\ write_id' \in ToSet(results)'
                            /\ writer_pc'[k] # "join"
    BY <1>1, <1>2, <1>4, <1>5, <1>7, <2>1
  <2>3. At("write")' <=> At("write")
    BY <1>5 DEF At
  <2>4. /\ ToSet(written)' \subseteq done'
        /\ ~direct' => /\ written' = Upto(Len(written))' /\ write_id' = 1
                       /\ written' # <<>> => At("write")'
                       /\ At("write")' => next_id' = Len(written)'
        /\ direct' => /\ \A i \in 1..Len(written)' : written'[i] = i
                      /\ write_id' = Len(written)' + 1
        /\ write_id' > 1 => write_id' <= Len(chunks)'
    BY <1>1, <1>5, <2>3 DEF WrittenInv, Upto
  <2>5. WrittenInv'
    BY <2>2, <2>4 DEF WrittenInv
  <2> QED
    BY <1>1, <1>4, <2>5
<1> QED
  BY <1>6, <1>7

LEMMA WrittenGrows ==
  ASSUME QueueTypes, NEW x \in done, written' = Append(written, x), done' = done,
         ToSet(written) \subseteq done
  PROVE  /\ ToSet(written') \subseteq done' /\ Len(written') = Len(written) + 1
         /\ \A i \in 1..Len(written) : written'[i] = written[i]
         /\ written'[Len(written) + 1] = x /\ Len(written) \in Nat
         /\ written \in Seq(Ids) /\ written' \in Seq(Ids)
<1>1. written \in Seq(Ids) /\ x \in Ids /\ Len(written) \in Nat
  BY LenChunks DEF QueueTypes
<1>2. /\ written' \in Seq(Ids) /\ Len(written') = Len(written) + 1
      /\ \A i \in 1..Len(written) : written'[i] = written[i]
      /\ written'[Len(written) + 1] = x
  BY <1>1, Appended
<1>3. ASSUME NEW y \in ToSet(written') PROVE y \in done
  <2>1. PICK i \in 1..Len(written') : written'[i] = y
    BY <1>2, InSeq
  <2>2. CASE i \in 1..Len(written)
    <3>1. written[i] \in ToSet(written)
      BY <1>1, <2>2, InSeq
    <3> QED
      BY <1>2, <2>1, <2>2, <3>1
  <2>3. CASE i \notin 1..Len(written)
    <3>1. i = Len(written) + 1
      BY <1>1, <1>2, <2>3
    <3> QED
      BY <1>2, <2>1, <3>1
  <2> QED
    BY <2>2, <2>3
<1> QED
  BY <1>1, <1>2, <1>3

LEMMA WriterWriteInv ==
  ASSUME QueueTypes, WriterTypes, FuturesInv, WrittenInv, Len(chunks) <= MaxBytes,
         At("results") => Arg \in Nat,
         NEW j \in Writers, WriterWrite(j)
  PROVE  /\ WriterTypes' /\ WrittenInv' /\ Len(writer_pc') = Len(writer_pc)
         /\ UNCHANGED <<areaVars, tasks, done, chunks, results, local, next_id, stop,
                        threadVars, workerVars, todo, direct>>
<1>1. direct
  <2>1. ~direct => writer_pc = <<>>
    BY DEF WriterTypes
  <2>2. ~direct => Writers = {}
    BY <2>1 DEF Writers
  <2> QED
    BY <2>2
<1>2. /\ writer_pc[j] = "get" /\ write_id \in done /\ written' = Append(written, write_id)
      /\ write_id' = write_id + 1 /\ WriterGoto(j, "loop")
      /\ UNCHANGED <<areaVars, tasks, done, chunks, local, next_id, stop, threadVars,
                     workerVars, todo, direct, writer_capacity, writer_dangling>>
  BY DEF WriterWrite, NextWriteId
<1>3. write_id \in ToSet(results)
  BY <1>2 DEF WrittenInv
<1>4. PICK w \in Nat : w = write_id /\ w >= 1
  BY Constants DEF WriterTypes
<1>5. PICK L \in Nat : L = Len(chunks)
  BY LenChunks
<1>6. results # <<>>
  BY <1>3 DEF ToSet
<1>7. PICK d \in Nat : results = Upto(d) /\ d <= L
  <2>1. PICK k \in Nat : k = ToCome
    BY DEF ToCome
  <2>2. k <= L /\ results = Upto(L - k)
    BY <1>5, <1>6, <2>1 DEF FuturesInv
  <2>3. L - k \in Nat /\ L - k <= L
    BY <2>2
  <2> QED
    BY <2>2, <2>3
<1>8. /\ results \in Seq(0..(d - 1)) /\ Len(results) = d
      /\ \A i \in 1..d : results[i] = i - 1
  BY <1>7, UptoFacts
<1>9. w < d
  <2>1. PICK i \in 1..d : results[i] = w
    BY <1>3, <1>4, <1>8, InSeq
  <2>2. w = i - 1
    BY <1>8, <2>1
  <2> QED
    BY <2>1, <2>2
<1>10. results' = results
  <2>1. Head(results) = results[1]
    BY <1>6, <1>8, TailOf
  <2>2. results[1] = 0
    <3>1. 1 \in 1..d
      BY <1>9
    <3> QED
      BY <1>8, <3>1
  <2>3. Head(results) # write_id
    BY <1>4, <2>1, <2>2
  <2> QED
    BY <2>3 DEF WriterWrite
<1>11. w + 1 <= L
  BY <1>7, <1>9
<1>12. /\ WriterTypes' /\ Writers' = Writers /\ Len(writer_pc)' = Len(writer_pc)
       /\ \A k \in Writers : writer_pc'[k] = IF k = j THEN "loop" ELSE writer_pc[k]
  <2>1. write_id' \in 1..(MaxBytes + 1)
    <3>1. MaxBytes \in Nat /\ L <= MaxBytes
      BY <1>5, Constants
    <3>2. w + 1 \in 1..(MaxBytes + 1)
      BY <1>4, <1>11, <3>1
    <3> QED
      BY <1>2, <1>4, <3>2
  <2>2. "loop" \in WriterPcs
    BY DEF WriterPcs
  <2> QED
    BY <1>2, <2>1, <2>2, WriterGoes
<1>13. /\ ToSet(written') \subseteq done' /\ Len(written') = Len(written) + 1
       /\ \A i \in 1..Len(written) : written'[i] = written[i]
       /\ written'[Len(written) + 1] = write_id /\ Len(written) \in Nat
  BY <1>2, WrittenGrows DEF WrittenInv
<1>14. /\ \A i \in 1..Len(written') : written'[i] = i
       /\ write_id' = Len(written') + 1
  <2>1. /\ \A i \in 1..Len(written) : written[i] = i
        /\ write_id = Len(written) + 1
    BY <1>1 DEF WrittenInv
  <2>2. \A i \in 1..Len(written') : i \in 1..Len(written) \/ i = Len(written) + 1
    BY <1>13
  <2> QED
    BY <1>2, <1>13, <2>1, <2>2
<1>15. write_id' <= Len(chunks')
  BY <1>2, <1>4, <1>5, <1>11
<1>16. \A k \in Writers' : writer_pc'[k] # "get" /\ writer_pc'[k] # "join"
  BY <1>2, <1>12 DEF WrittenInv
<1>17. WrittenInv'
  BY <1>1, <1>2, <1>13, <1>14, <1>15, <1>16 DEF WrittenInv
<1> QED
  BY <1>2, <1>10, <1>12, <1>17

LEMMA FlushWriteInv ==
  ASSUME CallInv, QueueTypes, WriterTypes, FuturesInv, WrittenInv, FlushWrite, UNCHANGED writerVars
  PROVE  WrittenInv'
<1>1. /\ QueueTypes' /\ next_id \in done /\ next_id \in ToSet(local)
      /\ At("write") => written' = Append(written, next_id)
      /\ ~At("write") => UNCHANGED written
  BY WriteTypes
<1>2. /\ next_id' = next_id + 1 /\ (At("write") \/ At("collect"))
      /\ UNCHANGED <<done, results, chunks, todo, direct, write_id, writer_pc>>
  BY DEF FlushWrite, queueVars, writerVars
<1>3. /\ At("write")' <=> At("write")
      /\ \A j \in Writers' : writer_pc'[j] = writer_pc[j]
      /\ Writers' = Writers /\ ToSet(results)' = ToSet(results)
  BY <1>2 DEF At, Writers
<1>4. /\ write_id' > 1 => write_id' <= Len(chunks)'
      /\ \A j \in Writers' : /\ writer_pc'[j] = "get" => write_id' \in ToSet(results)'
                             /\ writer_pc'[j] # "join"
      /\ \A j, k \in Writers' : writer_pc'[j] = "get" /\ writer_pc'[k] = "get" => j = k
  BY <1>2, <1>3 DEF WrittenInv
<1>5. CASE At("write")
  <2>1. ~direct
    BY <1>5, FrontStep
  <2>2. /\ ToSet(written') \subseteq done' /\ Len(written') = Len(written) + 1
        /\ \A i \in 1..Len(written) : written'[i] = written[i]
        /\ written'[Len(written) + 1] = next_id /\ Len(written) \in Nat
        /\ written \in Seq(Ids) /\ written' \in Seq(Ids)
    BY <1>1, <1>2, <1>5, WrittenGrows DEF WrittenInv
  <2>3. written = Upto(Len(written)) /\ next_id = Len(written) /\ write_id = 1
    BY <1>5, <2>1 DEF WrittenInv
  <2>4. PICK n \in Nat : n = Len(written)
    BY <2>2
  <2>5. written' = Upto(n + 1)
    <3>1. /\ Upto(n + 1) \in Seq(0..(n + 1 - 1)) /\ Len(Upto(n + 1)) = n + 1
          /\ \A i \in 1..(n + 1) : Upto(n + 1)[i] = i - 1
      <4>1. n + 1 \in Nat
        OBVIOUS
      <4> QED
        BY <4>1, UptoFacts
    <3>2. /\ Upto(n) \in Seq(0..(n - 1)) /\ Len(Upto(n)) = n
          /\ \A i \in 1..n : Upto(n)[i] = i - 1
      BY UptoFacts
    <3>3. PICK v : v = written'
      OBVIOUS
    <3>4. v \in Seq(Ids) /\ Len(v) = n + 1 /\ v[n + 1] = n
      BY <2>2, <2>3, <2>4, <3>3
    <3>5. \A i \in 1..n : v[i] = i - 1
      <4>1. \A i \in 1..n : v[i] = written[i]
        BY <2>2, <2>4, <3>3
      <4>2. written = Upto(n)
        BY <2>3, <2>4
      <4> QED
        BY <3>2, <4>1, <4>2
    <3>6. \A i \in 1..(n + 1) : i \in 1..n \/ i = n + 1
      OBVIOUS
    <3>7. \A i \in 1..(n + 1) : v[i] = i - 1
      BY <3>4, <3>5, <3>6
    <3>8. \A i \in 1..(n + 1) : v[i] \in Nat
      <4>1. \A i \in 1..(n + 1) : i - 1 \in Nat
        OBVIOUS
      <4> QED
        BY <3>7, <4>1
    <3>9. v \in Seq(Nat)
      <4>1. v \in [1..(n + 1) -> Nat]
        BY <3>4, <3>8, LenProperties
      <4> QED
        BY <4>1, FunctionIsSeq
    <3>10. Upto(n + 1) \in Seq(Nat)
      <4>1. 0..(n + 1 - 1) \subseteq Nat
        OBVIOUS
      <4> QED
        BY <3>1, <4>1, SeqGrows
    <3>11. v = Upto(n + 1)
      BY <3>1, <3>4, <3>7, <3>9, <3>10, SeqEqual
    <3> QED
      BY <3>3, <3>11
  <2>6. /\ written' = Upto(Len(written)') /\ write_id' = 1
        /\ At("write")' /\ next_id' = Len(written)'
    BY <1>2, <1>3, <1>5, <2>2, <2>3, <2>4, <2>5
  <2>7. ~direct'
    BY <1>2, <2>1
  <2> QED
    BY <1>4, <2>2, <2>6, <2>7 DEF WrittenInv, Upto
<1>6. CASE ~At("write")
  <2>1. direct
    BY <1>2, <1>6, FrontStep DEF StreamOps
  <2> QED
    BY <1>1, <1>2, <1>4, <1>6, <2>1 DEF WrittenInv
<1> QED
  BY <1>5, <1>6
-----------------------------------------------------------------------------
(* The bytes: one pair for each byte of a list of sizes.                   *)

Cells(f) == UNION {{i} \X (1..f[i]) : i \in DOMAIN f}

LEMMA InCells ==
  ASSUME NEW n \in Nat, NEW f, DOMAIN f = 1..n, NEW x
  PROVE  x \in Cells(f) <=> \E i \in 1..n : \E k \in 1..f[i] : x = <<i, k>>
BY DEF Cells

LEMMA SameSize ==
  ASSUME NEW S, NEW T, NEW f \in Bijection(S, T)
  PROVE  /\ IsFiniteSet(S) <=> IsFiniteSet(T)
         /\ IsFiniteSet(S) => Cardinality(S) = Cardinality(T)
<1>1. ExistsBijection(S, T)
  BY DEF ExistsBijection
<1>2. ExistsBijection(T, S)
  BY <1>1, Fun_ExistsBijSymmetric
<1> QED
  BY <1>1, <1>2, FS_Bijection

(* The list h is f and then g.                                             *)
Glued(f, g, h, m, n) ==
  /\ DOMAIN f = 1..m /\ DOMAIN g = 1..n /\ DOMAIN h = 1..(m + n)
  /\ \A i \in 1..m : h[i] = f[i]
  /\ \A i \in 1..n : h[m + i] = g[i]

LEMMA CellsJoin ==
  ASSUME NEW m \in Nat, NEW n \in Nat, NEW f, NEW g, NEW h, Glued(f, g, h, m, n)
  PROVE  /\ IsFiniteSet(Cells(h)) <=> IsFiniteSet(Cells(f)) /\ IsFiniteSet(Cells(g))
         /\ IsFiniteSet(Cells(h)) =>
              /\ Cardinality(Cells(h)) = Cardinality(Cells(f)) + Cardinality(Cells(g))
              /\ Cardinality(Cells(f)) \in Nat /\ Cardinality(Cells(g)) \in Nat
<1> DEFINE F == Cells(f)
           G == Cells(g)
           H == Cells(h)
           S == {x \in H : x[1] > m}
<1>0. /\ DOMAIN f = 1..m /\ DOMAIN g = 1..n /\ DOMAIN h = 1..(m + n)
      /\ \A i \in 1..m : h[i] = f[i]
      /\ \A i \in 1..n : h[m + i] = g[i]
  BY DEF Glued
<1>1. /\ \A x : x \in F <=> \E i \in 1..m : \E k \in 1..f[i] : x = <<i, k>>
      /\ \A x : x \in G <=> \E i \in 1..n : \E k \in 1..g[i] : x = <<i, k>>
  BY <1>0, InCells
<1>2. \A x : x \in H <=> \E i \in 1..(m + n) : \E k \in 1..h[i] : x = <<i, k>>
  <2>1. m + n \in Nat
    OBVIOUS
  <2> QED
    BY <1>0, <2>1, InCells
<1> HIDE DEF F, G, H
<1>3. ASSUME NEW x \in F PROVE x \in H /\ x \notin S
  <2>1. PICK i \in 1..m : \E k \in 1..f[i] : x = <<i, k>>
    BY <1>1
  <2>2. PICK k \in 1..f[i] : x = <<i, k>>
    BY <2>1
  <2>3. i \in 1..(m + n) /\ ~(i > m) /\ x[1] = i
    BY <2>2
  <2>4. k \in 1..h[i]
    BY <1>0
  <2> QED
    BY <1>2, <2>2, <2>3, <2>4
<1>4. ASSUME NEW x \in H, x \notin S PROVE x \in F
  <2>1. PICK i \in 1..(m + n) : \E k \in 1..h[i] : x = <<i, k>>
    BY <1>2
  <2>2. PICK k \in 1..h[i] : x = <<i, k>>
    BY <2>1
  <2>3. i \in 1..m
    BY <1>4, <2>2
  <2>4. k \in 1..f[i]
    BY <1>0, <2>3
  <2> QED
    BY <1>1, <2>2, <2>3, <2>4
<1> DEFINE q == [x \in G |-> <<m + x[1], x[2]>>]
<1>5. ASSUME NEW i \in 1..n, NEW k \in 1..g[i]
      PROVE  /\ <<i, k>> \in G /\ q[<<i, k>>] = <<m + i, k>> /\ <<m + i, k>> \in S
  <2>1. PICK x : x = <<i, k>>
    OBVIOUS
  <2>2. x \in G /\ x[1] = i /\ x[2] = k
    BY <1>1, <2>1
  <2>3. q[x] = <<m + i, k>>
    BY <2>2
  <2>4. m + i \in 1..(m + n) /\ m + i > m /\ k \in 1..h[m + i]
    BY <1>0
  <2>5. <<m + i, k>> \in H
    BY <1>2, <2>4
  <2>6. PICK z : z = <<m + i, k>>
    OBVIOUS
  <2>7. z \in S
    BY <2>4, <2>5, <2>6
  <2> QED
    BY <2>1, <2>2, <2>3, <2>6, <2>7
<1>6. q \in [G -> S]
  <2>1. ASSUME NEW x \in G PROVE q[x] \in S
    <3>1. PICK i \in 1..n : \E k \in 1..g[i] : x = <<i, k>>
      BY <1>1
    <3>2. PICK k \in 1..g[i] : x = <<i, k>>
      BY <3>1
    <3> HIDE DEF q, S
    <3> QED
      BY <1>5, <3>2
  <2>2. q = [x \in G |-> q[x]]
    OBVIOUS
  <2> HIDE DEF q, S
  <2> QED
    BY <2>1, <2>2
<1>7. ASSUME NEW x \in G, NEW y \in G, q[x] = q[y] PROVE x = y
  <2>1. PICK i \in 1..n : \E k \in 1..g[i] : x = <<i, k>>
    BY <1>1
  <2>2. PICK k \in 1..g[i] : x = <<i, k>>
    BY <2>1
  <2>3. PICK j \in 1..n : \E l \in 1..g[j] : y = <<j, l>>
    BY <1>1
  <2>4. PICK l \in 1..g[j] : y = <<j, l>>
    BY <2>3
  <2>5. q[x] = <<m + i, k>> /\ q[y] = <<m + j, l>>
    <3> HIDE DEF q, S
    <3> QED
      BY <1>5, <2>2, <2>4
  <2> HIDE DEF q, S
  <2>6. <<m + i, k>> = <<m + j, l>>
    BY <1>7, <2>5
  <2>7. m + i = m + j /\ k = l
    BY <2>6
  <2>8. i = j
    BY <2>7
  <2> QED
    BY <2>2, <2>4, <2>7, <2>8
<1>8. ASSUME NEW y \in S PROVE \E x \in G : q[x] = y
  <2>1. PICK i \in 1..(m + n) : \E k \in 1..h[i] : y = <<i, k>>
    BY <1>2
  <2>2. PICK k \in 1..h[i] : y = <<i, k>>
    BY <2>1
  <2>3. i > m
    BY <2>2
  <2>4. PICK j \in 1..n : i = m + j
    <3>1. i - m \in 1..n /\ i = m + (i - m)
      BY <2>3
    <3> QED
      BY <3>1
  <2>5. k \in 1..g[j]
    BY <1>0, <2>4
  <2> HIDE DEF q, S
  <2> QED
    BY <1>5, <2>2, <2>4, <2>5
<1> HIDE DEF q
<1>9. /\ IsFiniteSet(G) <=> IsFiniteSet(S)
      /\ IsFiniteSet(G) => Cardinality(G) = Cardinality(S)
  <2> HIDE DEF S
  <2>1. \A x, y \in G : q[x] = q[y] => x = y
    BY <1>7
  <2>2. \A y \in S : \E x \in G : q[x] = y
    BY <1>8
  <2>3. q \in Bijection(G, S)
    BY <1>6, <2>1, <2>2, Fun_IsBij
  <2> QED
    BY <2>3, SameSize
<1>10. S \subseteq H
  OBVIOUS
<1> HIDE DEF S
<1>11. H = F \cup S /\ F \cap S = {}
  BY <1>3, <1>4, <1>10
<1>12. ASSUME IsFiniteSet(H) PROVE IsFiniteSet(F) /\ IsFiniteSet(S)
  <2>1. F \in SUBSET H /\ S \in SUBSET H
    BY <1>11
  <2> QED
    BY <1>12, <2>1, FS_Subset
<1>13. ASSUME IsFiniteSet(F), IsFiniteSet(S)
       PROVE  /\ IsFiniteSet(H) /\ Cardinality(H) = Cardinality(F) + Cardinality(S)
              /\ Cardinality(F) \in Nat /\ Cardinality(S) \in Nat
  <2>1. /\ IsFiniteSet(F \cup S)
        /\ Cardinality(F \cup S) = Cardinality(F) + Cardinality(S) - Cardinality(F \cap S)
    BY <1>13, FS_Union
  <2>2. Cardinality(F \cap S) = 0
    BY <1>11, FS_EmptySet
  <2>3. Cardinality(F) \in Nat /\ Cardinality(S) \in Nat
    BY <1>13, FS_CardinalityType
  <2> QED
    BY <1>11, <2>1, <2>2, <2>3
<1>14. /\ IsFiniteSet(H) <=> IsFiniteSet(F) /\ IsFiniteSet(G)
       /\ IsFiniteSet(H) =>
            /\ Cardinality(H) = Cardinality(F) + Cardinality(G)
            /\ Cardinality(F) \in Nat /\ Cardinality(G) \in Nat
  BY <1>9, <1>12, <1>13
<1> QED
  BY <1>14 DEF F, G, H

LEMMA IntervalSize ==
  ASSUME NEW n \in Nat
  PROVE  IsFiniteSet(1..n) /\ Cardinality(1..n) = n
BY FS_Interval

LEMMA CellsOne ==
  ASSUME NEW n \in Nat, NEW f, DOMAIN f = 1..1, f[1] = n
  PROVE  IsFiniteSet(Cells(f)) /\ Cardinality(Cells(f)) = n
<1> DEFINE F == Cells(f)
           q == [k \in 1..n |-> <<1, k>>]
<1>1. \A x : x \in F <=> \E i \in 1..1 : \E k \in 1..f[i] : x = <<i, k>>
  <2>1. PICK m \in Nat : m = 1
    OBVIOUS
  <2>2. DOMAIN f = 1..m
    BY <2>1
  <2>3. \A x : x \in Cells(f) <=> \E i \in 1..m : \E k \in 1..f[i] : x = <<i, k>>
    BY <2>2, InCells
  <2> QED
    BY <2>1, <2>3
<1> HIDE DEF F
<1>2. \A x : x \in F <=> \E k \in 1..n : x = <<1, k>>
  <2>1. \A i \in 1..1 : i = 1
    OBVIOUS
  <2>2. 1 \in 1..1
    OBVIOUS
  <2> QED
    BY <1>1, <2>1, <2>2
<1>3. q \in [1..n -> F]
  BY <1>2
<1>4. \A k, l \in 1..n : q[k] = q[l] => k = l
  OBVIOUS
<1>5. \A x \in F : \E k \in 1..n : q[k] = x
  BY <1>2
<1> HIDE DEF q
<1>6. /\ IsFiniteSet(1..n) <=> IsFiniteSet(F)
      /\ IsFiniteSet(1..n) => Cardinality(1..n) = Cardinality(F)
  <2>1. q \in Bijection(1..n, F)
    BY <1>3, <1>4, <1>5, Fun_IsBij
  <2> QED
    BY <2>1, SameSize
<1> QED
  BY <1>6, IntervalSize DEF F

(* The pieces of a buffer have its bytes.                                  *)
LEMMA CellsPieces ==
  ASSUME NEW len \in Nat \ {0}, NEW t \in Nat \ {0}, t <= len,
         NEW n, n = NumChunks(len, t), NEW p, p = Pieces(len, t),
         NEW g, DOMAIN g = 1..n, \A i \in 1..n : g[i] = p[i].size
  PROVE  IsFiniteSet(Cells(g)) /\ Cardinality(Cells(g)) = len
<1> DEFINE B == Cells(g)
           In(b, i) == p[i].off <= b /\ b < p[i].off + p[i].size
<1>1. n \in Nat \ {0} /\ p \in [1..n -> [off : Nat, size : Nat \ {0}]]
  BY PiecesTile
<1>2. /\ \A i \in 1..n : p[i].off + p[i].size <= len
      /\ \A b \in 0..(len - 1) : \E i \in 1..n : In(b, i)
      /\ \A b \in 0..(len - 1) : \A i, j \in 1..n : In(b, i) /\ In(b, j) => i = j
  BY PiecesPartition
<1>3. DOMAIN g = 1..n /\ \A i \in 1..n : g[i] = p[i].size
  OBVIOUS
<1>4. \A i \in 1..n : p[i].off \in Nat /\ p[i].size \in Nat
  BY <1>1
<1>5. \A x : x \in B <=> \E i \in 1..n : \E k \in 1..p[i].size : x = <<i, k>>
  <2>1. \A x : x \in B <=> \E i \in 1..n : \E k \in 1..g[i] : x = <<i, k>>
    BY <1>1, InCells
  <2> HIDE DEF B
  <2> QED
    BY <1>3, <2>1
<1> HIDE DEF B
<1> DEFINE f == [x \in B |-> p[x[1]].off + x[2]]
<1>6. ASSUME NEW i \in 1..n, NEW k \in 1..p[i].size
      PROVE  /\ <<i, k>> \in B /\ f[<<i, k>>] = p[i].off + k /\ p[i].off + k \in 1..len
             /\ In(p[i].off + k - 1, i) /\ p[i].off + k - 1 \in 0..(len - 1)
  <2>1. PICK x : x = <<i, k>>
    OBVIOUS
  <2>2. x \in B /\ x[1] = i /\ x[2] = k
    BY <1>5, <2>1
  <2>3. f[x] = p[i].off + k
    BY <2>2
  <2> DEFINE u == p[i].off
             s == p[i].size
  <2>4. u \in Nat /\ s \in Nat /\ u + s <= len /\ k \in 1..s
    BY <1>2, <1>4
  <2> HIDE DEF u, s, f
  <2>5. u + k \in 1..len /\ u <= u + k - 1 /\ u + k - 1 < u + s /\ u + k - 1 \in 0..(len - 1)
    BY <2>4
  <2> QED
    BY <2>1, <2>2, <2>3, <2>5 DEF u, s
<1>7. f \in [B -> 1..len]
  <2>1. ASSUME NEW x \in B PROVE f[x] \in 1..len
    <3>1. PICK i \in 1..n : \E k \in 1..p[i].size : x = <<i, k>>
      BY <1>5
    <3>2. PICK k \in 1..p[i].size : x = <<i, k>>
      BY <3>1
    <3> HIDE DEF f
    <3> QED
      BY <1>6, <3>2
  <2>2. f = [x \in B |-> f[x]]
    OBVIOUS
  <2> HIDE DEF f
  <2> QED
    BY <2>1, <2>2
<1> HIDE DEF f
<1>8. ASSUME NEW x \in B, NEW y \in B, f[x] = f[y] PROVE x = y
  <2>1. PICK i \in 1..n : \E k \in 1..p[i].size : x = <<i, k>>
    BY <1>5
  <2>2. PICK k \in 1..p[i].size : x = <<i, k>>
    BY <2>1
  <2>3. PICK j \in 1..n : \E l \in 1..p[j].size : y = <<j, l>>
    BY <1>5
  <2>4. PICK l \in 1..p[j].size : y = <<j, l>>
    BY <2>3
  <2>5. f[x] = p[i].off + k /\ In(p[i].off + k - 1, i) /\ p[i].off + k - 1 \in 0..(len - 1)
    BY <1>6, <2>2
  <2>6. f[y] = p[j].off + l /\ In(p[j].off + l - 1, j)
    BY <1>6, <2>4
  <2>7. p[i].off + k = p[j].off + l
    BY <1>8, <2>5, <2>6
  <2>8. k \in Nat /\ l \in Nat /\ p[i].off \in Nat /\ p[j].off \in Nat
    BY <1>4
  <2>9. i = j
    <3>1. PICK b : b = p[i].off + k - 1
      OBVIOUS
    <3>2. b \in 0..(len - 1) /\ In(b, i)
      BY <2>5, <3>1
    <3>3. b = p[j].off + l - 1
      <4>1. PICK u \in Nat : u = p[i].off
        BY <2>8
      <4>2. PICK v \in Nat : v = p[j].off
        BY <2>8
      <4>3. u + k = v + l /\ b = u + k - 1 /\ k \in Nat /\ l \in Nat
        BY <2>7, <2>8, <3>1, <4>1, <4>2
      <4>4. b = v + l - 1
        BY <4>3
      <4> QED
        BY <4>2, <4>4
    <3>4. In(b, j)
      BY <2>6, <3>3
    <3> HIDE DEF In
    <3> QED
      BY <1>2, <3>2, <3>4
  <2>10. k = l
    BY <2>7, <2>8, <2>9
  <2> QED
    BY <2>2, <2>4, <2>9, <2>10
<1>9. ASSUME NEW b \in 1..len PROVE \E x \in B : f[x] = b
  <2>1. b - 1 \in 0..(len - 1)
    OBVIOUS
  <2>2. PICK i \in 1..n : In(b - 1, i)
    BY <1>2, <2>1
  <2> DEFINE k == b - p[i].off
  <2>3. k \in 1..p[i].size
    BY <1>4, <2>2
  <2>4. p[i].off + k = b
    BY <1>4
  <2> HIDE DEF k
  <2> QED
    BY <1>6, <2>3, <2>4
<1>10. f \in Bijection(B, 1..len)
  BY <1>7, <1>8, <1>9, Fun_IsBij
<1>11. IsFiniteSet(1..len) /\ Cardinality(1..len) = len
  BY IntervalSize
<1>12. IsFiniteSet(B) /\ Cardinality(B) = len
  BY <1>10, <1>11, SameSize
<1> QED
  BY <1>12 DEF B

(* The bytes that a list of steps has still to enqueue.                    *)
Asked(s) == IF s.op = "enqueue_task" THEN s.n ELSE 0
Asks(t)  == [i \in 1..Len(t) |-> Asked(t[i])]
Weighs(t, n) ==
  /\ IsFiniteSet(Cells(Asks(t)))
  /\ Cardinality(Cells(Asks(t))) = n

LEMMA WeighJoin ==
  ASSUME NEW s \in Seq(StepSet), NEW t \in Seq(StepSet), NEW u, u = s \o t,
         NEW a \in Nat, NEW b \in Nat, Weighs(s, a), Weighs(t, b)
  PROVE  u \in Seq(StepSet) /\ Weighs(u, a + b)
<1> DEFINE m == Len(s)
           n == Len(t)
           f == Asks(s)
           g == Asks(t)
           h == Asks(u)
<1>1. m \in Nat /\ n \in Nat
  BY LenProperties
<1>2. /\ u \in Seq(StepSet) /\ Len(u) = m + n
      /\ \A i \in 1..m : u[i] = s[i]
      /\ \A i \in 1..n : u[m + i] = t[i]
  BY Joined
<1>3. DOMAIN f = 1..m /\ DOMAIN g = 1..n /\ DOMAIN h = 1..(m + n)
  BY <1>2 DEF Asks
<1>4. \A i \in 1..m : h[i] = f[i]
  <2>1. \A i \in 1..m : i \in 1..(m + n)
    BY <1>1
  <2> QED
    BY <1>2, <2>1 DEF Asks
<1>5. \A i \in 1..n : h[m + i] = g[i]
  <2>1. \A i \in 1..n : m + i \in 1..(m + n)
    BY <1>1
  <2> QED
    BY <1>2, <2>1 DEF Asks
<1>6. /\ IsFiniteSet(Cells(f)) /\ Cardinality(Cells(f)) = a
      /\ IsFiniteSet(Cells(g)) /\ Cardinality(Cells(g)) = b
  BY DEF Weighs
<1> HIDE DEF m, n, f, g, h
<1>7. IsFiniteSet(Cells(h)) /\ Cardinality(Cells(h)) = a + b
  <2>1. Glued(f, g, h, m, n)
    BY <1>3, <1>4, <1>5 DEF Glued
  <2> QED
    BY <1>1, <1>6, <2>1, CellsJoin
<1> QED
  BY <1>2, <1>7 DEF Weighs, h

LEMMA WeighNone ==
  ASSUME NEW t \in Seq(StepSet), \A i \in 1..Len(t) : t[i].op # "enqueue_task"
  PROVE  Weighs(t, 0)
<1>1. Len(t) \in Nat
  BY LenProperties
<1>2. \A i \in 1..Len(t) : Asks(t)[i] = 0
  BY DEF Asks, Asked
<1>3. DOMAIN Asks(t) = 1..Len(t)
  BY DEF Asks
<1>4. Cells(Asks(t)) = {}
  <2>1. \A x : x \notin Cells(Asks(t))
    BY <1>1, <1>2, <1>3 DEF Cells
  <2> QED
    BY <2>1
<1> QED
  BY <1>4, FS_EmptySet DEF Weighs

LEMMA WeighOne ==
  ASSUME NEW s \in StepSet
  PROVE  Weighs(<<s>>, Asked(s)) /\ Asked(s) \in Nat
<1>1. PICK t : t = <<s>>
  OBVIOUS
<1>2. Len(t) = 1 /\ t[1] = s
  BY <1>1
<1>3. Asked(s) \in Nat
  BY DEF Asked, StepSet
<1>4. DOMAIN Asks(t) = 1..1 /\ Asks(t)[1] = Asked(s)
  BY <1>2 DEF Asks
<1>5. Weighs(t, Asked(s))
  BY <1>3, <1>4, CellsOne DEF Weighs
<1> QED
  BY <1>1, <1>3, <1>5

LEMMA WeighTail ==
  ASSUME NEW t \in Seq(StepSet), t # <<>>, NEW a \in Nat, Weighs(t, a)
  PROVE  \E b \in Nat : Weighs(Tail(t), b) /\ a = Asked(t[1]) + b
<1> DEFINE n == Len(t) - 1
           f == [i \in 1..1 |-> Asked(t[1])]
           v == Tail(t)
           g == Asks(v)
           h == Asks(t)
           k == Asked(t[1])
<1>1. /\ t[1] \in StepSet /\ Len(t) \in Nat \ {0}
      /\ v \in Seq(StepSet) /\ Len(v) = n
      /\ \A i \in 1..n : v[i] = t[i + 1]
  BY TailOf
<1>2. n \in Nat /\ Len(t) = 1 + n /\ k \in Nat
  <2>1. k \in Nat
    BY <1>1, WeighOne
  <2>2. n \in Nat /\ Len(t) = 1 + n
    BY <1>1
  <2> QED
    BY <2>1, <2>2
<1>3. DOMAIN f = 1..1 /\ f[1] = k /\ DOMAIN g = 1..n /\ DOMAIN h = 1..(1 + n)
  BY <1>1, <1>2 DEF Asks
<1>4. \A i \in 1..1 : h[i] = f[i]
  <2>1. 1 \in 1..Len(t)
    BY <1>1
  <2>2. \A i \in 1..1 : i = 1
    OBVIOUS
  <2> QED
    BY <2>1, <2>2 DEF Asks
<1>5. \A i \in 1..n : h[1 + i] = g[i]
  <2>1. \A i \in 1..n : i + 1 \in 1..Len(t) /\ i + 1 = 1 + i /\ i \in 1..Len(v)
    BY <1>1, <1>2
  <2> QED
    BY <1>1, <2>1 DEF Asks
<1>6. IsFiniteSet(Cells(h)) /\ Cardinality(Cells(h)) = a
  BY DEF Weighs
<1>7. PICK m \in Nat : m = 1
  OBVIOUS
<1>8. DOMAIN f = 1..m /\ DOMAIN h = 1..(m + n) /\ (\A i \in 1..m : h[i] = f[i])
      /\ (\A i \in 1..n : h[m + i] = g[i])
  BY <1>3, <1>4, <1>5, <1>7
<1> HIDE DEF n, f, g, h, k, v
<1>9. /\ IsFiniteSet(Cells(f)) /\ IsFiniteSet(Cells(g))
      /\ Cardinality(Cells(h)) = Cardinality(Cells(f)) + Cardinality(Cells(g))
      /\ Cardinality(Cells(g)) \in Nat
  <2>1. Glued(f, g, h, m, n)
    BY <1>3, <1>8 DEF Glued
  <2> QED
    BY <1>2, <1>6, <2>1, CellsJoin
<1>10. Cardinality(Cells(f)) = k
  BY <1>2, <1>3, CellsOne
<1>11. Weighs(v, Cardinality(Cells(g)))
  BY <1>9 DEF Weighs, g
<1>12. a = k + Cardinality(Cells(g))
  BY <1>6, <1>9, <1>10
<1> QED
  BY <1>9, <1>11, <1>12 DEF v, k

LEMMA AskedCells ==
  ASSUME NEW t \in Seq(StepSet)
  PROVE  UNION {{i} \X (1..t[i].n) : i \in {j \in DOMAIN t : t[j].op = "enqueue_task"}}
           = Cells(Asks(t))
<1> DEFINE P == {j \in DOMAIN t : t[j].op = "enqueue_task"}
           U == UNION {{i} \X (1..t[i].n) : i \in P}
           C == Cells(Asks(t))
<1>1. DOMAIN t = 1..Len(t)
  BY LenProperties
<1>2. /\ DOMAIN Asks(t) = 1..Len(t)
      /\ \A i \in 1..Len(t) : i \in P => Asks(t)[i] = t[i].n
      /\ \A i \in 1..Len(t) : i \notin P => Asks(t)[i] = 0
  BY <1>1 DEF Asks, Asked
<1> DEFINE a == Asks(t)
<1>3. \A x : x \in C <=> \E i \in 1..Len(t) : \E k \in 1..a[i] : x = <<i, k>>
  <2> HIDE DEF a
  <2>1. DOMAIN a = 1..Len(t)
    BY <1>2 DEF a
  <2> QED
    BY <2>1 DEF Cells, a
<1>4. \A x : x \in U <=> \E i \in P : \E k \in 1..t[i].n : x = <<i, k>>
  OBVIOUS
<1>5. P \subseteq 1..Len(t)
  BY <1>1
<1> HIDE DEF a, P, U, C
<1>6. ASSUME NEW x \in U PROVE x \in C
  <2>1. PICK i \in P : \E k \in 1..t[i].n : x = <<i, k>>
    BY <1>4
  <2>2. PICK k \in 1..t[i].n : x = <<i, k>>
    BY <2>1
  <2>3. i \in 1..Len(t) /\ a[i] = t[i].n
    BY <1>2, <1>5 DEF a
  <2> QED
    BY <1>3, <2>2, <2>3
<1>7. ASSUME NEW x \in C PROVE x \in U
  <2>1. PICK i \in 1..Len(t) : \E k \in 1..a[i] : x = <<i, k>>
    BY <1>3
  <2>2. PICK k \in 1..a[i] : x = <<i, k>>
    BY <2>1
  <2>3. i \in P
    <3>1. i \notin P => 1..a[i] = {}
      BY <1>2 DEF a
    <3> QED
      BY <2>2, <3>1
  <2>4. a[i] = t[i].n
    BY <1>2, <2>3 DEF a
  <2> QED
    BY <1>4, <2>2, <2>3, <2>4
<1> QED
  BY <1>6, <1>7 DEF P, U, C

LEMMA WeightOfCall ==
  ASSUME todo \in Seq(StepSet), BytesInv
  PROVE  /\ IsFiniteSet(Cells(chunks)) /\ Cardinality(Cells(chunks)) \in Nat
         /\ \E k \in Nat : Weighs(todo, k) /\ total = fill + Cardinality(Cells(chunks)) + k
<1>1. PendingBytes = Cells(Asks(todo))
  BY AskedCells DEF PendingBytes, Pending
<1>2. ChunkBytes = Cells(chunks)
  BY DEF ChunkBytes, Cells
<1>3. /\ IsFiniteSet(Cells(chunks)) /\ IsFiniteSet(Cells(Asks(todo)))
      /\ total = fill + Cardinality(Cells(chunks)) + Cardinality(Cells(Asks(todo)))
  BY <1>1, <1>2 DEF BytesInv
<1>4. Cardinality(Cells(chunks)) \in Nat /\ Cardinality(Cells(Asks(todo))) \in Nat
  BY <1>3, FS_CardinalityType
<1> QED
  BY <1>3, <1>4 DEF Weighs

LEMMA WeightOfRest ==
  ASSUME todo' \in Seq(StepSet), NEW k \in Nat, Weighs(todo', k),
         IsFiniteSet(Cells(chunks')), total' = fill' + Cardinality(Cells(chunks')) + k
  PROVE  BytesInv'
<1>1. PendingBytes' = Cells(Asks(todo'))
  BY AskedCells DEF PendingBytes, Pending
<1>2. ChunkBytes' = Cells(chunks')
  BY DEF ChunkBytes, Cells
<1> QED
  BY <1>1, <1>2 DEF BytesInv, Weighs

LEMMA SameWeight ==
  ASSUME NEW t, NEW a, NEW b, Weighs(t, a), Weighs(t, b)
  PROVE  a = b
BY DEF Weighs

(* A step that asks for nothing, at the front, or put there.               *)
LEMMA WeighPut ==
  ASSUME NEW t \in Seq(StepSet), NEW s \in StepSet, Asked(s) = 0, NEW k \in Nat,
         Weighs(t, k), NEW u, u = <<s>> \o t
  PROVE  u \in Seq(StepSet) /\ Weighs(u, k)
<1>1. PICK p : p = <<s>>
  OBVIOUS
<1>2. p \in Seq(StepSet) /\ Weighs(p, 0)
  BY <1>1, WeighOne
<1>3. u = p \o t /\ 0 + k = k /\ 0 \in Nat
  BY <1>1
<1>4. u \in Seq(StepSet) /\ Weighs(u, 0 + k)
  BY <1>2, <1>3, WeighJoin
<1> QED
  BY <1>3, <1>4

LEMMA BytesTail ==
  ASSUME todo \in Seq(StepSet), todo # <<>>, BytesInv, Asked(todo[1]) = 0,
         UNCHANGED <<fill, total, chunks>>,
         \/ todo' = Tail(todo)
         \/ \E s \in StepSet : /\ Asked(s) = 0
                               /\ todo' = <<s>> \o Tail(todo) \/ todo' = <<s>> \o todo
  PROVE  BytesInv'
<1>1. IsFiniteSet(Cells(chunks)) /\ Cardinality(Cells(chunks)) \in Nat
  BY WeightOfCall
<1>2. PICK k \in Nat : Weighs(todo, k) /\ total = fill + Cardinality(Cells(chunks)) + k
  BY WeightOfCall
<1>3. PICK b \in Nat : Weighs(Tail(todo), b) /\ k = Asked(todo[1]) + b
  BY <1>2, WeighTail
<1>4. b = k /\ Tail(todo) \in Seq(StepSet)
  BY <1>3, TailOf
<1>5. PICK t : t = Tail(todo)
  OBVIOUS
<1>6. todo' \in Seq(StepSet) /\ Weighs(todo', k)
  <2>1. CASE todo' = Tail(todo)
    BY <1>3, <1>4, <2>1
  <2>2. CASE \E s \in StepSet : /\ Asked(s) = 0
                                /\ todo' = <<s>> \o Tail(todo) \/ todo' = <<s>> \o todo
    <3>1. PICK s \in StepSet : /\ Asked(s) = 0
                               /\ todo' = <<s>> \o Tail(todo) \/ todo' = <<s>> \o todo
      BY <2>2
    <3>2. CASE todo' = <<s>> \o todo
      BY <1>2, <3>1, <3>2, WeighPut
    <3>3. CASE todo' = <<s>> \o Tail(todo)
      <4>1. todo' = <<s>> \o t /\ t \in Seq(StepSet) /\ Weighs(t, k)
        BY <1>3, <1>4, <1>5, <3>3
      <4> QED
        BY <3>1, <4>1, WeighPut
    <3> QED
      BY <3>1, <3>2, <3>3
  <2> QED
    BY <2>1, <2>2
<1>7. IsFiniteSet(Cells(chunks')) /\ total' = fill' + Cardinality(Cells(chunks')) + k
  BY <1>1, <1>2
<1> QED
  BY <1>6, <1>7, WeightOfRest

LEMMA BytesStay ==
  ASSUME BytesInv, UNCHANGED <<fill, total, chunks, todo>>
  PROVE  BytesInv'
BY DEF BytesInv, ChunkBytes, PendingBytes, Pending

(* The new chunks have the bytes that the step would enqueue.              *)
LEMMA BytesEnqueue ==
  ASSUME AreaTypes, QueueTypes, TodoInv, threads \in ThreadCounts, BytesInv, EnqueueTask
  PROVE  BytesInv'
<1>0. /\ todo \in Seq(StepSet) /\ At("enqueue_task") /\ UNCHANGED <<fill, total>>
      /\ fill \in Nat
  BY Constants DEF TodoInv, StepSet, EnqueueTask, areaVars, AreaTypes
<1>1. PICK n : n = NumChunks(Arg, threads)
  OBVIOUS
<1>2. PICK p : p = Pieces(Arg, threads)
  OBVIOUS
<1>3. /\ Arg \in Nat \ {0} /\ threads \in Nat \ {0} /\ threads <= Arg
      /\ n \in Nat \ {0} /\ p \in [1..n -> [off : Nat, size : Nat \ {0}]]
      /\ chunks' \in Seq(1..MaxBytes) /\ Len(chunks') = Len(chunks) + n
      /\ \A i \in 1..Len(chunks) : chunks'[i] = chunks[i]
      /\ \A i \in 1..n : chunks'[Len(chunks) + i] = p[i].size
      /\ todo' = <<StepWith("results", n)>> \o Tail(todo)
  BY <1>1, <1>2, EnqueueTaskEffect
<1>4. /\ Op(1) = "enqueue_task" /\ Arg = todo[1].n /\ todo # <<>>
  BY <1>0, AtFacts
<1>5. PICK g : g = [i \in 1..n |-> p[i].size]
  OBVIOUS
<1>6. DOMAIN g = 1..n /\ \A i \in 1..n : g[i] = p[i].size
  BY <1>5
<1>7. IsFiniteSet(Cells(g)) /\ Cardinality(Cells(g)) = Arg
  BY <1>1, <1>2, <1>3, <1>6, CellsPieces
<1>8. IsFiniteSet(Cells(chunks)) /\ Cardinality(Cells(chunks)) \in Nat
  BY <1>0, WeightOfCall
<1>9. PICK m \in Nat : m = Len(chunks) /\ DOMAIN chunks = 1..m
  BY LenProperties DEF QueueTypes
<1>10. DOMAIN chunks' = 1..(m + n)
  <2>1. DOMAIN chunks' = 1..Len(chunks')
    BY <1>3, LenProperties
  <2> QED
    BY <1>3, <1>9, <2>1
<1>11. Glued(chunks, g, chunks', m, n)
  BY <1>3, <1>6, <1>9, <1>10 DEF Glued
<1>12. /\ IsFiniteSet(Cells(chunks'))
       /\ Cardinality(Cells(chunks')) = Cardinality(Cells(chunks)) + Arg
  BY <1>3, <1>7, <1>8, <1>11, CellsJoin
<1>13. PICK k \in Nat : Weighs(todo, k) /\ total = fill + Cardinality(Cells(chunks)) + k
  BY <1>0, WeightOfCall
<1>14. PICK b \in Nat : Weighs(Tail(todo), b) /\ k = Asked(todo[1]) + b
  BY <1>0, <1>4, <1>13, WeighTail
<1>15. k = Arg + b
  BY <1>4, <1>14 DEF Asked, Op
<1>16. PICK s \in StepSet : s = StepWith("results", n) /\ Asked(s) = 0
  <2>1. n \in Nat /\ "results" \in StepOps
    BY <1>3 DEF StepOps
  <2>2. StepWith("results", n) \in StepSet /\ Asked(StepWith("results", n)) = 0
    BY <2>1 DEF StepWith, StepSet, Asked
  <2> QED
    BY <2>2
<1>17. PICK t : t = Tail(todo) /\ t \in Seq(StepSet)
  BY <1>0, <1>4, TailOf
<1>18. todo' \in Seq(StepSet) /\ Weighs(todo', b)
  <2>1. todo' = <<s>> \o t
    BY <1>3, <1>16, <1>17
  <2> QED
    BY <1>14, <1>16, <1>17, <2>1, WeighPut
<1>19. total' = fill' + Cardinality(Cells(chunks')) + b
  <2>1. PICK c \in Nat : c = Cardinality(Cells(chunks))
    BY <1>8
  <2>2. Cardinality(Cells(chunks')) = c + Arg /\ total = fill + c + (Arg + b)
    BY <1>12, <1>13, <1>15, <2>1
  <2>3. UNCHANGED <<fill, total>>
    BY <1>0
  <2>4. total' = fill' + c + (Arg + b)
    BY <2>2, <2>3
  <2> HIDE DEF Arg
  <2>5. PICK a \in Nat : a = Arg
    BY <1>3
  <2>6. PICK f \in Nat : f = fill'
    BY <1>0
  <2>7. f + c + (a + b) = f + (c + a) + b
    OBVIOUS
  <2> QED
    BY <2>2, <2>4, <2>5, <2>6, <2>7
<1> QED
  BY <1>12, <1>18, <1>19, WeightOfRest

(* No more bytes have come than there may be, and a chunk has at least     *)
(* one.                                                                    *)
LEMMA ChunksBounded ==
  ASSUME AreaTypes, QueueTypes, TodoInv, BytesInv
  PROVE  Len(chunks) <= MaxBytes
<1>1. todo \in Seq(StepSet) /\ total \in 0..MaxBytes /\ fill \in Nat
  BY Constants DEF TodoInv, StepSet, AreaTypes
<1>2. IsFiniteSet(Cells(chunks)) /\ Cardinality(Cells(chunks)) \in Nat
  BY <1>1, WeightOfCall
<1>3. PICK k \in Nat : total = fill + Cardinality(Cells(chunks)) + k
  BY <1>1, WeightOfCall
<1>4. PICK m \in Nat : m = Len(chunks) /\ DOMAIN chunks = 1..m
  BY LenProperties DEF QueueTypes
<1>5. \A i \in 1..m : chunks[i] \in Nat /\ chunks[i] >= 1
  BY <1>4, Constants DEF QueueTypes
<1>6. PICK f : f = [i \in 1..m |-> <<i, 1>>]
  OBVIOUS
<1>7. f \in Injection(1..m, Cells(chunks))
  <2>1. ASSUME NEW i \in 1..m PROVE f[i] \in Cells(chunks)
    <3>1. 1 \in 1..chunks[i]
      BY <1>5
    <3> QED
      BY <1>4, <1>6, <3>1, InCells
  <2>2. \A i, j \in 1..m : f[i] = f[j] => i = j
    BY <1>6
  <2>3. f \in [1..m -> Cells(chunks)]
    BY <1>6, <2>1
  <2> QED
    BY <2>2, <2>3 DEF Injection, IsInjective
<1>9. Cardinality(1..m) <= Cardinality(Cells(chunks))
  BY <1>2, <1>7, FS_Injection
<1>10. Cardinality(1..m) = m
  BY IntervalSize
<1>11. PICK c \in Nat : c = Cardinality(Cells(chunks))
  BY <1>2
<1>12. m <= c /\ total = fill + c + k
  BY <1>3, <1>9, <1>10, <1>11
<1> QED
  BY <1>1, <1>4, <1>11, <1>12, Constants

(* A call: what leaves the put area, or is new, is in its steps.           *)
LEMMA BytesCalled ==
  ASSUME AreaTypes, AreaTypes', todo = <<>>, BytesInv, UNCHANGED chunks,
         NEW k \in Nat, todo' \in Seq(StepSet), Weighs(todo', k),
         total' + fill = total + fill' + k
  PROVE  BytesInv'
<1>1. fill \in Nat /\ total \in Nat
  BY Constants DEF AreaTypes
<1>2. todo \in Seq(StepSet) /\ \A i \in 1..Len(todo) : todo[i].op # "enqueue_task"
  OBVIOUS
<1>3. Weighs(todo, 0)
  BY <1>2, WeighNone
<1>4. PICK j \in Nat : Weighs(todo, j) /\ total = fill + Cardinality(Cells(chunks)) + j
  BY <1>2, WeightOfCall
<1>5. j = 0
  BY <1>3, <1>4, SameWeight
<1>6. PICK c \in Nat : c = Cardinality(Cells(chunks)) /\ c = Cardinality(Cells(chunks'))
  BY <1>2, WeightOfCall
<1>7. IsFiniteSet(Cells(chunks'))
  BY <1>2, WeightOfCall
<1>8. PICK f \in Nat : f = fill
  BY <1>1
<1>9. total = f + c
  BY <1>4, <1>5, <1>6, <1>8
<1>10. PICK g \in Nat, u \in Nat : g = fill' /\ u = total'
  BY Constants DEF AreaTypes
<1>11. u + f = f + c + g + k
  BY <1>8, <1>9, <1>10
<1>12. u = g + c + k
  BY <1>11
<1> QED
  BY <1>6, <1>7, <1>10, <1>12, WeightOfRest

LEMMA OneStep ==
  ASSUME NEW s \in StepSet, NEW k, Asked(s) = k
  PROVE  \E t \in Seq(StepSet) : t = <<s>> /\ Weighs(t, k)
<1>1. <<s>> \in Seq(StepSet)
  OBVIOUS
<1>2. Weighs(<<s>>, k)
  BY WeighOne
<1> QED
  BY <1>1, <1>2

LEMMA WeighTwo ==
  ASSUME NEW s \in Seq(StepSet), NEW t \in Seq(StepSet),
         NEW a \in Nat, NEW b \in Nat, NEW k, k = a + b, Weighs(s, a), Weighs(t, b)
  PROVE  \E u \in Seq(StepSet) : u = s \o t /\ Weighs(u, k)
<1>1. PICK u : u = s \o t
  OBVIOUS
<1>2. u \in Seq(StepSet) /\ Weighs(u, a + b)
  BY <1>1, WeighJoin
<1> QED
  BY <1>1, <1>2

(* The weights of the lists that calls are made of.                        *)
LEMMA CallWeights ==
  ASSUME AreaTypes, threads \in ThreadCounts, fill <= total
  PROVE  /\ fill \in Nat
         /\ FlushBuffer \in Seq(StepSet) /\ Weighs(FlushBuffer, fill)
         /\ FinishUp \in Seq(StepSet) /\ Weighs(FinishUp, 0)
         /\ SyncAll \in Seq(StepSet) /\ Weighs(SyncAll, fill)
         /\ ModFunctionSteps \in Seq(StepSet) /\ Weighs(ModFunctionSteps, 0)
<1>1. fill \in Nat /\ Plain \subseteq StepSet
  BY Constants DEF AreaTypes, Plain, Callable
<1>2. /\ StepWith("enqueue_task", fill) \in StepSet /\ Step("flush_to") \in StepSet
      /\ StepWith("grow", threads) \in StepSet
  BY <1>1, PlainSteps
<1>3. /\ Asked(StepWith("enqueue_task", fill)) = fill /\ Asked(Step("flush_to")) = 0
      /\ Asked(StepWith("grow", threads)) = 0
  BY DEF Asked, StepWith, Step
<1>4. PICK e \in Seq(StepSet) : e = <<StepWith("enqueue_task", fill)>> /\ Weighs(e, fill)
  BY <1>2, <1>3, OneStep
<1>5. PICK f \in Seq(StepSet) : f = <<Step("flush_to")>> /\ Weighs(f, 0)
  BY <1>2, <1>3, OneStep
<1>6. PICK g \in Seq(StepSet) : g = <<StepWith("grow", threads)>> /\ Weighs(g, 0)
  BY <1>2, <1>3, OneStep
<1>7. PICK n \in Seq(StepSet) : n = <<>> /\ Weighs(n, 0)
  <2>1. <<>> \in Seq(StepSet) /\ \A i \in 1..Len(<<>>) : <<>>[i].op # "enqueue_task"
    OBVIOUS
  <2> QED
    BY <2>1, WeighNone
<1>8. FinishUp \in Seq(StepSet)
  <2>1. FinishUp \in Seq(Plain)
    BY PlainLists
  <2> QED
    BY <1>1, <2>1, SeqGrows
<1>9. Weighs(FinishUp, 0)
  <2>1. \A i \in 1..Len(FinishUp) : i = 1 \/ i = 2 \/ i = 3
    BY DirectLists
  <2>2. \A i \in 1..Len(FinishUp) : FinishUp[i].op # "enqueue_task"
    BY <2>1, DirectLists
  <2> QED
    BY <1>8, <2>2, WeighNone
<1>10. PICK u \in Seq(StepSet) : u = FinishUp /\ Weighs(u, 0)
  BY <1>8, <1>9
<1>11. PICK b \in Seq(StepSet) : b = FlushBuffer /\ Weighs(b, fill)
  <2>1. CASE continues
    <3>1. FlushBuffer = n \o e
      BY <1>4, <1>7, <2>1 DEF FlushBuffer
    <3>2. fill = 0 + fill
      BY <1>1
    <3> QED
      BY <1>1, <1>4, <1>7, <3>1, <3>2, WeighTwo
  <2>2. CASE ~continues
    <3>1. FlushBuffer = f \o e
      BY <1>4, <1>5, <2>2 DEF FlushBuffer
    <3>2. fill = 0 + fill
      BY <1>1
    <3> QED
      BY <1>1, <1>4, <1>5, <3>1, <3>2, WeighTwo
  <2> QED
    BY <2>1, <2>2
<1>12. PICK v \in Seq(StepSet) : v = b \o u /\ Weighs(v, fill)
  <2>1. fill = fill + 0
    BY <1>1
  <2> QED
    BY <1>1, <1>10, <1>11, <2>1, WeighTwo
<1>13. SyncAll = v \o f
  BY <1>5, <1>10, <1>11, <1>12, PlainLists
<1>14. SyncAll \in Seq(StepSet) /\ Weighs(SyncAll, fill)
  <2>1. fill = fill + 0
    BY <1>1
  <2> QED
    <3>1. PICK w \in Seq(StepSet) : w = v \o f /\ Weighs(w, fill)
      BY <1>1, <1>5, <1>12, <2>1, WeighTwo
    <3> QED
      BY <1>13, <3>1
<1>15. ModFunctionSteps = u \o g
  BY <1>6, <1>10 DEF ModFunctionSteps
<1>16. ModFunctionSteps \in Seq(StepSet) /\ Weighs(ModFunctionSteps, 0)
  <2>1. 0 = 0 + 0
    OBVIOUS
  <2> QED
    <3>1. PICK w \in Seq(StepSet) : w = u \o g /\ Weighs(w, 0)
      BY <1>6, <1>10, <2>1, WeighTwo
    <3> QED
      BY <1>15, <3>1
<1> QED
  BY <1>1, <1>10, <1>11, <1>14, <1>16

LEMMA WriteBytes ==
  ASSUME AreaTypes, threads \in ThreadCounts, fill <= total, todo = <<>>,
         BytesInv, UNCHANGED chunks, NEW n \in Nat, n > 0, Write(n)
  PROVE  BytesInv'
<1>1. AreaTypes' /\ fill \in Nat /\ fill' \in Nat /\ total \in Nat /\ total' = total + n
  BY WriteArea, Constants DEF AreaTypes, Write
<1>2. n <= MaxBytes
  BY <1>1, Constants DEF Write
<1>3. PICK b \in Seq(StepSet) : b = FlushBuffer /\ Weighs(b, fill)
  BY CallWeights
<1>4. PICK e \in Seq(StepSet) : e = <<>> /\ Weighs(e, 0)
  <2>1. <<>> \in Seq(StepSet) /\ \A i \in 1..Len(<<>>) : <<>>[i].op # "enqueue_task"
    OBVIOUS
  <2> QED
    BY <2>1, WeighNone
<1>5. PICK g \in Seq(StepSet) : g = <<StepWith("enqueue_task", n)>> /\ Weighs(g, n)
  <2>1. StepWith("enqueue_task", n) \in StepSet
    BY <1>2, PlainSteps DEF Plain, Callable
  <2>2. Asked(StepWith("enqueue_task", n)) = n
    BY DEF Asked, StepWith
  <2> QED
    BY <2>1, <2>2, OneStep
<1>6. CASE n <= size - fill
  <2>1. fill' = fill + n
    BY <1>1, <1>6, WriteArea
  <2>2. todo' = e
    BY <1>4, <1>6 DEF Write, Call
  <2>3. total' + fill = total + fill' + 0
    BY <1>1, <2>1
  <2> QED
    BY <1>1, <1>4, <2>2, <2>3, BytesCalled
<1>7. CASE ~(n <= size - fill) /\ n > size
  <2>1. fill' = 0
    BY <1>1, <1>7, WriteArea
  <2>2. todo' = b \o g
    BY <1>3, <1>5, <1>7 DEF Write, Call
  <2>3. PICK k \in Nat : k = fill + n
    BY <1>1
  <2>4. PICK w \in Seq(StepSet) : w = b \o g /\ Weighs(w, k)
    BY <1>1, <1>3, <1>5, <2>3, WeighTwo
  <2>5. total' + fill = total + fill' + k
    BY <1>1, <2>1, <2>3
  <2> QED
    BY <1>1, <2>2, <2>4, <2>5, BytesCalled
<1>8. CASE ~(n <= size - fill) /\ ~(n > size)
  <2>1. fill' = n
    BY <1>1, <1>8, WriteArea
  <2>2. todo' = b \o e
    BY <1>3, <1>4, <1>8 DEF Write, Call
  <2>3. fill = fill + 0
    BY <1>1
  <2>4. PICK w \in Seq(StepSet) : w = b \o e /\ Weighs(w, fill)
    BY <1>1, <1>3, <1>4, <2>3, WeighTwo
  <2>5. total' + fill = total + fill' + fill
    BY <1>1, <2>1
  <2> QED
    BY <1>1, <2>2, <2>4, <2>5, BytesCalled
<1> QED
  BY <1>6, <1>7, <1>8

(* The calls that only enqueue the put area, or nothing.                   *)
LEMMA SyncBytes ==
  ASSUME AreaTypes, AreaTypes', threads \in ThreadCounts, fill <= total, todo = <<>>, BytesInv,
         UNCHANGED <<chunks, total>>, fill' = 0, NEW r \in Seq(StepSet), Weighs(r, 0),
         todo' = SyncAll \o r
  PROVE  BytesInv'
<1>1. fill \in Nat /\ total \in Nat
  BY Constants DEF AreaTypes
<1>2. PICK v \in Seq(StepSet) : v = SyncAll /\ Weighs(v, fill)
  BY CallWeights
<1>3. fill = fill + 0
  BY <1>1
<1>4. PICK w \in Seq(StepSet) : w = v \o r /\ Weighs(w, fill)
  BY <1>1, <1>2, <1>3, WeighTwo
<1>5. todo' = w
  BY <1>2, <1>4
<1>6. total' + fill = total + fill' + fill /\ fill' \in Nat
  BY <1>1
<1> QED
  BY <1>1, <1>4, <1>5, <1>6, BytesCalled

LEMMA StreamBytes ==
  ASSUME AreaTypes, AreaTypes', ThreadTypes, fill <= total, todo = <<>>, BytesInv,
         UNCHANGED chunks, Calls
  PROVE  BytesInv'
<1>1. fill \in Nat /\ total \in Nat /\ threads \in ThreadCounts
  BY Constants DEF AreaTypes, ThreadTypes
<1>2. CASE \E n \in WriteSizes : Write(n)
  BY <1>1, <1>2, WriteBytes, Constants
<1>3. CASE Overflow
  BY <1>1, <1>3, WriteBytes DEF Overflow
<1>4. CASE Sync \/ \E n \in BufferSizes : SetBufferSize(n)
  <2>1. UNCHANGED total /\ fill' = 0 /\ todo' = SyncAll
    BY <1>4 DEF Sync, SetBufferSize, Call
  <2>2. SyncAll \in Seq(StepSet) /\ Weighs(SyncAll, fill)
    BY <1>1, CallWeights
  <2>3. total' + fill = total + fill' + fill /\ fill' \in Nat
    BY <1>1, <2>1
  <2> QED
    BY <1>1, <2>1, <2>2, <2>3, BytesCalled
<1>5. CASE SetModFunction
  <2>1. UNCHANGED total /\ fill' = 0 /\ todo' = SyncAll \o ModFunctionSteps
    BY <1>5 DEF SetModFunction, Call
  <2>2. ModFunctionSteps \in Seq(StepSet) /\ Weighs(ModFunctionSteps, 0)
    BY <1>1, CallWeights
  <2> QED
    BY <1>1, <2>1, <2>2, SyncBytes
<1>6. CASE Destroy
  <2>1. UNCHANGED total /\ fill' = 0
        /\ todo' = (SyncAll \o FinishUp) \o <<Step("destroyed")>>
    BY <1>6 DEF Destroy, Call
  <2>2. PICK e \in Seq(StepSet) : e = <<Step("destroyed")>> /\ Weighs(e, 0)
    <3>1. Step("destroyed") \in StepSet /\ Asked(Step("destroyed")) = 0
      BY DEF Step, StepSet, StepOps, Asked
    <3> QED
      BY <3>1, OneStep
  <2>3. PICK u \in Seq(StepSet) : u = FinishUp /\ Weighs(u, 0)
    BY <1>1, CallWeights
  <2>4. PICK r \in Seq(StepSet) : r = u \o e /\ Weighs(r, 0)
    <3>1. 0 = 0 + 0
      OBVIOUS
    <3> QED
      BY <2>2, <2>3, <3>1, WeighTwo
  <2>5. PICK v \in Seq(StepSet) : v = SyncAll
    BY <1>1, CallWeights
  <2>6. (v \o u) \o e = v \o (u \o e)
    BY <2>2, <2>3, <2>5, ConcatAssociative
  <2>7. todo' = SyncAll \o r
    BY <2>1, <2>2, <2>3, <2>4, <2>5, <2>6
  <2> QED
    BY <1>1, <2>1, <2>4, <2>7, SyncBytes
<1>7. CASE \E n \in ThreadCounts : SetThreads(n)
  <2>1. PICK n \in ThreadCounts : SetThreads(n)
    BY <1>7
  <2>2. todo' = <<StepWith("shrink", n), StepWith("grow", n), StepWith("threads", n)>>
        /\ UNCHANGED <<fill, total>>
    BY <2>1 DEF SetThreads, SetThreadsSteps, Call
  <2>3. todo' \in Seq(StepSet)
    BY <2>1, SetThreadsCall, SeqGrows DEF Callable
  <2>4. \A i \in 1..Len(todo') : todo'[i].op # "enqueue_task"
    BY <2>2 DEF StepWith
  <2>5. Weighs(todo', 0)
    BY <2>3, <2>4, WeighNone
  <2>6. total' + fill = total + fill' + 0 /\ fill' \in Nat
    BY <1>1, <2>2
  <2> QED
    BY <2>3, <2>5, <2>6, BytesCalled
<1> QED
  BY <1>2, <1>3, <1>4, <1>5, <1>6, <1>7 DEF Calls

LEMMA DirectBytes ==
  ASSUME AreaTypes, AreaTypes', todo = <<>>, BytesInv, UNCHANGED chunks, DirectCalls
  PROVE  BytesInv'
<1>1. fill \in Nat /\ total \in Nat
  BY Constants DEF AreaTypes
<1>2. PICK c \in Seq(StepSet) : c = ContinueSteps /\ Weighs(c, 0)
  <2>1. ContinueSteps \in Seq(StepSet)
    BY DirectLists, SeqGrows DEF Callable
  <2>2. \A i \in 1..Len(ContinueSteps) : ContinueSteps[i].op # "enqueue_task"
    BY DirectLists
  <2> QED
    BY <2>1, <2>2, WeighNone
<1>3. CASE \E n \in WriteSizes : EnqueueAndContinue(n)
  <2>1. PICK n \in WriteSizes : EnqueueAndContinue(n)
    BY <1>3
  <2>2. n \in Nat /\ n <= MaxBytes /\ total' = total + n /\ fill' = fill
        /\ todo' = <<StepWith("enqueue_task", n)>> \o ContinueSteps
    BY <1>1, <2>1, Constants DEF EnqueueAndContinue, Call
  <2>3. PICK g \in Seq(StepSet) : g = <<StepWith("enqueue_task", n)>> /\ Weighs(g, n)
    <3>1. StepWith("enqueue_task", n) \in StepSet /\ Asked(StepWith("enqueue_task", n)) = n
      BY <2>2 DEF Asked, StepWith, StepSet, StepOps
    <3> QED
      BY <3>1, OneStep
  <2>4. n = n + 0
    BY <2>2
  <2>5. PICK w \in Seq(StepSet) : w = g \o c /\ Weighs(w, n)
    BY <1>2, <2>2, <2>3, <2>4, WeighTwo
  <2>6. todo' = w
    BY <1>2, <2>2, <2>3, <2>5
  <2>7. total' + fill = total + fill' + n /\ fill' \in Nat
    BY <1>1, <2>2
  <2> QED
    BY <2>2, <2>5, <2>6, <2>7, BytesCalled
<1>4. ASSUME NEW w \in Seq(StepSet), Weighs(w, 0), todo' = w, UNCHANGED <<fill, total>>
      PROVE  BytesInv'
  <2>1. total' + fill = total + fill' + 0 /\ fill' \in Nat
    BY <1>1, <1>4
  <2> QED
    BY <1>4, <2>1, BytesCalled
<1>5. CASE Flush
  <2>1. todo' = <<Step("flush")>> /\ UNCHANGED <<fill, total>>
    BY <1>5 DEF Flush, Call, areaVars
  <2>2. Step("flush") \in StepSet /\ Asked(Step("flush")) = 0
    BY DEF Step, StepSet, StepOps, Asked
  <2> QED
    BY <1>4, <2>1, <2>2, OneStep
<1>6. CASE DestroyModifier
  <2>1. todo' = FinishUp \o <<Step("destroyed")>> /\ UNCHANGED <<fill, total>>
    BY <1>6 DEF DestroyModifier, Call, areaVars
  <2>2. PICK e \in Seq(StepSet) : e = <<Step("destroyed")>> /\ Weighs(e, 0)
    <3>1. Step("destroyed") \in StepSet /\ Asked(Step("destroyed")) = 0
      BY DEF Step, StepSet, StepOps, Asked
    <3> QED
      BY <3>1, OneStep
  <2>3. PICK u \in Seq(StepSet) : u = FinishUp /\ Weighs(u, 0)
    <3>1. FinishUp \in Seq(StepSet)
      BY DirectLists, SeqGrows DEF Callable
    <3>2. \A i \in 1..Len(FinishUp) : i = 1 \/ i = 2 \/ i = 3
      BY DirectLists
    <3>3. \A i \in 1..Len(FinishUp) : FinishUp[i].op # "enqueue_task"
      BY <3>2, DirectLists
    <3> QED
      BY <3>1, <3>3, WeighNone
  <2>4. PICK r \in Seq(StepSet) : r = u \o e /\ Weighs(r, 0)
    <3>1. 0 = 0 + 0
      OBVIOUS
    <3> QED
      BY <2>2, <2>3, <3>1, WeighTwo
  <2>5. todo' = r
    BY <2>1, <2>2, <2>3, <2>4
  <2> QED
    BY <1>4, <2>1, <2>4, <2>5
<1> QED
  BY <1>3, <1>5, <1>6 DEF DirectCalls
-----------------------------------------------------------------------------
(* Every step keeps the invariant: one lemma for each kind of step.        *)

LEMMA Parts ==
  ASSUME ModifierInv
  PROVE  /\ AreaTypes /\ QueueTypes /\ ThreadTypes /\ WriterTypes /\ CallInv
         /\ TasksInv /\ FuturesInv /\ WrittenInv /\ BytesInv
         /\ TodoInv /\ todo \in Seq(StepSet) /\ fill <= total
BY TypesSplit DEF ModifierInv, CallInv, TodoInv, StepSet

LEMMA PartsNext ==
  ASSUME AreaTypes', QueueTypes', ThreadTypes', WriterTypes', CallInvNext,
         TasksInv', FuturesInv', WrittenInv', BytesInv'
  PROVE  ModifierInv'
BY TypesSplitNext DEF ModifierInv, CallInvNext

LEMMA WrittenSame ==
  ASSUME WrittenInv, WriterTypes, UNCHANGED <<written, next_id, chunks, results, writerVars>>,
         done \subseteq done', QueueTypes, At("write")' <=> At("write")
  PROVE  WrittenInv'
<1>1. UNCHANGED <<written, direct, write_id, writer_pc>> /\ Writers' = Writers
  BY DEF writerVars, Writers
<1>2. Len(chunks) \in Nat /\ Len(chunks') = Len(chunks)
  BY LenChunks
<1>3. ~direct => /\ At("write")' => next_id' = Len(written)
                 /\ written # <<>> => At("write")'
  BY DEF WrittenInv
<1>4. \A j \in Writers' : /\ writer_pc'[j] # "join"
                          /\ writer_pc'[j] = "get" => j \in Writers /\ writer_pc[j] = "get"
  BY <1>1 DEF WrittenInv
<1>5. ToSet(results) \subseteq ToSet(results')
  OBVIOUS
<1> QED
  BY <1>1, <1>2, <1>3, <1>4, <1>5, WrittenStay

(* What keeps the types of a part.                                         *)
LEMMA SameTypes ==
  /\ AreaTypes /\ UNCHANGED areaVars => AreaTypes'
  /\ WriterTypes /\ UNCHANGED writerVars => WriterTypes'
  /\ ThreadTypes /\ UNCHANGED <<stop, threadVars, workerVars>> => ThreadTypes'
<1>1. AreaTypes /\ UNCHANGED areaVars => AreaTypes'
  BY DEF AreaTypes, areaVars
<1>2. WriterTypes /\ UNCHANGED writerVars => WriterTypes'
  BY DEF WriterTypes, writerVars, Writers
<1>3. ThreadTypes /\ UNCHANGED <<stop, threadVars, workerVars>> => ThreadTypes'
  BY DEF ThreadTypes, threadVars, workerVars
<1> QED
  BY <1>1, <1>2, <1>3

LEMMA StutterInv ==
  ASSUME ModifierInv, UNCHANGED allVars
  PROVE  ModifierInv'
<1>1. /\ AreaTypes /\ QueueTypes /\ ThreadTypes /\ WriterTypes /\ CallInv
      /\ TasksInv /\ FuturesInv /\ WrittenInv /\ BytesInv
  BY Parts
<1>2. /\ UNCHANGED <<areaVars, queueVars, flushVars, threadVars, workerVars, writerVars>>
      /\ UNCHANGED <<tasks, done, stop, todo>>
  BY DEF allVars, vars, modifierVars
<1>3. /\ UNCHANGED <<chunks, results, local, next_id, written, hand>>
      /\ UNCHANGED <<fill, total, direct, threads, running, writer_pc>>
  BY <1>2 DEF areaVars, queueVars, flushVars, threadVars, workerVars, writerVars
<1>4. AreaTypes' /\ WriterTypes' /\ ThreadTypes'
  BY <1>1, <1>2, SameTypes
<1>5. QueueTypes'
  BY <1>1, <1>2, <1>3, QueueSteps
<1>6. \A op : At(op)' <=> At(op)
  BY <1>2 DEF At
<1>7. Taking' = Taking /\ ToCome' = ToCome
  BY <1>2, <1>6 DEF Taking, ToCome, At, Arg
<1>8. CallInvNext
  BY <1>1, <1>2, <1>3, StayCall
<1>9. TasksInv'
  BY <1>1, <1>2, <1>3, TasksStay
<1>10. FuturesInv'
  BY <1>1, <1>3, <1>7, FuturesStay
<1>11. WrittenInv'
  BY <1>1, <1>2, <1>3, <1>6, WrittenSame
<1>12. BytesInv'
  BY <1>1, <1>2, <1>3, BytesStay
<1> QED
  BY <1>4, <1>5, <1>8, <1>9, <1>10, <1>11, <1>12, PartsNext

LEMMA CallStarts ==
  ASSUME CallStep
  PROVE  todo = <<>>
BY DEF CallStep, Calls, DirectCalls, Write, Overflow, Sync, SetModFunction, Destroy,
       SetBufferSize, SetThreads, EnqueueAndContinue, Flush, DestroyModifier, Call

LEMMA CallStepInv ==
  ASSUME ModifierInv, CallStep, UNCHANGED <<modifierVars, continues, writerVars>>
  PROVE  ModifierInv'
<1>1. /\ AreaTypes /\ QueueTypes /\ ThreadTypes /\ WriterTypes /\ CallInv
      /\ TasksInv /\ FuturesInv /\ WrittenInv /\ BytesInv /\ fill <= total
  BY Parts
<1>2. /\ UNCHANGED <<queueVars, flushVars, threadVars, workerVars, writerVars>>
      /\ UNCHANGED <<tasks, done, stop>>
  BY DEF modifierVars
<1>3. /\ UNCHANGED <<chunks, results, local, next_id, written, hand>>
      /\ UNCHANGED <<direct, threads, running, writer_pc>>
  BY <1>2 DEF queueVars, flushVars, threadVars, workerVars, writerVars
<1>4. todo = <<>>
  BY CallStarts
<1>5. AreaTypes' /\ fill' <= total'
  BY <1>1, CallArea
<1>6. WriterTypes' /\ ThreadTypes'
  BY <1>1, <1>2, SameTypes
<1>7. QueueTypes'
  BY <1>1, <1>2, <1>3, QueueSteps
<1>8. threads \in ThreadCounts
  BY <1>1 DEF ThreadTypes
<1>9. todo' \in Seq(Callable) /\ StreamInv' /\ DirectInv'
  <2>1. CASE ~direct /\ Calls
    <3>1. DirectInv'
      BY <1>3, <2>1 DEF DirectInv
    <3> QED
      BY <1>1, <1>4, <1>8, <2>1, <3>1, StreamCall
  <2>2. CASE DirectCalls
    BY <1>1, <2>2, DirectCall DEF CallInv
  <2> QED
    BY <2>1, <2>2 DEF CallStep
<1>10. TodoInv' /\ \A op \in InFront : ~At(op)'
  BY <1>5, <1>9, CallableTodo
<1>11. ~Taking' /\ ToCome' = 0 /\ ~At("write")'
  BY <1>10, ReturnedNotTaking
<1>12. ~Taking /\ ToCome = 0 /\ ~At("write")
  BY <1>4 DEF Taking, ToCome, At
<1>13. CallInvNext
  BY <1>9, <1>10 DEF CallInvNext
<1>14. TasksInv'
  BY <1>1, <1>2, <1>3, TasksStay
<1>15. FuturesInv'
  BY <1>1, <1>3, <1>11, <1>12, FuturesStay
<1>16. WrittenInv'
  BY <1>1, <1>2, <1>3, <1>11, <1>12, WrittenSame
<1>17. BytesInv'
  BY <1>1, <1>3, <1>4, <1>5, <1>8, StreamBytes, DirectBytes DEF CallStep
<1> QED
  BY <1>5, <1>6, <1>7, <1>13, <1>14, <1>15, <1>16, <1>17, PartsNext

(* The steps that only move the call on.                                   *)
LEMMA MovedOn ==
  ASSUME CallInv, WriterTypes, BytesInv, UNCHANGED <<areaVars, queueVars, direct>>,
         NEW op, At(op), op \notin {"results", "write", "collect"}, Asked(todo[1]) = 0,
         \/ Return
         \/ \E s \in StepSet :
              /\ Asked(s) = 0 /\ s.op = "join"
              /\ todo' = <<s>> \o Tail(todo) \/ todo' = <<s>> \o todo
  PROVE  /\ BytesInv' /\ ~Taking /\ ToCome = 0 /\ ~At("write")
         /\ ~Taking' /\ ToCome' = 0 /\ ~At("write")'
<1>1. todo \in Seq(StepSet) /\ todo # <<>> /\ TodoInv
  BY FrontStep DEF CallInv
<1>2. ~Taking /\ ToCome = 0 /\ ~At("write")
  BY DEF At, Taking, ToCome
<1>3. UNCHANGED <<fill, total, chunks>>
  BY DEF areaVars, queueVars
<1>4. BytesInv'
  BY <1>1, <1>3, BytesTail DEF Return
<1>5. ~Taking' /\ ToCome' = 0 /\ ~At("write")'
  <2>1. CASE Return
    BY <1>1, <2>1, ReturnedFront, ReturnedNotTaking DEF Return
  <2>2. CASE \E s \in StepSet :
              /\ Asked(s) = 0 /\ s.op = "join"
              /\ todo' = <<s>> \o Tail(todo) \/ todo' = <<s>> \o todo
    <3>1. PICK s \in StepSet :
              /\ Asked(s) = 0 /\ s.op = "join"
              /\ todo' = <<s>> \o Tail(todo) \/ todo' = <<s>> \o todo
      BY <2>2
    <3>2. todo' \in Seq(StepSet) /\ todo'[1] = s
      BY <1>1, <3>1, Replaced, Pushed
    <3>3. \A o : At(o)' => o = "join"
      BY <3>1, <3>2, AtFactsNext DEF Op
    <3> QED
      BY <3>3 DEF Taking, ToCome
  <2> QED
    BY <2>1, <2>2
<1> QED
  BY <1>2, <1>4, <1>5

LEMMA QuietInv ==
  ASSUME ModifierInv, QuietStep, UNCHANGED <<areaVars, modifierVars, writerVars>>
  PROVE  ModifierInv'
<1>1. /\ AreaTypes /\ QueueTypes /\ ThreadTypes /\ WriterTypes /\ CallInv
      /\ TasksInv /\ FuturesInv /\ WrittenInv /\ BytesInv /\ TodoInv
      /\ todo \in Seq(StepSet) /\ fill <= total
  BY Parts
<1>2. /\ UNCHANGED <<areaVars, queueVars, flushVars, threadVars, workerVars, writerVars>>
      /\ UNCHANGED <<tasks, done, stop>>
  BY DEF modifierVars
<1>3. /\ UNCHANGED <<chunks, results, local, next_id, written, hand>>
      /\ UNCHANGED <<fill, total, direct, threads, running, writer_pc>>
  BY <1>2 DEF areaVars, queueVars, flushVars, threadVars, workerVars, writerVars
<1>4. AreaTypes' /\ WriterTypes' /\ ThreadTypes'
  BY <1>1, <1>2, SameTypes
<1>5. QueueTypes'
  BY <1>1, <1>2, <1>3, QueueSteps
<1>6. CallInvNext
  BY <1>1, QuietCall
<1>7. /\ BytesInv' /\ ~Taking /\ ToCome = 0 /\ ~At("write")
      /\ ~Taking' /\ ToCome' = 0 /\ ~At("write")'
  <2>1. CASE StartWriter
    <3>1. At("start_writer") /\ "start_writer" \notin InFront
      BY <2>1 DEF StartWriter, InFront
    <3>2. ~Taking /\ ToCome = 0 /\ ~At("write")
      BY <3>1, NotInFront
    <3>3. /\ todo' \in Seq(Callable)
          /\ \A i \in 1..Len(todo') : todo'[i].op # "enqueue_task"
          /\ \A i \in 1..Len(todo) : todo[i].op # "enqueue_task"
      BY <1>1, <2>1, StartWriterCall
    <3>4. fill' <= total'
      BY <1>1, <1>3
    <3>5. ~Taking' /\ ToCome' = 0 /\ ~At("write")'
      BY <3>3, <3>4, CallableTodo, ReturnedNotTaking
    <3>6. todo' \in Seq(StepSet)
      BY <3>3, SeqGrows DEF Callable
    <3>7. Weighs(todo, 0) /\ Weighs(todo', 0)
      BY <1>1, <3>3, <3>6, WeighNone
    <3>8. PICK k \in Nat : Weighs(todo, k) /\ total = fill + Cardinality(Cells(chunks)) + k
      BY <1>1, WeightOfCall
    <3>9. k = 0
      BY <3>7, <3>8, SameWeight
    <3>10. IsFiniteSet(Cells(chunks'))
      BY <1>1, <1>3, WeightOfCall
    <3>11. total' = fill' + Cardinality(Cells(chunks')) + 0
      BY <1>3, <3>8, <3>9
    <3>12. BytesInv'
      BY <3>6, <3>7, <3>10, <3>11, WeightOfRest
    <3> QED
      BY <3>2, <3>5, <3>12
  <2>2. CASE ~StartWriter
    <3>1. \E op : /\ At(op) /\ op \notin InFront /\ Return
                  /\ op = "enqueue_task" => Arg = 0
      BY <2>2 DEF QuietStep, EnqueueNothing, FinishWait, LoopEnds, KeepWorker, InFront
    <3>2. PICK op : /\ At(op) /\ op \notin InFront /\ Return
                    /\ op = "enqueue_task" => Arg = 0
      BY <3>1
    <3>3. Asked(todo[1]) = 0
      BY <1>1, <3>2, FrontStep DEF Asked, Op
    <3>4. op \notin {"results", "write", "collect"}
      BY <3>2 DEF InFront
    <3> QED
      BY <1>1, <1>2, <1>3, <3>2, <3>3, <3>4, MovedOn
  <2> QED
    BY <2>1, <2>2
<1>8. TasksInv'
  BY <1>1, <1>2, <1>3, TasksStay
<1>9. FuturesInv'
  BY <1>1, <1>3, <1>7, FuturesStay
<1>10. WrittenInv'
  BY <1>1, <1>2, <1>3, <1>7, WrittenSame
<1> QED
  BY <1>4, <1>5, <1>6, <1>7, <1>8, <1>9, <1>10, PartsNext

LEMMA ThreadsInv ==
  ASSUME ModifierInv, ThreadsStep,
         UNCHANGED <<areaVars, queueVars, tasks, done, flushVars, hand, writerVars>>
  PROVE  ModifierInv'
<1>1. /\ AreaTypes /\ QueueTypes /\ ThreadTypes /\ WriterTypes /\ CallInv
      /\ TasksInv /\ FuturesInv /\ WrittenInv /\ BytesInv /\ TodoInv
      /\ todo \in Seq(StepSet)
  BY Parts
<1>3. /\ UNCHANGED <<chunks, results, local, next_id, written, hand>>
      /\ UNCHANGED <<fill, total, direct, writer_pc, tasks, done>>
      /\ UNCHANGED <<areaVars, queueVars, writerVars>>
  BY DEF areaVars, queueVars, flushVars, writerVars
<1>4. AreaTypes' /\ WriterTypes'
  BY <1>1, <1>3, SameTypes
<1>5. QueueTypes'
  BY <1>1, <1>3, QueueSteps
<1>6. CallInvNext /\ ThreadTypes'
  BY <1>1, <1>3, ThreadsCall
<1>7. /\ BytesInv' /\ ~Taking /\ ToCome = 0 /\ ~At("write")
      /\ ~Taking' /\ ToCome' = 0 /\ ~At("write")'
  <2>1. CASE StartWorker
    <3>1. At("grow") /\ todo' = todo
      BY <2>1 DEF StartWorker
    <3>2. ~Taking /\ ToCome = 0 /\ ~At("write")
      BY <3>1 DEF At, Taking, ToCome
    <3>3. ~Taking' /\ ToCome' = 0 /\ ~At("write")'
      BY <3>1 DEF At, Taking, ToCome
    <3>4. BytesInv'
      BY <1>1, <1>3, <3>1, BytesStay
    <3> QED
      BY <3>2, <3>3, <3>4
  <2>2. CASE StopWorker
    <3>1. PICK op : At(op) /\ op \in {"shrink", "stop_worker"}
      BY <2>2 DEF StopWorker
    <3>2. PICK s \in StepSet : s = Step("join") /\ s.op = "join" /\ Asked(s) = 0
      BY JoinStep DEF Asked
    <3>3. todo' = <<s>> \o Tail(todo) \/ todo' = <<s>> \o todo
      BY <2>2, <3>2 DEF StopWorker
    <3>4. Asked(todo[1]) = 0
      BY <1>1, <3>1, FrontStep DEF Asked, Op
    <3>5. op \notin {"results", "write", "collect"}
      BY <3>1
    <3> QED
      BY <1>1, <1>3, <3>1, <3>2, <3>3, <3>4, <3>5, MovedOn
  <2>3. CASE RaiseStop \/ Join \/ StoreThreads
    <3>1. PICK op : At(op) /\ op \in {"raise_stop", "join", "threads"} /\ Return
      BY <2>3 DEF RaiseStop, Join, StoreThreads
    <3>2. Asked(todo[1]) = 0
      BY <1>1, <3>1, FrontStep DEF Asked, Op
    <3>3. op \notin {"results", "write", "collect"}
      BY <3>1
    <3> QED
      BY <1>1, <1>3, <3>1, <3>2, <3>3, MovedOn
  <2> QED
    BY <2>1, <2>2, <2>3 DEF ThreadsStep
<1>8. TasksInv'
  BY <1>1, <1>3, TasksStay
<1>9. FuturesInv'
  BY <1>1, <1>3, <1>7, FuturesStay
<1>10. WrittenInv'
  BY <1>1, <1>3, <1>7, WrittenSame
<1> QED
  BY <1>4, <1>5, <1>6, <1>7, <1>8, <1>9, <1>10, PartsNext

LEMMA AddWriterInv ==
  ASSUME ModifierInv, AddWriter
  PROVE  ModifierInv'
<1>1. /\ AreaTypes /\ QueueTypes /\ ThreadTypes /\ WriterTypes /\ CallInv
      /\ TasksInv /\ FuturesInv /\ WrittenInv /\ BytesInv /\ TodoInv
      /\ todo \in Seq(StepSet)
  BY Parts
<1>2. /\ CallInvNext /\ WriterTypes' /\ Len(writer_pc') = Len(writer_pc) + 1
      /\ Writers' = Writers \cup {Len(writer_pc) + 1}
      /\ \A j \in Writers : writer_pc'[j] = writer_pc[j]
      /\ writer_pc'[Len(writer_pc) + 1] \in {"start", "loop", "ended"}
      /\ UNCHANGED <<direct, write_id>> /\ direct
      /\ todo' = Tail(todo) /\ UNCHANGED <<areaVars, modifierVars>>
  BY <1>1, AddWriterCall
<1>3. /\ UNCHANGED <<areaVars, queueVars, flushVars, threadVars, workerVars>>
      /\ UNCHANGED <<chunks, tasks, done, stop, results, local, next_id, written, hand>>
  BY <1>2 DEF modifierVars, queueVars, flushVars, workerVars
<1>4. AreaTypes' /\ ThreadTypes'
  BY <1>1, <1>3, SameTypes
<1>5. QueueTypes'
  BY <1>1, <1>3, QueueSteps
<1>6. At("add_writer") /\ Return
  BY DEF AddWriter
<1>7. Asked(todo[1]) = 0
  BY <1>1, <1>6, FrontStep DEF Asked, Op
<1>8. /\ BytesInv' /\ ~Taking /\ ToCome = 0 /\ ~At("write")
      /\ ~Taking' /\ ToCome' = 0 /\ ~At("write")'
  <2>1. "add_writer" \notin {"results", "write", "collect"}
    OBVIOUS
  <2> QED
    BY <1>1, <1>2, <1>3, <1>6, <1>7, <2>1, MovedOn
<1>9. TasksInv'
  BY <1>1, <1>3, TasksStay
<1>10. FuturesInv'
  BY <1>1, <1>3, <1>8, FuturesStay
<1>11. WrittenInv'
  <2>1. Len(chunks) \in Nat /\ Len(chunks') = Len(chunks)
    BY <1>1, <1>3, LenChunks
  <2>2. \A j \in Writers' : /\ writer_pc'[j] # "join"
                            /\ writer_pc'[j] = "get" => j \in Writers /\ writer_pc[j] = "get"
    BY <1>1, <1>2 DEF WrittenInv
  <2>3. ToSet(results) \subseteq ToSet(results')
    BY <1>3
  <2> QED
    BY <1>1, <1>2, <1>3, <2>1, <2>2, <2>3, WrittenStay
<1> QED
  BY <1>2, <1>4, <1>5, <1>8, <1>9, <1>10, <1>11, PartsNext

LEMMA EnqueueTaskStepInv ==
  ASSUME ModifierInv, EnqueueTask, UNCHANGED writerVars
  PROVE  ModifierInv'
<1>1. /\ AreaTypes /\ QueueTypes /\ ThreadTypes /\ WriterTypes /\ CallInv
      /\ TasksInv /\ FuturesInv /\ WrittenInv /\ BytesInv /\ TodoInv
      /\ todo \in Seq(StepSet) /\ threads \in ThreadCounts
  BY Parts DEF ThreadTypes
<1>2. /\ UNCHANGED <<areaVars, flushVars, threadVars, writerVars>>
      /\ UNCHANGED <<results, local, next_id, written, done, hand, dangling, stop>>
      /\ UNCHANGED <<direct, write_id, writer_pc>> /\ At("enqueue_task")
  BY DEF EnqueueTask, flushVars, writerVars
<1>3. PICK n : n = NumChunks(Arg, threads)
  OBVIOUS
<1>4. /\ n \in Nat \ {0}
      /\ chunks' \in Seq(1..MaxBytes) /\ Len(chunks') = Len(chunks) + n
      /\ tasks' = tasks \o ThreadTasks(n)
      /\ Notify(n)
      /\ todo' = <<StepWith("results", n)>> \o Tail(todo)
  BY <1>1, <1>3, EnqueueTaskEffect
<1>5. AreaTypes' /\ WriterTypes'
  BY <1>1, <1>2, SameTypes
<1>6. ThreadTypes'
  BY <1>1, <1>2, <1>4, EnqueueThreads
<1>7. tasks' \in Seq(Ids')
  BY <1>1, <1>4, TasksAdded
<1>8. QueueTypes'
  BY <1>1, <1>2, <1>4, <1>7, QueueGrows
<1>9. Len(chunks) \in Nat /\ Len(chunks) <= Len(chunks') /\ Len(chunks') \in Nat
      /\ chunks' # <<>>
  <2>1. Len(chunks) \in Nat
    BY <1>1, LenChunks
  <2>2. Len(chunks') > 0
    BY <1>4, <2>1
  <2> QED
    BY <1>4, <2>1, <2>2
<1>10. CallInvNext
  BY <1>1, <1>2, <1>4, <1>9, EnqueueCall
<1>11. TasksInv'
  BY <1>1, <1>2, <1>4, TasksAddedInv
<1>12. ~Taking /\ ToCome = 0 /\ ~At("write")
  BY <1>2 DEF At, Taking, ToCome
<1>13. ~Taking' /\ ToCome' = n /\ ~At("write")'
  <2>1. PICK s \in StepSet : s = StepWith("results", n) /\ s.op = "results" /\ s.n = n
    <3>1. n \in Nat /\ "results" \in StepOps
      BY <1>4 DEF StepOps
    <3>2. StepWith("results", n) \in StepSet
      BY <3>1 DEF StepWith, StepSet
    <3> QED
      BY <3>2 DEF StepWith
  <2>2. /\ todo' \in Seq(StepSet) /\ todo'[1] = s /\ Len(todo') = Len(todo)
        /\ Len(todo) > 0
    BY <1>1, <1>2, <1>4, <2>1, FrontStep, Replaced
  <2>3. \A o : At(o)' <=> o = "results"
    BY <2>1, <2>2, AtFactsNext DEF Op
  <2>4. Arg' = n
    BY <2>1, <2>2, HeadTailProperties DEF Arg
  <2> QED
    BY <2>3, <2>4 DEF Taking, ToCome
<1>14. FuturesInv'
  BY <1>1, <1>2, <1>4, <1>12, <1>13, FuturesEnqueue
<1>15. WrittenInv'
  <2>1. ~direct => written = <<>>
    BY <1>1, <1>12 DEF WrittenInv
  <2>2. /\ \A j \in Writers' : /\ writer_pc'[j] # "join"
                               /\ writer_pc'[j] = "get" => j \in Writers /\ writer_pc[j] = "get"
    BY <1>1, <1>2 DEF WrittenInv, Writers
  <2>3. ToSet(results) \subseteq ToSet(results')
    BY <1>2
  <2>4. done \subseteq done' /\ UNCHANGED <<written, direct, write_id>>
    BY <1>2
  <2> QED
    BY <1>1, <1>9, <1>13, <2>1, <2>2, <2>3, <2>4, WrittenStay
<1>16. BytesInv'
  BY <1>1, BytesEnqueue
<1> QED
  BY <1>5, <1>6, <1>8, <1>10, <1>11, <1>14, <1>15, <1>16, PartsNext

LEMMA EnqueueResultsInv ==
  ASSUME ModifierInv, EnqueueResults, NotifyWriters(Arg)
  PROVE  ModifierInv'
<1>1. /\ AreaTypes /\ QueueTypes /\ ThreadTypes /\ WriterTypes /\ CallInv
      /\ TasksInv /\ FuturesInv /\ WrittenInv /\ BytesInv /\ TodoInv
      /\ todo \in Seq(StepSet)
  BY Parts
<1>2. /\ UNCHANGED <<areaVars, flushVars, threadVars, workerVars>>
      /\ UNCHANGED <<fill, total, threads, running>>
      /\ UNCHANGED <<chunks, tasks, local, next_id, written, done, hand, stop>>
      /\ At("results") /\ Return
  BY DEF EnqueueResults, flushVars, areaVars, threadVars, workerVars
<1>3. /\ WriterTypes' /\ Writers' = Writers /\ Len(writer_pc') = Len(writer_pc)
      /\ UNCHANGED <<direct, write_id>>
      /\ \A j \in Writers : \/ writer_pc'[j] = writer_pc[j]
                            \/ writer_pc[j] = "asleep" /\ writer_pc'[j] = "lock"
  BY <1>1, NotifyWritersTypes
<1>4. Arg \in Nat /\ Arg = todo[1].n /\ todo # <<>> /\ Op(1) = "results"
  BY <1>1, <1>2, FrontStep
<1>5. QueueTypes'
  BY <1>1, <1>4, ResultsTypes DEF FuturesInv
<1>6. AreaTypes' /\ ThreadTypes'
  BY <1>1, <1>2, SameTypes
<1>7. CallInvNext
  BY <1>1, <1>2, <1>3, Ends
<1>8. ~Taking' /\ ToCome' = 0 /\ ~At("write")'
  <2>1. \A o \in InFront : ~At(o)'
    BY <1>1, <1>2, <1>4, ReturnedFront DEF Return
  <2> QED
    BY <2>1, ReturnedNotTaking
<1>9. /\ FuturesInv' /\ results' = Upto(Len(chunks))
      /\ Arg <= Len(chunks) /\ results = Upto(Len(chunks) - Arg)
  BY <1>1, <1>2, <1>4, <1>8, FuturesResults
<1>10. TasksInv'
  BY <1>1, <1>2, TasksStay
<1>11. WrittenInv'
  <2>1. Len(chunks) \in Nat /\ Len(chunks') = Len(chunks)
    BY <1>1, <1>2, LenChunks
  <2>2. \A j \in Writers' : /\ writer_pc'[j] # "join"
                            /\ writer_pc'[j] = "get" => j \in Writers /\ writer_pc[j] = "get"
    BY <1>1, <1>3 DEF WrittenInv
  <2>3. ToSet(results) \subseteq ToSet(results')
    <3>1. PICK m \in Nat : m = Len(chunks)
      BY <2>1
    <3>2. PICK k \in Nat : k = m - Arg /\ k <= m
      BY <1>4, <1>9, <3>1
    <3>3. results = Upto(k) /\ results' = Upto(m)
      BY <1>9, <3>1, <3>2
    <3>4. 1..k \subseteq 1..m
      BY <3>2
    <3> QED
      BY <3>3, <3>4 DEF Upto, ToSet
  <2>4. ~direct => written = <<>>
    <3>1. ~At("write")
      BY <1>2 DEF At
    <3> QED
      BY <1>1, <3>1 DEF WrittenInv
  <2> QED
    BY <1>1, <1>2, <1>3, <1>8, <2>1, <2>2, <2>3, <2>4, WrittenStay
<1>12. BytesInv'
  <2>1. Asked(todo[1]) = 0
    BY <1>4 DEF Asked, Op
  <2> QED
    BY <1>1, <1>2, <1>4, <2>1, BytesTail DEF Return
<1> QED
  BY <1>3, <1>5, <1>6, <1>7, <1>9, <1>10, <1>11, <1>12, PartsNext

LEMMA FlushSwapInv ==
  ASSUME ModifierInv, FlushSwap, ResultLockFree, UNCHANGED writerVars
  PROVE  ModifierInv'
<1>1. /\ AreaTypes /\ QueueTypes /\ ThreadTypes /\ WriterTypes /\ CallInv
      /\ TasksInv /\ FuturesInv /\ WrittenInv /\ BytesInv /\ TodoInv
      /\ todo \in Seq(StepSet)
  BY Parts
<1>2. /\ UNCHANGED <<areaVars, threadVars, workerVars, writerVars>>
      /\ UNCHANGED <<fill, total, direct, write_id, writer_pc>>
      /\ UNCHANGED <<chunks, tasks, written, done, hand, stop>>
      /\ At("flush_to") \/ At("flush")
  BY DEF FlushSwap, areaVars, workerVars, writerVars
<1>3. /\ CallInvNext
      /\ results = <<>> => ~Taking'
      /\ results # <<>> => Taking' /\ (At("flush_to") <=> At("write")')
      /\ ~At("results")' /\ ~At("results") /\ ~Taking
      /\ results = <<>> => chunks = <<>>
      /\ results # <<>> => chunks # <<>>
  BY <1>1, SwapCall
<1>4. ToCome = 0 /\ ToCome' = 0
  BY <1>3 DEF ToCome
<1>5. FuturesInv' /\ Len(results) = Len(chunks) /\ next_id' = 0
  BY <1>1, <1>3, <1>4, FuturesSwap
<1>6. QueueTypes'
  BY <1>1, <1>5, SwapTypes
<1>7. AreaTypes' /\ ThreadTypes' /\ WriterTypes'
  BY <1>1, <1>2, SameTypes
<1>8. TasksInv'
  BY <1>1, <1>2, TasksStay
<1>9. WrittenInv'
  <2>1. Len(chunks) \in Nat /\ Len(chunks') = Len(chunks)
    BY <1>1, <1>2, LenChunks
  <2>2. \A j \in Writers' : /\ writer_pc'[j] # "join"
                            /\ writer_pc'[j] = "get" => j \in Writers /\ writer_pc[j] = "get"
    BY <1>1, <1>2 DEF WrittenInv, Writers
  <2>3. \A j \in Writers : writer_pc[j] # "get"
    BY DEF ResultLockFree
  <2>4. ~direct => written = <<>>
    BY <1>1, <1>3 DEF WrittenInv, Taking
  <2>5. ~direct => /\ At("write")' => next_id' = Len(written)
                   /\ written # <<>> => At("write")'
    BY <1>5, <2>4
  <2> QED
    BY <1>1, <1>2, <2>1, <2>2, <2>3, <2>5, WrittenStay
<1>10. BytesInv'
  <2>1. todo # <<>> /\ Asked(todo[1]) = 0
    BY <1>1, <1>2, FrontStep DEF Asked, Op
  <2>2. CASE results = <<>>
    <3>1. todo' = <<>> \o Tail(todo)
      BY <2>2 DEF FlushSwap
    <3>2. <<>> \o Tail(todo) = Tail(todo)
      BY <1>1, <2>1, TailOf, ConcatEmptySeq
    <3> QED
      BY <1>1, <1>2, <2>1, <3>1, <3>2, BytesTail
  <2>3. CASE results # <<>>
    <3>1. PICK op : op \in {"collect", "write"} /\ todo' = <<Step(op)>> \o Tail(todo)
      BY <2>3 DEF FlushSwap
    <3>2. Step(op) \in StepSet /\ Asked(Step(op)) = 0
      BY <3>1 DEF Step, StepSet, StepOps, Asked
    <3> QED
      BY <1>1, <1>2, <2>1, <3>1, <3>2, BytesTail
  <2> QED
    BY <2>2, <2>3
<1> QED
  BY <1>3, <1>5, <1>6, <1>7, <1>8, <1>9, <1>10, PartsNext

(* The caller stays where it is.                                           *)
LEMMA CallerStays ==
  ASSUME CallInv, ThreadTypes, WriterTypes, FuturesInv, BytesInv,
         UNCHANGED <<areaVars, threadVars, direct, chunks, results, local, todo>>,
         Len(writer_pc') = Len(writer_pc)
  PROVE  CallInvNext /\ FuturesInv' /\ BytesInv'
<1>1. UNCHANGED <<fill, total, threads, running>>
  BY DEF areaVars, threadVars
<1>2. Taking' = Taking /\ ToCome' = ToCome
  BY DEF Taking, ToCome, At, Arg
<1> QED
  BY <1>1, <1>2, StayCall, FuturesStay, BytesStay

LEMMA FlushWriteStepInv ==
  ASSUME ModifierInv, FlushWrite, UNCHANGED writerVars
  PROVE  ModifierInv'
<1>1. /\ AreaTypes /\ QueueTypes /\ ThreadTypes /\ WriterTypes /\ CallInv
      /\ TasksInv /\ FuturesInv /\ WrittenInv /\ BytesInv
  BY Parts
<1>2. /\ UNCHANGED <<areaVars, threadVars, workerVars, writerVars, direct, writer_pc>>
      /\ UNCHANGED <<chunks, tasks, results, local, done, hand, stop, todo>>
  BY DEF FlushWrite, queueVars, workerVars, writerVars
<1>3. CallInvNext /\ FuturesInv' /\ BytesInv'
  BY <1>1, <1>2, CallerStays
<1>4. QueueTypes'
  BY <1>1, WriteTypes
<1>5. AreaTypes' /\ ThreadTypes' /\ WriterTypes'
  BY <1>1, <1>2, SameTypes
<1>6. TasksInv'
  BY <1>1, <1>2, TasksStay
<1>7. WrittenInv'
  BY <1>1, FlushWriteInv
<1> QED
  BY <1>3, <1>4, <1>5, <1>6, <1>7, PartsNext

LEMMA WorkerInv ==
  ASSUME ModifierInv, NEW i \in Slots, WorkerMoves(i) \/ GetTask(i), UNCHANGED writerVars
  PROVE  ModifierInv'
<1>1. /\ AreaTypes /\ QueueTypes /\ ThreadTypes /\ WriterTypes /\ CallInv
      /\ TasksInv /\ FuturesInv /\ WrittenInv /\ BytesInv
  BY Parts
<1>2. /\ UNCHANGED <<areaVars, queueVars, flushVars, threadVars, todo, done>>
      /\ WorkerMoves(i) => UNCHANGED <<tasks, hand>>
  BY DEF WorkerMoves, Bind, ReadRunning, GetTask, CallerUnchanged
<1>3. UNCHANGED <<chunks, results, local, next_id, written, direct, writer_pc>>
  BY <1>2 DEF queueVars, flushVars, writerVars
<1>4. CallInvNext /\ FuturesInv' /\ BytesInv'
  BY <1>1, <1>2, <1>3, CallerStays
<1>5. AreaTypes' /\ WriterTypes'
  BY <1>1, <1>2, SameTypes
<1>6. ThreadTypes'
  BY <1>1, WorkerMovesTypes
<1>7. QueueTypes' /\ TasksInv'
  <2>1. CASE WorkerMoves(i)
    BY <1>1, <1>2, <1>3, <2>1, QueueSteps, TasksStay
  <2>2. CASE GetTask(i)
    BY <1>1, <2>2, GetTaskTypes, GetTaskInv
  <2> QED
    BY <2>1, <2>2
<1>8. WrittenInv'
  <2>1. At("write")' <=> At("write")
    BY <1>2 DEF At
  <2> QED
    BY <1>1, <1>2, <1>3, <2>1, WrittenSame
<1> QED
  BY <1>4, <1>5, <1>6, <1>7, <1>8, PartsNext

LEMMA RunTaskStepInv ==
  ASSUME ModifierInv, NEW i \in Slots, RunTask(i), NotifyWriters(1)
  PROVE  ModifierInv'
<1>1. /\ AreaTypes /\ QueueTypes /\ ThreadTypes /\ WriterTypes /\ CallInv
      /\ TasksInv /\ FuturesInv /\ WrittenInv /\ BytesInv
  BY Parts
<1>2. /\ UNCHANGED <<areaVars, queueVars, flushVars, threadVars, todo>>
      /\ UNCHANGED <<chunks, results, local, next_id, written>>
      /\ done \subseteq done'
  BY DEF RunTask, CallerUnchanged, queueVars, flushVars
<1>3. /\ WriterTypes' /\ Writers' = Writers /\ Len(writer_pc') = Len(writer_pc)
      /\ UNCHANGED <<direct, write_id>>
      /\ \A j \in Writers : \/ writer_pc'[j] = writer_pc[j]
                            \/ writer_pc[j] = "asleep" /\ writer_pc'[j] = "lock"
  BY <1>1, NotifyWritersTypes
<1>4. CallInvNext /\ FuturesInv' /\ BytesInv'
  BY <1>1, <1>2, <1>3, CallerStays
<1>5. AreaTypes'
  BY <1>1, <1>2, SameTypes
<1>6. ThreadTypes'
  BY <1>1, WorkerMovesTypes
<1>7. TasksInv' /\ hand[i] # NoTask
  BY <1>1, RunTaskInv
<1>8. QueueTypes'
  BY <1>1, <1>7, RunTaskTypes
<1>9. WrittenInv'
  <2>1. Len(chunks) \in Nat /\ Len(chunks') = Len(chunks)
    BY <1>1, <1>2, LenChunks
  <2>2. \A j \in Writers' : /\ writer_pc'[j] # "join"
                            /\ writer_pc'[j] = "get" => j \in Writers /\ writer_pc[j] = "get"
    BY <1>1, <1>3 DEF WrittenInv
  <2>3. ToSet(results) \subseteq ToSet(results')
    BY <1>2
  <2>4. At("write")' <=> At("write")
    BY <1>2 DEF At
  <2>5. ~direct => /\ At("write")' => next_id' = Len(written)
                   /\ written # <<>> => At("write")'
    BY <1>1, <1>2, <2>4 DEF WrittenInv
  <2> QED
    BY <1>1, <1>2, <1>3, <2>1, <2>2, <2>3, <2>5, WrittenStay
<1> QED
  BY <1>3, <1>4, <1>5, <1>6, <1>7, <1>8, <1>9, PartsNext

LEMMA WriterInv ==
  ASSUME ModifierInv, NEW j \in Writers, WriterMoves(j)
  PROVE  ModifierInv'
<1>1. /\ AreaTypes /\ QueueTypes /\ ThreadTypes /\ WriterTypes /\ CallInv
      /\ TasksInv /\ FuturesInv /\ WrittenInv /\ BytesInv
  BY Parts
<1>2. /\ WriterTypes' /\ WrittenInv' /\ Len(writer_pc') = Len(writer_pc)
      /\ UNCHANGED <<vars, direct, write_id>>
  BY <1>1, WriterMovesInv
<1>3. /\ UNCHANGED <<areaVars, queueVars, flushVars, threadVars, workerVars>>
      /\ UNCHANGED <<tasks, done, stop, todo>>
  BY <1>2 DEF vars, modifierVars
<1>4. UNCHANGED <<chunks, results, local, next_id, written, hand>>
  BY <1>3 DEF queueVars, flushVars, workerVars
<1>5. CallInvNext /\ FuturesInv' /\ BytesInv'
  BY <1>1, <1>2, <1>3, <1>4, CallerStays
<1>6. AreaTypes' /\ ThreadTypes'
  BY <1>1, <1>3, SameTypes
<1>7. QueueTypes' /\ TasksInv'
  BY <1>1, <1>3, <1>4, QueueSteps, TasksStay
<1> QED
  BY <1>2, <1>5, <1>6, <1>7, PartsNext

LEMMA WriterWriteStepInv ==
  ASSUME ModifierInv, NEW j \in Writers, WriterWrite(j)
  PROVE  ModifierInv'
<1>1. /\ AreaTypes /\ QueueTypes /\ ThreadTypes /\ WriterTypes /\ CallInv
      /\ TasksInv /\ FuturesInv /\ WrittenInv /\ BytesInv /\ TodoInv
  BY Parts
<1>2. Len(chunks) <= MaxBytes
  BY <1>1, ChunksBounded
<1>3. At("results") => Arg \in Nat
  BY <1>1, FrontStep
<1>4. /\ WriterTypes' /\ WrittenInv' /\ Len(writer_pc') = Len(writer_pc)
      /\ UNCHANGED <<areaVars, tasks, done, chunks, results, local, next_id, stop,
                     threadVars, workerVars, todo, direct>>
  BY <1>1, <1>2, <1>3, WriterWriteInv
<1>5. CallInvNext /\ FuturesInv' /\ BytesInv'
  BY <1>1, <1>4, CallerStays
<1>6. AreaTypes' /\ ThreadTypes'
  BY <1>1, <1>4, SameTypes
<1>7. QueueTypes'
  BY <1>1, WriterWriteTypes
<1>8. TasksInv'
  <2>1. UNCHANGED hand
    BY <1>4 DEF workerVars
  <2> QED
    BY <1>1, <1>4, <2>1, TasksStay
<1> QED
  BY <1>4, <1>5, <1>6, <1>7, <1>8, PartsNext
-----------------------------------------------------------------------------
(* The start.                                                              *)

LEMMA SixOps ==
  ASSUME NEW f, NEW n, n = 6, f = [i \in 1..n |-> f[i]]
  PROVE  f = <<f[1], f[2], f[3], f[4], f[5], f[6]>>
OBVIOUS

LEMMA StartSteps ==
  ASSUME threads \in ThreadCounts, NEW t, t = ModFunctionSteps \o ContinueSteps
  PROVE  /\ t \in Seq(Callable) /\ Len(t) = 6
         /\ t[1].op = "finish_wait" /\ t[2].op = "raise_stop" /\ t[3].op = "shrink"
         /\ t[4].op = "grow" /\ t[4].n = threads
         /\ t[5].op = "stop_worker" /\ t[6].op = "start_writer"
<1>1. PICK S : S = Callable
  OBVIOUS
<1>2. PICK f \in Seq(S) : /\ f = FinishUp /\ Len(f) = 3
                          /\ f[1].op = "finish_wait" /\ f[2].op = "raise_stop"
                          /\ f[3].op = "shrink"
  BY <1>1, DirectLists
<1>3. PICK c \in Seq(S) : /\ c = ContinueSteps /\ Len(c) = 2
                          /\ c[1].op = "stop_worker" /\ c[2].op = "start_writer"
  BY <1>1, DirectLists
<1>4. PICK g \in S : g = StepWith("grow", threads) /\ g.op = "grow" /\ g.n = threads
  <2>1. threads \in Nat /\ "grow" \in StepOps \ InFront
    BY Constants DEF StepOps, InFront
  <2>2. StepWith("grow", threads) \in Callable
    BY <2>1, CallableStep
  <2> QED
    BY <1>1, <2>2 DEF StepWith
<1>5. PICK m : m = f \o <<g>>
  OBVIOUS
<1>6. m \in Seq(S) /\ Len(m) = 4 /\ (\A i \in 1..3 : m[i] = f[i]) /\ m[4] = g
  <2>1. /\ m \in Seq(S) /\ Len(m) = Len(f) + 1
        /\ \A i \in 1..Len(f) : m[i] = f[i]
        /\ m[Len(f) + 1] = g
    BY <1>5, Ended
  <2> QED
    BY <1>2, <2>1
<1>7. t = m \o c
  BY <1>2, <1>3, <1>4, <1>5 DEF ModFunctionSteps
<1>8. /\ t \in Seq(S) /\ Len(t) = 6
      /\ \A i \in 1..4 : t[i] = m[i]
      /\ \A i \in 1..2 : t[4 + i] = c[i]
  <2>1. /\ t \in Seq(S) /\ Len(t) = Len(m) + Len(c)
        /\ \A i \in 1..Len(m) : t[i] = m[i]
        /\ \A i \in 1..Len(c) : t[Len(m) + i] = c[i]
    <3>1. m \in Seq(S) /\ c \in Seq(S)
      BY <1>6
    <3>2. /\ m \o c \in Seq(S) /\ Len(m \o c) = Len(m) + Len(c)
          /\ \A i \in 1..Len(m) : (m \o c)[i] = m[i]
          /\ \A i \in 1..Len(c) : (m \o c)[Len(m) + i] = c[i]
      BY <3>1, Joined
    <3> QED
      BY <1>7, <3>2
  <2> QED
    BY <1>3, <1>6, <2>1
<1>9. /\ t[1] = f[1] /\ t[2] = f[2] /\ t[3] = f[3] /\ t[4] = g /\ t[5] = c[1] /\ t[6] = c[2]
  <2>1. /\ t[1] = m[1] /\ t[2] = m[2] /\ t[3] = m[3] /\ t[4] = m[4]
        /\ m[1] = f[1] /\ m[2] = f[2] /\ m[3] = f[3]
    <3>1. /\ 1 \in 1..4 /\ 2 \in 1..4 /\ 3 \in 1..4 /\ 4 \in 1..4
          /\ 1 \in 1..3 /\ 2 \in 1..3 /\ 3 \in 1..3
      OBVIOUS
    <3> QED
      BY <1>6, <1>8, <3>1, Zenon
  <2>2. t[4 + 1] = c[1] /\ t[4 + 2] = c[2]
    <3>1. 1 \in 1..2 /\ 2 \in 1..2
      OBVIOUS
    <3> QED
      BY <1>8, <3>1, Zenon
  <2>3. 4 + 1 = 5 /\ 4 + 2 = 6
    OBVIOUS
  <2> QED
    BY <1>6, <2>1, <2>2, <2>3
<1> QED
  BY <1>1, <1>2, <1>3, <1>4, <1>8, <1>9

LEMMA StartTodo ==
  ASSUME InitAll
  PROVE  /\ CallInv /\ todo \in Seq(Callable)
         /\ \A i \in 1..Len(todo) : todo[i].op # "enqueue_task"
         /\ \A op \in InFront : ~At(op)
<1>1. /\ threads \in ThreadCounts /\ fill = 0 /\ total = 0 /\ direct \in BOOLEAN
      /\ chunks = <<>> /\ running = <<>> /\ writer_pc = <<>>
  BY DEF InitAll, InitModifier, InitArea
<1>2. CASE ~direct
  <2>1. todo = <<>>
    BY <1>2 DEF InitAll
  <2>2. \A op : ~At(op)
    BY <2>1 DEF At
  <2>3. todo \in Seq(Callable) /\ todo \in Seq(StepSet) /\ Len(todo) = 0
    BY <2>1
  <2>4. TodoInv
    BY <1>1, <2>2, <2>3 DEF TodoInv, StepSet
  <2>5. StreamInv /\ DirectInv
    BY <1>2, <2>3 DEF StreamInv, DirectInv
  <2> QED
    BY <2>2, <2>3, <2>4, <2>5 DEF CallInv
<1>3. CASE direct
  <2>1. /\ todo \in Seq(Callable) /\ Len(todo) = 6
        /\ todo[1].op = "finish_wait" /\ todo[2].op = "raise_stop" /\ todo[3].op = "shrink"
        /\ todo[4].op = "grow" /\ todo[4].n = threads
        /\ todo[5].op = "stop_worker" /\ todo[6].op = "start_writer"
    BY <1>1, <1>3, StartSteps DEF InitAll
  <2>2. todo \in Seq(StepSet)
    BY <2>1, SeqGrows DEF Callable
  <2>3. DOMAIN todo = 1..6 /\ \A i \in 1..6 : todo[i] \in Callable
    <3>1. DOMAIN todo = 1..Len(todo) /\ todo \in [1..Len(todo) -> Callable]
      BY <2>1, LenProperties
    <3> QED
      BY <2>1, <3>1
  <2>4. \A i \in 1..6 : i = 1 \/ i = 2 \/ i = 3 \/ i = 4 \/ i = 5 \/ i = 6
    OBVIOUS
  <2>5. \A op : At(op) => op = "finish_wait"
    BY <2>1 DEF At
  <2>6. TodoInv
    <3>1. /\ \A i \in 1..Len(todo) : StepOK(todo[i])
          /\ \A i \in 2..Len(todo) : Op(i) \notin InFront
      BY <2>1, <2>3 DEF Callable, Op
    <3>2. ~At("join") /\ fill <= total
      BY <1>1, <2>5
    <3> QED
      BY <2>2, <3>1, <3>2 DEF TodoInv, StepSet
  <2>7. Ops = <<"finish_wait", "raise_stop", "shrink", "grow", "stop_worker", "start_writer">>
    <3>1. Ops = [i \in 1..6 |-> Ops[i]]
      BY <2>1 DEF Ops
    <3>2. Ops = <<Ops[1], Ops[2], Ops[3], Ops[4], Ops[5], Ops[6]>>
      BY <3>1, SixOps
    <3>3. \A i \in 1..6 : Ops[i] = todo[i].op
      BY <2>1 DEF Ops, Op
    <3>4. /\ Ops[1] = "finish_wait" /\ Ops[2] = "raise_stop" /\ Ops[3] = "shrink"
          /\ Ops[4] = "grow" /\ Ops[5] = "stop_worker" /\ Ops[6] = "start_writer"
      BY <2>1, <3>3
    <3> QED
      BY <3>2, <3>4
  <2>8. DirectOK(Ops, TRUE, 0, 0, threads)
    <3>1. PICK o : o = <<"finish_wait", "raise_stop", "shrink", "grow", "stop_worker", "start_writer">>
      OBVIOUS
    <3>2. /\ Len(o) = 6 /\ o[1] = "finish_wait" /\ o[4] = "grow"
      BY <3>1
    <3>3. o \in StartOps
      BY <3>1 DEF StartOps
    <3>4. o \notin ResultsOps \cup EndOps \cup {<<"collect">>}
      BY <3>2 DEF ResultsOps, EndOps
    <3>5. o \notin StopOps /\ o \notin AddOps /\ o \notin EnqueueOps \cup {<<>>, <<"flush">>}
      BY <3>2 DEF StopOps, AddOps, EnqueueOps
    <3>6. 0 < MaxWriters
      BY Constants
    <3>7. DirectOK(o, TRUE, 0, 0, threads)
      BY <3>3, <3>4, <3>5, <3>6 DEF DirectOK, WriterOps
    <3> QED
      BY <2>7, <3>1, <3>7
  <2>9. DirectInv
    <3>1. Len(writer_pc) = 0 /\ Len(running) = 0 /\ (chunks = <<>>) = TRUE
      BY <1>1
    <3>2. \A i \in 1..Len(todo) : Op(i) = "grow" => todo[i].n = threads
      <4>1. /\ "finish_wait" # "grow" /\ "raise_stop" # "grow" /\ "shrink" # "grow"
            /\ "stop_worker" # "grow" /\ "start_writer" # "grow"
        OBVIOUS
      <4> QED
        BY <2>1, <2>4, <4>1 DEF Op
    <3>3. ~At("enqueue_task")
      BY <2>5
    <3> QED
      BY <2>8, <3>1, <3>2, <3>3 DEF DirectInv
  <2>10. StreamInv
    BY <1>3 DEF StreamInv
  <2>11. \A i \in 1..Len(todo) : todo[i].op # "enqueue_task"
    BY <2>1, <2>4
  <2>12. \A op \in InFront : ~At(op)
    BY <2>5 DEF InFront
  <2> QED
    BY <2>1, <2>6, <2>9, <2>10, <2>11, <2>12 DEF CallInv
<1> QED
  BY <1>1, <1>2, <1>3

LEMMA StartInv ==
  ASSUME InitAll
  PROVE  ModifierInv
<1>1. /\ threads \in ThreadCounts
      /\ chunks = <<>> /\ tasks = <<>> /\ results = <<>>
      /\ done = {} /\ local = <<>> /\ next_id = 0 /\ written = <<>>
      /\ stop = FALSE /\ running = <<>> /\ capacity = 0
      /\ worker_pc = [i \in Slots |-> "none"] /\ hand = [i \in Slots |-> NoTask]
      /\ dangling = {}
  BY DEF InitAll, InitModifier
<1>2. /\ size \in BufferSizes /\ fill = 0 /\ total = 0 /\ continues = (threads >= 3)
  BY DEF InitAll, InitArea
<1>3. /\ direct \in BOOLEAN /\ write_id = 1 /\ writer_pc = <<>> /\ writer_capacity = 0
      /\ writer_dangling = {}
  BY DEF InitAll
<1>4. /\ CallInv /\ todo \in Seq(Callable)
      /\ \A i \in 1..Len(todo) : todo[i].op # "enqueue_task"
      /\ \A op \in InFront : ~At(op)
  BY StartTodo
<1>5. ~Taking /\ ToCome = 0 /\ ~At("write")
  BY <1>4 DEF Taking, ToCome, InFront
<1>6. AreaTypes
  BY <1>1, <1>2, Constants DEF AreaTypes
<1>7. QueueTypes
  BY <1>1 DEF QueueTypes, Ids
<1>8. ThreadTypes
  <2>1. threads \in Nat
    BY <1>1, Constants
  <2>2. /\ running \in Seq(BOOLEAN) /\ Len(running) = 0
        /\ worker_pc \in [Slots -> WorkerPcs]
    BY <1>1 DEF WorkerPcs
  <2>3. \A i \in Slots : /\ worker_pc[i] = "none" <=> i > Len(running)
                         /\ worker_pc[i] = "run" <=> hand[i] # NoTask
    BY <1>1, <2>2, Constants DEF Slots
  <2>4. Len(running) <= threads /\ capacity \in Nat /\ Len(running) <= capacity
    BY <1>1, <2>1, <2>2
  <2> QED
    BY <1>1, <2>2, <2>3, <2>4, Zenon DEF ThreadTypes
<1>9. WriterTypes
  BY <1>3, Constants DEF WriterTypes
<1>10. TasksInv
  BY <1>1 DEF TasksInv, FirstQueued, Busy
<1>11. Upto(0) = <<>>
  BY UptoFacts, EmptySeq
<1>12. FuturesInv
  BY <1>1, <1>5, <1>11 DEF FuturesInv
<1>13. WrittenInv
  BY <1>1, <1>3, <1>5, <1>11 DEF WrittenInv, Writers, ToSet
<1>14. BytesInv
  <2>1. todo \in Seq(StepSet)
    BY <1>4, SeqGrows DEF Callable
  <2>2. Weighs(todo, 0)
    BY <1>4, <2>1, WeighNone
  <2>3. PendingBytes = Cells(Asks(todo))
    BY <2>1, AskedCells DEF PendingBytes, Pending
  <2>4. ChunkBytes = {}
    BY <1>1 DEF ChunkBytes
  <2>5. IsFiniteSet(ChunkBytes) /\ Cardinality(ChunkBytes) = 0
    BY <2>4, FS_EmptySet
  <2> QED
    BY <1>2, <2>2, <2>3, <2>5 DEF BytesInv, Weighs
<1>15. TodoInv /\ StreamInv /\ DirectInv
  BY <1>4 DEF CallInv
<1> QED
  BY <1>6, <1>7, <1>8, <1>9, <1>10, <1>12, <1>13, <1>14, <1>15, TypesSplit DEF ModifierInv
-----------------------------------------------------------------------------
LEMMA NextInv ==
  ASSUME ModifierInv, [Next]_allVars
  PROVE  ModifierInv'
<1>1. CASE UNCHANGED allVars
  BY <1>1, StutterInv
<1>2. CASE CallStep /\ UNCHANGED <<modifierVars, continues, writerVars>>
  BY <1>2, CallStepInv
<1>3. CASE QuietStep /\ UNCHANGED <<areaVars, modifierVars, writerVars>>
  BY <1>3, QuietInv
<1>4. CASE ThreadsStep /\ UNCHANGED <<areaVars, queueVars, tasks, done, flushVars,
                                      hand, writerVars>>
  BY <1>4, ThreadsInv
<1>5. CASE AddWriter
  BY <1>5, AddWriterInv
<1>6. CASE EnqueueTask /\ UNCHANGED writerVars
  BY <1>6, EnqueueTaskStepInv
<1>7. CASE EnqueueResults /\ ResultLockFree /\ NotifyWriters(Arg)
  BY <1>7, EnqueueResultsInv
<1>8. CASE FlushSwap /\ ResultLockFree /\ UNCHANGED writerVars
  BY <1>8, FlushSwapInv
<1>9. CASE FlushWrite /\ UNCHANGED writerVars
  BY <1>9, FlushWriteStepInv
<1>10. CASE \E i \in Slots : WorkerMoves(i) /\ UNCHANGED writerVars
  BY <1>10, WorkerInv
<1>11. CASE \E i \in Slots : GetTask(i) /\ UNCHANGED writerVars
  BY <1>11, WorkerInv
<1>12. CASE \E i \in Slots : RunTask(i) /\ NotifyWriters(1)
  BY <1>12, RunTaskStepInv
<1>13. CASE \E j \in Writers : WriterMoves(j)
  BY <1>13, WriterInv
<1>14. CASE \E j \in Writers : WriterWrite(j)
  BY <1>14, WriterWriteStepInv
<1> QED
  BY <1>1, <1>2, <1>3, <1>4, <1>5, <1>6, <1>7, <1>8, <1>9, <1>10, <1>11, <1>12, <1>13,
     <1>14, NextCases

(* The types, the steps a call has left, and where each task, future and   *)
(* byte is: they hold at first and every step of the caller, of a worker   *)
(* and of a writer keeps them, for any sizes and numbers of threads.       *)
THEOREM ModifierInvariance == Spec => []ModifierInv
<1>1. InitAll => ModifierInv
  BY StartInv
<1>2. ModifierInv /\ [Next]_allVars => ModifierInv'
  BY NextInv
<1> QED
  BY <1>1, <1>2, PTL DEF Spec

(* The types: there are never more workers than threads_ allows, though    *)
(* set_threads stops and starts them, and only those started and not       *)
(* joined have a thread.                                                   *)
THEOREM TypesHold == Spec => []AllTypeOK
<1>1. ModifierInv => AllTypeOK
  BY DEF ModifierInv
<1> QED
  BY <1>1, ModifierInvariance, PTL

(* Results are written in the order of their ids, none before it is there, *)
(* whatever order the workers finish in, by flush_to and by any number of  *)
(* writers that come and go: writer_thread's next_id_ and the lock of      *)
(* results_ suffice.                                                       *)
THEOREM ResultsInOrder == Spec => []WrittenInOrder
<1>1. ModifierInv => WrittenInOrder
  <2> SUFFICES ASSUME ModifierInv PROVE WrittenInOrder
    OBVIOUS
  <2>1. QueueTypes /\ WrittenInv
    BY Parts
  <2>2. Len(written) \in Nat /\ DOMAIN written = 1..Len(written)
    BY <2>1, LenProperties DEF QueueTypes
  <2>3. ASSUME NEW i \in DOMAIN written
        PROVE  written[i] = i - (IF direct THEN 0 ELSE 1)
    <3>1. i \in 1..Len(written) /\ i \in Nat
      BY <2>2
    <3>2. CASE direct
      BY <2>1, <3>1, <3>2 DEF WrittenInv
    <3>3. CASE ~direct
      <4>1. PICK n \in Nat : n = Len(written)
        BY <2>2
      <4>2. written = Upto(n)
        BY <2>1, <3>3, <4>1 DEF WrittenInv
      <4>3. Upto(n)[i] = i - 1
        BY <3>1, <4>1, UptoFacts
      <4> QED
        BY <3>3, <4>2, <4>3
    <3> QED
      BY <3>2, <3>3
  <2> QED
    BY <2>1, <2>3 DEF WrittenInOrder, WrittenInv
<1> QED
  BY <1>1, ModifierInvariance, PTL

(* A writer that has written every result is the only one, and there are   *)
(* threads_ threads: the start_worker and stop_writer it then calls do     *)
(* nothing, and it never joins a thread that needs its lock.               *)
THEOREM WriterIsAlone == Spec => []WriterAlone
<1>1. ModifierInv => WriterAlone
  <2> SUFFICES ASSUME ModifierInv, Writers # {}, write_id > Len(chunks)
               PROVE  StopWriterReturns /\ StartWorkerReturns
    BY DEF WriterAlone
  <2> QED
    BY Parts, Alone
<1> QED
  BY <1>1, ModifierInvariance, PTL

(* The destructor of a stream buffer that has accepted a byte does not     *)
(* come to its end: the flush_to before it has results, and never returns. *)
THEOREM NeverDestroyed == Spec => []DestroyedUnused
<1>1. ModifierInv => DestroyedUnused
  <2> SUFFICES ASSUME ModifierInv, Gone, ~direct
               PROVE  total = 0
    BY DEF DestroyedUnused
  <2>1. /\ todo \in Seq(StepSet) /\ StreamInv
    BY Parts DEF CallInv
  <2>2. Len(todo) > 0 /\ Op(1) = "destroyed" /\ Len(todo) \in Nat
    BY <2>1, AtFacts, TodoFacts DEF Gone
  <2>3. ~At("write")
    BY DEF Gone, At
  <2>4. PICK m : m = 1
    OBVIOUS
  <2>5. m \in 1..Len(todo) /\ Op(m) = "destroyed" /\ 1..(m - 1) = {}
    BY <2>2, <2>4
  <2> QED
    BY <2>1, <2>3, <2>5 DEF StreamInv
<1> QED
  BY <1>1, ModifierInvariance, PTL

(* Where the tasks are, and how many there are.                            *)
LEMMA UptoElements ==
  ASSUME NEW n \in Nat
  PROVE  ToSet(Upto(n)) = 0..(n - 1)
<1>1. Upto(n) \in Seq(0..(n - 1)) /\ Len(Upto(n)) = n
      /\ \A i \in 1..n : Upto(n)[i] = i - 1
  BY UptoFacts
<1>2. \A x : x \in ToSet(Upto(n)) <=> \E i \in 1..n : Upto(n)[i] = x
  BY <1>1, InSeq
<1>3. ASSUME NEW x \in 0..(n - 1) PROVE \E i \in 1..n : i - 1 = x
  <2>1. x + 1 \in 1..n /\ x + 1 - 1 = x
    OBVIOUS
  <2> QED
    BY <2>1
<1>4. \A x : x \in ToSet(Upto(n)) <=> x \in 0..(n - 1)
  <2>1. ASSUME NEW i \in 1..n PROVE Upto(n)[i] \in 0..(n - 1)
    BY <1>1
  <2>2. ASSUME NEW x \in 0..(n - 1) PROVE \E i \in 1..n : Upto(n)[i] = x
    BY <1>1, <1>3
  <2> QED
    BY <1>2, <2>1, <2>2
<1> QED
  BY <1>4

LEMMA TasksPlaces ==
  ASSUME QueueTypes, ThreadTypes, TasksInv
  PROVE  /\ Ids = ToSet(tasks) \cup {hand[i] : i \in InHand} \cup done
         /\ Len(chunks) = Len(tasks) + Cardinality(InHand) + Cardinality(done)
<1>1. PICK m \in Nat, n \in Nat, f \in Nat :
        m = Len(chunks) /\ n = Len(tasks) /\ f = FirstQueued
  BY LenChunks DEF TasksInv
<1>2. m = n + f /\ Ids = 0..(m - 1)
  BY <1>1 DEF FirstQueued, Ids
<1> DEFINE H == {hand[i] : i \in InHand}
<1>3. \A x : x \in ToSet(tasks) <=> \E k \in 1..n : tasks[k] = x
  BY <1>1, InSeq DEF QueueTypes
<1>4. \A k \in 1..n : tasks[k] = f + k - 1
  BY <1>1 DEF TasksInv
<1>5. \A x : x \in ToSet(tasks) <=> x \in f..(m - 1)
  <2>1. ASSUME NEW x \in f..(m - 1) PROVE \E k \in 1..n : tasks[k] = x
    <3>1. x - f + 1 \in 1..n /\ f + (x - f + 1) - 1 = x
      BY <1>2
    <3> QED
      BY <1>4, <3>1
  <2>2. ASSUME NEW k \in 1..n PROVE tasks[k] \in f..(m - 1)
    BY <1>2, <1>4
  <2> QED
    BY <1>3, <2>1, <2>2
<1>6. \A x \in H : x \in 0..(f - 1) /\ x \notin done
  <2>1. ASSUME NEW i \in InHand PROVE hand[i] \in 0..(f - 1) /\ hand[i] \notin done
    <3>1. i \in Slots /\ Busy(i) /\ hand[i] \in Ids
      BY DEF InHand, Busy, QueueTypes
    <3>2. hand[i] < f /\ hand[i] \notin done
      BY <1>1, <3>1 DEF TasksInv
    <3> QED
      BY <1>2, <3>1, <3>2
  <2> QED
    BY <2>1
<1>7. \A x \in done : x \in 0..(f - 1)
  BY <1>1, <1>2 DEF TasksInv, QueueTypes
<1>8. \A x \in 0..(f - 1) : x \in done \/ x \in H
  BY <1>1 DEF TasksInv, InHand, Busy
<1>9. H \cup done = 0..(f - 1) /\ H \cap done = {}
  BY <1>6, <1>7, <1>8
<1>10. Ids = ToSet(tasks) \cup H \cup done
  <2>1. \A x : x \in 0..(m - 1) <=> x \in f..(m - 1) \/ x \in 0..(f - 1)
    BY <1>2
  <2> QED
    BY <1>2, <1>5, <1>9, <2>1
<1>11. IsFiniteSet(0..(f - 1)) /\ Cardinality(0..(f - 1)) = f
  <2>1. IsFiniteSet(0..(f - 1))
        /\ Cardinality(0..(f - 1)) = IF 0 > f - 1 THEN 0 ELSE f - 1 - 0 + 1
    BY FS_Interval
  <2> QED
    BY <2>1
<1>12. PICK g : g = [i \in InHand |-> hand[i]]
  OBVIOUS
<1>13. g \in Bijection(InHand, H)
  <2>1. g \in [InHand -> H]
    BY <1>12
  <2>2. ASSUME NEW i \in InHand, NEW j \in InHand, g[i] = g[j] PROVE i = j
    BY <1>12, <2>2 DEF InHand, Busy, TasksInv
  <2>3. \A x \in H : \E i \in InHand : g[i] = x
    BY <1>12
  <2> HIDE DEF H
  <2> QED
    BY <2>1, <2>2, <2>3 DEF Bijection, Injection, IsInjective, Surjection
<1> HIDE DEF H
<1>14. H \in SUBSET (0..(f - 1)) /\ done \in SUBSET (0..(f - 1))
  BY <1>9
<1>15. IsFiniteSet(H) /\ IsFiniteSet(done)
  BY <1>11, <1>14, FS_Subset
<1>16. IsFiniteSet(InHand) /\ Cardinality(InHand) = Cardinality(H)
  BY <1>13, <1>15, SameSize
<1>17. Cardinality(H \cup done) = Cardinality(H) + Cardinality(done) - Cardinality(H \cap done)
  BY <1>15, FS_Union
<1>18. Cardinality(H \cap done) = 0
  BY <1>9, FS_EmptySet
<1>19. PICK a \in Nat, b \in Nat : a = Cardinality(H) /\ b = Cardinality(done)
  BY <1>15, FS_CardinalityType
<1>20. f = a + b
  <2>1. Cardinality(H \cup done) = f
    BY <1>9, <1>11
  <2>2. Cardinality(H \cup done) = a + b - 0
    BY <1>17, <1>18, <1>19
  <2> QED
    BY <2>1, <2>2
<1>21. m = n + a + b
  BY <1>2, <1>20
<1>22. Cardinality(InHand) = a
  BY <1>16, <1>19
<1>23. Len(chunks) = Len(tasks) + Cardinality(InHand) + Cardinality(done)
  BY <1>1, <1>19, <1>21, <1>22
<1> QED
  BY <1>10, <1>23 DEF H

LEMMA FuturesPlaces ==
  ASSUME QueueTypes, FuturesInv, At("results") => Arg \in Nat, NEW futures,
         futures = local \o results \o IF At("results") THEN ThreadFutures(Arg) ELSE <<>>
  PROVE  ToSet(futures) = Ids /\ Len(futures) = Len(chunks)
<1>1. PICK m \in Nat : m = Len(chunks)
  BY LenChunks
<1>2. futures = Upto(m)
  <2>1. CASE Taking
    <3>1. ~At("results")
      BY <2>1 DEF Taking, At
    <3>2. results = <<>> /\ local = Upto(m)
      BY <1>1, <2>1 DEF FuturesInv
    <3>3. Upto(m) \in Seq(0..(m - 1))
      BY UptoFacts
    <3>4. futures = Upto(m) \o <<>> \o <<>>
      BY <3>1, <3>2
    <3> QED
      BY <3>3, <3>4, ConcatEmptySeq
  <2>2. CASE ~Taking
    <3>1. local = <<>> /\ results = Upto(m - ToCome) /\ ToCome <= m
      BY <1>1, <2>2 DEF FuturesInv
    <3>2. PICK n \in Nat : n = ToCome
      BY DEF ToCome
    <3>3. PICK k \in Nat : k = m - n /\ k + n = m
      BY <3>1, <3>2
    <3>4. results = Upto(k) /\ Upto(k) \in Seq(0..(k - 1))
      BY <3>1, <3>2, <3>3, UptoFacts
    <3>5. <<>> \o Upto(k) = Upto(k) /\ Upto(k) \o <<>> = Upto(k)
      BY <3>4, ConcatEmptySeq
    <3>6. CASE At("results")
      <4>1. n = Arg /\ futures = <<>> \o Upto(k) \o ThreadFutures(Arg)
        BY <3>1, <3>2, <3>4, <3>6 DEF ToCome
      <4>2. PICK g : g = [i \in 1..n |-> k + i - 1]
        OBVIOUS
      <4>3. ThreadFutures(Arg) = g
        <5>1. ThreadFutures(n) = [i \in 1..n |-> m - n + i - 1]
          BY <1>1 DEF ThreadFutures
        <5>2. \A i \in 1..n : m - n + i - 1 = k + i - 1
          BY <3>3
        <5> QED
          BY <4>1, <4>2, <5>1, <5>2
      <4>4. futures = Upto(k) \o g
        BY <3>5, <4>1, <4>3
      <4> QED
        BY <3>3, <4>2, <4>4, UptoGrows
    <3>7. CASE ~At("results")
      <4>1. n = 0 /\ futures = <<>> \o Upto(k) \o <<>>
        BY <3>1, <3>2, <3>4, <3>7 DEF ToCome
      <4>2. k = m
        BY <3>3, <4>1
      <4> QED
        BY <3>5, <4>1, <4>2
    <3> QED
      BY <3>6, <3>7
  <2> QED
    BY <2>1, <2>2
<1> QED
  BY <1>1, <1>2, UptoElements, UptoFacts DEF Ids

(* Whatever the caller does, stopping and starting workers included, the   *)
(* task of every chunk is queued, or in the hand of one worker, or done,   *)
(* and its future is with results_ or flush_to or about to be stored; and  *)
(* every byte accepted is in the put area, in a chunk or in the call.      *)
THEOREM NoTaskDropped == Spec => []TaskKept
<1>1. ModifierInv => TaskKept
  <2> SUFFICES ASSUME ModifierInv PROVE TaskKept
    OBVIOUS
  <2>1. /\ QueueTypes /\ ThreadTypes /\ CallInv /\ TasksInv /\ FuturesInv /\ BytesInv
    BY Parts
  <2>2. At("results") => Arg \in Nat
    BY <2>1, FrontStep
  <2>3. /\ Ids = ToSet(tasks) \cup {hand[i] : i \in InHand} \cup done
        /\ Len(chunks) = Len(tasks) + Cardinality(InHand) + Cardinality(done)
    BY <2>1, TasksPlaces
  <2>4. PICK futures :
          futures = local \o results \o IF At("results") THEN ThreadFutures(Arg) ELSE <<>>
    OBVIOUS
  <2>5. ToSet(futures) = Ids /\ Len(futures) = Len(chunks)
    BY <2>1, <2>2, <2>4, FuturesPlaces
  <2>6. total = fill + Cardinality(ChunkBytes) + Cardinality(PendingBytes)
    BY <2>1 DEF BytesInv
  <2> QED
    BY <2>3, <2>4, <2>5, <2>6 DEF TaskKept
<1> QED
  BY <1>1, ModifierInvariance, PTL
=============================================================================
