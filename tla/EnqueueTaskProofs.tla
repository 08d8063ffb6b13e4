-------------------------- MODULE EnqueueTaskProofs --------------------------
(***************************************************************************)
(* Theorems about EnqueueTask, for every length of the buffer and every    *)
(* number of threads.                                                      *)
(***************************************************************************)
EXTENDS EnqueueTask, ChunksProofs, SequenceTheorems

(* The loop invariant.  index has advanced by whole chunks and not past    *)
(* the last byte; the tasks pushed are these chunks; the last task, pushed *)
(* when the loop has ended, has what is left.                              *)
NumWhole == IF pc = "returned" THEN Len(pushed) - 1 ELSE Len(pushed)

LoopInv ==
  /\ index = NumWhole * chunk_size
  /\ index < len
  /\ \A i \in 1..Len(pushed) :
       pushed[i] = [off  |-> (i - 1) * chunk_size,
                    size |-> IF i <= NumWhole THEN chunk_size ELSE len - index,
                    id   |-> FirstId + i - 1]
  /\ next_id = FirstId + Len(pushed)
  /\ pc = "returned" =>
       /\ Len(pushed) > 0
       /\ len - index <= chunk_size

(* The members and the arguments have their types, and so has the          *)
(* quotient.                                                               *)
LEMMA Sizes ==
  ASSUME TypeOK
  PROVE  /\ threads \in Nat \ {0} /\ len \in Nat \ {0}
         /\ chunk_size \in Nat /\ chunk_size <= len
         /\ threads <= len <=> chunk_size > 0
         /\ index \in Nat /\ next_id \in Nat /\ FirstId \in Nat
         /\ Len(pushed) \in Nat
<1>1. threads \in Nat \ {0} /\ len \in Nat \ {0}
  BY EnqueueAssumption DEF TypeOK
<1>2. Len(pushed) \in Nat
  BY LenProperties DEF TypeOK
<1> QED
  BY <1>1, <1>2, ChunkSizeFacts, EnqueueAssumption DEF TypeOK, chunk_size

LEMMA InitInv == Init => TypeOK /\ LoopInv
<1> SUFFICES ASSUME Init PROVE TypeOK /\ LoopInv
  OBVIOUS
<1>1. TypeOK
  BY EnqueueAssumption DEF Init, TypeOK
<1>2. Len(pushed) = 0 /\ NumWhole = 0
  BY DEF Init, NumWhole
<1>3. 0 * chunk_size = 0
  BY <1>1, Sizes
<1> QED
  BY <1>1, <1>2, <1>3, Sizes DEF Init, LoopInv

(* What a push does to the sequence of tasks.                              *)
LEMMA PushEffect ==
  ASSUME TypeOK, NEW size \in Nat, Push(size)
  PROVE  /\ pushed' \in Seq([off : Nat, size : Nat, id : Nat])
         /\ Len(pushed') = Len(pushed) + 1
         /\ \A i \in 1..Len(pushed) : pushed'[i] = pushed[i]
         /\ pushed'[Len(pushed) + 1] = [off |-> index, size |-> size,
                                        id |-> next_id]
         /\ next_id' = next_id + 1
<1>1. [off |-> index, size |-> size, id |-> next_id]
        \in [off : Nat, size : Nat, id : Nat]
  BY Sizes
<1> QED
  BY <1>1, AppendProperties DEF Push, TypeOK

LEMMA NextInv == TypeOK /\ LoopInv /\ [Next]_vars => TypeOK' /\ LoopInv'
<1> SUFFICES ASSUME TypeOK, LoopInv, [Next]_vars PROVE TypeOK' /\ LoopInv'
  OBVIOUS
<1>0. /\ threads \in Nat \ {0} /\ len \in Nat \ {0}
      /\ chunk_size \in Nat /\ chunk_size <= len
      /\ index \in Nat /\ next_id \in Nat /\ FirstId \in Nat
      /\ Len(pushed) \in Nat
  BY Sizes
<1>1. CASE PushChunk
  <2>1. /\ Push(chunk_size) /\ index' = index + chunk_size
        /\ UNCHANGED <<threads, len, pc, chunk_size>> /\ pc = "loop"
        /\ index < len - chunk_size
    BY <1>0, <1>1 DEF PushChunk, AtLastTask, Step, chunk_size
  <2>e. /\ pushed' \in Seq([off : Nat, size : Nat, id : Nat])
        /\ Len(pushed') = Len(pushed) + 1
        /\ \A i \in 1..Len(pushed) : pushed'[i] = pushed[i]
        /\ pushed'[Len(pushed) + 1] = [off |-> index, size |-> chunk_size,
                                       id |-> next_id]
        /\ next_id' = next_id + 1
    <3>1. chunk_size \in Nat
      BY <1>0, <2>1
    <3> QED
      BY <2>1, <3>1, PushEffect
  <2>2. TypeOK'
    <3>1. threads' = threads /\ len' = len /\ pc' = "loop"
      BY <2>1
    <3>2. index' \in 0..len
      BY <1>0, <2>1
    <3>3. next_id' \in Nat
      BY <1>0, <2>e
    <3> QED
      BY <2>e, <3>1, <3>2, <3>3 DEF TypeOK
  <2>3. /\ NumWhole = Len(pushed) /\ NumWhole' = Len(pushed) + 1
        /\ Len(pushed') = Len(pushed) + 1
    BY <1>0, <2>1, <2>e DEF NumWhole
  <2>4. index = Len(pushed) * chunk_size
    BY <2>3 DEF LoopInv
  <2>5. index' = (Len(pushed) + 1) * chunk_size /\ index' < len
    BY <1>0, <2>1, <2>4
  <2>6. ASSUME NEW i \in 1..Len(pushed')
        PROVE  pushed'[i] = [off |-> (i - 1) * chunk_size, size |-> chunk_size,
                             id |-> FirstId + i - 1]
    <3>1. CASE i \in 1..Len(pushed)
      <4>1. pushed'[i] = pushed[i] /\ i <= NumWhole
        BY <1>0, <2>3, <2>e, <3>1
      <4>2. pushed[i] = [off  |-> (i - 1) * chunk_size,
                         size |-> IF i <= NumWhole THEN chunk_size ELSE len - index,
                         id   |-> FirstId + i - 1]
        BY <3>1 DEF LoopInv
      <4> QED
        BY <4>1, <4>2
    <3>2. CASE i = Len(pushed) + 1
      <4>1. pushed'[i] = [off |-> index, size |-> chunk_size, id |-> next_id]
        BY <1>0, <2>1, <3>2, <2>e
      <4>2. i - 1 = Len(pushed) /\ next_id = FirstId + i - 1
        BY <1>0, <3>2 DEF LoopInv
      <4> QED
        BY <2>4, <4>1, <4>2
    <3> QED
      BY <1>0, <2>3, <3>1, <3>2
  <2>7. next_id' = FirstId + Len(pushed')
    BY <1>0, <2>1, <2>3, <2>e DEF LoopInv
  <2> QED
    BY <2>1, <2>2, <2>3, <2>5, <2>6, <2>7 DEF LoopInv
<1>2. CASE PushRest
  <2>1. /\ Push(len - index) /\ len - index \in Nat
        /\ UNCHANGED <<threads, len, index, chunk_size>>
        /\ pc = "loop" /\ pc' = "returned"
        /\ len - index <= chunk_size
    BY <1>0, <1>2 DEF PushRest, AtLastTask, chunk_size, LoopInv
  <2>e. /\ pushed' \in Seq([off : Nat, size : Nat, id : Nat])
        /\ Len(pushed') = Len(pushed) + 1
        /\ \A i \in 1..Len(pushed) : pushed'[i] = pushed[i]
        /\ pushed'[Len(pushed) + 1] = [off |-> index, size |-> len - index,
                                       id |-> next_id]
        /\ next_id' = next_id + 1
    <3>1. len - index \in Nat
      BY <1>0, <2>1
    <3> QED
      BY <2>1, <3>1, PushEffect
  <2>2. TypeOK'
    BY <1>0, <2>1, <2>e DEF TypeOK
  <2>3. /\ NumWhole = Len(pushed) /\ NumWhole' = Len(pushed)
        /\ Len(pushed') = Len(pushed) + 1
    BY <1>0, <2>1, <2>e DEF NumWhole
  <2>4. index = Len(pushed) * chunk_size
    BY <2>3 DEF LoopInv
  <2>5. ASSUME NEW i \in 1..Len(pushed')
        PROVE  pushed'[i] = [off  |-> (i - 1) * chunk_size,
                             size |-> IF i <= Len(pushed) THEN chunk_size
                                                          ELSE len - index,
                             id   |-> FirstId + i - 1]
    <3>1. CASE i \in 1..Len(pushed)
      BY <1>0, <2>1, <2>3, <3>1, <2>e DEF LoopInv
    <3>2. CASE i = Len(pushed) + 1
      <4>1. pushed'[i] = [off |-> index, size |-> len - index, id |-> next_id]
        BY <1>0, <2>1, <3>2, <2>e
      <4>2. i - 1 = Len(pushed) /\ next_id = FirstId + i - 1 /\ ~(i <= Len(pushed))
        BY <1>0, <3>2 DEF LoopInv
      <4> QED
        BY <2>4, <4>1, <4>2
    <3> QED
      BY <1>0, <2>3, <3>1, <3>2
  <2>6. next_id' = FirstId + Len(pushed')
    BY <1>0, <2>1, <2>3, <2>e DEF LoopInv
  <2> QED
    BY <1>0, <2>1, <2>2, <2>3, <2>4, <2>5, <2>6 DEF LoopInv
<1>3. CASE OutOfMemory
  <2>1. /\ UNCHANGED <<threads, len, index, pushed, next_id, chunk_size, NumWhole>>
        /\ pc' = "bad_alloc"
    BY <1>3 DEF OutOfMemory, chunk_size, NumWhole
  <2> QED
    BY <2>1 DEF TypeOK, LoopInv
<1>4. CASE UNCHANGED vars
  <2>1. UNCHANGED <<threads, len, index, pushed, next_id, pc, chunk_size, NumWhole>>
    BY <1>4 DEF vars, chunk_size, NumWhole
  <2> QED
    BY <2>1 DEF TypeOK, LoopInv
<1> QED
  BY <1>1, <1>2, <1>3, <1>4 DEF Next

(* The variables of the loop keep their types: in particular the size of   *)
(* the last task, len - index, is never negative, so size_t does not wrap. *)
THEOREM EnqueueInvariance == Spec => [](TypeOK /\ LoopInv)
  BY InitInv, NextInv, PTL DEF Spec

-----------------------------------------------------------------------------
(* What the loop invariant says of the tasks.                              *)

(* A call that pushed more than empty tasks had a byte for each thread.    *)
LEMMA ReturnedMeansEnough ==
  ASSUME TypeOK, LoopInv, pc = "returned"
  PROVE  threads <= len /\ chunk_size > 0
<1>1. len - index > 0 /\ len - index <= chunk_size
  BY Sizes DEF LoopInv
<1> QED
  BY <1>1, Sizes

(* Where a task begins and ends, and its id.                               *)
LEMMA Ends ==
  ASSUME TypeOK, LoopInv, NEW i \in 1..Len(pushed)
  PROVE  /\ pushed[i].off = (i - 1) * chunk_size
         /\ pushed[i].off \in Nat
         /\ i <= NumWhole => End(i) = i * chunk_size
         /\ i > NumWhole => End(i) = len
         /\ End(i) <= i * chunk_size
         /\ End(i) <= len
         /\ End(i) \in Nat
         /\ pushed[i].id = FirstId + i - 1
<1>0. /\ len \in Nat /\ chunk_size \in Nat /\ index \in Nat /\ FirstId \in Nat
      /\ Len(pushed) \in Nat
  BY Sizes
<1>1. NumWhole \in Nat /\ NumWhole <= Len(pushed) /\ Len(pushed) <= NumWhole + 1
  BY <1>0 DEF NumWhole, LoopInv
<1>2. /\ pushed[i].off = (i - 1) * chunk_size
      /\ pushed[i].size = IF i <= NumWhole THEN chunk_size ELSE len - index
      /\ pushed[i].id = FirstId + i - 1
  <2>1. pushed[i] = [off  |-> (i - 1) * chunk_size,
                     size |-> IF i <= NumWhole THEN chunk_size ELSE len - index,
                     id   |-> FirstId + i - 1]
    BY DEF LoopInv
  <2> DEFINE o == (i - 1) * chunk_size
             s == IF i <= NumWhole THEN chunk_size ELSE len - index
             d == FirstId + i - 1
  <2> HIDE DEF o, s, d
  <2>2. pushed[i] = [off |-> o, size |-> s, id |-> d]
    BY <2>1 DEF o, s, d
  <2>3. pushed[i].off = o /\ pushed[i].size = s /\ pushed[i].id = d
    BY <2>2
  <2> QED
    BY <2>3 DEF o, s, d
<1>3. i * chunk_size = (i - 1) * chunk_size + chunk_size
      /\ (i - 1) * chunk_size \in Nat
  BY <1>0
<1> DEFINE first == (i - 1) * chunk_size
           past == i * chunk_size
<1>4. CASE i <= NumWhole
  <2>1. End(i) = i * chunk_size
    BY <1>2, <1>3, <1>4 DEF End
  <2>2. chunk_size * i <= chunk_size * NumWhole
    BY <1>0, <1>1, <1>4, TimesMonotonic
  <2>3. chunk_size * i = i * chunk_size /\ chunk_size * NumWhole = index /\ index < len
    BY <1>0, <1>1 DEF LoopInv
  <2>4. pushed[i].off = first /\ End(i) = past /\ past <= index /\ first \in Nat
        /\ past = first + chunk_size
    BY <1>2, <1>3, <2>1, <2>2, <2>3
  <2> HIDE DEF first, past
  <2>5. /\ pushed[i].off = first /\ pushed[i].off \in Nat
        /\ End(i) = past /\ End(i) <= past /\ End(i) <= len
        /\ End(i) \in Nat
    BY <1>0, <2>3, <2>4
  <2> QED
    BY <1>0, <1>1, <1>2, <1>4, <2>5 DEF first, past
<1>5. CASE i > NumWhole
  <2>1. i - 1 = NumWhole /\ pc = "returned"
    BY <1>0, <1>1, <1>5 DEF NumWhole
  <2>2. (i - 1) * chunk_size = index
    BY <2>1 DEF LoopInv
  <2>3. End(i) = index + (len - index) /\ len - index <= chunk_size
    BY <1>1, <1>2, <1>5, <2>1, <2>2 DEF End, LoopInv
  <2>4. pushed[i].off = first /\ first = index /\ past = first + chunk_size
    BY <1>2, <1>3, <2>2
  <2> HIDE DEF first, past
  <2>5. /\ pushed[i].off = first /\ pushed[i].off \in Nat
        /\ End(i) = len /\ End(i) <= past /\ End(i) <= len
        /\ End(i) \in Nat
    BY <1>0, <2>3, <2>4
  <2> QED
    BY <1>0, <1>1, <1>2, <1>5, <2>5 DEF first, past
<1> QED
  BY <1>0, <1>1, <1>4, <1>5

LEMMA TilingHolds == TypeOK /\ LoopInv => Tiling
<1> SUFFICES ASSUME TypeOK, LoopInv PROVE Tiling
  OBVIOUS
<1>0. /\ len \in Nat /\ chunk_size \in Nat /\ index \in Nat /\ Len(pushed) \in Nat
  BY Sizes
<1>1. ChunksInBuffer
  BY Ends DEF ChunksInBuffer
<1>2. ChunksDisjoint
  <2> SUFFICES ASSUME NEW i \in 1..Len(pushed), NEW j \in 1..Len(pushed), i < j
               PROVE  End(i) <= pushed[j].off
    BY DEF ChunksDisjoint
  <2>1. End(i) <= i * chunk_size /\ pushed[j].off = (j - 1) * chunk_size
    BY Ends
  <2>2. chunk_size * i <= chunk_size * (j - 1)
    BY <1>0, TimesMonotonic
  <2>3. i * chunk_size = chunk_size * i /\ (j - 1) * chunk_size = chunk_size * (j - 1)
    BY <1>0
  <2>4. End(i) \in Nat
    BY Ends
  <2> QED
    BY <1>0, <2>1, <2>2, <2>3, <2>4
<1>3. BytesCovered
  <2> SUFFICES ASSUME pc = "returned", NEW b \in 0..(len - 1)
               PROVE  \E i \in 1..Len(pushed) : pushed[i].off <= b /\ b < End(i)
    BY DEF BytesCovered
  <2>1. chunk_size \in Nat \ {0} /\ NumWhole = Len(pushed) - 1 /\ Len(pushed) > 0
    BY <1>0, ReturnedMeansEnough DEF NumWhole, LoopInv
  <2>2. CASE b >= index
    <3>1. /\ pushed[Len(pushed)].off = (Len(pushed) - 1) * chunk_size
          /\ End(Len(pushed)) = len
      BY <1>0, <2>1, Ends
    <3>2. (Len(pushed) - 1) * chunk_size = index
      BY <2>1 DEF LoopInv
    <3> QED
      BY <1>0, <2>1, <2>2, <3>1, <3>2
  <2>3. CASE b < index
    <3> DEFINE k == b \div chunk_size
    <3>1. k \in Nat /\ chunk_size * k <= b /\ b < chunk_size * k + chunk_size
      BY <2>1, DivBounds
    <3> HIDE DEF k
    <3>2. k < NumWhole
      <4> SUFFICES ASSUME NumWhole <= k PROVE FALSE
        BY <1>0, <2>1, <3>1
      <4>1. chunk_size * NumWhole <= chunk_size * k
            /\ chunk_size * NumWhole = NumWhole * chunk_size
        BY <1>0, <2>1, <3>1, TimesMonotonic
      <4> QED
        BY <1>0, <2>3, <3>1, <4>1 DEF LoopInv
    <3>3. PICK j \in 1..Len(pushed) : j = k + 1 /\ j <= NumWhole
      BY <1>0, <2>1, <3>1, <3>2
    <3>4. /\ pushed[j].off = (j - 1) * chunk_size
          /\ End(j) = j * chunk_size
      BY <3>3, Ends
    <3>5. (j - 1) * chunk_size = chunk_size * k
          /\ j * chunk_size = chunk_size * k + chunk_size
      BY <1>0, <3>1, <3>3
    <3> QED
      BY <3>1, <3>3, <3>4, <3>5
  <2> QED
    BY <1>0, <2>2, <2>3
<1> QED
  BY <1>1, <1>2, <1>3 DEF Tiling

LEMMA ClosedFormHolds == TypeOK /\ LoopInv => ClosedForm
<1> SUFFICES ASSUME TypeOK, LoopInv, pc = "returned"
             PROVE  /\ threads <= len
                    /\ pushed = [i \in 1..NumChunks(len, threads) |->
                                   [off  |-> Pieces(len, threads)[i].off,
                                    size |-> Pieces(len, threads)[i].size,
                                    id   |-> FirstId + i - 1]]
  BY DEF ClosedForm
<1> DEFINE n == Len(pushed)
<1>0. /\ threads \in Nat \ {0} /\ len \in Nat \ {0}
      /\ index \in Nat /\ FirstId \in Nat
      /\ n \in Nat \ {0}
      /\ threads <= len /\ chunk_size \in Nat \ {0}
      /\ NumWhole = n - 1
  BY Sizes, ReturnedMeansEnough DEF LoopInv, NumWhole
<1>1. (n - 1) * chunk_size < len /\ len <= n * chunk_size
  <2>1. n * chunk_size = (n - 1) * chunk_size + chunk_size
    BY <1>0
  <2> QED
    BY <1>0, <2>1 DEF LoopInv
<1>2. NumChunks(len, threads) = n
  BY <1>0, <1>1, NumChunksUnique DEF chunk_size
<1>3. pushed \in [1..n -> [off : Nat, size : Nat, id : Nat]]
  BY LenProperties DEF TypeOK
<1>4. ASSUME NEW i \in 1..n
      PROVE  pushed[i] = [off  |-> Pieces(len, threads)[i].off,
                          size |-> Pieces(len, threads)[i].size,
                          id   |-> FirstId + i - 1]
  <2>1. /\ Pieces(len, threads)[i].off = (i - 1) * chunk_size
        /\ Pieces(len, threads)[i].size = IF i < n THEN chunk_size
                                          ELSE len - (n - 1) * chunk_size
    BY <1>2 DEF Pieces, chunk_size
  <2>2. i < n <=> i <= NumWhole
    BY <1>0
  <2>3. index = (n - 1) * chunk_size
    BY <1>0 DEF LoopInv
  <2>4. pushed[i] = [off  |-> (i - 1) * chunk_size,
                     size |-> IF i <= NumWhole THEN chunk_size ELSE len - index,
                     id   |-> FirstId + i - 1]
    BY DEF LoopInv
  <2> QED
    BY <2>1, <2>2, <2>3, <2>4
<1> QED
  BY <1>0, <1>2, <1>3, <1>4

(* Whatever the sizes, the tasks of one enqueue_task call tile the buffer, *)
(* their ids count on from next_id_ in the order of the bytes, and they    *)
(* are those of the closed form that the other modules use for the call.   *)
THEOREM BufferCutIntoPieces == Spec => []CutIntoPieces
<1>1. TypeOK /\ LoopInv => IdsFollowBytes
  BY Ends DEF LoopInv, IdsFollowBytes
<1>2. TypeOK /\ LoopInv => CutIntoPieces
  BY <1>1, TilingHolds, ClosedFormHolds DEF CutIntoPieces
<1> QED
  BY <1>2, EnqueueInvariance, PTL
=============================================================================
