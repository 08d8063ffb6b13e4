------------------------- MODULE StreamBufferProofs -------------------------
(***************************************************************************)
(* Proofs about StreamBuffer, for buffers, write calls and streams of any  *)
(* size.  With any number of workers: the types, that every task is in one *)
(* place (IdsInv) and that every byte is accounted for.  With one worker,  *)
(* as long as no task points into the user's array: every buffer has one   *)
(* holder, the put area is one whole buffer (ApartInv), and the tasks cut  *)
(* the stream into consecutive pieces whose bytes are still there when     *)
(* they are read (BytesInv).                                               *)
(***************************************************************************)
EXTENDS StreamBuffer, ChunksProofs, SequenceTheorems, FiniteSetTheorems,
        FunctionTheorems

Byte     == Nat \cup {Unset}
MemOK(m) == /\ DOMAIN m = Blocks
            /\ \A b \in Blocks : m[b] \in [1..BlockSize(b) -> Byte]

LEMMA Constants ==
  /\ Threads \in Nat \ {0}
  /\ BufferSize \in Nat /\ BufferSize >= 2
  /\ UserSize \in Nat /\ UserSize >= 1 /\ MaxBytes \in Nat
  /\ MaxBlocks \in Nat /\ MaxBlocks >= 1
  /\ User \in Blocks /\ 1 \in Blocks
  /\ \A n \in WriteSizes : n \in Nat /\ 1 <= n /\ n <= UserSize
  /\ \A b \in Blocks : b \in Nat /\ BlockSize(b) \in Nat
<1>1. Threads \in Nat \ {0}
  BY StreamAssumption, FS_CardinalityType, FS_EmptySet DEF Threads
<1>2. /\ BufferSize \in Nat /\ BufferSize >= 2
      /\ UserSize \in Nat /\ UserSize >= 1 /\ MaxBytes \in Nat
      /\ MaxBlocks \in Nat /\ MaxBlocks >= 1
  BY StreamAssumption
<1>3. \A n \in WriteSizes : n \in Nat /\ 1 <= n /\ n <= UserSize
  <2>1. \A n \in WriteSizes : n \in 1..UserSize
    BY StreamAssumption
  <2> QED
    BY <1>2, <2>1
<1> QED
  BY <1>1, <1>2, <1>3 DEF Blocks, User, BlockSize

(* The value of src for a byte that is passed by value.                    *)
LEMMA ByValueFact == ByValue \in Int /\ ByValue < 0
  BY DEF ByValue

(* A function on 1..n is a sequence of length n.                            *)
LEMMA FunctionIsSeq ==
  ASSUME NEW S, NEW n \in Nat, NEW f \in [1..n -> S]
  PROVE  f \in Seq(S) /\ Len(f) = n
<1>1. f \in Seq(S)
  BY SeqDef
<1>2. DOMAIN f = 1..n /\ DOMAIN f = 1..Len(f) /\ Len(f) \in Nat
  BY <1>1, LenProperties
<1> QED
  BY <1>1, <1>2

LEMMA MinOfTwo ==
  ASSUME NEW a \in Int, NEW b \in Int
  PROVE  Min({a, b}) = IF a <= b THEN a ELSE b
<1>1. CASE a <= b
  BY <1>1 DEF Min
<1>2. CASE ~(a <= b)
  BY <1>2 DEF Min
<1> QED
  BY <1>1, <1>2
-----------------------------------------------------------------------------
(* What the caller relies on inside a call.                                *)
CallInv ==
  /\ rest = 0 => src = 0
  /\ src = ByValue => rest = 1
  /\ src # ByValue => src + rest <= UserSize
  /\ rest <= total
  /\ caller_pc = "idle" => rest = 0
  /\ caller_pc = "flush" => pos > 0
  /\ caller_pc = "rest" => pos = 0 /\ rest > 0

(* Tasks are numbered in order; a task that was handed out is in the queue *)
(* or with one worker, or its bytes were read.                             *)
FirstQueued == next_id - Len(task_queue)
Has(w)      == hand[w] # NoTask
IdsInv ==
  /\ FirstQueued \in Nat
  /\ \A i \in 1..Len(task_queue) : task_queue[i].id = FirstQueued + i - 1
  /\ \A w \in Workers : Has(w) => /\ hand[w].id < FirstQueued
                                  /\ processed[w] <=> hand[w].id \in DOMAIN consumed
  /\ \A w \in Workers : ~Has(w) => ~processed[w]
  /\ \A v, w \in Workers : Has(v) /\ Has(w) /\ hand[v].id = hand[w].id => v = w
  /\ \A id \in DOMAIN consumed : id \in Nat /\ id < FirstQueued
  /\ \A id \in 0..(FirstQueued - 1) :
       id \in DOMAIN consumed \/ \E w \in Workers : Has(w) /\ hand[w].id = id
-----------------------------------------------------------------------------
(* The pieces enqueue_task cuts.                                           *)
LEMMA PiecesFacts ==
  ASSUME NEW len \in Nat, NEW threads \in Nat \ {0}, len >= threads
  PROVE  /\ Len(Pieces(len, threads)) \in Nat \ {0}
         /\ \A i \in 1..Len(Pieces(len, threads)) :
              /\ Pieces(len, threads)[i].off \in Nat
              /\ Pieces(len, threads)[i].size \in Nat
<1> DEFINE p == Pieces(len, threads)
           n == NumChunks(len, threads)
<1>1. n \in Nat \ {0} /\ p \in [1..n -> [off : Nat, size : Nat \ {0}]]
  BY PiecesTile
<1> HIDE DEF p, n
<1>2. p \in Seq([off : Nat, size : Nat \ {0}]) /\ Len(p) = n
  BY <1>1, FunctionIsSeq
<1>3. \A i \in 1..Len(p) : p[i].off \in Nat /\ p[i].size \in Nat
  BY <1>1, <1>2
<1> QED
  BY <1>1, <1>2, <1>3 DEF p

(* One thread gets the buffer in one piece.                                *)
LEMMA OnePiece ==
  ASSUME NEW len \in Nat \ {0}
  PROVE  /\ Len(Pieces(len, 1)) = 1
         /\ Pieces(len, 1)[1].off = 0
         /\ Pieces(len, 1)[1].size = len
<1>1. ChunkSize(len, 1) = len
  BY DivUnique DEF ChunkSize
<1>2. NumChunks(len, 1) = 1
  <2>1. (1 - 1) * ChunkSize(len, 1) < len /\ len <= 1 * ChunkSize(len, 1)
    BY <1>1
  <2> QED
    BY <2>1, NumChunksUnique
<1> DEFINE c == ChunkSize(len, 1)
           n == NumChunks(len, 1)
<1>3. Pieces(len, 1) =
        [i \in 1..n |-> [off  |-> (i - 1) * c,
                         size |-> IF i < n THEN c ELSE len - (n - 1) * c]]
  BY DEF Pieces
<1>4. n = 1 /\ c = len
  BY <1>1, <1>2
<1> HIDE DEF c, n
<1>5. Pieces(len, 1)[1] = [off |-> (1 - 1) * c, size |-> len - (1 - 1) * c]
  BY <1>3, <1>4
<1>6. (1 - 1) * c = 0 /\ len - (1 - 1) * c = len
  BY <1>4
<1>7. DOMAIN Pieces(len, 1) = 1..1
  BY <1>3, <1>4
<1>8. Len(Pieces(len, 1)) \in Nat /\ DOMAIN Pieces(len, 1) = 1..Len(Pieces(len, 1))
  <2> DEFINE p == Pieces(len, 1)
  <2>1. p \in [1..1 -> [off : Nat, size : Nat \ {0}]]
    <3>1. LET n1 == NumChunks(len, 1) IN p \in [1..n1 -> [off : Nat, size : Nat \ {0}]]
      BY PiecesTile
    <3> QED
      BY <1>2, <3>1
  <2> HIDE DEF p
  <2>2. p \in Seq([off : Nat, size : Nat \ {0}])
    BY <2>1, FunctionIsSeq
  <2>3. Len(p) \in Nat /\ DOMAIN p = 1..Len(p)
    BY <2>2, LenProperties
  <2> QED
    BY <2>3 DEF p
<1> QED
  BY <1>5, <1>6, <1>7, <1>8

(* enqueue_task appends tasks with consecutive ids, all in the buffer; one *)
(* thread gets one task, of all of it.                                     *)
LEMMA EnqueueEffect ==
  ASSUME TypeOK, NEW buf \in Pointers, NEW len \in Nat, NEW next,
         EnqueueTask(buf, len, next)
  PROVE  \/ /\ len < Threads /\ caller_pc' = "spinning"
            /\ UNCHANGED <<task_queue, next_id>>
         \/ /\ len >= Threads /\ caller_pc' = next
            /\ \E new \in Seq(Tasks) :
                 /\ Len(new) \in Nat \ {0}
                 /\ next_id' = next_id + Len(new)
                 /\ task_queue' = task_queue \o new
                 /\ \A i \in 1..Len(new) : /\ new[i].blk = buf.blk
                                           /\ new[i].id = next_id + i - 1
                 /\ Threads = 1 => /\ Len(new) = 1
                                   /\ new[1].off = buf.off
                                   /\ new[1].size = len
<1>1. CASE len < Threads
  BY <1>1 DEF EnqueueTask
<1>2. CASE ~(len < Threads)
  <2> DEFINE p == Pieces(len, Threads)
             k == Len(p)
             new == [i \in 1..k |-> [blk  |-> buf.blk, off |-> buf.off + p[i].off,
                                     size |-> p[i].size, id |-> next_id + i - 1]]
  <2>1. len >= Threads
    BY <1>2, Constants
  <2>2. /\ caller_pc' = next /\ next_id' = next_id + k
        /\ task_queue' = task_queue \o new
    BY <1>2 DEF EnqueueTask
  <2>3. k \in Nat \ {0} /\ \A i \in 1..k : p[i].off \in Nat /\ p[i].size \in Nat
    BY <2>1, Constants, PiecesFacts
  <2>4. Threads = 1 => k = 1 /\ p[1].off = 0 /\ p[1].size = len
    BY <2>1, OnePiece
  <2> HIDE DEF p, k
  <2>5. buf.blk \in Blocks /\ buf.off \in Nat /\ next_id \in Nat
    BY DEF Pointers, TypeOK
  <2>6. new \in [1..k -> Tasks]
    BY <2>3, <2>5 DEF Tasks
  <2>7. new \in Seq(Tasks) /\ Len(new) = k
    BY <2>3, <2>6, FunctionIsSeq
  <2>9. \A i \in 1..k : /\ new[i].blk = buf.blk /\ new[i].id = next_id + i - 1
                        /\ new[i].off = buf.off + p[i].off
                        /\ new[i].size = p[i].size
    OBVIOUS
  <2>10. Threads = 1 => new[1].off = buf.off /\ new[1].size = len
    BY <2>3, <2>4, <2>5, <2>9
  <2> HIDE DEF new
  <2> QED
    BY <2>1, <2>2, <2>3, <2>4, <2>7, <2>9, <2>10
<1> QED
  BY <1>1, <1>2
-----------------------------------------------------------------------------
(* Writing bytes at pptr.                                                  *)
LEMMA PutEffect ==
  ASSUME TypeOK, NEW memory, MemOK(memory), NEW bytes \in Seq(Byte), NEW next,
         Put(memory, bytes, next)
  PROVE  \/ caller_pc' = "undefined" /\ UNCHANGED <<mem, pos>>
            /\ ~(base.off + pos + Len(bytes) <= BlockSize(base.blk))
         \/ /\ base.off + pos + Len(bytes) <= BlockSize(base.blk)
            /\ caller_pc' = next
            /\ pos' = pos + Len(bytes)
            /\ MemOK(mem')
            /\ \A b \in Blocks : b # base.blk => mem'[b] = memory[b]
            /\ \A i \in 1..BlockSize(base.blk) :
                 mem'[base.blk][i] = IF i - base.off - pos \in 1..Len(bytes)
                                     THEN bytes[i - base.off - pos]
                                     ELSE memory[base.blk][i]
<1>1. CASE ~(base.off + pos + Len(bytes) <= BlockSize(base.blk))
  BY <1>1 DEF Put
<1>2. CASE base.off + pos + Len(bytes) <= BlockSize(base.blk)
  <2> DEFINE b0 == base.blk
             o == base.off
             New == [i \in DOMAIN memory[b0] |->
                       IF i - o - pos \in 1..Len(bytes) THEN bytes[i - o - pos]
                       ELSE memory[b0][i]]
  <2>1. /\ mem' = [memory EXCEPT ![b0] = New]
        /\ pos' = pos + Len(bytes) /\ caller_pc' = next
    BY <1>2 DEF Put, Stored
  <2>2. b0 \in Blocks /\ o \in Nat /\ pos \in Int
    BY DEF TypeOK, Pointers
  <2>3. /\ DOMAIN memory = Blocks
        /\ \A b \in Blocks : memory[b] \in [1..BlockSize(b) -> Byte]
    BY DEF MemOK
  <2>4. DOMAIN memory[b0] = 1..BlockSize(b0)
    BY <2>2, <2>3
  <2>5. BlockSize(b0) \in Nat /\ Len(bytes) \in Nat
    BY <2>2, Constants, LenProperties
  <2>6. \A j \in 1..Len(bytes) : bytes[j] \in Byte
    BY ElementOfSeq
  <2> HIDE DEF b0, o
  <2>7. New \in [1..BlockSize(b0) -> Byte]
    <3>1. \A i \in 1..BlockSize(b0) : memory[b0][i] \in Byte
      BY <2>2, <2>3
    <3> QED
      BY <2>4, <2>6, <3>1
  <2>8. \A i \in 1..BlockSize(b0) : New[i] = IF i - o - pos \in 1..Len(bytes)
                                           THEN bytes[i - o - pos]
                                           ELSE memory[b0][i]
    BY <2>4
  <2> HIDE DEF New
  <2>9. DOMAIN mem' = Blocks /\ mem'[b0] = New
        /\ \A b \in Blocks : b # b0 => mem'[b] = memory[b]
    BY <2>1, <2>2, <2>3
  <2>10. MemOK(mem')
    <3>1. \A b \in Blocks : mem'[b] \in [1..BlockSize(b) -> Byte]
      <4> TAKE b \in Blocks
      <4>1. CASE b = b0
        BY <2>7, <2>9, <4>1
      <4>2. CASE b # b0
        BY <2>3, <2>9, <4>2
      <4> QED
        BY <4>1, <4>2
    <3> QED
      BY <2>9, <3>1 DEF MemOK
  <2> QED
    BY <1>2, <2>1, <2>8, <2>9, <2>10 DEF b0, o
<1> QED
  BY <1>1, <1>2

(* The parts of TypeOK the caller's and the workers' steps may change.     *)
CallerTypes ==
  /\ MemOK(mem)
  /\ nblocks \in 1..MaxBlocks
  /\ base \in Pointers
  /\ pos \in 0..BufferSize
  /\ caller_pc \in {"idle", "flush", "get_buffer", "rest", "spinning",
                    "undefined"}
  /\ rest \in 0..UserSize
  /\ src \in ByValue..UserSize
  /\ total \in 0..MaxBytes
  /\ lent \in BOOLEAN
PoolTypes == pool \in Seq(Pointers) /\ Len(pool) <= Threads + 1
TaskTypes ==
  /\ task_queue \in Seq(Tasks)
  /\ next_id \in Nat
  /\ hand \in [Workers -> Tasks \cup {NoTask}]
  /\ processed \in [Workers -> BOOLEAN]

LEMMA TypesSplit ==
  /\ TypeOK => CallerTypes /\ PoolTypes /\ TaskTypes
  /\ CallerTypes /\ PoolTypes /\ TaskTypes /\ IdsInv => TypeOK
<1>1. TypeOK => CallerTypes /\ PoolTypes /\ TaskTypes
  BY DEF TypeOK, CallerTypes, PoolTypes, TaskTypes, MemOK, Byte
<1>2. TaskTypes /\ IdsInv => DOMAIN consumed \subseteq 0..(next_id - 1)
  <2> SUFFICES ASSUME TaskTypes, IdsInv, NEW id \in DOMAIN consumed
               PROVE  id \in 0..(next_id - 1)
    OBVIOUS
  <2>1. id \in Nat /\ id < FirstQueued
    BY DEF IdsInv
  <2>2. next_id \in Nat /\ Len(task_queue) \in Nat
    BY LenProperties DEF TaskTypes
  <2> QED
    BY <2>1, <2>2 DEF FirstQueued
<1>3. CallerTypes /\ PoolTypes /\ TaskTypes /\ IdsInv => TypeOK
  BY <1>2 DEF TypeOK, CallerTypes, PoolTypes, TaskTypes, MemOK, Byte
<1> QED
  BY <1>1, <1>3
-----------------------------------------------------------------------------
(* What a call does to the memory and to what it has still to place.       *)
WithUser(n) ==
  [mem EXCEPT ![User] = [i \in 1..n |-> total + i - 1]
                          \o [i \in 1..UserSize - n |-> Unset]]

LEMMA UserArray ==
  ASSUME TypeOK, NEW n \in WriteSizes
  PROVE  /\ MemOK(WithUser(n))
         /\ \A b \in Blocks : b # User => WithUser(n)[b] = mem[b]
         /\ \A i \in 1..n : WithUser(n)[User][i] = total + i - 1
<1> DEFINE written == [i \in 1..n |-> total + i - 1]
           unset   == [i \in 1..UserSize - n |-> Unset]
           u       == written \o unset
<1>1. n \in Nat /\ UserSize - n \in Nat /\ total \in Nat /\ UserSize \in Nat
  BY Constants DEF TypeOK
<1>2. written \in [1..n -> Byte] /\ unset \in [1..UserSize - n -> Byte]
  <2>1. \A i \in 1..n : total + i - 1 \in Byte
    BY <1>1 DEF Byte
  <2>2. Unset \in Byte
    BY DEF Byte
  <2> QED
    BY <2>1, <2>2
<1>3. \A i \in 1..n : written[i] = total + i - 1
  OBVIOUS
<1> HIDE DEF written, unset
<1>4. /\ written \in Seq(Byte) /\ Len(written) = n
      /\ unset \in Seq(Byte) /\ Len(unset) = UserSize - n
  BY <1>1, <1>2, FunctionIsSeq
<1>5. /\ u \in Seq(Byte) /\ Len(u) = n + (UserSize - n)
      /\ \A i \in 1..n + (UserSize - n) : u[i] = IF i <= n THEN written[i] ELSE unset[i - n]
  BY <1>4, ConcatProperties
<1>6. n + (UserSize - n) = UserSize
  BY <1>1
<1> HIDE DEF u
<1>7. u \in [1..UserSize -> Byte]
  BY <1>5, <1>6, LenProperties
<1>8. \A i \in 1..n : u[i] = total + i - 1
  BY <1>1, <1>3, <1>5, <1>6
<1>9. WithUser(n) = [mem EXCEPT ![User] = u]
  BY DEF WithUser, u, written, unset
<1>10. /\ DOMAIN mem = Blocks
       /\ \A b \in Blocks : mem[b] \in [1..BlockSize(b) -> Byte]
  BY DEF TypeOK, Byte
<1>11. User \in Blocks /\ BlockSize(User) = UserSize
  BY Constants DEF BlockSize
<1> DEFINE m == WithUser(n)
<1>12. /\ DOMAIN m = Blocks /\ m[User] = u
       /\ \A b \in Blocks : b # User => m[b] = mem[b]
  BY <1>9, <1>10, <1>11
<1> HIDE DEF m
<1>13. \A b \in Blocks : m[b] \in [1..BlockSize(b) -> Byte]
  <2> TAKE b \in Blocks
  <2>1. CASE b = User
    BY <1>7, <1>11, <1>12, <2>1
  <2>2. CASE b # User
    BY <1>10, <1>12, <2>2
  <2> QED
    BY <2>1, <2>2
<1>14. MemOK(m)
  BY <1>12, <1>13 DEF MemOK
<1> QED
  BY <1>8, <1>12, <1>14 DEF m

LEMMA XsputnEffect ==
  ASSUME TypeOK, CallInv, NEW n \in WriteSizes, Xsputn(n)
  PROVE  \E f \in 0..n :
           /\ f <= BufferSize - pos
           /\ f < n => f = BufferSize - pos
           /\ caller_pc = "idle"
           /\ total' = total + n /\ total' <= MaxBytes
           /\ rest' = n - f
           /\ src' = IF f < n THEN f ELSE 0
           /\ UNCHANGED <<nblocks, base, pool, task_queue, next_id, hand,
                          processed, consumed, lent>>
           /\ \/ /\ caller_pc' = "undefined" /\ UNCHANGED pos /\ UNCHANGED mem
                 /\ ~(base.off + pos + f <= BlockSize(base.blk))
              \/ /\ base.off + pos + f <= BlockSize(base.blk)
                 /\ caller_pc' = IF f < n THEN "flush" ELSE "idle"
                 /\ pos' = pos + f
                 /\ MemOK(mem')
                 /\ \A b \in Blocks : b \notin {User, base.blk} => mem'[b] = mem[b]
                 /\ base.blk # User =>
                      /\ \A i \in 1..n : mem'[User][i] = total + i - 1
                      /\ \A i \in 1..BlockSize(base.blk) :
                           mem'[base.blk][i] =
                             IF i - base.off - pos \in 1..f
                             THEN total + (i - base.off - pos) - 1
                             ELSE mem[base.blk][i]
<1> DEFINE bytes == [i \in 1..n |-> total + i - 1]
           f     == Fits(n)
           some  == SubSeq(bytes, 1, f)
           next  == IF n > f THEN "flush" ELSE "idle"
<1>1. n \in Nat /\ n >= 1 /\ BufferSize \in Nat /\ total \in Nat /\ pos \in 0..BufferSize
  BY Constants DEF TypeOK
<1>2. f = IF n <= BufferSize - pos THEN n ELSE BufferSize - pos
  BY <1>1, MinOfTwo DEF Fits, Available
<1>3. /\ f \in 0..n /\ f <= BufferSize - pos
      /\ f < n => f = BufferSize - pos
  BY <1>1, <1>2
<1>4. /\ caller_pc = "idle" /\ total + n <= MaxBytes
      /\ total' = total + n /\ rest' = n - f
      /\ src' = IF n > f THEN f ELSE 0
      /\ Put(WithUser(n), some, next)
      /\ UNCHANGED <<nblocks, base, pool, task_queue, next_id, hand,
                     processed, consumed, lent>>
  BY DEF Xsputn, Left, WithUser, workerVars
<1>5. \A i \in 1..f : bytes[i] = total + i - 1 /\ bytes[i] \in Byte
  BY <1>1, <1>3 DEF Byte
<1> HIDE DEF bytes, f
<1>6. /\ some \in Seq(Byte)
      /\ Len(some) = f
      /\ \A i \in 1..f : some[i] = total + i - 1
  <2>1. /\ some \in Seq(Byte)
        /\ Len(some) = IF 1 <= f THEN f - 1 + 1 ELSE 0
        /\ \A i \in 1..(f - 1 + 1) : some[i] = bytes[1 + i - 1]
    BY <1>3, <1>5, SubSeqProperties
  <2> QED
    BY <1>1, <1>3, <1>5, <2>1
<1> HIDE DEF some
<1>7. \/ caller_pc' = "undefined" /\ UNCHANGED <<mem, pos>>
         /\ ~(base.off + pos + f <= BlockSize(base.blk))
      \/ /\ base.off + pos + f <= BlockSize(base.blk)
         /\ caller_pc' = next
         /\ pos' = pos + f
         /\ MemOK(mem')
         /\ \A b \in Blocks : b # base.blk => mem'[b] = WithUser(n)[b]
         /\ \A i \in 1..BlockSize(base.blk) :
              mem'[base.blk][i] = IF i - base.off - pos \in 1..f
                                  THEN some[i - base.off - pos]
                                  ELSE WithUser(n)[base.blk][i]
  <2> HIDE DEF next
  <2> QED
    BY <1>4, <1>6, PutEffect, UserArray
<1>8. next = IF f < n THEN "flush" ELSE "idle"
  BY <1>1, <1>3
<1> HIDE DEF next
<1>9. /\ \A b \in Blocks : b # User => WithUser(n)[b] = mem[b]
      /\ \A i \in 1..n : WithUser(n)[User][i] = total + i - 1
  BY UserArray
<1>10. User \in Blocks /\ base.blk \in Blocks
  BY Constants DEF TypeOK, Pointers
<1>11. src' = IF f < n THEN f ELSE 0
  BY <1>1, <1>3, <1>4
<1>12. CASE caller_pc' = "undefined" /\ UNCHANGED <<mem, pos>>
            /\ ~(base.off + pos + f <= BlockSize(base.blk))
  BY <1>3, <1>4, <1>11, <1>12
<1>13. CASE /\ base.off + pos + f <= BlockSize(base.blk)
            /\ caller_pc' = next
            /\ pos' = pos + f
            /\ MemOK(mem')
            /\ \A b \in Blocks : b # base.blk => mem'[b] = WithUser(n)[b]
            /\ \A i \in 1..BlockSize(base.blk) :
                 mem'[base.blk][i] = IF i - base.off - pos \in 1..f
                                     THEN some[i - base.off - pos]
                                     ELSE WithUser(n)[base.blk][i]
  <2>1. \A b \in Blocks : b \notin {User, base.blk} => mem'[b] = mem[b]
    BY <1>9, <1>13
  <2>2. ASSUME base.blk # User PROVE \A i \in 1..n : mem'[User][i] = total + i - 1
    BY <1>9, <1>10, <1>13, <2>2
  <2>3. ASSUME base.blk # User, NEW i \in 1..BlockSize(base.blk)
        PROVE  mem'[base.blk][i] = IF i - base.off - pos \in 1..f
                                   THEN total + (i - base.off - pos) - 1
                                   ELSE mem[base.blk][i]
    BY <1>6, <1>9, <1>10, <1>13, <2>3
  <2> QED
    BY <1>3, <1>4, <1>8, <1>11, <1>13, <2>1, <2>2, <2>3
<1> QED
  BY <1>7, <1>12, <1>13

LEMMA SputcEffect ==
  ASSUME TypeOK, Sputc
  PROVE  /\ caller_pc = "idle"
         /\ total' = total + 1 /\ total' <= MaxBytes
         /\ UNCHANGED <<nblocks, base, pool, task_queue, next_id, hand,
                        processed, consumed, lent>>
         /\ \/ /\ pos = BufferSize
               /\ rest' = 1 /\ src' = ByValue /\ caller_pc' = "flush"
               /\ UNCHANGED mem /\ UNCHANGED pos
            \/ /\ pos < BufferSize /\ UNCHANGED rest /\ UNCHANGED src
               /\ caller_pc' = "undefined" /\ UNCHANGED pos /\ UNCHANGED mem
               /\ ~(base.off + pos + 1 <= BlockSize(base.blk))
            \/ /\ pos < BufferSize /\ UNCHANGED rest /\ UNCHANGED src
               /\ caller_pc' = "idle"
               /\ pos' = pos + 1
               /\ MemOK(mem')
               /\ \A b \in Blocks : b # base.blk => mem'[b] = mem[b]
               /\ \A i \in 1..BlockSize(base.blk) :
                    mem'[base.blk][i] = IF i = base.off + pos + 1 THEN total
                                        ELSE mem[base.blk][i]
<1>1. pos \in 0..BufferSize /\ total \in Nat /\ BufferSize \in Nat /\ base.off \in Nat
  BY Constants DEF TypeOK, Pointers
<1>2. /\ caller_pc = "idle" /\ total < MaxBytes /\ total' = total + 1
      /\ UNCHANGED <<nblocks, base, pool, task_queue, next_id, hand,
                     processed, consumed, lent>>
  BY DEF Sputc, workerVars
<1>3. total' <= MaxBytes
  BY <1>1, <1>2, Constants
<1>4. CASE ~(Available > 0)
  <2>1. pos = BufferSize
    BY <1>1, <1>4 DEF Available
  <2> QED
    BY <1>2, <1>3, <1>4, <2>1 DEF Sputc
<1>5. CASE Available > 0
  <2>1. pos < BufferSize
    BY <1>1, <1>5 DEF Available
  <2>2. Put(mem, <<total>>, "idle") /\ UNCHANGED rest /\ UNCHANGED src
    BY <1>5 DEF Sputc
  <2>3. <<total>> \in Seq(Byte) /\ Len(<<total>>) = 1 /\ <<total>>[1] = total
    BY <1>1 DEF Byte
  <2>4. MemOK(mem)
    BY TypesSplit DEF CallerTypes
  <2> DEFINE one == <<total>>
  <2>5. one \in Seq(Byte) /\ Len(one) = 1 /\ one[1] = total
    BY <2>3
  <2>6. Put(mem, one, "idle")
    BY <2>2
  <2> HIDE DEF one
  <2>7. \/ caller_pc' = "undefined" /\ UNCHANGED <<mem, pos>>
           /\ ~(base.off + pos + 1 <= BlockSize(base.blk))
        \/ /\ caller_pc' = "idle"
           /\ pos' = pos + 1
           /\ MemOK(mem')
           /\ \A b \in Blocks : b # base.blk => mem'[b] = mem[b]
           /\ \A i \in 1..BlockSize(base.blk) :
                mem'[base.blk][i] = IF i - base.off - pos \in 1..1
                                    THEN one[i - base.off - pos]
                                    ELSE mem[base.blk][i]
    BY <2>4, <2>5, <2>6, PutEffect
  <2>8. ASSUME NEW i \in 1..BlockSize(base.blk)
        PROVE  /\ i - base.off - pos \in 1..1 <=> i = base.off + pos + 1
               /\ i = base.off + pos + 1 => i - base.off - pos = 1
    <3>1. base.off \in Nat /\ base.blk \in Blocks /\ pos \in Nat
      BY <1>1 DEF TypeOK, Pointers
    <3>2. BlockSize(base.blk) \in Nat
      BY <3>1, Constants
    <3> QED
      BY <3>1, <3>2
  <2>9. CASE caller_pc' = "undefined" /\ UNCHANGED <<mem, pos>>
           /\ ~(base.off + pos + 1 <= BlockSize(base.blk))
    BY <1>2, <1>3, <2>1, <2>2, <2>9
  <2>10. CASE /\ caller_pc' = "idle"
              /\ pos' = pos + 1
              /\ MemOK(mem')
              /\ \A b \in Blocks : b # base.blk => mem'[b] = mem[b]
              /\ \A i \in 1..BlockSize(base.blk) :
                   mem'[base.blk][i] = IF i - base.off - pos \in 1..1
                                       THEN one[i - base.off - pos]
                                       ELSE mem[base.blk][i]
    <3>1. ASSUME NEW i \in 1..BlockSize(base.blk)
          PROVE  mem'[base.blk][i] = IF i = base.off + pos + 1 THEN total
                                     ELSE mem[base.blk][i]
      BY <2>5, <2>8, <2>10
    <3> QED
      BY <1>2, <1>3, <2>1, <2>2, <2>10, <3>1
  <2> QED
    BY <2>7, <2>9, <2>10
<1> QED
  BY <1>4, <1>5

LEMMA PutRestEffect ==
  ASSUME TypeOK, CallInv, PutRest
  PROVE  /\ caller_pc = "rest" /\ pos = 0 /\ rest \in 1..(BufferSize - 1)
         /\ rest' = 0 /\ src' = 0
         /\ UNCHANGED <<nblocks, base, pool, task_queue, next_id, hand,
                        processed, consumed, lent, total>>
         /\ \/ /\ caller_pc' = "undefined" /\ UNCHANGED pos /\ UNCHANGED mem
               /\ ~(base.off + rest <= BlockSize(base.blk))
            \/ /\ caller_pc' = "idle"
               /\ pos' = rest
               /\ MemOK(mem')
               /\ \A b \in Blocks : b # base.blk => mem'[b] = mem[b]
               /\ \A i \in 1..BlockSize(base.blk) :
                    mem'[base.blk][i] =
                      IF i - base.off \in 1..rest
                      THEN IF src = ByValue THEN total - 1
                                            ELSE mem[User][src + i - base.off]
                      ELSE mem[base.blk][i]
<1>1. /\ pos = 0 /\ rest \in 1..(BufferSize - 1) /\ rest \in Nat
      /\ rest <= UserSize /\ rest <= total
  BY Constants DEF CallInv, TypeOK, PutRest
<1>2. /\ caller_pc = "rest" /\ rest' = 0 /\ src' = 0
      /\ UNCHANGED <<nblocks, base, pool, task_queue, next_id, hand,
                     processed, consumed, lent, total>>
      /\ Put(mem, RestBytes, "idle")
  BY DEF PutRest, workerVars
<1>3. base.off \in Nat /\ base.blk \in Blocks /\ total \in Nat /\ src \in Int
  BY ByValueFact, Constants DEF TypeOK, Pointers
<1> DEFINE Val(k) == IF src = ByValue THEN total - 1 ELSE mem[User][src + k]
<1>4. /\ RestBytes \in Seq(Byte) /\ Len(RestBytes) = rest
      /\ \A k \in 1..rest : RestBytes[k] = Val(k)
  <2>1. CASE src = ByValue
    <3>1. rest = 1 /\ total - 1 \in Nat
      BY <1>1, <1>3, <2>1 DEF CallInv
    <3>2. RestBytes = <<total - 1>>
      BY <2>1 DEF RestBytes
    <3>3. \A k \in 1..rest : RestBytes[k] = total - 1
      BY <3>1, <3>2
    <3>4. RestBytes \in Seq(Byte) /\ Len(RestBytes) = 1
      BY <3>1, <3>2 DEF Byte
    <3> QED
      BY <2>1, <3>1, <3>3, <3>4
  <2>2. CASE src # ByValue
    <3>1. src \in Nat /\ src + rest <= UserSize
      BY <1>1, <1>3, <2>2, ByValueFact DEF TypeOK, CallInv, ByValue
    <3>2. \A i \in 1..UserSize : mem[User][i] \in Byte
      BY Constants DEF TypeOK, BlockSize, Byte
    <3>3. \A i \in (src + 1)..(src + rest) : mem[User][i] \in Byte
      BY <1>1, <3>1, <3>2, Constants
    <3> DEFINE u == mem[User]
               s == SubSeq(u, src + 1, src + rest)
    <3>4. /\ s \in Seq(Byte)
          /\ Len(s) = IF src + 1 <= src + rest THEN (src + rest) - (src + 1) + 1 ELSE 0
          /\ \A i \in 1..((src + rest) - (src + 1) + 1) : s[i] = u[src + 1 + i - 1]
      <4> DEFINE lo == src + 1
                 hi == src + rest
      <4>1. lo \in Int /\ hi \in Int
        BY <1>1, <3>1
      <4>2. \A i \in lo..hi : u[i] \in Byte
        BY <3>3
      <4> HIDE DEF u, lo, hi
      <4>3. /\ SubSeq(u, lo, hi) \in Seq(Byte)
            /\ Len(SubSeq(u, lo, hi)) = IF lo <= hi THEN hi - lo + 1 ELSE 0
            /\ \A i \in 1..(hi - lo + 1) : SubSeq(u, lo, hi)[i] = u[lo + i - 1]
        BY <4>1, <4>2, SubSeqProperties
      <4> QED
        BY <4>3 DEF lo, hi
    <3>5. RestBytes = s
      BY <2>2 DEF RestBytes
    <3> HIDE DEF s
    <3>6. \A k \in 1..rest : s[k] = u[src + k]
      <4> TAKE k \in 1..rest
      <4>1. k \in 1..((src + rest) - (src + 1) + 1) /\ src + 1 + k - 1 = src + k
        BY <1>1, <3>1
      <4> QED
        BY <3>4, <4>1
    <3>7. Len(s) = rest
      BY <1>1, <3>1, <3>4
    <3> QED
      BY <2>2, <3>4, <3>5, <3>6, <3>7
  <2> QED
    BY <2>1, <2>2
<1> HIDE DEF Val
<1>5. MemOK(mem)
  BY TypesSplit DEF CallerTypes
<1>6. \/ caller_pc' = "undefined" /\ UNCHANGED <<mem, pos>>
         /\ ~(base.off + pos + rest <= BlockSize(base.blk))
      \/ /\ caller_pc' = "idle"
         /\ pos' = pos + rest
         /\ MemOK(mem')
         /\ \A b \in Blocks : b # base.blk => mem'[b] = mem[b]
         /\ \A i \in 1..BlockSize(base.blk) :
              mem'[base.blk][i] = IF i - base.off - pos \in 1..rest
                                  THEN RestBytes[i - base.off - pos]
                                  ELSE mem[base.blk][i]
  BY <1>2, <1>4, <1>5, PutEffect
<1>7. CASE caller_pc' = "undefined" /\ UNCHANGED <<mem, pos>>
           /\ ~(base.off + pos + rest <= BlockSize(base.blk))
  <2>1. ~(base.off + rest <= BlockSize(base.blk))
    BY <1>1, <1>3, <1>7
  <2> QED
    BY <1>1, <1>2, <1>7, <2>1
<1>8. CASE /\ caller_pc' = "idle"
           /\ pos' = pos + rest
           /\ MemOK(mem')
           /\ \A b \in Blocks : b # base.blk => mem'[b] = mem[b]
           /\ \A i \in 1..BlockSize(base.blk) :
                mem'[base.blk][i] = IF i - base.off - pos \in 1..rest
                                    THEN RestBytes[i - base.off - pos]
                                    ELSE mem[base.blk][i]
  <2>1. pos' = rest
    BY <1>1, <1>8
  <2>2. ASSUME NEW i \in 1..BlockSize(base.blk)
        PROVE  mem'[base.blk][i] =
                 IF i - base.off \in 1..rest
                 THEN IF src = ByValue THEN total - 1
                                       ELSE mem[User][src + i - base.off]
                 ELSE mem[base.blk][i]
    <3>1. i - base.off - pos = i - base.off /\ i - base.off \in Int
      BY <1>1, <1>3, Constants
    <3>2. src + (i - base.off) = src + i - base.off
      BY <1>3, Constants
    <3>3. mem'[base.blk][i] = IF i - base.off \in 1..rest
                              THEN RestBytes[i - base.off] ELSE mem[base.blk][i]
      BY <1>8, <3>1
    <3> DEFINE k == i - base.off
    <3>4. k \in 1..rest => RestBytes[k] = IF src = ByValue THEN total - 1
                                          ELSE mem[User][src + k]
      BY <1>4 DEF Val
    <3> QED
      BY <3>2, <3>3, <3>4
  <2> QED
    BY <1>1, <1>2, <1>8, <2>1, <2>2
<1> QED
  BY <1>6, <1>7, <1>8
-----------------------------------------------------------------------------
(* The caller's steps keep its types and CallInv.                          *)
LEMMA XsputnCall ==
  ASSUME TypeOK, CallInv, NEW n \in WriteSizes, Xsputn(n)
  PROVE  CallerTypes' /\ CallInv'
<1>1. n \in 1..UserSize /\ n \in Nat /\ BufferSize \in Nat /\ BufferSize >= 2
      /\ UserSize \in Nat /\ MaxBytes \in Nat
  BY Constants
<1>2. /\ CallerTypes /\ pos \in 0..BufferSize /\ total \in 0..MaxBytes
      /\ ByValue \in Int /\ ByValue < 0
  BY TypesSplit, ByValueFact DEF TypeOK
<1>3. PICK f \in 0..n :
        /\ f <= BufferSize - pos
        /\ f < n => f = BufferSize - pos
        /\ total' = total + n /\ total' <= MaxBytes
        /\ rest' = n - f
        /\ src' = IF f < n THEN f ELSE 0
        /\ UNCHANGED <<nblocks, base, lent>>
        /\ \/ caller_pc' = "undefined" /\ UNCHANGED pos /\ UNCHANGED mem
           \/ /\ caller_pc' = IF f < n THEN "flush" ELSE "idle"
              /\ pos' = pos + f
              /\ MemOK(mem')
  BY XsputnEffect
<1>4. total' \in 0..MaxBytes /\ rest' \in 0..UserSize /\ src' \in ByValue..UserSize
  BY <1>1, <1>2, <1>3
<1>5. pos' \in 0..BufferSize /\ (caller_pc' = "flush" => pos' > 0)
  BY <1>1, <1>2, <1>3
<1>6. MemOK(mem') /\ caller_pc' \in {"idle", "flush", "undefined"}
  BY <1>2, <1>3 DEF CallerTypes
<1>7. CallerTypes'
  BY <1>2, <1>3, <1>4, <1>5, <1>6 DEF CallerTypes
<1>8. /\ rest' = 0 => src' = 0
      /\ src' # ByValue
      /\ src' + rest' <= UserSize
      /\ rest' <= total'
      /\ caller_pc' = "idle" => rest' = 0
  BY <1>1, <1>2, <1>3
<1> QED
  BY <1>5, <1>6, <1>7, <1>8 DEF CallInv

LEMMA SputcCall ==
  ASSUME TypeOK, CallInv, Sputc
  PROVE  CallerTypes' /\ CallInv'
<1>1. /\ BufferSize \in Nat /\ BufferSize >= 2
      /\ UserSize \in Nat /\ UserSize >= 1 /\ MaxBytes \in Nat
  BY Constants
<1>2. /\ CallerTypes /\ pos \in 0..BufferSize /\ total \in 0..MaxBytes
      /\ ByValue \in Int /\ ByValue < 0
  BY TypesSplit, ByValueFact DEF TypeOK
<1>3. /\ total' = total + 1 /\ total' <= MaxBytes
      /\ UNCHANGED <<nblocks, base, lent>>
      /\ caller_pc = "idle" /\ rest = 0 /\ src = 0
  BY SputcEffect DEF CallInv
<1>4. total' \in 0..MaxBytes
  BY <1>1, <1>2, <1>3
<1>5. CASE /\ pos = BufferSize
           /\ rest' = 1 /\ src' = ByValue /\ caller_pc' = "flush"
           /\ UNCHANGED mem /\ UNCHANGED pos
  <2>1. rest' \in 0..UserSize /\ src' \in ByValue..UserSize /\ rest' <= total' /\ pos' > 0
    BY <1>1, <1>2, <1>3, <1>5
  <2>2. CallerTypes'
    BY <1>2, <1>3, <1>4, <1>5, <2>1 DEF CallerTypes
  <2>3. rest' # 0 /\ caller_pc' = "flush"
    BY <1>5
  <2>4. CallInv'
    BY <1>5, <2>1, <2>3 DEF CallInv
  <2> QED
    BY <2>2, <2>4
<1>6. CASE /\ pos < BufferSize /\ UNCHANGED rest /\ UNCHANGED src
           /\ \/ caller_pc' = "undefined" /\ UNCHANGED pos /\ UNCHANGED mem
              \/ caller_pc' = "idle" /\ pos' = pos + 1 /\ MemOK(mem')
  <2>1. /\ pos' \in 0..BufferSize /\ MemOK(mem') /\ caller_pc' \in {"idle", "undefined"}
        /\ rest' \in 0..UserSize /\ src' \in ByValue..UserSize
    BY <1>1, <1>2, <1>3, <1>6 DEF CallerTypes
  <2>2. CallerTypes'
    BY <1>2, <1>3, <1>4, <2>1 DEF CallerTypes
  <2>3. rest' = 0 /\ src' = 0 /\ src' # ByValue /\ src' + rest' <= UserSize /\ rest' <= total'
    BY <1>1, <1>2, <1>3, <1>6
  <2>4. CallInv'
    BY <2>1, <2>3 DEF CallInv
  <2> QED
    BY <2>2, <2>4
<1> QED
  BY <1>5, <1>6, SputcEffect

LEMMA PutRestCall ==
  ASSUME TypeOK, CallInv, PutRest
  PROVE  CallerTypes' /\ CallInv'
<1>1. /\ BufferSize \in Nat /\ BufferSize >= 2
      /\ UserSize \in Nat /\ UserSize >= 1 /\ MaxBytes \in Nat
  BY Constants
<1>2. /\ CallerTypes /\ total \in 0..MaxBytes
      /\ ByValue \in Int /\ ByValue < 0
  BY TypesSplit, ByValueFact DEF TypeOK
<1>3. /\ pos = 0 /\ rest \in 1..(BufferSize - 1) /\ rest' = 0 /\ src' = 0
      /\ UNCHANGED <<nblocks, base, lent, total>>
      /\ \/ caller_pc' = "undefined" /\ UNCHANGED pos /\ UNCHANGED mem
         \/ caller_pc' = "idle" /\ pos' = rest /\ MemOK(mem')
  BY PutRestEffect
<1>4. /\ pos' \in 0..BufferSize /\ MemOK(mem') /\ caller_pc' \in {"idle", "undefined"}
      /\ rest' \in 0..UserSize /\ src' \in ByValue..UserSize
  BY <1>1, <1>2, <1>3 DEF CallerTypes
<1>5. CallerTypes'
  BY <1>2, <1>3, <1>4 DEF CallerTypes
<1>6. rest' = 0 /\ src' = 0 /\ src' # ByValue /\ src' + rest' <= UserSize /\ rest' <= total'
  BY <1>1, <1>2, <1>3
<1>7. CallInv'
  BY <1>4, <1>6 DEF CallInv
<1> QED
  BY <1>5, <1>7

(* The steps that leave the memory alone.                                  *)
LEMMA OtherCalls ==
  ASSUME TypeOK, CallInv, Sync \/ FlushEnqueue \/ GetEmptyBuffer \/ EnqueueRest
  PROVE  CallerTypes' /\ CallInv'
<1>1. /\ BufferSize \in Nat /\ BufferSize >= 2
      /\ UserSize \in Nat /\ UserSize >= 1 /\ MaxBytes \in Nat
      /\ MaxBlocks \in Nat
  BY Constants
<1>2. /\ CallerTypes /\ total \in 0..MaxBytes /\ pos \in 0..BufferSize
      /\ rest \in 0..UserSize /\ src \in ByValue..UserSize
      /\ nblocks \in 1..MaxBlocks
      /\ ByValue \in Int /\ ByValue < 0
  BY TypesSplit, ByValueFact DEF TypeOK
<1>3. CASE Sync
  <2>1. /\ caller_pc' = "flush" /\ pos > 0 /\ rest' = 0 /\ rest = 0
        /\ UNCHANGED <<mem, nblocks, base, pos, src, total, lent>>
    BY <1>3 DEF Sync, CallInv
  <2>2. src = 0
    BY <2>1 DEF CallInv
  <2>3. rest' \in 0..UserSize /\ src' + rest' <= UserSize /\ rest' <= total' /\ src' # ByValue
        /\ src' = 0
    BY <1>1, <1>2, <2>1, <2>2
  <2>4. CallerTypes'
    BY <1>2, <2>1, <2>3 DEF CallerTypes
  <2>5. CallInv'
    BY <2>1, <2>3 DEF CallInv
  <2> QED
    BY <2>4, <2>5
<1>4. CASE FlushEnqueue
  <2>1. /\ caller_pc = "flush"
        /\ caller_pc' \in {"get_buffer", "spinning"}
        /\ UNCHANGED <<mem, nblocks, base, pos, rest, src, total, lent>>
    BY <1>4 DEF FlushEnqueue, EnqueueTask
  <2>2. CallerTypes'
    BY <1>2, <2>1 DEF CallerTypes
  <2>3. CallInv'
    BY <2>1 DEF CallInv
  <2> QED
    BY <2>2, <2>3
<1>5. CASE GetEmptyBuffer
  <2>1. /\ UNCHANGED <<mem, rest, src, total, lent>>
        /\ pos' = 0
        /\ caller_pc' = IF rest > 0 THEN "rest" ELSE "idle"
    BY <1>5 DEF GetEmptyBuffer
  <2>2. nblocks' \in 1..MaxBlocks /\ base' \in Pointers
    <3>1. CASE /\ nblocks < MaxBlocks /\ nblocks' = nblocks + 1
               /\ base' = [blk |-> nblocks + 1, off |-> 0]
      BY <1>1, <1>2, <3>1 DEF Pointers, Blocks
    <3>2. CASE pool # <<>> /\ base' = Head(pool) /\ UNCHANGED nblocks
      <4>1. pool \in Seq(Pointers)
        BY DEF TypeOK
      <4> QED
        BY <1>2, <3>2, <4>1, HeadTailProperties
    <3> QED
      BY <1>5, <3>1, <3>2 DEF GetEmptyBuffer
  <2>3. pos' \in 0..BufferSize /\ pos' = 0
    BY <1>1, <2>1
  <2>4. /\ caller_pc' \in {"rest", "idle"}
        /\ caller_pc' = "idle" => rest = 0
        /\ caller_pc' = "rest" => rest > 0
    BY <1>1, <1>2, <2>1
  <2>5. CallerTypes'
    BY <1>2, <2>1, <2>2, <2>3, <2>4 DEF CallerTypes
  <2>6. CallInv'
    BY <2>1, <2>3, <2>4 DEF CallInv
  <2> QED
    BY <2>5, <2>6
<1>6. CASE EnqueueRest
  <2>1. /\ caller_pc = "rest" /\ rest >= BufferSize
        /\ caller_pc' \in {"idle", "spinning"}
        /\ \/ caller_pc' = "spinning" /\ UNCHANGED <<rest, src, lent>>
           \/ caller_pc' = "idle" /\ rest' = 0 /\ src' = 0 /\ lent' = TRUE
        /\ UNCHANGED <<mem, nblocks, base, pos, total>>
    BY <1>6 DEF EnqueueRest, EnqueueTask
  <2>2. CASE caller_pc' = "spinning" /\ UNCHANGED <<rest, src, lent>>
    <3>1. CallerTypes'
      BY <1>2, <2>1, <2>2 DEF CallerTypes
    <3>2. CallInv'
      BY <2>1, <2>2 DEF CallInv
    <3> QED
      BY <3>1, <3>2
  <2>3. CASE caller_pc' = "idle" /\ rest' = 0 /\ src' = 0 /\ lent' = TRUE
    <3>1. /\ rest' \in 0..UserSize /\ src' \in ByValue..UserSize
          /\ src' + rest' <= UserSize /\ rest' <= total' /\ src' # ByValue
      BY <1>1, <1>2, <2>1, <2>3
    <3>2. CallerTypes'
      BY <1>2, <2>1, <2>3, <3>1 DEF CallerTypes
    <3>3. CallInv'
      BY <2>1, <2>3, <3>1 DEF CallInv
    <3> QED
      BY <3>2, <3>3
  <2> QED
    BY <2>1, <2>2, <2>3
<1> QED
  BY <1>3, <1>4, <1>5, <1>6
-----------------------------------------------------------------------------
(* The tasks' way: every step keeps the types of the queues and IdsInv.    *)
LEMMA EnqueueKeeps ==
  ASSUME TypeOK, IdsInv, NEW buf \in Pointers, NEW len \in Nat, NEW next,
         EnqueueTask(buf, len, next),
         UNCHANGED <<hand, processed, consumed>>
  PROVE  TaskTypes' /\ IdsInv'
<1>1. /\ task_queue \in Seq(Tasks) /\ Len(task_queue) \in Nat /\ next_id \in Nat
      /\ TaskTypes
  BY TypesSplit, LenProperties DEF TypeOK
<1>2. CASE UNCHANGED <<task_queue, next_id>>
  BY <1>1, <1>2 DEF TaskTypes, IdsInv, FirstQueued, Has
<1>3. CASE \E new \in Seq(Tasks) :
             /\ Len(new) \in Nat \ {0}
             /\ next_id' = next_id + Len(new)
             /\ task_queue' = task_queue \o new
             /\ \A i \in 1..Len(new) : /\ new[i].blk = buf.blk
                                       /\ new[i].id = next_id + i - 1
  <2>1. PICK new \in Seq(Tasks) :
          /\ Len(new) \in Nat \ {0}
          /\ next_id' = next_id + Len(new)
          /\ task_queue' = task_queue \o new
          /\ \A i \in 1..Len(new) : new[i].id = next_id + i - 1
    BY <1>3
  <2> DEFINE q == task_queue
             l == Len(q)
             m == Len(new)
             r == task_queue'
  <2>2. /\ r \in Seq(Tasks) /\ Len(r) = l + m
        /\ \A i \in 1..(l + m) : r[i] = IF i <= l THEN q[i] ELSE new[i - l]
    <3>1. q \in Seq(Tasks) /\ r = q \o new
      BY <1>1, <2>1
    <3> HIDE DEF q, r
    <3> QED
      BY <3>1, ConcatProperties
  <2>3. next_id' \in Nat
    BY <1>1, <2>1
  <2>4. TaskTypes'
    BY <1>1, <2>2, <2>3 DEF TaskTypes
  <2>5. FirstQueued' = FirstQueued
    <3>1. FirstQueued' = next_id' - Len(r)
      BY DEF FirstQueued
    <3>2. next_id + m - (l + m) = next_id - l
      BY <1>1, <2>1
    <3> QED
      BY <1>1, <2>1, <2>2, <3>1, <3>2 DEF FirstQueued
  <2>6. FirstQueued \in Nat /\ FirstQueued = next_id - l
    BY DEF IdsInv, FirstQueued
  <2>7. \A i \in 1..l : q[i].id = FirstQueued + i - 1
    BY DEF IdsInv
  <2>8. ASSUME NEW i \in 1..(l + m) PROVE r[i].id = FirstQueued + i - 1
    <3> HIDE DEF q, r, l, m
    <3>0. l \in Nat /\ m \in Nat
      BY <1>1, <2>1 DEF l, m, q
    <3>1. CASE i <= l
      BY <2>2, <2>7, <3>0, <3>1
    <3>2. CASE ~(i <= l)
      <4>1. i - l \in 1..m /\ r[i] = new[i - l]
        BY <2>2, <3>0, <3>2
      <4>2. new[i - l].id = next_id + (i - l) - 1
        BY <2>1, <4>1 DEF m
      <4> DEFINE e == r[i].id
      <4>3. e = next_id + (i - l) - 1
        BY <4>1, <4>2
      <4> HIDE DEF e
      <4>4. e = FirstQueued + i - 1
        BY <1>1, <2>6, <3>0, <4>3
      <4> QED
        BY <4>4 DEF e
    <3> QED
      BY <3>1, <3>2
  <2>9. \A i \in 1..Len(task_queue') : task_queue'[i].id = FirstQueued' + i - 1
    BY <2>2, <2>5, <2>8
  <2> HIDE DEF q, r, l, m
  <2>10. IdsInv'
    BY <2>5, <2>9 DEF IdsInv, Has
  <2> QED
    BY <2>4, <2>10
<1>4. \/ UNCHANGED <<task_queue, next_id>>
      \/ \E new \in Seq(Tasks) :
           /\ Len(new) \in Nat \ {0}
           /\ next_id' = next_id + Len(new)
           /\ task_queue' = task_queue \o new
           /\ \A i \in 1..Len(new) : /\ new[i].blk = buf.blk
                                     /\ new[i].id = next_id + i - 1
  <2>1. CASE UNCHANGED <<task_queue, next_id>>
    BY <2>1
  <2>2. CASE ~UNCHANGED <<task_queue, next_id>>
    <3>1. \E new \in Seq(Tasks) :
            /\ Len(new) \in Nat \ {0}
            /\ next_id' = next_id + Len(new)
            /\ task_queue' = task_queue \o new
            /\ \A i \in 1..Len(new) : /\ new[i].blk = buf.blk
                                      /\ new[i].id = next_id + i - 1
            /\ Threads = 1 => /\ Len(new) = 1
                              /\ new[1].off = buf.off
                              /\ new[1].size = len
      BY <2>2, EnqueueEffect, Zenon
    <3> QED
      BY <3>1
  <2> QED
    BY <2>1, <2>2
<1> QED
  BY <1>2, <1>3, <1>4

LEMMA GetTaskEffect ==
  ASSUME TypeOK, IdsInv, NEW w \in Workers, GetTask(w)
  PROVE  /\ hand[w] = NoTask /\ ~processed[w]
         /\ Len(task_queue) \in Nat \ {0}
         /\ task_queue[1] \in Tasks /\ task_queue[1] # NoTask
         /\ task_queue[1].id = FirstQueued
         /\ hand' \in [Workers -> Tasks \cup {NoTask}]
         /\ hand'[w] = task_queue[1]
         /\ \A v \in Workers : v # w => hand'[v] = hand[v]
         /\ task_queue' \in Seq(Tasks)
         /\ Len(task_queue') = Len(task_queue) - 1
         /\ \A i \in 1..Len(task_queue') : task_queue'[i] = task_queue[i + 1]
         /\ FirstQueued' = FirstQueued + 1
         /\ caller_pc \notin {"spinning", "undefined"}
         /\ UNCHANGED <<mem, nblocks, base, pos, pool, next_id, processed,
                        consumed, caller_pc, rest, src, total, lent>>
<1>1. /\ task_queue \in Seq(Tasks) /\ next_id \in Nat
      /\ hand \in [Workers -> Tasks \cup {NoTask}]
  BY DEF TypeOK
<1>2. /\ hand[w] = NoTask /\ task_queue # <<>>
      /\ hand' = [hand EXCEPT ![w] = Head(task_queue)]
      /\ task_queue' = Tail(task_queue)
      /\ caller_pc \notin {"spinning", "undefined"}
      /\ UNCHANGED <<mem, nblocks, base, pos, pool, next_id, processed,
                     consumed, caller_pc, rest, src, total, lent>>
  BY DEF GetTask, callerVars
<1>3. Len(task_queue) \in Nat \ {0}
  BY <1>1, <1>2, EmptySeq
<1>4. Head(task_queue) = task_queue[1]
  BY <1>1, <1>2
<1>5. /\ task_queue[1] \in Tasks
      /\ task_queue' \in Seq(Tasks)
      /\ Len(task_queue') = Len(task_queue) - 1
      /\ \A i \in 1..Len(task_queue') : task_queue'[i] = task_queue[i + 1]
  BY <1>1, <1>2, <1>4, HeadTailProperties
<1>6. ~processed[w]
  BY <1>2 DEF IdsInv, Has
<1>7. task_queue[1].id = FirstQueued
  <2>1. task_queue[1].id = FirstQueued + 1 - 1 /\ FirstQueued \in Nat
    BY <1>3 DEF IdsInv
  <2> DEFINE e == task_queue[1].id
  <2>2. e = FirstQueued + 1 - 1
    BY <2>1
  <2> HIDE DEF e
  <2>3. e = FirstQueued
    BY <2>1, <2>2
  <2> QED
    BY <2>3 DEF e
<1>8. task_queue[1] # NoTask
  BY <1>5, StreamAssumption
<1>9. FirstQueued' = FirstQueued + 1
  BY <1>1, <1>2, <1>3, <1>5 DEF FirstQueued
<1>10. /\ hand' \in [Workers -> Tasks \cup {NoTask}]
       /\ hand'[w] = task_queue[1]
       /\ \A v \in Workers : v # w => hand'[v] = hand[v]
  BY <1>1, <1>2, <1>4, <1>5
<1> QED
  BY <1>2, <1>3, <1>5, <1>6, <1>7, <1>8, <1>9, <1>10

LEMMA GetTaskKeeps ==
  ASSUME TypeOK, IdsInv, NEW w \in Workers, GetTask(w)
  PROVE  TaskTypes' /\ IdsInv'
<1> DEFINE h == hand'
           q == task_queue'
           F == FirstQueued
<1>1. /\ hand[w] = NoTask /\ ~processed[w]
      /\ Len(task_queue) \in Nat \ {0}
      /\ task_queue[1] # NoTask /\ task_queue[1].id = F
      /\ h \in [Workers -> Tasks \cup {NoTask}]
      /\ h[w] = task_queue[1]
      /\ \A v \in Workers : v # w => h[v] = hand[v]
      /\ q \in Seq(Tasks)
      /\ Len(q) = Len(task_queue) - 1
      /\ \A i \in 1..Len(q) : q[i] = task_queue[i + 1]
      /\ FirstQueued' = F + 1
      /\ UNCHANGED <<next_id, processed, consumed>>
  BY GetTaskEffect
<1>2. /\ F \in Nat
      /\ \A i \in 1..Len(task_queue) : task_queue[i].id = F + i - 1
      /\ \A v \in Workers : hand[v] # NoTask =>
           hand[v].id < F /\ (processed[v] <=> hand[v].id \in DOMAIN consumed)
      /\ \A v \in Workers : hand[v] = NoTask => ~processed[v]
      /\ \A v, u \in Workers : hand[v] # NoTask /\ hand[u] # NoTask /\ hand[v].id = hand[u].id => v = u
      /\ \A id \in DOMAIN consumed : id \in Nat /\ id < F
      /\ \A id \in 0..(F - 1) :
           id \in DOMAIN consumed \/ \E v \in Workers : hand[v] # NoTask /\ hand[v].id = id
  BY DEF IdsInv, Has
<1>3. TaskTypes'
  BY <1>1, TypesSplit DEF TaskTypes
<1> HIDE DEF h, q, F
<1>4. \A i \in 1..Len(q) : q[i].id = F + 1 + i - 1
  <2> TAKE i \in 1..Len(q)
  <2>1. i + 1 \in 1..Len(task_queue) /\ q[i] = task_queue[i + 1]
    BY <1>1
  <2>2. task_queue[i + 1].id = F + (i + 1) - 1
    BY <1>2, <2>1
  <2> DEFINE e == q[i].id
  <2>3. e = F + (i + 1) - 1
    BY <2>1, <2>2
  <2> HIDE DEF e
  <2>4. e = F + 1 + i - 1
    BY <1>1, <1>2, <2>1, <2>3
  <2> QED
    BY <2>4 DEF e
<1>5. F \notin DOMAIN consumed
  BY <1>2
<1>6. ASSUME NEW v \in Workers, h[v] # NoTask
      PROVE  h[v].id < F + 1 /\ (processed[v] <=> h[v].id \in DOMAIN consumed)
  <2>1. CASE v = w
    BY <1>1, <1>2, <1>5, <2>1
  <2>2. CASE v # w
    <3>1. hand[v] # NoTask /\ h[v] = hand[v] /\ hand[v].id < F /\ hand[v] \in Tasks
      BY <1>1, <1>2, <1>6, <2>2 DEF TypeOK
    <3>2. hand[v].id \in Nat
      BY <3>1 DEF Tasks
    <3> QED
      BY <1>2, <1>6, <3>1, <3>2
  <2> QED
    BY <2>1, <2>2
<1>7. \A v \in Workers : h[v] = NoTask => ~processed[v]
  BY <1>1, <1>2
<1>8. ASSUME NEW v \in Workers, NEW u \in Workers,
             h[v] # NoTask, h[u] # NoTask, h[v].id = h[u].id
      PROVE  v = u
  <2>1. ASSUME NEW x \in Workers, x # w, h[x] # NoTask PROVE h[x].id # F
    <3>1. hand[x] # NoTask /\ h[x] = hand[x] /\ hand[x].id < F /\ hand[x] \in Tasks
      BY <1>1, <1>2, <2>1 DEF TypeOK
    <3>2. hand[x].id \in Nat
      BY <3>1 DEF Tasks
    <3> QED
      BY <1>2, <3>1, <3>2
  <2>2. h[w].id = F
    BY <1>1
  <2>3. v # w /\ u # w => v = u
    BY <1>1, <1>2, <1>8
  <2> QED
    BY <1>8, <2>1, <2>2, <2>3
<1>9. \A id \in DOMAIN consumed : id \in Nat /\ id < F + 1
  BY <1>2
<1>10. ASSUME NEW id \in 0..F
       PROVE  id \in DOMAIN consumed \/ \E v \in Workers : h[v] # NoTask /\ h[v].id = id
  <2>1. CASE id = F
    BY <1>1, <2>1
  <2>2. CASE id # F
    <3>1. id \in 0..(F - 1)
      BY <1>2, <2>2
    <3>2. CASE id \in DOMAIN consumed
      BY <3>2
    <3>3. CASE \E v \in Workers : hand[v] # NoTask /\ hand[v].id = id
      <4>1. PICK v \in Workers : hand[v] # NoTask /\ hand[v].id = id
        BY <3>3
      <4>2. v # w
        BY <1>1, <4>1
      <4> QED
        BY <1>1, <4>1, <4>2
    <3> QED
      BY <1>2, <3>1, <3>2, <3>3
  <2> QED
    BY <2>1, <2>2
<1>11. F + 1 \in Nat
  BY <1>2
<1>12. IdsInv'
  <2>1. FirstQueued' = F + 1 /\ hand' = h /\ task_queue' = q /\ processed' = processed
        /\ consumed' = consumed
    BY <1>1 DEF h, q
  <2>2. FirstQueued' \in Nat /\ \A i \in 1..Len(task_queue') : task_queue'[i].id = FirstQueued' + i - 1
    BY <1>4, <1>11, <2>1
  <2>3. \A v \in Workers : hand'[v] # NoTask =>
          /\ hand'[v].id < FirstQueued'
          /\ processed'[v] <=> hand'[v].id \in DOMAIN consumed'
    BY <1>6, <2>1
  <2>4. \A v \in Workers : hand'[v] = NoTask => ~processed'[v]
    BY <1>7, <2>1
  <2>5. \A v, u \in Workers :
          hand'[v] # NoTask /\ hand'[u] # NoTask /\ hand'[v].id = hand'[u].id => v = u
    BY <1>8, <2>1
  <2>6. \A id \in DOMAIN consumed' : id \in Nat /\ id < FirstQueued'
    BY <1>9, <2>1
  <2>7. \A id \in 0..(FirstQueued' - 1) :
          id \in DOMAIN consumed' \/ \E v \in Workers : hand'[v] # NoTask /\ hand'[v].id = id
    <3>1. FirstQueued' - 1 = F
      BY <1>2, <2>1
    <3> QED
      BY <1>10, <2>1, <3>1
  <2> QED
    BY <2>2, <2>3, <2>4, <2>5, <2>6, <2>7 DEF IdsInv, Has
<1> QED
  BY <1>3, <1>12

LEMMA ProcessKeeps ==
  ASSUME TypeOK, IdsInv, NEW w \in Workers, Process(w)
  PROVE  TaskTypes' /\ IdsInv'
<1>1. /\ hand[w] # NoTask /\ ~processed[w]
      /\ DOMAIN consumed' = DOMAIN consumed \cup {hand[w].id}
      /\ processed' = [processed EXCEPT ![w] = TRUE]
      /\ UNCHANGED <<task_queue, hand, next_id>>
  BY DEF Process, callerVars
<1>2. /\ processed \in [Workers -> BOOLEAN]
      /\ hand[w] \in Tasks
  BY <1>1 DEF TypeOK
<1>3. hand[w].id \in Nat
  BY <1>2 DEF Tasks
<1>4. /\ processed'[w] /\ processed' \in [Workers -> BOOLEAN]
      /\ \A v \in Workers : v # w => processed'[v] = processed[v]
  BY <1>1, <1>2
<1>5. TaskTypes'
  BY <1>1, <1>4, TypesSplit DEF TaskTypes
<1>6. /\ FirstQueued' = FirstQueued /\ FirstQueued \in Nat
      /\ \A i \in 1..Len(task_queue') : task_queue'[i].id = FirstQueued' + i - 1
      /\ \A v, u \in Workers : Has(v)' /\ Has(u)' /\ hand'[v].id = hand'[u].id => v = u
      /\ \A v \in Workers : Has(v) <=> Has(v)'
  BY <1>1 DEF IdsInv, FirstQueued, Has
<1>7. ASSUME NEW v \in Workers, Has(v)
      PROVE  /\ hand[v].id < FirstQueued
             /\ processed'[v] <=> hand[v].id \in DOMAIN consumed'
  <2>1. CASE v = w
    BY <1>1, <1>4, <1>7, <2>1 DEF IdsInv
  <2>2. CASE v # w
    <3>1. hand[v].id # hand[w].id
      BY <1>1, <1>7, <2>2 DEF IdsInv, Has
    <3> QED
      BY <1>1, <1>4, <1>7, <2>2, <3>1 DEF IdsInv
  <2> QED
    BY <2>1, <2>2
<1>8. \A v \in Workers : ~Has(v) => ~processed'[v]
  BY <1>1, <1>4 DEF IdsInv, Has
<1>9. \A id \in DOMAIN consumed' : id \in Nat /\ id < FirstQueued
  BY <1>1, <1>3 DEF IdsInv, Has
<1>10. \A id \in 0..(FirstQueued - 1) :
         id \in DOMAIN consumed' \/ \E v \in Workers : Has(v) /\ hand[v].id = id
  BY <1>1 DEF IdsInv
<1>11. hand' = hand
  BY <1>1
<1> HIDE DEF Has
<1>12. IdsInv'
  BY <1>6, <1>7, <1>8, <1>9, <1>10, <1>11 DEF IdsInv
<1> QED
  BY <1>5, <1>12

LEMMA GiveBackKeeps ==
  ASSUME TypeOK, IdsInv, NEW w \in Workers, GiveBackBuffer(w)
  PROVE  PoolTypes' /\ TaskTypes' /\ IdsInv'
<1>1. /\ processed[w]
      /\ pool' = IF Len(pool) > Threads THEN pool
                 ELSE Append(pool, [blk |-> hand[w].blk, off |-> hand[w].off])
      /\ hand' = [hand EXCEPT ![w] = NoTask]
      /\ processed' = [processed EXCEPT ![w] = FALSE]
      /\ UNCHANGED <<task_queue, consumed, next_id>>
  BY DEF GiveBackBuffer, callerVars, PoolFull
<1>2. /\ processed \in [Workers -> BOOLEAN]
      /\ hand \in [Workers -> Tasks \cup {NoTask}]
      /\ pool \in Seq(Pointers) /\ Len(pool) <= Threads + 1
      /\ Threads \in Nat /\ Len(pool) \in Nat
  BY Constants, LenProperties DEF TypeOK
<1>3. Has(w) /\ hand[w] \in Tasks
  BY <1>1, <1>2 DEF IdsInv, Has
<1>4. [blk |-> hand[w].blk, off |-> hand[w].off] \in Pointers
  BY <1>3 DEF Tasks, Pointers
<1>5. PoolTypes'
  <2>1. CASE Len(pool) > Threads
    BY <1>1, <1>2, <2>1 DEF PoolTypes
  <2>2. CASE ~(Len(pool) > Threads)
    <3> DEFINE p == [blk |-> hand[w].blk, off |-> hand[w].off]
    <3>1. p \in Pointers /\ pool' = Append(pool, p)
      BY <1>1, <1>4, <2>2
    <3> HIDE DEF p
    <3>2. pool' \in Seq(Pointers) /\ Len(pool') = Len(pool) + 1
      BY <1>2, <3>1, AppendProperties
    <3>3. Len(pool') <= Threads + 1
      BY <1>2, <2>2, <3>2
    <3> QED
      BY <3>2, <3>3 DEF PoolTypes
  <2> QED
    BY <2>1, <2>2
<1>6. /\ ~processed'[w] /\ processed' \in [Workers -> BOOLEAN]
      /\ \A v \in Workers : v # w => processed'[v] = processed[v]
      /\ hand'[w] = NoTask /\ hand' \in [Workers -> Tasks \cup {NoTask}]
      /\ \A v \in Workers : v # w => hand'[v] = hand[v]
  BY <1>1, <1>2
<1>7. TaskTypes'
  BY <1>1, <1>6, TypesSplit DEF TaskTypes
<1>8. /\ FirstQueued' = FirstQueued /\ FirstQueued \in Nat
      /\ \A i \in 1..Len(task_queue') : task_queue'[i].id = FirstQueued' + i - 1
  BY <1>1 DEF IdsInv, FirstQueued
<1>9. \A v \in Workers : hand'[v] # NoTask =>
        /\ hand'[v].id < FirstQueued
        /\ processed'[v] <=> hand'[v].id \in DOMAIN consumed'
  BY <1>1, <1>6 DEF IdsInv, Has
<1>10. \A v \in Workers : hand'[v] = NoTask => ~processed'[v]
  BY <1>6 DEF IdsInv, Has
<1>11. \A v, u \in Workers :
         hand'[v] # NoTask /\ hand'[u] # NoTask /\ hand'[v].id = hand'[u].id => v = u
  BY <1>6 DEF IdsInv, Has
<1>12. \A id \in DOMAIN consumed' : id \in Nat /\ id < FirstQueued
  BY <1>1 DEF IdsInv
<1>13. ASSUME NEW id \in 0..(FirstQueued - 1)
       PROVE  id \in DOMAIN consumed' \/ \E v \in Workers : hand'[v] # NoTask /\ hand'[v].id = id
  <2>1. CASE id \in DOMAIN consumed
    BY <1>1, <2>1
  <2>2. CASE id \notin DOMAIN consumed
    <3>1. PICK v \in Workers : Has(v) /\ hand[v].id = id
      BY <2>2 DEF IdsInv
    <3>2. hand[w].id \in DOMAIN consumed
      BY <1>1, <1>3 DEF IdsInv
    <3>3. v # w
      BY <2>2, <3>1, <3>2
    <3> QED
      BY <1>6, <3>1, <3>3 DEF Has
  <2> QED
    BY <2>1, <2>2
<1>14. IdsInv'
  BY <1>8, <1>9, <1>10, <1>11, <1>12, <1>13 DEF IdsInv, Has
<1> QED
  BY <1>5, <1>7, <1>14
-----------------------------------------------------------------------------
(* Any number of workers.                                                  *)
StreamInv == TypeOK /\ CallInv /\ IdsInv

LEMMA InitTyped ==
  ASSUME Init
  PROVE  StreamInv
<1>1. /\ mem = [b \in Blocks |-> [i \in 1..BlockSize(b) |-> Unset]]
      /\ nblocks = 1 /\ base = [blk |-> 1, off |-> 0] /\ pos = 0
      /\ pool = <<>> /\ task_queue = <<>> /\ next_id = 0
      /\ hand = [w \in Workers |-> NoTask]
      /\ processed = [w \in Workers |-> FALSE]
      /\ consumed = <<>> /\ caller_pc = "idle"
      /\ rest = 0 /\ src = 0 /\ total = 0 /\ lent = FALSE
  BY DEF Init
<1>2. MemOK(mem)
  BY <1>1 DEF MemOK, Byte
<1>3. CallerTypes
  <2>1. /\ nblocks \in 1..MaxBlocks /\ pos \in 0..BufferSize /\ rest \in 0..UserSize
        /\ src \in ByValue..UserSize /\ total \in 0..MaxBytes
    BY <1>1, Constants, ByValueFact
  <2>2. base \in Pointers
    BY <1>1, Constants DEF Pointers
  <2> QED
    BY <1>1, <1>2, <2>1, <2>2 DEF CallerTypes
<1>4. PoolTypes
  <2>1. pool \in Seq(Pointers) /\ Len(pool) = 0
    BY <1>1, EmptySeq
  <2> QED
    BY <2>1, Constants DEF PoolTypes
<1>5. TaskTypes /\ Len(task_queue) = 0
  <2>1. task_queue \in Seq(Tasks) /\ Len(task_queue) = 0
    BY <1>1, EmptySeq
  <2> QED
    BY <1>1, <2>1 DEF TaskTypes
<1>6. CallInv
  BY <1>1, ByValueFact, Constants DEF CallInv, ByValue
<1>7. IdsInv
  <2>1. FirstQueued = 0 /\ 0..(FirstQueued - 1) = {} /\ DOMAIN consumed = {}
    <3>1. FirstQueued = 0
      <4>1. next_id = 0
        BY <1>1
      <4>2. Len(task_queue) = 0
        BY <1>5
      <4> QED
        BY <4>1, <4>2 DEF FirstQueued
    <3>2. 0..(0 - 1) = {}
      OBVIOUS
    <3>3. DOMAIN consumed = {}
      <4>1. consumed \in Seq(Nat) /\ Len(consumed) = 0
        BY <1>1, EmptySeq
      <4>2. DOMAIN consumed = 1..0
        BY <4>1, LenProperties
      <4> QED
        BY <4>2
    <3> QED
      BY <3>1, <3>2, <3>3
  <2>2. \A w \in Workers : ~Has(w) /\ ~processed[w]
    BY <1>1 DEF Has
  <2> QED
    BY <1>5, <2>1, <2>2 DEF IdsInv
<1> QED
  BY <1>3, <1>4, <1>5, <1>6, <1>7, TypesSplit DEF StreamInv

LEMMA StepTyped ==
  ASSUME StreamInv, [Next]_vars
  PROVE  StreamInv'
<1> USE DEF StreamInv
<1>0. CallerTypes /\ PoolTypes /\ TaskTypes
  BY TypesSplit
<1>1. SUFFICES CallerTypes' /\ PoolTypes' /\ TaskTypes' /\ CallInv' /\ IdsInv'
  <2>1. TaskTypes' /\ IdsInv' => DOMAIN consumed' \subseteq 0..(next_id' - 1)
    <3> SUFFICES ASSUME TaskTypes', IdsInv', NEW id \in DOMAIN consumed'
                 PROVE  id \in 0..(next_id' - 1)
      OBVIOUS
    <3>1. id \in Nat /\ id < FirstQueued'
      BY DEF IdsInv
    <3>2. next_id' \in Nat /\ Len(task_queue') \in Nat
      BY LenProperties DEF TaskTypes
    <3>3. FirstQueued' = next_id' - Len(task_queue')
      BY DEF FirstQueued
    <3> QED
      BY <3>1, <3>2, <3>3
  <2> QED
    BY <2>1 DEF TypeOK, CallerTypes, PoolTypes, TaskTypes, MemOK, Byte
<1>3. ASSUME UNCHANGED <<hand, processed, consumed, task_queue, next_id>>
      PROVE  TaskTypes' /\ IdsInv'
  BY <1>0, <1>3 DEF TaskTypes, IdsInv, FirstQueued, Has
<1>4. ASSUME UNCHANGED pool PROVE PoolTypes'
  BY <1>0, <1>4 DEF PoolTypes
<1>5. ASSUME UNCHANGED <<mem, callerVars>> PROVE CallerTypes' /\ CallInv'
  BY <1>0, <1>5 DEF CallerTypes, CallInv, MemOK, callerVars
<1>6. ASSUME NEW n \in WriteSizes, Xsputn(n)
      PROVE  CallerTypes' /\ PoolTypes' /\ TaskTypes' /\ CallInv' /\ IdsInv'
  <2>1. UNCHANGED pool /\ UNCHANGED <<hand, processed, consumed, task_queue, next_id>>
    BY <1>6 DEF Xsputn, workerVars
  <2> QED
    BY <1>3, <1>4, <1>6, <2>1, XsputnCall
<1>7. CASE Sputc
  <2>1. UNCHANGED pool /\ UNCHANGED <<hand, processed, consumed, task_queue, next_id>>
    BY <1>7 DEF Sputc, workerVars
  <2> QED
    BY <1>3, <1>4, <1>7, <2>1, SputcCall
<1>8. CASE PutRest
  <2>1. UNCHANGED pool /\ UNCHANGED <<hand, processed, consumed, task_queue, next_id>>
    BY <1>8 DEF PutRest, workerVars
  <2> QED
    BY <1>3, <1>4, <1>8, <2>1, PutRestCall
<1>9. CASE Sync
  <2>1. UNCHANGED pool /\ UNCHANGED <<hand, processed, consumed, task_queue, next_id>>
    BY <1>9 DEF Sync, workerVars
  <2> QED
    BY <1>3, <1>4, <1>9, <2>1, OtherCalls
<1>10. CASE FlushEnqueue
  <2>1. /\ EnqueueTask(base, pos, "get_buffer")
        /\ UNCHANGED pool /\ UNCHANGED <<hand, processed, consumed>>
    BY <1>10 DEF FlushEnqueue, Current, workerVars
  <2>2. base \in Pointers /\ pos \in Nat
    BY Constants DEF TypeOK
  <2> QED
    BY <1>4, <1>10, <2>1, <2>2, OtherCalls, EnqueueKeeps
<1>11. CASE EnqueueRest
  <2>1. /\ EnqueueTask([blk |-> User, off |-> src], rest, "idle")
        /\ UNCHANGED pool /\ UNCHANGED <<hand, processed, consumed>>
        /\ caller_pc = "rest" /\ rest >= BufferSize
    BY <1>11 DEF EnqueueRest, workerVars
  <2>2. rest \in Nat
    BY Constants DEF TypeOK
  <2>3. src # ByValue
    BY <2>1, <2>2, Constants DEF CallInv
  <2>4. src \in Nat
    BY <2>3, Constants DEF TypeOK, ByValue
  <2> DEFINE buf == [blk |-> User, off |-> src]
  <2>5. buf \in Pointers
    BY <2>4, Constants DEF Pointers
  <2>6. EnqueueTask(buf, rest, "idle")
    BY <2>1
  <2> HIDE DEF buf
  <2>7. TaskTypes' /\ IdsInv'
    BY <2>1, <2>2, <2>5, <2>6, EnqueueKeeps
  <2> QED
    BY <1>4, <1>11, <2>1, <2>7, OtherCalls
<1>12. CASE GetEmptyBuffer
  <2>1. UNCHANGED <<hand, processed, consumed, task_queue, next_id>>
    BY <1>12 DEF GetEmptyBuffer, workerVars
  <2>2. PoolTypes'
    <3>1. CASE UNCHANGED pool
      BY <1>4, <3>1
    <3>2. CASE pool # <<>> /\ pool' = Tail(pool)
      <4>1. pool \in Seq(Pointers) /\ Len(pool) <= Threads + 1
        BY <1>0 DEF PoolTypes
      <4>2. pool' \in Seq(Pointers) /\ Len(pool') = Len(pool) - 1
        BY <3>2, <4>1, HeadTailProperties
      <4>3. Len(pool) \in Nat /\ Threads \in Nat
        BY <4>1, LenProperties, Constants
      <4>4. Len(pool') <= Threads + 1
        BY <4>1, <4>2, <4>3
      <4> QED
        BY <4>2, <4>4 DEF PoolTypes
    <3> QED
      BY <1>12, <3>1, <3>2 DEF GetEmptyBuffer, PopFront
  <2> QED
    BY <1>3, <1>12, <2>1, <2>2, OtherCalls
<1>13. ASSUME NEW w \in Workers, WorkerStep(w)
       PROVE  CallerTypes' /\ PoolTypes' /\ TaskTypes' /\ CallInv' /\ IdsInv'
  <2>1. UNCHANGED <<mem, callerVars>>
    BY <1>13 DEF WorkerStep, GetTask, Process, GiveBackBuffer
  <2>2. CASE GetTask(w)
    <3>1. UNCHANGED pool
      BY <2>2 DEF GetTask
    <3> QED
      BY <1>4, <1>5, <2>1, <2>2, <3>1, GetTaskKeeps
  <2>3. CASE Process(w)
    <3>1. UNCHANGED pool
      BY <2>3 DEF Process
    <3> QED
      BY <1>4, <1>5, <2>1, <2>3, <3>1, ProcessKeeps
  <2>4. CASE GiveBackBuffer(w)
    BY <1>5, <2>1, <2>4, GiveBackKeeps
  <2> QED
    BY <1>13, <2>2, <2>3, <2>4 DEF WorkerStep
<1>14. CASE UNCHANGED vars
  <2>1. /\ UNCHANGED pool /\ UNCHANGED <<mem, callerVars>>
        /\ UNCHANGED <<hand, processed, consumed, task_queue, next_id>>
    BY <1>14 DEF vars, callerVars
  <2> QED
    BY <1>3, <1>4, <1>5, <2>1
<1>15. CASE CallerStep
  BY <1>6, <1>7, <1>8, <1>9, <1>10, <1>11, <1>12, <1>15 DEF CallerStep
<1> QED
  BY <1>13, <1>14, <1>15 DEF Next

(* Types, and the state of a call and of the tasks: every number ever      *)
(* given to a task is in the queue, with one worker, or was read, and      *)
(* nothing is read twice or before its turn to be handed out.              *)
THEOREM StreamInvariance == Spec => [](TypeOK /\ CallInv /\ IdsInv)
<1>1. Init => StreamInv
  BY InitTyped
<1>2. StreamInv /\ [Next]_vars => StreamInv'
  BY StepTyped
<1> QED
  BY <1>1, <1>2, PTL DEF Spec, StreamInv
-----------------------------------------------------------------------------
(* One worker, while no task has pointed into the user's array.            *)

(* The blocks the pointers of a sequence point into.                       *)
BlocksOf(s) == {s[i].blk : i \in 1..Len(s)}
Distinct(s) == \A i, j \in 1..Len(s) : s[i].blk = s[j].blk => i = j
AtStart(s)  == \A i \in 1..Len(s) : s[i].off = 0
HandBlocks  == {hand[w].blk : w \in {v \in Workers : Has(v)}}

(* Every pointer is the beginning of an allocated buffer, and no two are   *)
(* the same; at "get_buffer" the put area has been handed over already.    *)
Apart ==
  /\ caller_pc # "undefined"
  /\ base.off = 0 /\ AtStart(task_queue) /\ AtStart(pool)
  /\ \A w \in Workers : Has(w) => hand[w].off = 0
  /\ base.blk \in 1..nblocks
  /\ BlocksOf(task_queue) \cup BlocksOf(pool) \cup HandBlocks \subseteq 1..nblocks
  /\ Distinct(task_queue) /\ Distinct(pool)
  /\ \A v, w \in Workers : Has(v) /\ Has(w) /\ hand[v].blk = hand[w].blk => v = w
  /\ BlocksOf(task_queue) \cap BlocksOf(pool) = {}
  /\ BlocksOf(task_queue) \cap HandBlocks = {}
  /\ BlocksOf(pool) \cap HandBlocks = {}
  /\ caller_pc # "get_buffer" =>
       base.blk \notin BlocksOf(task_queue) \cup BlocksOf(pool) \cup HandBlocks
ApartInv == lent \/ Apart

(* A pointer goes to the end of a sequence, or leaves its head.            *)
LEMMA OneMore ==
  ASSUME NEW s, NEW r, NEW e, Len(s) \in Nat, Len(r) = Len(s) + 1,
         \A i \in 1..Len(s) : r[i] = s[i], r[Len(s) + 1] = e
  PROVE  /\ BlocksOf(r) = BlocksOf(s) \cup {e.blk}
         /\ AtStart(s) /\ e.off = 0 => AtStart(r)
         /\ Distinct(s) /\ e.blk \notin BlocksOf(s) => Distinct(r)
<1> DEFINE n == Len(s)
           m == Len(r)
<1>1. n \in Nat /\ m = n + 1 /\ 1..m = (1..n) \cup {n + 1} /\ n + 1 \notin 1..n
  OBVIOUS
<1>2. /\ \A i \in 1..n : r[i] = s[i]
      /\ r[n + 1] = e
  OBVIOUS
<1> HIDE DEF n, m
<1>3. BlocksOf(r) = {r[i].blk : i \in 1..m} /\ BlocksOf(s) = {s[i].blk : i \in 1..n}
  BY DEF BlocksOf, n, m
<1>4. BlocksOf(r) = BlocksOf(s) \cup {e.blk}
  <2>1. ASSUME NEW b \in BlocksOf(r) PROVE b \in BlocksOf(s) \cup {e.blk}
    <3>1. PICK i \in 1..m : b = r[i].blk
      BY <1>3, <2>1
    <3> QED
      BY <1>1, <1>2, <1>3, <3>1
  <2>2. ASSUME NEW b \in BlocksOf(s) PROVE b \in BlocksOf(r)
    BY <1>1, <1>2, <1>3
  <2>3. e.blk \in BlocksOf(r)
    BY <1>1, <1>2, <1>3
  <2> QED
    BY <2>1, <2>2, <2>3
<1>5. ASSUME AtStart(s), e.off = 0 PROVE AtStart(r)
  <2>1. \A i \in 1..n : s[i].off = 0
    BY <1>5 DEF AtStart, n
  <2>2. \A i \in 1..m : r[i].off = 0
    BY <1>1, <1>2, <1>5, <2>1
  <2> QED
    BY <2>2 DEF AtStart, m
<1>6. ASSUME Distinct(s), e.blk \notin BlocksOf(s) PROVE Distinct(r)
  <2>1. \A i, j \in 1..n : s[i].blk = s[j].blk => i = j
    BY <1>6 DEF Distinct, n
  <2>2. \A i \in 1..n : s[i].blk # e.blk
    BY <1>3, <1>6
  <2>3. ASSUME NEW i \in 1..m, NEW j \in 1..m, r[i].blk = r[j].blk PROVE i = j
    <3>1. CASE i \in 1..n /\ j \in 1..n
      BY <1>2, <2>1, <2>3, <3>1
    <3>2. CASE i \in 1..n /\ j = n + 1
      BY <1>2, <2>2, <2>3, <3>2
    <3>3. CASE i = n + 1 /\ j \in 1..n
      BY <1>2, <2>2, <2>3, <3>3
    <3> QED
      BY <1>1, <3>1, <3>2, <3>3
  <2> QED
    BY <2>3 DEF Distinct, m
<1> QED
  BY <1>4, <1>5, <1>6

LEMMA OneLess ==
  ASSUME NEW s, NEW r, Len(s) \in Nat \ {0}, Len(r) = Len(s) - 1,
         \A i \in 1..Len(r) : r[i] = s[i + 1]
  PROVE  /\ BlocksOf(r) \subseteq BlocksOf(s)
         /\ s[1].blk \in BlocksOf(s)
         /\ AtStart(s) => AtStart(r) /\ s[1].off = 0
         /\ Distinct(s) => Distinct(r) /\ s[1].blk \notin BlocksOf(r)
<1> DEFINE n == Len(s)
           m == Len(r)
<1>1. n \in Nat /\ m \in Nat /\ n = m + 1 /\ 1 \in 1..n
      /\ \A i \in 1..m : i + 1 \in 1..n /\ i + 1 # 1 /\ i \in Nat
  OBVIOUS
<1>2. \A i \in 1..m : r[i] = s[i + 1]
  OBVIOUS
<1> HIDE DEF n, m
<1>3. BlocksOf(r) = {r[i].blk : i \in 1..m} /\ BlocksOf(s) = {s[i].blk : i \in 1..n}
  BY DEF BlocksOf, n, m
<1>4. BlocksOf(r) \subseteq BlocksOf(s)
  BY <1>1, <1>2, <1>3
<1>5. s[1].blk \in BlocksOf(s)
  BY <1>1, <1>3
<1>6. ASSUME AtStart(s) PROVE AtStart(r) /\ s[1].off = 0
  <2>1. \A i \in 1..n : s[i].off = 0
    BY <1>6 DEF AtStart, n
  <2>2. \A i \in 1..m : r[i].off = 0
    BY <1>1, <1>2, <2>1
  <2> QED
    BY <1>1, <2>1, <2>2 DEF AtStart, m
<1>7. ASSUME Distinct(s) PROVE Distinct(r) /\ s[1].blk \notin BlocksOf(r)
  <2>1. \A i, j \in 1..n : s[i].blk = s[j].blk => i = j
    BY <1>7 DEF Distinct, n
  <2>2. ASSUME NEW i \in 1..m, NEW j \in 1..m, r[i].blk = r[j].blk PROVE i = j
    <3>1. i + 1 = j + 1
      BY <1>1, <1>2, <2>1, <2>2
    <3> QED
      BY <1>1, <3>1
  <2>3. \A i \in 1..m : r[i].blk # s[1].blk
    BY <1>1, <1>2, <2>1
  <2> QED
    BY <1>3, <2>2, <2>3 DEF Distinct, m
<1> QED
  BY <1>4, <1>5, <1>6, <1>7

(* The steps that leave the pointers where they are.                       *)
LEMMA ApartStays ==
  ASSUME Apart, caller_pc' # "undefined",
         caller_pc = "get_buffer" => caller_pc' = "get_buffer",
         UNCHANGED <<nblocks, base, pool, task_queue, hand>>
  PROVE  Apart'
<1>1. /\ BlocksOf(task_queue)' = BlocksOf(task_queue)
      /\ BlocksOf(pool)' = BlocksOf(pool)
      /\ HandBlocks' = HandBlocks
  BY DEF BlocksOf, HandBlocks, Has
<1>2. /\ AtStart(task_queue) => AtStart(task_queue)'
      /\ AtStart(pool) => AtStart(pool)'
      /\ Distinct(task_queue) => Distinct(task_queue)'
      /\ Distinct(pool) => Distinct(pool)'
  BY DEF AtStart, Distinct
<1>3. \A w \in Workers : Has(w)' <=> Has(w)
  BY DEF Has
<1>4. /\ base' = base /\ nblocks' = nblocks /\ hand' = hand
      /\ caller_pc' # "undefined"
      /\ caller_pc = "get_buffer" => caller_pc' = "get_buffer"
  OBVIOUS
<1> QED
  BY <1>1, <1>2, <1>3, <1>4 DEF Apart

LEMMA InBounds ==
  ASSUME TypeOK, Apart
  PROVE  /\ base.blk \in Blocks /\ base.blk # User
         /\ BlockSize(base.blk) = BufferSize
<1>1. nblocks \in 1..MaxBlocks /\ base.blk \in Blocks
  BY DEF TypeOK, Pointers
<1>2. base.blk \in 1..nblocks
  BY DEF Apart
<1> DEFINE b == base.blk
<1>3. b \in 1..nblocks /\ nblocks \in Nat
  BY <1>1, <1>2, Constants
<1> HIDE DEF b
<1>4. b # 0
  BY <1>3
<1> QED
  BY <1>1, <1>4 DEF User, BlockSize, b

LEMMA FlushEffect ==
  ASSUME TypeOK, CallInv, Threads = 1, FlushEnqueue
  PROVE  /\ caller_pc = "flush" /\ caller_pc' = "get_buffer" /\ pos > 0
         /\ next_id' = next_id + 1
         /\ task_queue' \in Seq(Tasks) /\ Len(task_queue) \in Nat
         /\ Len(task_queue') = Len(task_queue) + 1
         /\ \A i \in 1..Len(task_queue) : task_queue'[i] = task_queue[i]
         /\ \E e \in Tasks :
              /\ task_queue'[Len(task_queue) + 1] = e
              /\ e.blk = base.blk /\ e.off = base.off
              /\ e.size = pos /\ e.id = next_id
         /\ UNCHANGED <<mem, nblocks, base, pos, pool, hand, processed,
                        consumed, rest, src, total, lent>>
<1>1. /\ caller_pc = "flush"
      /\ EnqueueTask(base, pos, "get_buffer")
      /\ UNCHANGED <<mem, nblocks, base, pos, pool, hand, processed,
                     consumed, rest, src, total, lent>>
  BY DEF FlushEnqueue, Current, workerVars
<1>2. /\ base \in Pointers /\ pos \in Nat /\ pos > 0 /\ next_id \in Nat
      /\ task_queue \in Seq(Tasks) /\ Len(task_queue) \in Nat
  BY <1>1, Constants, LenProperties DEF TypeOK, CallInv
<1>3. ~(pos < Threads)
  BY <1>2
<1>4. /\ caller_pc' = "get_buffer"
      /\ \E new \in Seq(Tasks) :
           /\ Len(new) \in Nat \ {0}
           /\ next_id' = next_id + Len(new)
           /\ task_queue' = task_queue \o new
           /\ \A i \in 1..Len(new) : /\ new[i].blk = base.blk
                                     /\ new[i].id = next_id + i - 1
           /\ Threads = 1 => /\ Len(new) = 1
                             /\ new[1].off = base.off
                             /\ new[1].size = pos
  <2> HIDE <1>2
  <2>1. base \in Pointers /\ pos \in Nat /\ EnqueueTask(base, pos, "get_buffer")
    BY <1>1, <1>2
  <2> QED
    BY <1>3, <2>1, EnqueueEffect
<1>5. PICK new \in Seq(Tasks) :
        /\ Len(new) = 1
        /\ next_id' = next_id + Len(new)
        /\ task_queue' = task_queue \o new
        /\ \A i \in 1..Len(new) : /\ new[i].blk = base.blk
                                  /\ new[i].id = next_id + i - 1
        /\ new[1].off = base.off /\ new[1].size = pos
  BY <1>4
<1>6. 1 \in 1..Len(new) /\ new[1] \in Tasks
  <2>1. Len(new) = 1
    BY <1>5
  <2>2. 1 \in 1..Len(new)
    BY <2>1
  <2> QED
    BY <2>2, ElementOfSeq
<1>7. new[1].blk = base.blk /\ new[1].id = next_id
  <2>1. new[1].blk = base.blk /\ new[1].id = next_id + 1 - 1
    BY <1>5, <1>6
  <2>2. next_id + 1 - 1 = next_id
    BY <1>2
  <2> QED
    BY <2>1, <2>2
<1> DEFINE q == task_queue
           r == task_queue'
<1>8. /\ r \in Seq(Tasks) /\ Len(r) = Len(q) + 1
      /\ \A i \in 1..(Len(q) + 1) : r[i] = IF i <= Len(q) THEN q[i] ELSE new[i - Len(q)]
  <2>1. q \in Seq(Tasks) /\ r = q \o new
    BY <1>2, <1>5
  <2> HIDE DEF q, r
  <2>2. /\ r \in Seq(Tasks) /\ Len(r) = Len(q) + Len(new)
        /\ \A i \in 1..(Len(q) + Len(new)) : r[i] = IF i <= Len(q) THEN q[i] ELSE new[i - Len(q)]
    BY <2>1, ConcatProperties
  <2> QED
    BY <1>5, <2>2
<1>9. /\ \A i \in 1..Len(q) : r[i] = q[i]
      /\ r[Len(q) + 1] = new[1]
  <2> DEFINE n == Len(q)
  <2>1. n \in Nat /\ n + 1 \in 1..(n + 1) /\ ~(n + 1 <= n) /\ n + 1 - n = 1
        /\ \A i \in 1..n : i \in 1..(n + 1) /\ i <= n
    BY <1>2
  <2>2. \A i \in 1..(n + 1) : r[i] = IF i <= n THEN q[i] ELSE new[i - n]
    BY <1>8
  <2>3. (n + 1) - n = 1
    BY <2>1
  <2> HIDE DEF n, q, r
  <2>4. (\A i \in 1..n : r[i] = q[i]) /\ r[n + 1] = new[1]
    BY <2>1, <2>2, <2>3
  <2> QED
    BY <2>4 DEF n
<1> QED
  BY <1>1, <1>2, <1>4, <1>5, <1>6, <1>7, <1>8, <1>9

LEMMA FlushApart ==
  ASSUME TypeOK, CallInv, Apart, Threads = 1, FlushEnqueue
  PROVE  Apart'
<1> DEFINE q == task_queue
           r == task_queue'
<1>1. /\ caller_pc = "flush" /\ caller_pc' = "get_buffer"
      /\ UNCHANGED <<nblocks, base, pool, hand>>
      /\ Len(q) \in Nat /\ Len(r) = Len(q) + 1
      /\ \A i \in 1..Len(q) : r[i] = q[i]
  BY FlushEffect
<1>2. PICK e \in Tasks : r[Len(q) + 1] = e /\ e.blk = base.blk /\ e.off = base.off
  BY FlushEffect
<1> HIDE DEF q, r
<1>3. /\ BlocksOf(r) = BlocksOf(q) \cup {e.blk}
      /\ AtStart(q) /\ e.off = 0 => AtStart(r)
      /\ Distinct(q) /\ e.blk \notin BlocksOf(q) => Distinct(r)
  BY <1>1, <1>2, OneMore
<1>4. /\ base.off = 0 /\ AtStart(q) /\ AtStart(pool)
      /\ \A w \in Workers : Has(w) => hand[w].off = 0
      /\ base.blk \in 1..nblocks
      /\ BlocksOf(q) \cup BlocksOf(pool) \cup HandBlocks \subseteq 1..nblocks
      /\ Distinct(q) /\ Distinct(pool)
      /\ \A v, w \in Workers : Has(v) /\ Has(w) /\ hand[v].blk = hand[w].blk => v = w
      /\ BlocksOf(q) \cap BlocksOf(pool) = {}
      /\ BlocksOf(q) \cap HandBlocks = {}
      /\ BlocksOf(pool) \cap HandBlocks = {}
      /\ base.blk \notin BlocksOf(q) \cup BlocksOf(pool) \cup HandBlocks
  BY <1>1 DEF Apart, q
<1>5. /\ BlocksOf(pool)' = BlocksOf(pool) /\ HandBlocks' = HandBlocks
      /\ AtStart(pool)' /\ Distinct(pool)' /\ \A w \in Workers : Has(w)' <=> Has(w)
  BY <1>1, <1>4 DEF BlocksOf, HandBlocks, Has, AtStart, Distinct
<1>6. /\ BlocksOf(task_queue)' = BlocksOf(q) \cup {base.blk}
      /\ AtStart(task_queue)' /\ Distinct(task_queue)'
  <2>1. AtStart(r) /\ Distinct(r) /\ BlocksOf(r) = BlocksOf(q) \cup {base.blk}
    BY <1>2, <1>3, <1>4
  <2> QED
    BY <2>1 DEF r, BlocksOf, AtStart, Distinct
<1> DEFINE Q == BlocksOf(q)
           P == BlocksOf(pool)
           H == HandBlocks
<1>7. /\ (Q \cup {base.blk}) \cup P \cup H \subseteq 1..nblocks
      /\ (Q \cup {base.blk}) \cap P = {} /\ (Q \cup {base.blk}) \cap H = {}
  BY <1>4
<1> QED
  BY <1>1, <1>4, <1>5, <1>6, <1>7 DEF Apart

LEMMA GetBufferApart ==
  ASSUME TypeOK, Apart, GetEmptyBuffer
  PROVE  Apart'
<1>1. /\ caller_pc = "get_buffer" /\ caller_pc' \in {"rest", "idle"}
      /\ UNCHANGED <<task_queue, hand>>
  BY DEF GetEmptyBuffer, workerVars
<1> DEFINE Q == BlocksOf(task_queue)
           P == BlocksOf(pool)
           H == HandBlocks
<1>2. /\ base.off = 0 /\ AtStart(task_queue) /\ AtStart(pool)
      /\ \A w \in Workers : Has(w) => hand[w].off = 0
      /\ Q \cup P \cup H \subseteq 1..nblocks
      /\ Distinct(task_queue) /\ Distinct(pool)
      /\ \A v, w \in Workers : Has(v) /\ Has(w) /\ hand[v].blk = hand[w].blk => v = w
      /\ Q \cap P = {} /\ Q \cap H = {} /\ P \cap H = {}
  BY DEF Apart
<1>3. /\ BlocksOf(task_queue)' = Q /\ HandBlocks' = H
      /\ AtStart(task_queue)' /\ Distinct(task_queue)'
      /\ \A w \in Workers : Has(w)' <=> Has(w)
  BY <1>1, <1>2 DEF BlocksOf, HandBlocks, Has, AtStart, Distinct
<1>4. nblocks \in Nat
  BY Constants DEF TypeOK
<1>5. CASE /\ nblocks' = nblocks + 1
           /\ base' = [blk |-> nblocks + 1, off |-> 0]
           /\ UNCHANGED pool
  <2>1. base'.blk = nblocks + 1 /\ base'.off = 0
    BY <1>5
  <2>2. base'.blk \in 1..nblocks' /\ base'.blk \notin 1..nblocks /\ 1..nblocks \subseteq 1..nblocks'
    BY <1>4, <1>5, <2>1
  <2>3. BlocksOf(pool)' = P /\ AtStart(pool)' /\ Distinct(pool)'
    BY <1>2, <1>5 DEF BlocksOf, AtStart, Distinct
  <2> HIDE DEF Q, P, H
  <2>4. Q \cup P \cup H \subseteq 1..nblocks' /\ base'.blk \notin Q \cup P \cup H
    BY <1>2, <2>2
  <2> QED
    BY <1>1, <1>2, <1>3, <2>1, <2>2, <2>3, <2>4 DEF Apart
<1>6. CASE /\ pool # <<>>
           /\ base' = Head(pool) /\ pool' = Tail(pool) /\ UNCHANGED nblocks
  <2> DEFINE r == pool'
  <2>1. pool \in Seq(Pointers) /\ Len(pool) \in Nat \ {0} /\ base' = pool[1]
    <3>1. pool \in Seq(Pointers)
      BY DEF TypeOK
    <3> QED
      BY <1>6, <3>1, EmptySeq
  <2>2. Len(r) = Len(pool) - 1 /\ \A i \in 1..Len(r) : r[i] = pool[i + 1]
    BY <1>6, <2>1, HeadTailProperties
  <2> HIDE DEF r
  <2>3. /\ BlocksOf(r) \subseteq BlocksOf(pool)
        /\ pool[1].blk \in BlocksOf(pool)
        /\ AtStart(pool) => AtStart(r) /\ pool[1].off = 0
        /\ Distinct(pool) => Distinct(r) /\ pool[1].blk \notin BlocksOf(r)
    BY <2>1, <2>2, OneLess
  <2>4. /\ BlocksOf(pool)' = BlocksOf(r)
        /\ AtStart(pool)' /\ Distinct(pool)'
    <3>1. AtStart(r) /\ Distinct(r)
      BY <1>2, <2>3
    <3> QED
      BY <3>1 DEF r, BlocksOf, AtStart, Distinct
  <2>5. base'.off = 0 /\ base'.blk = pool[1].blk
    BY <1>2, <2>1, <2>3
  <2> DEFINE R == BlocksOf(r)
             b == base'.blk
  <2>6. R \subseteq P /\ b \in P /\ b \notin R
    BY <1>2, <2>3, <2>5
  <2> HIDE DEF Q, P, H, R, b
  <2>7. /\ Q \cup R \cup H \subseteq 1..nblocks /\ b \in 1..nblocks
        /\ Q \cap R = {} /\ R \cap H = {} /\ b \notin Q \cup R \cup H
    BY <1>2, <2>6
  <2>8. b = base'.blk /\ R = BlocksOf(pool)' /\ nblocks' = nblocks
    BY <1>6, <2>4 DEF b, R
  <2> QED
    BY <1>1, <1>2, <1>3, <2>4, <2>5, <2>7, <2>8 DEF Apart
<1> QED
  BY <1>5, <1>6 DEF GetEmptyBuffer, PopFront

LEMMA GetTaskApart ==
  ASSUME TypeOK, IdsInv, Apart, NEW w \in Workers, GetTask(w)
  PROVE  Apart'
<1> DEFINE q == task_queue
           r == task_queue'
           h == hand'
<1>1. /\ hand[w] = NoTask
      /\ Len(q) \in Nat \ {0} /\ q[1] # NoTask
      /\ h[w] = q[1] /\ \A v \in Workers : v # w => h[v] = hand[v]
      /\ Len(r) = Len(q) - 1 /\ \A i \in 1..Len(r) : r[i] = q[i + 1]
      /\ caller_pc # "undefined"
      /\ UNCHANGED <<nblocks, base, pool, caller_pc>>
  BY GetTaskEffect
<1> HIDE DEF q, r, h
<1>2. /\ BlocksOf(r) \subseteq BlocksOf(q)
      /\ q[1].blk \in BlocksOf(q)
      /\ AtStart(q) => AtStart(r) /\ q[1].off = 0
      /\ Distinct(q) => Distinct(r) /\ q[1].blk \notin BlocksOf(r)
  BY <1>1, OneLess
<1>3. /\ base.off = 0 /\ AtStart(q) /\ AtStart(pool)
      /\ \A v \in Workers : hand[v] # NoTask => hand[v].off = 0
      /\ base.blk \in 1..nblocks
      /\ BlocksOf(q) \cup BlocksOf(pool) \cup HandBlocks \subseteq 1..nblocks
      /\ Distinct(q) /\ Distinct(pool)
      /\ \A v, u \in Workers : hand[v] # NoTask /\ hand[u] # NoTask /\ hand[v].blk = hand[u].blk => v = u
      /\ BlocksOf(q) \cap BlocksOf(pool) = {}
      /\ BlocksOf(q) \cap HandBlocks = {}
      /\ BlocksOf(pool) \cap HandBlocks = {}
      /\ caller_pc # "get_buffer" =>
           base.blk \notin BlocksOf(q) \cup BlocksOf(pool) \cup HandBlocks
  BY DEF Apart, Has, q
<1>4. /\ BlocksOf(pool)' = BlocksOf(pool) /\ AtStart(pool)' /\ Distinct(pool)'
  BY <1>1, <1>3 DEF BlocksOf, AtStart, Distinct
<1>5. /\ BlocksOf(task_queue)' = BlocksOf(r) /\ AtStart(task_queue)' /\ Distinct(task_queue)'
  <2>1. AtStart(r) /\ Distinct(r)
    BY <1>2, <1>3
  <2> QED
    BY <2>1 DEF BlocksOf, AtStart, Distinct, r
<1>6. HandBlocks = {hand[v].blk : v \in {u \in Workers : hand[u] # NoTask}}
      /\ HandBlocks' = {h[v].blk : v \in {u \in Workers : h[u] # NoTask}}
  BY DEF HandBlocks, Has, h
<1>7. HandBlocks' \subseteq HandBlocks \cup {q[1].blk}
  BY <1>1, <1>6
<1>8. \A v \in Workers : hand[v] # NoTask => hand[v].blk # q[1].blk
  BY <1>2, <1>3, <1>6
<1>9. \A v, u \in Workers : h[v] # NoTask /\ h[u] # NoTask /\ h[v].blk = h[u].blk => v = u
  BY <1>1, <1>3, <1>8
<1>10. \A v \in Workers : h[v] # NoTask => h[v].off = 0
  BY <1>1, <1>2, <1>3
<1> DEFINE Q == BlocksOf(q)
           R == BlocksOf(r)
           P == BlocksOf(pool)
           H == HandBlocks
           I == HandBlocks'
           b == q[1].blk
<1>11. /\ R \subseteq Q /\ b \in Q /\ b \notin R /\ I \subseteq H \cup {b}
       /\ Q \cup P \cup H \subseteq 1..nblocks
       /\ Q \cap P = {} /\ Q \cap H = {} /\ P \cap H = {}
       /\ caller_pc # "get_buffer" => base.blk \notin Q \cup P \cup H
  BY <1>2, <1>3, <1>7
<1> HIDE DEF Q, R, P, H, I, b
<1>12. /\ R \cup P \cup I \subseteq 1..nblocks
       /\ R \cap P = {} /\ R \cap I = {} /\ P \cap I = {}
       /\ caller_pc # "get_buffer" => base.blk \notin R \cup P \cup I
  BY <1>11
<1>13. \A v \in Workers : Has(v)' <=> h[v] # NoTask
  BY DEF Has, h
<1>14. hand' = h /\ BlocksOf(task_queue)' = R /\ BlocksOf(pool)' = P /\ HandBlocks' = I
       /\ base' = base /\ nblocks' = nblocks /\ caller_pc' = caller_pc
  BY <1>1, <1>4, <1>5 DEF h, R, P, I
<1> QED
  BY <1>1, <1>3, <1>4, <1>5, <1>9, <1>10, <1>12, <1>13, <1>14 DEF Apart

LEMMA GiveBackApart ==
  ASSUME TypeOK, IdsInv, Apart, NEW w \in Workers, GiveBackBuffer(w)
  PROVE  Apart'
<1> DEFINE h == hand'
           r == pool'
           p == [blk |-> hand[w].blk, off |-> hand[w].off]
<1>1. /\ processed[w] /\ caller_pc # "undefined"
      /\ pool' = IF Len(pool) > Threads THEN pool ELSE Append(pool, p)
      /\ hand' = [hand EXCEPT ![w] = NoTask]
      /\ UNCHANGED <<nblocks, base, task_queue, caller_pc>>
  BY DEF GiveBackBuffer, callerVars, PoolFull
<1>2. /\ hand \in [Workers -> Tasks \cup {NoTask}]
      /\ pool \in Seq(Pointers) /\ Len(pool) \in Nat
  BY LenProperties DEF TypeOK
<1>3. hand[w] # NoTask /\ hand[w] \in Tasks
  BY <1>1, <1>2 DEF IdsInv, Has
<1>4. h[w] = NoTask /\ \A v \in Workers : v # w => h[v] = hand[v]
  BY <1>1, <1>2
<1>5. p \in Pointers /\ p.blk = hand[w].blk /\ p.off = hand[w].off
  BY <1>3 DEF Tasks, Pointers
<1>6. /\ base.off = 0 /\ AtStart(task_queue) /\ AtStart(pool)
      /\ \A v \in Workers : hand[v] # NoTask => hand[v].off = 0
      /\ base.blk \in 1..nblocks
      /\ BlocksOf(task_queue) \cup BlocksOf(pool) \cup HandBlocks \subseteq 1..nblocks
      /\ Distinct(task_queue) /\ Distinct(pool)
      /\ \A v, u \in Workers : hand[v] # NoTask /\ hand[u] # NoTask /\ hand[v].blk = hand[u].blk => v = u
      /\ BlocksOf(task_queue) \cap BlocksOf(pool) = {}
      /\ BlocksOf(task_queue) \cap HandBlocks = {}
      /\ BlocksOf(pool) \cap HandBlocks = {}
      /\ caller_pc # "get_buffer" =>
           base.blk \notin BlocksOf(task_queue) \cup BlocksOf(pool) \cup HandBlocks
  BY DEF Apart, Has
<1>7. /\ BlocksOf(task_queue)' = BlocksOf(task_queue)
      /\ AtStart(task_queue)' /\ Distinct(task_queue)'
  BY <1>1, <1>6 DEF BlocksOf, AtStart, Distinct
<1>8. HandBlocks = {hand[v].blk : v \in {u \in Workers : hand[u] # NoTask}}
      /\ HandBlocks' = {h[v].blk : v \in {u \in Workers : h[u] # NoTask}}
  BY DEF HandBlocks, Has
<1>9. HandBlocks' \subseteq HandBlocks \ {hand[w].blk} /\ hand[w].blk \in HandBlocks
  <2> HIDE DEF h
  <2> QED
    BY <1>3, <1>4, <1>6, <1>8
<1>10. /\ BlocksOf(r) \subseteq BlocksOf(pool) \cup {hand[w].blk}
       /\ AtStart(r) /\ Distinct(r)
  <2>1. CASE Len(pool) > Threads
    BY <1>1, <1>6, <2>1
  <2>2. CASE ~(Len(pool) > Threads)
    <3>1. r = Append(pool, p)
      BY <1>1, <2>2
    <3>2. p.off = 0 /\ p.blk \notin BlocksOf(pool)
      BY <1>3, <1>5, <1>6, <1>9
    <3> HIDE DEF r, p
    <3>3. /\ Len(r) = Len(pool) + 1
          /\ \A i \in 1..Len(pool) : r[i] = pool[i]
          /\ r[Len(pool) + 1] = p
      BY <1>2, <1>5, <3>1, AppendProperties
    <3>4. /\ BlocksOf(r) = BlocksOf(pool) \cup {p.blk}
          /\ AtStart(pool) /\ p.off = 0 => AtStart(r)
          /\ Distinct(pool) /\ p.blk \notin BlocksOf(pool) => Distinct(r)
      <4> DEFINE s0 == pool
      <4>1. /\ Len(s0) \in Nat /\ Len(r) = Len(s0) + 1
            /\ \A i \in 1..Len(s0) : r[i] = s0[i]
            /\ r[Len(s0) + 1] = p
        BY <1>2, <3>3
      <4> HIDE DEF s0
      <4>2. /\ BlocksOf(r) = BlocksOf(s0) \cup {p.blk}
            /\ AtStart(s0) /\ p.off = 0 => AtStart(r)
            /\ Distinct(s0) /\ p.blk \notin BlocksOf(s0) => Distinct(r)
        BY <4>1, OneMore
      <4> QED
        BY <4>2 DEF s0
    <3>5. AtStart(pool) /\ Distinct(pool)
      BY <1>6
    <3>6. p.blk = hand[w].blk
      BY <1>5
    <3> QED
      BY <3>2, <3>4, <3>5, <3>6
  <2> QED
    BY <2>1, <2>2
<1>11. BlocksOf(pool)' = BlocksOf(r) /\ AtStart(pool)' /\ Distinct(pool)'
  BY <1>10 DEF BlocksOf, AtStart, Distinct
<1> HIDE DEF h, r, p
<1>12. \A v, u \in Workers : h[v] # NoTask /\ h[u] # NoTask /\ h[v].blk = h[u].blk => v = u
  BY <1>4, <1>6
<1>13. \A v \in Workers : h[v] # NoTask => h[v].off = 0
  BY <1>4, <1>6
<1> DEFINE Q == BlocksOf(task_queue)
           R == BlocksOf(r)
           P == BlocksOf(pool)
           H == HandBlocks
           I == HandBlocks'
           b == hand[w].blk
<1>14. /\ R \subseteq P \cup {b} /\ b \in H /\ I \subseteq H \ {b}
       /\ Q \cup P \cup H \subseteq 1..nblocks
       /\ Q \cap P = {} /\ Q \cap H = {} /\ P \cap H = {}
       /\ caller_pc # "get_buffer" => base.blk \notin Q \cup P \cup H
  BY <1>6, <1>9, <1>10
<1> HIDE DEF Q, R, P, H, I, b
<1>15. /\ Q \cup R \cup I \subseteq 1..nblocks
       /\ Q \cap R = {} /\ Q \cap I = {} /\ R \cap I = {}
       /\ caller_pc # "get_buffer" => base.blk \notin Q \cup R \cup I
  BY <1>14
<1>16. \A v \in Workers : Has(v)' <=> h[v] # NoTask
  BY DEF Has, h
<1>17. hand' = h /\ BlocksOf(task_queue)' = Q /\ BlocksOf(pool)' = R /\ HandBlocks' = I
       /\ base' = base /\ nblocks' = nblocks /\ caller_pc' = caller_pc
  BY <1>1, <1>7, <1>11 DEF h, Q, R, I
<1> QED
  <2>1. AtStart(pool)' /\ Distinct(task_queue)' /\ Distinct(pool)'
    BY <1>1, <1>6, <1>7, <1>11 DEF Distinct
  <2>2. \A v, u \in Workers : Has(v)' /\ Has(u)' /\ hand'[v].blk = hand'[u].blk => v = u
    BY <1>12, <1>16, <1>17
  <2>3. \A v \in Workers : Has(v)' => hand'[v].off = 0
    BY <1>13, <1>16, <1>17
  <2> QED
    BY <1>1, <1>6, <1>7, <1>11, <1>15, <1>17, <2>1, <2>2, <2>3 DEF Apart

(* One worker always gets the rest as one task.                            *)
LEMMA RestIsLent ==
  ASSUME TypeOK, Threads = 1, EnqueueRest
  PROVE  lent'
<1>1. /\ rest >= BufferSize /\ rest \in 0..UserSize
      /\ BufferSize \in Nat /\ BufferSize >= 2 /\ UserSize \in Nat
  BY Constants DEF EnqueueRest, TypeOK
<1>2. ~(rest < Threads)
  BY <1>1
<1>3. caller_pc' = "idle"
  BY <1>2 DEF EnqueueRest, EnqueueTask
<1> QED
  BY <1>3 DEF EnqueueRest

LEMMA StepApart ==
  ASSUME StreamInv, ApartInv, Threads = 1, [Next]_vars
  PROVE  ApartInv'
<1> USE DEF StreamInv
<1>1. SUFFICES ASSUME ~lent' PROVE Apart'
  BY DEF ApartInv
<1>2. ~lent
  BY <1>1 DEF Next, CallerStep, WorkerStep, Xsputn, Sputc, Sync, FlushEnqueue,
              GetEmptyBuffer, PutRest, EnqueueRest, GetTask, Process,
              GiveBackBuffer, callerVars, vars
<1>3. Apart /\ caller_pc # "undefined"
  BY <1>2 DEF ApartInv, Apart
<1>4. /\ base.off = 0 /\ BlockSize(base.blk) = BufferSize
      /\ BufferSize \in Nat /\ pos \in 0..BufferSize
  BY <1>3, InBounds, Constants DEF Apart, TypeOK
<1>5. ASSUME NEW n \in WriteSizes, Xsputn(n) PROVE Apart'
  <2>1. PICK f \in 0..n :
          /\ f <= BufferSize - pos
          /\ caller_pc = "idle"
          /\ UNCHANGED <<nblocks, base, pool, task_queue, hand>>
          /\ \/ caller_pc' = "undefined" /\ ~(base.off + pos + f <= BlockSize(base.blk))
             \/ caller_pc' = IF f < n THEN "flush" ELSE "idle"
    BY <1>5, XsputnEffect
  <2>2. base.off + pos + f <= BlockSize(base.blk)
    BY <1>4, <2>1, Constants
  <2> QED
    BY <1>3, <2>1, <2>2, ApartStays
<1>6. CASE Sputc
  <2>1. /\ caller_pc = "idle"
        /\ UNCHANGED <<nblocks, base, pool, task_queue, hand>>
        /\ \/ /\ pos < BufferSize
              /\ caller_pc' = "undefined" /\ ~(base.off + pos + 1 <= BlockSize(base.blk))
           \/ caller_pc' \in {"idle", "flush"}
    BY <1>6, SputcEffect
  <2>2. pos < BufferSize => base.off + pos + 1 <= BlockSize(base.blk)
    BY <1>4
  <2> QED
    BY <1>3, <2>1, <2>2, ApartStays
<1>7. CASE PutRest
  <2>1. /\ caller_pc = "rest" /\ rest \in 1..(BufferSize - 1)
        /\ UNCHANGED <<nblocks, base, pool, task_queue, hand>>
        /\ \/ caller_pc' = "undefined" /\ ~(base.off + rest <= BlockSize(base.blk))
           \/ caller_pc' = "idle"
    BY <1>7, PutRestEffect
  <2>2. base.off + rest <= BlockSize(base.blk)
    BY <1>4, <2>1
  <2> QED
    BY <1>3, <2>1, <2>2, ApartStays
<1>8. CASE Sync
  <2>1. /\ caller_pc = "idle" /\ caller_pc' = "flush"
        /\ UNCHANGED <<nblocks, base, pool, task_queue, hand>>
    BY <1>8 DEF Sync, workerVars
  <2> QED
    BY <1>3, <2>1, ApartStays
<1>9. CASE EnqueueRest
  <2>1. lent'
    BY <1>9, RestIsLent
  <2> QED
    BY <1>1, <2>1
<1>10. ASSUME NEW w \in Workers, Process(w) PROVE Apart'
  <2>1. UNCHANGED <<nblocks, base, pool, task_queue, hand, caller_pc>>
    BY <1>10 DEF Process, callerVars
  <2> QED
    BY <1>3, <2>1, ApartStays
<1>11. CASE UNCHANGED vars
  <2>1. UNCHANGED <<nblocks, base, pool, task_queue, hand, caller_pc>>
    BY <1>11 DEF vars
  <2> QED
    BY <1>3, <2>1, ApartStays
<1>12. CASE CallerStep
  BY <1>3, <1>5, <1>6, <1>7, <1>8, <1>9, <1>12, FlushApart, GetBufferApart DEF CallerStep
<1>13. ASSUME NEW w \in Workers, WorkerStep(w) PROVE Apart'
  BY <1>3, <1>10, <1>13, GetTaskApart, GiveBackApart DEF WorkerStep
<1> QED
  BY <1>11, <1>12, <1>13 DEF Next

LEMMA InitApart ==
  ASSUME Init
  PROVE  ApartInv
<1>1. /\ nblocks = 1 /\ base = [blk |-> 1, off |-> 0]
      /\ pool = <<>> /\ task_queue = <<>>
      /\ hand = [w \in Workers |-> NoTask] /\ caller_pc = "idle"
  BY DEF Init
<1>2. Len(pool) = 0 /\ Len(task_queue) = 0
  BY <1>1, EmptySeq
<1>3. BlocksOf(task_queue) = {} /\ BlocksOf(pool) = {}
      /\ AtStart(task_queue) /\ AtStart(pool)
      /\ Distinct(task_queue) /\ Distinct(pool)
  BY <1>2 DEF BlocksOf, AtStart, Distinct
<1>4. HandBlocks = {} /\ \A w \in Workers : ~Has(w)
  BY <1>1 DEF HandBlocks, Has
<1>5. base.off = 0 /\ base.blk \in 1..nblocks
  BY <1>1
<1> QED
  BY <1>1, <1>3, <1>4, <1>5 DEF ApartInv, Apart

(* What ApartInv says of a buffer's holders.                               *)
LEMMA AtMostOne ==
  ASSUME NEW S, \A x, y \in S : x = y
  PROVE  Cardinality(S) = IF S = {} THEN 0 ELSE 1
<1>1. CASE S = {}
  BY <1>1, FS_EmptySet
<1>2. CASE S # {}
  <2>1. PICK x \in S : TRUE
    BY <1>2
  <2>2. S = {x}
    BY <2>1
  <2> QED
    BY <1>2, <2>2, FS_Singleton
<1> QED
  BY <1>1, <1>2

LEMMA ApartMeansOneHolder ==
  ASSUME StreamInv, Apart, NEW b \in 1..nblocks
  PROVE  Holders(b) <= 1
<1> DEFINE T == {t \in Queued \cup InHand : t.blk = b}
           I == {i \in 1..Len(pool) : pool[i].blk = b}
           Base == caller_pc # "get_buffer" /\ base.blk = b
<1>1. /\ Distinct(task_queue) /\ Distinct(pool)
      /\ \A v, w \in Workers : Has(v) /\ Has(w) /\ hand[v].blk = hand[w].blk => v = w
      /\ BlocksOf(task_queue) \cap BlocksOf(pool) = {}
      /\ BlocksOf(task_queue) \cap HandBlocks = {}
      /\ BlocksOf(pool) \cap HandBlocks = {}
      /\ caller_pc # "get_buffer" =>
           base.blk \notin BlocksOf(task_queue) \cup BlocksOf(pool) \cup HandBlocks
  BY DEF Apart
<1>2. DOMAIN task_queue = 1..Len(task_queue)
  BY LenProperties DEF StreamInv, TypeOK
<1>3. ASSUME NEW t \in Queued
      PROVE  \E i \in 1..Len(task_queue) : t = task_queue[i] /\ t.blk \in BlocksOf(task_queue)
  BY <1>2, <1>3 DEF Queued, ToSet, BlocksOf
<1>4. ASSUME NEW t \in InHand
      PROVE  \E w \in Workers : Has(w) /\ t = hand[w] /\ t.blk \in HandBlocks
  BY <1>4 DEF InHand, HandBlocks, Has
<1>5. ASSUME NEW i \in I PROVE b \in BlocksOf(pool)
  BY <1>5 DEF BlocksOf
<1>6. ASSUME NEW t \in T PROVE b \in BlocksOf(task_queue) \/ b \in HandBlocks
  BY <1>3, <1>4, <1>6
<1>7. \A t, u \in T : t = u
  <2> SUFFICES ASSUME NEW t \in T, NEW u \in T PROVE t = u
    OBVIOUS
  <2>1. t.blk = b /\ u.blk = b
    OBVIOUS
  <2>2. CASE t \in Queued /\ u \in Queued
    BY <1>1, <1>3, <2>1, <2>2 DEF Distinct
  <2>3. CASE t \in InHand /\ u \in InHand
    BY <1>1, <1>4, <2>1, <2>3
  <2>4. CASE (t \in Queued /\ u \in InHand) \/ (t \in InHand /\ u \in Queued)
    BY <1>1, <1>3, <1>4, <2>1, <2>4
  <2>5. t \in Queued \cup InHand /\ u \in Queued \cup InHand
    OBVIOUS
  <2> QED
    BY <2>2, <2>3, <2>4, <2>5
<1>8. \A i, j \in I : i = j
  BY <1>1 DEF Distinct
<1>9. /\ ~(T # {} /\ I # {})
      /\ Base => T = {} /\ I = {}
  <2>1. ASSUME T # {} PROVE b \in BlocksOf(task_queue) \/ b \in HandBlocks
    BY <1>6, <2>1
  <2>2. ASSUME I # {} PROVE b \in BlocksOf(pool)
    BY <1>5, <2>2
  <2> HIDE DEF T, I
  <2> QED
    BY <1>1, <2>1, <2>2
<1>10. Holders(b) = (IF Base THEN 1 ELSE 0) + Cardinality(T) + Cardinality(I)
  BY DEF Holders
<1> HIDE DEF T, I, Base
<1>11. Cardinality(T) = IF T = {} THEN 0 ELSE 1
  BY <1>7, AtMostOne
<1>12. Cardinality(I) = IF I = {} THEN 0 ELSE 1
  BY <1>8, AtMostOne
<1> QED
  BY <1>9, <1>10, <1>11, <1>12

LEMMA ApartMeansInBounds ==
  ASSUME StreamInv, Apart
  PROVE  base.off + BufferSize <= BlockSize(base.blk)
<1>1. base.off = 0 /\ BlockSize(base.blk) = BufferSize /\ BufferSize \in Nat
  BY InBounds, Constants DEF Apart, StreamInv
<1> QED
  BY <1>1

(* With one worker and no task in the user's array the pointers stay the   *)
(* beginnings of distinct buffers.                                         *)
LEMMA ApartHolds ==
  ASSUME Threads = 1
  PROVE  Spec => [](StreamInv /\ ApartInv)
<1>1. Init => StreamInv /\ ApartInv
  BY InitTyped, InitApart
<1>2. StreamInv /\ ApartInv /\ [Next]_vars => StreamInv' /\ ApartInv'
  BY StepTyped, StepApart
<1> QED
  BY <1>1, <1>2, PTL DEF Spec

(* A buffer is the put area, or belongs to one task, or is in the pool     *)
(* once: with one worker nobody writes to a buffer somebody else reads.    *)
THEOREM BufferHasOneHolder ==
  ASSUME Threads = 1
  PROVE  Spec => []OneHolder
<1>1. StreamInv /\ ApartInv => OneHolder
  BY ApartMeansOneHolder DEF ApartInv, OneHolder
<1> QED
  BY <1>1, ApartHolds, PTL

(* What setp declares to be the put area is inside one buffer: with one    *)
(* worker a pointer comes back from it as it was handed out.               *)
THEOREM PutAreaIsABuffer ==
  ASSUME Threads = 1
  PROVE  Spec => []PutAreaInBounds
<1>1. StreamInv /\ ApartInv => PutAreaInBounds
  BY ApartMeansInBounds DEF ApartInv, PutAreaInBounds
<1> QED
  BY <1>1, ApartHolds, PTL
-----------------------------------------------------------------------------
(* The tasks cut the stream into consecutive pieces: task i has the bytes  *)
(* from s[i] up to s[i + 1].  They are in its buffer until they are read,  *)
(* the next ones are in the put area, and what a call has still to place   *)
(* comes after those.                                                      *)
Fresh(t, s) ==
  /\ t.size = s[t.id + 1] - s[t.id] /\ t.size <= BufferSize
  /\ \A k \in 1..t.size : mem[t.blk][k] = s[t.id] + k - 1
Starts(s) ==
  /\ s[0] = 0
  /\ s[next_id] = total - rest - InPutArea
  /\ \A i \in 0..(next_id - 1) : s[i] <= s[i + 1]
  /\ \A i \in DOMAIN consumed :
       consumed[i] = [k \in 1..(s[i + 1] - s[i]) |-> s[i] + k - 1]
  /\ \A i \in 1..Len(task_queue) : Fresh(task_queue[i], s)
  /\ \A w \in Workers : Has(w) /\ ~processed[w] => Fresh(hand[w], s)
PutAreaBytes ==
  caller_pc # "get_buffer" =>
    \A k \in 1..pos : mem[base.blk][k] = total - rest - pos + k - 1
UserBytes ==
  src # ByValue => \A k \in 1..rest : mem[User][src + k] = total - rest + k - 1
Bytes    == PutAreaBytes /\ UserBytes /\ \E s \in [Nat -> Nat] : Starts(s)
BytesInv == lent \/ Bytes

LEMMA TaskFacts ==
  ASSUME StreamInv
  PROVE  /\ next_id \in Nat
         /\ \A i \in 1..Len(task_queue) :
              /\ task_queue[i] \in Tasks
              /\ task_queue[i].id \in 0..(next_id - 1)
         /\ \A w \in Workers : Has(w) =>
              /\ hand[w] \in Tasks
              /\ hand[w].id \in 0..(next_id - 1)
         /\ \A i \in DOMAIN consumed : i \in 0..(next_id - 1)
<1>1. /\ next_id \in Nat /\ task_queue \in Seq(Tasks) /\ Len(task_queue) \in Nat
      /\ hand \in [Workers -> Tasks \cup {NoTask}]
      /\ DOMAIN consumed \subseteq 0..(next_id - 1)
  BY LenProperties DEF StreamInv, TypeOK
<1>2. FirstQueued = next_id - Len(task_queue) /\ FirstQueued \in Nat
  BY DEF StreamInv, IdsInv, FirstQueued
<1>3. ASSUME NEW i \in 1..Len(task_queue)
      PROVE  task_queue[i] \in Tasks /\ task_queue[i].id \in 0..(next_id - 1)
  <2>1. task_queue[i] \in Tasks
    BY <1>1, ElementOfSeq
  <2>2. task_queue[i].id = FirstQueued + i - 1
    BY DEF StreamInv, IdsInv
  <2>3. FirstQueued + i - 1 \in 0..(next_id - 1)
    BY <1>1, <1>2
  <2> QED
    BY <2>1, <2>2, <2>3
<1>4. ASSUME NEW w \in Workers, Has(w)
      PROVE  hand[w] \in Tasks /\ hand[w].id \in 0..(next_id - 1)
  <2>1. hand[w] \in Tasks
    BY <1>1, <1>4 DEF Has
  <2>2. hand[w].id \in Nat
    BY <2>1 DEF Tasks
  <2>3. hand[w].id < FirstQueued
    BY <1>4 DEF StreamInv, IdsInv
  <2>4. \A id \in Nat : id < FirstQueued => id \in 0..(next_id - 1)
    BY <1>1, <1>2
  <2> QED
    BY <2>1, <2>2, <2>3, <2>4
<1> QED
  BY <1>1, <1>3, <1>4

(* A task's buffer is neither the put area nor the user's array.           *)
LEMMA TaskBlocks ==
  ASSUME StreamInv, Apart, NEW b \in BlocksOf(task_queue) \cup HandBlocks
  PROVE  /\ b \in Blocks /\ b # User
         /\ caller_pc # "get_buffer" => b # base.blk
<1>1. b \in 1..nblocks /\ (caller_pc # "get_buffer" => b # base.blk)
  BY DEF Apart
<1>2. nblocks \in Nat /\ nblocks <= MaxBlocks /\ MaxBlocks \in Nat
  BY Constants DEF StreamInv, TypeOK
<1>3. b \in 0..MaxBlocks /\ b # 0
  BY <1>1, <1>2
<1> QED
  BY <1>1, <1>3 DEF Blocks, User

LEMMA StartsStay ==
  ASSUME NEW s, Starts(s),
         UNCHANGED <<task_queue, next_id, hand, processed, consumed>>,
         \A b \in BlocksOf(task_queue) \cup HandBlocks : mem'[b] = mem[b],
         total' - rest' - InPutArea' = total - rest - InPutArea
  PROVE  Starts(s)'
<1>1. /\ task_queue' = task_queue /\ next_id' = next_id /\ hand' = hand
      /\ processed' = processed /\ consumed' = consumed
  OBVIOUS
<1>2. ASSUME NEW i \in 1..Len(task_queue)
      PROVE  /\ task_queue[i].blk \in BlocksOf(task_queue)
             /\ Fresh(task_queue[i], s)
  BY DEF BlocksOf, Starts
<1>3. ASSUME NEW w \in Workers, Has(w), ~processed[w]
      PROVE  hand[w].blk \in HandBlocks /\ Fresh(hand[w], s)
  BY <1>3 DEF HandBlocks, Has, Starts
<1>4. \A i \in 1..Len(task_queue') : Fresh(task_queue[i], s)'
  <2> TAKE i \in 1..Len(task_queue')
  <2>1. i \in 1..Len(task_queue) /\ mem'[task_queue[i].blk] = mem[task_queue[i].blk]
    BY <1>1, <1>2
  <2> QED
    BY <1>1, <1>2, <2>1 DEF Fresh
<1>5. ASSUME NEW w \in Workers, Has(w)', ~processed'[w] PROVE Fresh(hand[w], s)'
  <2>1. Has(w) /\ ~processed[w]
    BY <1>1, <1>5 DEF Has
  <2>2. mem'[hand[w].blk] = mem[hand[w].blk]
    BY <1>3, <2>1
  <2> QED
    BY <1>1, <1>3, <2>1, <2>2 DEF Fresh
<1>6. /\ s[0] = 0
      /\ s[next_id] = total - rest - InPutArea
      /\ \A i \in 0..(next_id - 1) : s[i] <= s[i + 1]
      /\ \A i \in DOMAIN consumed :
           consumed[i] = [k \in 1..(s[i + 1] - s[i]) |-> s[i] + k - 1]
  BY DEF Starts
<1>7. s[next_id'] = total' - rest' - InPutArea'
  BY <1>1, <1>6
<1> QED
  BY <1>1, <1>4, <1>5, <1>6, <1>7 DEF Starts

LEMMA XsputnBytes ==
  ASSUME StreamInv, Apart, Bytes, NEW n \in WriteSizes, Xsputn(n)
  PROVE  Bytes'
<1> DEFINE b0 == base.blk
<1>1. PICK f \in 0..n :
        /\ f <= BufferSize - pos
        /\ f < n => f = BufferSize - pos
        /\ caller_pc = "idle"
        /\ total' = total + n
        /\ rest' = n - f
        /\ src' = IF f < n THEN f ELSE 0
        /\ UNCHANGED <<base, task_queue, next_id, hand, processed, consumed>>
        /\ \/ /\ caller_pc' = "undefined"
              /\ ~(base.off + pos + f <= BlockSize(b0))
           \/ /\ caller_pc' = IF f < n THEN "flush" ELSE "idle"
              /\ pos' = pos + f
              /\ \A b \in Blocks : b \notin {User, b0} => mem'[b] = mem[b]
              /\ b0 # User =>
                   /\ \A i \in 1..n : mem'[User][i] = total + i - 1
                   /\ \A i \in 1..BlockSize(b0) :
                        mem'[b0][i] = IF i - base.off - pos \in 1..f
                                      THEN total + (i - base.off - pos) - 1
                                      ELSE mem[b0][i]
  <2> HIDE DEF b0
  <2> QED
    BY XsputnEffect DEF StreamInv, b0
<1>2. /\ n \in Nat /\ n >= 1 /\ BufferSize \in Nat /\ pos \in 0..BufferSize
      /\ total \in Nat /\ rest = 0
  BY <1>1, Constants DEF StreamInv, TypeOK, CallInv
<1>3. base.off = 0 /\ b0 # User /\ BlockSize(b0) = BufferSize /\ b0 \in Blocks
  BY InBounds DEF Apart, StreamInv
<1>4. base.off + pos + f <= BlockSize(b0)
  BY <1>1, <1>2, <1>3
<1>5. /\ caller_pc' \in {"idle", "flush"}
      /\ pos' = pos + f
      /\ \A b \in Blocks : b \notin {User, b0} => mem'[b] = mem[b]
      /\ \A i \in 1..n : mem'[User][i] = total + i - 1
      /\ \A i \in 1..BufferSize :
           mem'[b0][i] = IF i - base.off - pos \in 1..f
                         THEN total + (i - base.off - pos) - 1
                         ELSE mem[b0][i]
  BY <1>1, <1>3, <1>4
<1>6. \A b \in BlocksOf(task_queue) \cup HandBlocks : mem'[b] = mem[b]
  BY <1>1, <1>5, TaskBlocks
<1>7. InPutArea' = pos + f /\ InPutArea = pos
  BY <1>1, <1>5 DEF InPutArea
<1>8. total' - rest' - InPutArea' = total - rest - InPutArea
  <2>1. total + n - (n - f) - (pos + f) = total - 0 - pos
    BY <1>1, <1>2
  <2>2. total' = total + n /\ rest' = n - f
    BY <1>1
  <2> QED
    BY <1>2, <1>7, <2>1, <2>2
<1>9. ASSUME NEW s \in [Nat -> Nat], Starts(s) PROVE Starts(s)'
  BY <1>1, <1>6, <1>8, <1>9, StartsStay
<1>10. PutAreaBytes'
  <2> SUFFICES ASSUME NEW k \in 1..pos'
               PROVE  mem'[base'.blk][k] = total' - rest' - pos' + k - 1
    BY DEF PutAreaBytes
  <2>1. base' = base /\ k \in 1..(pos + f)
    BY <1>1, <1>5
  <2>2. k \in 1..BufferSize
    BY <1>1, <1>2, <2>1
  <2>3. total' - rest' - pos' + k - 1 = total - pos + k - 1
    <3>1. total' = total + n /\ rest' = n - f /\ pos' = pos + f
      BY <1>1, <1>5
    <3> QED
      BY <1>1, <1>2, <2>1, <3>1
  <2> DEFINE j == k - base.off - pos
  <2>4. j = k - pos
    BY <1>2, <1>3, <2>1
  <2>5. mem'[b0][k] = IF j \in 1..f THEN total + j - 1 ELSE mem[b0][k]
    BY <1>5, <2>2
  <2> HIDE DEF j
  <2>6. CASE k <= pos
    <3>1. ~(j \in 1..f) /\ k \in 1..pos
      BY <1>1, <1>2, <2>1, <2>4, <2>6
    <3>2. mem[b0][k] = total - rest - pos + k - 1
      BY <1>1, <3>1 DEF Bytes, PutAreaBytes
    <3>3. total - rest - pos + k - 1 = total - pos + k - 1
      BY <1>2, <2>1
    <3> QED
      BY <2>1, <2>3, <2>5, <3>1, <3>2, <3>3
  <2>7. CASE ~(k <= pos)
    <3>1. j \in 1..f /\ total + j - 1 = total - pos + k - 1
      BY <1>1, <1>2, <2>1, <2>4, <2>7
    <3> QED
      BY <2>1, <2>3, <2>5, <3>1
  <2> QED
    BY <2>6, <2>7
<1>11. UserBytes'
  <2> SUFFICES ASSUME NEW k \in 1..rest'
               PROVE  mem'[User][src' + k] = total' - rest' + k - 1
    BY DEF UserBytes
  <2>1. f < n /\ src' = f
    BY <1>1, <1>2
  <2>2. src' + k \in 1..n /\ k \in Nat
    BY <1>1, <1>2, <2>1
  <2>3. mem'[User][src' + k] = total + (src' + k) - 1
    BY <1>5, <2>2
  <2>4. total' = total + n /\ rest' = n - f
    BY <1>1
  <2>5. total' - rest' + k - 1 = total + (src' + k) - 1
    BY <1>1, <1>2, <2>1, <2>2, <2>4
  <2> QED
    BY <2>3, <2>5
<1> QED
  BY <1>9, <1>10, <1>11 DEF Bytes

LEMMA SputcBytes ==
  ASSUME StreamInv, Apart, Bytes, Sputc
  PROVE  Bytes'
<1> DEFINE b0 == base.blk
<1>1. /\ caller_pc = "idle" /\ total' = total + 1
      /\ UNCHANGED <<base, task_queue, next_id, hand, processed, consumed>>
  BY SputcEffect DEF StreamInv
<1>2. /\ BufferSize \in Nat /\ pos \in 0..BufferSize
      /\ total \in Nat /\ rest = 0 /\ src = 0
  BY <1>1, Constants DEF StreamInv, TypeOK, CallInv
<1>3. base.off = 0 /\ b0 # User /\ BlockSize(b0) = BufferSize /\ b0 \in Blocks
  BY InBounds DEF Apart, StreamInv
<1>4. CASE /\ rest' = 1 /\ src' = ByValue /\ caller_pc' = "flush"
           /\ UNCHANGED mem /\ UNCHANGED pos
  <2>1. InPutArea' = pos /\ InPutArea = pos
    BY <1>1, <1>4 DEF InPutArea
  <2>2. total' - rest' - InPutArea' = total - rest - InPutArea
    <3>1. total + 1 - 1 - pos = total - 0 - pos
      BY <1>2
    <3> QED
      BY <1>1, <1>2, <1>4, <2>1, <3>1
  <2>3. ASSUME NEW s \in [Nat -> Nat], Starts(s) PROVE Starts(s)'
    BY <1>1, <1>4, <2>2, <2>3, StartsStay
  <2>4. PutAreaBytes'
    <3> SUFFICES ASSUME NEW k \in 1..pos'
                 PROVE  mem'[base'.blk][k] = total' - rest' - pos' + k - 1
      BY DEF PutAreaBytes
    <3>1. k \in 1..pos /\ mem'[base'.blk][k] = mem[b0][k]
      BY <1>1, <1>4
    <3>2. mem[b0][k] = total - rest - pos + k - 1
      BY <1>1, <3>1 DEF Bytes, PutAreaBytes
    <3>3. total' - rest' - pos' + k - 1 = total - rest - pos + k - 1
      <4>1. total' = total + 1 /\ rest' = 1 /\ rest = 0 /\ pos' = pos
        BY <1>1, <1>2, <1>4
      <4> QED
        BY <1>2, <3>1, <4>1
    <3> QED
      BY <3>1, <3>2, <3>3
  <2>5. UserBytes'
    BY <1>4 DEF UserBytes
  <2> QED
    BY <2>3, <2>4, <2>5 DEF Bytes
<1>5. CASE /\ pos < BufferSize /\ UNCHANGED rest /\ UNCHANGED src
           /\ caller_pc' = "idle" /\ pos' = pos + 1
           /\ \A b \in Blocks : b # b0 => mem'[b] = mem[b]
           /\ \A i \in 1..BlockSize(b0) :
                mem'[b0][i] = IF i = base.off + pos + 1 THEN total ELSE mem[b0][i]
  <2>1. InPutArea' = pos + 1 /\ InPutArea = pos
    BY <1>1, <1>5 DEF InPutArea
  <2>2. total' - rest' - InPutArea' = total - rest - InPutArea
    <3>1. total + 1 - 0 - (pos + 1) = total - 0 - pos
      BY <1>2
    <3> QED
      BY <1>1, <1>2, <1>5, <2>1, <3>1
  <2>3. \A b \in BlocksOf(task_queue) \cup HandBlocks : mem'[b] = mem[b]
    BY <1>1, <1>5, TaskBlocks
  <2>4. ASSUME NEW s \in [Nat -> Nat], Starts(s) PROVE Starts(s)'
    BY <1>1, <2>2, <2>3, <2>4, StartsStay
  <2>5. PutAreaBytes'
    <3> SUFFICES ASSUME NEW k \in 1..pos'
                 PROVE  mem'[base'.blk][k] = total' - rest' - pos' + k - 1
      BY DEF PutAreaBytes
    <3>1. k \in 1..(pos + 1) /\ base' = base
      BY <1>1, <1>5
    <3>2. k \in 1..BlockSize(b0) /\ base.off + pos + 1 = pos + 1
      BY <1>2, <1>3, <1>5, <3>1
    <3>3. mem'[b0][k] = IF k = pos + 1 THEN total ELSE mem[b0][k]
      BY <1>5, <3>2
    <3>4. total' - rest' - pos' + k - 1 = total - pos + k - 1
      <4>1. total' = total + 1 /\ rest' = 0 /\ pos' = pos + 1
        BY <1>1, <1>2, <1>5
      <4> QED
        BY <1>2, <3>1, <4>1
    <3>5. CASE k = pos + 1
      <4>1. total - pos + k - 1 = total
        BY <1>2, <3>5
      <4> QED
        BY <3>1, <3>3, <3>4, <3>5, <4>1
    <3>6. CASE k # pos + 1
      <4>1. k \in 1..pos
        BY <1>2, <3>1, <3>6
      <4>2. mem[b0][k] = total - rest - pos + k - 1
        BY <1>1, <4>1 DEF Bytes, PutAreaBytes
      <4>3. total - rest - pos + k - 1 = total - pos + k - 1
        BY <1>2, <3>1
      <4> QED
        BY <3>1, <3>3, <3>4, <3>6, <4>2, <4>3
    <3> QED
      BY <3>5, <3>6
  <2>6. UserBytes'
    BY <1>2, <1>5 DEF UserBytes
  <2> QED
    BY <2>4, <2>5, <2>6 DEF Bytes
<1>6. pos < BufferSize => base.off + pos + 1 <= BlockSize(b0)
  BY <1>2, <1>3
<1> QED
  BY <1>4, <1>5, <1>6, SputcEffect DEF StreamInv

LEMMA PutRestBytes ==
  ASSUME StreamInv, Apart, Bytes, PutRest
  PROVE  Bytes'
<1> DEFINE b0 == base.blk
<1>1. /\ caller_pc = "rest" /\ pos = 0 /\ rest \in 1..(BufferSize - 1)
      /\ rest' = 0 /\ src' = 0
      /\ UNCHANGED <<base, task_queue, next_id, hand, processed, consumed, total>>
      /\ \/ caller_pc' = "undefined" /\ ~(base.off + rest <= BlockSize(b0))
         \/ /\ caller_pc' = "idle"
            /\ pos' = rest
            /\ \A b \in Blocks : b # b0 => mem'[b] = mem[b]
            /\ \A i \in 1..BlockSize(b0) :
                 mem'[b0][i] =
                   IF i - base.off \in 1..rest
                   THEN IF src = ByValue THEN total - 1
                                         ELSE mem[User][src + i - base.off]
                   ELSE mem[b0][i]
  BY PutRestEffect DEF StreamInv
<1>2. /\ BufferSize \in Nat /\ total \in Nat /\ src \in Int
      /\ src = ByValue => rest = 1
  BY Constants, ByValueFact DEF StreamInv, TypeOK, CallInv
<1>3. base.off = 0 /\ b0 # User /\ BlockSize(b0) = BufferSize /\ b0 \in Blocks
  BY InBounds DEF Apart, StreamInv
<1>4. base.off + rest <= BlockSize(b0)
  BY <1>1, <1>2, <1>3
<1>5. /\ caller_pc' = "idle" /\ pos' = rest
      /\ \A b \in Blocks : b # b0 => mem'[b] = mem[b]
      /\ \A i \in 1..BufferSize :
           mem'[b0][i] =
             IF i - base.off \in 1..rest
             THEN IF src = ByValue THEN total - 1
                                   ELSE mem[User][src + i - base.off]
             ELSE mem[b0][i]
  BY <1>1, <1>3, <1>4
<1>6. \A b \in BlocksOf(task_queue) \cup HandBlocks : mem'[b] = mem[b]
  BY <1>1, <1>5, TaskBlocks
<1>7. InPutArea' = rest /\ InPutArea = 0
  BY <1>1, <1>5 DEF InPutArea
<1>8. total' - rest' - InPutArea' = total - rest - InPutArea
  <2>1. total - 0 - rest = total - rest - 0
    BY <1>1, <1>2
  <2> QED
    BY <1>1, <1>7, <2>1
<1>9. ASSUME NEW s \in [Nat -> Nat], Starts(s) PROVE Starts(s)'
  BY <1>1, <1>6, <1>8, <1>9, StartsStay
<1>10. PutAreaBytes'
  <2> SUFFICES ASSUME NEW k \in 1..pos'
               PROVE  mem'[base'.blk][k] = total' - rest' - pos' + k - 1
    BY DEF PutAreaBytes
  <2>1. base' = base /\ k \in 1..rest
    BY <1>1, <1>5
  <2>2. k \in 1..BufferSize /\ k - base.off = k
    BY <1>1, <1>2, <1>3, <2>1
  <2>3. total' - rest' - pos' + k - 1 = total - rest + k - 1
    <3>1. total' = total /\ rest' = 0 /\ pos' = rest
      BY <1>1, <1>5
    <3> QED
      BY <1>1, <1>2, <2>1, <3>1
  <2>4. mem'[b0][k] = IF src = ByValue THEN total - 1
                                       ELSE mem[User][src + k - base.off]
    BY <1>5, <2>1, <2>2
  <2>5. src + k - base.off = src + k
    BY <2>2
  <2>6. CASE src = ByValue
    <3>1. rest = 1 /\ k = 1
      BY <1>2, <2>1, <2>6
    <3>2. total - rest + k - 1 = total - 1
      BY <1>2, <3>1
    <3> QED
      BY <2>1, <2>3, <2>4, <2>6, <3>2
  <2>7. CASE src # ByValue
    <3>1. mem[User][src + k] = total - rest + k - 1
      BY <2>1, <2>7 DEF Bytes, UserBytes
    <3> QED
      BY <2>1, <2>3, <2>4, <2>5, <2>7, <3>1
  <2> QED
    BY <2>6, <2>7
<1>11. UserBytes'
  BY <1>1 DEF UserBytes
<1> QED
  BY <1>9, <1>10, <1>11 DEF Bytes

LEMMA SyncBytes ==
  ASSUME StreamInv, Bytes, Sync
  PROVE  Bytes'
<1>1. /\ caller_pc = "idle" /\ caller_pc' = "flush" /\ rest = 0 /\ rest' = 0
      /\ UNCHANGED <<mem, base, pos, src, total>>
      /\ UNCHANGED <<task_queue, next_id, hand, processed, consumed>>
  BY DEF Sync, workerVars, StreamInv, CallInv
<1>2. total' - rest' - InPutArea' = total - rest - InPutArea
  BY <1>1 DEF InPutArea
<1>3. ASSUME NEW s \in [Nat -> Nat], Starts(s) PROVE Starts(s)'
  BY <1>1, <1>2, <1>3, StartsStay
<1>4. PutAreaBytes' /\ UserBytes'
  BY <1>1 DEF PutAreaBytes, UserBytes, Bytes
<1> QED
  BY <1>3, <1>4 DEF Bytes

LEMMA GetBufferBytes ==
  ASSUME StreamInv, Bytes, GetEmptyBuffer
  PROVE  Bytes'
<1>1. /\ caller_pc = "get_buffer" /\ pos' = 0
      /\ caller_pc' \in {"rest", "idle"}
      /\ UNCHANGED <<mem, rest, src, total>>
      /\ UNCHANGED <<task_queue, next_id, hand, processed, consumed>>
  BY DEF GetEmptyBuffer, workerVars
<1>2. total' - rest' - InPutArea' = total - rest - InPutArea
  BY <1>1 DEF InPutArea
<1>3. ASSUME NEW s \in [Nat -> Nat], Starts(s) PROVE Starts(s)'
  BY <1>1, <1>2, <1>3, StartsStay
<1>4. PutAreaBytes'
  BY <1>1 DEF PutAreaBytes
<1>5. UserBytes'
  BY <1>1 DEF UserBytes, Bytes
<1> QED
  BY <1>3, <1>4, <1>5 DEF Bytes

LEMMA FlushBytes ==
  ASSUME StreamInv, Apart, Bytes, Threads = 1, FlushEnqueue
  PROVE  Bytes'
<1>1. /\ caller_pc = "flush" /\ caller_pc' = "get_buffer" /\ pos > 0
      /\ next_id' = next_id + 1
      /\ Len(task_queue) \in Nat
      /\ Len(task_queue') = Len(task_queue) + 1
      /\ \A i \in 1..Len(task_queue) : task_queue'[i] = task_queue[i]
      /\ UNCHANGED <<mem, base, pos, hand, processed, consumed, rest, src, total>>
  BY FlushEffect DEF StreamInv
<1>2. PICK e \in Tasks :
        /\ task_queue'[Len(task_queue) + 1] = e
        /\ e.blk = base.blk /\ e.size = pos /\ e.id = next_id
  BY FlushEffect DEF StreamInv
<1>3. /\ next_id \in Nat /\ pos \in 0..BufferSize /\ total \in Nat /\ rest \in Nat
      /\ BufferSize \in Nat
  BY Constants DEF StreamInv, TypeOK
<1>4. InPutArea = pos /\ InPutArea' = 0
  BY <1>1 DEF InPutArea
<1>5. PutAreaBytes'
  BY <1>1 DEF PutAreaBytes
<1>6. UserBytes'
  BY <1>1 DEF UserBytes, Bytes
<1>7. PICK s \in [Nat -> Nat] : Starts(s)
  BY DEF Bytes
<1>8. PICK r \in [Nat -> Nat] :
        /\ r[next_id + 1] = s[next_id] + pos
        /\ \A i \in 0..next_id : r[i] = s[i]
        /\ s[next_id] \in Nat
  <2> DEFINE f == [s EXCEPT ![next_id + 1] = s[next_id] + pos]
  <2>1. /\ f \in [Nat -> Nat] /\ f[next_id + 1] = s[next_id] + pos
        /\ \A i \in 0..next_id : f[i] = s[i]
        /\ s[next_id] \in Nat
    BY <1>3, <1>7
  <2> HIDE DEF f
  <2> QED
    BY <2>1
<1>9. /\ s[0] = 0 /\ s[next_id] = total - rest - pos
      /\ \A i \in 0..(next_id - 1) : s[i] <= s[i + 1]
      /\ \A i \in DOMAIN consumed :
           consumed[i] = [k \in 1..(s[i + 1] - s[i]) |-> s[i] + k - 1]
      /\ \A i \in 1..Len(task_queue) : Fresh(task_queue[i], s)
      /\ \A w \in Workers : Has(w) /\ ~processed[w] => Fresh(hand[w], s)
  BY <1>4, <1>7 DEF Starts
<1>10. \A i \in 0..(next_id - 1) : i \in 0..next_id /\ i + 1 \in 0..next_id
  BY <1>3
<1>11. \A i \in 0..(next_id - 1) : r[i] = s[i] /\ r[i + 1] = s[i + 1]
  BY <1>8, <1>10
<1>12. r[0] = 0
  BY <1>3, <1>8, <1>9
<1>13. r[next_id'] = total' - rest' - InPutArea'
  <2>1. s[next_id] + pos = total - rest - 0
    BY <1>3, <1>8, <1>9
  <2> QED
    BY <1>1, <1>4, <1>8, <2>1
<1>14. \A i \in 0..(next_id' - 1) : r[i] <= r[i + 1]
  <2> SUFFICES ASSUME NEW i \in 0..next_id PROVE r[i] <= r[i + 1]
    <3>1. next_id' - 1 = next_id
      BY <1>1, <1>3
    <3> QED
      BY <3>1
  <2>1. CASE i = next_id
    BY <1>3, <1>8, <2>1
  <2>2. CASE i # next_id
    <3>1. i \in 0..(next_id - 1)
      BY <1>3, <2>2
    <3> QED
      BY <1>9, <1>11, <3>1
  <2> QED
    BY <2>1, <2>2
<1>15. ASSUME NEW t \in Tasks, t.id \in 0..(next_id - 1), Fresh(t, s)
       PROVE  Fresh(t, r)'
  <2>1. r[t.id] = s[t.id] /\ r[t.id + 1] = s[t.id + 1]
    BY <1>11, <1>15
  <2> QED
    BY <1>1, <1>15, <2>1 DEF Fresh
<1>16. \A i \in DOMAIN consumed' :
         consumed'[i] = [k \in 1..(r[i + 1] - r[i]) |-> r[i] + k - 1]
  <2> TAKE i \in DOMAIN consumed'
  <2>1. i \in DOMAIN consumed /\ consumed'[i] = consumed[i]
    BY <1>1
  <2>2. r[i] = s[i] /\ r[i + 1] = s[i + 1]
    BY <1>11, <2>1, TaskFacts
  <2> QED
    BY <1>9, <2>1, <2>2
<1>17. Fresh(e, r)'
  <2>1. e.id = next_id /\ e.size = pos /\ e.blk = base.blk
    BY <1>2
  <2>2. r[next_id] = s[next_id] /\ r[next_id + 1] - r[next_id] = pos
    BY <1>3, <1>8
  <2>3. ASSUME NEW k \in 1..pos PROVE mem'[base.blk][k] = s[next_id] + k - 1
    BY <1>1, <1>9, <2>3 DEF Bytes, PutAreaBytes
  <2>4. pos <= BufferSize
    BY <1>3
  <2> QED
    BY <2>1, <2>2, <2>3, <2>4 DEF Fresh
<1>18. \A i \in 1..Len(task_queue') : Fresh(task_queue[i], r)'
  <2> TAKE i \in 1..Len(task_queue')
  <2>1. CASE i \in 1..Len(task_queue)
    <3>1. PICK t \in Tasks : t.id \in 0..(next_id - 1) /\ Fresh(t, s) /\ task_queue'[i] = t
      <4>1. /\ task_queue[i] \in Tasks /\ task_queue[i].id \in 0..(next_id - 1)
            /\ Fresh(task_queue[i], s) /\ task_queue'[i] = task_queue[i]
        BY <1>1, <1>9, <2>1, TaskFacts
      <4> QED
        BY <4>1
    <3>2. Fresh(task_queue[i], r)' <=> Fresh(t, r)'
      BY <3>1 DEF Fresh
    <3> QED
      BY <1>15, <3>1, <3>2
  <2>2. CASE i = Len(task_queue) + 1
    <3>1. task_queue'[i] = e
      BY <1>2, <2>2
    <3> QED
      BY <1>17, <3>1 DEF Fresh
  <2>3. i \in 1..Len(task_queue) \/ i = Len(task_queue) + 1
    <3> DEFINE n == Len(task_queue)
               m == Len(task_queue')
    <3>1. n \in Nat /\ m = n + 1 /\ i \in 1..m
      BY <1>1
    <3> HIDE DEF n, m
    <3>2. i \in 1..n \/ i = n + 1
      BY <3>1
    <3> QED
      BY <3>2 DEF n
  <2> QED
    BY <2>1, <2>2, <2>3
<1>19. \A w \in Workers : Has(w)' /\ ~processed'[w] => Fresh(hand[w], r)'
  <2> SUFFICES ASSUME NEW w \in Workers, Has(w), ~processed[w]
               PROVE  Fresh(hand[w], r)'
    BY <1>1 DEF Has
  <2>1. PICK t \in Tasks : t.id \in 0..(next_id - 1) /\ Fresh(t, s) /\ hand'[w] = t
    <3>1. /\ hand[w] \in Tasks /\ hand[w].id \in 0..(next_id - 1)
          /\ Fresh(hand[w], s) /\ hand'[w] = hand[w]
      BY <1>1, <1>9, TaskFacts
    <3> QED
      BY <3>1
  <2>2. Fresh(t, r)'
    BY <1>15, <2>1
  <2>3. Fresh(hand[w], r)' <=> Fresh(t, r)'
    BY <2>1 DEF Fresh
  <2> QED
    BY <2>2, <2>3
<1>20. Starts(r)'
  BY <1>12, <1>13, <1>14, <1>16, <1>18, <1>19 DEF Starts
<1> QED
  BY <1>5, <1>6, <1>8, <1>20 DEF Bytes

(* The worker's steps change neither the memory nor the caller's state.    *)
LEMMA CallerBytesStay ==
  ASSUME Bytes, UNCHANGED <<mem, callerVars>>
  PROVE  PutAreaBytes' /\ UserBytes'
  BY DEF Bytes, PutAreaBytes, UserBytes, callerVars

LEMMA FreshStays ==
  ASSUME NEW t, NEW s, Fresh(t, s), UNCHANGED mem
  PROVE  Fresh(t, s)'
  BY DEF Fresh

LEMMA GetTaskBytes ==
  ASSUME StreamInv, Bytes, NEW w \in Workers, GetTask(w)
  PROVE  Bytes'
<1>1. /\ hand[w] = NoTask
      /\ Len(task_queue) \in Nat \ {0}
      /\ hand'[w] = task_queue[1]
      /\ \A v \in Workers : v # w => hand'[v] = hand[v]
      /\ Len(task_queue') = Len(task_queue) - 1
      /\ \A i \in 1..Len(task_queue') : task_queue'[i] = task_queue[i + 1]
      /\ UNCHANGED <<mem, next_id, processed, consumed>>
  BY GetTaskEffect DEF StreamInv
<1>2. UNCHANGED <<mem, callerVars>>
  BY DEF GetTask
<1>3. InPutArea' = InPutArea /\ total' = total /\ rest' = rest
  BY <1>2 DEF InPutArea, callerVars
<1>4. PICK s \in [Nat -> Nat] : Starts(s)
  BY DEF Bytes
<1>5. /\ s[0] = 0 /\ s[next_id] = total - rest - InPutArea
      /\ \A i \in 0..(next_id - 1) : s[i] <= s[i + 1]
      /\ \A i \in DOMAIN consumed :
           consumed[i] = [k \in 1..(s[i + 1] - s[i]) |-> s[i] + k - 1]
      /\ \A i \in 1..Len(task_queue) : Fresh(task_queue[i], s)
      /\ \A v \in Workers : Has(v) /\ ~processed[v] => Fresh(hand[v], s)
  BY <1>4 DEF Starts
<1>6. \A i \in 1..Len(task_queue') : Fresh(task_queue[i], s)'
  <2> TAKE i \in 1..Len(task_queue')
  <2>1. i + 1 \in 1..Len(task_queue)
    <3> DEFINE n == Len(task_queue)
               m == Len(task_queue')
    <3>1. n \in Nat /\ m = n - 1 /\ i \in 1..m
      BY <1>1
    <3> HIDE DEF n, m
    <3>2. i + 1 \in 1..n
      BY <3>1
    <3> QED
      BY <3>2 DEF n
  <2>2. PICK t : t = task_queue[i + 1]
    OBVIOUS
  <2>3. Fresh(t, s) /\ task_queue'[i] = t
    BY <1>1, <1>5, <2>1, <2>2
  <2>4. Fresh(t, s)'
    BY <1>1, <2>3, FreshStays
  <2>5. Fresh(task_queue[i], s)' <=> Fresh(t, s)'
    BY <2>3 DEF Fresh
  <2> QED
    BY <2>4, <2>5
<1>7. ASSUME NEW v \in Workers, Has(v)', ~processed'[v] PROVE Fresh(hand[v], s)'
  <2>1. PICK t : t = hand'[v]
    OBVIOUS
  <2>2. Fresh(t, s)
    <3>1. CASE v = w
      <4>1. 1 \in 1..Len(task_queue)
        BY <1>1
      <4> QED
        BY <1>1, <1>5, <2>1, <3>1, <4>1
    <3>2. CASE v # w
      BY <1>1, <1>5, <1>7, <2>1, <3>2 DEF Has
    <3> QED
      BY <3>1, <3>2
  <2>3. Fresh(t, s)'
    BY <1>1, <2>2, FreshStays
  <2>4. Fresh(hand[v], s)' <=> Fresh(t, s)'
    BY <2>1 DEF Fresh
  <2> QED
    BY <2>3, <2>4
<1>8. Starts(s)'
  BY <1>1, <1>3, <1>5, <1>6, <1>7 DEF Starts
<1> QED
  BY <1>2, <1>8, CallerBytesStay DEF Bytes

LEMMA ProcessBytes ==
  ASSUME StreamInv, Apart, Bytes, NEW w \in Workers, Process(w)
  PROVE  Bytes'
<1>1. /\ hand[w] # NoTask /\ ~processed[w]
      /\ consumed' = [id \in DOMAIN consumed \cup {hand[w].id} |->
                        IF id = hand[w].id THEN BytesAt(hand[w], hand[w].size)
                                           ELSE consumed[id]]
      /\ processed' = [processed EXCEPT ![w] = TRUE]
      /\ UNCHANGED <<mem, callerVars>>
      /\ UNCHANGED <<task_queue, hand>>
  BY DEF Process
<1>2. InPutArea' = InPutArea /\ total' = total /\ rest' = rest /\ next_id' = next_id
      /\ mem' = mem
  BY <1>1 DEF InPutArea, callerVars
<1>3. PICK s \in [Nat -> Nat] : Starts(s)
  BY DEF Bytes
<1>4. /\ s[0] = 0 /\ s[next_id] = total - rest - InPutArea
      /\ \A i \in 0..(next_id - 1) : s[i] <= s[i + 1]
      /\ \A i \in DOMAIN consumed :
           consumed[i] = [k \in 1..(s[i + 1] - s[i]) |-> s[i] + k - 1]
      /\ \A i \in 1..Len(task_queue) : Fresh(task_queue[i], s)
      /\ \A v \in Workers : Has(v) /\ ~processed[v] => Fresh(hand[v], s)
  BY <1>3 DEF Starts
<1>5. PICK t : t = hand[w]
  OBVIOUS
<1>6. /\ Fresh(t, s) /\ t \in Tasks /\ t.off = 0
      /\ t.blk \in HandBlocks /\ Has(w)
  BY <1>1, <1>4, <1>5, TaskFacts DEF Has, HandBlocks, Apart
<1>7. /\ t.blk \in Blocks /\ t.blk # User /\ t.size \in Nat /\ t.off = 0
      /\ t.size = s[t.id + 1] - s[t.id] /\ t.size <= BufferSize
      /\ \A k \in 1..t.size : mem[t.blk][k] = s[t.id] + k - 1
  BY <1>6, TaskBlocks DEF Fresh, Tasks
<1>8. DOMAIN mem[t.blk] = 1..BufferSize
  BY <1>7 DEF StreamInv, TypeOK, BlockSize
<1>9. BytesAt(t, t.size) = [k \in 1..(s[t.id + 1] - s[t.id]) |-> s[t.id] + k - 1]
  <2> DEFINE n == t.size
             m == mem[t.blk]
             o == t.off
             start == s[t.id]
  <2>1. BytesAt(t, n) = [i \in 1..n |-> IF o + i \in DOMAIN m THEN m[o + i] ELSE Unset]
    BY DEF BytesAt
  <2>2. /\ n \in Nat /\ o = 0 /\ n <= BufferSize /\ BufferSize \in Nat
        /\ DOMAIN m = 1..BufferSize
        /\ \A k \in 1..n : m[k] = start + k - 1
    BY <1>7, <1>8, Constants
  <2>3. n = s[t.id + 1] - s[t.id]
    BY <1>7
  <2> HIDE DEF n, m, o, start
  <2>4. ASSUME NEW i \in 1..n
        PROVE  (IF o + i \in DOMAIN m THEN m[o + i] ELSE Unset) = start + i - 1
    <3>1. o + i = i /\ i \in 1..BufferSize
      BY <2>2
    <3> QED
      BY <2>2, <3>1
  <2>5. BytesAt(t, n) = [i \in 1..n |-> start + i - 1]
    BY <2>1, <2>4
  <2>6. BytesAt(t, n) = [i \in 1..(s[t.id + 1] - s[t.id]) |-> start + i - 1]
    BY <2>3, <2>5
  <2> QED
    BY <2>6 DEF n, start
<1>10. \A i \in DOMAIN consumed' :
         consumed'[i] = [k \in 1..(s[i + 1] - s[i]) |-> s[i] + k - 1]
  <2> TAKE i \in DOMAIN consumed'
  <2>1. CASE i = t.id
    <3>1. consumed'[i] = BytesAt(t, t.size)
      BY <1>1, <1>5, <2>1
    <3> QED
      BY <1>9, <2>1, <3>1
  <2>2. CASE i # t.id
    <3>1. i \in DOMAIN consumed /\ consumed'[i] = consumed[i]
      BY <1>1, <1>5, <2>2
    <3> QED
      BY <1>4, <3>1
  <2> QED
    BY <2>1, <2>2
<1>11. \A i \in 1..Len(task_queue') : Fresh(task_queue[i], s)'
  BY <1>1, <1>2, <1>4 DEF Fresh
<1>12. ASSUME NEW v \in Workers, Has(v)', ~processed'[v] PROVE Fresh(hand[v], s)'
  <2>1. processed \in [Workers -> BOOLEAN]
    BY DEF StreamInv, TypeOK
  <2>2. v # w
    BY <1>1, <1>12, <2>1
  <2>3. Has(v) /\ ~processed[v]
    BY <1>1, <1>12, <2>1, <2>2 DEF Has
  <2>4. Fresh(hand[v], s)
    BY <1>4, <2>3
  <2> QED
    BY <1>1, <1>2, <2>4 DEF Fresh
<1>13. Starts(s)'
  BY <1>2, <1>4, <1>10, <1>11, <1>12 DEF Starts
<1> QED
  BY <1>1, <1>13, CallerBytesStay DEF Bytes

LEMMA GiveBackBytes ==
  ASSUME StreamInv, Bytes, NEW w \in Workers, GiveBackBuffer(w)
  PROVE  Bytes'
<1>1. /\ hand' = [hand EXCEPT ![w] = NoTask]
      /\ processed' = [processed EXCEPT ![w] = FALSE]
      /\ UNCHANGED <<mem, callerVars>>
      /\ UNCHANGED <<task_queue, consumed>>
  BY DEF GiveBackBuffer
<1>2. InPutArea' = InPutArea /\ total' = total /\ rest' = rest /\ next_id' = next_id
      /\ mem' = mem
  BY <1>1 DEF InPutArea, callerVars
<1>3. /\ processed \in [Workers -> BOOLEAN]
      /\ hand \in [Workers -> Tasks \cup {NoTask}]
  BY DEF StreamInv, TypeOK
<1>4. PICK s \in [Nat -> Nat] : Starts(s)
  BY DEF Bytes
<1>5. /\ s[0] = 0 /\ s[next_id] = total - rest - InPutArea
      /\ \A i \in 0..(next_id - 1) : s[i] <= s[i + 1]
      /\ \A i \in DOMAIN consumed :
           consumed[i] = [k \in 1..(s[i + 1] - s[i]) |-> s[i] + k - 1]
      /\ \A i \in 1..Len(task_queue) : Fresh(task_queue[i], s)
      /\ \A v \in Workers : Has(v) /\ ~processed[v] => Fresh(hand[v], s)
  BY <1>4 DEF Starts
<1>6. \A i \in 1..Len(task_queue') : Fresh(task_queue[i], s)'
  BY <1>1, <1>2, <1>5 DEF Fresh
<1>7. ASSUME NEW v \in Workers, Has(v)', ~processed'[v] PROVE Fresh(hand[v], s)'
  <2>1. v # w /\ hand'[v] = hand[v] /\ processed'[v] = processed[v]
    BY <1>1, <1>3, <1>7 DEF Has
  <2>2. Fresh(hand[v], s)
    BY <1>5, <1>7, <2>1 DEF Has
  <2> QED
    BY <1>2, <2>1, <2>2 DEF Fresh
<1>8. Starts(s)'
  BY <1>1, <1>2, <1>5, <1>6, <1>7 DEF Starts
<1> QED
  BY <1>1, <1>8, CallerBytesStay DEF Bytes

LEMMA StepBytes ==
  ASSUME StreamInv, ApartInv, BytesInv, Threads = 1, [Next]_vars
  PROVE  BytesInv'
<1>1. SUFFICES ASSUME ~lent' PROVE Bytes'
  BY DEF BytesInv
<1>2. ~lent
  BY <1>1 DEF Next, CallerStep, WorkerStep, Xsputn, Sputc, Sync, FlushEnqueue,
              GetEmptyBuffer, PutRest, EnqueueRest, GetTask, Process,
              GiveBackBuffer, callerVars, vars
<1>3. Apart /\ Bytes
  BY <1>2 DEF ApartInv, BytesInv
<1>4. CASE UNCHANGED vars
  <2>1. /\ UNCHANGED <<mem, callerVars>> /\ mem' = mem
        /\ UNCHANGED <<task_queue, next_id, hand, processed, consumed>>
        /\ total' - rest' - InPutArea' = total - rest - InPutArea
    BY <1>4 DEF vars, callerVars, InPutArea
  <2>2. ASSUME NEW s \in [Nat -> Nat], Starts(s) PROVE Starts(s)'
    BY <2>1, <2>2, StartsStay
  <2> QED
    BY <1>3, <2>1, <2>2, CallerBytesStay DEF Bytes
<1>5. CASE CallerStep
  <2>1. ~EnqueueRest
    BY <1>1, RestIsLent DEF StreamInv
  <2> QED
    BY <1>3, <1>5, <2>1, XsputnBytes, SputcBytes, SyncBytes, FlushBytes,
       GetBufferBytes, PutRestBytes DEF CallerStep
<1>6. ASSUME NEW w \in Workers, WorkerStep(w) PROVE Bytes'
  BY <1>3, <1>6, GetTaskBytes, ProcessBytes, GiveBackBytes DEF WorkerStep
<1> QED
  BY <1>4, <1>5, <1>6 DEF Next

LEMMA InitBytes ==
  ASSUME Init
  PROVE  BytesInv
<1>1. /\ pos = 0 /\ task_queue = <<>> /\ next_id = 0
      /\ hand = [w \in Workers |-> NoTask]
      /\ consumed = <<>> /\ caller_pc = "idle"
      /\ rest = 0 /\ src = 0 /\ total = 0
  BY DEF Init
<1>2. PutAreaBytes /\ UserBytes
  BY <1>1 DEF PutAreaBytes, UserBytes
<1>3. PICK s \in [Nat -> Nat] : \A i \in Nat : s[i] = 0
  <2> DEFINE f == [i \in Nat |-> 0]
  <2>1. f \in [Nat -> Nat] /\ \A i \in Nat : f[i] = 0
    OBVIOUS
  <2> HIDE DEF f
  <2> QED
    BY <2>1
<1>4. s[0] = 0 /\ s[next_id] = total - rest - InPutArea
  BY <1>1, <1>3 DEF InPutArea
<1>5. \A i \in 0..(next_id - 1) : s[i] <= s[i + 1]
  BY <1>1, <1>3
<1>6. DOMAIN consumed = {}
  <2>1. consumed \in Seq(Nat) /\ Len(consumed) = 0
    BY <1>1, EmptySeq
  <2>2. DOMAIN consumed = 1..0
    BY <2>1, LenProperties
  <2> QED
    BY <2>2
<1>7. 1..Len(task_queue) = {}
  <2>1. Len(task_queue) = 0
    BY <1>1, EmptySeq
  <2> QED
    BY <2>1
<1>8. \A w \in Workers : ~Has(w)
  BY <1>1 DEF Has
<1>9. Starts(s)
  BY <1>4, <1>5, <1>6, <1>7, <1>8 DEF Starts
<1> QED
  BY <1>2, <1>9 DEF BytesInv, Bytes

(* With one worker and no task in the user's array, a task's bytes are the *)
(* stream's until they are read, and no byte is dropped, counted twice or  *)
(* out of order on the way through the put area.                           *)
THEOREM BytesInvariance ==
  ASSUME Threads = 1
  PROVE  Spec => [](StreamInv /\ ApartInv /\ BytesInv)
<1>1. Init => StreamInv /\ ApartInv /\ BytesInv
  BY InitTyped, InitApart, InitBytes
<1>2. StreamInv /\ ApartInv /\ BytesInv /\ [Next]_vars
        => StreamInv' /\ ApartInv' /\ BytesInv'
  BY StepTyped, StepApart, StepBytes
<1> QED
  BY <1>1, <1>2, PTL DEF Spec
-----------------------------------------------------------------------------
(* Counting bytes, for any number of workers.                              *)
BytesOf(S) == UNION {{t} \X (1..t.size) : t \in S}

LEMMA CountOne ==
  ASSUME NEW x, NEW n \in Nat
  PROVE  IsFiniteSet({x} \X (1..n)) /\ Cardinality({x} \X (1..n)) = n
<1>1. IsFiniteSet({x}) /\ Cardinality({x}) = 1
  BY FS_Singleton
<1>2. IsFiniteSet(1..n) /\ Cardinality(1..n) = n
  BY FS_Interval
<1> DEFINE S == {x}
           T == 1..n
<1>3. IsFiniteSet(S) /\ Cardinality(S) = 1 /\ IsFiniteSet(T) /\ Cardinality(T) = n
  BY <1>1, <1>2
<1> HIDE DEF S, T
<1>4. /\ IsFiniteSet(S \X T)
      /\ Cardinality(S \X T) = Cardinality(S) * Cardinality(T)
  BY <1>3, FS_Product
<1>5. Cardinality(S \X T) = n
  BY <1>3, <1>4
<1> QED
  BY <1>4, <1>5 DEF S, T

LEMMA CountBoth ==
  ASSUME NEW S, NEW T, IsFiniteSet(S), IsFiniteSet(T), S \cap T = {}
  PROVE  /\ IsFiniteSet(S \cup T)
         /\ Cardinality(S) \in Nat /\ Cardinality(T) \in Nat
         /\ Cardinality(S \cup T) = Cardinality(S) + Cardinality(T)
<1>1. Cardinality(S) \in Nat /\ Cardinality(T) \in Nat
  BY FS_CardinalityType
<1>2. /\ IsFiniteSet(S \cup T)
      /\ Cardinality(S \cup T) = Cardinality(S) + Cardinality(T) - Cardinality(S \cap T)
  BY FS_Union
<1>3. Cardinality(S \cap T) = 0
  BY FS_EmptySet
<1> QED
  BY <1>1, <1>2, <1>3

LEMMA InPiece ==
  ASSUME NEW len \in Nat, NEW o \in Nat, NEW u \in Nat, NEW s \in Nat, NEW k \in 1..s,
         NEW v, v = o + u, NEW y, y = v - o + k, u + s <= len
  PROVE  /\ y = u + k /\ y \in 1..len
         /\ u <= y - 1 /\ y - 1 < u + s /\ y - 1 \in 0..(len - 1)
OBVIOUS

LEMMA IntervalSize ==
  ASSUME NEW n \in Nat
  PROVE  IsFiniteSet(1..n) /\ Cardinality(1..n) = n
BY FS_Interval

(* The tasks cut from a buffer of len bytes have len bytes.                *)
LEMMA CountPieces ==
  ASSUME NEW len \in Nat \ {0}, NEW threads \in Nat \ {0}, threads <= len,
         NEW o \in Nat, NEW new \in Seq(Tasks),
         Len(new) = NumChunks(len, threads),
         \A i \in 1..Len(new) : /\ new[i].off = o + Pieces(len, threads)[i].off
                                /\ new[i].size = Pieces(len, threads)[i].size
  PROVE  /\ IsFiniteSet(BytesOf(ToSet(new)))
         /\ Cardinality(BytesOf(ToSet(new))) = len
<1> DEFINE p == Pieces(len, threads)
           n == NumChunks(len, threads)
           B == BytesOf(ToSet(new))
           In(b, i) == p[i].off <= b /\ b < p[i].off + p[i].size
<1>1. n \in Nat \ {0} /\ p \in [1..n -> [off : Nat, size : Nat \ {0}]]
  BY PiecesTile
<1>2. /\ \A i \in 1..n : p[i].off + p[i].size <= len
      /\ \A b \in 0..(len - 1) : \E i \in 1..n : In(b, i)
      /\ \A b \in 0..(len - 1) : \A i, j \in 1..n : In(b, i) /\ In(b, j) => i = j
  BY PiecesPartition
<1>3. \A i \in 1..n : new[i].off = o + p[i].off /\ new[i].size = p[i].size
  OBVIOUS
<1>4. Len(new) = n
  OBVIOUS
<1> HIDE DEF p, n
<1>5. \A i \in 1..n : p[i].off \in Nat /\ p[i].size \in Nat
  BY <1>1
<1>6. ToSet(new) = {new[i] : i \in 1..n}
  BY <1>4, LenProperties DEF ToSet
<1>7. \A x : x \in B <=> \E i \in 1..n : \E k \in 1..p[i].size : x = <<new[i], k>>
  BY <1>3, <1>6 DEF BytesOf
<1> HIDE DEF B
<1> DEFINE f == [x \in B |-> x[1].off - o + x[2]]
<1>8. ASSUME NEW x \in B, NEW i \in 1..n, NEW k \in 1..p[i].size, x = <<new[i], k>>
      PROVE  /\ f[x] = p[i].off + k /\ f[x] \in 1..len
             /\ In(f[x] - 1, i) /\ f[x] - 1 \in 0..(len - 1)
  <2>1. f[x] = new[i].off - o + k
    BY <1>8
  <2>2. k \in Nat /\ 1 <= k /\ k <= p[i].size /\ p[i].off \in Nat /\ p[i].size \in Nat
        /\ p[i].off + p[i].size <= len /\ new[i].off = o + p[i].off
    BY <1>2, <1>3, <1>5
  <2> HIDE DEF f
  <2> DEFINE u == p[i].off
             s == p[i].size
             v == new[i].off
             y == f[x]
  <2>3. /\ k \in Nat /\ 1 <= k /\ k <= s /\ u \in Nat /\ s \in Nat /\ u + s <= len
        /\ v = o + u /\ y = v - o + k
    BY <2>1, <2>2
  <2> HIDE DEF u, s, v, y
  <2>4. /\ y = u + k /\ y \in 1..len
        /\ u <= y - 1 /\ y - 1 < u + s /\ y - 1 \in 0..(len - 1)
    <3>1. k \in 1..s
      BY <2>3
    <3> QED
      BY <2>3, <3>1, InPiece
  <2> QED
    BY <2>4 DEF u, s, v, y
<1>9. f \in [B -> 1..len]
  <2>1. ASSUME NEW x \in B PROVE x[1].off - o + x[2] \in 1..len
    <3>1. PICK i \in 1..n : \E k \in 1..p[i].size : x = <<new[i], k>>
      BY <1>7
    <3>2. PICK k \in 1..p[i].size : x = <<new[i], k>>
      BY <3>1
    <3>3. f[x] \in 1..len /\ f[x] = x[1].off - o + x[2]
      BY <1>8, <3>2
    <3> QED
      BY <3>3
  <2> QED
    BY <2>1
<1> HIDE DEF f
<1>10. ASSUME NEW x \in B, NEW y \in B, f[x] = f[y] PROVE x = y
  <2>1. PICK i \in 1..n : \E k \in 1..p[i].size : x = <<new[i], k>>
    BY <1>7
  <2>2. PICK k \in 1..p[i].size : x = <<new[i], k>>
    BY <2>1
  <2>3. PICK j \in 1..n : \E l \in 1..p[j].size : y = <<new[j], l>>
    BY <1>7
  <2>4. PICK l \in 1..p[j].size : y = <<new[j], l>>
    BY <2>3
  <2>5. f[x] = p[i].off + k /\ In(f[x] - 1, i) /\ f[x] - 1 \in 0..(len - 1)
    BY <1>8, <2>2
  <2>6. f[y] = p[j].off + l /\ In(f[y] - 1, j)
    BY <1>8, <2>4
  <2>7. p[i].off + k = p[j].off + l
    BY <1>10, <2>5, <2>6
  <2>8. k \in Nat /\ l \in Nat /\ p[i].off \in Nat /\ p[j].off \in Nat
    BY <1>5
  <2>10. i = j
    <3> HIDE DEF In
    <3> QED
      BY <1>2, <1>10, <2>5, <2>6
  <2>11. k = l
    BY <2>7, <2>8, <2>10
  <2> QED
    BY <2>2, <2>4, <2>10, <2>11
<1>11. ASSUME NEW b \in 1..len PROVE \E x \in B : f[x] = b
  <2>1. b - 1 \in 0..(len - 1)
    OBVIOUS
  <2>2. PICK i \in 1..n : In(b - 1, i)
    BY <1>2, <2>1
  <2> DEFINE k == b - p[i].off
  <2>3. k \in 1..p[i].size
    BY <1>5, <2>2
  <2>4. p[i].off + k = b
    BY <1>5
  <2> HIDE DEF k
  <2>5. PICK x : x = <<new[i], k>>
    OBVIOUS
  <2>6. x \in B
    BY <1>7, <2>3, <2>5
  <2>7. f[x] = p[i].off + k
    BY <1>8, <2>3, <2>5, <2>6
  <2> QED
    BY <2>4, <2>6, <2>7
<1>12. f \in Bijection(B, 1..len)
  BY <1>9, <1>10, <1>11, Fun_IsBij
<1>13. ExistsBijection(1..len, B)
  BY <1>12, Fun_ExistsBijSymmetric DEF ExistsBijection
<1>14. IsFiniteSet(1..len) /\ Cardinality(1..len) = len
  BY IntervalSize
<1> QED
  BY <1>13, <1>14, FS_Bijection DEF B

(* The ids of the tasks still to be read were given out.                   *)
LEMMA UnreadTasks ==
  ASSUME TypeOK, IdsInv, NEW t \in Unread
  PROVE  t \in Tasks /\ t.id \in Nat /\ t.size \in Nat /\ t.id < next_id
<1>1. /\ task_queue \in Seq(Tasks) /\ Len(task_queue) \in Nat /\ next_id \in Nat
      /\ DOMAIN task_queue = 1..Len(task_queue)
      /\ hand \in [Workers -> Tasks \cup {NoTask}]
  BY LenProperties DEF TypeOK
<1>2. t \in Tasks /\ t.id < next_id
  <2>1. CASE t \in Queued
    <3>1. PICK i \in 1..Len(task_queue) : t = task_queue[i]
      BY <1>1, <2>1 DEF Queued, ToSet
    <3>2. t \in Tasks /\ t.id = FirstQueued + i - 1
      BY <1>1, <3>1, ElementOfSeq DEF IdsInv
    <3> DEFINE e == t.id
    <3>3. e = next_id - Len(task_queue) + i - 1
      BY <3>2 DEF FirstQueued
    <3> HIDE DEF e
    <3>4. e < next_id
      BY <1>1, <3>3
    <3> QED
      BY <3>2, <3>4 DEF e
  <2>2. CASE \E w \in Workers : hand[w] # NoTask /\ t = hand[w]
    <3>1. PICK w \in Workers : hand[w] # NoTask /\ t = hand[w]
      BY <2>2
    <3>2. t \in Tasks /\ t.id < FirstQueued
      BY <1>1, <3>1 DEF IdsInv, Has
    <3>3. t.id \in Nat
      BY <3>2 DEF Tasks
    <3> DEFINE e == t.id
    <3>4. e \in Nat /\ e < next_id - Len(task_queue)
      BY <3>2, <3>3 DEF FirstQueued
    <3> HIDE DEF e
    <3>5. e < next_id
      BY <1>1, <3>4
    <3> QED
      BY <3>2, <3>5 DEF e
  <2> QED
    BY <2>1, <2>2 DEF Unread
<1> QED
  BY <1>2 DEF Tasks

LEMMA UnreadStays ==
  ASSUME UNCHANGED <<task_queue, hand, processed, consumed>>
  PROVE  TaskBytes' = TaskBytes /\ ReadBytes' = ReadBytes
  BY DEF TaskBytes, ReadBytes, Unread, Queued

(* enqueue_task(buf, len) makes tasks of len bytes.                        *)
LEMMA EnqueueCounts ==
  ASSUME TypeOK, IdsInv, NEW buf \in Pointers, NEW len \in Nat, NEW next,
         EnqueueTask(buf, len, next), UNCHANGED <<hand, processed, consumed>>,
         IsFiniteSet(TaskBytes)
  PROVE  \/ caller_pc' = "spinning" /\ len < Threads /\ TaskBytes' = TaskBytes
         \/ /\ caller_pc' = next
            /\ IsFiniteSet(TaskBytes')
            /\ Cardinality(TaskBytes') = Cardinality(TaskBytes) + len
<1>1. CASE len < Threads
  BY <1>1, UnreadStays DEF EnqueueTask
<1>2. CASE ~(len < Threads)
  <2> DEFINE p == Pieces(len, Threads)
             n == NumChunks(len, Threads)
             new == [i \in 1..Len(p) |-> [blk  |-> buf.blk, off |-> buf.off + p[i].off,
                                          size |-> p[i].size, id |-> next_id + i - 1]]
  <2>1. len \in Nat \ {0} /\ Threads \in Nat \ {0} /\ Threads <= len
    BY <1>2, Constants
  <2>2. n \in Nat \ {0} /\ p \in [1..n -> [off : Nat, size : Nat \ {0}]]
    BY <2>1, PiecesTile
  <2>3. caller_pc' = next /\ task_queue' = task_queue \o new
    BY <1>2 DEF EnqueueTask
  <2> HIDE DEF p, n
  <2>4. Len(p) = n
    BY <2>2, FunctionIsSeq
  <2>5. buf.blk \in Blocks /\ buf.off \in Nat /\ next_id \in Nat
    BY DEF Pointers, TypeOK
  <2>6. new \in [1..n -> Tasks]
    BY <2>2, <2>4, <2>5 DEF Tasks
  <2>7. new \in Seq(Tasks) /\ Len(new) = n
    BY <2>2, <2>6, FunctionIsSeq
  <2>8. \A i \in 1..n : /\ new[i].id = next_id + i - 1
                        /\ new[i].off = buf.off + p[i].off
                        /\ new[i].size = p[i].size
    BY <2>4
  <2> HIDE DEF new
  <2> DEFINE N == ToSet(new)
  <2>9. IsFiniteSet(BytesOf(N)) /\ Cardinality(BytesOf(N)) = len
    <3>1. Len(new) = NumChunks(len, Threads)
      BY <2>7 DEF n
    <3>2. \A i \in 1..Len(new) : /\ new[i].off = buf.off + Pieces(len, Threads)[i].off
                                  /\ new[i].size = Pieces(len, Threads)[i].size
      BY <2>7, <2>8 DEF p
    <3> QED
      BY <2>1, <2>5, <2>7, <3>1, <3>2, CountPieces
  <2>10. Unread' = Unread \cup N
    <3>1. task_queue \in Seq(Tasks)
      BY DEF TypeOK
    <3>2. ToSet(task_queue') = ToSet(task_queue) \cup N
      <4> DEFINE q == task_queue
                 r == task_queue'
      <4>1. /\ r \in Seq(Tasks) /\ Len(r) = Len(q) + Len(new)
            /\ \A i \in 1..Len(r) : r[i] = IF i <= Len(q) THEN q[i] ELSE new[i - Len(q)]
        <5>1. q \in Seq(Tasks) /\ r = q \o new
          BY <2>3, <3>1
        <5> HIDE DEF q, r
        <5> QED
          BY <2>7, <5>1, ConcatProperties
      <4>2. Len(q) \in Nat /\ Len(new) \in Nat /\ DOMAIN q = 1..Len(q)
            /\ DOMAIN r = 1..Len(r) /\ DOMAIN new = 1..Len(new)
        BY <2>7, <3>1, <4>1, LenProperties
      <4> HIDE DEF q, r
      <4>3. \A x \in ToSet(r) : x \in ToSet(q) \cup N
        <5> SUFFICES ASSUME NEW i \in 1..Len(r) PROVE r[i] \in ToSet(q) \cup N
          BY <4>2 DEF ToSet
        <5>1. CASE i <= Len(q)
          BY <4>1, <4>2, <5>1 DEF ToSet
        <5>2. CASE ~(i <= Len(q))
          <6>1. i - Len(q) \in 1..Len(new) /\ r[i] = new[i - Len(q)]
            BY <4>1, <4>2, <5>2
          <6> QED
            BY <4>2, <6>1 DEF ToSet
        <5> QED
          BY <5>1, <5>2
      <4>4. \A x \in ToSet(q) : x \in ToSet(r)
        <5> SUFFICES ASSUME NEW i \in 1..Len(q) PROVE q[i] \in ToSet(r)
          BY <4>2 DEF ToSet
        <5>1. i \in 1..Len(r) /\ r[i] = q[i]
          BY <4>1, <4>2
        <5> QED
          BY <4>2, <5>1 DEF ToSet
      <4>5. \A x \in N : x \in ToSet(r)
        <5> SUFFICES ASSUME NEW i \in 1..Len(new) PROVE new[i] \in ToSet(r)
          BY <4>2 DEF ToSet
        <5>1. Len(q) + i \in 1..Len(r) /\ ~(Len(q) + i <= Len(q)) /\ Len(q) + i - Len(q) = i
          BY <4>1, <4>2
        <5>2. r[Len(q) + i] = new[i]
          BY <4>1, <5>1
        <5> QED
          BY <4>2, <5>1, <5>2 DEF ToSet
      <4> QED
        BY <4>3, <4>4, <4>5 DEF q, r
    <3> HIDE DEF N
    <3> QED
      BY <3>2 DEF Unread, Queued
  <2>11. TaskBytes' = TaskBytes \cup BytesOf(N)
    <3> HIDE DEF N
    <3> QED
      BY <2>10 DEF TaskBytes, BytesOf
  <2>12. TaskBytes \cap BytesOf(N) = {}
    <3> SUFFICES ASSUME NEW t \in Unread, t \in N PROVE FALSE
      BY DEF TaskBytes, BytesOf
    <3>1. t.id \in Nat /\ t.id < next_id
      BY UnreadTasks
    <3>2. PICK i \in 1..n : t = new[i]
      BY <2>7, LenProperties DEF ToSet
    <3>3. t.id = next_id + i - 1
      BY <2>8, <3>2
    <3> DEFINE e == t.id
    <3>4. e \in Nat /\ e < next_id /\ e = next_id + i - 1 /\ i \in Nat /\ i >= 1
      BY <2>2, <3>1, <3>3
    <3> HIDE DEF e
    <3> QED
      BY <2>5, <3>4
  <2> HIDE DEF N
  <2>13. /\ IsFiniteSet(TaskBytes')
         /\ Cardinality(TaskBytes') = Cardinality(TaskBytes) + len
    BY <2>9, <2>11, <2>12, CountBoth
  <2> QED
    BY <2>3, <2>13
<1> QED
  BY <1>1, <1>2

(* A task in a worker's hand is as unread as it was in the queue.          *)
LEMMA GetTaskCounts ==
  ASSUME TypeOK, IdsInv, NEW w \in Workers, GetTask(w)
  PROVE  Unread' = Unread /\ consumed' = consumed
<1> DEFINE q == task_queue
           r == task_queue'
           h == hand'
           Held(v) == hand[v] # NoTask /\ ~processed[v]
<1>1. /\ hand[w] = NoTask /\ ~processed[w]
      /\ Len(q) \in Nat \ {0} /\ q[1] # NoTask
      /\ h[w] = q[1]
      /\ \A v \in Workers : v # w => h[v] = hand[v]
      /\ r \in Seq(Tasks) /\ Len(r) = Len(q) - 1
      /\ \A i \in 1..Len(r) : r[i] = q[i + 1]
      /\ processed' = processed /\ consumed' = consumed
  BY GetTaskEffect
<1>2. DOMAIN q = 1..Len(q) /\ DOMAIN r = 1..Len(r)
  BY <1>1, LenProperties DEF TypeOK
<1>3. \A t : t \in Unread <=> \/ \E i \in 1..Len(q) : t = q[i]
                              \/ \E v \in Workers : hand[v] # NoTask /\ ~processed[v] /\ t = hand[v]
  BY <1>2 DEF Unread, Queued, ToSet
<1>4. \A t : t \in Unread' <=> \/ \E i \in 1..Len(r) : t = r[i]
                               \/ \E v \in Workers : h[v] # NoTask /\ ~processed[v] /\ t = h[v]
  BY <1>1, <1>2 DEF Unread, Queued, ToSet
<1> HIDE DEF q, r, h
<1>5. ASSUME NEW t \in Unread PROVE t \in Unread'
  <2>1. CASE \E i \in 1..Len(q) : t = q[i]
    <3>1. PICK i \in 1..Len(q) : t = q[i]
      BY <2>1
    <3>2. CASE i = 1
      BY <1>1, <1>4, <3>1, <3>2
    <3>3. CASE i # 1
      <4>1. i - 1 \in 1..Len(r) /\ i - 1 + 1 = i
        BY <1>1, <3>3
      <4>2. r[i - 1] = q[i]
        BY <1>1, <4>1
      <4> QED
        BY <1>4, <3>1, <4>1, <4>2
    <3> QED
      BY <3>2, <3>3
  <2>2. CASE \E v \in Workers : hand[v] # NoTask /\ ~processed[v] /\ t = hand[v]
    BY <1>1, <1>4, <2>2
  <2> QED
    BY <1>3, <2>1, <2>2
<1>6. ASSUME NEW t \in Unread' PROVE t \in Unread
  <2>1. CASE \E i \in 1..Len(r) : t = r[i]
    <3>1. PICK i \in 1..Len(r) : t = r[i]
      BY <2>1
    <3>2. i + 1 \in 1..Len(q) /\ t = q[i + 1]
      BY <1>1, <3>1
    <3> QED
      BY <1>3, <3>2
  <2>2. CASE \E v \in Workers : h[v] # NoTask /\ ~processed[v] /\ t = h[v]
    <3>1. PICK v \in Workers : h[v] # NoTask /\ ~processed[v] /\ t = h[v]
      BY <2>2
    <3>2. CASE v = w
      <4>1. 1 \in 1..Len(q) /\ t = q[1]
        BY <1>1, <3>1, <3>2
      <4> QED
        BY <1>3, <4>1
    <3>3. CASE v # w
      BY <1>1, <1>3, <3>1, <3>3
    <3> QED
      BY <3>2, <3>3
  <2> QED
    BY <1>4, <2>1, <2>2
<1> QED
  BY <1>1, <1>5, <1>6

(* The bytes of a task pass to what was read when the task is processed.   *)
LEMMA ProcessCounts ==
  ASSUME TypeOK, IdsInv, NEW w \in Workers, Process(w),
         IsFiniteSet(TaskBytes), IsFiniteSet(ReadBytes)
  PROVE  /\ IsFiniteSet(TaskBytes') /\ IsFiniteSet(ReadBytes')
         /\ Cardinality(TaskBytes') + Cardinality(ReadBytes')
              = Cardinality(TaskBytes) + Cardinality(ReadBytes)
<1> DEFINE t == hand[w]
           c == consumed'
           B == {t} \X (1..t.size)
           R == {t.id} \X (1..t.size)
<1>1. /\ hand[w] # NoTask /\ ~processed[w]
      /\ c = [id \in DOMAIN consumed \cup {t.id} |->
                IF id = t.id THEN BytesAt(t, t.size) ELSE consumed[id]]
      /\ processed' = [processed EXCEPT ![w] = TRUE]
      /\ task_queue' = task_queue /\ hand' = hand
  BY DEF Process
<1>2. t \in Tasks /\ t.id \in Nat /\ t.size \in Nat /\ processed \in [Workers -> BOOLEAN]
  BY <1>1 DEF TypeOK, Tasks
<1>3. /\ t.id \notin DOMAIN consumed /\ t.id < FirstQueued
      /\ \A v \in Workers : hand[v] # NoTask /\ hand[v].id = t.id => v = w
  BY <1>1 DEF IdsInv, Has
<1>4. t \notin Queued
  <2> SUFFICES ASSUME t \in Queued PROVE FALSE
    OBVIOUS
  <2>1. DOMAIN task_queue = 1..Len(task_queue) /\ FirstQueued \in Nat
    BY LenProperties DEF TypeOK, IdsInv
  <2>2. PICK i \in 1..Len(task_queue) : t = task_queue[i]
    BY <2>1 DEF Queued, ToSet
  <2>3. t.id = FirstQueued + i - 1
    BY <2>2 DEF IdsInv
  <2> DEFINE e == t.id
  <2>4. e \in Nat /\ e < FirstQueued /\ e = FirstQueued + i - 1
    BY <1>2, <1>3, <2>3
  <2> HIDE DEF e
  <2> QED
    BY <2>1, <2>4
<1>5. /\ processed'[w]
      /\ \A v \in Workers : v # w => processed'[v] = processed[v]
  BY <1>1, <1>2
<1>6. t \in Unread /\ Unread' = Unread \ {t}
  <2>1. t \in Unread
    BY <1>1 DEF Unread
  <2>2. Queued' = Queued
    BY <1>1 DEF Queued
  <2>3. \A x : x \in Unread' <=> x \in Queued
                 \/ \E v \in Workers : hand[v] # NoTask /\ ~processed'[v] /\ x = hand[v]
    BY <1>1, <2>2 DEF Unread
  <2>4. \A x : x \in Unread <=> x \in Queued
                 \/ \E v \in Workers : hand[v] # NoTask /\ ~processed[v] /\ x = hand[v]
    BY DEF Unread
  <2>5. t \notin Unread'
    <3> SUFFICES ASSUME NEW v \in Workers, hand[v] # NoTask, ~processed'[v], t = hand[v]
                 PROVE  FALSE
      BY <1>4, <2>3
    <3>1. v = w
      BY <1>3
    <3> QED
      BY <1>5, <3>1
  <2>6. ASSUME NEW x, x # t PROVE x \in Unread' <=> x \in Unread
    <3>1. \A v \in Workers : x = hand[v] => processed'[v] = processed[v]
      BY <1>5, <2>6
    <3> HIDE DEF t
    <3> QED
      BY <2>3, <2>4, <3>1
  <2> HIDE DEF t
  <2> QED
    BY <2>1, <2>5, <2>6
<1>7. DOMAIN c = DOMAIN consumed \cup {t.id}
      /\ DOMAIN c[t.id] = 1..t.size
      /\ \A id \in DOMAIN consumed : c[id] = consumed[id]
  BY <1>1, <1>3 DEF BytesAt
<1>8. IsFiniteSet(B) /\ Cardinality(B) = t.size
      /\ IsFiniteSet(R) /\ Cardinality(R) = t.size
  <2> HIDE DEF t
  <2> QED
    BY <1>2, CountOne
<1>9. TaskBytes = TaskBytes' \cup B /\ TaskBytes' \cap B = {}
  <2>1. TaskBytes' = BytesOf(Unread \ {t}) /\ TaskBytes = BytesOf(Unread)
    BY <1>6 DEF TaskBytes, BytesOf
  <2>2. B = BytesOf({t})
    BY DEF BytesOf
  <2> HIDE DEF t, B
  <2>3. BytesOf(Unread) = BytesOf(Unread \ {t}) \cup BytesOf({t})
    BY <1>6 DEF BytesOf
  <2>4. BytesOf(Unread \ {t}) \cap BytesOf({t}) = {}
    BY DEF BytesOf
  <2> QED
    BY <2>1, <2>2, <2>3, <2>4
<1>10. ReadBytes' = ReadBytes \cup R /\ ReadBytes \cap R = {}
  <2>1. ReadBytes' = UNION {{id} \X DOMAIN c[id] : id \in DOMAIN c}
    BY DEF ReadBytes
  <2>2. ReadBytes = UNION {{id} \X DOMAIN c[id] : id \in DOMAIN consumed}
    <3>1. \A id \in DOMAIN consumed : {id} \X DOMAIN c[id] = {id} \X DOMAIN consumed[id]
      BY <1>7
    <3> HIDE DEF c
    <3> QED
      BY <3>1 DEF ReadBytes
  <2>3. R = {t.id} \X DOMAIN c[t.id]
    BY <1>7
  <2> HIDE DEF t, c, R
  <2>4. (UNION {{id} \X DOMAIN c[id] : id \in DOMAIN c})
          = (UNION {{id} \X DOMAIN c[id] : id \in DOMAIN consumed}) \cup R
    <3> DEFINE D == DOMAIN c
               E == DOMAIN consumed
               e == t.id
               G(id) == {id} \X DOMAIN c[id]
    <3>1. D = E \cup {e} /\ R = G(e)
      BY <1>7, <2>3
    <3> HIDE DEF D, E, e, G
    <3>2. (UNION {G(id) : id \in D}) = (UNION {G(id) : id \in E}) \cup R
      BY <3>1
    <3> QED
      BY <3>2 DEF D, E, G
  <2>5. (UNION {{id} \X DOMAIN c[id] : id \in DOMAIN consumed}) \cap R = {}
    BY <1>3, <2>3
  <2> QED
    BY <2>1, <2>2, <2>4, <2>5
<1>11. IsFiniteSet(TaskBytes')
  BY <1>9, FS_Subset
<1> DEFINE T1 == TaskBytes'
           R1 == ReadBytes'
<1>12. IsFiniteSet(T1)
  BY <1>11
<1> HIDE DEF t, B, R, T1, R1
<1>13. /\ Cardinality(TaskBytes) = Cardinality(T1) + Cardinality(B)
       /\ Cardinality(T1) \in Nat
  <2>1. TaskBytes = T1 \cup B /\ T1 \cap B = {}
    BY <1>9 DEF T1
  <2> QED
    BY <1>8, <1>12, <2>1, CountBoth
<1>14. /\ IsFiniteSet(R1)
       /\ Cardinality(R1) = Cardinality(ReadBytes) + Cardinality(R)
       /\ Cardinality(ReadBytes) \in Nat
  <2>1. R1 = ReadBytes \cup R /\ ReadBytes \cap R = {}
    BY <1>10 DEF R1
  <2> QED
    BY <1>8, <2>1, CountBoth
<1>15. Cardinality(T1) + Cardinality(R1) = Cardinality(TaskBytes) + Cardinality(ReadBytes)
  <2> DEFINE a == Cardinality(T1)
             b == Cardinality(R1)
             d == Cardinality(TaskBytes)
             e == Cardinality(ReadBytes)
             n == t.size
  <2>1. a \in Nat /\ e \in Nat /\ n \in Nat /\ d = a + n /\ b = e + n
    BY <1>2, <1>8, <1>13, <1>14 DEF t
  <2> HIDE DEF a, b, d, e, n
  <2>2. a + b = d + e
    BY <2>1
  <2> QED
    BY <2>2 DEF a, b, d, e
<1> QED
  BY <1>12, <1>14, <1>15 DEF T1, R1

(* A buffer that is given back was read before.                            *)
LEMMA GiveBackCounts ==
  ASSUME TypeOK, IdsInv, NEW w \in Workers, GiveBackBuffer(w)
  PROVE  Unread' = Unread /\ consumed' = consumed
<1>1. /\ processed[w]
      /\ hand' = [hand EXCEPT ![w] = NoTask]
      /\ processed' = [processed EXCEPT ![w] = FALSE]
      /\ task_queue' = task_queue /\ consumed' = consumed
  BY DEF GiveBackBuffer
<1>2. /\ hand'[w] = NoTask
      /\ \A v \in Workers : v # w => hand'[v] = hand[v] /\ processed'[v] = processed[v]
  BY <1>1 DEF TypeOK
<1>3. \A v \in Workers : (hand[v] # NoTask /\ ~processed[v])
                            <=> (hand'[v] # NoTask /\ ~processed'[v])
  BY <1>1, <1>2
<1>4. \A v \in Workers : hand[v] # NoTask /\ ~processed[v] => hand'[v] = hand[v]
  BY <1>1, <1>2
<1>5. {hand[v] : v \in {u \in Workers : hand[u] # NoTask /\ ~processed[u]}}
        = {hand'[v] : v \in {u \in Workers : hand'[u] # NoTask /\ ~processed'[u]}}
  BY <1>3, <1>4
<1> QED
  BY <1>1, <1>5 DEF Unread, Queued

(* The invariant of the count.                                             *)
Counted == IsFiniteSet(TaskBytes) /\ IsFiniteSet(ReadBytes) /\ BytesAccounted

LEMMA CountStays ==
  ASSUME Counted, UNCHANGED <<TaskBytes, ReadBytes>>,
         \/ caller_pc' = "undefined"
         \/ /\ caller_pc # "undefined"
            /\ total' - rest' - InPutArea' = total - rest - InPutArea
            /\ {total, total', rest, rest', InPutArea, InPutArea'} \subseteq Nat
  PROVE  Counted'
<1>1. IsFiniteSet(TaskBytes') /\ IsFiniteSet(ReadBytes')
  BY DEF Counted
<1>2. CASE caller_pc' = "undefined"
  BY <1>1, <1>2 DEF Counted, BytesAccounted
<1>3. CASE /\ caller_pc # "undefined"
           /\ total' - rest' - InPutArea' = total - rest - InPutArea
           /\ {total, total', rest, rest', InPutArea, InPutArea'} \subseteq Nat
  <2> DEFINE x == Cardinality(TaskBytes)
             y == Cardinality(ReadBytes)
  <2>1. PICK a, b, c, d, e, f \in Nat : /\ a = total /\ b = rest /\ c = InPutArea
                                        /\ d = total' /\ e = rest' /\ f = InPutArea'
    BY <1>3
  <2>2. x \in Nat /\ y \in Nat /\ a = c + b + x + y
    BY <1>3, <2>1, FS_CardinalityType DEF Counted, BytesAccounted
  <2>3. d - e - f = a - b - c
    BY <1>3, <2>1
  <2> HIDE DEF x, y
  <2>4. d = f + e + x + y
    BY <2>2, <2>3
  <2>5. total' = InPutArea' + rest' + Cardinality(TaskBytes') + Cardinality(ReadBytes')
    BY <2>1, <2>4 DEF x, y
  <2> QED
    BY <1>1, <2>5 DEF Counted, BytesAccounted
<1> QED
  BY <1>2, <1>3

(* The calls that only move bytes to, or within, the caller's hands.       *)
LEMMA CallsCount ==
  ASSUME StreamInv, Counted,
         (\E n \in WriteSizes : Xsputn(n)) \/ Sputc \/ PutRest \/ Sync \/ GetEmptyBuffer
  PROVE  Counted'
<1> USE DEF StreamInv
<1>1. /\ total \in Nat /\ rest \in Nat /\ pos \in Nat /\ BufferSize \in Nat
      /\ caller_pc = "idle" => rest = 0
      /\ InPutArea \in Nat
  BY Constants DEF TypeOK, CallInv, InPutArea
<1>2. ASSUME NEW n \in WriteSizes, Xsputn(n) PROVE Counted'
  <2>1. PICK f \in 0..n :
          /\ caller_pc = "idle"
          /\ total' = total + n /\ rest' = n - f
          /\ UNCHANGED <<task_queue, hand, processed, consumed>>
          /\ \/ caller_pc' = "undefined"
             \/ /\ caller_pc' = IF f < n THEN "flush" ELSE "idle"
                /\ pos' = pos + f
    BY <1>2, XsputnEffect
  <2>2. n \in Nat /\ f \in Nat /\ rest = 0 /\ InPutArea = pos
    BY <1>1, <2>1, Constants DEF InPutArea
  <2>3. CASE caller_pc' = "undefined"
    BY <2>1, <2>3, UnreadStays, CountStays
  <2>4. CASE caller_pc' # "undefined"
    <3>1. InPutArea' = pos + f
      BY <2>1, <2>4 DEF InPutArea
    <3>2. PICK a, p \in Nat : a = total /\ p = pos
      BY <1>1
    <3>3. total' = a + n /\ rest' = n - f /\ InPutArea' = p + f
      BY <2>1, <3>1, <3>2
    <3>4. a + n - (n - f) - (p + f) = a - 0 - p /\ a + n \in Nat /\ n - f \in Nat /\ p + f \in Nat
      BY <2>1, <2>2, <3>2
    <3>5. total' - rest' - InPutArea' = total - rest - InPutArea
      BY <2>2, <3>2, <3>3, <3>4
    <3>6. {total, total', rest, rest', InPutArea, InPutArea'} \subseteq Nat
      BY <1>1, <3>3, <3>4
    <3> QED
      BY <2>1, <3>5, <3>6, UnreadStays, CountStays
  <2> QED
    BY <2>3, <2>4
<1>3. CASE Sputc
  <2>1. /\ caller_pc = "idle" /\ total' = total + 1
        /\ UNCHANGED <<task_queue, hand, processed, consumed>>
        /\ \/ caller_pc' = "undefined"
           \/ rest' = 1 /\ caller_pc' = "flush" /\ UNCHANGED pos
           \/ UNCHANGED rest /\ caller_pc' = "idle" /\ pos' = pos + 1
    BY <1>3, SputcEffect
  <2>2. rest = 0 /\ InPutArea = pos
    BY <1>1, <2>1 DEF InPutArea
  <2>3. CASE caller_pc' = "undefined"
    BY <2>1, <2>3, UnreadStays, CountStays
  <2>4. CASE rest' = 1 /\ caller_pc' = "flush" /\ UNCHANGED pos
    <3>1. InPutArea' = pos
      BY <2>4 DEF InPutArea
    <3>2. PICK a, p \in Nat : a = total /\ p = pos
      BY <1>1
    <3>3. total' = a + 1 /\ rest' = 1 /\ InPutArea' = p
      BY <2>1, <2>4, <3>1, <3>2
    <3>4. a + 1 - 1 - p = a - 0 - p /\ a + 1 \in Nat
      BY <3>2
    <3>5. total' - rest' - InPutArea' = total - rest - InPutArea
      BY <2>2, <3>2, <3>3, <3>4
    <3>6. {total, total', rest, rest', InPutArea, InPutArea'} \subseteq Nat
      BY <1>1, <3>2, <3>3, <3>4
    <3> QED
      BY <2>1, <3>5, <3>6, UnreadStays, CountStays
  <2>5. CASE UNCHANGED rest /\ caller_pc' = "idle" /\ pos' = pos + 1
    <3>1. InPutArea' = pos + 1
      BY <2>5 DEF InPutArea
    <3>2. PICK a, p \in Nat : a = total /\ p = pos
      BY <1>1
    <3>3. total' = a + 1 /\ rest' = 0 /\ InPutArea' = p + 1
      BY <2>1, <2>2, <2>5, <3>1, <3>2
    <3>4. a + 1 - 0 - (p + 1) = a - 0 - p /\ a + 1 \in Nat /\ p + 1 \in Nat
      BY <3>2
    <3>5. total' - rest' - InPutArea' = total - rest - InPutArea
      BY <2>2, <3>2, <3>3, <3>4
    <3>6. {total, total', rest, rest', InPutArea, InPutArea'} \subseteq Nat
      BY <1>1, <3>2, <3>3, <3>4
    <3> QED
      BY <2>1, <3>5, <3>6, UnreadStays, CountStays
  <2> QED
    BY <2>1, <2>3, <2>4, <2>5
<1>4. CASE PutRest
  <2>1. /\ caller_pc = "rest" /\ pos = 0 /\ rest' = 0 /\ total' = total
        /\ UNCHANGED <<task_queue, hand, processed, consumed>>
        /\ \/ caller_pc' = "undefined"
           \/ caller_pc' = "idle" /\ pos' = rest
    BY <1>4, PutRestEffect
  <2>2. CASE caller_pc' = "undefined"
    BY <2>1, <2>2, UnreadStays, CountStays
  <2>3. CASE caller_pc' = "idle" /\ pos' = rest
    <3>1. InPutArea' = rest /\ InPutArea = 0
      BY <2>1, <2>3 DEF InPutArea
    <3>2. PICK a, r \in Nat : a = total /\ r = rest
      BY <1>1
    <3>3. total' - rest' - InPutArea' = total - rest - InPutArea
      <4>1. total' = a /\ rest' = 0 /\ InPutArea' = r
        BY <2>1, <3>1, <3>2
      <4>2. a - 0 - r = a - r - 0
        BY <3>2
      <4> QED
        BY <3>1, <3>2, <4>1, <4>2
    <3>4. {total, total', rest, rest', InPutArea, InPutArea'} \subseteq Nat
      BY <1>1, <2>1, <3>1
    <3> QED
      BY <2>1, <3>3, <3>4, UnreadStays, CountStays
  <2> QED
    BY <2>1, <2>2, <2>3
<1>5. CASE Sync
  <2>1. /\ caller_pc = "idle" /\ caller_pc' = "flush"
        /\ rest' = 0 /\ rest = 0 /\ total' = total /\ pos' = pos
        /\ UNCHANGED <<task_queue, hand, processed, consumed>>
    BY <1>1, <1>5 DEF Sync, workerVars
  <2>2. InPutArea' = InPutArea
    BY <2>1 DEF InPutArea
  <2>3. total' - rest' - InPutArea' = total - rest - InPutArea
    BY <2>1, <2>2
  <2>4. {total, total', rest, rest', InPutArea, InPutArea'} \subseteq Nat
    BY <1>1, <2>1, <2>2
  <2> QED
    BY <2>1, <2>3, <2>4, UnreadStays, CountStays
<1>6. CASE GetEmptyBuffer
  <2>1. /\ caller_pc = "get_buffer" /\ caller_pc' \in {"rest", "idle"}
        /\ rest' = rest /\ total' = total /\ pos' = 0
        /\ UNCHANGED <<task_queue, hand, processed, consumed>>
    BY <1>6 DEF GetEmptyBuffer, workerVars
  <2>2. InPutArea' = InPutArea
    BY <2>1 DEF InPutArea
  <2>3. total' - rest' - InPutArea' = total - rest - InPutArea
    BY <2>1, <2>2
  <2>4. {total, total', rest, rest', InPutArea, InPutArea'} \subseteq Nat
    BY <1>1, <2>1, <2>2
  <2> QED
    BY <2>1, <2>3, <2>4, UnreadStays, CountStays
<1> QED
  BY <1>2, <1>3, <1>4, <1>5, <1>6

(* The calls that make tasks of bytes.                                     *)
LEMMA TasksCount ==
  ASSUME StreamInv, Counted, FlushEnqueue \/ EnqueueRest
  PROVE  Counted'
<1> USE DEF StreamInv
<1>1. /\ total \in Nat /\ rest \in Nat /\ pos \in Nat
      /\ BufferSize \in Nat /\ BufferSize >= 2
      /\ IsFiniteSet(TaskBytes) /\ IsFiniteSet(ReadBytes)
  BY Constants DEF TypeOK, Counted
<1>2. /\ Cardinality(TaskBytes) \in Nat /\ Cardinality(ReadBytes) \in Nat
  BY <1>1, FS_CardinalityType
<1>3. ASSUME UNCHANGED <<hand, processed, consumed>> PROVE ReadBytes' = ReadBytes
  BY <1>3 DEF ReadBytes
<1>4. CASE FlushEnqueue
  <2>1. /\ caller_pc = "flush" /\ EnqueueTask(base, pos, "get_buffer")
        /\ UNCHANGED <<hand, processed, consumed>>
        /\ pos' = pos /\ rest' = rest /\ total' = total
    BY <1>4 DEF FlushEnqueue, Current, workerVars
  <2>2. base \in Pointers
    BY DEF TypeOK
  <2>3. \/ caller_pc' = "spinning" /\ TaskBytes' = TaskBytes
        \/ /\ caller_pc' = "get_buffer" /\ IsFiniteSet(TaskBytes')
           /\ Cardinality(TaskBytes') = Cardinality(TaskBytes) + pos
    BY <1>1, <2>1, <2>2, EnqueueCounts
  <2>4. InPutArea = pos
    BY <2>1 DEF InPutArea
  <2>5. CASE caller_pc' = "spinning" /\ TaskBytes' = TaskBytes
    <3>1. InPutArea' = pos
      BY <2>1, <2>5 DEF InPutArea
    <3>2. total' - rest' - InPutArea' = total - rest - InPutArea
      BY <2>1, <2>4, <3>1
    <3>3. {total, total', rest, rest', InPutArea, InPutArea'} \subseteq Nat
      BY <1>1, <2>1, <2>4, <3>1
    <3> QED
      BY <1>3, <2>1, <2>5, <3>2, <3>3, CountStays
  <2>6. CASE /\ caller_pc' = "get_buffer" /\ IsFiniteSet(TaskBytes')
             /\ Cardinality(TaskBytes') = Cardinality(TaskBytes) + pos
    <3> DEFINE x == Cardinality(TaskBytes)
               y == Cardinality(ReadBytes)
    <3>1. InPutArea' = 0
      BY <2>6 DEF InPutArea
    <3>2. total = pos + rest + x + y
      BY <2>1, <2>4 DEF Counted, BytesAccounted
    <3>3. x \in Nat /\ y \in Nat
      BY <1>2
    <3> HIDE DEF x, y
    <3>4. total = 0 + rest + (x + pos) + y
      BY <1>1, <3>2, <3>3
    <3>5. total' = InPutArea' + rest' + Cardinality(TaskBytes') + Cardinality(ReadBytes')
      BY <1>3, <2>1, <2>6, <3>1, <3>4 DEF x, y
    <3> QED
      BY <1>1, <1>3, <2>1, <2>6, <3>5 DEF Counted, BytesAccounted
  <2> QED
    BY <2>3, <2>5, <2>6
<1>5. CASE EnqueueRest
  <2> DEFINE buf == [blk |-> User, off |-> src]
  <2>1. /\ caller_pc = "rest" /\ rest >= BufferSize
        /\ EnqueueTask(buf, rest, "idle")
        /\ UNCHANGED <<hand, processed, consumed>>
        /\ pos' = pos /\ total' = total
        /\ \/ caller_pc' = "spinning" /\ rest' = rest
           \/ caller_pc' # "spinning" /\ rest' = 0
    BY <1>5 DEF EnqueueRest, workerVars
  <2>2. buf \in Pointers
    <3>1. src # ByValue
      BY <1>1, <2>1 DEF CallInv
    <3>2. src \in Nat
      BY <3>1, Constants DEF TypeOK, ByValue
    <3> QED
      BY <3>2, Constants DEF Pointers
  <2> HIDE DEF buf
  <2>3. \/ caller_pc' = "spinning" /\ TaskBytes' = TaskBytes
        \/ /\ caller_pc' = "idle" /\ IsFiniteSet(TaskBytes')
           /\ Cardinality(TaskBytes') = Cardinality(TaskBytes) + rest
    BY <1>1, <2>1, <2>2, EnqueueCounts
  <2>4. InPutArea = pos /\ InPutArea' = pos
    BY <2>1, <2>3 DEF InPutArea
  <2>5. CASE caller_pc' = "spinning" /\ TaskBytes' = TaskBytes
    <3>1. total' - rest' - InPutArea' = total - rest - InPutArea
      BY <2>1, <2>4, <2>5
    <3>2. {total, total', rest, rest', InPutArea, InPutArea'} \subseteq Nat
      BY <1>1, <2>1, <2>4, <2>5
    <3> QED
      BY <1>3, <2>1, <2>5, <3>1, <3>2, CountStays
  <2>6. CASE /\ caller_pc' = "idle" /\ IsFiniteSet(TaskBytes')
             /\ Cardinality(TaskBytes') = Cardinality(TaskBytes) + rest
    <3> DEFINE x == Cardinality(TaskBytes)
               y == Cardinality(ReadBytes)
    <3>1. total = pos + rest + x + y
      BY <2>1, <2>4 DEF Counted, BytesAccounted
    <3>2. x \in Nat /\ y \in Nat
      BY <1>2
    <3> HIDE DEF x, y
    <3>3. total = pos + 0 + (x + rest) + y
      BY <1>1, <3>1, <3>2
    <3>4. rest' = 0
      BY <2>1, <2>6
    <3>5. total' = InPutArea' + rest' + Cardinality(TaskBytes') + Cardinality(ReadBytes')
      BY <1>3, <2>1, <2>4, <2>6, <3>3, <3>4 DEF x, y
    <3> QED
      BY <1>1, <1>3, <2>1, <2>6, <3>5 DEF Counted, BytesAccounted
  <2> QED
    BY <2>3, <2>5, <2>6
<1> QED
  BY <1>4, <1>5

LEMMA StepCounted ==
  ASSUME StreamInv, Counted, [Next]_vars
  PROVE  Counted'
<1> USE DEF StreamInv
<1>1. /\ total \in Nat /\ rest \in Nat /\ pos \in Nat /\ InPutArea \in Nat
      /\ IsFiniteSet(TaskBytes) /\ IsFiniteSet(ReadBytes)
  BY Constants DEF TypeOK, Counted, InPutArea
<1>2. CASE CallerStep
  BY <1>2, CallsCount, TasksCount DEF CallerStep
<1>3. ASSUME UNCHANGED <<total, rest, pos, caller_pc>>
      PROVE  UNCHANGED <<total, rest, InPutArea, caller_pc>>
  BY <1>3 DEF InPutArea
<1>4. ASSUME UNCHANGED <<total, rest, pos, caller_pc, TaskBytes, ReadBytes>>
      PROVE  Counted'
  BY <1>3, <1>4 DEF Counted, BytesAccounted
<1>5. ASSUME NEW w \in Workers, WorkerStep(w) PROVE Counted'
  <2>1. UNCHANGED <<total, rest, pos, caller_pc>>
    BY <1>5 DEF WorkerStep, GetTask, Process, GiveBackBuffer, callerVars
  <2>2. CASE GetTask(w)
    <3>1. TaskBytes' = TaskBytes /\ ReadBytes' = ReadBytes
      BY <2>2, GetTaskCounts DEF TaskBytes, ReadBytes
    <3> QED
      BY <1>4, <2>1, <3>1
  <2>3. CASE GiveBackBuffer(w)
    <3>1. TaskBytes' = TaskBytes /\ ReadBytes' = ReadBytes
      BY <2>3, GiveBackCounts DEF TaskBytes, ReadBytes
    <3> QED
      BY <1>4, <2>1, <3>1
  <2>4. CASE Process(w)
    <3> DEFINE x == Cardinality(TaskBytes)
               y == Cardinality(ReadBytes)
               a == Cardinality(TaskBytes')
               b == Cardinality(ReadBytes')
    <3>1. /\ IsFiniteSet(TaskBytes') /\ IsFiniteSet(ReadBytes') /\ a + b = x + y
      BY <1>1, <2>4, ProcessCounts
    <3>2. x \in Nat /\ y \in Nat /\ a \in Nat /\ b \in Nat
      BY <1>1, <3>1, FS_CardinalityType
    <3>3. caller_pc # "undefined"
      BY <2>4 DEF Process
    <3>4. total = InPutArea + rest + x + y
      BY <3>3 DEF Counted, BytesAccounted
    <3> HIDE DEF x, y, a, b
    <3>5. total = InPutArea + rest + a + b
      BY <1>1, <3>1, <3>2, <3>4
    <3>6. total' = InPutArea' + rest' + a + b
      BY <1>3, <2>1, <3>5
    <3> QED
      BY <3>1, <3>6 DEF Counted, BytesAccounted, a, b
  <2> QED
    BY <1>5, <2>2, <2>3, <2>4 DEF WorkerStep
<1>6. CASE UNCHANGED vars
  <2>1. /\ UNCHANGED <<total, rest, pos, caller_pc>>
        /\ UNCHANGED <<task_queue, hand, processed, consumed>>
    BY <1>6 DEF vars
  <2>2. TaskBytes' = TaskBytes /\ ReadBytes' = ReadBytes
    BY <2>1, UnreadStays
  <2> QED
    BY <1>4, <2>1, <2>2
<1> QED
  BY <1>2, <1>5, <1>6 DEF Next

LEMMA InitCounted ==
  ASSUME Init
  PROVE  Counted
<1>1. /\ pos = 0 /\ rest = 0 /\ total = 0 /\ caller_pc = "idle"
      /\ task_queue = <<>> /\ consumed = <<>>
      /\ \A w \in Workers : hand[w] = NoTask
  BY DEF Init
<1>2. TaskBytes = {}
  <2>1. Unread = {}
    BY <1>1 DEF Unread, Queued, ToSet
  <2> QED
    BY <2>1 DEF TaskBytes
<1>3. ReadBytes = {}
  BY <1>1 DEF ReadBytes
<1>4. IsFiniteSet({}) /\ Cardinality({}) = 0
  BY FS_EmptySet
<1>5. InPutArea = 0
  BY <1>1 DEF InPutArea
<1> QED
  BY <1>1, <1>2, <1>3, <1>4, <1>5 DEF Counted, BytesAccounted

(* With any number of workers, of buffers of any size and writes of any    *)
(* length: every byte accepted from the user is in the put area, or still  *)
(* to be placed by the call, or in exactly one task.  Nothing is dropped   *)
(* or counted twice at a flush, at overflow, where xsputn goes round the   *)
(* put area, or when enqueue_task cuts a buffer into pieces.               *)
THEOREM EveryByteIsAccounted == Spec => []BytesAccounted
<1>1. Init => StreamInv /\ Counted
  BY InitTyped, InitCounted
<1>2. StreamInv /\ Counted /\ [Next]_vars => StreamInv' /\ Counted'
  BY StepTyped, StepCounted
<1>3. Counted => BytesAccounted
  BY DEF Counted
<1> QED
  BY <1>1, <1>2, <1>3, PTL DEF Spec
=============================================================================
