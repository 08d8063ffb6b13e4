---------------------------- MODULE StreamBuffer ----------------------------
(***************************************************************************)
(* StreamBuffer_t (src/src/Streambuf_Modifier_t.{h,cpp}): the put area,    *)
(* the virtual functions std::ostream calls, the splitting of a flushed    *)
(* buffer into tasks, and the buffers' way through the workers back to the *)
(* pool.  Here a worker takes a task, reads its bytes, gives its buffer    *)
(* back; StreamHive adds the result side, which WorkerHive models.         *)
(*                                                                         *)
(* A byte is its position in the stream.  Memory is a set of blocks; a     *)
(* char* is a block and an offset.  Block User is the array of the stream's*)
(* user, who fills it, calls write(), and reuses it when write() has       *)
(* returned, as the contract of std::streambuf allows.  A write outside    *)
(* its block is undefined behaviour and ends the behaviour.                *)
(***************************************************************************)
EXTENDS Chunks, FiniteSetsExt, SequencesExt

CONSTANTS
  Workers,       \* the hive's workers, threads_ of them
  BufferSize,    \* buffer_size_
  WriteSizes,    \* the lengths of the user's write() calls
  UserSize,      \* the size of the user's array
  MaxBytes,      \* bound: bytes of the stream
  MaxBlocks,     \* bound: buffers get_empty_buffer allocates
  NoTask

Threads == Cardinality(Workers)
User    == 0
Blocks  == 0..MaxBlocks

Pointers == [blk : Blocks, off : Nat]
Tasks    == [blk : Blocks, off : Nat, size : Nat, id : Nat]

ASSUME StreamAssumption ==
  /\ IsFiniteSet(Workers) /\ Workers # {}
  /\ BufferSize \in Nat \ {0, 1}
  /\ WriteSizes \subseteq 1..UserSize
  /\ MaxBytes \in Nat
  /\ {UserSize, MaxBlocks} \subseteq Nat \ {0}
  /\ NoTask \notin Tasks

Unset == -1
BlockSize(b) == IF b = User THEN UserSize ELSE BufferSize

VARIABLES
  mem,           \* block -> its bytes
  nblocks,       \* buffers allocated so far: blocks 1..nblocks
  base, pos,     \* current_buffer_ (pbase) and pptr - pbase
  pool,          \* empty_buffer_queue_
  task_queue, next_id,
  hand,          \* per worker: its task, or NoTask
  processed,     \* per worker: func_ has read the task's bytes
  consumed,      \* task id -> the bytes func_ read
  caller_pc,     \* "idle", or where the caller is inside a virtual function,
                 \* or "spinning" (enqueue_task does not end) or "undefined"
  rest, src,     \* bytes the call has still to place, and where in the
                 \* user's array they are (ByValue: the char of overflow)
  total,         \* bytes of the stream accepted or being placed
  lent           \* history: a task has pointed into the user's array
vars == <<mem, nblocks, base, pos, pool, task_queue, next_id, hand, processed,
          consumed, caller_pc, rest, src, total, lent>>
callerVars == <<nblocks, base, pos, next_id, caller_pc, rest, src, total, lent>>
workerVars == <<hand, processed, consumed>>

ByValue == -1

(* The constructor: the pool is empty, so current_buffer_ is allocated.    *)
Init ==
  /\ mem = [b \in Blocks |-> [i \in 1..BlockSize(b) |-> Unset]]
  /\ nblocks = 1
  /\ base = [blk |-> 1, off |-> 0] /\ pos = 0
  /\ pool = <<>>
  /\ task_queue = <<>> /\ next_id = 0
  /\ hand = [w \in Workers |-> NoTask]
  /\ processed = [w \in Workers |-> FALSE]
  /\ consumed = <<>>
  /\ caller_pc = "idle"
  /\ rest = 0 /\ src = 0 /\ total = 0 /\ lent = FALSE
-----------------------------------------------------------------------------
(* The caller's side.                                                      *)

(* memory with bytes stored from pptr on.                                  *)
Stored(memory, bytes) ==
  [memory EXCEPT ![base.blk] =
     [i \in DOMAIN @ |->
        LET k == i - base.off - pos
        IN  IF k \in 1..Len(bytes) THEN bytes[k] ELSE @[i]]]

(* Copy bytes to pptr and go on at pc "next".                              *)
Put(memory, bytes, next) ==
  IF base.off + pos + Len(bytes) <= BlockSize(base.blk)
  THEN /\ mem' = Stored(memory, bytes)
       /\ pos' = pos + Len(bytes)
       /\ caller_pc' = next
  ELSE /\ caller_pc' = "undefined"
       /\ UNCHANGED <<mem, pos>>

Available == BufferSize - pos
Fits(n)   == Min({n, Available})

(* What xsputn has left of count; a slip that does not subtract.           *)
LeftAll(n) == IF n > Fits(n) THEN n ELSE 0
Left(n)    == n - Fits(n)

(* xsputn(s, n) up to its call of flush_buffer: fill the put area.         *)
Xsputn(n) ==
  LET bytes == [i \in 1..n |-> total + i - 1] IN
  /\ caller_pc = "idle"
  /\ total + n <= MaxBytes
  /\ total' = total + n
  /\ rest' = Left(n)
  /\ src' = IF n > Fits(n) THEN Fits(n) ELSE 0
  /\ Put([mem EXCEPT ![User] = bytes \o [i \in 1..UserSize - n |-> Unset]],
         SubSeq(bytes, 1, Fits(n)),
         IF n > Fits(n) THEN "flush" ELSE "idle")
  /\ UNCHANGED <<nblocks, base, pool, task_queue, next_id, workerVars, lent>>

(* sputc: into the put area if it has room, otherwise overflow(ch), which  *)
(* flushes first.                                                          *)
Sputc ==
  /\ caller_pc = "idle"
  /\ total < MaxBytes
  /\ total' = total + 1
  /\ IF Available > 0
     THEN /\ Put(mem, <<total>>, "idle")
          /\ UNCHANGED <<rest, src>>
     ELSE /\ rest' = 1 /\ src' = ByValue
          /\ caller_pc' = "flush"
          /\ UNCHANGED <<mem, pos>>
  /\ UNCHANGED <<nblocks, base, pool, task_queue, next_id, workerVars, lent>>

(* sync: flush_buffer has nothing to do when the put area is empty.        *)
Sync ==
  /\ caller_pc = "idle"
  /\ pos > 0
  /\ rest' = 0
  /\ caller_pc' = "flush"
  /\ UNCHANGED <<mem, nblocks, base, pos, pool, task_queue, next_id,
                 workerVars, src, total, lent>>

(* enqueue_task(buf, len): tasks with consecutive ids for the pieces.      *)
EnqueueTask(buf, len, next) ==
  IF len < Threads
  THEN /\ caller_pc' = "spinning"
       /\ UNCHANGED <<task_queue, next_id>>
  ELSE LET p == Pieces(len, Threads) IN
       /\ task_queue' = task_queue \o
            [i \in 1..Len(p) |-> [blk  |-> buf.blk, off |-> buf.off + p[i].off,
                                  size |-> p[i].size, id |-> next_id + i - 1]]
       /\ next_id' = next_id + Len(p)
       /\ caller_pc' = next

(* The first argument of flush_buffer's enqueue_task; a slip of it: pptr.  *)
FromPptr == [base EXCEPT !.off = @ + pos]
Current  == base

(* flush_buffer, first half: hand the put area over, under task_lock_.     *)
FlushEnqueue ==
  /\ caller_pc = "flush"
  /\ EnqueueTask(Current, pos, "get_buffer")
  /\ UNCHANGED <<mem, nblocks, base, pos, pool, workerVars, rest, src, total,
                 lent>>

(* pop_front of the pool, and a slip: it is missing.                       *)
NoPop    == pool
PopFront == Tail(pool)

(* flush_buffer, second half: get_empty_buffer, under buffer_lock_, takes  *)
(* the oldest pointer of the pool or allocates; setp declares buffer_size_ *)
(* bytes from it on to be the put area.                                    *)
GetEmptyBuffer ==
  /\ caller_pc = "get_buffer"
  /\ \/ /\ pool = <<>>
        /\ nblocks < MaxBlocks
        /\ nblocks' = nblocks + 1
        /\ base' = [blk |-> nblocks + 1, off |-> 0]
        /\ UNCHANGED pool
     \/ /\ pool # <<>>
        /\ base' = Head(pool)
        /\ pool' = PopFront
        /\ UNCHANGED nblocks
  /\ pos' = 0
  /\ caller_pc' = IF rest > 0 THEN "rest" ELSE "idle"
  /\ UNCHANGED <<mem, task_queue, next_id, workerVars, rest, src, total, lent>>

(* What is left to put; a slip of xsputn: s += written is missing.         *)
RestFromStart ==
  IF src = ByValue THEN <<total - 1>> ELSE SubSeq(mem[User], 1, rest)
RestBytes ==
  IF src = ByValue THEN <<total - 1>> ELSE SubSeq(mem[User], src + 1, src + rest)

(* The end of overflow, and of xsputn when less than a buffer is left.     *)
PutRest ==
  /\ caller_pc = "rest"
  /\ rest < BufferSize
  /\ Put(mem, RestBytes, "idle")
  /\ rest' = 0 /\ src' = 0
  /\ UNCHANGED <<nblocks, base, pool, task_queue, next_id, workerVars, total,
                 lent>>

(* The end of xsputn when a buffer or more is left: tasks that point into  *)
(* the user's array.  (overflow has one byte left and never comes here.)   *)
EnqueueRest ==
  /\ caller_pc = "rest"
  /\ rest >= BufferSize
  /\ EnqueueTask([blk |-> User, off |-> src], rest, "idle")
  /\ IF caller_pc' = "spinning" THEN UNCHANGED <<rest, src, lent>>
                                ELSE rest' = 0 /\ src' = 0 /\ lent' = TRUE
  /\ UNCHANGED <<mem, nblocks, base, pos, pool, workerVars, total>>
-----------------------------------------------------------------------------
(* The workers' side.                                                      *)

(* get_task; task_lock_ is not to be had from a caller that spins under it.*)
GetTask(w) ==
  /\ caller_pc \notin {"spinning", "undefined"}
  /\ hand[w] = NoTask
  /\ task_queue # <<>>
  /\ hand' = [hand EXCEPT ![w] = Head(task_queue)]
  /\ task_queue' = Tail(task_queue)
  /\ UNCHANGED <<mem, pool, processed, consumed, callerVars>>

(* The n bytes at pointer p; what is outside its block is no byte of the   *)
(* stream.                                                                 *)
BytesAt(p, n) ==
  [i \in 1..n |-> IF p.off + i \in DOMAIN mem[p.blk] THEN mem[p.blk][p.off + i]
                                                     ELSE Unset]

(* func_ reads the task's bytes, outside every lock.                       *)
Process(w) ==
  /\ caller_pc # "undefined"
  /\ hand[w] # NoTask /\ ~processed[w]
  /\ LET t == hand[w] IN
       consumed' = [id \in DOMAIN consumed \cup {t.id} |->
                      IF id = t.id THEN BytesAt(t, t.size) ELSE consumed[id]]
  /\ processed' = [processed EXCEPT ![w] = TRUE]
  /\ UNCHANGED <<mem, pool, task_queue, hand, callerVars>>

(* The test of give_back_buffer, and a slip: the limit is one too high.    *)
PoolFullLate == Len(pool) > Threads + 1
PoolFull     == Len(pool) > Threads

(* give_back_buffer(task.data_): the pointer goes to the pool, unless that *)
(* has more than threads_ entries; then it is dropped.                     *)
GiveBackBuffer(w) ==
  /\ caller_pc # "undefined"
  /\ processed[w]
  /\ pool' = IF PoolFull THEN pool
             ELSE Append(pool, [blk |-> hand[w].blk, off |-> hand[w].off])
  /\ hand' = [hand EXCEPT ![w] = NoTask]
  /\ processed' = [processed EXCEPT ![w] = FALSE]
  /\ UNCHANGED <<mem, task_queue, consumed, callerVars>>

CallerStep ==
  \/ \E n \in WriteSizes : Xsputn(n)
  \/ Sputc \/ Sync
  \/ FlushEnqueue \/ GetEmptyBuffer \/ PutRest \/ EnqueueRest
WorkerStep(w) == GetTask(w) \/ Process(w) \/ GiveBackBuffer(w)

Next == CallerStep \/ \E w \in Workers : WorkerStep(w)

Spec == Init /\ [][Next]_vars
-----------------------------------------------------------------------------
InHand   == {hand[w] : w \in {v \in Workers : hand[v] # NoTask}}
Queued   == ToSet(task_queue)
Unread   == Queued \cup {hand[w] : w \in {v \in Workers : hand[v] # NoTask
                                                          /\ ~processed[v]}}

TypeOK ==
  /\ DOMAIN mem = Blocks
  /\ \A b \in Blocks : mem[b] \in [1..BlockSize(b) -> Nat \cup {Unset}]
  /\ nblocks \in 1..MaxBlocks
  /\ base \in Pointers
  /\ pos \in 0..BufferSize
  /\ pool \in Seq(Pointers) /\ Len(pool) <= Threads + 1
  /\ task_queue \in Seq(Tasks)
  /\ next_id \in Nat
  /\ hand \in [Workers -> Tasks \cup {NoTask}]
  /\ processed \in [Workers -> BOOLEAN]
  /\ DOMAIN consumed \subseteq 0..(next_id - 1)
  /\ caller_pc \in {"idle", "flush", "get_buffer", "rest", "spinning",
                    "undefined"}
  /\ rest \in 0..UserSize
  /\ src \in ByValue..UserSize
  /\ total \in 0..MaxBytes
  /\ lent \in BOOLEAN

(* What the writer may emit so far - the consumed tasks without a gap, in  *)
(* the order of their ids - is the beginning of the stream, byte for byte. *)
(* False with several workers: the pieces of one buffer come back one by   *)
(* one, and the first makes the whole buffer the caller's again.           *)
Gapless(n) == \A id \in 0..(n - 1) : id \in DOMAIN consumed
OutputIsInput ==
  \A n \in 1..next_id :
    Gapless(n) =>
      LET out == FlattenSeq([i \in 1..n |-> consumed[i - 1]])
      IN  \A i \in 1..Len(out) : out[i] = i - 1

(* Every byte accepted from the user is in the put area or in exactly one  *)
(* task: nothing is dropped or counted twice at a flush, at overflow or    *)
(* where xsputn goes round the put area.                                   *)
TaskBytes == UNION {{t} \X (1..t.size) : t \in Unread}
ReadBytes == UNION {{id} \X DOMAIN consumed[id] : id \in DOMAIN consumed}
InPutArea == IF caller_pc = "get_buffer" THEN 0 ELSE pos
BytesAccounted ==
  caller_pc # "undefined" =>
    total = InPutArea + rest + Cardinality(TaskBytes) + Cardinality(ReadBytes)

(* The buffer_size_ bytes that setp declares to be the put area are inside *)
(* one buffer: a pointer comes back from the workers as it was handed out. *)
(* Not so once a task pointed into the user's array.                       *)
PutAreaInBounds == lent \/ base.off + BufferSize <= BlockSize(base.blk)

(* A buffer is the put area, or belongs to one task, or is in the pool     *)
(* once: nobody writes to a buffer somebody else reads.  Not so once a     *)
(* task pointed into the user's array, of which the user knows nothing.    *)
Holders(b) ==
  (IF caller_pc # "get_buffer" /\ base.blk = b THEN 1 ELSE 0)
  + Cardinality({t \in Queued \cup InHand : t.blk = b})
  + Cardinality({i \in 1..Len(pool) : pool[i].blk = b})
OneHolder == lent \/ \A b \in 1..nblocks : Holders(b) <= 1
=============================================================================
