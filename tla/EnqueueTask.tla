----------------------------- MODULE EnqueueTask -----------------------------
(***************************************************************************)
(* The loop of StreamBuffer_t::enqueue_task(buf, len), which cuts len      *)
(* bytes into tasks for threads_ workers.  It runs under task_lock_, so    *)
(* nothing interferes with it and no worker can take a task meanwhile.     *)
(*                                                                         *)
(* Arithmetic is on size_t: len - chunk_size cannot wrap, because          *)
(* chunk_size = len / threads_ never exceeds len, so Nat is exact.         *)
(***************************************************************************)
EXTENDS Chunks

CONSTANTS
  ThreadCounts,    \* the values of threads_ to consider
  Lengths,         \* the values of len to consider
  QueueMemory,     \* tasks for which the deque can get memory
  FirstId          \* next_id_ on entry

ASSUME EnqueueAssumption ==
  /\ ThreadCounts \subseteq Nat \ {0}
  /\ Lengths \subseteq Nat \ {0}       \* flush_buffer skips an empty buffer
  /\ QueueMemory \in Nat
  /\ FirstId \in Nat

VARIABLES
  threads, len,    \* the member threads_ and the argument
  index,           \* bytes already cut
  pushed,          \* the tasks pushed, in order: offset in buf, size, id
  next_id,
  pc               \* "loop", "returned", or "bad_alloc": the deque found no
                   \* memory and push_back threw
vars == <<threads, len, index, pushed, next_id, pc>>

(* A slip of the division: it rounds up.                                   *)
chunk_size_up == (len + threads - 1) \div threads

chunk_size == ChunkSize(len, threads)

Init ==
  /\ threads \in ThreadCounts
  /\ len \in Lengths
  /\ index = 0
  /\ pushed = <<>>
  /\ next_id = FirstId
  /\ pc = "loop"

(* task_queue_.push_back(DataChunk{buf + index, size, next_id_++})         *)
Push(size) ==
  /\ Len(pushed) < QueueMemory
  /\ pushed' = Append(pushed, [off |-> index, size |-> size, id |-> next_id])
  /\ next_id' = next_id + 1

(* The loop's bound, and a slip of it; the increment of index, and a slip. *)
AtEnd      == index >= len
AtLastTask == index >= len - chunk_size
NoStep     == index
Step       == index + chunk_size

(* One iteration of the while loop.                                        *)
PushChunk ==
  /\ pc = "loop" /\ ~AtLastTask
  /\ Push(chunk_size)
  /\ index' = Step
  /\ UNCHANGED <<threads, len, pc>>

(* The task after the loop takes what is left.                             *)
PushRest ==
  /\ pc = "loop" /\ AtLastTask
  /\ Push(len - index)
  /\ pc' = "returned"
  /\ UNCHANGED <<threads, len, index>>

OutOfMemory ==
  /\ pc = "loop"
  /\ Len(pushed) = QueueMemory
  /\ pc' = "bad_alloc"
  /\ UNCHANGED <<threads, len, index, pushed, next_id>>

Next == PushChunk \/ PushRest \/ OutOfMemory

Spec     == Init /\ [][Next]_vars
FairSpec == Spec /\ WF_vars(Next)
-----------------------------------------------------------------------------
TypeOK ==
  /\ threads \in ThreadCounts
  /\ len \in Lengths
  /\ index \in 0..len
  /\ pushed \in Seq([off : Nat, size : Nat, id : Nat])
  /\ next_id \in Nat
  /\ pc \in {"loop", "returned", "bad_alloc"}

End(i) == pushed[i].off + pushed[i].size

(* The tasks cut the buffer into consecutive pieces: when the call returns *)
(* every byte of buf belongs to one task and to one only, and no task      *)
(* reaches outside the buffer.                                             *)
BytesCovered ==
  pc = "returned" =>
    \A b \in 0 .. (len - 1) :
      \E i \in 1..Len(pushed) : pushed[i].off <= b /\ b < End(i)
ChunksDisjoint ==
  \A i, j \in 1..Len(pushed) : i < j => End(i) <= pushed[j].off
ChunksInBuffer ==
  \A i \in 1..Len(pushed) : End(i) <= len
Tiling == BytesCovered /\ ChunksDisjoint /\ ChunksInBuffer

(* The writer emits results by id, so the ids must follow the bytes.       *)
IdsFollowBytes ==
  /\ \A i \in 1..Len(pushed) : pushed[i].id = FirstId + i - 1
  /\ next_id = FirstId + Len(pushed)

(* The pieces are those of the closed form; in particular the queue grows  *)
(* by NumChunks(len, threads) tasks, which may exceed threads.             *)
ClosedForm ==
  pc = "returned" =>
    /\ threads <= len
    /\ pushed = [i \in 1..NumChunks(len, threads) |->
                   [off  |-> Pieces(len, threads)[i].off,
                    size |-> Pieces(len, threads)[i].size,
                    id   |-> FirstId + i - 1]]

(* The call cuts the buffer as its callers and the writer rely on.         *)
CutIntoPieces == Tiling /\ IdsFollowBytes /\ ClosedForm

(* The call returns when there is at least one byte per thread.  With      *)
(* fewer, chunk_size is 0 and the loop pushes empty tasks, holding         *)
(* task_lock_, until memory runs out.                                      *)
EndsAsSizesSay ==
  (pc = "loop" /\ len <= QueueMemory) ~>
    (pc = IF threads <= len THEN "returned" ELSE "bad_alloc")
=============================================================================
