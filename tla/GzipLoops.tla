------------------------------ MODULE GzipLoops ------------------------------
(***************************************************************************)
(* The loops around zlib: GzipCompressor::operator() of                    *)
(* src/src/Streambuf_Modifier_t.cpp, its predecessor in old_code_base, and *)
(* def() and inf() of src/test.cpp, which all feed a z_stream block by     *)
(* block and collect its output.  What they must get right is the same, so *)
(* they share the variables and the properties; a behaviour runs one of    *)
(* them (prog).                                                            *)
(*                                                                         *)
(* Input is counted: byte i of the input is i.  So is output: what zlib    *)
(* makes of the input is bytes 1, 2, ..., z.made.                          *)
(***************************************************************************)
EXTENDS Integers, FiniteSetsExt, SequencesExt

CONSTANTS
  Chunk,      \* chunk_size_, compression_chunk_size_, CHUNK
  Lengths,    \* the input sizes to consider
  Overhead    \* bound: the compressed stream may be this much longer

ASSUME GzipAssumption ==
  /\ Chunk \in Nat \ {0}
  /\ Lengths \subseteq Nat /\ Lengths # {} /\ IsFiniteSet(Lengths)
  /\ Overhead \in Nat \ {0}

VARIABLES
  prog,       \* "operator", "old_operator", "def" or "inf"
  size,       \* bytes of input
  member,     \* inf: bytes of the gzip member the input starts with, which
              \* may be cut off, or followed by others
  read_in,    \* bytes of input given to the z_stream so far
  next_in, avail_in, flush,
  full,       \* avail_out = 0 after the last deflate
  ret,        \* what the last deflate returned
  z,          \* the z_stream's inside: the input bytes taken, the output
              \* bytes made and handed out, and whether the stream is closed
  out,        \* the output collected
  pc          \* "init", "block" (the outer loop), "call" (the inner one),
              \* "returned", "threw", "errno", "data_error" or "stream_error"
files == <<prog, size, member>>
vars  == <<files, read_in, next_in, avail_in, flush, full, ret, z, out, pc>>

Init ==
  /\ prog \in {"operator", "old_operator", "def", "inf"}
  /\ size \in Lengths
  /\ member \in IF prog = "inf" THEN UNION {1..n : n \in Lengths} ELSE {0}
  /\ read_in = 0
  /\ next_in = 0 /\ avail_in = 0 /\ flush = "NO_FLUSH"
  /\ full = FALSE
  /\ ret = "OK"
  /\ z = [taken |-> <<>>, made |-> 0, gone |-> 0, closed |-> FALSE]
  /\ out = <<>>
  /\ pc = "init"
-----------------------------------------------------------------------------
(* zlib: deflate(&strm, fl) and inflate, with Chunk bytes of room.         *)

(* What deflate may do: it takes the input, or fills the room; it takes     *)
(* nothing and makes nothing once the stream is closed, and it closes the  *)
(* stream, with a trailer, only when asked to and with no input left.      *)
Outcomes(fl) ==
  {r \in [used : 0..avail_in, made : z.made..(size + Overhead), closed : BOOLEAN] :
     /\ r.made + (IF r.closed THEN 0 ELSE 1) <= Len(z.taken) + r.used + Overhead
     /\ z.closed => r.closed /\ r.used = 0 /\ r.made = z.made
     /\ r.closed /\ ~z.closed =>
          fl = "FINISH" /\ r.used = avail_in /\ r.made > z.made
     /\ r.made - z.gone < Chunk /\ ~z.closed =>
          r.used = avail_in /\ (fl = "FINISH" => r.closed)}

(* A call with outcome r.  Its output goes to the next free place of out,  *)
(* which is where the code points next_out to: out + written_out, or a     *)
(* buffer that is then appended or written to a file.                      *)
Apply(r) ==
  LET put == Min({Chunk, r.made - z.gone}) IN
  /\ z' = [taken  |-> z.taken \o [i \in 1..r.used |-> next_in + i - 1],
           made   |-> r.made,
           gone   |-> z.gone + put,
           closed |-> r.closed]
  /\ out' = out \o [i \in 1..put |-> z.gone + i]
  /\ full' = (put = Chunk)
  /\ ret' = IF r.closed /\ z.gone + put = r.made THEN "STREAM_END" ELSE "OK"
  /\ next_in' = next_in + r.used
  /\ avail_in' = avail_in - r.used

Deflate(fl) ==
  \/ /\ z.closed /\ fl = "NO_FLUSH"
     /\ ret' = "STREAM_ERROR"
     /\ UNCHANGED <<next_in, avail_in, full, z, out>>
  \/ /\ z.closed => fl = "FINISH"
     /\ \E r \in Outcomes(fl) : Apply(r)

(* inflate(&strm, Z_NO_FLUSH): it takes the input up to the end of the     *)
(* member, or fills the room; it ends the stream when it has all of it.    *)
Inflate ==
  LET left == member - Len(z.taken) IN
  \E r \in [used : 0..Min({avail_in, left}), made : z.made..(size + Overhead),
            closed : BOOLEAN] :
    /\ z.closed => r.made = z.made
    /\ r.closed <=> r.used = left
    /\ r.made - z.gone < Chunk => r.closed \/ r.used = avail_in
    /\ Apply(r)
-----------------------------------------------------------------------------
(* deflateInit2 or inflateInit2, and in operator() the test of             *)
(* compressBound before it: either may end the call.                       *)
Begin ==
  /\ pc = "init" /\ prog # "old_operator"
  /\ pc' \in {"block", "threw"}
  /\ UNCHANGED <<files, read_in, next_in, avail_in, flush, full, ret, z, out>>

(* The old operator() gives the z_stream all its input at the start.       *)
OldBegin ==
  /\ pc = "init" /\ prog = "old_operator"
  /\ \/ avail_in' = size /\ read_in' = size /\ pc' = "call"
     \/ UNCHANGED <<avail_in, read_in>> /\ pc' = "threw"
  /\ UNCHANGED <<files, next_in, flush, full, ret, z, out>>

(* The length of the next block and the flush that goes with it: a short   *)
(* block, which may be empty, is the last.  (In def(), fread sets the      *)
(* end-of-file flag exactly when it reads less than CHUNK bytes.)          *)
(* Slips: the block is not cut to what is left; no block is the last.      *)
WholeChunk      == Chunk
NextLength      == Min({Chunk, size - read_in})
NeverFinish(n)  == "NO_FLUSH"
FlushFor(n)     == IF n < Chunk THEN "FINISH" ELSE "NO_FLUSH"

Feed(n) ==
  /\ next_in' = read_in
  /\ avail_in' = n
  /\ read_in' = read_in + n

NextBlock ==
  /\ pc = "block" /\ prog # "inf"
  /\ Feed(NextLength)
  /\ flush' = FlushFor(NextLength)
  /\ pc' = "call"
  /\ UNCHANGED <<files, full, ret, z, out>>

(* The tests after a call: the inner loop again, the end, the outer loop.  *)
GoOn(again, end) ==
  LET ok == ret' # "STREAM_ERROR" IN
  pc' = CASE ~ok                     -> "stream_error"
          [] ok /\ again             -> "call"
          [] ok /\ ~again /\ end     -> "returned"
          [] ok /\ ~again /\ ~end    -> "block"

(* Does the inner loop go on?  While the room was filled; slips: never, or *)
(* until the input is used up.                                             *)
Once        == FALSE
RoomFilled  == full'
UntilUsed   == avail_in' > 0
MoreOutput  == full'

(* operator(): again while the room was filled, until the stream ends.     *)
OperatorCall ==
  /\ prog = "operator" /\ pc = "call"
  /\ Deflate(flush)
  /\ GoOn(RoomFilled, ret' = "STREAM_END")
  /\ UNCHANGED <<files, read_in, flush>>

(* The old operator(): one loop, asked to finish when no input is left.    *)
OldOperatorCall ==
  /\ prog = "old_operator" /\ pc = "call"
  /\ Deflate(IF avail_in > 0 THEN "NO_FLUSH" ELSE "FINISH")
  /\ GoOn(ret' # "STREAM_END", TRUE)
  /\ UNCHANGED <<files, read_in, flush>>

(* def(): the outer loop ends after the last block, whatever deflate       *)
(* returned.                                                               *)
DefCall ==
  /\ prog = "def" /\ pc = "call"
  /\ Deflate(flush)
  /\ GoOn(MoreOutput, flush = "FINISH")
  /\ UNCHANGED <<files, read_in, flush>>

(* inf(): the next block of the file; at its end, the verdict.             *)
InfBlock ==
  /\ prog = "inf" /\ pc = "block"
  /\ IF NextLength = 0
     THEN /\ pc' = IF ret = "STREAM_END" THEN "returned" ELSE "data_error"
          /\ UNCHANGED <<next_in, avail_in, read_in>>
     ELSE Feed(NextLength) /\ pc' = "call"
  /\ UNCHANGED <<files, flush, full, ret, z, out>>

(* What follows the first member stays unread.                             *)
InfCall ==
  /\ prog = "inf" /\ pc = "call"
  /\ Inflate
  /\ GoOn(full', ret' = "STREAM_END")
  /\ UNCHANGED <<files, read_in, flush>>

(* inflate finds the data invalid.                                         *)
InfInvalid ==
  /\ prog = "inf" /\ pc = "call"
  /\ pc' = "data_error"
  /\ UNCHANGED <<files, read_in, next_in, avail_in, flush, full, ret, z, out>>

(* In def() or inf(), fread or fwrite fails.                               *)
IOFails ==
  /\ prog \in {"def", "inf"} /\ pc \in {"block", "call"}
  /\ pc' = "errno"
  /\ UNCHANGED <<files, read_in, next_in, avail_in, flush, full, ret, z, out>>

Next == \/ Begin \/ OldBegin \/ NextBlock \/ OperatorCall
        \/ OldOperatorCall \/ DefCall \/ InfBlock \/ InfCall \/ InfInvalid \/ IOFails

Spec     == Init /\ [][Next]_vars
FairSpec == Spec /\ WF_vars(Next)
-----------------------------------------------------------------------------
TypeOK ==
  /\ read_in \in 0..size
  /\ next_in \in 0..size /\ avail_in \in 0..size
  /\ next_in + avail_in <= size
  /\ flush \in {"NO_FLUSH", "FINISH"} /\ full \in BOOLEAN
  /\ ret \in {"OK", "STREAM_END", "STREAM_ERROR"}
  /\ z.gone \in 0..z.made
  /\ pc \in {"init", "block", "call", "returned", "threw", "errno",
             "data_error", "stream_error"}

(* A call that returns has fed all its input to zlib, in order, and        *)
(* collected all of zlib's output, in order: also for sizes that are a     *)
(* multiple of the chunk, for output that ends exactly where the room      *)
(* does, and for output that is longer than the input.  For inf() the      *)
(* input is the first member of the file, and a member that is cut off is  *)
(* never taken for a whole one.                                            *)
Upto(n, first) == [i \in 1..n |-> first + i - 1]
Complete ==
  pc = "returned" =>
    /\ z.taken = Upto(IF prog = "inf" THEN member ELSE size, 0)
    /\ z.closed /\ out = Upto(z.made, 1)

(* The assertions of def(), which hold of the others as well: the          *)
(* compressor is never asked to go on after it was told to finish, a block *)
(* is used up before the next is taken, and the stream ends with the loop. *)
(* So the "deflate failed" of both operators is unreachable.               *)
DefAsserts ==
  /\ pc # "stream_error"
  /\ pc = "block" => avail_in = 0
  /\ pc = "returned" => ret = "STREAM_END" /\ (prog # "inf" => avail_in = 0)

(* The loops end, although a call of zlib may do nothing but buffer, or    *)
(* nothing but make output.                                                *)
Ends == <>(pc \in {"returned", "threw", "errno", "data_error",
                  "stream_error"})
=============================================================================
