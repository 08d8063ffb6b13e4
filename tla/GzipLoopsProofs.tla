--------------------------- MODULE GzipLoopsProofs ---------------------------
(***************************************************************************)
(* Proofs about GzipLoops, for chunks, inputs and outputs of any size: the *)
(* type invariant, that a call that returns has compressed all of its      *)
(* input and collected all of the output, and the assertions of def().     *)
(*                                                                         *)
(* The inductive invariant LoopsInv says where the z_stream stands (what   *)
(* it took is the input up to next_in, what it handed out is in out) and   *)
(* what each point of the loops may rely on: a block is taken only when    *)
(* the last one is used up and the stream is open; it is closed only after *)
(* the last byte was given to it and it was told to finish.                *)
(***************************************************************************)
EXTENDS GzipLoops, SequenceTheorems, TLAPS

Constants == Chunk \in Nat /\ Chunk >= 1 /\ Lengths \subseteq Nat
             /\ Overhead \in Nat

LEMMA ConstantsFact == Constants
  BY GzipAssumption DEF Constants

Streams == [taken : Seq(Nat), made : Nat, gone : Nat, closed : BOOLEAN]

Positions ==
  /\ prog \in {"operator", "old_operator", "def", "inf"}
  /\ size \in Nat /\ member \in Nat
  /\ next_in \in Nat /\ avail_in \in Nat /\ read_in \in Nat
  /\ next_in + avail_in = read_in /\ read_in <= size
  /\ z \in Streams /\ z.gone <= z.made
  /\ z.taken = Upto(next_in, 0)
  /\ out = Upto(z.gone, 1)

Results ==
  /\ flush \in {"NO_FLUSH", "FINISH"} /\ full \in BOOLEAN
  /\ ret \in {"OK", "STREAM_END"}
  /\ ret = "STREAM_END" => z.closed /\ z.gone = z.made

Closing ==
  /\ flush = "FINISH" => read_in = size
  /\ prog \in {"old_operator", "inf"} => flush = "NO_FLUSH"
  /\ prog # "inf" /\ z.closed => avail_in = 0 /\ read_in = size
  /\ prog \in {"operator", "def"} /\ z.closed => flush = "FINISH"
  /\ prog = "inf" => next_in <= member /\ (z.closed <=> next_in = member)

Control ==
  /\ pc \in {"init", "block", "call", "returned", "threw", "errno",
             "data_error"}
  /\ pc = "init" => read_in = 0 /\ ~z.closed /\ flush = "NO_FLUSH"
  /\ pc = "block" => /\ prog # "old_operator"
                     /\ avail_in = 0 /\ ~z.closed /\ flush = "NO_FLUSH"
  /\ pc = "call" /\ prog = "old_operator" => read_in = size
  /\ pc = "returned" => ret = "STREAM_END"

LoopsInv == Positions /\ Results /\ Closing /\ Control
-----------------------------------------------------------------------------
(* A sequence of consecutive numbers goes on with the next ones.           *)
LEMMA UptoFacts ==
  ASSUME NEW n \in Nat, NEW f \in Nat
  PROVE  Upto(n, f) \in Seq(Nat) /\ Len(Upto(n, f)) = n
<1>1. \A i \in 1..n : f + i - 1 \in Nat
  OBVIOUS
<1>2. Upto(n, f) \in [1..n -> Nat]
  BY <1>1 DEF Upto
<1>3. Upto(n, f) \in Seq(Nat)
  BY <1>2
<1>4. DOMAIN Upto(n, f) = 1..n
  BY DEF Upto
<1> QED
  BY <1>3, <1>4, LenProperties

LEMMA UptoGrows ==
  ASSUME NEW n \in Nat, NEW f \in Nat, NEW k \in Nat
  PROVE  Upto(n, f) \o Upto(k, f + n) = Upto(n + k, f)
<1> DEFINE more == Upto(k, f + n)
<1>0. more \in Seq(Nat) /\ Len(more) = k
  BY UptoFacts
<1>a. \A i \in 1..k : more[i] = f + n + i - 1
  BY DEF Upto
<1> HIDE DEF more
<1>1. /\ Upto(n, f) \in Seq(Nat) /\ Len(Upto(n, f)) = n
      /\ Upto(n + k, f) \in Seq(Nat) /\ Len(Upto(n + k, f)) = n + k
  BY UptoFacts
<1> DEFINE s == Upto(n, f) \o more
<1>2. /\ s \in Seq(Nat) /\ Len(s) = n + k
      /\ \A i \in 1..(n + k) :
           s[i] = IF i <= n THEN Upto(n, f)[i] ELSE more[i - n]
  <2> DEFINE a == Upto(n, f)
  <2>1. a \in Seq(Nat) /\ Len(a) = n
    BY <1>1
  <2> HIDE DEF a
  <2>2. /\ a \o more \in Seq(Nat)
        /\ Len(a \o more) = Len(a) + Len(more)
        /\ \A i \in 1..(Len(a) + Len(more)) :
             (a \o more)[i] = IF i <= Len(a) THEN a[i] ELSE more[i - Len(a)]
    BY <1>0, <2>1, ConcatProperties
  <2>3. /\ a \o more \in Seq(Nat)
        /\ Len(a \o more) = n + k
        /\ \A i \in 1..(n + k) :
             (a \o more)[i] = IF i <= n THEN a[i] ELSE more[i - n]
    BY <1>0, <2>1, <2>2
  <2> QED
    BY <2>3 DEF a
<1>3. ASSUME NEW i \in 1..(n + k) PROVE s[i] = Upto(n + k, f)[i]
  <2>1. Upto(n + k, f)[i] = f + i - 1
    BY DEF Upto
  <2>2. CASE i <= n
    BY <1>2, <2>1, <2>2 DEF Upto
  <2>3. CASE i > n
    <3>1. i - n \in 1..k
      BY <2>3
    <3>2. s[i] = more[i - n]
      BY <1>2, <2>3
    <3>3. more[i - n] = f + n + (i - n) - 1
      BY <1>a, <3>1
    <3> QED
      BY <2>1, <3>2, <3>3
  <2>4. i <= n \/ i > n
    OBVIOUS
  <2> HIDE DEF s
  <2> QED
    BY <2>2, <2>3, <2>4
<1> HIDE DEF s
<1>4. s = Upto(n + k, f)
  BY <1>1, <1>2, <1>3, SeqEqual
<1> QED
  BY <1>4 DEF s, more

LEMMA MinOfTwo ==
  ASSUME NEW a \in Int, NEW b \in Int
  PROVE  Min({a, b}) = IF a <= b THEN a ELSE b
<1>1. CASE a <= b
  BY <1>1 DEF Min
<1>2. CASE ~(a <= b)
  BY <1>2 DEF Min
<1> QED
  BY <1>1, <1>2
-----------------------------------------------------------------------------
(* A call of zlib moves the positions on: what it takes is the input that  *)
(* comes next, what it hands out is appended.                              *)
LEMMA ApplyEffect ==
  ASSUME Constants, Positions,
         NEW r, r.used \in 0..avail_in, r.made \in Nat, r.made >= z.made,
         r.closed \in BOOLEAN, Apply(r)
  PROVE  /\ next_in' = next_in + r.used /\ next_in' \in Nat
         /\ avail_in' = avail_in - r.used /\ avail_in' \in Nat
         /\ z' \in Streams /\ z'.closed = r.closed /\ z'.gone <= z'.made
         /\ z'.taken = Upto(next_in', 0)
         /\ out' = Upto(z'.gone, 1)
         /\ full' \in BOOLEAN /\ (full' <=> r.made - z.gone >= Chunk)
         /\ ret' \in {"OK", "STREAM_END"}
         /\ ret' = "STREAM_END" <=> z'.closed /\ z'.gone = z'.made
         /\ ~full' => z'.gone = z'.made
<1> DEFINE room == r.made - z.gone
           put == Min({Chunk, room})
           more == [i \in 1..r.used |-> next_in + i - 1]
           text == [i \in 1..put |-> z.gone + i]
<1>1. /\ z.made \in Nat /\ z.gone \in Nat /\ z.gone <= z.made
      /\ z.taken = Upto(next_in, 0) /\ next_in \in Nat /\ avail_in \in Nat
      /\ r.used \in Nat /\ r.used <= avail_in /\ Chunk \in Nat /\ Chunk >= 1
  BY DEF Positions, Streams, Constants
<1>2. room \in Nat
  BY <1>1
<1>3. put = (IF Chunk <= room THEN Chunk ELSE room)
  BY <1>1, <1>2, MinOfTwo
<1>4. /\ z' = [taken  |-> z.taken \o more, made |-> r.made,
               gone   |-> z.gone + put, closed |-> r.closed]
      /\ out' = out \o text
      /\ full' = (put = Chunk)
      /\ ret' = IF r.closed /\ z.gone + put = r.made THEN "STREAM_END" ELSE "OK"
      /\ next_in' = next_in + r.used
      /\ avail_in' = avail_in - r.used
  BY DEF Apply
<1> HIDE DEF put, more, text
<1>5. put \in Nat /\ put <= room /\ put <= Chunk
      /\ (put = Chunk <=> room >= Chunk) /\ (put # Chunk => put = room)
  BY <1>1, <1>2, <1>3
<1>6. more = Upto(r.used, 0 + next_in)
  BY <1>1 DEF more, Upto
<1>7. text = Upto(put, 1 + z.gone)
  <2>1. \A i \in 1..put : 1 + z.gone + i - 1 = z.gone + i
    BY <1>1, <1>5
  <2> QED
    BY <2>1 DEF text, Upto
<1>8. z.taken \o more = Upto(next_in + r.used, 0)
  <2>1. PICK a \in Nat, u \in Nat : a = next_in /\ u = r.used
    BY <1>1
  <2>2. Upto(a, 0) \o Upto(u, 0 + a) = Upto(a + u, 0)
    BY UptoGrows
  <2>3. z.taken = Upto(a, 0) /\ more = Upto(u, 0 + a)
    BY <1>1, <1>6, <2>1
  <2> QED
    BY <2>1, <2>2, <2>3
<1>9. out \o text = Upto(z.gone + put, 1)
  <2>1. out = Upto(z.gone, 1)
    BY DEF Positions
  <2>2. PICK g \in Nat, u \in Nat : g = z.gone /\ u = put
    BY <1>1, <1>5
  <2>3. Upto(g, 1) \o Upto(u, 1 + g) = Upto(g + u, 1)
    BY UptoGrows
  <2>4. out = Upto(g, 1) /\ text = Upto(u, 1 + g)
    BY <1>7, <2>1, <2>2
  <2> QED
    BY <2>2, <2>3, <2>4
<1>10. next_in' \in Nat /\ avail_in' \in Nat
  <2>1. PICK a \in Nat, n \in Nat, u \in Nat : /\ a = avail_in /\ n = next_in
                                             /\ u = r.used /\ u <= a
    BY <1>1
  <2>2. next_in' = n + u /\ avail_in' = a - u
    BY <1>4, <2>1
  <2>3. n + u \in Nat /\ a - u \in Nat
    BY <2>1
  <2> QED
    BY <2>2, <2>3
<1>11. /\ z'.taken = z.taken \o more /\ z'.made = r.made
       /\ z'.gone = z.gone + put /\ z'.closed = r.closed
  BY <1>4
<1>12. z' \in Streams
  <2>1. z.taken \o more \in Seq(Nat)
    <3>0. next_in + r.used \in Nat /\ 0 \in Nat
      BY <1>1
    <3>1. Upto(next_in + r.used, 0) \in Seq(Nat)
      BY <3>0, UptoFacts
    <3> QED
      BY <1>8, <3>1
  <2>2. z.gone + put \in Nat
    BY <1>1, <1>5
  <2> QED
    BY <1>4, <2>1, <2>2 DEF Streams
<1>13. z'.gone <= z'.made /\ (~full' => z'.gone = z'.made)
  <2>1. z.gone + put <= r.made
    BY <1>1, <1>2, <1>5
  <2>2. put # Chunk => z.gone + put = r.made
    BY <1>1, <1>2, <1>5
  <2> QED
    BY <1>4, <1>11, <2>1, <2>2
<1> QED
  BY <1>1, <1>4, <1>5, <1>8, <1>9, <1>10, <1>11, <1>12, <1>13

(* What a call of deflate does while the stream may still be used: the     *)
(* positions move on, the stream is closed only by a call with FINISH that *)
(* has no input left, and a call that leaves room has done all it can.     *)
LEMMA DeflateEffect ==
  ASSUME Constants, Positions, NEW fl,
         Deflate(fl), z.closed => fl = "FINISH"
  PROVE  /\ next_in' \in Nat /\ avail_in' \in Nat
         /\ next_in' + avail_in' = next_in + avail_in
         /\ z' \in Streams /\ z'.gone <= z'.made
         /\ z'.taken = Upto(next_in', 0)
         /\ out' = Upto(z'.gone, 1)
         /\ full' \in BOOLEAN
         /\ ret' \in {"OK", "STREAM_END"}
         /\ ret' = "STREAM_END" <=> z'.closed /\ z'.gone = z'.made
         /\ z.closed => avail_in' <= avail_in
         /\ z'.closed /\ ~z.closed => fl = "FINISH" /\ avail_in' = 0
         /\ z.closed => z'.closed
         /\ ~full' => /\ z'.gone = z'.made
                      /\ avail_in' = 0 \/ z.closed
                      /\ fl = "FINISH" => z'.closed
<1>1. /\ z.made \in Nat /\ z.gone \in Nat /\ avail_in \in Nat /\ next_in \in Nat
      /\ z.closed \in BOOLEAN /\ Chunk \in Nat
  BY DEF Positions, Streams, Constants
<1>2. PICK r \in Outcomes(fl) : Apply(r)
  BY DEF Deflate
<1>3. /\ r.used \in 0..avail_in /\ r.made \in Nat /\ r.made >= z.made
      /\ r.closed \in BOOLEAN
      /\ z.closed => r.closed
      /\ r.closed /\ ~z.closed => fl = "FINISH" /\ r.used = avail_in
      /\ r.made - z.gone < Chunk /\ ~z.closed =>
            r.used = avail_in /\ (fl = "FINISH" => r.closed)
  <2>1. r \in [used : 0..avail_in, made : z.made..(size + Overhead),
               closed : BOOLEAN]
    BY <1>2 DEF Outcomes
  <2>2. r.used \in 0..avail_in /\ r.closed \in BOOLEAN
        /\ r.made \in z.made..(size + Overhead)
    BY <2>1
  <2>3. size + Overhead \in Nat
    BY DEF Positions, Constants
  <2>4. r.made \in Nat /\ r.made >= z.made
    BY <1>1, <2>2, <2>3
  <2> QED
    BY <1>2, <2>2, <2>4 DEF Outcomes
<1>4. /\ next_in' = next_in + r.used /\ next_in' \in Nat
      /\ avail_in' = avail_in - r.used /\ avail_in' \in Nat
      /\ z' \in Streams /\ z'.closed = r.closed /\ z'.gone <= z'.made
      /\ z'.taken = Upto(next_in', 0)
      /\ out' = Upto(z'.gone, 1)
      /\ full' \in BOOLEAN /\ (full' <=> r.made - z.gone >= Chunk)
      /\ ret' \in {"OK", "STREAM_END"}
      /\ ret' = "STREAM_END" <=> z'.closed /\ z'.gone = z'.made
      /\ ~full' => z'.gone = z'.made
  BY <1>2, <1>3, ApplyEffect
<1>5. r.used \in Nat /\ r.used <= avail_in
  BY <1>1, <1>3
<1>6. next_in' + avail_in' = next_in + avail_in /\ avail_in' <= avail_in
      /\ (r.used = avail_in => avail_in' = 0)
  BY <1>1, <1>4, <1>5
<1>7. ~full' => r.made - z.gone < Chunk
  BY <1>1, <1>3, <1>4
<1>8. z'.closed /\ ~z.closed => fl = "FINISH" /\ avail_in' = 0
  BY <1>3, <1>4, <1>6
<1>9. ~full' => (avail_in' = 0 \/ z.closed) /\ (fl = "FINISH" => z'.closed)
  BY <1>1, <1>3, <1>4, <1>6, <1>7
<1> QED
  BY <1>3, <1>4, <1>6, <1>8, <1>9

(* What a call of inflate does: it takes input up to the end of the member *)
(* and ends the stream there.                                              *)
LEMMA InflateEffect ==
  ASSUME Constants, Positions, Inflate,
         next_in <= member
  PROVE  /\ next_in' \in Nat /\ avail_in' \in Nat
         /\ next_in' + avail_in' = next_in + avail_in
         /\ z' \in Streams /\ z'.gone <= z'.made
         /\ z'.taken = Upto(next_in', 0)
         /\ out' = Upto(z'.gone, 1)
         /\ full' \in BOOLEAN
         /\ ret' \in {"OK", "STREAM_END"}
         /\ ret' = "STREAM_END" <=> z'.closed /\ z'.gone = z'.made
         /\ next_in' <= member /\ (z'.closed <=> next_in' = member)
         /\ ~full' => /\ z'.gone = z'.made
                      /\ avail_in' = 0 \/ z'.closed
<1>1. /\ z.made \in Nat /\ z.gone \in Nat /\ avail_in \in Nat /\ next_in \in Nat
      /\ Chunk \in Nat /\ member \in Nat /\ Len(z.taken) = next_in
  <2>1. Len(Upto(next_in, 0)) = next_in
    BY UptoFacts DEF Positions
  <2> QED
    BY <2>1 DEF Positions, Streams, Constants
<1> DEFINE left == member - Len(z.taken)
<1>2. left = member - next_in /\ left \in Nat
  BY <1>1
<1>3. PICK r \in [used : 0..Min({avail_in, left}), made : z.made..(size + Overhead),
                  closed : BOOLEAN] :
        /\ r.closed <=> r.used = left
        /\ r.made - z.gone < Chunk => r.closed \/ r.used = avail_in
        /\ Apply(r)
  BY DEF Inflate
<1> HIDE DEF left
<1>4. /\ r.used \in 0..avail_in /\ r.used <= left
      /\ r.made \in Nat /\ r.made >= z.made /\ r.closed \in BOOLEAN
  <2>1. r.used \in 0..Min({avail_in, left}) /\ r.closed \in BOOLEAN
        /\ r.made \in z.made..(size + Overhead)
    BY <1>3
  <2>2. size + Overhead \in Nat
    BY DEF Positions, Constants
  <2>3. r.made \in Nat /\ r.made >= z.made
    BY <1>1, <2>1, <2>2
  <2>4. Min({avail_in, left}) = IF avail_in <= left THEN avail_in ELSE left
    BY <1>1, <1>2, MinOfTwo
  <2>5. r.used \in 0..avail_in /\ r.used <= left
    BY <1>1, <1>2, <2>1, <2>4
  <2> QED
    BY <2>1, <2>3, <2>5
<1>5. /\ next_in' = next_in + r.used /\ next_in' \in Nat
      /\ avail_in' = avail_in - r.used /\ avail_in' \in Nat
      /\ z' \in Streams /\ z'.closed = r.closed /\ z'.gone <= z'.made
      /\ z'.taken = Upto(next_in', 0)
      /\ out' = Upto(z'.gone, 1)
      /\ full' \in BOOLEAN /\ (full' <=> r.made - z.gone >= Chunk)
      /\ ret' \in {"OK", "STREAM_END"}
      /\ ret' = "STREAM_END" <=> z'.closed /\ z'.gone = z'.made
      /\ ~full' => z'.gone = z'.made
  BY <1>3, <1>4, ApplyEffect
<1>6. r.used \in Nat /\ r.used <= avail_in
  BY <1>1, <1>4
<1>7. next_in' + avail_in' = next_in + avail_in
      /\ (r.used = avail_in => avail_in' = 0)
  BY <1>1, <1>5, <1>6
<1>8. next_in' <= member /\ (r.used = left <=> next_in' = member)
  BY <1>1, <1>2, <1>4, <1>5, <1>6
<1>9. ~full' => r.made - z.gone < Chunk
  BY <1>1, <1>4, <1>5
<1> QED
  BY <1>3, <1>5, <1>7, <1>8, <1>9
-----------------------------------------------------------------------------
LEMMA InitLoopsInv == Init => LoopsInv
<1> SUFFICES ASSUME Init PROVE LoopsInv
  OBVIOUS
<1>1. /\ prog \in {"operator", "old_operator", "def", "inf"}
      /\ size \in Nat /\ member \in Nat
      /\ prog = "inf" => member >= 1
  <2>1. size \in Nat
    BY ConstantsFact DEF Init, Constants
  <2>2. CASE prog = "inf"
    <3>1. PICK n \in Lengths : member \in 1..n
      BY <2>2 DEF Init
    <3>2. n \in Nat
      BY ConstantsFact DEF Constants
    <3>3. member \in Nat /\ member >= 1
      BY <3>1, <3>2
    <3> QED
      BY <2>1, <3>3 DEF Init
  <2>3. CASE prog # "inf"
    BY <2>1, <2>3 DEF Init
  <2> QED
    BY <2>2, <2>3
<1>2. /\ read_in = 0 /\ next_in = 0 /\ avail_in = 0 /\ flush = "NO_FLUSH"
      /\ full = FALSE /\ ret = "OK" /\ pc = "init" /\ out = <<>>
      /\ z = [taken |-> <<>>, made |-> 0, gone |-> 0, closed |-> FALSE]
  BY DEF Init
<1>3. z.taken = <<>> /\ z.made = 0 /\ z.gone = 0 /\ z.closed = FALSE
      /\ z \in Streams
  BY <1>2 DEF Streams
<1>4. Upto(0, 0) = <<>> /\ Upto(0, 1) = <<>>
  <2>1. \A f \in {0, 1} : Upto(0, f) \in Seq(Nat) /\ Len(Upto(0, f)) = 0
    BY UptoFacts
  <2> QED
    BY <2>1, EmptySeq
<1>5. Positions
  BY <1>1, <1>2, <1>3, <1>4 DEF Positions
<1>6. Results
  BY <1>2 DEF Results
<1>7. Closing
  BY <1>1, <1>2, <1>3 DEF Closing
<1>8. Control
  BY <1>2, <1>3 DEF Control
<1> QED
  BY <1>5, <1>6, <1>7, <1>8 DEF LoopsInv

LEMMA NextLengthFacts ==
  ASSUME Constants, Positions
  PROVE  /\ NextLength \in Nat /\ read_in + NextLength <= size
         /\ NextLength < Chunk => read_in + NextLength = size
<1>1. size - read_in \in Nat /\ Chunk \in Nat /\ read_in \in Nat /\ size \in Nat
  BY DEF Positions, Constants
<1>2. NextLength = IF Chunk <= size - read_in THEN Chunk ELSE size - read_in
  BY <1>1, MinOfTwo DEF NextLength
<1> QED
  BY <1>1, <1>2

(* The next block is given to the z_stream, which has used up the last.    *)
LEMMA FeedEffect ==
  ASSUME Constants, Positions, avail_in = 0, Feed(NextLength),
         UNCHANGED <<files, z, out>>
  PROVE  Positions' /\ next_in' = next_in
<1>1. /\ NextLength \in Nat /\ read_in + NextLength <= size
  BY NextLengthFacts
<1>2. /\ prog' = prog /\ size' = size /\ member' = member /\ z' = z /\ out' = out
  BY DEF files
<1>3. next_in' = read_in /\ avail_in' = NextLength /\ read_in' = read_in + NextLength
  BY DEF Feed
<1>4. /\ next_in \in Nat /\ next_in + avail_in = read_in /\ read_in \in Nat
      /\ size \in Nat
  BY DEF Positions
<1>5. next_in' = next_in
  BY <1>3, <1>4
<1>6. /\ avail_in' \in Nat /\ read_in' \in Nat /\ next_in' + avail_in' = read_in'
      /\ read_in' <= size'
  <2> DEFINE n == NextLength
  <2> HIDE DEF n
  <2>1. n \in Nat /\ read_in + n <= size /\ avail_in' = n /\ read_in' = read_in + n
    BY <1>1, <1>3 DEF n
  <2> QED
    BY <1>2, <1>3, <1>4, <2>1
<1> QED
  BY <1>2, <1>5, <1>6 DEF Positions

(* The point at which the loops go on after a call.                        *)
LEMMA GoOnEffect ==
  ASSUME NEW again \in BOOLEAN, NEW end \in BOOLEAN, GoOn(again, end),
         ret' \in {"OK", "STREAM_END"}
  PROVE  /\ again => pc' = "call"
         /\ ~again /\ end => pc' = "returned"
         /\ ~again /\ ~end => pc' = "block"
<1>1. ret' # "STREAM_ERROR"
  OBVIOUS
<1>2. CASE again
  BY <1>1, <1>2 DEF GoOn
<1>3. CASE ~again /\ end
  BY <1>1, <1>3 DEF GoOn
<1>4. CASE ~again /\ ~end
  BY <1>1, <1>4 DEF GoOn
<1> QED
  BY <1>2, <1>3, <1>4

(* Only the point of the program changes.                                  *)
LEMMA OnlyPc ==
  ASSUME LoopsInv,
         UNCHANGED <<files, read_in, next_in, avail_in, flush, full, ret, z, out>>
  PROVE  Positions' /\ Results' /\ Closing'
<1>1. /\ prog' = prog /\ size' = size /\ member' = member /\ read_in' = read_in
      /\ next_in' = next_in /\ avail_in' = avail_in /\ flush' = flush
      /\ full' = full /\ ret' = ret /\ z' = z /\ out' = out
  BY DEF files
<1>2. Positions'
  BY <1>1 DEF LoopsInv, Positions
<1>3. Results' /\ Closing'
  BY <1>1 DEF LoopsInv, Results, Closing
<1> QED
  BY <1>2, <1>3

(* A call of deflate in one of the compressors, which asks it to finish    *)
(* only when all the input was read.                                       *)
LEMMA DeflateKeeps ==
  ASSUME Constants, LoopsInv, prog # "inf",
         NEW fl, Deflate(fl),
         z.closed => fl = "FINISH", fl = "FINISH" => read_in = size,
         prog \in {"operator", "def"} => fl = flush,
         UNCHANGED <<files, read_in, flush>>
  PROVE  /\ Positions' /\ Results' /\ Closing'
         /\ full' \in BOOLEAN /\ ret' \in {"OK", "STREAM_END"}
         /\ z'.closed /\ ~z.closed => fl = "FINISH"
         /\ ret' = "STREAM_END" <=> z'.closed /\ z'.gone = z'.made
         /\ z.closed => z'.closed
         /\ ~full' => /\ z'.gone = z'.made
                      /\ avail_in' = 0 \/ z.closed
                      /\ fl = "FINISH" => z'.closed
<1>1. Positions /\ Results /\ Closing
  BY DEF LoopsInv
<1>2. /\ next_in' \in Nat /\ avail_in' \in Nat
      /\ next_in' + avail_in' = next_in + avail_in
      /\ z' \in Streams /\ z'.gone <= z'.made
      /\ z'.taken = Upto(next_in', 0)
      /\ out' = Upto(z'.gone, 1)
      /\ full' \in BOOLEAN
      /\ ret' \in {"OK", "STREAM_END"}
      /\ ret' = "STREAM_END" <=> z'.closed /\ z'.gone = z'.made
      /\ z.closed => avail_in' <= avail_in
      /\ z'.closed /\ ~z.closed => fl = "FINISH" /\ avail_in' = 0
      /\ z.closed => z'.closed
      /\ ~full' => /\ z'.gone = z'.made
                   /\ avail_in' = 0 \/ z.closed
                   /\ fl = "FINISH" => z'.closed
  BY <1>1, DeflateEffect
<1>3. /\ prog' = prog /\ size' = size /\ member' = member /\ read_in' = read_in
      /\ flush' = flush
  BY DEF files
<1>4. Positions'
  BY <1>1, <1>2, <1>3 DEF Positions
<1>5. Results'
  BY <1>1, <1>2, <1>3 DEF Results
<1>6. Closing'
  <2>1. z'.closed => avail_in' = 0 /\ read_in = size
    <3>1. CASE z.closed
      <4>1. avail_in = 0 /\ read_in = size
        BY <1>1, <3>1 DEF Closing
      <4> QED
        BY <1>2, <3>1, <4>1
    <3>2. CASE ~z.closed
      BY <1>2, <3>2
    <3> QED
      BY <3>1, <3>2
  <2>2. prog \in {"operator", "def"} /\ z'.closed => flush = "FINISH"
    BY <1>1, <1>2 DEF Closing
  <2> QED
    BY <1>1, <1>3, <2>1, <2>2 DEF Closing
<1> QED
  BY <1>2, <1>4, <1>5, <1>6

LEMMA NextLoopsInv == LoopsInv /\ [Next]_vars => LoopsInv'
<1> SUFFICES ASSUME LoopsInv, [Next]_vars PROVE LoopsInv'
  OBVIOUS
<1> USE ConstantsFact
<1>1. Positions /\ Results /\ Closing /\ Control
  BY DEF LoopsInv
<1>2. /\ next_in \in Nat /\ avail_in \in Nat /\ read_in \in Nat
      /\ size \in Nat /\ member \in Nat /\ read_in <= size
      /\ next_in + avail_in = read_in /\ z.closed \in BOOLEAN
  BY <1>1 DEF Positions, Streams
<1>3. CASE Begin
  <2>1. Positions' /\ Results' /\ Closing'
    BY <1>3, OnlyPc DEF Begin
  <2>2. pc = "init" /\ prog # "old_operator" /\ pc' \in {"block", "threw"}
        /\ UNCHANGED <<prog, avail_in, z, flush>>
    BY <1>3 DEF Begin, files
  <2>3. read_in = 0 /\ ~z.closed /\ avail_in = 0 /\ flush = "NO_FLUSH"
    BY <1>1, <1>2, <2>2 DEF Control
  <2>4. Control'
    BY <2>2, <2>3 DEF Control
  <2> QED
    BY <2>1, <2>4 DEF LoopsInv
<1>4. CASE OldBegin
  <2>1. /\ pc = "init" /\ prog = "old_operator"
        /\ \/ avail_in' = size /\ read_in' = size /\ pc' = "call"
           \/ avail_in' = avail_in /\ read_in' = read_in /\ pc' = "threw"
        /\ prog' = prog /\ size' = size /\ member' = member /\ next_in' = next_in
        /\ flush' = flush /\ full' = full /\ ret' = ret /\ z' = z /\ out' = out
    BY <1>4 DEF OldBegin, files
  <2>2. read_in = 0 /\ ~z.closed /\ flush = "NO_FLUSH" /\ next_in = 0
    BY <1>1, <1>2, <2>1 DEF Control
  <2>3. /\ avail_in' \in Nat /\ read_in' \in Nat /\ next_in' + avail_in' = read_in'
        /\ read_in' <= size'
    BY <1>2, <2>1, <2>2
  <2>4. Positions'
    BY <1>1, <2>1, <2>3 DEF Positions
  <2>5. Results' /\ Closing'
    BY <1>1, <2>1, <2>2 DEF Results, Closing
  <2>6. Control'
    BY <2>1 DEF Control
  <2> QED
    BY <2>4, <2>5, <2>6 DEF LoopsInv
<1>5. CASE NextBlock
  <2>1. /\ pc = "block" /\ prog # "inf" /\ Feed(NextLength)
        /\ flush' = FlushFor(NextLength) /\ pc' = "call"
        /\ UNCHANGED <<files, full, ret, z, out>>
    BY <1>5 DEF NextBlock
  <2>2. prog # "old_operator" /\ avail_in = 0 /\ ~z.closed
    BY <1>1, <2>1 DEF Control
  <2>3. Positions'
    BY <1>1, <2>1, <2>2, FeedEffect
  <2>4. flush' \in {"NO_FLUSH", "FINISH"}
        /\ (flush' = "FINISH" => read_in' = size)
    BY <1>1, <2>1, NextLengthFacts DEF Feed, FlushFor
  <2>5. prog' = prog /\ size' = size /\ z' = z /\ full' = full /\ ret' = ret
    BY <2>1 DEF files
  <2>6. Results' /\ Closing' /\ Control'
    BY <1>1, <2>1, <2>2, <2>4, <2>5 DEF Results, Closing, Control, Positions
  <2> QED
    BY <2>3, <2>6 DEF LoopsInv
<1>6. CASE OperatorCall
  <2>1. /\ prog = "operator" /\ Deflate(flush) /\ GoOn(full', ret' = "STREAM_END")
        /\ UNCHANGED <<files, read_in, flush>>
    BY <1>6 DEF OperatorCall, RoomFilled
  <2>2. (z.closed => flush = "FINISH") /\ (flush = "FINISH" => read_in = size)
    BY <1>1, <2>1 DEF Closing
  <2>3. /\ Positions' /\ Results' /\ Closing'
        /\ full' \in BOOLEAN /\ ret' \in {"OK", "STREAM_END"}
        /\ ret' = "STREAM_END" <=> z'.closed /\ z'.gone = z'.made
        /\ z.closed => z'.closed
        /\ ~full' => /\ z'.gone = z'.made
                     /\ avail_in' = 0 \/ z.closed
                     /\ flush = "FINISH" => z'.closed
    BY <2>1, <2>2, DeflateKeeps
  <2>4. /\ full' => pc' = "call"
        /\ ~full' /\ ret' = "STREAM_END" => pc' = "returned"
        /\ ~full' /\ ret' # "STREAM_END" => pc' = "block"
    BY <2>1, <2>3, GoOnEffect
  <2>5. prog' = "operator" /\ flush' = flush
    BY <2>1 DEF files
  <2>6. flush \in {"NO_FLUSH", "FINISH"}
    BY <1>1 DEF Results
  <2>7. Control'
    BY <2>3, <2>4, <2>5, <2>6 DEF Control
  <2> QED
    BY <2>3, <2>7 DEF LoopsInv
<1>7. CASE OldOperatorCall
  <2> DEFINE fl == IF avail_in > 0 THEN "NO_FLUSH" ELSE "FINISH"
  <2>1. /\ prog = "old_operator" /\ pc = "call"
        /\ Deflate(fl) /\ GoOn(ret' # "STREAM_END", TRUE)
        /\ UNCHANGED <<files, read_in, flush>>
    BY <1>7 DEF OldOperatorCall
  <2>2. (z.closed => fl = "FINISH") /\ read_in = size
    BY <1>1, <1>2, <2>1 DEF Closing, Control
  <2> HIDE DEF fl
  <2>3. Positions' /\ Results' /\ Closing' /\ ret' \in {"OK", "STREAM_END"}
    BY <2>1, <2>2, DeflateKeeps
  <2>4. /\ ret' # "STREAM_END" => pc' = "call"
        /\ ret' = "STREAM_END" => pc' = "returned"
    <3>1. /\ (ret' # "STREAM_END") => pc' = "call"
          /\ ~(ret' # "STREAM_END") /\ TRUE => pc' = "returned"
      BY <2>1, <2>3, GoOnEffect
    <3> QED
      BY <3>1
  <2>5. prog' = "old_operator" /\ size' = size /\ read_in' = read_in
    BY <2>1 DEF files
  <2>6. Control'
    BY <2>2, <2>4, <2>5 DEF Control
  <2> QED
    BY <2>3, <2>6 DEF LoopsInv
<1>8. CASE DefCall
  <2>1. /\ prog = "def" /\ Deflate(flush) /\ GoOn(full', flush = "FINISH")
        /\ UNCHANGED <<files, read_in, flush>>
    BY <1>8 DEF DefCall, MoreOutput
  <2>2. (z.closed => flush = "FINISH") /\ (flush = "FINISH" => read_in = size)
    BY <1>1, <2>1 DEF Closing
  <2>3. /\ Positions' /\ Results' /\ Closing'
        /\ full' \in BOOLEAN /\ ret' \in {"OK", "STREAM_END"}
        /\ z'.closed /\ ~z.closed => flush = "FINISH"
        /\ ret' = "STREAM_END" <=> z'.closed /\ z'.gone = z'.made
        /\ ~full' => /\ z'.gone = z'.made
                     /\ avail_in' = 0 \/ z.closed
                     /\ flush = "FINISH" => z'.closed
    BY <2>1, <2>2, DeflateKeeps
  <2>4. /\ full' => pc' = "call"
        /\ ~full' /\ flush = "FINISH" => pc' = "returned"
        /\ ~full' /\ flush # "FINISH" => pc' = "block"
    BY <2>1, <2>3, GoOnEffect
  <2>5. prog' = "def" /\ flush' = flush
    BY <2>1 DEF files
  <2>6. flush \in {"NO_FLUSH", "FINISH"}
    BY <1>1 DEF Results
  <2>7. Control'
    BY <2>2, <2>3, <2>4, <2>5, <2>6 DEF Control
  <2> QED
    BY <2>3, <2>7 DEF LoopsInv
<1>9. CASE InfBlock
  <2>1. prog = "inf" /\ pc = "block" /\ UNCHANGED <<files, flush, full, ret, z, out>>
    BY <1>9 DEF InfBlock
  <2>2. avail_in = 0 /\ ~z.closed /\ flush = "NO_FLUSH"
    BY <1>1, <2>1 DEF Control
  <2>3. CASE NextLength = 0
    <3>1. /\ pc' = IF ret = "STREAM_END" THEN "returned" ELSE "data_error"
          /\ UNCHANGED <<next_in, avail_in, read_in>>
      BY <1>9, <2>3 DEF InfBlock
    <3>2. Positions' /\ Results' /\ Closing'
      BY <2>1, <3>1, OnlyPc
    <3>3. Control'
      BY <2>1, <3>1 DEF Control
    <3> QED
      BY <3>2, <3>3 DEF LoopsInv
  <2>4. CASE NextLength # 0
    <3>1. Feed(NextLength) /\ pc' = "call"
      BY <1>9, <2>4 DEF InfBlock
    <3>2. Positions' /\ next_in' = next_in
      BY <1>1, <2>1, <2>2, <3>1, FeedEffect
    <3>3. prog' = prog /\ member' = member /\ flush' = flush /\ full' = full
          /\ ret' = ret /\ z' = z
      BY <2>1 DEF files
    <3>4. Results' /\ Closing' /\ Control'
      BY <1>1, <2>1, <2>2, <3>1, <3>2, <3>3 DEF Results, Closing, Control
    <3> QED
      BY <3>2, <3>4 DEF LoopsInv
  <2> QED
    BY <2>3, <2>4
<1>10. CASE InfCall
  <2>1. /\ prog = "inf" /\ Inflate /\ GoOn(full', ret' = "STREAM_END")
        /\ UNCHANGED <<files, read_in, flush>>
    BY <1>10 DEF InfCall
  <2>2. next_in <= member /\ flush = "NO_FLUSH"
    BY <1>1, <2>1 DEF Closing
  <2>3. /\ next_in' \in Nat /\ avail_in' \in Nat
        /\ next_in' + avail_in' = next_in + avail_in
        /\ z' \in Streams /\ z'.gone <= z'.made
        /\ z'.taken = Upto(next_in', 0)
        /\ out' = Upto(z'.gone, 1)
        /\ full' \in BOOLEAN
        /\ ret' \in {"OK", "STREAM_END"}
        /\ ret' = "STREAM_END" <=> z'.closed /\ z'.gone = z'.made
        /\ next_in' <= member /\ (z'.closed <=> next_in' = member)
        /\ ~full' => /\ z'.gone = z'.made
                     /\ avail_in' = 0 \/ z'.closed
    BY <1>1, <2>1, <2>2, InflateEffect
  <2>4. /\ full' => pc' = "call"
        /\ ~full' /\ ret' = "STREAM_END" => pc' = "returned"
        /\ ~full' /\ ret' # "STREAM_END" => pc' = "block"
    BY <2>1, <2>3, GoOnEffect
  <2>5. prog' = prog /\ size' = size /\ member' = member /\ flush' = flush
        /\ read_in' = read_in
    BY <2>1 DEF files
  <2>6. Positions'
    BY <1>1, <2>3, <2>5 DEF Positions
  <2>7. Results' /\ Closing'
    BY <1>1, <2>1, <2>2, <2>3, <2>5 DEF Results, Closing
  <2>8. Control'
    BY <2>1, <2>2, <2>3, <2>4, <2>5 DEF Control
  <2> QED
    BY <2>6, <2>7, <2>8 DEF LoopsInv
<1>11. CASE InfInvalid \/ IOFails
  <2>1. Positions' /\ Results' /\ Closing'
    BY <1>11, OnlyPc DEF InfInvalid, IOFails
  <2>2. pc' \in {"data_error", "errno"}
    BY <1>11 DEF InfInvalid, IOFails
  <2>3. Control'
    BY <2>2 DEF Control
  <2> QED
    BY <2>1, <2>3 DEF LoopsInv
<1>12. CASE UNCHANGED vars
  <2>1. Positions' /\ Results' /\ Closing'
    BY <1>12, OnlyPc DEF vars
  <2>2. Control'
    BY <1>1, <1>12 DEF vars, files, Control
  <2> QED
    BY <2>1, <2>2 DEF LoopsInv
<1> QED
  BY <1>3, <1>4, <1>5, <1>6, <1>7, <1>8, <1>9, <1>10, <1>11, <1>12 DEF Next
-----------------------------------------------------------------------------
(* Where the loops and the z_stream stand, for every size of the input,    *)
(* every size of the chunk and whatever zlib does with them.               *)
THEOREM LoopsInvariance == Spec => [](TypeOK /\ LoopsInv)
<1>1. LoopsInv => TypeOK
  <2> SUFFICES ASSUME LoopsInv PROVE TypeOK
    OBVIOUS
  <2>1. /\ next_in \in Nat /\ avail_in \in Nat /\ read_in \in Nat
        /\ size \in Nat /\ read_in <= size /\ next_in + avail_in = read_in
        /\ z.gone \in Nat /\ z.made \in Nat /\ z.gone <= z.made
    BY DEF LoopsInv, Positions, Streams
  <2>2. /\ read_in \in 0..size /\ next_in \in 0..size /\ avail_in \in 0..size
        /\ next_in + avail_in <= size /\ z.gone \in 0..z.made
    BY <2>1
  <2> QED
    BY <2>2 DEF LoopsInv, Results, Control, TypeOK
<1> QED
  BY <1>1, InitLoopsInv, NextLoopsInv, PTL DEF Spec

(* A call that returns has fed all of its input to zlib, in order, and has *)
(* collected all of zlib's output, in order.                               *)
THEOREM NothingIsLost == Spec => []Complete
<1>1. LoopsInv => Complete
  <2> SUFFICES ASSUME LoopsInv, pc = "returned"
               PROVE  /\ z.taken = Upto(IF prog = "inf" THEN member ELSE size, 0)
                      /\ z.closed /\ out = Upto(z.made, 1)
    BY DEF Complete
  <2>1. z.closed /\ z.gone = z.made
    BY DEF LoopsInv, Control, Results
  <2>2. next_in = IF prog = "inf" THEN member ELSE size
    <3>1. CASE prog = "inf"
      BY <2>1, <3>1 DEF LoopsInv, Closing
    <3>2. CASE prog # "inf"
      BY <2>1, <3>2 DEF LoopsInv, Closing, Positions
    <3> QED
      BY <3>1, <3>2
  <2> QED
    BY <2>1, <2>2 DEF LoopsInv, Positions
<1> QED
  BY <1>1, LoopsInvariance, PTL

(* The assertions of def() succeed, in the other loops as well; neither    *)
(* operator() throws "deflate failed".                                     *)
THEOREM AssertionsSucceed == Spec => []DefAsserts
<1>1. LoopsInv => DefAsserts
  BY DEF LoopsInv, Control, Results, Closing, DefAsserts
<1> QED
  BY <1>1, LoopsInvariance, PTL
=============================================================================
