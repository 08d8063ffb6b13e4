---------------------------- MODULE ChunksProofs ----------------------------
(***************************************************************************)
(* Facts about the division in enqueue_task(buf, len) and about the pieces *)
(* it cuts, for every len and every number of threads.                     *)
(***************************************************************************)
EXTENDS Chunks, TLAPS

(* Division rounds down.                                                   *)
LEMMA DivBounds ==
  ASSUME NEW a \in Nat, NEW b \in Nat \ {0}
  PROVE  /\ a \div b \in Nat
         /\ b * (a \div b) <= a
         /\ a < b * (a \div b) + b
  BY SMT

LEMMA TimesMonotonic ==
  ASSUME NEW c \in Nat, NEW m \in Nat, NEW n \in Nat, m <= n
  PROVE  /\ c * m \in Nat /\ c * n \in Nat
         /\ c * m <= c * n
  BY SMT

LEMMA DivUnique ==
  ASSUME NEW a \in Nat, NEW b \in Nat \ {0}, NEW q \in Nat,
         b * q <= a, a < b * q + b
  PROVE  a \div b = q
<1> DEFINE d == a \div b
<1>1. /\ d \in Nat /\ b * d <= a /\ a < b * d + b
  BY DivBounds
<1> HIDE DEF d
<1>2. b * q + b = b * (q + 1) /\ b * d + b = b * (d + 1)
  BY <1>1
<1>3. ~(q + 1 <= d)
  <2> SUFFICES ASSUME q + 1 <= d PROVE FALSE
    OBVIOUS
  <2>1. b * (q + 1) <= b * d /\ b * (q + 1) \in Nat /\ b * d \in Nat
    BY <1>1, TimesMonotonic
  <2> QED
    BY <1>1, <1>2, <2>1
<1>4. ~(d + 1 <= q)
  <2> SUFFICES ASSUME d + 1 <= q PROVE FALSE
    OBVIOUS
  <2>1. b * (d + 1) <= b * q /\ b * (d + 1) \in Nat /\ b * q \in Nat
    BY <1>1, TimesMonotonic
  <2> QED
    BY <1>1, <1>2, <2>1
<1> QED
  BY <1>1, <1>3, <1>4 DEF d

(* chunk_size = len / threads_: at least a byte per chunk exactly when     *)
(* there is a byte per thread.                                             *)
LEMMA ChunkSizeFacts ==
  ASSUME NEW len \in Nat, NEW threads \in Nat \ {0}
  PROVE  /\ ChunkSize(len, threads) \in Nat
         /\ ChunkSize(len, threads) <= len
         /\ threads <= len <=> ChunkSize(len, threads) > 0
<1> DEFINE c == len \div threads
<1>1. c \in Nat /\ threads * c <= len /\ len < threads * c + threads
  BY DivBounds
<1> HIDE DEF c
<1>2. c <= len
  <2>1. c * 1 <= c * threads /\ c * threads = threads * c /\ c * 1 = c
    BY <1>1, TimesMonotonic
  <2> QED
    BY <1>1, <2>1
<1>3. c > 0 => threads <= len
  <2> SUFFICES ASSUME c > 0 PROVE threads <= len
    OBVIOUS
  <2>1. threads * 1 <= threads * c /\ threads * 1 = threads
    BY <1>1, TimesMonotonic
  <2> QED
    BY <1>1, <2>1
<1>4. c = 0 => len < threads
  BY <1>1
<1> QED
  BY <1>1, <1>2, <1>3, <1>4 DEF c, ChunkSize

(* The number of pieces: the last one is neither empty nor too long.       *)
LEMMA NumChunksUnique ==
  ASSUME NEW len \in Nat \ {0}, NEW threads \in Nat \ {0}, threads <= len,
         NEW n \in Nat \ {0},
         (n - 1) * ChunkSize(len, threads) < len,
         len <= n * ChunkSize(len, threads)
  PROVE  NumChunks(len, threads) = n
<1> DEFINE c == ChunkSize(len, threads)
<1>1. c \in Nat \ {0}
  BY ChunkSizeFacts
<1> HIDE DEF c
<1>2. (n - 1) * c = n * c - c /\ n * c = c * n /\ n * c \in Nat
  BY <1>1
<1>3. len + c - 1 \in Nat /\ c * n <= len + c - 1 /\ len + c - 1 < c * n + c
  BY <1>1, <1>2 DEF c
<1> QED
  BY <1>1, <1>3, DivUnique DEF c, NumChunks

LEMMA NumChunksFacts ==
  ASSUME NEW len \in Nat \ {0}, NEW threads \in Nat \ {0}, threads <= len
  PROVE  /\ NumChunks(len, threads) \in Nat \ {0}
         /\ (NumChunks(len, threads) - 1) * ChunkSize(len, threads) < len
         /\ len <= NumChunks(len, threads) * ChunkSize(len, threads)
<1> DEFINE c == ChunkSize(len, threads)
           n == (len + c - 1) \div c
<1>1. c \in Nat \ {0}
  BY ChunkSizeFacts
<1> HIDE DEF c
<1>2. len + c - 1 \in Nat
  BY <1>1
<1>3. n \in Nat /\ c * n <= len + c - 1 /\ len + c - 1 < c * n + c
  BY <1>1, <1>2, DivBounds
<1> HIDE DEF n
<1>4. n # 0
  BY <1>1, <1>3
<1>5. (n - 1) * c = n * c - c /\ n * c = c * n /\ n * c \in Nat
  BY <1>1, <1>3
<1> QED
  BY <1>1, <1>3, <1>4, <1>5 DEF c, n, NumChunks

(* The pieces of a buffer of len bytes: they start at its first byte, each *)
(* starts where the one before it ends, the last ends at its last byte,    *)
(* and none is empty.                                                      *)
THEOREM PiecesTile ==
  ASSUME NEW len \in Nat \ {0}, NEW threads \in Nat \ {0}, threads <= len
  PROVE  LET p == Pieces(len, threads)
             n == NumChunks(len, threads)
         IN  /\ n \in Nat \ {0}
             /\ p \in [1..n -> [off : Nat, size : Nat \ {0}]]
             /\ p[1].off = 0
             /\ \A i \in 1..(n - 1) : p[i + 1].off = p[i].off + p[i].size
             /\ p[n].off + p[n].size = len
<1> DEFINE c == ChunkSize(len, threads)
           n == NumChunks(len, threads)
           p == Pieces(len, threads)
<1>1. c \in Nat \ {0}
  BY ChunkSizeFacts
<1>2. n \in Nat \ {0} /\ (n - 1) * c < len /\ len <= n * c
  BY NumChunksFacts
<1>3. p = [i \in 1..n |-> [off  |-> (i - 1) * c,
                          size |-> IF i < n THEN c ELSE len - (n - 1) * c]]
  BY DEF Pieces
<1> HIDE DEF c, n, p
<1>4. (n - 1) * c \in Nat
  BY <1>1, <1>2
<1>5. \A i \in 1..n : (i - 1) * c \in Nat
  BY <1>1, <1>2
<1>6. p \in [1..n -> [off : Nat, size : Nat \ {0}]]
  BY <1>1, <1>2, <1>3, <1>4, <1>5
<1>7. p[1].off = 0
  <2>1. (1 - 1) * c = 0
    BY <1>1
  <2> QED
    BY <1>2, <1>3, <2>1
<1>8. ASSUME NEW i \in 1..(n - 1) PROVE p[i + 1].off = p[i].off + p[i].size
  <2>1. (i + 1 - 1) * c = (i - 1) * c + c
    BY <1>1, <1>2
  <2>2. p[i].off = (i - 1) * c /\ p[i].size = c /\ p[i + 1].off = (i + 1 - 1) * c
    BY <1>2, <1>3
  <2> QED
    BY <2>1, <2>2
<1>9. p[n].off + p[n].size = len
  <2>1. p[n].off = (n - 1) * c /\ p[n].size = len - (n - 1) * c
    BY <1>2, <1>3
  <2> QED
    BY <1>4, <2>1
<1> QED
  BY <1>2, <1>6, <1>7, <1>8, <1>9 DEF n, p

(* Every byte of the buffer is in exactly one piece, and no piece reaches  *)
(* past the end of the buffer.                                             *)
THEOREM PiecesPartition ==
  ASSUME NEW len \in Nat \ {0}, NEW threads \in Nat \ {0}, threads <= len
  PROVE  LET p == Pieces(len, threads)
             n == NumChunks(len, threads)
             In(b, i) == p[i].off <= b /\ b < p[i].off + p[i].size
         IN  /\ \A i \in 1..n : p[i].off + p[i].size <= len
             /\ \A b \in 0..(len - 1) : \E i \in 1..n : In(b, i)
             /\ \A b \in 0..(len - 1) : \A i, j \in 1..n : In(b, i) /\ In(b, j) => i = j
<1> DEFINE c == ChunkSize(len, threads)
           n == NumChunks(len, threads)
           p == Pieces(len, threads)
           In(b, i) == p[i].off <= b /\ b < p[i].off + p[i].size
<1>1. c \in Nat \ {0}
  BY ChunkSizeFacts
<1>2. n \in Nat \ {0} /\ (n - 1) * c < len /\ len <= n * c
  BY NumChunksFacts
<1>3. p = [i \in 1..n |-> [off  |-> (i - 1) * c,
                          size |-> IF i < n THEN c ELSE len - (n - 1) * c]]
  BY DEF Pieces
<1> HIDE DEF c, n, p
<1>4. \A i \in 1..n : /\ p[i].off = (i - 1) * c
                      /\ p[i].size = IF i < n THEN c ELSE len - (n - 1) * c
  BY <1>3
<1>5. \A k \in Nat : k * c = c * k /\ c * k \in Nat /\ (k + 1) * c = c * k + c
  BY <1>1
<1>6. ASSUME NEW i \in 1..n
      PROVE  /\ p[i].off = c * (i - 1) /\ p[i].off \in Nat /\ p[i].size \in Nat
             /\ p[i].size <= c /\ p[i].off + p[i].size <= len
  <2>1. i - 1 \in Nat /\ p[i].off = c * (i - 1) /\ c * (i - 1) \in Nat
    BY <1>2, <1>4, <1>5
  <2>2. CASE i < n
    <3>1. i <= n - 1 /\ n - 1 \in Nat
      BY <1>2, <2>2
    <3>2. c * i <= c * (n - 1) /\ c * i = c * (i - 1) + c /\ c * (n - 1) < len
          /\ c * i \in Nat /\ c * (n - 1) \in Nat
      <4>1. c * i <= c * (n - 1) /\ c * i \in Nat /\ c * (n - 1) \in Nat
        BY <1>1, <3>1, TimesMonotonic
      <4>2. (i - 1 + 1) * c = c * (i - 1) + c /\ i - 1 + 1 = i /\ i * c = c * i
        BY <1>5, <2>1
      <4>3. (n - 1) * c = c * (n - 1)
        BY <1>5, <3>1
      <4> QED
        BY <1>2, <4>1, <4>2, <4>3
    <3>3. p[i].size = c
      BY <1>4, <2>2
    <3> QED
      BY <1>1, <2>1, <3>2, <3>3
  <2>3. CASE ~(i < n)
    <3>1. i = n
      BY <1>2, <2>3
    <3>2. p[i].size = len - (n - 1) * c /\ (n - 1) * c = c * (n - 1) /\ c * (n - 1) \in Nat
          /\ n * c = c * (n - 1) + c
      <4>1. n - 1 \in Nat /\ n - 1 + 1 = n
        BY <1>2
      <4> QED
        BY <1>4, <1>5, <2>3, <4>1
    <3> QED
      BY <1>1, <1>2, <2>1, <3>1, <3>2
  <2> QED
    BY <2>2, <2>3
<1>7. ASSUME NEW b \in 0..(len - 1), NEW i \in 1..n, In(b, i)
      PROVE  i = b \div c + 1
  <2>1. i - 1 \in Nat /\ b \in Nat
    BY <1>2
  <2>2. c * (i - 1) <= b /\ b < c * (i - 1) + c
    BY <1>1, <1>6, <1>7, <2>1
  <2>3. b \div c = i - 1
    BY <1>1, <2>1, <2>2, DivUnique
  <2> DEFINE d == b \div c
  <2>4. d = i - 1
    BY <2>3
  <2> HIDE DEF d
  <2>5. i = d + 1
    BY <2>4
  <2> QED
    BY <2>5 DEF d
<1>8. ASSUME NEW b \in 0..(len - 1) PROVE \E i \in 1..n : In(b, i)
  <2> DEFINE d == b \div c
  <2>1. b \in Nat /\ d \in Nat /\ c * d <= b /\ b < c * d + c
    BY <1>1, DivBounds
  <2> HIDE DEF d
  <2>2. d < n
    <3> SUFFICES ASSUME ~(d < n) PROVE FALSE
      OBVIOUS
    <3>1. c * n <= c * d /\ c * n \in Nat /\ c * d \in Nat
      BY <1>1, <1>2, <2>1, TimesMonotonic
    <3>2. n * c = c * n
      BY <1>2, <1>5
    <3> QED
      BY <1>2, <2>1, <3>1, <3>2
  <2>3. d + 1 \in 1..n /\ d + 1 - 1 = d
    BY <1>2, <2>1, <2>2
  <2>4. p[d + 1].off = c * d
    <3> DEFINE k == d + 1
    <3>1. k \in 1..n /\ k - 1 = d
      BY <2>1, <2>3
    <3> HIDE DEF k
    <3>2. p[k].off = c * (k - 1)
      BY <1>6, <3>1
    <3>3. p[k].off = c * d
      BY <3>1, <3>2
    <3> QED
      BY <3>3 DEF k
  <2>5. b < p[d + 1].off + p[d + 1].size
    <3>1. CASE d + 1 < n
      BY <1>4, <2>1, <2>3, <2>4, <3>1
    <3>2. CASE ~(d + 1 < n)
      <4>1. d + 1 = n /\ n - 1 = d
        BY <1>2, <2>1, <2>3, <3>2
      <4>2. p[d + 1].size = len - d * c /\ d * c = c * d /\ c * d \in Nat
        BY <1>4, <1>5, <2>1, <2>3, <3>2, <4>1
      <4> QED
        BY <2>4, <4>2
    <3> QED
      BY <3>1, <3>2
  <2> QED
    BY <2>1, <2>3, <2>4, <2>5
<1> QED
  <2>1. \A b \in 0..(len - 1) : \A i, j \in 1..n : In(b, i) /\ In(b, j) => i = j
    <3> SUFFICES ASSUME NEW b \in 0..(len - 1), NEW i \in 1..n, NEW j \in 1..n,
                        In(b, i), In(b, j)
                 PROVE  i = j
      OBVIOUS
    <3>1. i = b \div c + 1
      BY <1>7
    <3>2. j = b \div c + 1
      BY <1>7
    <3> QED
      BY <3>1, <3>2
  <2> QED
    BY <1>6, <1>8, <2>1 DEF n, p
=============================================================================
