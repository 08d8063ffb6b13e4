----------------------------- MODULE CacheProofs -----------------------------
(***************************************************************************)
(* Theorems about BufferCache and CacheTests, for any number of threads    *)
(* and any sizes of the caches.                                            *)
(***************************************************************************)
EXTENDS CacheTests, ChunksProofs, SequenceTheorems, FiniteSetTheorems,
        FunctionTheorems

-----------------------------------------------------------------------------
(* The pools as sets.                                                      *)

NoRepeats(s) == \A i, j \in 1..Len(s) : s[i] = s[j] => i = j

(* Taking the last element of a pool.                                      *)
LEMMA PopLast ==
  ASSUME NEW S, NEW s \in Seq(S), s # <<>>, NoRepeats(s)
  PROVE  /\ Front(s) \in Seq(S)
         /\ Len(Front(s)) = Len(s) - 1
         /\ NoRepeats(Front(s))
         /\ Last(s) \in ToSet(s)
         /\ Last(s) \in S
         /\ ToSet(Front(s)) = ToSet(s) \ {Last(s)}
<1>1. Len(s) \in Nat \ {0} /\ DOMAIN s = 1..Len(s) /\ \A i \in 1..Len(s) : s[i] \in S
  BY EmptySeq, LenProperties, ElementOfSeq
<1> DEFINE r == SubSeq(s, 1, Len(s) - 1)
<1>2. /\ r \in Seq(S) /\ Len(r) = Len(s) - 1
      /\ \A i \in 1..(Len(s) - 1) : r[i] = s[i]
  <2>1. /\ r \in Seq(S)
        /\ Len(r) = IF 1 <= Len(s) - 1 THEN Len(s) - 1 - 1 + 1 ELSE 0
        /\ \A i \in 1..(Len(s) - 1 - 1 + 1) : r[i] = s[1 + i - 1]
    BY <1>1, SubSeqProperties
  <2> QED
    BY <1>1, <2>1
<1>3. DOMAIN r = 1..(Len(s) - 1)
  BY <1>2, LenProperties
<1> HIDE DEF r
<1>4. NoRepeats(r)
  BY <1>1, <1>2 DEF NoRepeats
<1>5. ASSUME NEW x \in ToSet(s) \ {s[Len(s)]} PROVE x \in ToSet(r)
  BY <1>1, <1>2, <1>3 DEF ToSet
<1>6. ASSUME NEW x \in ToSet(r) PROVE x \in ToSet(s) \ {s[Len(s)]}
  BY <1>1, <1>2, <1>3 DEF ToSet, NoRepeats
<1>7. s[Len(s)] \in ToSet(s)
  BY <1>1 DEF ToSet
<1> QED
  BY <1>1, <1>2, <1>4, <1>5, <1>6, <1>7 DEF Front, Last, r

(* Putting a new element at the end.                                       *)
LEMMA PushBack ==
  ASSUME NEW S, NEW s \in Seq(S), NoRepeats(s), NEW e \in S, e \notin ToSet(s)
  PROVE  /\ Append(s, e) \in Seq(S)
         /\ Len(Append(s, e)) = Len(s) + 1
         /\ NoRepeats(Append(s, e))
         /\ ToSet(Append(s, e)) = ToSet(s) \cup {e}
<1>1. Len(s) \in Nat /\ DOMAIN s = 1..Len(s)
  BY LenProperties
<1> DEFINE r == Append(s, e)
<1>2. /\ r \in Seq(S) /\ Len(r) = Len(s) + 1
      /\ \A i \in 1..Len(s) : r[i] = s[i]
      /\ r[Len(s) + 1] = e
  BY AppendProperties
<1>3. DOMAIN r = 1..(Len(s) + 1)
  BY <1>2, LenProperties
<1> HIDE DEF r
<1>4. NoRepeats(r)
  BY <1>1, <1>2 DEF NoRepeats, ToSet
<1>5. ASSUME NEW x \in ToSet(r) PROVE x \in ToSet(s) \cup {e}
  BY <1>1, <1>2, <1>3 DEF ToSet
<1>6. ASSUME NEW x \in ToSet(s) PROVE x \in ToSet(r)
  BY <1>1, <1>2, <1>3 DEF ToSet
<1>7. e \in ToSet(r)
  <2>1. Len(s) + 1 \in DOMAIN r
    BY <1>1, <1>3
  <2> QED
    BY <1>2, <2>1 DEF ToSet
<1> QED
  BY <1>2, <1>4, <1>5, <1>6, <1>7 DEF r

(* A pool has as many elements as its vector.                              *)
LEMMA PoolSize ==
  ASSUME NEW S, NEW s \in Seq(S), NoRepeats(s)
  PROVE  IsFiniteSet(ToSet(s)) /\ Cardinality(ToSet(s)) = Len(s)
<1>1. Len(s) \in Nat /\ s \in [1..Len(s) -> S] /\ DOMAIN s = 1..Len(s)
  BY LenProperties
<1>2. s \in Bijection(1..Len(s), ToSet(s))
  BY <1>1 DEF ToSet, NoRepeats, Bijection, Injection, Surjection, IsInjective
<1>3. ExistsBijection(1..Len(s), ToSet(s))
  BY <1>2 DEF ExistsBijection
<1> QED
  BY <1>1, <1>3, FS_CountingElements, FS_NatBijection

LEMMA EmptyPool == ToSet(<<>>) = {} /\ NoRepeats(<<>>) /\ Len(<<>>) = 0
  BY DEF ToSet, NoRepeats

-----------------------------------------------------------------------------
(* Who owns a buffer.                                                      *)

Cached(t) == ToSet(local[t])
Pooled(c) == ToSet(global[c])

(* No two places have a buffer in common, and the buffers in some place    *)
(* are those that are alive.                                               *)
Apart ==
  /\ \A t, u \in Threads : t # u => Cached(t) \cap Cached(u) = {}
  /\ \A c, d \in Caches : c # d => Pooled(c) \cap Pooled(d) = {}
  /\ \A t, u \in Threads : \A c, d \in Caches :
       <<t, c>> # <<u, d>> => held[t][c] \cap held[u][d] = {}
  /\ \A t \in Threads, c \in Caches : Cached(t) \cap Pooled(c) = {}
  /\ \A t, u \in Threads, c \in Caches :
       /\ Cached(t) \cap held[u][c] = {}
       /\ \A d \in Caches : Pooled(d) \cap held[u][c] = {}

AliveOwned ==
  \A b \in Buffers :
    b \in Alive <=> \/ \E t \in Threads : b \in Cached(t)
                    \/ \E c \in Caches : b \in Pooled(c)
                    \/ \E t \in Threads, c \in Caches : b \in held[t][c]

Pools ==
  /\ \A t \in Threads : NoRepeats(local[t])
  /\ \A c \in Caches : NoRepeats(global[c])

OwnerInv == Pools /\ Apart /\ AliveOwned

LEMMA Constants ==
  /\ IsFiniteSet(Threads) /\ Threads \subseteq Nat \ {0}
  /\ NumCaches \in Nat \ {0} /\ MaxHeld \in Nat \ {0}
  /\ CtorThreads \in Nat /\ MaxLocal \in Nat /\ MaxBuffers \in Nat
  /\ Threads = 1..(NumCaches - 1) /\ Cardinality(Threads) = NumCaches - 1
  /\ 1 \in Caches
  /\ \A t \in Threads : t + 1 \in Caches
  /\ 0 \notin Caches
<1>1. IsFiniteSet(Threads) /\ Cardinality(Threads) \in Nat
  BY CacheAssumption, FS_CardinalityType
<1>2. /\ NumCaches \in Nat \ {0} /\ MaxHeld \in Nat \ {0}
      /\ CtorThreads \in Nat /\ MaxLocal \in Nat /\ MaxBuffers \in Nat
  BY CacheAssumption
<1>3. /\ Threads \subseteq Nat \ {0}
      /\ NumCaches = Cardinality(Threads) + 1 /\ Threads = 1..(NumCaches - 1)
  BY TestAssumption
<1>4. Cardinality(Threads) = NumCaches - 1
  BY <1>1, <1>2, <1>3
<1>5. 1 \in Caches /\ 0 \notin Caches
  BY <1>2 DEF Caches
<1>6. ASSUME NEW t \in Threads PROVE t + 1 \in Caches
  <2>1. t \in 1..(NumCaches - 1)
    BY <1>3
  <2> QED
    BY <1>2, <2>1 DEF Caches
<1> QED
  BY <1>1, <1>2, <1>3, <1>4, <1>5, <1>6

(* The steps of the caches, whoever takes them.                            *)
CacheStep(t, c) ==
  \/ GetLocal(t, c) \/ GetGlobal(t, c) \/ Miss(t, c) \/ MakeBuffer(t)
  \/ GiveBackBuffer(t, c) \/ ThreadExit(t)

LEMMA StepsAreCacheSteps ==
  ASSUME [Next]_allVars
  PROVE  \/ UNCHANGED vars
         \/ \E t \in Threads : \E c \in {1, t + 1} : CacheStep(t, c)
<1>1. ASSUME NEW t \in Threads, TestStep(t)
      PROVE  UNCHANGED vars \/ CacheStep(t, CacheOf(t))
  BY <1>1 DEF TestStep, TestGet, TestGive, Mark, Expected, Compare, Again,
              TestExit, GetBuffer, CacheStep
<1>2. ASSUME NEW t \in Threads, AnyStep(t) PROVE CacheStep(t, 1)
  BY <1>2 DEF AnyStep, GetBuffer, CacheStep
<1>3. \A t \in Threads : CacheOf(t) \in {1, t + 1}
  BY DEF CacheOf
<1> QED
  BY <1>1, <1>2, <1>3 DEF Next, allVars

(* What each step moves.                                                   *)
LEMMA GetLocalEffect ==
  ASSUME TypeOK, Pools, NEW t \in Threads, NEW c \in Caches, GetLocal(t, c)
  PROVE  \E b \in Cached(t) :
           /\ b \in Buffers
           /\ local' \in [Threads -> Seq(Buffers)]
           /\ NoRepeats(local'[t])
           /\ Len(local'[t]) = Len(local[t]) - 1
           /\ \A u \in Threads : u # t => local'[u] = local[u]
           /\ ToSet(local'[t]) = Cached(t) \ {b}
           /\ held' = [held EXCEPT ![t][c] = @ \cup {b}]
           /\ UNCHANGED <<global, missed, madeBy>>
<1>1. local[t] \in Seq(Buffers) /\ local[t] # <<>> /\ NoRepeats(local[t])
  BY DEF TypeOK, Pools, GetLocal
<1>2. local' = [local EXCEPT ![t] = Front(local[t])]
  BY DEF GetLocal
<1>3. local \in [Threads -> Seq(Buffers)]
  BY DEF TypeOK
<1>4. local'[t] = Front(local[t])
  BY <1>2, <1>3
<1>5. /\ Front(local[t]) \in Seq(Buffers)
      /\ Len(Front(local[t])) = Len(local[t]) - 1
      /\ NoRepeats(Front(local[t]))
      /\ Last(local[t]) \in ToSet(local[t])
      /\ Last(local[t]) \in Buffers
      /\ ToSet(Front(local[t])) = ToSet(local[t]) \ {Last(local[t])}
  BY <1>1, PopLast
<1> QED
  BY <1>2, <1>3, <1>4, <1>5 DEF Cached, GetLocal, Hand

LEMMA GetGlobalEffect ==
  ASSUME TypeOK, Pools, NEW t \in Threads, NEW c \in Caches, GetGlobal(t, c)
  PROVE  \E b \in Pooled(c) :
           /\ b \in Buffers
           /\ global' \in [Caches -> Seq(Buffers)]
           /\ NoRepeats(global'[c])
           /\ Len(global'[c]) = Len(global[c]) - 1
           /\ \A d \in Caches : d # c => global'[d] = global[d]
           /\ ToSet(global'[c]) = Pooled(c) \ {b}
           /\ held' = [held EXCEPT ![t][c] = @ \cup {b}]
           /\ UNCHANGED <<local, missed, madeBy>>
<1>1. global[c] \in Seq(Buffers) /\ global[c] # <<>> /\ NoRepeats(global[c])
  BY DEF TypeOK, Pools, GetGlobal
<1>2. global' = [global EXCEPT ![c] = Front(global[c])]
  BY DEF GetGlobal
<1>3. global \in [Caches -> Seq(Buffers)]
  BY DEF TypeOK
<1>4. global'[c] = Front(global[c])
  BY <1>2, <1>3
<1>5. /\ Front(global[c]) \in Seq(Buffers)
      /\ Len(Front(global[c])) = Len(global[c]) - 1
      /\ NoRepeats(Front(global[c]))
      /\ Last(global[c]) \in ToSet(global[c])
      /\ Last(global[c]) \in Buffers
      /\ ToSet(Front(global[c])) = ToSet(global[c]) \ {Last(global[c])}
  BY <1>1, PopLast
<1> QED
  BY <1>2, <1>3, <1>4, <1>5 DEF Pooled, GetGlobal, Hand

(* Min of a set of buffers is one of them.                                 *)
LEMMA MinExists ==
  ASSUME NEW S, S \subseteq Nat, S # {}
  PROVE  Min(S) \in S
<1> DEFINE less == {p \in Nat \X Nat : p[1] < p[2]}
<1>1. IsWellFoundedOn(less, Nat)
  BY NatLessThanWellFounded DEF OpToRel
<1>2. PICK x \in S : \A y \in S : ~(<<y, x>> \in less)
  <2> HIDE DEF less
  <2> QED
    BY <1>1, WFMin
<1>3. ASSUME NEW y \in S PROVE x <= y
  <2>1. x \in Nat /\ y \in Nat /\ <<y, x>> \in Nat \X Nat
    OBVIOUS
  <2>2. ~(<<y, x>>[1] < <<y, x>>[2])
    BY <1>2, <2>1
  <2> QED
    BY <2>1, <2>2
<1> QED
  BY <1>3 DEF Min

LEMMA MakeBufferEffect ==
  ASSUME TypeOK, NEW t \in Threads, MakeBuffer(t)
  PROVE  \E b \in Buffers :
           /\ missed[t] \in Caches
           /\ madeBy[b] = 0
           /\ held' = [held EXCEPT ![t][missed[t]] = @ \cup {b}]
           /\ madeBy' = [madeBy EXCEPT ![b] = missed[t]]
           /\ missed' = [missed EXCEPT ![t] = 0]
           /\ UNCHANGED <<local, global>>
<1>1. Min(Fresh) \in Fresh
  BY MinExists, Constants DEF MakeBuffer, Fresh, Buffers
<1>2. missed[t] \in Caches
  BY Constants DEF MakeBuffer, TypeOK, Caches
<1> QED
  BY <1>1, <1>2 DEF MakeBuffer, Hand, Fresh

LEMMA GiveBackEffect ==
  ASSUME TypeOK, OwnerInv, NEW t \in Threads, NEW c \in Caches,
         GiveBackBuffer(t, c)
  PROVE  \E b \in held[t][c] :
           /\ b \in Buffers
           /\ held' = [held EXCEPT ![t][c] = @ \ {b}]
           /\ UNCHANGED <<missed, madeBy>>
           /\ \/ /\ Len(local[t]) < MaxLocal
                 /\ local' = [local EXCEPT ![t] = Append(local[t], b)]
                 /\ local'[t] \in Seq(Buffers)
                 /\ Len(local'[t]) = Len(local[t]) + 1
                 /\ NoRepeats(local'[t])
                 /\ ToSet(local'[t]) = Cached(t) \cup {b}
                 /\ UNCHANGED global
              \/ /\ Len(local[t]) >= MaxLocal
                 /\ global' = [global EXCEPT ![c] = Append(global[c], b)]
                 /\ global'[c] \in Seq(Buffers)
                 /\ NoRepeats(global'[c])
                 /\ ToSet(global'[c]) = Pooled(c) \cup {b}
                 /\ UNCHANGED local
<1>1. PICK b \in held[t][c] :
        /\ held' = [held EXCEPT ![t][c] = @ \ {b}]
        /\ local' = IF LocalRoom(t) THEN [local EXCEPT ![t] = Append(@, b)]
                                    ELSE local
        /\ global' = IF ~LocalRoom(t) THEN [global EXCEPT ![c] = Append(@, b)]
                                      ELSE global
  BY DEF GiveBackBuffer, GlobalInstead
<1>2. b \in Buffers /\ b \notin Cached(t) /\ b \notin Pooled(c)
  BY DEF TypeOK, OwnerInv, Apart
<1>3. /\ local \in [Threads -> Seq(Buffers)] /\ local[t] \in Seq(Buffers)
      /\ global \in [Caches -> Seq(Buffers)] /\ global[c] \in Seq(Buffers)
      /\ NoRepeats(local[t]) /\ NoRepeats(global[c])
      /\ Len(local[t]) \in Nat /\ MaxLocal \in Nat
  BY Constants, LenProperties DEF TypeOK, OwnerInv, Pools
<1>4. CASE LocalRoom(t)
  <2>1. /\ local' = [local EXCEPT ![t] = Append(local[t], b)]
        /\ global' = global /\ Len(local[t]) < MaxLocal
    BY <1>1, <1>4 DEF LocalRoom
  <2>2. local'[t] = Append(local[t], b)
    BY <1>3, <2>1
  <2>3. /\ Append(local[t], b) \in Seq(Buffers)
        /\ Len(Append(local[t], b)) = Len(local[t]) + 1
        /\ NoRepeats(Append(local[t], b))
        /\ ToSet(Append(local[t], b)) = ToSet(local[t]) \cup {b}
    BY <1>2, <1>3, PushBack DEF Cached
  <2> QED
    BY <1>1, <1>2, <2>1, <2>2, <2>3 DEF GiveBackBuffer, Cached
<1>5. CASE ~LocalRoom(t)
  <2>1. /\ global' = [global EXCEPT ![c] = Append(global[c], b)]
        /\ local' = local /\ Len(local[t]) >= MaxLocal
    BY <1>1, <1>3, <1>5 DEF LocalRoom
  <2>2. global'[c] = Append(global[c], b)
    BY <1>3, <2>1
  <2>3. /\ Append(global[c], b) \in Seq(Buffers)
        /\ NoRepeats(Append(global[c], b))
        /\ ToSet(Append(global[c], b)) = ToSet(global[c]) \cup {b}
    BY <1>2, <1>3, PushBack DEF Pooled
  <2> QED
    BY <1>1, <1>2, <2>1, <2>2, <2>3 DEF GiveBackBuffer, Pooled
<1> QED
  BY <1>4, <1>5

LEMMA ThreadExitEffect ==
  ASSUME TypeOK, NEW t \in Threads, ThreadExit(t)
  PROVE  /\ local' \in [Threads -> Seq(Buffers)] /\ local'[t] = <<>>
         /\ \A u \in Threads : u # t => local'[u] = local[u]
         /\ held' = [held EXCEPT ![t] = [c \in Caches |-> {}]]
         /\ madeBy' = [b \in Buffers |->
              IF b \in Cached(t) \cup HeldBy(t) THEN 0 ELSE madeBy[b]]
         /\ UNCHANGED <<global, missed>>
<1>1. <<>> \in Seq(Buffers)
  BY EmptySeq
<1> QED
  BY <1>1 DEF ThreadExit, TypeOK, Cached

-----------------------------------------------------------------------------
(* The initial state: the constructors divide the first buffers evenly.    *)

LEMMA InitialPool ==
  ASSUME Init, NEW c \in Caches
  PROVE  /\ global[c] \in Seq(Buffers)
         /\ NoRepeats(global[c])
         /\ Len(global[c]) = 2 * CtorThreads
         /\ \A b \in Buffers : b \in Pooled(c) <=> madeBy[b] = c
<1> DEFINE k == 2 * CtorThreads
           o == k * (c - 1)
           all == k * NumCaches
<1>1. /\ k \in Nat /\ NumCaches \in Nat \ {0} /\ MaxBuffers \in Nat
      /\ c \in Nat \ {0} /\ c <= NumCaches
  BY Constants DEF Caches
<1>2. /\ global[c] = [i \in 1..k |-> o + i]
      /\ \A b \in Buffers : madeBy[b] = IF b > all THEN 0
                                        ELSE ((b - 1) \div k) + 1
  BY DEF Init
<1>3. o \in Nat /\ all \in Nat /\ o + k <= all
  <2> HIDE DEF k
  <2>1. o \in Nat /\ k * c = o + k
    BY <1>1
  <2>2. k * c <= k * NumCaches /\ k * NumCaches \in Nat
    BY <1>1, TimesMonotonic
  <2> QED
    BY <1>1, <2>1, <2>2
<1>4. all <= MaxBuffers
  BY CacheAssumption
<1> DEFINE s == global[c]
<1> HIDE DEF k, o, all, s
<1>5. s = [i \in 1..k |-> o + i]
  BY <1>2 DEF s
<1>6. ASSUME NEW i \in 1..k PROVE s[i] = o + i /\ o + i \in Buffers
  BY <1>1, <1>3, <1>4, <1>5 DEF Buffers
<1>7. s \in Seq(Buffers)
  <2>1. s \in [1..k -> Buffers]
    BY <1>5, <1>6
  <2> QED
    BY <1>1, <2>1, SeqDef
<1>8. Len(s) = k /\ DOMAIN s = 1..k
  <2>1. Len(s) \in Nat /\ DOMAIN s = 1..Len(s)
    BY <1>7, LenProperties
  <2>2. DOMAIN s = 1..k
    BY <1>5
  <2>3. \A i \in Nat \ {0} : i <= Len(s) <=> i <= k
    <3>1. \A i \in Nat \ {0} : i \in 1..Len(s) <=> i \in 1..k
      BY <2>1, <2>2
    <3> QED
      BY <1>1, <2>1, <3>1
  <2> DEFINE n == Len(s)
  <2>4. n \in Nat /\ (n > 0 => n <= k) /\ (k > 0 => k <= n)
    BY <1>1, <2>1, <2>3
  <2> HIDE DEF n
  <2>5. n = k
    BY <1>1, <2>4
  <2> QED
    BY <2>2, <2>5 DEF n
<1>9. NoRepeats(s)
  BY <1>1, <1>3, <1>6, <1>8 DEF NoRepeats
<1>10. ASSUME NEW b \in Buffers, b \in ToSet(s) PROVE madeBy[b] = c
  <2>1. PICK i \in 1..k : b = o + i
    BY <1>6, <1>8, <1>10 DEF ToSet
  <2>2. b - 1 \in Nat /\ o <= b - 1 /\ b - 1 < o + k /\ ~(b > all) /\ k \in Nat \ {0}
        /\ c - 1 \in Nat
    BY <1>1, <1>3, <2>1
  <2>3. (b - 1) \div k = c - 1
    BY <2>2, DivUnique DEF o
  <2> QED
    BY <1>1, <1>2, <2>2, <2>3
<1>11. ASSUME NEW b \in Buffers, madeBy[b] = c PROVE b \in ToSet(s)
  <2>1. b \in Nat \ {0}
    BY <1>1 DEF Buffers
  <2>2. ~(b > all)
    BY <1>1, <1>2, <1>11
  <2>3. k # 0
    <3> SUFFICES ASSUME k = 0 PROVE FALSE
      OBVIOUS
    <3>1. all = 0
      BY <1>1 DEF all
    <3> QED
      BY <2>1, <2>2, <3>1
  <2> DEFINE q == (b - 1) \div k
  <2>4. q \in Nat /\ k * q <= b - 1 /\ b - 1 < k * q + k
    BY <1>1, <2>1, <2>3, DivBounds
  <2>5. q + 1 = c
    BY <1>2, <1>11, <2>2
  <2> HIDE DEF q
  <2>6. q = c - 1
    BY <1>1, <2>4, <2>5
  <2>7. o <= b - 1 /\ b - 1 < o + k
    BY <2>4, <2>6 DEF o
  <2>8. PICK i \in 1..k : i = b - o
    BY <1>1, <1>3, <2>1, <2>7
  <2>9. b = s[i]
    BY <1>3, <1>6, <2>1, <2>8
  <2> QED
    BY <1>8, <2>9 DEF ToSet
<1> QED
  BY <1>7, <1>8, <1>9, <1>10, <1>11 DEF s, k, Pooled

LEMMA InitOwnerInv == Init => TypeOK /\ OwnerInv
<1> SUFFICES ASSUME Init PROVE TypeOK /\ OwnerInv
  OBVIOUS
<1>1. <<>> \in Seq(Buffers) /\ Len(<<>>) = 0 /\ MaxLocal \in Nat /\ NumCaches \in Nat
  BY EmptySeq, Constants
<1>2. local \in [Threads -> Seq(Buffers)] /\ \A t \in Threads : Len(local[t]) <= MaxLocal
  BY <1>1 DEF Init
<1>3. global \in [Caches -> Seq(Buffers)]
  <2>1. global = [c \in Caches |-> global[c]]
    BY DEF Init
  <2> QED
    BY <2>1, InitialPool
<1>4. /\ held \in [Threads -> [Caches -> SUBSET Buffers]]
      /\ missed \in [Threads -> 0..NumCaches]
  BY <1>1 DEF Init
<1>5. ASSUME NEW b \in Buffers PROVE madeBy[b] \in 0..NumCaches
  <2> DEFINE k == 2 * CtorThreads
             all == k * NumCaches
             q == (b - 1) \div k
  <2>1. madeBy[b] = IF b > all THEN 0 ELSE q + 1
    BY DEF Init
  <2>2. k \in Nat /\ b \in Nat \ {0}
    BY Constants DEF Buffers
  <2>3. CASE b > all
    BY <1>1, <2>1, <2>3
  <2>4. CASE ~(b > all)
    <3> HIDE DEF k
    <3>1. all = k * NumCaches /\ k # 0
      <4> SUFFICES ASSUME k = 0 PROVE FALSE
        OBVIOUS
      <4>1. all = 0
        BY <1>1
      <4> QED
        BY <2>2, <2>4, <4>1
    <3>2. q \in Nat /\ k * q <= b - 1
      BY <2>2, <3>1, DivBounds
    <3> HIDE DEF q
    <3>3. q < NumCaches
      <4> SUFFICES ASSUME NumCaches <= q PROVE FALSE
        BY <1>1, <3>2
      <4>1. k * NumCaches <= k * q /\ k * NumCaches \in Nat /\ k * q \in Nat
        BY <1>1, <2>2, <3>2, TimesMonotonic
      <4> QED
        BY <2>2, <2>4, <3>2, <4>1
    <3> QED
      BY <1>1, <2>1, <2>4, <3>2, <3>3
  <2> QED
    BY <2>3, <2>4
<1>6. madeBy \in [Buffers -> 0..NumCaches]
  <2>1. madeBy = [b \in Buffers |-> madeBy[b]]
    BY DEF Init
  <2> QED
    BY <1>5, <2>1
<1>7. /\ \A t \in Threads : Cached(t) = {} /\ NoRepeats(local[t])
      /\ \A t \in Threads, c \in Caches : held[t][c] = {}
  BY EmptyPool DEF Init, Cached
<1>8. \A c \in Caches :
        /\ NoRepeats(global[c])
        /\ \A b \in Buffers : b \in Pooled(c) <=> madeBy[b] = c
  BY InitialPool
<1>9. \A c \in Caches : Pooled(c) \subseteq Buffers
  BY <1>3, LenProperties, ElementOfSeq DEF Pooled, ToSet
<1>10. Apart
  BY <1>7, <1>8, <1>9 DEF Apart
<1>11. AliveOwned
  BY <1>1, <1>6, <1>7, <1>8 DEF AliveOwned, Alive, Caches
<1> QED
  BY <1>2, <1>3, <1>4, <1>6, <1>7, <1>8, <1>10, <1>11
  DEF TypeOK, OwnerInv, Pools

-----------------------------------------------------------------------------
(* Every step moves a buffer from one place to another, brings a new one   *)
(* to life in one place, or frees what is in the places it clears.         *)

LEMMA GetLocalOwner ==
  ASSUME TypeOK, OwnerInv, NEW t \in Threads, NEW c \in Caches, GetLocal(t, c)
  PROVE  TypeOK' /\ OwnerInv'
<1>1. PICK b \in Cached(t) :
        /\ b \in Buffers
        /\ local' \in [Threads -> Seq(Buffers)]
        /\ NoRepeats(local'[t])
        /\ Len(local'[t]) = Len(local[t]) - 1
        /\ \A u \in Threads : u # t => local'[u] = local[u]
        /\ ToSet(local'[t]) = Cached(t) \ {b}
        /\ held' = [held EXCEPT ![t][c] = @ \cup {b}]
        /\ UNCHANGED <<global, missed, madeBy>>
  BY GetLocalEffect DEF OwnerInv
<1>2. /\ held \in [Threads -> [Caches -> SUBSET Buffers]]
      /\ \A u \in Threads : Len(local[u]) \in Nat
  BY LenProperties DEF TypeOK
<1>3. TypeOK'
  <2>1. ASSUME NEW u \in Threads PROVE Len(local'[u]) <= MaxLocal
    <3>1. Len(local[u]) \in Nat /\ Len(local[u]) <= MaxLocal /\ MaxLocal \in Nat
      BY <1>2, Constants DEF TypeOK
    <3>2. CASE u = t
      BY <1>1, <3>1, <3>2
    <3>3. CASE u # t
      BY <1>1, <3>1, <3>3
    <3> QED
      BY <3>2, <3>3
  <2>2. held' \in [Threads -> [Caches -> SUBSET Buffers]]
    BY <1>1, <1>2
  <2> QED
    BY <1>1, <2>1, <2>2 DEF TypeOK
<1>4. /\ \A u \in Threads : Cached(u)' = IF u = t THEN Cached(t) \ {b} ELSE Cached(u)
      /\ \A d \in Caches : Pooled(d)' = Pooled(d)
      /\ Alive' = Alive
      /\ \A u \in Threads, d \in Caches :
           held'[u][d] = IF u = t /\ d = c THEN held[t][c] \cup {b} ELSE held[u][d]
  BY <1>1, <1>2 DEF Cached, Pooled, Alive
<1>5. Pools'
  BY <1>1 DEF Pools, OwnerInv
<1>6. Apart'
  BY <1>4 DEF Apart, OwnerInv
<1>7. AliveOwned'
  BY <1>4 DEF AliveOwned, OwnerInv
<1> QED
  BY <1>3, <1>5, <1>6, <1>7 DEF OwnerInv

LEMMA GetGlobalOwner ==
  ASSUME TypeOK, OwnerInv, NEW t \in Threads, NEW c \in Caches, GetGlobal(t, c)
  PROVE  TypeOK' /\ OwnerInv'
<1>1. PICK b \in Pooled(c) :
        /\ b \in Buffers
        /\ global' \in [Caches -> Seq(Buffers)]
        /\ NoRepeats(global'[c])
        /\ Len(global'[c]) = Len(global[c]) - 1
        /\ \A d \in Caches : d # c => global'[d] = global[d]
        /\ ToSet(global'[c]) = Pooled(c) \ {b}
        /\ held' = [held EXCEPT ![t][c] = @ \cup {b}]
        /\ UNCHANGED <<local, missed, madeBy>>
  BY GetGlobalEffect DEF OwnerInv
<1>2. held \in [Threads -> [Caches -> SUBSET Buffers]]
  BY DEF TypeOK
<1>3. TypeOK'
  <2>1. held' \in [Threads -> [Caches -> SUBSET Buffers]]
    BY <1>1, <1>2
  <2> QED
    BY <1>1, <2>1 DEF TypeOK
<1>4. /\ \A u \in Threads : Cached(u)' = Cached(u)
      /\ \A d \in Caches : Pooled(d)' = IF d = c THEN Pooled(c) \ {b} ELSE Pooled(d)
      /\ Alive' = Alive
      /\ \A u \in Threads, d \in Caches :
           held'[u][d] = IF u = t /\ d = c THEN held[t][c] \cup {b} ELSE held[u][d]
  BY <1>1, <1>2 DEF Cached, Pooled, Alive
<1>5. Pools'
  BY <1>1 DEF Pools, OwnerInv
<1>6. Apart'
  BY <1>4 DEF Apart, OwnerInv
<1>7. AliveOwned'
  BY <1>4 DEF AliveOwned, OwnerInv
<1> QED
  BY <1>3, <1>5, <1>6, <1>7 DEF OwnerInv

LEMMA MakeBufferOwner ==
  ASSUME TypeOK, OwnerInv, NEW t \in Threads, MakeBuffer(t)
  PROVE  TypeOK' /\ OwnerInv'
<1>1. PICK b \in Buffers :
        /\ missed[t] \in Caches
        /\ madeBy[b] = 0
        /\ held' = [held EXCEPT ![t][missed[t]] = @ \cup {b}]
        /\ madeBy' = [madeBy EXCEPT ![b] = missed[t]]
        /\ missed' = [missed EXCEPT ![t] = 0]
        /\ UNCHANGED <<local, global>>
  BY MakeBufferEffect
<1> DEFINE c == missed[t]
<1>2. /\ held \in [Threads -> [Caches -> SUBSET Buffers]]
      /\ madeBy \in [Buffers -> 0..NumCaches]
      /\ missed \in [Threads -> 0..NumCaches]
      /\ c \in 0..NumCaches /\ 0 \in 0..NumCaches /\ c # 0
  BY <1>1, Constants DEF TypeOK, Caches
<1>3. TypeOK'
  <2>1. held' \in [Threads -> [Caches -> SUBSET Buffers]]
    BY <1>1, <1>2
  <2>2. madeBy' \in [Buffers -> 0..NumCaches] /\ missed' \in [Threads -> 0..NumCaches]
    BY <1>1, <1>2
  <2> QED
    BY <1>1, <2>1, <2>2 DEF TypeOK
<1>4. /\ \A u \in Threads : Cached(u)' = Cached(u)
      /\ \A d \in Caches : Pooled(d)' = Pooled(d)
      /\ Alive' = Alive \cup {b} /\ b \notin Alive
      /\ \A u \in Threads, d \in Caches :
           held'[u][d] = IF u = t /\ d = c THEN held[t][c] \cup {b} ELSE held[u][d]
  BY <1>1, <1>2 DEF Cached, Pooled, Alive
<1>5. Pools'
  BY <1>1 DEF Pools, OwnerInv
<1>6. /\ \A u \in Threads : b \notin Cached(u)
      /\ \A d \in Caches : b \notin Pooled(d)
      /\ \A u \in Threads, d \in Caches : b \notin held[u][d]
  BY <1>4 DEF AliveOwned, OwnerInv
<1> HIDE DEF c
<1>7. Apart'
  BY <1>4, <1>6 DEF Apart, OwnerInv
<1>8. AliveOwned'
  BY <1>1, <1>4 DEF AliveOwned, OwnerInv, c
<1> QED
  BY <1>3, <1>5, <1>7, <1>8 DEF OwnerInv

LEMMA GiveBackOwner ==
  ASSUME TypeOK, OwnerInv, NEW t \in Threads, NEW c \in Caches,
         GiveBackBuffer(t, c)
  PROVE  TypeOK' /\ OwnerInv'
<1>1. PICK b \in held[t][c] :
        /\ b \in Buffers
        /\ held' = [held EXCEPT ![t][c] = @ \ {b}]
        /\ UNCHANGED <<missed, madeBy>>
        /\ \/ /\ Len(local[t]) < MaxLocal
              /\ local' = [local EXCEPT ![t] = Append(local[t], b)]
              /\ local'[t] \in Seq(Buffers)
              /\ Len(local'[t]) = Len(local[t]) + 1
              /\ NoRepeats(local'[t])
              /\ ToSet(local'[t]) = Cached(t) \cup {b}
              /\ UNCHANGED global
           \/ /\ Len(local[t]) >= MaxLocal
              /\ global' = [global EXCEPT ![c] = Append(global[c], b)]
              /\ global'[c] \in Seq(Buffers)
              /\ NoRepeats(global'[c])
              /\ ToSet(global'[c]) = Pooled(c) \cup {b}
              /\ UNCHANGED local
  BY GiveBackEffect
<1>2. /\ held \in [Threads -> [Caches -> SUBSET Buffers]]
      /\ local \in [Threads -> Seq(Buffers)] /\ global \in [Caches -> Seq(Buffers)]
      /\ \A u \in Threads : Len(local[u]) \in Nat /\ Len(local[u]) <= MaxLocal
      /\ MaxLocal \in Nat
  BY LenProperties, Constants DEF TypeOK
<1>h. /\ held' \in [Threads -> [Caches -> SUBSET Buffers]]
      /\ Alive' = Alive
      /\ \A u \in Threads, d \in Caches :
           held'[u][d] = IF u = t /\ d = c THEN held[t][c] \ {b} ELSE held[u][d]
  BY <1>1, <1>2 DEF Alive
<1>o. /\ \A u \in Threads : b \notin Cached(u)
      /\ \A d \in Caches : b \notin Pooled(d)
      /\ \A u \in Threads, d \in Caches :
           b \in held[u][d] => u = t /\ d = c
  BY DEF OwnerInv, Apart
<1>3. CASE global' = global /\ Len(local[t]) < MaxLocal
  <2>1. /\ \A u \in Threads : u # t => local'[u] = local[u]
        /\ local' \in [Threads -> Seq(Buffers)]
        /\ Len(local'[t]) = Len(local[t]) + 1 /\ NoRepeats(local'[t])
        /\ ToSet(local'[t]) = Cached(t) \cup {b}
    <3>1. /\ local' = [local EXCEPT ![t] = Append(local[t], b)]
          /\ local'[t] \in Seq(Buffers)
          /\ Len(local'[t]) = Len(local[t]) + 1
          /\ NoRepeats(local'[t])
          /\ ToSet(local'[t]) = Cached(t) \cup {b}
      BY <1>1, <1>2, <1>3
    <3> QED
      BY <1>2, <3>1
  <2>2. ASSUME NEW u \in Threads PROVE Len(local'[u]) <= MaxLocal
    <3>1. CASE u = t
      BY <1>2, <1>3, <2>1, <3>1
    <3>2. CASE u # t
      BY <1>2, <2>1, <3>2
    <3> QED
      BY <3>1, <3>2
  <2>3. TypeOK'
    BY <1>1, <1>3, <1>h, <2>1, <2>2 DEF TypeOK
  <2>4. /\ \A u \in Threads : Cached(u)' = IF u = t THEN Cached(t) \cup {b} ELSE Cached(u)
        /\ \A d \in Caches : Pooled(d)' = Pooled(d)
    BY <1>3, <2>1 DEF Cached, Pooled
  <2>5. Pools'
    BY <1>3, <2>1 DEF Pools, OwnerInv
  <2>6. Apart'
    <3>1. /\ \A u, v \in Threads : u # v => Cached(u)' \cap Cached(v)' = {}
          /\ \A c1, d \in Caches : c1 # d => Pooled(c1)' \cap Pooled(d)' = {}
      BY <1>o, <2>4 DEF Apart, OwnerInv
    <3>2. \A u, v \in Threads : \A c1, d \in Caches :
            <<u, c1>> # <<v, d>> => held'[u][c1] \cap held'[v][d] = {}
      BY <1>h DEF Apart, OwnerInv
    <3>3. \A u \in Threads, d \in Caches : Cached(u)' \cap Pooled(d)' = {}
      BY <1>o, <2>4 DEF Apart, OwnerInv
    <3>4. \A u, v \in Threads, c1 \in Caches : Cached(u)' \cap held'[v][c1] = {}
      BY <1>h, <1>o, <2>4 DEF Apart, OwnerInv
    <3>5. \A v \in Threads, c1, d \in Caches : Pooled(d)' \cap held'[v][c1] = {}
      BY <1>h, <2>4 DEF Apart, OwnerInv
    <3> QED
      BY <3>1, <3>2, <3>3, <3>4, <3>5 DEF Apart
  <2>7. AliveOwned'
    BY <1>h, <2>4 DEF AliveOwned, OwnerInv
  <2> QED
    BY <2>3, <2>5, <2>6, <2>7 DEF OwnerInv
<1>4. CASE local' = local /\ ~(Len(local[t]) < MaxLocal)
  <2>1. /\ \A d \in Caches : d # c => global'[d] = global[d]
        /\ global' \in [Caches -> Seq(Buffers)]
        /\ NoRepeats(global'[c]) /\ ToSet(global'[c]) = Pooled(c) \cup {b}
    BY <1>1, <1>2, <1>4
  <2>2. TypeOK'
    BY <1>1, <1>4, <1>h, <2>1 DEF TypeOK
  <2>3. /\ \A u \in Threads : Cached(u)' = Cached(u)
        /\ \A d \in Caches : Pooled(d)' = IF d = c THEN Pooled(c) \cup {b} ELSE Pooled(d)
    BY <1>4, <2>1 DEF Cached, Pooled
  <2>4. Pools'
    BY <1>4, <2>1 DEF Pools, OwnerInv
  <2>5. Apart'
    <3>1. \A d, e \in Caches : d # e => Pooled(d)' \cap Pooled(e)' = {}
      BY <1>o, <2>3 DEF Apart, OwnerInv
    <3>2. \A u \in Threads, d \in Caches : Cached(u)' \cap Pooled(d)' = {}
      BY <1>o, <2>3 DEF Apart, OwnerInv
    <3>3. ASSUME NEW u \in Threads, NEW d \in Caches, NEW e \in Caches
          PROVE  Pooled(e)' \cap held'[u][d] = {}
      <4>1. Pooled(e) \cap held[u][d] = {}
        BY DEF Apart, OwnerInv
      <4> QED
        BY <1>h, <1>o, <2>3, <4>1
    <3>4. ASSUME NEW u \in Threads, NEW v \in Threads, NEW d \in Caches
          PROVE  Cached(v)' \cap held'[u][d] = {}
      <4>1. Cached(v) \cap held[u][d] = {}
        BY DEF Apart, OwnerInv
      <4> QED
        BY <1>h, <2>3, <4>1
    <3>5. \A u, v \in Threads : \A d, e \in Caches :
            <<u, d>> # <<v, e>> => held'[u][d] \cap held'[v][e] = {}
      BY <1>h DEF Apart, OwnerInv
    <3>6. \A u, v \in Threads : u # v => Cached(u)' \cap Cached(v)' = {}
      BY <2>3 DEF Apart, OwnerInv
    <3> QED
      BY <3>1, <3>2, <3>3, <3>4, <3>5, <3>6 DEF Apart
  <2>6. AliveOwned'
    BY <1>h, <2>3 DEF AliveOwned, OwnerInv
  <2> QED
    BY <2>2, <2>4, <2>5, <2>6 DEF OwnerInv
<1> QED
  BY <1>1, <1>2, <1>3, <1>4

LEMMA ThreadExitOwner ==
  ASSUME TypeOK, OwnerInv, NEW t \in Threads, ThreadExit(t)
  PROVE  TypeOK' /\ OwnerInv'
<1>1. /\ local' \in [Threads -> Seq(Buffers)] /\ local'[t] = <<>>
      /\ \A u \in Threads : u # t => local'[u] = local[u]
      /\ held' = [held EXCEPT ![t] = [c \in Caches |-> {}]]
      /\ madeBy' = [b \in Buffers |->
           IF b \in Cached(t) \cup HeldBy(t) THEN 0 ELSE madeBy[b]]
      /\ UNCHANGED <<global, missed>>
  BY ThreadExitEffect
<1>2. /\ held \in [Threads -> [Caches -> SUBSET Buffers]]
      /\ madeBy \in [Buffers -> 0..NumCaches] /\ 0 \in 0..NumCaches
      /\ MaxLocal \in Nat
  BY Constants DEF TypeOK
<1>3. TypeOK'
  <2>1. ASSUME NEW u \in Threads PROVE Len(local'[u]) <= MaxLocal
    <3>1. CASE u = t
      BY <1>1, <1>2, <3>1, EmptyPool
    <3>2. CASE u # t
      BY <1>1, <3>2 DEF TypeOK
    <3> QED
      BY <3>1, <3>2
  <2>2. held' \in [Threads -> [Caches -> SUBSET Buffers]]
    BY <1>1, <1>2
  <2>3. madeBy' \in [Buffers -> 0..NumCaches]
    BY <1>1, <1>2
  <2> QED
    BY <1>1, <2>1, <2>2, <2>3 DEF TypeOK
<1>4. /\ \A u \in Threads : Cached(u)' = IF u = t THEN {} ELSE Cached(u)
      /\ \A d \in Caches : Pooled(d)' = Pooled(d)
      /\ \A u \in Threads, d \in Caches :
           held'[u][d] = IF u = t THEN {} ELSE held[u][d]
  BY <1>1, <1>2, EmptyPool DEF Cached, Pooled
<1>5. \A b \in Buffers :
        b \in Alive' <=> /\ b \in Alive /\ b \notin Cached(t)
                         /\ \A d \in Caches : b \notin held[t][d]
  BY <1>1 DEF Alive, HeldBy
<1>6. Pools'
  BY <1>1, EmptyPool DEF Pools, OwnerInv
<1>7. Apart'
  BY <1>4 DEF Apart, OwnerInv
<1>8. AliveOwned'
  BY <1>4, <1>5 DEF AliveOwned, OwnerInv, Apart
<1> QED
  BY <1>3, <1>6, <1>7, <1>8 DEF OwnerInv

LEMMA NextOwnerInv == TypeOK /\ OwnerInv /\ [Next]_allVars => TypeOK' /\ OwnerInv'
<1> SUFFICES ASSUME TypeOK, OwnerInv, [Next]_allVars PROVE TypeOK' /\ OwnerInv'
  OBVIOUS
<1>1. CASE UNCHANGED vars
  BY <1>1 DEF vars, TypeOK, OwnerInv, Pools, Apart, AliveOwned, Alive, Cached, Pooled
<1>2. ASSUME NEW t \in Threads, NEW c \in {1, t + 1}, CacheStep(t, c)
      PROVE  TypeOK' /\ OwnerInv'
  <2>1. c \in Caches
    BY Constants
  <2>2. CASE GetLocal(t, c)
    BY <2>1, <2>2, GetLocalOwner
  <2>3. CASE GetGlobal(t, c)
    BY <2>1, <2>3, GetGlobalOwner
  <2>4. CASE Miss(t, c)
    <3>1. /\ UNCHANGED <<local, global, held, madeBy>>
          /\ missed' = [missed EXCEPT ![t] = c]
          /\ c \in 0..NumCaches
      BY <2>1, <2>4, Constants DEF Miss, Caches
    <3>2. TypeOK'
      BY <3>1 DEF TypeOK
    <3>3. Pools' /\ Apart'
      BY <3>1 DEF OwnerInv, Pools, Apart, Cached, Pooled
    <3>4. AliveOwned'
      BY <3>1 DEF OwnerInv, AliveOwned, Alive, Cached, Pooled
    <3> QED
      BY <3>2, <3>3, <3>4 DEF OwnerInv
  <2>5. CASE MakeBuffer(t)
    BY <2>5, MakeBufferOwner
  <2>6. CASE GiveBackBuffer(t, c)
    BY <2>1, <2>6, GiveBackOwner
  <2>7. CASE ThreadExit(t)
    BY <2>7, ThreadExitOwner
  <2> QED
    BY <1>2, <2>2, <2>3, <2>4, <2>5, <2>6, <2>7 DEF CacheStep
<1> QED
  BY <1>1, <1>2, StepsAreCacheSteps

(* The pools and what the threads hold keep their types, a local cache     *)
(* never exceeds max_local_buffer_, and no pool has a buffer twice.        *)
THEOREM CacheInvariance == Spec => [](TypeOK /\ OwnerInv)
<1>1. InitTests => Init
  BY DEF InitTests
<1> QED
  BY <1>1, InitOwnerInv, NextOwnerInv, PTL DEF Spec

-----------------------------------------------------------------------------
(* One owner.                                                              *)

LEMMA SlotsFacts ==
  ASSUME NEW S, NEW s \in Seq(S), NoRepeats(s), NEW b
  PROVE  /\ b \in ToSet(s) => \E i : Slots(s, b) = {i}
         /\ b \notin ToSet(s) => Slots(s, b) = {}
<1>1. DOMAIN s = 1..Len(s)
  BY LenProperties
<1>2. ASSUME b \in ToSet(s) PROVE \E i : Slots(s, b) = {i}
  <2>1. PICK i \in 1..Len(s) : s[i] = b
    BY <1>1, <1>2 DEF ToSet
  <2>2. Slots(s, b) = {i}
    BY <2>1 DEF Slots, NoRepeats
  <2> QED
    BY <2>2
<1>3. ASSUME b \notin ToSet(s) PROVE Slots(s, b) = {}
  BY <1>1, <1>3 DEF ToSet, Slots
<1> QED
  BY <1>2, <1>3

LEMMA OwnerIsOne == TypeOK /\ OwnerInv => OneOwner
<1> SUFFICES ASSUME TypeOK, OwnerInv, NEW b \in Buffers
             PROVE  Places(b) = (IF b \in Alive THEN 1 ELSE 0)
  BY DEF OneOwner
<1> DEFINE A == UNION {{t} \X Slots(local[t], b) : t \in Threads}
           G == UNION {{c} \X Slots(global[c], b) : c \in Caches}
           H == {p \in Threads \X Caches : b \in held[p[1]][p[2]]}
<1>1. /\ \A t \in Threads : local[t] \in Seq(Buffers) /\ NoRepeats(local[t])
      /\ \A c \in Caches : global[c] \in Seq(Buffers) /\ NoRepeats(global[c])
  BY DEF TypeOK, OwnerInv, Pools
<1>2. \A t \in Threads : b \notin Cached(t) => Slots(local[t], b) = {}
  BY <1>1, SlotsFacts DEF Cached
<1>3. \A c \in Caches : b \notin Pooled(c) => Slots(global[c], b) = {}
  BY <1>1, SlotsFacts DEF Pooled
<1>4. ASSUME NEW t \in Threads, b \in Cached(t)
      PROVE  (\E p : A = {p}) /\ G = {} /\ H = {}
  <2>1. PICK i : Slots(local[t], b) = {i}
    BY <1>1, <1>4, SlotsFacts DEF Cached
  <2>2. \A u \in Threads : u # t => b \notin Cached(u)
    BY <1>4 DEF OwnerInv, Apart
  <2>3. A = {<<t, i>>}
    <3>1. \A u \in Threads : u # t => Slots(local[u], b) = {}
      BY <1>2, <2>2
    <3> HIDE DEF Slots
    <3> QED
      BY <2>1, <3>1
  <2>4. \A c \in Caches : b \notin Pooled(c)
    BY <1>4 DEF OwnerInv, Apart
  <2>5. G = {}
    BY <1>3, <2>4
  <2>6. \A u \in Threads, c \in Caches : b \notin held[u][c]
    BY <1>4 DEF OwnerInv, Apart
  <2> QED
    BY <2>3, <2>5, <2>6
<1>5. ASSUME NEW c \in Caches, b \in Pooled(c)
      PROVE  A = {} /\ (\E p : G = {p}) /\ H = {}
  <2>1. PICK i : Slots(global[c], b) = {i}
    BY <1>1, <1>5, SlotsFacts DEF Pooled
  <2>2. \A d \in Caches : d # c => b \notin Pooled(d)
    BY <1>5 DEF OwnerInv, Apart
  <2>3. G = {<<c, i>>}
    <3>1. \A d \in Caches : d # c => Slots(global[d], b) = {}
      BY <1>3, <2>2
    <3> QED
      BY <2>1, <3>1
  <2>4. \A t \in Threads : b \notin Cached(t)
    BY <1>5 DEF OwnerInv, Apart
  <2>5. A = {}
    BY <1>2, <2>4
  <2>6. \A u \in Threads, d \in Caches : b \notin held[u][d]
    BY <1>5 DEF OwnerInv, Apart
  <2> QED
    BY <2>3, <2>5, <2>6
<1>6. ASSUME NEW t \in Threads, NEW c \in Caches, b \in held[t][c]
      PROVE  A = {} /\ G = {} /\ \E p : H = {p}
  <2>1. \A u \in Threads : b \notin Cached(u)
    BY <1>6 DEF OwnerInv, Apart
  <2>2. \A d \in Caches : b \notin Pooled(d)
    BY <1>6 DEF OwnerInv, Apart
  <2>3. \A u \in Threads, d \in Caches : b \in held[u][d] => u = t /\ d = c
    BY <1>6 DEF OwnerInv, Apart
  <2>4. H = {<<t, c>>}
    BY <1>6, <2>3
  <2>5. A = {} /\ G = {}
    BY <1>2, <1>3, <2>1, <2>2
  <2> QED
    BY <2>4, <2>5
<1>7. ASSUME b \notin Alive PROVE A = {} /\ G = {} /\ H = {}
  <2>1. /\ \A t \in Threads : b \notin Cached(t)
        /\ \A c \in Caches : b \notin Pooled(c)
        /\ \A t \in Threads, c \in Caches : b \notin held[t][c]
    BY <1>7 DEF OwnerInv, AliveOwned
  <2>2. A = {} /\ G = {}
    BY <1>2, <1>3, <2>1
  <2> QED
    BY <2>1, <2>2
<1>8. Places(b) = Cardinality(A) + Cardinality(G) + Cardinality(H)
  BY DEF Places
<1> HIDE DEF A, G, H
<1>9. Cardinality({}) = 0 /\ \A p : Cardinality({p}) = 1
  BY FS_EmptySet, FS_Singleton
<1>10. CASE b \in Alive
  <2>1. \/ \E t \in Threads : b \in Cached(t)
        \/ \E c \in Caches : b \in Pooled(c)
        \/ \E t \in Threads, c \in Caches : b \in held[t][c]
    BY <1>10 DEF OwnerInv, AliveOwned
  <2>2. \/ (\E p : A = {p}) /\ G = {} /\ H = {}
        \/ A = {} /\ (\E p : G = {p}) /\ H = {}
        \/ A = {} /\ G = {} /\ \E p : H = {p}
    BY <1>4, <1>5, <1>6, <2>1
  <2>3. \/ Cardinality(A) = 1 /\ Cardinality(G) = 0 /\ Cardinality(H) = 0
        \/ Cardinality(A) = 0 /\ Cardinality(G) = 1 /\ Cardinality(H) = 0
        \/ Cardinality(A) = 0 /\ Cardinality(G) = 0 /\ Cardinality(H) = 1
    BY <1>9, <2>2
  <2> QED
    BY <1>8, <1>10, <2>3
<1>11. CASE b \notin Alive
  BY <1>7, <1>8, <1>9, <1>11
<1> QED
  BY <1>10, <1>11

(* Two threads never hold, and never find in a pool, the same buffer: each *)
(* live buffer is in one place, and no buffer in a place has been freed.   *)
THEOREM EveryBufferHasOneOwner == Spec => []OneOwner
  BY OwnerIsOne, CacheInvariance, PTL

-----------------------------------------------------------------------------
(* What is in reach of one thread, and what each step does to it.          *)

Reach(t) == Cached(t) \cup HeldBy(t)
Wants(t) == IF missed[t] # 0 THEN 1 ELSE 0

LEMMA OthersKeep ==
  ASSUME TypeOK, OwnerInv, NEW t \in Threads, NEW c \in Caches, CacheStep(t, c),
         NEW u \in Threads, u # t
  PROVE  /\ Cached(u)' = Cached(u) /\ HeldBy(u)' = HeldBy(u)
         /\ held'[u] = held[u] /\ missed'[u] = missed[u]
<1>1. local'[u] = local[u] /\ held'[u] = held[u] /\ missed'[u] = missed[u]
  BY DEF TypeOK, CacheStep, GetLocal, GetGlobal, Miss, MakeBuffer,
         GiveBackBuffer, ThreadExit, Hand
<1> QED
  BY <1>1 DEF Cached, HeldBy

(* From the local cache to the hands of the thread.                        *)
LEMMA GetLocalReach ==
  ASSUME TypeOK, OwnerInv, NEW t \in Threads, NEW c \in Caches, GetLocal(t, c)
  PROVE  /\ Reach(t)' = Reach(t)
         /\ \A d \in Caches : Pooled(d)' = Pooled(d)
         /\ UNCHANGED <<missed, madeBy>>
         /\ \A d \in Caches : d # c => held'[t][d] = held[t][d]
<1>1. PICK b \in Cached(t) :
        /\ ToSet(local'[t]) = Cached(t) \ {b}
        /\ held' = [held EXCEPT ![t][c] = @ \cup {b}]
        /\ UNCHANGED <<global, missed, madeBy>>
  BY GetLocalEffect DEF OwnerInv
<1>2. held \in [Threads -> [Caches -> SUBSET Buffers]]
  BY DEF TypeOK
<1>3. /\ held'[t][c] = held[t][c] \cup {b}
      /\ \A d \in Caches : d # c => held'[t][d] = held[t][d]
  BY <1>1, <1>2
<1>4. HeldBy(t)' = HeldBy(t) \cup {b}
  BY <1>3 DEF HeldBy
<1>5. Cached(t)' = Cached(t) \ {b}
  BY <1>1 DEF Cached
<1>6. Reach(t)' = Reach(t)
  BY <1>1, <1>4, <1>5 DEF Reach
<1> QED
  BY <1>1, <1>3, <1>6 DEF Pooled

(* From the pool to the hands of a thread whose cache is empty.            *)
LEMMA GetGlobalReach ==
  ASSUME TypeOK, OwnerInv, NEW t \in Threads, NEW c \in Caches, GetGlobal(t, c)
  PROVE  \E b \in Pooled(c) :
           /\ b \in Buffers
           /\ Reach(t) = HeldBy(t)
           /\ Reach(t)' = Reach(t) \cup {b}
           /\ \A d \in Caches : Pooled(d)' = IF d = c THEN Pooled(c) \ {b}
                                                      ELSE Pooled(d)
           /\ UNCHANGED <<missed, madeBy>>
           /\ \A d \in Caches : d # c => held'[t][d] = held[t][d]
<1>1. PICK b \in Pooled(c) :
        /\ b \in Buffers
        /\ \A d \in Caches : d # c => global'[d] = global[d]
        /\ ToSet(global'[c]) = Pooled(c) \ {b}
        /\ held' = [held EXCEPT ![t][c] = @ \cup {b}]
        /\ UNCHANGED <<local, missed, madeBy>>
  BY GetGlobalEffect DEF OwnerInv
<1>2. held \in [Threads -> [Caches -> SUBSET Buffers]]
  BY DEF TypeOK
<1>3. /\ held'[t][c] = held[t][c] \cup {b}
      /\ \A d \in Caches : d # c => held'[t][d] = held[t][d]
  BY <1>1, <1>2
<1>4. HeldBy(t)' = HeldBy(t) \cup {b}
  BY <1>3 DEF HeldBy
<1>5. Cached(t) = {} /\ Cached(t)' = {}
  BY <1>1, EmptyPool DEF Cached, GetGlobal, LocalEmpty
<1>6. /\ Reach(t) = HeldBy(t)
      /\ Reach(t)' = Reach(t) \cup {b}
  BY <1>4, <1>5 DEF Reach
<1>7. \A d \in Caches : Pooled(d)' = IF d = c THEN Pooled(c) \ {b} ELSE Pooled(d)
  BY <1>1 DEF Pooled
<1> QED
  BY <1>1, <1>3, <1>6, <1>7

(* From the allocator to the hands of the thread.                          *)
LEMMA MakeBufferReach ==
  ASSUME TypeOK, OwnerInv, NEW t \in Threads, MakeBuffer(t)
  PROVE  \E b \in Buffers :
           /\ missed[t] \in Caches
           /\ b \notin Reach(t) /\ madeBy[b] = 0
           /\ Reach(t)' = Reach(t) \cup {b}
           /\ \A d \in Caches : Pooled(d)' = Pooled(d) /\ b \notin Pooled(d)
           /\ madeBy' = [madeBy EXCEPT ![b] = missed[t]]
           /\ missed' = [missed EXCEPT ![t] = 0]
           /\ \A d \in Caches : d # missed[t] => held'[t][d] = held[t][d]
<1>1. PICK b \in Buffers :
        /\ missed[t] \in Caches
        /\ madeBy[b] = 0
        /\ held' = [held EXCEPT ![t][missed[t]] = @ \cup {b}]
        /\ madeBy' = [madeBy EXCEPT ![b] = missed[t]]
        /\ missed' = [missed EXCEPT ![t] = 0]
        /\ UNCHANGED <<local, global>>
  BY MakeBufferEffect
<1>2. held \in [Threads -> [Caches -> SUBSET Buffers]]
  BY DEF TypeOK
<1>3. /\ held'[t][missed[t]] = held[t][missed[t]] \cup {b}
      /\ \A d \in Caches : d # missed[t] => held'[t][d] = held[t][d]
  BY <1>1, <1>2
<1>4. HeldBy(t)' = HeldBy(t) \cup {b}
  BY <1>1, <1>3 DEF HeldBy
<1>5. /\ Cached(t)' = Cached(t)
      /\ \A d \in Caches : Pooled(d)' = Pooled(d)
  BY <1>1 DEF Cached, Pooled
<1>6. Reach(t)' = Reach(t) \cup {b}
  BY <1>4, <1>5 DEF Reach
<1>7. b \notin Reach(t) /\ \A d \in Caches : b \notin Pooled(d)
  BY <1>1 DEF OwnerInv, AliveOwned, Alive, Reach, HeldBy
<1> QED
  BY <1>1, <1>3, <1>5, <1>6, <1>7

(* From the hands of the thread to its cache or to the pool.               *)
LEMMA GiveBackReach ==
  ASSUME TypeOK, OwnerInv, NEW t \in Threads, NEW c \in Caches,
         GiveBackBuffer(t, c)
  PROVE  \E b \in held[t][c] :
           /\ b \in Buffers
           /\ held'[t][c] = held[t][c] \ {b}
           /\ \/ /\ Reach(t)' = Reach(t)
                 /\ \A d \in Caches : Pooled(d)' = Pooled(d)
              \/ /\ Reach(t)' = Reach(t) \ {b}
                 /\ \A d \in Caches : Pooled(d)' = IF d = c THEN Pooled(c) \cup {b}
                                                            ELSE Pooled(d)
           /\ UNCHANGED <<missed, madeBy>>
           /\ \A d \in Caches : d # c => held'[t][d] = held[t][d]
<1>1. PICK b \in held[t][c] :
        /\ b \in Buffers
        /\ held' = [held EXCEPT ![t][c] = @ \ {b}]
        /\ UNCHANGED <<missed, madeBy>>
        /\ \/ /\ ToSet(local'[t]) = Cached(t) \cup {b}
              /\ UNCHANGED global
           \/ /\ global' = [global EXCEPT ![c] = Append(global[c], b)]
              /\ ToSet(global'[c]) = Pooled(c) \cup {b}
              /\ UNCHANGED local
  BY GiveBackEffect
<1>2. /\ held \in [Threads -> [Caches -> SUBSET Buffers]]
      /\ global \in [Caches -> Seq(Buffers)]
  BY DEF TypeOK
<1>3. /\ held'[t][c] = held[t][c] \ {b}
      /\ \A d \in Caches : d # c => held'[t][d] = held[t][d]
  BY <1>1, <1>2
<1>4. \A d \in Caches : d # c => b \notin held[t][d]
  BY DEF OwnerInv, Apart
<1>5. HeldBy(t)' = HeldBy(t) \ {b} /\ b \in HeldBy(t)
  BY <1>3, <1>4 DEF HeldBy
<1>6. b \notin Cached(t)
  BY DEF OwnerInv, Apart
<1>7. CASE ToSet(local'[t]) = Cached(t) \cup {b} /\ UNCHANGED global
  <2>1. Cached(t)' = Cached(t) \cup {b}
    BY <1>7 DEF Cached
  <2>2. Reach(t)' = Reach(t)
    BY <1>5, <2>1 DEF Reach
  <2>3. \A d \in Caches : Pooled(d)' = Pooled(d)
    BY <1>7 DEF Pooled
  <2> QED
    BY <1>1, <1>3, <2>2, <2>3
<1>8. CASE /\ global' = [global EXCEPT ![c] = Append(global[c], b)]
           /\ ToSet(global'[c]) = Pooled(c) \cup {b}
           /\ UNCHANGED local
  <2>1. Cached(t)' = Cached(t)
    BY <1>8 DEF Cached
  <2>2. Reach(t)' = Reach(t) \ {b}
    BY <1>5, <1>6, <2>1 DEF Reach
  <2>3. \A d \in Caches : Pooled(d)' = IF d = c THEN Pooled(c) \cup {b} ELSE Pooled(d)
    BY <1>2, <1>8 DEF Pooled
  <2> QED
    BY <1>1, <1>3, <2>2, <2>3
<1> QED
  BY <1>1, <1>7, <1>8

(* The exit of a thread empties its reach.                                 *)
LEMMA ThreadExitReach ==
  ASSUME TypeOK, OwnerInv, NEW t \in Threads, ThreadExit(t)
  PROVE  /\ Cached(t)' = {} /\ HeldBy(t)' = {} /\ Reach(t)' = {}
         /\ missed[t] = 0
         /\ \A d \in Caches : Pooled(d)' = Pooled(d) /\ held'[t][d] = {}
         /\ madeBy' = [b \in Buffers |-> IF b \in Reach(t) THEN 0 ELSE madeBy[b]]
         /\ UNCHANGED missed
<1>1. /\ local'[t] = <<>>
      /\ held' = [held EXCEPT ![t] = [c \in Caches |-> {}]]
      /\ madeBy' = [b \in Buffers |-> IF b \in Reach(t) THEN 0 ELSE madeBy[b]]
      /\ UNCHANGED <<global, missed>>
  BY ThreadExitEffect DEF Reach
<1>2. held \in [Threads -> [Caches -> SUBSET Buffers]]
  BY DEF TypeOK
<1>3. \A d \in Caches : held'[t][d] = {}
  BY <1>1, <1>2
<1>4. Cached(t)' = {} /\ HeldBy(t)' = {}
  BY <1>1, <1>3, EmptyPool DEF Cached, HeldBy
<1> QED
  BY <1>1, <1>3, <1>4 DEF Reach, Pooled, ThreadExit
-----------------------------------------------------------------------------
(* The footprint of a thread.                                              *)

FootInv == \A t \in Threads : Cardinality(Reach(t)) + Wants(t) <= MaxHeld

LEMMA ReachFinite ==
  ASSUME TypeOK, NEW t \in Threads
  PROVE  /\ Reach(t) \subseteq Buffers
         /\ IsFiniteSet(Reach(t)) /\ Cardinality(Reach(t)) \in Nat
         /\ IsFiniteSet(Cached(t)) /\ IsFiniteSet(HeldBy(t))
         /\ Cardinality(HeldBy(t)) \in Nat
         /\ Wants(t) \in {0, 1}
<1>1. IsFiniteSet(Buffers)
  BY Constants, FS_Interval DEF Buffers
<1>2. local[t] \in Seq(Buffers) /\ held[t] \in [Caches -> SUBSET Buffers]
  BY DEF TypeOK
<1>3. Cached(t) \subseteq Buffers
  BY <1>2, LenProperties, ElementOfSeq DEF Cached, ToSet
<1>4. HeldBy(t) \subseteq Buffers
  BY <1>2 DEF HeldBy
<1> QED
  BY <1>1, <1>3, <1>4, FS_Subset, FS_CardinalityType DEF Reach, Wants

LEMMA NextFootInv ==
  TypeOK /\ OwnerInv /\ FootInv /\ [Next]_allVars => FootInv'
<1> SUFFICES ASSUME TypeOK, OwnerInv, FootInv, [Next]_allVars PROVE FootInv'
  OBVIOUS
<1>1. CASE UNCHANGED vars
  BY <1>1 DEF vars, FootInv, Reach, Cached, HeldBy, Wants
<1>2. ASSUME NEW t \in Threads, NEW c \in {1, t + 1}, CacheStep(t, c),
             NEW u \in Threads
      PROVE  (Cardinality(Reach(u)) + Wants(u) <= MaxHeld)'
  <2>1. c \in Caches /\ MaxHeld \in Nat
    BY Constants
  <2>2. Cardinality(Reach(u)) + Wants(u) <= MaxHeld
    BY DEF FootInv
  <2>3. CASE u # t
    BY <1>2, <2>1, <2>2, <2>3, OthersKeep DEF Reach, Wants
  <2> SUFFICES ASSUME u = t
               PROVE  Cardinality(Reach(t)') + Wants(t)' <= MaxHeld
    BY <2>3
  <2>f. /\ IsFiniteSet(Reach(t)) /\ Cardinality(Reach(t)) \in Nat
        /\ Wants(t) \in {0, 1} /\ missed \in [Threads -> 0..NumCaches]
        /\ Cardinality(Reach(t)) + Wants(t) <= MaxHeld
    BY <2>2, ReachFinite DEF TypeOK
  <2>4. CASE GetLocal(t, c)
    BY <2>1, <2>4, <2>f, GetLocalReach DEF Wants
  <2>5. CASE GetGlobal(t, c)
    <3>1. PICK b : /\ Reach(t) = HeldBy(t)
                   /\ Reach(t)' = Reach(t) \cup {b}
                   /\ missed' = missed
      BY <2>1, <2>5, GetGlobalReach
    <3>2. missed[t] = 0 /\ Cardinality(Reach(t)) < MaxHeld
      BY <2>5, <3>1 DEF GetGlobal, Calls
    <3>3. Cardinality(Reach(t) \cup {b}) <= Cardinality(Reach(t)) + 1
          /\ Cardinality(Reach(t) \cup {b}) \in Nat
      BY <2>f, FS_AddElement
    <3>4. Wants(t)' = 0
      BY <3>1, <3>2 DEF Wants
    <3> QED
      BY <2>1, <2>f, <3>1, <3>2, <3>3, <3>4
  <2>6. CASE Miss(t, c)
    <3>1. UNCHANGED <<local, held>> /\ Cached(t) = {}
      BY <2>6, EmptyPool DEF Miss, LocalEmpty, Cached
    <3>2. Reach(t)' = Reach(t) /\ Reach(t) = HeldBy(t)
      BY <3>1 DEF Reach, Cached, HeldBy
    <3>3. Cardinality(Reach(t)) < MaxHeld
      BY <2>6, <3>2 DEF Miss, Calls
    <3>4. Wants(t)' \in {0, 1}
      BY DEF Wants
    <3> QED
      BY <2>1, <2>f, <3>2, <3>3, <3>4
  <2>7. CASE MakeBuffer(t)
    <3>1. PICK b : /\ missed[t] \in Caches
                   /\ Reach(t)' = Reach(t) \cup {b}
                   /\ missed' = [missed EXCEPT ![t] = 0]
      BY <2>7, MakeBufferReach
    <3>2. missed[t] # 0 /\ missed'[t] = 0
      BY <2>f, <3>1, Constants
    <3>4. Wants(t) = 1 /\ Wants(t)' = 0
      BY <3>2 DEF Wants
    <3>3. Cardinality(Reach(t) \cup {b}) <= Cardinality(Reach(t)) + 1
          /\ Cardinality(Reach(t) \cup {b}) \in Nat
      BY <2>f, FS_AddElement
    <3> QED
      BY <2>1, <2>f, <3>1, <3>3, <3>4
  <2>8. CASE GiveBackBuffer(t, c)
    <3>1. PICK b : /\ Reach(t)' = Reach(t) \/ Reach(t)' = Reach(t) \ {b}
                   /\ missed' = missed
      BY <2>1, <2>8, GiveBackReach
    <3>2. Cardinality(Reach(t)') <= Cardinality(Reach(t))
          /\ Cardinality(Reach(t)') \in Nat
      <4>1. IsFiniteSet(Reach(t) \ {b}) /\ Reach(t) \ {b} \subseteq Reach(t)
        BY <2>f, FS_RemoveElement
      <4>2. /\ Cardinality(Reach(t) \ {b}) <= Cardinality(Reach(t))
            /\ Cardinality(Reach(t) \ {b}) \in Nat
        BY <2>f, <4>1, FS_Subset, FS_CardinalityType
      <4> QED
        BY <2>f, <3>1, <4>2
    <3>3. Wants(t)' = Wants(t)
      BY <3>1 DEF Wants
    <3> QED
      BY <2>1, <2>f, <3>2, <3>3
  <2>9. CASE ThreadExit(t)
    <3>1. Reach(t)' = {} /\ Wants(t)' \in {0, 1}
      BY <2>9, ThreadExitReach DEF Wants
    <3> QED
      BY <2>1, <3>1, FS_EmptySet, Constants
  <2> QED
    BY <1>2, <2>4, <2>5, <2>6, <2>7, <2>8, <2>9 DEF CacheStep
<1> QED
  BY <1>1, <1>2, StepsAreCacheSteps DEF FootInv

LEMMA InitFootInv == Init => FootInv
<1> SUFFICES ASSUME Init, NEW t \in Threads
             PROVE  Cardinality(Reach(t)) + Wants(t) <= MaxHeld
  BY DEF FootInv
<1>1. Reach(t) = {} /\ Wants(t) = 0
  BY EmptyPool DEF Init, Reach, Cached, HeldBy, Wants
<1> QED
  BY <1>1, FS_EmptySet, Constants

(* The buffers out of the reach of other threads - held, cached locally or *)
(* about to be allocated - are never more than the thread needed at once.  *)
THEOREM NoHoarding == Spec => []ThreadFootprint
<1>1. InitTests => Init
  BY DEF InitTests
<1>2. Spec => []FootInv
  BY <1>1, InitFootInv, NextFootInv, CacheInvariance, PTL DEF Spec
<1>3. ASSUME TypeOK, OwnerInv, FootInv PROVE ThreadFootprint
  <2> SUFFICES ASSUME NEW t \in Threads
               PROVE  Len(local[t]) + Cardinality(HeldBy(t))
                        + (IF missed[t] # 0 THEN 1 ELSE 0) <= MaxHeld
    BY DEF ThreadFootprint
  <2>1. Cardinality(Cached(t)) = Len(local[t])
    BY <1>3, PoolSize DEF TypeOK, OwnerInv, Pools, Cached
  <2>2. Cached(t) \cap HeldBy(t) = {}
    BY <1>3 DEF OwnerInv, Apart, HeldBy
  <2>3. /\ IsFiniteSet(Cached(t)) /\ IsFiniteSet(HeldBy(t))
        /\ Cardinality(HeldBy(t)) \in Nat
    BY <1>3, ReachFinite
  <2>4. Len(local[t]) \in Nat
    BY <1>3, LenProperties DEF TypeOK
  <2>5. Cardinality(Reach(t)) = Cardinality(Cached(t)) + Cardinality(HeldBy(t))
                                  - Cardinality(Cached(t) \cap HeldBy(t))
    BY <2>3, FS_Union DEF Reach
  <2>6. Cardinality(Reach(t)) = Len(local[t]) + Cardinality(HeldBy(t))
    <3>1. Cardinality(Cached(t) \cap HeldBy(t)) = 0
      BY <2>2, FS_EmptySet
    <3> QED
      BY <2>1, <2>3, <2>4, <2>5, <3>1
  <2>7. Cardinality(Reach(t)) + Wants(t) <= MaxHeld
    BY <1>3 DEF FootInv
  <2> QED
    BY <2>6, <2>7 DEF Wants
<1> QED
  BY <1>2, <1>3, CacheInvariance, PTL

-----------------------------------------------------------------------------
(* Counting: when at most m elements of X go to each element of U, X has   *)
(* at most |U| * m elements.                                               *)

LEMMA FiberBound ==
  ASSUME NEW X, NEW U, IsFiniteSet(U), NEW f \in [X -> U], NEW m \in Nat,
         \A u \in U : /\ IsFiniteSet({x \in X : f[x] = u})
                      /\ Cardinality({x \in X : f[x] = u}) <= m
  PROVE  IsFiniteSet(X) /\ Cardinality(X) <= Cardinality(U) * m
<1> DEFINE Fib(u) == {x \in X : f[x] = u}
           Numbering(h, u) == /\ h \in [Fib(u) -> 1..m]
                              /\ \A x, y \in Fib(u) : h[x] = h[y] => x = y
<1>1. ASSUME NEW u \in U PROVE \E h : Numbering(h, u)
  <2> DEFINE B == Fib(u)
             n == Cardinality(B)
  <2>1. n \in Nat /\ n <= m /\ ExistsBijection(1..n, B)
    BY FS_CardinalityType
  <2> HIDE DEF n, B
  <2>2. PICK k \in Bijection(1..n, B) : TRUE
    BY <2>1 DEF ExistsBijection
  <2> DEFINE h == Inverse(k, 1..n, B)
  <2>3. h \in Bijection(B, 1..n)
    BY <2>2, Fun_BijInverse
  <2> HIDE DEF h
  <2>4. h \in [B -> 1..n] /\ \A x, y \in B : h[x] = h[y] => x = y
    BY <2>3 DEF Bijection, Injection, IsInjective
  <2>5. 1..n \subseteq 1..m
    BY <2>1
  <2>6. h \in [B -> 1..m]
    BY <2>4, <2>5
  <2> QED
    BY <2>4, <2>6 DEF B
<1> DEFINE g == [u \in U |-> CHOOSE h : Numbering(h, u)]
           F == [x \in X |-> <<f[x], g[f[x]][x]>>]
<1>2. ASSUME NEW u \in U PROVE Numbering(g[u], u)
  <2> HIDE DEF Numbering
  <2> QED
    BY <1>1
<1> HIDE DEF g
<1>3. F \in [X -> U \X (1..m)]
  <2>1. ASSUME NEW x \in X PROVE f[x] \in U /\ g[f[x]][x] \in 1..m
    BY <1>2
  <2> QED
    BY <2>1
<1>4. ASSUME NEW x \in X, NEW y \in X, F[x] = F[y] PROVE x = y
  <2>1. f[x] = f[y] /\ g[f[x]][x] = g[f[y]][y] /\ f[x] \in U
    BY <1>4
  <2>2. x \in Fib(f[x]) /\ y \in Fib(f[x])
    BY <2>1
  <2> QED
    BY <1>2, <2>1, <2>2
<1>5. F \in Injection(X, U \X (1..m))
  <2> HIDE DEF F
  <2> QED
    BY <1>3, <1>4, Fun_IsInj
<1>6. /\ IsFiniteSet(1..m) /\ Cardinality(1..m) = m
  BY FS_Interval
<1>7. /\ IsFiniteSet(U \X (1..m))
      /\ Cardinality(U \X (1..m)) = Cardinality(U) * m
  BY <1>6, FS_Product
<1> QED
  BY <1>5, <1>7, FS_Injection

LEMMA MaxOfTwo ==
  ASSUME NEW a \in Nat, NEW b \in Nat
  PROVE  Max({a, b}) \in Nat /\ Max({a, b}) >= a /\ Max({a, b}) >= b
<1>1. \E x \in {a, b} : \A y \in {a, b} : x >= y
  <2>1. CASE a >= b
    BY <2>1
  <2>2. CASE b >= a
    BY <2>2
  <2> QED
    BY <2>1, <2>2
<1>2. Max({a, b}) \in {a, b} /\ \A y \in {a, b} : Max({a, b}) >= y
  BY <1>1 DEF Max
<1> QED
  BY <1>2
-----------------------------------------------------------------------------
(* Each thread uses one cache.                                             *)

Programs == {"single", "multi", "stress", "any", "none"}
ProgramLength ==
  [single |-> 13, multi |-> 4, stress |-> 4, any |-> 1, none |-> 1]

TestTypeOK ==
  /\ prog \in [Threads -> Programs]
  /\ step \in [Threads -> Nat]
  /\ \A t \in Threads : step[t] \in 1..ProgramLength[prog[t]]
  /\ ptr \in [Threads -> [1..2 -> 0..MaxBuffers]]
  /\ byte \in [Buffers -> {0, 42}]

UsesOne ==
  /\ \A t \in Threads, c \in Caches : c # CacheOf(t) => held[t][c] = {}
  /\ \A t \in Threads : missed[t] \in {0, CacheOf(t)}
  /\ \A t \in Threads : \A b \in Reach(t) : madeBy[b] = CacheOf(t)
  /\ \A c \in Caches : \A b \in Pooled(c) : madeBy[b] = c

(* The texts of the programs, operation by operation.                      *)
LEMMA SingleText ==
  ASSUME NEW t \in Threads, TestTypeOK, prog[t] = "single"
  PROVE  /\ step[t] \in 1..13
         /\ step[t] = 1 => Now(t) = Op("expect", 1)
         /\ step[t] = 2 => Now(t) = Op("get", 1)
         /\ step[t] = 3 => Now(t) = Op("mark", 1)
         /\ step[t] = 4 => Now(t) = Op("give", 1)
         /\ step[t] = 5 => Now(t) = Op("get", 2)
         /\ step[t] = 6 => Now(t) = Op("expect", 2)
         /\ step[t] = 7 => Now(t) = Op("give", 2)
         /\ step[t] = 8 => Now(t) = Op("get", 1)
         /\ step[t] = 9 => Now(t) = Op("get", 2)
         /\ step[t] = 10 => Now(t) = Op("give", 1)
         /\ step[t] = 11 => Now(t) = Op("give", 2)
         /\ step[t] = 12 => Now(t) = Op("expect", 3)
         /\ step[t] = 13 => Now(t) = Op("end", 0)
<1>1. Program["single"] = SingleThreadTest /\ ProgramLength["single"] = 13
  BY DEF Program, ProgramLength
<1>2. Now(t) = SingleThreadTest[step[t]] /\ step[t] \in 1..13
  BY <1>1 DEF Now, TestTypeOK
<1> QED
  BY <1>2 DEF SingleThreadTest, Expect, Get, Give

LEMMA OtherTexts ==
  ASSUME NEW t \in Threads, TestTypeOK
  PROVE  /\ prog[t] = "multi" =>
              /\ step[t] \in 1..4
              /\ step[t] = 1 => Now(t) = Op("get", 1)
              /\ step[t] = 2 => Now(t) = Op("compare", 1)
              /\ step[t] = 3 => Now(t) = Op("give", 1)
              /\ step[t] = 4 => Now(t) = Op("again", 0)
         /\ prog[t] = "stress" =>
              /\ step[t] \in 1..4
              /\ step[t] = 1 => Now(t) = Op("get", 1)
              /\ step[t] = 2 => Now(t) = Op("get", 2)
              /\ step[t] = 3 => Now(t) = Op("expect", 4)
              /\ step[t] = 4 => Now(t) = Op("work", 0)
         /\ prog[t] = "any" => step[t] = 1 /\ Now(t) = Op("any", 0)
         /\ prog[t] = "none" => step[t] = 1 /\ Now(t) = Op("none", 0)
<1>1. /\ Program["multi"] = MultiThreadTest /\ ProgramLength["multi"] = 4
      /\ Program["stress"] = StressTest /\ ProgramLength["stress"] = 4
      /\ Program["any"] = <<Op("any", 0)>> /\ ProgramLength["any"] = 1
      /\ Program["none"] = <<Op("none", 0)>> /\ ProgramLength["none"] = 1
  BY DEF Program, ProgramLength
<1>2. step[t] \in Nat /\ step[t] \in 1..ProgramLength[prog[t]]
      /\ Now(t) = Program[prog[t]][step[t]]
  BY DEF Now, TestTypeOK
<1>3. CASE prog[t] = "multi"
  BY <1>1, <1>2, <1>3 DEF MultiThreadTest, Get, Give
<1>4. CASE prog[t] = "stress"
  BY <1>1, <1>2, <1>4 DEF StressTest, Get, Expect
<1>5. CASE prog[t] = "any"
  BY <1>1, <1>2, <1>5
<1>6. CASE prog[t] = "none"
  BY <1>1, <1>2, <1>6
<1> QED
  BY <1>3, <1>4, <1>5, <1>6

LEMMA OpFields == \A name, n : Op(name, n).op = name /\ Op(name, n).n = n
  BY DEF Op

(* Only the program "any" does anything at any time, and only              *)
(* BC_singleThreadTest marks a buffer.                                     *)
LEMMA AnyProgram ==
  ASSUME TestTypeOK, NEW t \in Threads, Doing(t, "any")
  PROVE  prog[t] = "any" /\ CacheOf(t) = 1
<1>1. Now(t).op = "any"
  BY DEF Doing
<1>2. prog[t] # "single"
  BY <1>1, OpFields, SingleText
<1>3. prog[t] \notin {"multi", "stress", "none"}
  BY <1>1, OpFields, OtherTexts
<1> QED
  BY <1>2, <1>3 DEF TestTypeOK, Programs, CacheOf

LEMMA MarkProgram ==
  ASSUME TestTypeOK, NEW t \in Threads, Doing(t, "mark")
  PROVE  prog[t] = "single" /\ step[t] = 3
<1>1. Now(t).op = "mark"
  BY DEF Doing
<1>2. prog[t] \notin {"multi", "stress", "any", "none"}
  BY <1>1, OpFields, OtherTexts
<1>3. prog[t] = "single"
  BY <1>2 DEF TestTypeOK, Programs
<1> QED
  BY <1>1, <1>3, OpFields, SingleText

LEMMA MoreToDo ==
  ASSUME NEW t \in Threads, TestTypeOK,
         Now(t).op \in {"get", "give", "mark", "expect", "compare"}
  PROVE  /\ step[t] + 1 \in 1..ProgramLength[prog[t]]
         /\ Now(t).op \in {"get", "give"} => Now(t).n \in 1..2
         /\ prog[t] # "any"
<1>1. prog[t] \in Programs
  BY DEF TestTypeOK
<1>2. /\ ProgramLength["single"] = 13 /\ ProgramLength["multi"] = 4
      /\ ProgramLength["stress"] = 4
  BY DEF ProgramLength
<1>3. CASE prog[t] = "single"
  <2>1. step[t] \in 1..13 /\ step[t] # 13
    BY <1>3, OpFields, SingleText
  <2>2. Now(t).op \in {"get", "give"} => Now(t).n \in 1..2
    BY <1>3, <2>1, OpFields, SingleText
  <2> QED
    BY <1>2, <1>3, <2>1, <2>2
<1>4. CASE prog[t] = "multi"
  <2>1. step[t] \in 1..4 /\ step[t] # 4
    BY <1>4, OpFields, OtherTexts
  <2>2. Now(t).op \in {"get", "give"} => Now(t).n \in 1..2
    BY <1>4, <2>1, OpFields, OtherTexts
  <2> QED
    BY <1>2, <1>4, <2>1, <2>2
<1>5. CASE prog[t] = "stress"
  <2>1. step[t] \in 1..4 /\ step[t] # 4
    BY <1>5, OpFields, OtherTexts
  <2>2. Now(t).op \in {"get", "give"} => Now(t).n \in 1..2
    BY <1>5, <2>1, OpFields, OtherTexts
  <2> QED
    BY <1>2, <1>5, <2>1, <2>2
<1>6. CASE prog[t] \in {"any", "none"}
  BY <1>6, OpFields, OtherTexts
<1> QED
  BY <1>1, <1>3, <1>4, <1>5, <1>6 DEF Programs

LEMMA InitTestTypeOK == InitTests => TestTypeOK
<1> SUFFICES ASSUME InitTests PROVE TestTypeOK
  OBVIOUS
<1>1. /\ prog \in [Threads -> Programs]
      /\ step \in [Threads -> Nat] /\ \A t \in Threads : step[t] = 1
      /\ ptr \in [Threads -> [1..2 -> 0..MaxBuffers]]
      /\ byte \in [Buffers -> {0, 42}]
  <2>1. <<0, 0>> \in [1..2 -> 0..MaxBuffers]
    BY Constants
  <2> QED
    BY <2>1 DEF InitTests, Programs
<1>2. \A name \in Programs : 1 \in 1..ProgramLength[name]
  BY DEF Programs, ProgramLength
<1> QED
  BY <1>1, <1>2 DEF TestTypeOK

LEMMA NextTestTypeOK ==
  TypeOK' /\ TestTypeOK /\ [Next]_allVars => TestTypeOK'
<1> SUFFICES ASSUME TypeOK', TestTypeOK, [Next]_allVars PROVE TestTypeOK'
  OBVIOUS
<1>1. CASE UNCHANGED testVars
  BY <1>1 DEF testVars, TestTypeOK
<1>2. ASSUME NEW t \in Threads, Continue(t), UNCHANGED prog,
             Now(t).op \in {"get", "give", "mark", "expect", "compare"}
      PROVE  /\ step' \in [Threads -> Nat]
             /\ \A u \in Threads : step'[u] \in 1..ProgramLength[prog'[u]]
  <2>1. step[t] + 1 \in 1..ProgramLength[prog[t]]
    BY <1>2, MoreToDo
  <2>2. step' = [step EXCEPT ![t] = step[t] + 1] /\ step \in [Threads -> Nat]
    BY <1>2 DEF Continue, TestTypeOK
  <2>3. step' \in [Threads -> Nat]
    BY <2>2
  <2>4. \A u \in Threads : step'[u] \in 1..ProgramLength[prog[u]]
    BY <2>1, <2>2 DEF TestTypeOK
  <2> QED
    BY <1>2, <2>3, <2>4
<1>3. ASSUME NEW t \in Threads, TestGet(t) PROVE TestTypeOK'
  <2>1. CASE UNCHANGED testVars
    BY <1>1, <2>1
  <2>2. CASE Received(t)
    <3>1. PICK b \in held'[t][CacheOf(t)] :
            /\ ptr' = [ptr EXCEPT ![t][Now(t).n] = b]
            /\ byte' = [byte EXCEPT ![b] = IF madeBy[b] = 0 THEN 0 ELSE @]
            /\ Continue(t) /\ UNCHANGED prog
      BY <2>2 DEF Received
    <3>2. Now(t).op = "get" /\ Now(t).n \in 1..2
      BY <1>3, MoreToDo DEF TestGet, Doing
    <3>3. b \in Buffers /\ b \in 0..MaxBuffers
      <4>1. CacheOf(t) \in Caches
        BY Constants DEF CacheOf
      <4> QED
        BY <4>1, Constants DEF TypeOK, Buffers
    <3>4. ptr' \in [Threads -> [1..2 -> 0..MaxBuffers]]
      BY <3>1, <3>2, <3>3 DEF TestTypeOK
    <3>5. byte' \in [Buffers -> {0, 42}]
      BY <3>1, <3>3 DEF TestTypeOK
    <3> QED
      BY <1>2, <3>1, <3>2, <3>4, <3>5 DEF TestTypeOK
  <2> QED
    BY <1>3, <2>1, <2>2 DEF TestGet
<1>4. ASSUME NEW t \in Threads, Mark(t) PROVE TestTypeOK'
  <2>1. byte' = [byte EXCEPT ![ptr[t][1]] = 42]
    BY <1>4 DEF Mark
  <2>2. byte' \in [Buffers -> {0, 42}]
    BY <2>1 DEF TestTypeOK
  <2> QED
    BY <1>2, <1>4, <2>2 DEF Mark, Doing, TestTypeOK
<1>5. ASSUME NEW t \in Threads, TestGive(t) \/ Expected(t) \/ Compare(t)
      PROVE  TestTypeOK'
  BY <1>2, <1>5 DEF TestGive, Expected, Compare, Doing, TestTypeOK
<1>6. ASSUME NEW t \in Threads, Again(t) \/ TestExit(t) PROVE TestTypeOK'
  <2>1. /\ step' = [step EXCEPT ![t] = 1] /\ UNCHANGED <<ptr, byte>>
        /\ prog' = prog \/ prog' = [prog EXCEPT ![t] = "none"]
    BY <1>6 DEF Again, TestExit
  <2>2. \A name \in Programs : 1 \in 1..ProgramLength[name]
    BY DEF Programs, ProgramLength
  <2>3. "none" \in Programs
    BY DEF Programs
  <2>4. /\ prog' \in [Threads -> Programs] /\ step' \in [Threads -> Nat]
        /\ step'[t] = 1
        /\ \A u \in Threads : u # t => prog'[u] = prog[u] /\ step'[u] = step[u]
    BY <2>1, <2>3 DEF TestTypeOK
  <2>5. \A u \in Threads : step'[u] \in 1..ProgramLength[prog'[u]]
    BY <2>2, <2>4 DEF TestTypeOK
  <2> QED
    BY <2>1, <2>4, <2>5 DEF TestTypeOK
<1> QED
  BY <1>1, <1>3, <1>4, <1>5, <1>6 DEF Next, TestStep, AnyStep, allVars

(* Each cache step is by a thread on the cache that it uses; a thread that *)
(* turns to another program has just exited.                               *)
LEMMA ThreadSteps ==
  ASSUME TestTypeOK, [Next]_allVars
  PROVE  \/ UNCHANGED vars /\ UNCHANGED prog
         \/ \E t \in Threads :
              /\ CacheOf(t) \in Caches /\ CacheStep(t, CacheOf(t))
              /\ \A u \in Threads : u # t => prog'[u] = prog[u]
              /\ UNCHANGED prog \/ ThreadExit(t)
<1>0. \A t \in Threads : CacheOf(t) \in Caches
  BY Constants DEF CacheOf
<1>1. ASSUME NEW t \in Threads, AnyStep(t)
      PROVE  CacheStep(t, CacheOf(t)) /\ UNCHANGED prog
  <2>1. CacheOf(t) = 1
    BY <1>1, AnyProgram DEF AnyStep
  <2> QED
    BY <1>1, <2>1 DEF AnyStep, GetBuffer, CacheStep, testVars
<1>2. ASSUME NEW t \in Threads, TestGet(t) \/ TestGive(t)
      PROVE  CacheStep(t, CacheOf(t)) /\ UNCHANGED prog
  BY <1>2 DEF TestGet, TestGive, GetBuffer, CacheStep, Received, testVars
<1>3. ASSUME NEW t \in Threads, Mark(t) \/ Expected(t) \/ Compare(t) \/ Again(t)
      PROVE  UNCHANGED vars /\ UNCHANGED prog
  BY <1>3 DEF Mark, Expected, Compare, Again
<1>4. ASSUME NEW t \in Threads, TestExit(t)
      PROVE  /\ CacheStep(t, CacheOf(t)) /\ ThreadExit(t)
             /\ \A u \in Threads : u # t => prog'[u] = prog[u]
  BY <1>4 DEF TestExit, CacheStep, TestTypeOK
<1>5. CASE UNCHANGED allVars
  BY <1>5 DEF allVars, testVars
<1> QED
  BY <1>0, <1>1, <1>2, <1>3, <1>4, <1>5 DEF Next, TestStep

LEMMA InitUsesOne == Init => UsesOne
<1> SUFFICES ASSUME Init PROVE UsesOne
  OBVIOUS
<1>1. \A t \in Threads : Reach(t) = {} /\ missed[t] = 0
  BY EmptyPool DEF Init, Reach, Cached, HeldBy
<1>2. \A t \in Threads, c \in Caches : held[t][c] = {}
  BY DEF Init
<1>3. ASSUME NEW c \in Caches, NEW b \in Pooled(c) PROVE madeBy[b] = c
  <2>1. b \in Buffers
    BY InitialPool, LenProperties, ElementOfSeq DEF Pooled, ToSet
  <2> QED
    BY <2>1, InitialPool
<1> QED
  BY <1>1, <1>2, <1>3 DEF UsesOne

LEMMA NextUsesOne ==
  TypeOK /\ OwnerInv /\ TestTypeOK /\ UsesOne /\ [Next]_allVars => UsesOne'
<1> SUFFICES ASSUME TypeOK, OwnerInv, TestTypeOK, UsesOne, [Next]_allVars
             PROVE  UsesOne'
  OBVIOUS
<1>1. CASE UNCHANGED vars /\ UNCHANGED prog
  BY <1>1 DEF vars, UsesOne, CacheOf, Reach, Cached, HeldBy, Pooled
<1>2. ASSUME NEW t \in Threads, CacheOf(t) \in Caches, CacheStep(t, CacheOf(t)),
             \A u \in Threads : u # t => prog'[u] = prog[u],
             UNCHANGED prog \/ ThreadExit(t)
      PROVE  UsesOne'
  <2> DEFINE c == CacheOf(t)
  <2>0. /\ \A u \in Threads : Reach(u) \subseteq Buffers
        /\ \A d \in Caches : Pooled(d) \subseteq Buffers
        /\ missed \in [Threads -> 0..NumCaches]
        /\ madeBy \in [Buffers -> 0..NumCaches]
    BY ReachFinite, LenProperties, ElementOfSeq DEF TypeOK, Pooled, ToSet
  <2>1. ASSUME NEW u \in Threads, u # t
        PROVE  /\ CacheOf(u)' = CacheOf(u) /\ Reach(u)' = Reach(u)
               /\ held'[u] = held[u] /\ missed'[u] = missed[u]
    BY <1>2, <2>1, OthersKeep DEF CacheOf, Reach
  <2>2. CASE ThreadExit(t)
    <3>1. /\ Reach(t)' = {} /\ missed'[t] = 0
          /\ \A d \in Caches : Pooled(d)' = Pooled(d) /\ held'[t][d] = {}
          /\ madeBy' = [b \in Buffers |-> IF b \in Reach(t) THEN 0 ELSE madeBy[b]]
      BY <2>2, ThreadExitReach
    <3>2. /\ \A u \in Threads : u # t => Reach(u) \cap Reach(t) = {}
          /\ \A d \in Caches : Pooled(d) \cap Reach(t) = {}
      BY DEF OwnerInv, Apart, Reach, HeldBy
    <3>3. \A u \in Threads, d \in Caches : (d # CacheOf(u) => held[u][d] = {})'
      BY <2>1, <3>1 DEF UsesOne
    <3>4. \A u \in Threads : (missed[u] \in {0, CacheOf(u)})'
      BY <2>1, <3>1 DEF UsesOne
    <3>5. \A u \in Threads : \A b \in Reach(u)' : madeBy'[b] = CacheOf(u)'
      BY <2>0, <2>1, <3>1, <3>2 DEF UsesOne
    <3>6. \A d \in Caches : \A b \in Pooled(d)' : madeBy'[b] = d
      BY <2>0, <3>1, <3>2 DEF UsesOne
    <3> QED
      BY <3>3, <3>4, <3>5, <3>6 DEF UsesOne
  <2> SUFFICES ASSUME UNCHANGED prog, ~ThreadExit(t) PROVE UsesOne'
    BY <1>2, <2>2
  <2>3. \A u \in Threads : CacheOf(u)' = CacheOf(u)
    BY DEF CacheOf
  <2> HIDE DEF c
  <2>c. c \in Caches /\ c = CacheOf(t)
    BY <1>2 DEF c
  (* It is enough to see what the step does to t and to the pools. *)
  <2>4. ASSUME \A d \in Caches : d # c => held'[t][d] = {},
               missed'[t] \in {0, c},
               \A b \in Reach(t)' : madeBy'[b] = c,
               \A d \in Caches : \A b \in Pooled(d)' : madeBy'[b] = d,
               \A b \in Buffers : madeBy[b] # 0 => madeBy'[b] = madeBy[b]
        PROVE  UsesOne'
    <3>1. \A u \in Threads, d \in Caches : (d # CacheOf(u) => held[u][d] = {})'
      BY <2>1, <2>3, <2>4, <2>c DEF UsesOne
    <3>2. \A u \in Threads : (missed[u] \in {0, CacheOf(u)})'
      BY <2>1, <2>3, <2>4, <2>c DEF UsesOne
    <3>3. ASSUME NEW u \in Threads, NEW b \in Reach(u)'
          PROVE  madeBy'[b] = CacheOf(u)'
      <4>1. CASE u = t
        BY <2>3, <2>4, <2>c, <3>3, <4>1
      <4>2. CASE u # t
        <5>1. b \in Reach(u) /\ b \in Buffers
          BY <2>0, <2>1, <3>3, <4>2
        <5>2. madeBy[b] = CacheOf(u) /\ CacheOf(u) # 0
          BY <5>1, Constants DEF UsesOne, CacheOf
        <5> QED
          BY <2>3, <2>4, <5>1, <5>2
      <4> QED
        BY <4>1, <4>2
    <3> QED
      BY <2>4, <3>1, <3>2, <3>3 DEF UsesOne
  <2>u. /\ \A d \in Caches : d # c => held[t][d] = {}
        /\ missed[t] \in {0, c}
        /\ \A b \in Reach(t) : madeBy[b] = c
        /\ \A d \in Caches : \A b \in Pooled(d) : madeBy[b] = d
    BY <2>c DEF UsesOne
  <2>5. CASE GetLocal(t, c)
    <3>1. /\ Reach(t)' = Reach(t)
          /\ \A d \in Caches : Pooled(d)' = Pooled(d)
          /\ UNCHANGED <<missed, madeBy>>
          /\ \A d \in Caches : d # c => held'[t][d] = held[t][d]
      BY <2>5, <2>c, GetLocalReach
    <3> QED
      BY <2>4, <2>u, <3>1
  <2>6. CASE GetGlobal(t, c)
    <3>1. PICK b \in Pooled(c) :
            /\ Reach(t)' = Reach(t) \cup {b}
            /\ \A d \in Caches : Pooled(d)' = IF d = c THEN Pooled(c) \ {b}
                                                       ELSE Pooled(d)
            /\ UNCHANGED <<missed, madeBy>>
            /\ \A d \in Caches : d # c => held'[t][d] = held[t][d]
      BY <2>6, <2>c, GetGlobalReach
    <3>2. madeBy[b] = c
      BY <2>c, <2>u
    <3> QED
      BY <2>4, <2>u, <3>1, <3>2
  <2>7. CASE Miss(t, c)
    <3>1. /\ UNCHANGED <<local, global, held, madeBy>>
          /\ missed' = [missed EXCEPT ![t] = c]
      BY <2>7 DEF Miss
    <3>2. /\ Reach(t)' = Reach(t) /\ \A d \in Caches : Pooled(d)' = Pooled(d)
          /\ missed'[t] = c
      BY <2>0, <3>1 DEF Reach, Cached, HeldBy, Pooled
    <3> QED
      BY <2>4, <2>u, <3>1, <3>2
  <2>8. CASE MakeBuffer(t)
    <3>1. PICK b \in Buffers :
            /\ missed[t] \in Caches
            /\ b \notin Reach(t) /\ madeBy[b] = 0
            /\ Reach(t)' = Reach(t) \cup {b}
            /\ \A d \in Caches : Pooled(d)' = Pooled(d) /\ b \notin Pooled(d)
            /\ madeBy' = [madeBy EXCEPT ![b] = missed[t]]
            /\ missed' = [missed EXCEPT ![t] = 0]
            /\ \A d \in Caches : d # missed[t] => held'[t][d] = held[t][d]
      BY <2>8, MakeBufferReach
    <3>2. missed[t] = c
      BY <2>u, <3>1, Constants
    <3>3. /\ missed'[t] = 0 /\ madeBy'[b] = c
          /\ \A x \in Buffers : x # b => madeBy'[x] = madeBy[x]
      BY <2>0, <3>1, <3>2
    <3>4. \A d \in Caches : d # c => held'[t][d] = {}
      BY <2>u, <3>1, <3>2
    <3>5. \A x \in Reach(t)' : madeBy'[x] = c
      BY <2>0, <2>u, <3>1, <3>3
    <3>6. \A d \in Caches : \A x \in Pooled(d)' : madeBy'[x] = d
      BY <2>0, <2>u, <3>1, <3>3
    <3>7. \A x \in Buffers : madeBy[x] # 0 => madeBy'[x] = madeBy[x]
      BY <3>1, <3>3
    <3> QED
      BY <2>4, <3>3, <3>4, <3>5, <3>6, <3>7
  <2>9. CASE GiveBackBuffer(t, c)
    <3>1. PICK b \in held[t][c] :
            /\ \/ /\ Reach(t)' = Reach(t)
                  /\ \A d \in Caches : Pooled(d)' = Pooled(d)
               \/ /\ Reach(t)' = Reach(t) \ {b}
                  /\ \A d \in Caches : Pooled(d)' = IF d = c THEN Pooled(c) \cup {b}
                                                             ELSE Pooled(d)
            /\ UNCHANGED <<missed, madeBy>>
            /\ \A d \in Caches : d # c => held'[t][d] = held[t][d]
      BY <2>9, <2>c, GiveBackReach
    <3>2. madeBy[b] = c
      BY <2>c, <2>u DEF Reach, HeldBy
    <3>3. \A d \in Caches : \A x \in Pooled(d)' : madeBy'[x] = d
      BY <2>u, <3>1, <3>2
    <3>4. \A x \in Reach(t)' : madeBy'[x] = c
      BY <2>u, <3>1
    <3> QED
      BY <2>4, <2>u, <3>1, <3>3, <3>4
  <2> QED
    BY <1>2, <2>5, <2>6, <2>7, <2>8, <2>9 DEF CacheStep, c
<1> QED
  BY <1>1, <1>2, ThreadSteps

-----------------------------------------------------------------------------
(* The buffers of a cache.                                                 *)

Bound(c) == Max({2 * CtorThreads, Cardinality(Users(c)) * MaxHeld})

CountInv ==
  \A c \in Caches :
    Cardinality(OwnedBy(c)) + Cardinality(Pending(c)) <= Bound(c)

LEMMA UsersOf ==
  ASSUME NEW c \in Caches
  PROVE  /\ IsFiniteSet(Users(c)) /\ Users(c) \subseteq Threads
         /\ Cardinality(Users(c)) \in Nat
         /\ Cardinality(Users(c)) * MaxHeld \in Nat
         /\ \A t \in Threads : CacheOf(t) = c => t \in Users(c)
         /\ Bound(c) \in Nat /\ Bound(c) >= 2 * CtorThreads
         /\ Bound(c) >= Cardinality(Users(c)) * MaxHeld
<1>1. Users(c) \subseteq Threads
  <2>1. c \in 1..NumCaches /\ Threads = 1..(NumCaches - 1) /\ NumCaches \in Nat
    BY Constants DEF Caches
  <2>2. CASE c = 1
    BY <2>2 DEF Users
  <2>3. CASE c # 1
    BY <2>1, <2>3 DEF Users
  <2> QED
    BY <2>2, <2>3
<1>2. IsFiniteSet(Users(c)) /\ Cardinality(Users(c)) \in Nat
  BY <1>1, Constants, FS_Subset, FS_CardinalityType
<1>3. \A t \in Threads : CacheOf(t) = c => t \in Users(c)
  <2>1. \A t \in Threads : t \in Nat
    BY Constants
  <2> QED
    BY <2>1 DEF CacheOf, Users
<1>4. Cardinality(Users(c)) * MaxHeld \in Nat /\ 2 * CtorThreads \in Nat
  BY <1>2, Constants
<1> QED
  BY <1>1, <1>2, <1>3, <1>4, MaxOfTwo DEF Bound

LEMMA OwnedFinite ==
  ASSUME NEW c \in Caches
  PROVE  /\ IsFiniteSet(OwnedBy(c)) /\ Cardinality(OwnedBy(c)) \in Nat
         /\ IsFiniteSet(Pending(c)) /\ Cardinality(Pending(c)) \in Nat
         /\ OwnedBy(c) \subseteq Buffers
<1>1. IsFiniteSet(Buffers)
  BY Constants, FS_Interval DEF Buffers
<1>2. OwnedBy(c) \subseteq Buffers /\ Pending(c) \subseteq Threads
  BY DEF OwnedBy, Alive, Pending
<1> QED
  BY <1>1, <1>2, Constants, FS_Subset, FS_CardinalityType

(* When the pool of a cache is empty, its buffers and those about to be    *)
(* allocated are all in reach of its users.                                *)
LEMMA Crowded ==
  ASSUME TypeOK, OwnerInv, UsesOne, FootInv, NEW c \in Caches,
         Pooled(c) = {},
         NEW P \in SUBSET Threads,
         \A u \in P : u \in Users(c) /\ Cardinality(Reach(u)) + 1 <= MaxHeld
  PROVE  Cardinality(OwnedBy(c)) + Cardinality(P)
           <= Cardinality(Users(c)) * MaxHeld
<1> DEFINE O == OwnedBy(c)
           U == Users(c)
           N == {-u : u \in P}
           X == O \cup N
           f == [x \in X |-> IF x \in N THEN -x
                             ELSE CHOOSE u \in U : x \in Reach(u)]
<1>1. /\ IsFiniteSet(U) /\ U \subseteq Threads /\ Threads \subseteq Nat \ {0}
      /\ Cardinality(U) \in Nat /\ MaxHeld \in Nat
  BY UsersOf, Constants
<1>2. IsFiniteSet(O) /\ Cardinality(O) \in Nat /\ O \subseteq Nat \ {0}
  BY OwnedFinite, Constants DEF Buffers
<1>3. IsFiniteSet(P) /\ Cardinality(P) \in Nat
  BY Constants, FS_Subset, FS_CardinalityType
<1>4. IsFiniteSet(N) /\ Cardinality(N) = Cardinality(P)
  <2> DEFINE g == [u \in P |-> -u]
  <2>1. g \in [P -> N] /\ \A y \in N : \E u \in P : g[u] = y
    OBVIOUS
  <2>2. \A u, v \in P : g[u] = g[v] => u = v
    BY <1>1
  <2> HIDE DEF g, N
  <2>3. g \in Bijection(P, N)
    BY <2>1, <2>2, Fun_IsBij
  <2> QED
    BY <1>3, <2>3, FS_Bijection DEF ExistsBijection
<1>5. O \cap N = {}
  BY <1>1, <1>2
<1>6. Cardinality(X) = Cardinality(O) + Cardinality(P)
  <2> HIDE DEF O, N
  <2>1. Cardinality(O \cup N) = Cardinality(O) + Cardinality(N) - Cardinality(O \cap N)
    BY <1>2, <1>4, FS_Union
  <2>2. Cardinality(O \cap N) = 0
    BY <1>5, FS_EmptySet
  <2> QED
    BY <1>2, <1>3, <1>4, <2>1, <2>2
<1>7. ASSUME NEW x \in O PROVE \E u \in U : x \in Reach(u)
  <2>1. x \in Alive /\ madeBy[x] = c /\ x \in Buffers
    BY DEF OwnedBy, Alive
  <2>2. \A d \in Caches : x \notin Pooled(d)
    BY <2>1 DEF UsesOne
  <2>3. PICK u \in Threads : x \in Reach(u)
    BY <2>1, <2>2 DEF OwnerInv, AliveOwned, Reach, HeldBy
  <2>4. CacheOf(u) = c
    BY <2>1, <2>3 DEF UsesOne
  <2> QED
    BY <2>3, <2>4, UsersOf
<1>8. ASSUME NEW x \in X
      PROVE  /\ f[x] \in U
             /\ x \in N => -x \in P /\ f[x] = -x
             /\ x \notin N => x \in Reach(f[x])
  <2>1. CASE x \in N
    <3>1. PICK u \in P : x = -u
      BY <2>1
    <3>2. u \in U /\ u \in Nat
      BY <1>1
    <3>3. -x = u
      BY <3>1, <3>2
    <3> QED
      BY <2>1, <3>2, <3>3
  <2>2. CASE x \notin N
    <3>1. f[x] = CHOOSE u \in U : x \in Reach(u)
      BY <2>2
    <3>2. \E u \in U : x \in Reach(u)
      BY <1>7, <2>2
    <3> HIDE DEF f, U
    <3>3. f[x] \in U /\ x \in Reach(f[x])
      BY <3>1, <3>2
    <3> QED
      BY <2>2, <3>3
  <2> QED
    BY <2>1, <2>2
<1>9. f \in [X -> U]
  <2>1. f = [x \in X |-> f[x]]
    OBVIOUS
  <2> HIDE DEF f, X, U
  <2> QED
    BY <1>8, <2>1
<1> HIDE DEF f
<1>10. ASSUME NEW u \in U
       PROVE  /\ IsFiniteSet({x \in X : f[x] = u})
              /\ Cardinality({x \in X : f[x] = u}) <= MaxHeld
  <2> DEFINE F == {x \in X : f[x] = u}
             R == Reach(u)
  <2>1. /\ IsFiniteSet(R) /\ Cardinality(R) \in Nat /\ Wants(u) \in {0, 1}
        /\ Cardinality(R) + Wants(u) <= MaxHeld
    BY <1>1, ReachFinite DEF FootInv
  <2>2. CASE u \in P
    <3> DEFINE y == -u
    <3>1. F \subseteq R \cup {y}
      <4> SUFFICES ASSUME NEW x \in X, f[x] = u, x \notin R PROVE x = -u
        OBVIOUS
      <4>1. x \in N /\ -x = u
        BY <1>8
      <4>2. PICK v \in P : x = -v
        BY <4>1
      <4> QED
        BY <1>1, <4>1, <4>2
    <3> HIDE DEF F, R, y
    <3>2. /\ IsFiniteSet(R \cup {y}) /\ Cardinality(R \cup {y}) \in Nat
          /\ Cardinality(R \cup {y}) <= Cardinality(R) + 1
      <4>1. /\ IsFiniteSet(R \cup {y})
            /\ Cardinality(R \cup {y}) = IF y \in R THEN Cardinality(R)
                                         ELSE Cardinality(R) + 1
        BY <2>1, FS_AddElement
      <4> QED
        BY <2>1, <4>1
    <3>3. Cardinality(R) + 1 <= MaxHeld
      BY <2>2 DEF R
    <3>4. /\ IsFiniteSet(F) /\ Cardinality(F) <= Cardinality(R \cup {y})
          /\ Cardinality(F) \in Nat
      BY <3>1, <3>2, FS_Subset, FS_CardinalityType
    <3>5. IsFiniteSet(F) /\ Cardinality(F) <= MaxHeld
      BY <1>1, <2>1, <3>2, <3>3, <3>4
    <3> QED
      BY <3>5 DEF F
  <2>3. CASE u \notin P
    <3>1. F \subseteq R
      <4> SUFFICES ASSUME NEW x \in X, f[x] = u PROVE x \in R
        OBVIOUS
      <4>1. x \notin N
        BY <1>8, <2>3
      <4> QED
        BY <1>8, <4>1
    <3> HIDE DEF F, R
    <3>2. /\ IsFiniteSet(F) /\ Cardinality(F) <= Cardinality(R)
          /\ Cardinality(F) \in Nat
      BY <2>1, <3>1, FS_Subset, FS_CardinalityType
    <3>3. IsFiniteSet(F) /\ Cardinality(F) <= MaxHeld
      BY <1>1, <2>1, <3>2
    <3> QED
      BY <3>3 DEF F
  <2> QED
    BY <2>2, <2>3
<1> HIDE DEF O, U, N, X
<1>11. Cardinality(X) <= Cardinality(U) * MaxHeld
  BY <1>1, <1>9, <1>10, FiberBound
<1> QED
  BY <1>6, <1>11 DEF O, U

LEMMA InitCountInv == Init => CountInv
<1> SUFFICES ASSUME Init, NEW c \in Caches
             PROVE  Cardinality(OwnedBy(c)) + Cardinality(Pending(c)) <= Bound(c)
  BY DEF CountInv
<1>1. c # 0
  BY Constants
<1>2. Pending(c) = {}
  BY <1>1 DEF Init, Pending
<1>3. OwnedBy(c) = Pooled(c)
  <2>1. Pooled(c) \subseteq Buffers
    BY InitialPool, LenProperties, ElementOfSeq DEF Pooled, ToSet
  <2> QED
    BY <1>1, <2>1, InitialPool DEF OwnedBy, Alive
<1>4. Cardinality(Pooled(c)) = 2 * CtorThreads
  BY InitialPool, PoolSize DEF Pooled
<1>5. 2 * CtorThreads \in Nat
  BY Constants
<1> QED
  BY <1>2, <1>3, <1>4, <1>5, FS_EmptySet, UsersOf

LEMMA NextCountInv ==
  TypeOK /\ OwnerInv /\ TestTypeOK /\ UsesOne /\ FootInv /\ CountInv
    /\ [Next]_allVars => CountInv'
<1> SUFFICES ASSUME TypeOK, OwnerInv, TestTypeOK, UsesOne, FootInv, CountInv,
                    [Next]_allVars,
                    NEW d \in Caches
             PROVE  Cardinality(OwnedBy(d)') + Cardinality(Pending(d)') <= Bound(d)
  BY DEF CountInv, Bound, Users
<1>0. /\ Cardinality(OwnedBy(d)) + Cardinality(Pending(d)) <= Bound(d)
      /\ IsFiniteSet(OwnedBy(d)) /\ Cardinality(OwnedBy(d)) \in Nat
      /\ IsFiniteSet(Pending(d)) /\ Cardinality(Pending(d)) \in Nat
      /\ Bound(d) \in Nat /\ d # 0
      /\ madeBy \in [Buffers -> 0..NumCaches] /\ missed \in [Threads -> 0..NumCaches]
  BY OwnedFinite, UsersOf, Constants DEF CountInv, TypeOK
<1>1. ASSUME UNCHANGED <<missed, madeBy>>
      PROVE  Cardinality(OwnedBy(d)') + Cardinality(Pending(d)') <= Bound(d)
  <2>1. OwnedBy(d)' = OwnedBy(d) /\ Pending(d)' = Pending(d)
    BY <1>1 DEF OwnedBy, Alive, Pending
  <2> QED
    BY <1>0, <2>1
<1>2. ASSUME NEW t \in Threads, CacheOf(t) \in Caches, CacheStep(t, CacheOf(t))
      PROVE  Cardinality(OwnedBy(d)') + Cardinality(Pending(d)') <= Bound(d)
  <2> DEFINE c == CacheOf(t)
  <2> HIDE DEF c
  <2>c. c \in Caches /\ c = CacheOf(t)
    BY <1>2 DEF c
  <2>1. CASE GetLocal(t, c) \/ GetGlobal(t, c) \/ GiveBackBuffer(t, c)
    BY <1>1, <2>1 DEF GetLocal, GetGlobal, GiveBackBuffer
  <2>2. CASE Miss(t, c)
    <3>1. /\ missed' = [missed EXCEPT ![t] = c] /\ UNCHANGED madeBy
          /\ missed[t] = 0 /\ Cardinality(HeldBy(t)) < MaxHeld
          /\ Cached(t) = {} /\ Pooled(c) = {}
      BY <2>2, EmptyPool DEF Miss, Calls, LocalEmpty, GlobalEmpty, Cached, Pooled
    <3>2. OwnedBy(d)' = OwnedBy(d)
      BY <3>1 DEF OwnedBy, Alive
    <3>3. CASE d # c
      <4>1. Pending(d)' = Pending(d)
        BY <1>0, <3>1, <3>3 DEF Pending
      <4> QED
        BY <1>0, <3>2, <4>1
    <3>4. CASE d = c
      <4> DEFINE P == Pending(d) \cup {t}
      <4>1. Pending(d)' = Pending(d) \cup {t}
        BY <1>0, <3>1, <3>4 DEF Pending
      <4>2. P \in SUBSET Threads
        BY DEF Pending
      <4>3. ASSUME NEW u \in P
            PROVE  u \in Users(d) /\ Cardinality(Reach(u)) + 1 <= MaxHeld
        <5>1. CASE u = t
          <6>1. Reach(t) = HeldBy(t)
            BY <3>1 DEF Reach
          <6>2. Cardinality(HeldBy(t)) \in Nat /\ MaxHeld \in Nat
            BY ReachFinite, Constants
          <6> QED
            BY <2>c, <3>1, <3>4, <5>1, <6>1, <6>2, UsersOf
        <5>2. CASE u # t
          <6>1. u \in Threads /\ missed[u] = c /\ c # 0
            BY <2>c, <3>4, <5>2, Constants DEF Pending
          <6>2. CacheOf(u) = c
            BY <6>1 DEF UsesOne
          <6>3. Wants(u) = 1
            BY <6>1 DEF Wants
          <6> QED
            BY <2>c, <3>4, <6>1, <6>2, <6>3, UsersOf DEF FootInv
        <5> QED
          BY <5>1, <5>2
      <4> HIDE DEF P
      <4>4. Cardinality(OwnedBy(d)) + Cardinality(P) <= Cardinality(Users(d)) * MaxHeld
        BY <3>1, <3>4, <4>2, <4>3, Crowded
      <4>5. IsFiniteSet(P) /\ Cardinality(P) \in Nat
        BY <4>2, Constants, FS_Subset, FS_CardinalityType
      <4>6. /\ Bound(d) >= Cardinality(Users(d)) * MaxHeld /\ Bound(d) \in Nat
            /\ Cardinality(Users(d)) * MaxHeld \in Nat
        BY UsersOf
      <4>7. Cardinality(OwnedBy(d)) + Cardinality(P) <= Bound(d)
        BY <1>0, <4>4, <4>5, <4>6
      <4> QED
        BY <3>2, <4>1, <4>7 DEF P
    <3> QED
      BY <3>3, <3>4
  <2>3. CASE MakeBuffer(t)
    <3>1. PICK b \in Buffers :
            /\ missed[t] \in Caches /\ madeBy[b] = 0
            /\ madeBy' = [madeBy EXCEPT ![b] = missed[t]]
            /\ missed' = [missed EXCEPT ![t] = 0]
      BY <2>3, MakeBufferReach
    <3>2. missed[t] # 0
      BY <3>1, Constants
    <3>3. CASE d = missed[t]
      <4>1. OwnedBy(d)' = OwnedBy(d) \cup {b} /\ b \notin OwnedBy(d)
        BY <1>0, <3>1, <3>3 DEF OwnedBy, Alive
      <4>2. Pending(d)' = Pending(d) \ {t} /\ t \in Pending(d)
        BY <1>0, <3>1, <3>3 DEF Pending
      <4>3. Cardinality(OwnedBy(d) \cup {b}) = Cardinality(OwnedBy(d)) + 1
        BY <1>0, <4>1, FS_AddElement
      <4>4. Cardinality(Pending(d) \ {t}) = Cardinality(Pending(d)) - 1
        BY <1>0, <4>2, FS_RemoveElement
      <4> QED
        BY <1>0, <4>1, <4>2, <4>3, <4>4
    <3>4. CASE d # missed[t]
      <4>1. OwnedBy(d)' = OwnedBy(d)
        BY <1>0, <3>1, <3>4 DEF OwnedBy, Alive
      <4>2. Pending(d)' = Pending(d)
        BY <1>0, <3>1, <3>4 DEF Pending
      <4> QED
        BY <1>0, <4>1, <4>2
    <3> QED
      BY <3>3, <3>4
  <2>4. CASE ThreadExit(t)
    <3>1. /\ madeBy' = [b \in Buffers |-> IF b \in Reach(t) THEN 0 ELSE madeBy[b]]
          /\ UNCHANGED missed
      BY <2>4, ThreadExitReach
    <3>2. OwnedBy(d)' \subseteq OwnedBy(d)
      BY <1>0, <3>1 DEF OwnedBy, Alive
    <3>3. Pending(d)' = Pending(d)
      BY <3>1 DEF Pending
    <3>4. /\ Cardinality(OwnedBy(d)') <= Cardinality(OwnedBy(d))
          /\ Cardinality(OwnedBy(d)') \in Nat
      BY <1>0, <3>2, FS_Subset, FS_CardinalityType
    <3> QED
      BY <1>0, <3>3, <3>4
  <2> QED
    BY <1>2, <2>1, <2>2, <2>3, <2>4 DEF CacheStep, c
<1> QED
  BY <1>1, <1>2, ThreadSteps DEF vars

LEMMA TestInvariance ==
  Spec => [](TypeOK /\ OwnerInv /\ FootInv /\ TestTypeOK /\ UsesOne)
<1>1. InitTests => Init
  BY DEF InitTests
<1>2. Spec => []FootInv
  BY <1>1, InitFootInv, NextFootInv, CacheInvariance, PTL DEF Spec
<1>3. Spec => []TestTypeOK
  BY InitTestTypeOK, NextTestTypeOK, CacheInvariance, PTL DEF Spec
<1>4. Spec => []UsesOne
  BY <1>1, <1>3, InitUsesOne, NextUsesOne, CacheInvariance, PTL DEF Spec
<1> QED
  BY <1>2, <1>3, <1>4, CacheInvariance, PTL

(* A cache owns no more buffers than its constructor made or than its      *)
(* users may hold at the same time, although the decision to allocate is   *)
(* made under the mutex and the allocation happens after it is released.   *)
THEOREM CacheIsBounded == Spec => []FootprintBounded
<1>1. InitTests => Init
  BY DEF InitTests
<1>2. Spec => []CountInv
  BY <1>1, InitCountInv, NextCountInv, TestInvariance, PTL DEF Spec
<1>3. CountInv => FootprintBounded
  BY DEF CountInv, FootprintBounded, Bound
<1> QED
  BY <1>2, <1>3, PTL

-----------------------------------------------------------------------------
(* The assertions of the unit tests.                                       *)

(* Where BC_singleThreadTest's two buffers are, line by line.              *)
At(t, cached, heldNow, left) ==
  Cached(t) = cached /\ HeldBy(t) = heldNow /\ Len(global[t + 1]) = left

SingleInv(t) ==
  LET p == ptr[t][1]
      q == ptr[t][2]
  IN  /\ missed[t] = 0
      /\ step[t] \in 1..2 => At(t, {}, {}, 2)
      /\ step[t] \in 3..4 => At(t, {}, {p}, 1)
      /\ step[t] = 5 => At(t, {p}, {}, 1)
      /\ step[t] \in 6..7 => At(t, {}, {q}, 1) /\ p = q
      /\ step[t] = 8 => At(t, {q}, {}, 1)
      /\ step[t] = 9 => At(t, {}, {p}, 1)
      /\ step[t] = 10 => At(t, {}, {p, q}, 0) /\ p # q
      /\ step[t] = 11 => At(t, {p}, {q}, 0) /\ p # q
      /\ step[t] = 12 => At(t, {p, q}, {}, 0) /\ p # q
      /\ step[t] \in 4..7 => byte[p] = 42

StressInv(t) ==
  /\ step[t] >= 2 => ptr[t][1] \in HeldBy(t)
  /\ step[t] >= 3 => ptr[t][2] \in HeldBy(t)

ProgramInv ==
  \A t \in Threads : /\ prog[t] = "single" => SingleInv(t)
                     /\ prog[t] = "stress" => StressInv(t)

LEMMA CachedSize ==
  ASSUME TypeOK, OwnerInv, NEW t \in Threads
  PROVE  Len(local[t]) = Cardinality(Cached(t)) /\ Len(local[t]) \in Nat
  BY PoolSize, LenProperties DEF TypeOK, OwnerInv, Pools, Cached

(* getBuffer in BC_singleThreadTest, when some pool has a buffer.          *)
LEMMA SingleGet ==
  ASSUME TypeOK, OwnerInv, TestTypeOK, UsesOne,
         NEW t \in Threads, prog[t] = "single", TestGet(t), missed[t] = 0,
         Cached(t) # {} \/ Len(global[t + 1]) # 0
  PROVE  \E b \in Buffers :
           /\ HeldBy(t)' = HeldBy(t) \cup {b} /\ b \notin HeldBy(t)
           /\ \/ /\ b \in Cached(t) /\ Cached(t)' = Cached(t) \ {b}
                 /\ global' = global
              \/ /\ Cached(t) = {} /\ Cached(t)' = {}
                 /\ Len(global'[t + 1]) = Len(global[t + 1]) - 1
           /\ ptr' = [ptr EXCEPT ![t][Now(t).n] = b]
           /\ step' = [step EXCEPT ![t] = @ + 1]
           /\ UNCHANGED <<missed, byte, prog>>
<1>1. CacheOf(t) = t + 1 /\ t + 1 \in Caches
  BY Constants DEF CacheOf
<1> DEFINE c == t + 1
<1> HIDE DEF c
<1>2. c \in Caches /\ CacheOf(t) = c /\ c = t + 1
  BY <1>1 DEF c
<1>3. GetLocal(t, c) \/ GetGlobal(t, c) \/ Miss(t, c)
  BY <1>2 DEF TestGet, GetBuffer, MakeBuffer
<1>4. ~Miss(t, c)
  BY <1>2, EmptyPool DEF Miss, LocalEmpty, GlobalEmpty, Cached
<1>5. /\ held \in [Threads -> [Caches -> SUBSET Buffers]]
      /\ byte \in [Buffers -> {0, 42}]
  BY DEF TypeOK, TestTypeOK
<1>6. ASSUME NEW b \in Buffers, madeBy[b] # 0, b \notin held[t][c],
             held' = [held EXCEPT ![t][c] = @ \cup {b}]
      PROVE  /\ ptr' = [ptr EXCEPT ![t][Now(t).n] = b]
             /\ step' = [step EXCEPT ![t] = @ + 1]
             /\ UNCHANGED <<byte, prog>>
  <2>1. held'[t][c] = held[t][c] \cup {b} /\ held' # held
    BY <1>2, <1>5, <1>6
  <2>2. Received(t)
    BY <2>1 DEF TestGet
  <2>3. PICK x \in held'[t][c] \ held[t][c] :
          /\ ptr' = [ptr EXCEPT ![t][Now(t).n] = x]
          /\ byte' = [byte EXCEPT ![x] = IF madeBy[x] = 0 THEN 0 ELSE @]
          /\ Continue(t)
          /\ UNCHANGED prog
    BY <1>2, <2>2 DEF Received
  <2>4. x = b
    BY <2>1
  <2>5. byte' = byte
    BY <1>5, <1>6, <2>3, <2>4
  <2> QED
    BY <2>3, <2>4, <2>5 DEF Continue
<1>7. CASE GetLocal(t, c)
  <2>1. PICK b \in Cached(t) :
          /\ b \in Buffers
          /\ ToSet(local'[t]) = Cached(t) \ {b}
          /\ held' = [held EXCEPT ![t][c] = @ \cup {b}]
          /\ UNCHANGED <<global, missed, madeBy>>
    BY <1>2, <1>7, GetLocalEffect DEF OwnerInv
  <2>2. b \notin HeldBy(t) /\ b \notin held[t][c] /\ madeBy[b] # 0
    BY <1>2, <2>1 DEF OwnerInv, Apart, AliveOwned, Alive, HeldBy
  <2>3. HeldBy(t)' = HeldBy(t) \cup {b}
    <3>1. /\ held'[t][c] = held[t][c] \cup {b}
          /\ \A d \in Caches : d # c => held'[t][d] = held[t][d]
      BY <1>2, <1>5, <2>1
    <3> QED
      BY <1>2, <3>1 DEF HeldBy
  <2>4. Cached(t)' = Cached(t) \ {b}
    BY <2>1 DEF Cached
  <2> QED
    BY <1>6, <2>1, <2>2, <2>3, <2>4
<1>8. CASE GetGlobal(t, c)
  <2>1. PICK b \in Pooled(c) :
          /\ b \in Buffers
          /\ Len(global'[c]) = Len(global[c]) - 1
          /\ held' = [held EXCEPT ![t][c] = @ \cup {b}]
          /\ UNCHANGED <<local, missed, madeBy>>
    BY <1>2, <1>8, GetGlobalEffect DEF OwnerInv
  <2>2. b \notin HeldBy(t) /\ b \notin held[t][c] /\ madeBy[b] # 0
    BY <1>2, <2>1 DEF OwnerInv, Apart, AliveOwned, Alive, HeldBy
  <2>3. HeldBy(t)' = HeldBy(t) \cup {b}
    <3>1. /\ held'[t][c] = held[t][c] \cup {b}
          /\ \A d \in Caches : d # c => held'[t][d] = held[t][d]
      BY <1>2, <1>5, <2>1
    <3> QED
      BY <1>2, <3>1 DEF HeldBy
  <2>4. Cached(t)' = {} /\ Cached(t) = {}
    BY <1>8, <2>1, EmptyPool DEF Cached, GetGlobal, LocalEmpty
  <2> QED
    BY <1>2, <1>6, <2>1, <2>2, <2>3, <2>4
<1> QED
  BY <1>3, <1>4, <1>7, <1>8

(* giveBackBuffer in BC_singleThreadTest, while the local cache has room.  *)
LEMMA SingleGive ==
  ASSUME TypeOK, OwnerInv, TestTypeOK, UsesOne,
         NEW t \in Threads, prog[t] = "single", TestGive(t),
         Len(local[t]) < MaxLocal,
         ptr[t][Now(t).n] \in HeldBy(t)
  PROVE  /\ HeldBy(t)' = HeldBy(t) \ {ptr[t][Now(t).n]}
         /\ Cached(t)' = Cached(t) \cup {ptr[t][Now(t).n]}
         /\ step' = [step EXCEPT ![t] = @ + 1]
         /\ UNCHANGED <<global, missed, byte, prog, ptr>>
<1>1. CacheOf(t) = t + 1 /\ t + 1 \in Caches
  BY Constants DEF CacheOf
<1> DEFINE c == t + 1
           x == ptr[t][Now(t).n]
<1> HIDE DEF c, x
<1>2. c \in Caches /\ CacheOf(t) = c /\ c = t + 1
  BY <1>1 DEF c
<1>3. PICK b \in held[t][c] :
        /\ held' = [held EXCEPT ![t][c] = @ \ {b}]
        /\ UNCHANGED missed
        /\ \/ /\ ToSet(local'[t]) = Cached(t) \cup {b}
              /\ UNCHANGED global
           \/ Len(local[t]) >= MaxLocal
  BY <1>2, GiveBackEffect DEF TestGive
<1>4. \A d \in Caches : d # c => held[t][d] = {}
  BY <1>2 DEF UsesOne
<1>5. x \in held[t][c] /\ x \notin held'[t][c]
  BY <1>2, <1>4 DEF TestGive, HeldBy, x
<1>6. held \in [Threads -> [Caches -> SUBSET Buffers]]
  BY DEF TypeOK
<1>7. held'[t][c] = held[t][c] \ {b} /\ \A d \in Caches : d # c => held'[t][d] = {}
  BY <1>2, <1>3, <1>4, <1>6
<1>8. b = x
  BY <1>5, <1>7
<1>9. HeldBy(t) = held[t][c] /\ HeldBy(t)' = held'[t][c]
  BY <1>2, <1>4, <1>7 DEF HeldBy
<1>10. Len(local[t]) \in Nat /\ MaxLocal \in Nat
  BY CachedSize, Constants
<1>11. ToSet(local'[t]) = Cached(t) \cup {b} /\ UNCHANGED global
  BY <1>3, <1>10
<1>12. Cached(t)' = Cached(t) \cup {x}
  BY <1>8, <1>11 DEF Cached
<1> QED
  BY <1>3, <1>7, <1>8, <1>9, <1>11, <1>12 DEF TestGive, Continue, x

(* What a step of one thread leaves to the program of another.             *)
LEMMA OthersProgramInv ==
  ASSUME TypeOK, OwnerInv, TestTypeOK, UsesOne, ProgramInv,
         NEW t \in Threads, TestStep(t) \/ AnyStep(t),
         NEW u \in Threads, u # t
  PROVE  /\ prog'[u] = "single" => SingleInv(u)'
         /\ prog'[u] = "stress" => StressInv(u)'
<1>1. /\ prog'[u] = prog[u] /\ step'[u] = step[u] /\ ptr'[u] = ptr[u]
  BY DEF TestTypeOK, TestStep, AnyStep, TestGet, Received, TestGive, Mark,
         Expected, Compare, Again, TestExit, Continue, testVars
<1>2. [Next]_allVars
  BY DEF Next
<1>3. \/ UNCHANGED vars
      \/ CacheStep(t, CacheOf(t)) /\ CacheOf(t) \in Caches
  <2>1. CASE AnyStep(t)
    <3>1. CacheOf(t) = 1
      BY <2>1, AnyProgram DEF AnyStep
    <3> QED
      BY <2>1, <3>1, Constants DEF AnyStep, GetBuffer, CacheStep
  <2>2. CASE TestStep(t)
    BY <2>2, Constants DEF TestStep, TestGet, TestGive, Mark, Expected, Compare,
       Again, TestExit, GetBuffer, CacheStep, CacheOf
  <2> QED
    BY <2>1, <2>2
<1>4. Cached(u)' = Cached(u) /\ HeldBy(u)' = HeldBy(u) /\ missed'[u] = missed[u]
  <2>1. CASE UNCHANGED vars
    BY <2>1 DEF vars, Cached, HeldBy
  <2> QED
    BY <1>3, <2>1, OthersKeep
<1>5. ASSUME prog[u] = "single" PROVE global'[u + 1] = global[u + 1]
  <2>1. CacheOf(t) # u + 1
    <3>1. t \in Nat \ {0} /\ u \in Nat \ {0}
      BY Constants
    <3> QED
      BY <3>1 DEF CacheOf
  <2>2. CASE UNCHANGED vars
    BY <2>2 DEF vars
  <2>3. CASE CacheStep(t, CacheOf(t)) /\ CacheOf(t) \in Caches
    <3>1. u + 1 \in Caches /\ global \in [Caches -> Seq(Buffers)]
      BY Constants DEF TypeOK
    <3> QED
      BY <2>1, <2>3, <3>1 DEF CacheStep, GetLocal, GetGlobal, Miss, MakeBuffer,
         GiveBackBuffer, ThreadExit
  <2> QED
    BY <1>3, <2>2, <2>3
<1>6. ASSUME NEW b \in Reach(u) PROVE byte'[b] = byte[b]
  <2>1. b \in Buffers /\ madeBy[b] # 0 /\ b \notin Reach(t)
    <3>1. b \in Buffers
      BY ReachFinite
    <3> QED
      BY <3>1 DEF OwnerInv, Apart, AliveOwned, Alive, Reach, HeldBy
  <2>2. byte \in [Buffers -> {0, 42}]
    BY DEF TestTypeOK
  <2>3. CASE TestGet(t)
    <3>1. CASE Received(t)
      <4>1. PICK x : byte' = [byte EXCEPT ![x] = IF madeBy[x] = 0 THEN 0 ELSE @]
        BY <3>1 DEF Received
      <4> QED
        BY <2>1, <2>2, <4>1
    <3> QED
      BY <2>3, <3>1 DEF TestGet, testVars
  <2>4. CASE Mark(t)
    <3>1. byte' = [byte EXCEPT ![ptr[t][1]] = 42]
      BY <2>4 DEF Mark
    <3>2. prog[t] = "single" /\ step[t] = 3
      BY <2>4, MarkProgram DEF Mark
    <3>3. ptr[t][1] \in Reach(t)
      BY <3>2 DEF ProgramInv, SingleInv, At, Reach
    <3> QED
      BY <2>1, <2>2, <3>1, <3>3
  <2> QED
    BY <2>3, <2>4 DEF TestStep, AnyStep, TestGive, Expected, Compare, Again,
       TestExit, testVars
<1>7. ASSUME prog'[u] = "single" PROVE SingleInv(u)'
  <2>1. SingleInv(u) /\ prog[u] = "single"
    BY <1>1, <1>7 DEF ProgramInv
  <2>2. step[u] \in 4..7 => ptr[u][1] \in Reach(u)
    <3>1. step[u] \in 4..7 => step[u] = 4 \/ step[u] = 5 \/ step[u] = 6 \/ step[u] = 7
      BY SingleText, <2>1
    <3> QED
      BY <2>1, <3>1 DEF SingleInv, At, Reach
  <2>3. step[u] \in 4..7 => byte'[ptr[u][1]] = byte[ptr[u][1]]
    BY <1>6, <2>2
  <2>4. global'[u + 1] = global[u + 1]
    BY <1>5, <2>1
  <2> QED
    BY <1>1, <1>4, <2>1, <2>3, <2>4 DEF SingleInv, At
<1>8. ASSUME prog'[u] = "stress" PROVE StressInv(u)'
  BY <1>1, <1>4, <1>8 DEF ProgramInv, StressInv
<1> QED
  BY <1>7, <1>8

(* A program goes on, or its thread ends.                                  *)
LEMMA OwnProgram ==
  ASSUME TestTypeOK, NEW t \in Threads, TestStep(t) \/ AnyStep(t)
  PROVE  \/ prog'[t] = "none"
         \/ prog'[t] = prog[t]
  BY DEF TestTypeOK, TestStep, AnyStep, TestGet, Received, TestGive, Mark,
         Expected, Compare, Again, TestExit, testVars

(* The operations of BC_singleThreadTest, one after the other.             *)
LEMMA SingleSteps ==
  ASSUME TypeOK, OwnerInv, TestTypeOK, UsesOne, ProgramInv,
         CtorThreads = 1, MaxLocal >= 2,
         NEW t \in Threads, TestStep(t) \/ AnyStep(t),
         prog[t] = "single", prog'[t] = "single"
  PROVE  SingleInv(t)'
<1> DEFINE p == ptr[t][1]
           q == ptr[t][2]
<1>0. /\ SingleInv(t) /\ step[t] \in 1..13 /\ missed[t] = 0
      /\ step \in [Threads -> Nat]
      /\ ptr \in [Threads -> [1..2 -> 0..MaxBuffers]]
      /\ byte \in [Buffers -> {0, 42}]
      /\ HeldBy(t) \subseteq Buffers /\ Cached(t) \subseteq Buffers
  BY SingleText, ReachFinite DEF ProgramInv, SingleInv, TestTypeOK, Reach
<1>1. ~AnyStep(t) /\ ~TestExit(t)
  <2>1. ~AnyStep(t)
    BY AnyProgram DEF AnyStep
  <2>2. ~TestExit(t)
    BY DEF TestExit, TestTypeOK
  <2> QED
    BY <2>1, <2>2
<1>g. ASSUME TestGet(t), Cached(t) # {} \/ Len(global[t + 1]) # 0
      PROVE  \E b \in Buffers :
               /\ HeldBy(t)' = HeldBy(t) \cup {b} /\ b \notin HeldBy(t)
               /\ \/ /\ b \in Cached(t) /\ Cached(t)' = Cached(t) \ {b}
                     /\ global' = global
                  \/ /\ Cached(t) = {} /\ Cached(t)' = {}
                     /\ Len(global'[t + 1]) = Len(global[t + 1]) - 1
               /\ ptr' = [ptr EXCEPT ![t][Now(t).n] = b]
               /\ step' = [step EXCEPT ![t] = @ + 1]
               /\ UNCHANGED <<missed, byte, prog>>
  BY <1>0, <1>g, SingleGet
<1>v. ASSUME TestGive(t), ptr[t][Now(t).n] \in HeldBy(t),
             Cached(t) = {} \/ \E b : Cached(t) = {b}
      PROVE  /\ HeldBy(t)' = HeldBy(t) \ {ptr[t][Now(t).n]}
             /\ Cached(t)' = Cached(t) \cup {ptr[t][Now(t).n]}
             /\ step' = [step EXCEPT ![t] = @ + 1]
             /\ UNCHANGED <<global, missed, byte, prog, ptr>>
  <2>1. Cardinality(Cached(t)) \in {0, 1}
    BY <1>v, FS_EmptySet, FS_Singleton
  <2>2. Len(local[t]) < MaxLocal
    BY <2>1, CachedSize, Constants
  <2> QED
    BY <1>v, <2>2, SingleGive
<1>e. ASSUME Expected(t)
      PROVE  /\ step' = [step EXCEPT ![t] = @ + 1]
             /\ HeldBy(t)' = HeldBy(t) /\ Cached(t)' = Cached(t)
             /\ UNCHANGED <<global, missed, ptr, byte>>
  BY <1>e DEF Expected, Continue, vars, HeldBy, Cached
<1>2. CASE step[t] \in {1, 6, 12}
  <2>1. Now(t).op = "expect"
    BY <1>2, SingleText, OpFields
  <2>2. Expected(t)
    BY <1>1, <2>1 DEF TestStep, TestGet, TestGive, Mark, Compare, Again, Doing
  <2>3. /\ step'[t] = step[t] + 1 /\ missed'[t] = 0
        /\ HeldBy(t)' = HeldBy(t) /\ Cached(t)' = Cached(t)
        /\ global' = global /\ ptr' = ptr /\ byte' = byte
    BY <1>0, <1>e, <2>2
  <2>4. CASE step[t] = 1
    <3>1. At(t, {}, {}, 2)
      BY <1>0, <2>4 DEF SingleInv
    <3>2. step'[t] = 2 /\ At(t, {}, {}, 2)'
      BY <2>3, <2>4, <3>1 DEF At
    <3> QED
      BY <2>3, <3>2 DEF SingleInv
  <2>5. CASE step[t] = 6
    <3>1. At(t, {}, {q}, 1) /\ p = q /\ byte[p] = 42
      BY <1>0, <2>5 DEF SingleInv
    <3>2. /\ step'[t] = 7 /\ ptr'[t][1] = ptr'[t][2] /\ byte'[ptr'[t][1]] = 42
          /\ Cached(t)' = {} /\ HeldBy(t)' = {ptr'[t][2]}
          /\ Len(global'[t + 1]) = 1
      BY <2>3, <2>5, <3>1 DEF At
    <3> QED
      BY <2>3, <3>2 DEF SingleInv, At
  <2>6. CASE step[t] = 12
    <3>1. step'[t] = 13
      BY <2>3, <2>6
    <3> QED
      BY <2>3, <3>1 DEF SingleInv
  <2> QED
    BY <1>2, <2>4, <2>5, <2>6
<1>3. CASE step[t] \in {2, 5, 8, 9}
  <2>1. Now(t).op = "get" /\ Now(t).n = IF step[t] \in {2, 8} THEN 1 ELSE 2
    BY <1>3, SingleText, OpFields
  <2>2. TestGet(t)
    BY <1>1, <2>1 DEF TestStep, TestGive, Mark, Expected, Compare, Again, Doing
  <2>3. Cached(t) # {} \/ Len(global[t + 1]) # 0
    <3>1. step[t] = 2 \/ step[t] = 5 \/ step[t] = 8 \/ step[t] = 9
      BY <1>3
    <3>2. step[t] \in {2, 9} => Len(global[t + 1]) # 0
      <4>1. step[t] = 2 => At(t, {}, {}, 2)
        BY <1>0 DEF SingleInv
      <4>2. step[t] = 9 => At(t, {}, {p}, 1)
        BY <1>0 DEF SingleInv
      <4> QED
        BY <4>1, <4>2 DEF At
    <3>3. step[t] \in {5, 8} => Cached(t) # {}
      <4>1. step[t] = 5 => At(t, {p}, {}, 1)
        BY <1>0 DEF SingleInv
      <4>2. step[t] = 8 => At(t, {q}, {}, 1)
        BY <1>0 DEF SingleInv
      <4> QED
        BY <4>1, <4>2 DEF At
    <3> QED
      BY <3>1, <3>2, <3>3
  <2>4. PICK b \in Buffers :
          /\ HeldBy(t)' = HeldBy(t) \cup {b} /\ b \notin HeldBy(t)
          /\ \/ /\ b \in Cached(t) /\ Cached(t)' = Cached(t) \ {b}
                /\ global' = global
             \/ /\ Cached(t) = {} /\ Cached(t)' = {}
                /\ Len(global'[t + 1]) = Len(global[t + 1]) - 1
          /\ ptr' = [ptr EXCEPT ![t][Now(t).n] = b]
          /\ step' = [step EXCEPT ![t] = @ + 1]
          /\ UNCHANGED <<missed, byte, prog>>
    BY <1>g, <2>2, <2>3
  <2>5. step'[t] = step[t] + 1 /\ missed'[t] = 0 /\ byte' = byte
    BY <1>0, <2>4
  <2>6. CASE step[t] = 2
    <3>1. At(t, {}, {}, 2)
      BY <1>0, <2>6 DEF SingleInv
    <3>2. ptr'[t][1] = b
      BY <1>0, <2>1, <2>4, <2>6
    <3>3. /\ step'[t] = 3 /\ Cached(t)' = {} /\ HeldBy(t)' = {b}
          /\ Len(global'[t + 1]) = 1
      BY <2>4, <2>5, <2>6, <3>1 DEF At
    <3> QED
      BY <2>5, <3>2, <3>3 DEF SingleInv, At
  <2>7. CASE step[t] = 5
    <3>1. At(t, {p}, {}, 1) /\ byte[p] = 42
      BY <1>0, <2>7 DEF SingleInv
    <3>2. ptr'[t][2] = b /\ ptr'[t][1] = p
      BY <1>0, <2>1, <2>4, <2>7
    <3>3. b = p
      BY <2>4, <3>1 DEF At
    <3>4. global' = global /\ Cached(t)' = {} /\ HeldBy(t)' = {b}
      BY <2>4, <3>1, <3>3 DEF At
    <3>5. step'[t] = 6 /\ Len(global'[t + 1]) = 1
      BY <2>5, <2>7, <3>1, <3>4 DEF At
    <3> QED
      BY <2>5, <3>1, <3>2, <3>3, <3>4, <3>5 DEF SingleInv, At
  <2>8. CASE step[t] = 8
    <3>1. At(t, {q}, {}, 1)
      BY <1>0, <2>8 DEF SingleInv
    <3>2. ptr'[t][1] = b
      BY <1>0, <2>1, <2>4, <2>8
    <3>3. b = q
      BY <2>4, <3>1 DEF At
    <3>4. global' = global /\ Cached(t)' = {} /\ HeldBy(t)' = {b}
      BY <2>4, <3>1, <3>3 DEF At
    <3>5. step'[t] = 9 /\ Len(global'[t + 1]) = 1
      BY <2>5, <2>8, <3>1, <3>4 DEF At
    <3> QED
      BY <2>5, <3>2, <3>4, <3>5 DEF SingleInv, At
  <2>9. CASE step[t] = 9
    <3>1. At(t, {}, {p}, 1)
      BY <1>0, <2>9 DEF SingleInv
    <3>2. ptr'[t][2] = b /\ ptr'[t][1] = p
      BY <1>0, <2>1, <2>4, <2>9
    <3>3. b # p
      BY <2>4, <3>1 DEF At
    <3>4. /\ step'[t] = 10 /\ Cached(t)' = {} /\ HeldBy(t)' = {p, b}
          /\ Len(global'[t + 1]) = 0
      BY <2>4, <2>5, <2>9, <3>1 DEF At
    <3> QED
      BY <2>5, <3>2, <3>3, <3>4 DEF SingleInv, At
  <2> QED
    BY <1>3, <2>6, <2>7, <2>8, <2>9
<1>4. CASE step[t] = 3
  <2>1. Now(t).op = "mark"
    BY <1>4, SingleText, OpFields
  <2>2. Mark(t)
    BY <1>1, <2>1 DEF TestStep, TestGet, TestGive, Expected, Compare, Again, Doing
  <2>3. /\ step' = [step EXCEPT ![t] = @ + 1]
        /\ byte' = [byte EXCEPT ![p] = 42]
        /\ HeldBy(t)' = HeldBy(t) /\ Cached(t)' = Cached(t)
        /\ UNCHANGED <<global, missed, ptr>>
    BY <2>2 DEF Mark, Continue, vars, HeldBy, Cached
  <2>4. p \in Buffers
    BY <1>0, <1>4 DEF SingleInv, At
  <2>5. step'[t] = 4 /\ byte'[p] = 42
    BY <1>0, <1>4, <2>3, <2>4
  <2> QED
    BY <1>0, <1>4, <2>3, <2>5 DEF SingleInv, At
<1>5. CASE step[t] \in {4, 7, 10, 11}
  <2>1. Now(t).op = "give" /\ Now(t).n = IF step[t] \in {4, 10} THEN 1 ELSE 2
    BY <1>5, SingleText, OpFields
  <2>2. TestGive(t)
    BY <1>1, <2>1 DEF TestStep, TestGet, Mark, Expected, Compare, Again, Doing
  <2>3. ptr[t][Now(t).n] = IF step[t] \in {4, 10} THEN p ELSE q
    BY <2>1
  <2>4. ptr[t][Now(t).n] \in HeldBy(t) /\ (Cached(t) = {} \/ \E b : Cached(t) = {b})
    <3>1. step[t] = 4 \/ step[t] = 7 \/ step[t] = 10 \/ step[t] = 11
      BY <1>5
    <3>2. step[t] = 4 => p \in HeldBy(t) /\ Cached(t) = {}
      BY <1>0 DEF SingleInv, At
    <3>3. step[t] = 7 => q \in HeldBy(t) /\ Cached(t) = {}
      BY <1>0 DEF SingleInv, At
    <3>4. step[t] = 10 => p \in HeldBy(t) /\ Cached(t) = {}
      BY <1>0 DEF SingleInv, At
    <3>5. step[t] = 11 => q \in HeldBy(t) /\ Cached(t) = {p}
      BY <1>0 DEF SingleInv, At
    <3>6. \/ step[t] \in {4, 10} /\ ptr[t][Now(t).n] = p
          \/ step[t] \in {7, 11} /\ ptr[t][Now(t).n] = q
      BY <2>3, <3>1
    <3> HIDE DEF p, q
    <3> QED
      BY <3>1, <3>2, <3>3, <3>4, <3>5, <3>6
  <2>5. /\ HeldBy(t)' = HeldBy(t) \ {ptr[t][Now(t).n]}
        /\ Cached(t)' = Cached(t) \cup {ptr[t][Now(t).n]}
        /\ step' = [step EXCEPT ![t] = @ + 1]
        /\ UNCHANGED <<global, missed, byte, prog, ptr>>
    BY <1>v, <2>2, <2>4
  <2>6. /\ step'[t] = step[t] + 1 /\ missed'[t] = 0
        /\ global' = global /\ ptr' = ptr /\ byte' = byte
    BY <1>0, <2>5
  <2>7. CASE step[t] = 4
    <3>1. At(t, {}, {p}, 1) /\ byte[p] = 42
      BY <1>0, <2>7 DEF SingleInv
    <3>2. /\ step'[t] = 5 /\ Cached(t)' = {p} /\ HeldBy(t)' = {}
          /\ Len(global'[t + 1]) = 1
      BY <2>3, <2>5, <2>6, <2>7, <3>1 DEF At
    <3> QED
      BY <2>6, <3>1, <3>2 DEF SingleInv, At
  <2>8. CASE step[t] = 7
    <3>1. At(t, {}, {q}, 1)
      BY <1>0, <2>8 DEF SingleInv
    <3>2. /\ step'[t] = 8 /\ Cached(t)' = {q} /\ HeldBy(t)' = {}
          /\ Len(global'[t + 1]) = 1
      BY <2>3, <2>5, <2>6, <2>8, <3>1 DEF At
    <3> QED
      BY <2>6, <3>2 DEF SingleInv, At
  <2>9. CASE step[t] = 10
    <3>1. At(t, {}, {p, q}, 0) /\ p # q
      BY <1>0, <2>9 DEF SingleInv
    <3>2. /\ step'[t] = 11 /\ Cached(t)' = {p} /\ HeldBy(t)' = {q}
          /\ Len(global'[t + 1]) = 0
      BY <2>3, <2>5, <2>6, <2>9, <3>1 DEF At
    <3> QED
      BY <2>6, <3>1, <3>2 DEF SingleInv, At
  <2>10. CASE step[t] = 11
    <3>1. At(t, {p}, {q}, 0) /\ p # q
      BY <1>0, <2>10 DEF SingleInv
    <3>2. /\ step'[t] = 12 /\ Cached(t)' = {p, q} /\ HeldBy(t)' = {}
          /\ Len(global'[t + 1]) = 0
      BY <2>3, <2>5, <2>6, <2>10, <3>1 DEF At
    <3> QED
      BY <2>6, <3>1, <3>2 DEF SingleInv, At
  <2> QED
    BY <1>5, <2>7, <2>8, <2>9, <2>10
<1>6. step[t] # 13
  <2> SUFFICES ASSUME step[t] = 13 PROVE FALSE
    OBVIOUS
  <2>1. Now(t).op = "end"
    BY SingleText, OpFields
  <2> QED
    BY <1>1, <2>1 DEF TestStep, TestGet, TestGive, Mark, Expected, Compare,
       Again, Doing
<1> QED
  BY <1>0, <1>2, <1>3, <1>4, <1>5, <1>6

(* BC_stressTest holds the two buffers it got.                             *)
LEMMA StressSteps ==
  ASSUME TypeOK, OwnerInv, TestTypeOK, UsesOne, ProgramInv,
         NEW t \in Threads, TestStep(t) \/ AnyStep(t),
         prog[t] = "stress", prog'[t] = "stress"
  PROVE  StressInv(t)'
<1>0. /\ StressInv(t) /\ step[t] \in 1..4
      /\ step \in [Threads -> Nat]
      /\ ptr \in [Threads -> [1..2 -> 0..MaxBuffers]]
      /\ held \in [Threads -> [Caches -> SUBSET Buffers]]
      /\ 1 \in Caches /\ CacheOf(t) = 1
      /\ 0 \notin Caches
  BY OtherTexts, Constants DEF ProgramInv, TestTypeOK, TypeOK, CacheOf
<1>1. ~AnyStep(t)
  BY AnyProgram DEF AnyStep
<1>2. CASE UNCHANGED testVars /\ HeldBy(t)' = HeldBy(t)
  BY <1>0, <1>2 DEF StressInv, testVars
<1>3. CASE step[t] \in {1, 2}
  <2>1. Now(t).op = "get" /\ Now(t).n = step[t]
    BY <1>3, OtherTexts, OpFields
  <2>2. TestGet(t)
    BY <1>1, <2>1 DEF TestStep, TestGive, Mark, Expected, Compare, Again,
       TestExit, Doing
  <2>3. CASE held' = held
    BY <1>2, <2>2, <2>3 DEF TestGet, HeldBy
  <2>4. CASE held' # held
    <3>1. PICK x \in held'[t][1] \ held[t][1] :
            /\ ptr' = [ptr EXCEPT ![t][Now(t).n] = x]
            /\ Continue(t)
      BY <1>0, <2>2, <2>4 DEF TestGet, Received
    <3>2. held[t][1] \subseteq held'[t][1] /\ HeldBy(t) \subseteq HeldBy(t)'
      <4>1. \A d \in Caches : held[t][d] \subseteq held'[t][d]
        <5>1. \/ held' = held
              \/ \E c, b : held' = [held EXCEPT ![t][c] = @ \cup {b}]
          BY <2>2 DEF TestGet, GetBuffer, GetLocal, GetGlobal, Miss,
             MakeBuffer, Hand
        <5>2. PICK c, b : held' = [held EXCEPT ![t][c] = @ \cup {b}]
          BY <2>4, <5>1
        <5> QED
          BY <1>0, <5>2
      <4> QED
        BY <1>0, <4>1 DEF HeldBy
    <3>3. x \in HeldBy(t)'
      BY <1>0, <3>1 DEF HeldBy
    <3>4. step'[t] = step[t] + 1
      BY <1>0, <3>1 DEF Continue
    <3>5. ptr'[t][Now(t).n] = x /\ \A k \in 1..2 : k # Now(t).n => ptr'[t][k] = ptr[t][k]
      BY <1>0, <1>3, <2>1, <3>1
    <3>6. CASE step[t] = 1
      <4>1. step'[t] = 2 /\ ptr'[t][1] \in HeldBy(t)'
        BY <2>1, <3>3, <3>4, <3>5, <3>6
      <4> QED
        BY <4>1 DEF StressInv
    <3>7. CASE step[t] = 2
      <4>1. step'[t] = 3 /\ ptr'[t][2] \in HeldBy(t)'
        BY <2>1, <3>3, <3>4, <3>5, <3>7
      <4>2. ptr'[t][1] = ptr[t][1] /\ ptr[t][1] \in HeldBy(t)
        BY <1>0, <2>1, <3>5, <3>7 DEF StressInv
      <4> QED
        BY <3>2, <4>1, <4>2 DEF StressInv
    <3> QED
      BY <1>3, <3>6, <3>7
  <2> QED
    BY <2>3, <2>4
<1>4. CASE step[t] = 3
  <2>1. Now(t).op = "expect"
    BY <1>4, OtherTexts, OpFields
  <2>2. Expected(t)
    BY <1>1, <2>1 DEF TestStep, TestGet, TestGive, Mark, Compare, Again,
       TestExit, Doing
  <2>3. step'[t] = step[t] + 1 /\ UNCHANGED ptr /\ HeldBy(t)' = HeldBy(t)
    BY <1>0, <2>2 DEF Expected, Continue, vars, HeldBy
  <2> QED
    BY <1>0, <1>4, <2>3 DEF StressInv
<1>5. step[t] # 4
  <2> SUFFICES ASSUME step[t] = 4 PROVE FALSE
    OBVIOUS
  <2>1. Now(t).op = "work"
    BY OtherTexts, OpFields
  <2> QED
    BY <1>1, <2>1 DEF TestStep, TestGet, TestGive, Mark, Expected, Compare,
       Again, TestExit, Doing
<1> QED
  BY <1>0, <1>3, <1>4, <1>5

LEMMA NextProgramInv ==
  ASSUME CtorThreads = 1, MaxLocal >= 2
  PROVE  TypeOK /\ OwnerInv /\ TestTypeOK /\ UsesOne /\ ProgramInv
           /\ [Next]_allVars => ProgramInv'
<1> SUFFICES ASSUME TypeOK, OwnerInv, TestTypeOK, UsesOne, ProgramInv,
                    [Next]_allVars,
                    NEW u \in Threads
             PROVE  /\ prog'[u] = "single" => SingleInv(u)'
                    /\ prog'[u] = "stress" => StressInv(u)'
  BY DEF ProgramInv
<1>1. CASE UNCHANGED allVars
  <2>1. /\ prog' = prog /\ step' = step /\ ptr' = ptr /\ byte' = byte
        /\ global' = global /\ missed' = missed
        /\ Cached(u)' = Cached(u) /\ HeldBy(u)' = HeldBy(u)
    BY <1>1 DEF allVars, vars, testVars, Cached, HeldBy
  <2>2. SingleInv(u)' = SingleInv(u)
    BY <2>1 DEF SingleInv, At
  <2>3. StressInv(u)' = StressInv(u)
    BY <2>1 DEF StressInv
  <2> QED
    BY <2>1, <2>2, <2>3 DEF ProgramInv
<1>2. ASSUME NEW t \in Threads, TestStep(t) \/ AnyStep(t)
      PROVE  /\ prog'[u] = "single" => SingleInv(u)'
             /\ prog'[u] = "stress" => StressInv(u)'
  <2>1. CASE u # t
    BY <1>2, <2>1, OthersProgramInv
  <2>2. CASE u = t
    <3>1. prog'[u] \in {"single", "stress"} => prog[u] = prog'[u]
      BY <1>2, <2>2, OwnProgram
    <3> QED
      BY <1>2, <2>2, <3>1, SingleSteps, StressSteps
  <2> QED
    BY <2>1, <2>2
<1> QED
  BY <1>1, <1>2 DEF Next

LEMMA InitProgramInv ==
  ASSUME CtorThreads = 1
  PROVE  InitTests => ProgramInv
<1> SUFFICES ASSUME InitTests, NEW t \in Threads
             PROVE  /\ prog[t] = "single" => SingleInv(t)
                    /\ prog[t] = "stress" => StressInv(t)
  BY DEF ProgramInv
<1>1. Init /\ step[t] = 1
  BY DEF InitTests
<1>2. At(t, {}, {}, 2) /\ missed[t] = 0
  <2>1. Len(global[t + 1]) = 2 * CtorThreads
    BY <1>1, Constants, InitialPool
  <2>2. Cached(t) = {} /\ HeldBy(t) = {} /\ missed[t] = 0
    BY <1>1, EmptyPool DEF Init, Cached, HeldBy
  <2> QED
    BY <2>1, <2>2 DEF At
<1> QED
  BY <1>1, <1>2 DEF SingleInv, StressInv

(* The assertions of UnitTests.cpp succeed, whatever the other threads do  *)
(* and however many they are, with the caches the tests construct (their   *)
(* arguments make two buffers and a local cache for two).                  *)
THEOREM UnitTestsPass ==
  ASSUME CtorThreads = 1, MaxLocal >= 2
  PROVE  Spec => []AssertsHold
<1>1. Spec => []ProgramInv
  BY InitProgramInv, NextProgramInv, TestInvariance, PTL DEF Spec
<1>2. ASSUME TypeOK, OwnerInv, TestTypeOK, UsesOne, ProgramInv
      PROVE  AssertsHold
  <2> SUFFICES ASSUME NEW t \in Threads, Now(t).op = "expect"
               PROVE  \/ /\ Now(t).n = 1
                         /\ LocalCacheSize(t) = 0 /\ GlobalCacheSize(t + 1) = 2
                      \/ /\ Now(t).n = 2
                         /\ ptr[t][1] = ptr[t][2] /\ byte[ptr[t][2]] = 42
                      \/ /\ Now(t).n = 3
                         /\ ptr[t][1] # ptr[t][2]
                         /\ LocalCacheSize(t) = 2 /\ GlobalCacheSize(t + 1) = 0
                      \/ /\ Now(t).n = 4
                         /\ \A k \in 1..2 : madeBy[ptr[t][k]] = CacheOf(t)
    <3> SUFFICES ASSUME NEW t \in Threads, Doing(t, "expect")
                 PROVE  CASE Now(t).n = 1 -> LocalCacheSize(t) = 0
                                             /\ GlobalCacheSize(t + 1) = 2
                          [] Now(t).n = 2 -> ptr[t][1] = ptr[t][2]
                                             /\ byte[ptr[t][2]] = 42
                          [] Now(t).n = 3 -> /\ ptr[t][1] # ptr[t][2]
                                             /\ LocalCacheSize(t) = 2
                                             /\ GlobalCacheSize(t + 1) = 0
                          [] Now(t).n = 4 -> \A k \in 1..2 :
                                               madeBy[ptr[t][k]] = CacheOf(t)
      BY DEF AssertsHold
    <3>1. Now(t).op = "expect"
      BY DEF Doing
    <3>2. CASE Now(t).n = 1
      BY <3>1, <3>2
    <3>3. CASE Now(t).n = 2
      BY <3>1, <3>3
    <3>4. CASE Now(t).n = 3
      BY <3>1, <3>4
    <3>5. CASE Now(t).n = 4
      BY <3>1, <3>5
    <3> QED
      BY <3>1, <3>2, <3>3, <3>4, <3>5
  <2>0. Len(local[t]) = Cardinality(Cached(t))
    BY <1>2, CachedSize
  <2>1. CASE prog[t] = "single"
    <3>1. step[t] = 1 \/ step[t] = 6 \/ step[t] = 12
      <4>1. step[t] \in 1..13
        BY <1>2, <2>1, SingleText
      <4>2. step[t] \notin {2, 5, 8, 9} \cup {3} \cup {4, 7, 10, 11} \cup {13}
        BY <1>2, <2>1, SingleText, OpFields
      <4> QED
        BY <4>1, <4>2
    <3>2. SingleInv(t)
      BY <1>2, <2>1 DEF ProgramInv
    <3>3. CASE step[t] = 1
      <4>1. Now(t).n = 1
        BY <1>2, <2>1, <3>3, SingleText, OpFields
      <4>2. At(t, {}, {}, 2)
        BY <3>2, <3>3 DEF SingleInv
      <4>3. Len(local[t]) = 0 /\ Len(global[t + 1]) = 2
        BY <2>0, <4>2, FS_EmptySet DEF At
      <4> QED
        BY <4>1, <4>3 DEF LocalCacheSize, GlobalCacheSize
    <3>4. CASE step[t] = 6
      <4>1. Now(t).n = 2
        BY <1>2, <2>1, <3>4, SingleText, OpFields
      <4> QED
        BY <3>2, <3>4, <4>1 DEF SingleInv, At
    <3>5. CASE step[t] = 12
      <4>1. Now(t).n = 3
        BY <1>2, <2>1, <3>5, SingleText, OpFields
      <4>2. /\ Cached(t) = {ptr[t][1], ptr[t][2]} /\ ptr[t][1] # ptr[t][2]
            /\ Len(global[t + 1]) = 0
        BY <3>2, <3>5 DEF SingleInv, At
      <4>3. Cardinality({ptr[t][1]} \cup {ptr[t][2]}) = 2
        <5>1. /\ IsFiniteSet({ptr[t][1]}) /\ Cardinality({ptr[t][1]}) = 1
              /\ ptr[t][2] \notin {ptr[t][1]}
          BY <4>2, FS_Singleton
        <5>2. Cardinality({ptr[t][1]} \cup {ptr[t][2]})
                = Cardinality({ptr[t][1]}) + 1
          BY <5>1, FS_AddElement
        <5> QED
          BY <5>1, <5>2
      <4>4. Len(local[t]) = 2
        <5>1. Cached(t) = {ptr[t][1]} \cup {ptr[t][2]}
          BY <4>2
        <5> QED
          BY <2>0, <4>3, <5>1
      <4> QED
        BY <4>1, <4>2, <4>4 DEF LocalCacheSize, GlobalCacheSize
    <3> QED
      BY <3>1, <3>3, <3>4, <3>5
  <2>2. CASE prog[t] = "stress"
    <3>1. step[t] = 3 /\ Now(t).n = 4
      <4>1. step[t] \in 1..4 /\ step[t] \notin {1, 2, 4}
        BY <1>2, <2>2, OtherTexts, OpFields
      <4>2. step[t] = 3
        BY <4>1
      <4> QED
        BY <1>2, <2>2, <4>2, OtherTexts, OpFields
    <3>2. \A k \in 1..2 : ptr[t][k] \in Reach(t)
      BY <1>2, <2>2, <3>1 DEF ProgramInv, StressInv, Reach
    <3> QED
      BY <1>2, <3>1, <3>2 DEF UsesOne
  <2>3. prog[t] \notin {"multi", "any", "none"}
    BY <1>2, OtherTexts, OpFields
  <2> QED
    BY <1>2, <2>1, <2>2, <2>3 DEF TestTypeOK, Programs
<1> QED
  BY <1>1, <1>2, TestInvariance, PTL
=============================================================================
