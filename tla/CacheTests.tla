----------------------------- MODULE CacheTests -----------------------------
(***************************************************************************)
(* BufferCache with its callers.  The threads either call getBuffer and    *)
(* giveBackBuffer of one cache in any order, or run the programs of        *)
(* src/src/UnitTests.cpp, line by line: main runs BC_singleThreadTest,     *)
(* then BC_multiThreadTest, whose threads run that or a loop of their own, *)
(* then BC_stressTest.                                                     *)
(*                                                                         *)
(* Cache 1 is shared; cache t + 1 is the local variable of                 *)
(* BC_singleThreadTest in thread t.  Of a buffer's bytes only the first    *)
(* matters: make_unique<vector<char>>(n) makes it 0.                       *)
(***************************************************************************)
EXTENDS BufferCache

VARIABLES
  prog,      \* per thread: the program it runs
  step,      \* per thread: the index of its next operation
  ptr,       \* per thread: the raw pointers ptr1 and ptr2 (or 0)
  byte,      \* per buffer: its first byte
  reported   \* threads that printed "reused buffer"
testVars == <<prog, step, ptr, byte, reported>>
allVars  == <<vars, testVars>>

ASSUME TestAssumption ==
  /\ Threads \subseteq Nat \ {0}
  /\ NumCaches = Cardinality(Threads) + 1 /\ Threads = 1..(NumCaches - 1)

(* "get" and "give" of buffer 1 or 2, an assertion, or something else the  *)
(* program does with what it holds.                                        *)
Op(name, n) == [op |-> name, n |-> n]
Get(n)  == Op("get", n)
Give(n) == Op("give", n)
Expect(n) == Op("expect", n)

SingleThreadTest ==
  <<Expect(1), Get(1), Op("mark", 1), Give(1), Get(2), Expect(2), Give(2),
    Get(1), Get(2), Give(1), Give(2), Expect(3), Op("end", 0)>>

(* The loop starts at j = 1, so the branch that marks a buffer is dead.    *)
MultiThreadTest == <<Get(1), Op("compare", 1), Give(1), Op("again", 0)>>

(* Both loops of the work on the two buffers advance the wrong variable:   *)
(* "work" is never left.                                                   *)
StressTest == <<Get(1), Get(2), Expect(4), Op("work", 0)>>

Program == [single |-> SingleThreadTest, multi |-> MultiThreadTest,
            stress |-> StressTest, any |-> <<Op("any", 0)>>,
            none |-> <<Op("none", 0)>>]

Now(t)     == Program[prog[t]][step[t]]
Doing(t, op) == Now(t).op = op
CacheOf(t) == IF prog[t] = "single" THEN t + 1 ELSE 1
Number(t)  == t - 1                     \* i in the lambdas

InitTests ==
  /\ Init
  /\ prog \in [Threads -> {"any"}] \cup [Threads -> {"single", "multi"}]
                \cup [Threads -> {"stress"}]
  /\ step = [t \in Threads |-> 1]
  /\ ptr = [t \in Threads |-> <<0, 0>>]
  /\ byte = [b \in Buffers |-> 0]
  /\ reported = {}
-----------------------------------------------------------------------------
Continue(t) == step' = [step EXCEPT ![t] = @ + 1]

(* getBuffer returns: the pointer is kept, a new buffer is zero.           *)
Received(t) ==
  \E b \in held'[t][CacheOf(t)] \ held[t][CacheOf(t)] :
    /\ ptr' = [ptr EXCEPT ![t][Now(t).n] = b]
    /\ byte' = [byte EXCEPT ![b] = IF madeBy[b] = 0 THEN 0 ELSE @]
    /\ Continue(t)
    /\ UNCHANGED <<prog, reported>>

TestGet(t) ==
  /\ Doing(t, "get")
  /\ GetBuffer(t, CacheOf(t)) \/ MakeBuffer(t)
  /\ IF held' = held THEN UNCHANGED testVars ELSE Received(t)

TestGive(t) ==
  /\ Doing(t, "give")
  /\ GiveBackBuffer(t, CacheOf(t))
  /\ ptr[t][Now(t).n] \notin held'[t][CacheOf(t)]
  /\ Continue(t)
  /\ UNCHANGED <<prog, ptr, byte, reported>>

(* The first byte of buf1 is set.                                          *)
Mark(t) ==
  /\ Doing(t, "mark")
  /\ byte' = [byte EXCEPT ![ptr[t][1]] = 42]
  /\ Continue(t)
  /\ UNCHANGED <<vars, prog, ptr, reported>>

(* An assertion; AssertsHold says that it succeeds.                        *)
Expected(t) ==
  /\ Doing(t, "expect")
  /\ Continue(t)
  /\ UNCHANGED <<vars, prog, ptr, byte, reported>>

(* The byte of buf is compared with the number of the thread.              *)
Compare(t) ==
  /\ Doing(t, "compare")
  /\ reported' = IF byte[ptr[t][1]] = Number(t) THEN reported \cup {t}
                                                ELSE reported
  /\ Continue(t)
  /\ UNCHANGED <<vars, prog, ptr, byte>>

(* The loop of 49 rounds, whose number is left open.                       *)
Again(t) ==
  /\ Doing(t, "again") /\ t \notin reported
  /\ step' = [step EXCEPT ![t] = 1]
  /\ UNCHANGED <<vars, prog, ptr, byte, reported>>

(* The thread of a program that ended exits.                               *)
TestExit(t) ==
  /\ Now(t).op \in {"end", "again"}
  /\ ThreadExit(t)
  /\ prog' = [prog EXCEPT ![t] = "none"]
  /\ step' = [step EXCEPT ![t] = 1]
  /\ UNCHANGED <<ptr, byte, reported>>

TestStep(t) ==
  TestGet(t) \/ TestGive(t) \/ Mark(t) \/ Expected(t) \/ Compare(t) \/ Again(t)
  \/ TestExit(t)

(* Any use of cache 1, by threads that come and go.                        *)
AnyStep(t) ==
  /\ Doing(t, "any")
  /\ GetBuffer(t, 1) \/ MakeBuffer(t) \/ GiveBackBuffer(t, 1) \/ ThreadExit(t)
  /\ UNCHANGED testVars

Next == \E t \in Threads : TestStep(t) \/ AnyStep(t)

Spec == InitTests /\ [][Next]_allVars
-----------------------------------------------------------------------------
(* The assertions of UnitTests.cpp hold, whatever the other threads do: a  *)
(* thread gets back the buffer it gave last, with its contents, its two    *)
(* buffers differ, and a buffer has the size of the cache that handed it   *)
(* out (which is so because no thread of the tests uses two caches).       *)
AssertsHold ==
  \A t \in Threads :
    Doing(t, "expect") =>
      CASE Now(t).n = 1 -> LocalCacheSize(t) = 0 /\ GlobalCacheSize(t + 1) = 2
        [] Now(t).n = 2 -> ptr[t][1] = ptr[t][2] /\ byte[ptr[t][2]] = 42
        [] Now(t).n = 3 -> /\ ptr[t][1] # ptr[t][2]
                           /\ LocalCacheSize(t) = 2 /\ GlobalCacheSize(t + 1) = 0
        [] Now(t).n = 4 -> \A k \in 1..2 : madeBy[ptr[t][k]] = CacheOf(t)

(* A cache never owns more buffers than its constructor made or than its   *)
(* users may hold at the same time, although the decision to allocate is   *)
(* made under the mutex and the allocation happens after it is released.   *)
(* It is so as long as a thread uses one cache: the local cache of a       *)
(* thread that uses two carries buffers from one pool into the other.      *)
OwnedBy(c) == {b \in Alive : madeBy[b] = c}
Pending(c) == {t \in Threads : missed[t] = c}
Users(c)   == IF c = 1 THEN Threads ELSE {c - 1}
FootprintBounded ==
  \A c \in Caches :
    Cardinality(OwnedBy(c)) + Cardinality(Pending(c))
      <= Max({2 * CtorThreads, Cardinality(Users(c)) * MaxHeld})
=============================================================================
