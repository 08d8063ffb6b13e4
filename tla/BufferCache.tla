----------------------------- MODULE BufferCache -----------------------------
(***************************************************************************)
(* class BufferCache (src/src/Streambuf_Modifier_t.{h,cpp}): buffers are   *)
(* handed out from a thread-local cache, then from the cache object's      *)
(* global pool, then freshly allocated; a buffer given back goes to the    *)
(* local cache while that has room and to the global pool otherwise.       *)
(*                                                                         *)
(* getLocal's vector is a thread_local static of the class, not a member:  *)
(* one thread has one local cache, whichever BufferCache it calls.         *)
(*                                                                         *)
(* A buffer is a number; the unique_ptr that owns it is in one of the      *)
(* pools or in a local variable of its user (held).                        *)
(***************************************************************************)
EXTENDS Integers, FiniteSetsExt, SequencesExt

CONSTANTS
  Threads,       \* the threads that use the caches
  NumCaches,     \* the BufferCache objects
  CtorThreads,   \* the constructor's argument "threads"
  MaxLocal,      \* max_local_buffer_
  MaxHeld,       \* bound: buffers a thread holds at a time
  MaxBuffers     \* bound: buffers alive at a time

Caches  == 1..NumCaches
Buffers == 1..MaxBuffers

ASSUME CacheAssumption ==
  /\ IsFiniteSet(Threads)
  /\ {NumCaches, MaxHeld} \subseteq Nat \ {0}
  /\ {CtorThreads, MaxLocal} \subseteq Nat
  /\ MaxBuffers \in Nat /\ MaxBuffers >= 2 * CtorThreads * NumCaches

VARIABLES
  local,    \* per thread: local_buffer_cache_t_
  global,   \* per cache: global_buffer_cache_
  held,     \* per thread and cache: what it got there and has not given back
  missed,   \* per thread: the cache in whose getBuffer it is about to
            \* allocate (both pools were empty), or 0
  madeBy    \* per buffer: the cache that allocated it and whose buffer_size_
            \* it therefore has, or 0 when it is not alive
vars == <<local, global, held, missed, madeBy>>

(* The constructors have filled each pool with 2 * threads buffers.        *)
Init ==
  /\ local = [t \in Threads |-> <<>>]
  /\ global = [c \in Caches |->
                 [i \in 1..2 * CtorThreads |-> 2 * CtorThreads * (c - 1) + i]]
  /\ held = [t \in Threads |-> [c \in Caches |-> {}]]
  /\ missed = [t \in Threads |-> 0]
  /\ madeBy = [b \in Buffers |->
                 IF b > 2 * CtorThreads * NumCaches THEN 0
                 ELSE (b - 1) \div (2 * CtorThreads) + 1]

HeldBy(t)  == UNION {held[t][c] : c \in Caches}
Calls(t)   == missed[t] = 0 /\ Cardinality(HeldBy(t)) < MaxHeld
Hand(t, c, b) == held' = [held EXCEPT ![t][c] = @ \cup {b}]
-----------------------------------------------------------------------------
(* The two tests of getBuffer, and slips of it without one of them.        *)
LocalUnread(t)  == TRUE
LocalEmpty(t)   == local[t] = <<>>
GlobalUnread(c) == TRUE
GlobalEmpty(c)  == global[c] = <<>>

(* getBuffer, served by the thread's own cache: no lock.                   *)
GetLocal(t, c) ==
  /\ Calls(t)
  /\ local[t] # <<>>
  /\ Hand(t, c, Last(local[t]))
  /\ local' = [local EXCEPT ![t] = Front(@)]
  /\ UNCHANGED <<global, missed, madeBy>>

(* getBuffer, served by the global pool under its mutex.                   *)
GetGlobal(t, c) ==
  /\ Calls(t)
  /\ LocalEmpty(t) /\ global[c] # <<>>
  /\ Hand(t, c, Last(global[c]))
  /\ global' = [global EXCEPT ![c] = Front(@)]
  /\ UNCHANGED <<local, missed, madeBy>>

(* Both are empty.  The mutex is released before the allocation, so others *)
(* may refill the pool meanwhile.                                          *)
Miss(t, c) ==
  /\ Calls(t)
  /\ LocalEmpty(t) /\ GlobalEmpty(c)
  /\ missed' = [missed EXCEPT ![t] = c]
  /\ UNCHANGED <<local, global, held, madeBy>>

Fresh == {b \in Buffers : madeBy[b] = 0}

MakeBuffer(t) ==
  /\ missed[t] # 0
  /\ Fresh # {}
  /\ LET b == Min(Fresh) IN
       /\ Hand(t, missed[t], b)
       /\ madeBy' = [madeBy EXCEPT ![b] = missed[t]]
  /\ missed' = [missed EXCEPT ![t] = 0]
  /\ UNCHANGED <<local, global>>

(* The test of giveBackBuffer; slips of it: <= for <, and no else.         *)
LocalRoomForOneMore(t) == Len(local[t]) <= MaxLocal
LocalRoom(t)           == Len(local[t]) < MaxLocal
GlobalAlways(t)        == TRUE
GlobalInstead(t)       == ~LocalRoom(t)

(* giveBackBuffer, by the thread that got the buffer and to the cache it   *)
(* got it from, as the tests do.                                           *)
GiveBackBuffer(t, c) ==
  /\ missed[t] = 0
  /\ \E b \in held[t][c] :
       /\ held' = [held EXCEPT ![t][c] = @ \ {b}]
       /\ local' = IF LocalRoom(t) THEN [local EXCEPT ![t] = Append(@, b)]
                                   ELSE local
       /\ global' = IF GlobalInstead(t) THEN [global EXCEPT ![c] = Append(@, b)]
                                        ELSE global
  /\ UNCHANGED <<missed, madeBy>>

(* getLocalCacheSize and getGlobalCacheSize.                               *)
LocalCacheSize(t)  == Len(local[t])
GlobalCacheSize(c) == Len(global[c])

(* A thread ends: its local cache and what it still holds are freed.       *)
(* Another thread, with an empty local cache, takes its place.             *)
ThreadExit(t) ==
  /\ missed[t] = 0
  /\ local' = [local EXCEPT ![t] = <<>>]
  /\ held' = [held EXCEPT ![t] = [c \in Caches |-> {}]]
  /\ madeBy' = [b \in Buffers |->
                  IF b \in ToSet(local[t]) \cup HeldBy(t) THEN 0 ELSE madeBy[b]]
  /\ UNCHANGED <<global, missed>>

GetBuffer(t, c) == GetLocal(t, c) \/ GetGlobal(t, c) \/ Miss(t, c)
-----------------------------------------------------------------------------
Alive == {b \in Buffers : madeBy[b] # 0}

TypeOK ==
  /\ local \in [Threads -> Seq(Buffers)]
  /\ \A t \in Threads : Len(local[t]) <= MaxLocal
  /\ global \in [Caches -> Seq(Buffers)]
  /\ held \in [Threads -> [Caches -> SUBSET Buffers]]
  /\ missed \in [Threads -> 0..NumCaches]
  /\ madeBy \in [Buffers -> 0..NumCaches]

(* Every live buffer has one owner: one slot of one pool, or one thread.   *)
(* Two threads never hold, and never find in a pool, the same buffer, and  *)
(* no buffer in reach has been freed.                                      *)
Slots(s, b) == {i \in 1..Len(s) : s[i] = b}
Places(b) ==
  Cardinality(UNION {{t} \X Slots(local[t], b) : t \in Threads})
  + Cardinality(UNION {{c} \X Slots(global[c], b) : c \in Caches})
  + Cardinality({p \in Threads \X Caches : b \in held[p[1]][p[2]]})
OneOwner == \A b \in Buffers : Places(b) = (IF b \in Alive THEN 1 ELSE 0)

(* Buffers out of the reach of other threads - held, cached locally or     *)
(* about to be allocated - are never more than the thread needed at once:  *)
(* the local cache cannot hoard what the thread did not itself use.        *)
ThreadFootprint ==
  \A t \in Threads :
    Len(local[t]) + Cardinality(HeldBy(t)) + (IF missed[t] # 0 THEN 1 ELSE 0)
      <= MaxHeld
=============================================================================
