--------------------------- MODULE RwLockStrategy ---------------------------
(***************************************************************************)
(* ArcSwapAny with the RwLock<()> strategy of src/src/strategy/rw_lock.rs, *)
(* and two clients of the storage: the rcu loop of src/src/lib.rs and the  *)
(* Cache of src/src/cache.rs.                                              *)
(*                                                                         *)
(* The lock does not protect the pointer: swap exchanges it first and only *)
(* then takes the lock, to wait until no load is between its read and its  *)
(* increment of the count.                                                 *)
(*                                                                         *)
(* Addresses of freed objects are used again, so that a comparison of      *)
(* pointers may confuse two objects.  The object at a carries a number,    *)
(* value[a]; the closure given to rcu adds one.  The read of Cache is      *)
(* Relaxed: it may return any pointer of the storage's modification order  *)
(* that is not older than what the thread has seen.                        *)
(***************************************************************************)
EXTENDS Integers, Sequences, FiniteSets

CONSTANTS
  Threads,
  MaxObjects, \* bound: how many addresses the allocator uses
  Script      \* Script[t][i]: what the i-th call of thread t may be; the
              \* bound on its calls is the length of the sequence

Objects == 1..MaxObjects   \* the addresses of reference counted objects
First == 1                 \* the value the storage is created with
None == 0                  \* no object

ApiCalls == {"load", "store", "rcu", "cache_load", "drop_cache"}

ASSUME ThreadsAssumption == IsFiniteSet(Threads)
ASSUME MaxObjectsAssumption == MaxObjects \in Nat \ {0}
ASSUME RwScriptAssumption == Script \in [Threads -> Seq(SUBSET ApiCalls)]

VARIABLES
  storage,   \* ArcSwapAny::ptr
  cnt,       \* the strong counts
  value,     \* what is in the objects
  used,      \* the allocator has given out the addresses up to this one
  readers,   \* the RwLock: the threads that have it for reading
  writer,    \* the threads (one at most) that have it for writing
  poisoned,  \* the RwLock: somebody has panicked with it
  leaked,    \* history: how many references to an object a panic has lost
  pc,        \* where a thread is in its call
  op,        \* the call
  cur,       \* the guard of a load or of rcu
  new,       \* the value to be stored
  old,       \* what was in the storage
  from,      \* history: where in the modification order cur was read
  cached,    \* Cache::cached of a thread; None before Cache::new
  calls,     \* how many calls every thread has made
  order,     \* history: the modification order of storage
  seen,      \* history: up to where a thread has seen it
  cachedAt,  \* history: where cached was read
  updates    \* history: the rcu calls that have taken effect since a store

lockVars == <<readers, writer, poisoned, leaked>>
history == <<order, seen, cachedAt, updates>>
frame == <<op, cur, new, old, from>>
callVars == <<pc, frame>>
vars == <<storage, cnt, value, used, lockVars, callVars, cached, calls, history>>

Pc == {"idle", "read_lock", "read", "inc", "read_unlock", "closure",
       "cas_lock", "cas", "cas_inc", "cas_drop_new", "cas_unwind", "cas_unlock", "compare",
       "drop_cur", "swap", "write_lock", "drop_old", "check", "fill"}

Init ==
  /\ storage = First
  /\ cnt = [a \in Objects |-> IF a = First THEN 1 ELSE 0]
  /\ value = [a \in Objects |-> 0]
  /\ used = First
  /\ readers = {} /\ writer = {} /\ poisoned = FALSE
  /\ leaked = [a \in Objects |-> 0]
  /\ pc = [t \in Threads |-> "idle"]
  /\ op = [t \in Threads |-> "none"]
  /\ cur = [t \in Threads |-> None]
  /\ new = [t \in Threads |-> None]
  /\ old = [t \in Threads |-> None]
  /\ from = [t \in Threads |-> 1]
  /\ cached = [t \in Threads |-> None]
  /\ calls = [t \in Threads |-> 0]
  /\ order = <<First>>
  /\ seen = [t \in Threads |-> 1]
  /\ cachedAt = [t \in Threads |-> 1]
  /\ updates = 0

-----------------------------------------------------------------------------
At(t, p) == pc[t] = p
Goto(t, p) == pc' = [pc EXCEPT ![t] = p]

(* A new value for a variable of thread t. *)
Set(f, t, x) == [f EXCEPT ![t] = x]

(* The call is over, and nothing of it is left. *)
Return(t) ==
  /\ Goto(t, "idle")
  /\ op' = Set(op, t, "none")
  /\ cur' = Set(cur, t, None) /\ new' = Set(new, t, None)
  /\ old' = Set(old, t, None) /\ from' = Set(from, t, 1)

Inc(a) == cnt' = [cnt EXCEPT ![a] = @ + 1]
Dec(a) == cnt' = [cnt EXCEPT ![a] = @ - 1]

(* Arc::new at an address that has been freed, or at a new one. *)
Allocate(a, v) ==
  /\ cnt[a] = 0 /\ a <= used + 1
  /\ used' = IF a > used THEN a ELSE used
  /\ cnt' = [cnt EXCEPT ![a] = 1]
  /\ value' = [value EXCEPT ![a] = v]

(* The pointer of the storage is exchanged for a. *)
Publish(t, a) ==
  /\ storage' = a
  /\ order' = Append(order, a)
  /\ seen' = [seen EXCEPT ![t] = Len(order) + 1]
  /\ updates' = IF op[t] = "rcu" THEN updates + 1 ELSE 0

Call(t, c) ==
  /\ At(t, "idle")
  /\ calls[t] < Len(Script[t]) /\ c \in Script[t][calls[t] + 1]
  /\ calls' = [calls EXCEPT ![t] = @ + 1]

-----------------------------------------------------------------------------
(* load, of the API, of rcu and (load_full) of Cache.  A Cache is created by
   its first load. *)
Load(t, c) ==
  /\ Call(t, c)
  /\ \/ c \in {"load", "rcu"}
     \/ c = "cache_load" /\ cached[t] = None
  /\ Goto(t, "read_lock")
  /\ op' = Set(op, t, c)
  /\ UNCHANGED <<cur, new, old, from>>
  /\ UNCHANGED <<storage, cnt, value, used, lockVars, cached, history>>

(* A poisoned lock is taken too, but the expect ends the call. *)
ReadLock(t) ==
  /\ At(t, "read_lock")
  /\ writer = {}
  /\ \/ poisoned /\ Return(t) /\ UNCHANGED readers
     \/ /\ ~poisoned
        /\ Goto(t, "read") /\ UNCHANGED frame
        /\ readers' = readers \cup {t}
  /\ UNCHANGED <<storage, cnt, value, used, writer, poisoned, leaked, cached, calls, history>>

Read(t) ==
  /\ At(t, "read")
  /\ Goto(t, "inc")
  /\ cur' = Set(cur, t, storage)
  /\ from' = Set(from, t, Len(order))
  /\ UNCHANGED <<op, new, old>>
  /\ seen' = [seen EXCEPT ![t] = Len(order)]
  /\ UNCHANGED <<storage, cnt, value, used, lockVars, cached, calls, order, cachedAt, updates>>

LoadInc(t) ==
  /\ At(t, "inc")
  /\ Inc(cur[t])
  /\ Goto(t, "read_unlock") /\ UNCHANGED frame
  /\ UNCHANGED <<storage, value, used, lockVars, cached, calls, history>>

ReadUnlock(t) ==
  /\ At(t, "read_unlock")
  /\ readers' = readers \ {t}
  /\ Goto(t, CASE op[t] = "load" -> "drop_cur"
               [] op[t] = "rcu" -> "closure"
               [] OTHER -> "fill")
  /\ UNCHANGED frame
  /\ UNCHANGED <<storage, cnt, value, used, writer, poisoned, leaked, cached, calls, history>>

(* The caller is done with its guard; rcu drops cur as it returns. *)
DropCur(t) ==
  /\ At(t, "drop_cur")
  /\ Dec(cur[t])
  /\ \/ old[t] = None /\ Return(t)
     \/ /\ old[t] # None
        /\ Goto(t, "drop_old")
        /\ cur' = Set(cur, t, None)
        /\ UNCHANGED <<op, new, old, from>>
  /\ UNCHANGED <<storage, value, used, lockVars, cached, calls, history>>

-----------------------------------------------------------------------------
(* swap, with the old value dropped by the caller (store).  The value is one
   that was made for the call: NoLostUpdate and CacheReturnsSeen tell values
   apart by when they were stored.  A store of an Arc that the caller has
   already is in HybridStrategy (NewValue) and in ArcSwapAny. *)
Store(t, a) ==
  /\ Call(t, "store")
  /\ Allocate(a, 0)
  /\ Goto(t, "swap")
  /\ op' = Set(op, t, "store")
  /\ new' = Set(new, t, a)
  /\ UNCHANGED <<cur, old, from>>
  /\ UNCHANGED <<storage, lockVars, cached, history>>

Swap(t) ==
  /\ At(t, "swap")
  /\ Publish(t, new[t])
  /\ Goto(t, "write_lock")
  /\ old' = Set(old, t, storage)
  /\ new' = Set(new, t, None)
  /\ UNCHANGED <<op, cur, from>>
  /\ UNCHANGED <<cnt, value, used, lockVars, cached, calls, cachedAt>>

(* A mutant of WaitForReaders: it does not wait. *)
WaitForReadersNot(t) ==
  /\ At(t, "write_lock")
  /\ Goto(t, "drop_old") /\ UNCHANGED frame
  /\ UNCHANGED <<storage, cnt, value, used, lockVars, cached, calls, history>>

(* wait_for_readers: the lock is taken and given back at once; it is only held
   to keep out others.  If it is poisoned, swap ends here, with the new value
   in the storage and the old one only in a raw pointer. *)
WaitForReaders(t) ==
  /\ At(t, "write_lock")
  /\ readers = {} /\ writer = {}
  /\ \/ /\ poisoned
        /\ Return(t)
        /\ leaked' = [leaked EXCEPT ![old[t]] = @ + 1]
     \/ /\ ~poisoned
        /\ Goto(t, "drop_old") /\ UNCHANGED frame
        /\ UNCHANGED leaked
  /\ UNCHANGED <<storage, cnt, value, used, readers, writer, poisoned, cached, calls, history>>

DropOld(t) ==
  /\ At(t, "drop_old")
  /\ Dec(old[t])
  /\ Return(t)
  /\ UNCHANGED <<storage, value, used, lockVars, cached, calls, history>>

-----------------------------------------------------------------------------
(* rcu: the closure makes a new value from the guarded one, compare_and_swap
   puts it in place of that one or fetches what is there now. *)
RcuClosure(t, a) ==
  /\ At(t, "closure")
  /\ Allocate(a, value[cur[t]] + 1)
  /\ Goto(t, "cas_lock")
  /\ new' = Set(new, t, a)
  /\ UNCHANGED <<op, cur, old, from>>
  /\ UNCHANGED <<storage, lockVars, cached, calls, history>>

(* No expect: poisoned or not, the lock is held from here on. *)
CasLock(t) ==
  /\ At(t, "cas_lock")
  /\ readers = {} /\ writer = {}
  /\ writer' = {t}
  /\ Goto(t, "cas") /\ UNCHANGED frame
  /\ UNCHANGED <<storage, cnt, value, used, readers, poisoned, leaked, cached, calls, history>>

(* A mutant of Cas: the pointer is replaced whatever it is. *)
CasAlways(t) ==
  /\ At(t, "cas")
  /\ Publish(t, new[t])
  /\ Goto(t, "cas_unlock")
  /\ old' = Set(old, t, storage)
  /\ new' = Set(new, t, None)
  /\ UNCHANGED <<op, cur, from>>
  /\ UNCHANGED <<cnt, value, used, lockVars, cached, calls, cachedAt>>

Cas(t) ==
  /\ At(t, "cas")
  /\ \/ /\ storage = cur[t]
        /\ Publish(t, new[t])
        /\ Goto(t, "cas_unlock")
        /\ old' = Set(old, t, storage)
        /\ new' = Set(new, t, None)
        /\ UNCHANGED <<op, cur, from>>
     \/ /\ storage # cur[t]
        /\ Goto(t, "cas_inc")
        /\ old' = Set(old, t, storage)
        /\ UNCHANGED <<op, cur, new, from>>
        /\ seen' = [seen EXCEPT ![t] = Len(order)]
        /\ UNCHANGED <<storage, order, updates>>
  /\ UNCHANGED <<cnt, value, used, lockVars, cached, calls, cachedAt>>

(* A mutant of CasInc: the guard returned has no reference of its own. *)
CasIncNot(t) ==
  /\ At(t, "cas_inc")
  /\ Goto(t, "cas_drop_new") /\ UNCHANGED frame
  /\ UNCHANGED <<storage, cnt, value, used, lockVars, cached, calls, history>>

(* The exchange has failed: old gets a reference, new is destroyed. *)
CasInc(t) ==
  /\ At(t, "cas_inc")
  /\ Inc(old[t])
  /\ Goto(t, "cas_drop_new") /\ UNCHANGED frame
  /\ UNCHANGED <<storage, value, used, lockVars, cached, calls, history>>

(* A mutant of CasDropNew: the value that did not go in is leaked. *)
CasDropNewNot(t) ==
  /\ At(t, "cas_drop_new")
  /\ Goto(t, "cas_unlock")
  /\ new' = Set(new, t, None)
  /\ UNCHANGED <<op, cur, old, from>>
  /\ UNCHANGED <<storage, cnt, value, used, lockVars, cached, calls, history>>

(* The destructor of the value may panic. *)
CasDropNew(t) ==
  /\ At(t, "cas_drop_new")
  /\ Dec(new[t])
  /\ \E after \in {"cas_unlock", "cas_unwind"} : Goto(t, after)
  /\ new' = Set(new, t, None)
  /\ UNCHANGED <<op, cur, old, from>>
  /\ UNCHANGED <<storage, value, used, lockVars, cached, calls, history>>

(* The panic leaves compare_and_swap: old is dropped, then the lock. *)
CasUnwind(t) ==
  /\ At(t, "cas_unwind")
  /\ Dec(old[t])
  /\ Goto(t, "cas_unlock")
  /\ old' = Set(old, t, None)
  /\ UNCHANGED <<op, cur, new, from>>
  /\ UNCHANGED <<storage, value, used, lockVars, cached, calls, history>>

(* A panic poisons the lock and goes on through rcu. *)
CasUnlock(t) ==
  LET panicking == old[t] = None IN
  /\ At(t, "cas_unlock")
  /\ writer' = writer \ {t}
  /\ poisoned' = (poisoned \/ panicking)
  /\ Goto(t, IF panicking THEN "drop_cur" ELSE "compare") /\ UNCHANGED frame
  /\ UNCHANGED <<storage, cnt, value, used, readers, leaked, cached, calls, history>>

(* A mutant of RcuCompare: the next turn is made with the same cur. *)
RcuCompareStale(t) ==
  /\ At(t, "compare")
  /\ \/ cur[t] = old[t] /\ Goto(t, "drop_cur") /\ UNCHANGED <<cnt, frame>>
     \/ /\ cur[t] # old[t]
        /\ Dec(old[t])
        /\ Goto(t, "closure")
        /\ old' = Set(old, t, None)
        /\ UNCHANGED <<op, cur, new, from>>
  /\ UNCHANGED <<storage, value, used, lockVars, cached, calls, history>>

(* swapped: return the old value.  Otherwise prev takes the place of cur,
   which is dropped, for another turn. *)
RcuCompare(t) ==
  /\ At(t, "compare")
  /\ \/ cur[t] = old[t] /\ Goto(t, "drop_cur") /\ UNCHANGED <<cnt, frame>>
     \/ /\ cur[t] # old[t]
        /\ Dec(cur[t])
        /\ Goto(t, "closure")
        /\ cur' = Set(cur, t, old[t])
        /\ old' = Set(old, t, None)
        /\ UNCHANGED <<op, new, from>>
  /\ UNCHANGED <<storage, value, used, lockVars, cached, calls, history>>

-----------------------------------------------------------------------------
(* Cache::load: revalidate, then the cached value. *)
CacheLoad(t) ==
  /\ Call(t, "cache_load")
  /\ cached[t] # None
  /\ Goto(t, "check")
  /\ op' = Set(op, t, "cache_load")
  /\ UNCHANGED <<cur, new, old, from>>
  /\ UNCHANGED <<storage, cnt, value, used, lockVars, cached, history>>

Revalidate(t) ==
  /\ At(t, "check")
  /\ \E i \in seen[t]..Len(order) :
       /\ seen' = [seen EXCEPT ![t] = i]
       /\ \/ order[i] = cached[t] /\ Return(t)
          \/ order[i] # cached[t] /\ Goto(t, "read_lock") /\ UNCHANGED frame
  /\ UNCHANGED <<storage, cnt, value, used, lockVars, cached, calls, order, cachedAt, updates>>

(* A mutant of CacheFill: the cache keeps the pointer, but no reference. *)
CacheFillBorrowed(t) ==
  /\ At(t, "fill")
  /\ Dec(cur[t])
  /\ cached' = [cached EXCEPT ![t] = cur[t]]
  /\ cachedAt' = [cachedAt EXCEPT ![t] = from[t]]
  /\ Return(t)
  /\ UNCHANGED <<storage, value, used, lockVars, calls, order, seen, updates>>

(* load_full has returned: the new value takes the place of the cached one. *)
CacheFill(t) ==
  /\ At(t, "fill")
  /\ \/ cached[t] = None /\ UNCHANGED cnt
     \/ cached[t] # None /\ Dec(cached[t])
  /\ cached' = [cached EXCEPT ![t] = cur[t]]
  /\ cachedAt' = [cachedAt EXCEPT ![t] = from[t]]
  /\ Return(t)
  /\ UNCHANGED <<storage, value, used, lockVars, calls, order, seen, updates>>

DropCache(t) ==
  /\ Call(t, "drop_cache")
  /\ cached[t] # None
  /\ Dec(cached[t])
  /\ cached' = [cached EXCEPT ![t] = None]
  /\ UNCHANGED <<storage, value, used, lockVars, callVars, history>>

-----------------------------------------------------------------------------
StartCall(t) ==
  \/ \E c \in ApiCalls : Load(t, c)
  \/ \E a \in Objects : Store(t, a)
  \/ CacheLoad(t)
  \/ DropCache(t)

CallStep(t) ==
  \/ ReadLock(t) \/ Read(t) \/ LoadInc(t) \/ ReadUnlock(t) \/ DropCur(t)
  \/ Swap(t) \/ WaitForReaders(t) \/ DropOld(t)
  \/ \E a \in Objects : RcuClosure(t, a)
  \/ CasLock(t) \/ Cas(t) \/ CasInc(t) \/ CasDropNew(t) \/ CasUnwind(t)
  \/ CasUnlock(t) \/ RcuCompare(t)
  \/ Revalidate(t) \/ CacheFill(t)

(* Nobody is in a call. *)
Quiet ==
  /\ \A t \in Threads : At(t, "idle")
  /\ UNCHANGED vars

Next == (\E t \in Threads : StartCall(t) \/ CallStep(t)) \/ Quiet

Spec == Init /\ [][Next]_vars

(* Whoever is in a call goes on: with a lock nobody can do without the
   others. *)
FairSpec == Spec /\ \A t \in Threads : WF_vars(CallStep(t))

-----------------------------------------------------------------------------
(* The types of the variables. *)
TypeOK ==
  /\ storage \in Objects
  /\ cnt \in [Objects -> Nat]
  /\ value \in [Objects -> Nat]
  /\ used \in Objects
  /\ readers \subseteq Threads /\ writer \subseteq Threads
  /\ poisoned \in BOOLEAN /\ leaked \in [Objects -> Nat]
  /\ pc \in [Threads -> Pc]
  /\ op \in [Threads -> ApiCalls \cup {"none"}]
  /\ cur \in [Threads -> Objects \cup {None}]
  /\ new \in [Threads -> Objects \cup {None}]
  /\ old \in [Threads -> Objects \cup {None}]
  /\ from \in [Threads -> 1..Len(order)]
  /\ cached \in [Threads -> Objects \cup {None}]
  /\ calls \in [Threads -> Nat]
  /\ order \in Seq(Objects)
  /\ seen \in [Threads -> 1..Len(order)]
  /\ cachedAt \in [Threads -> 1..Len(order)]
  /\ updates \in Nat

(* Who has a reference to a: a guard once the load has counted it, a value to
   be stored, what was taken out of the storage or (once compare_and_swap has
   counted it) found there, and a cache. *)
InCur(a) == {t \in Threads : cur[t] = a /\ ~At(t, "inc")}
InNew(a) == {t \in Threads : new[t] = a}
InOld(a) == {t \in Threads : old[t] = a /\ ~At(t, "cas_inc")}
InCache(a) == {t \in Threads : cached[t] = a}
References(a) ==
  Cardinality(InCur(a)) + Cardinality(InNew(a)) + Cardinality(InOld(a))
  + Cardinality(InCache(a))

(* The count of an object is the number of references in existence, at every
   instant: in the storage, in the caches and in the calls under way.  It is
   the same through the two ways out of compare_and_swap, the turns of rcu and
   the replacement of a cached value.  Only a swap that meets a poisoned lock
   leaks, and what it leaks is what it has taken out. *)
Accounting ==
  \A a \in Objects :
    cnt[a] = (IF storage = a THEN 1 ELSE 0) + leaked[a] + References(a)

(* A pointer that a call has read is still there when its count is
   incremented: load is protected by the read lock from the writer that has
   already exchanged the pointer, a failed compare_and_swap by the write
   lock. *)
NoUseAfterFree ==
  \A t \in Threads :
    /\ At(t, "inc") => cnt[cur[t]] > 0
    /\ At(t, "cas_inc") => cnt[old[t]] > 0

(* Every rcu that has returned is counted in the storage ("it may be needed to
   retry the update operation if some other thread made an update in
   between"): the comparison of pointers never mistakes a new object at the
   old address for the one the closure was given. *)
NoLostUpdate == value[storage] = updates

(* Cache::load returns the newest value that the thread knows to have been
   stored: its own store, or what it has loaded by other ways; although the
   check is a relaxed read of the pointer and addresses are used again. *)
CacheReturnsSeen ==
  [][\A t \in Threads :
       (/\ op[t] = "cache_load" /\ pc[t] \in {"check", "fill"}
        /\ pc'[t] = "idle")
         => cachedAt'[t] >= seen'[t]]_vars

(* Every call ends, by a return or by a panic: the lock is always given back,
   through a panic too, and rcu is only made to try again by other calls that
   have succeeded. *)
CallsFinish == \A t \in Threads : ~At(t, "idle") ~> At(t, "idle")

-----------------------------------------------------------------------------
Abstract == INSTANCE Strategy WITH
  Pointers <- Objects,
  NoPointer <- None,
  ptr <- storage,
  reading <- [t \in Threads |-> IF At(t, "inc") THEN cur[t]
                                ELSE IF At(t, "cas_inc") THEN old[t] ELSE None],
  removed <- [t \in Threads |->
    IF At(t, "write_lock") \/ (At(t, "cas_unlock") /\ old[t] = cur[t])
    THEN old[t] ELSE None]

(* The lock makes wait_for_readers keep the promise of the trait: no writer
   gets on with the value that it has taken out while a load, or a
   compare_and_swap that fails, has read the pointer and not counted it. *)
ImplementsStrategy == Abstract!Spec
=============================================================================
