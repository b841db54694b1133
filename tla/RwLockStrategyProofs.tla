------------------------ MODULE RwLockStrategyProofs ------------------------
(***************************************************************************)
(* The safety of the RwLock strategy, of rcu and of Cache, for any finite  *)
(* set of threads, any number of addresses and any calls.                  *)
(*                                                                         *)
(* The argument goes up in layers, each an invariant that uses those below *)
(* it.  Control: where a thread is says which of its pointers are set,     *)
(* which call it is in and what it has of the lock.  Memory: the counts    *)
(* are exact, because a pointer that is about to be counted is still in    *)
(* the storage or in the hands of a writer that the lock keeps waiting.    *)
(* Updates and Caching: what has a reference is not allocated again, so    *)
(* that equal addresses are equal objects.                                 *)
(***************************************************************************)
EXTENDS RwLockStrategy, CardinalityLemmas, TLAPS

(* The types of the variables; that no count is negative is a matter of
   Memory. *)
ObjectTypes ==
  /\ storage \in Objects
  /\ cnt \in [Objects -> Int]
  /\ value \in [Objects -> Nat]
  /\ used \in Objects
  /\ leaked \in [Objects -> Nat]
  /\ cached \in [Threads -> Objects \cup {None}]

LockTypes ==
  /\ readers \subseteq Threads /\ writer \subseteq Threads
  /\ poisoned \in BOOLEAN

CallTypes ==
  /\ pc \in [Threads -> Pc]
  /\ op \in [Threads -> ApiCalls \cup {"none"}]
  /\ cur \in [Threads -> Objects \cup {None}]
  /\ new \in [Threads -> Objects \cup {None}]
  /\ old \in [Threads -> Objects \cup {None}]
  /\ calls \in [Threads -> Nat]

HistoryTypes ==
  /\ order \in Seq(Objects)
  /\ from \in [Threads -> 1..Len(order)]
  /\ seen \in [Threads -> 1..Len(order)]
  /\ cachedAt \in [Threads -> 1..Len(order)]
  /\ updates \in Nat

Types == ObjectTypes /\ LockTypes /\ CallTypes /\ HistoryTypes

Reading == {"read", "inc", "read_unlock"}
Writing == {"cas", "cas_inc", "cas_drop_new", "cas_unwind", "cas_unlock"}

(* Which pointers a call has at each of its steps. *)
WithCur == {"inc", "read_unlock", "closure", "cas_lock", "cas", "cas_inc",
            "cas_drop_new", "cas_unwind", "cas_unlock", "compare", "drop_cur",
            "fill"}
WithNew == {"swap", "cas_lock", "cas", "cas_inc", "cas_drop_new"}
WithOld == {"cas_inc", "cas_drop_new", "cas_unwind", "compare", "write_lock",
            "drop_old"}
MayHaveOld == WithOld \cup {"cas_unlock", "drop_cur"}

Shape ==
  \A t \in Threads :
    /\ cur[t] # None <=> pc[t] \in WithCur
    /\ new[t] # None <=> pc[t] \in WithNew
    /\ pc[t] \in WithOld => old[t] # None
    /\ old[t] # None => pc[t] \in MayHaveOld

(* Which call is at which step. *)
Stages ==
  \A t \in Threads :
    /\ pc[t] \in Writing \cup {"closure", "cas_lock", "compare"} =>
         op[t] = "rcu"
    /\ pc[t] \in Reading \cup {"read_lock"} =>
         op[t] \in {"load", "rcu", "cache_load"}
    /\ pc[t] \in {"swap", "write_lock"} => op[t] = "store"
    /\ pc[t] \in {"check", "fill"} => op[t] = "cache_load"
    /\ pc[t] \in {"drop_cur", "drop_old"} => op[t] # "cache_load"
    /\ pc[t] = "check" => cached[t] # None
    /\ pc[t] \in {"cas_inc", "cas_drop_new"} => old[t] # cur[t]

(* The RwLock: one writer and no reader beside it. *)
LockInv ==
  /\ readers = {t \in Threads : pc[t] \in Reading}
  /\ writer = {t \in Threads : pc[t] \in Writing}
  /\ \A t, u \in writer : t = u
  /\ readers = {} \/ writer = {}

Control == Types /\ Shape /\ Stages /\ LockInv

-----------------------------------------------------------------------------
USE MaxObjectsAssumption
USE DEF First, None, ApiCalls, Pc, lockVars, history, frame, callVars,
        At, Goto, Set, Return, Inc, Dec, Reading, Writing, WithCur, WithNew,
        WithOld, MayHaveOld

(* Nobody is in a call at the beginning, and nobody has the lock. *)
LEMMA InitControl == Init => Control
<1> SUFFICES ASSUME Init PROVE Control
  OBVIOUS
<1>1. order \in Seq(Objects) /\ Len(order) = 1
  BY DEF Init, Objects
<1>2. ObjectTypes
  BY DEF Init, ObjectTypes, Objects
<1>3. LockTypes /\ CallTypes
  BY DEF Init, LockTypes, CallTypes
<1>4. HistoryTypes
  BY <1>1 DEF Init, HistoryTypes
<1>5. Shape /\ Stages /\ LockInv
  BY <1>1 DEF Init, Shape, Stages, LockInv
<1> QED BY <1>2, <1>3, <1>4, <1>5 DEF Control, Types

(* What the code uses is there: the pointers of a call at its steps. *)
LEMMA Pointers ==
  ASSUME Control, NEW t \in Threads
  PROVE  /\ storage \in Objects
         /\ pc[t] \in WithCur => cur[t] \in Objects
         /\ pc[t] \in WithNew => new[t] \in Objects
         /\ pc[t] \in WithOld => old[t] \in Objects
         /\ cached[t] # None => cached[t] \in Objects
         /\ order \in Seq(Objects) /\ Len(order) \in Nat \ {0}
<1>1. storage \in Objects /\ (cached[t] # None => cached[t] \in Objects)
  BY DEF Control, Types, ObjectTypes
<1>2. order \in Seq(Objects) /\ Len(order) \in Nat \ {0}
  BY DEF Control, Types, HistoryTypes
<1>3. pc[t] \in WithCur => cur[t] \in Objects
  BY DEF Control, Types, CallTypes, Shape, Objects
<1>4. pc[t] \in WithNew => new[t] \in Objects
  BY DEF Control, Types, CallTypes, Shape, Objects
<1>5. pc[t] \in WithOld => old[t] \in Objects
  BY DEF Control, Types, CallTypes, Shape, Objects
<1> QED BY <1>1, <1>2, <1>3, <1>4, <1>5

(* A call to load, rcu or the first Cache::load begins with nothing:
   Control is kept. *)
LEMMA LoadControl ==
  ASSUME Control, NEW t \in Threads, NEW c \in ApiCalls, Load(t, c)
  PROVE  Control'
<1> USE DEF Load, Call
<1>1. ObjectTypes'
  BY DEF Control, Types, ObjectTypes
<1>2. CallTypes'
  BY DEF Control, Types, CallTypes
<1>3. LockTypes'
  BY DEF Control, Types, LockTypes
<1>4. HistoryTypes'
  BY DEF Control, Types, HistoryTypes
<1>5. Shape'
  BY DEF Control, Types, CallTypes, Shape, Objects
<1>6. Stages'
  BY DEF Control, Types, CallTypes, Stages
<1>7. LockInv'
  BY DEF Control, Types, CallTypes, LockInv
<1> QED BY <1>1, <1>2, <1>3, <1>4, <1>5, <1>6, <1>7 DEF Control, Types

(* The read lock is taken beside other readers only; a poisoned lock ends
   the call before anything was read: Control is kept. *)
LEMMA ReadLockControl ==
  ASSUME Control, NEW t \in Threads, ReadLock(t)
  PROVE  Control'
<1> USE DEF ReadLock
<1>a. order \in Seq(Objects) /\ Len(order) \in Nat \ {0}
  BY Pointers
<1>1. ObjectTypes'
  <2>1. CASE poisoned
    BY <2>1 DEF Control, Types, ObjectTypes
  <2>2. CASE ~poisoned
    BY <2>2 DEF Control, Types, ObjectTypes
  <2> QED BY <2>1, <2>2
<1>2. CallTypes'
  <2>1. CASE poisoned
    BY <2>1 DEF Control, Types, CallTypes
  <2>2. CASE ~poisoned
    BY <2>2 DEF Control, Types, CallTypes
  <2> QED BY <2>1, <2>2
<1>3. LockTypes'
  BY DEF Control, Types, LockTypes
<1>4. HistoryTypes'
  <2>0. from' = [from EXCEPT ![t] = 1] \/ from' = from
    OBVIOUS
  <2>1. from' \in [Threads -> 1..Len(order)]
    <3> HIDE DEF ReadLock
    <3>1. from \in [Threads -> 1..Len(order)]
      BY DEF Control, Types, HistoryTypes
    <3> QED BY <1>a, <2>0, <3>1
  <2> QED BY <2>1 DEF Control, Types, HistoryTypes
<1>5. Shape'
  <2>1. CASE poisoned
    BY <2>1 DEF Control, Types, CallTypes, Shape, Objects
  <2>2. CASE ~poisoned
    BY <2>2 DEF Control, Types, CallTypes, Shape, Objects
  <2> QED BY <2>1, <2>2
<1>6. Stages'
  <2>1. CASE poisoned
    BY <2>1 DEF Control, Types, CallTypes, Stages
  <2>2. CASE ~poisoned
    BY <2>2 DEF Control, Types, CallTypes, Stages
  <2> QED BY <2>1, <2>2
<1>7. LockInv'
  <2>1. CASE poisoned
    BY <2>1 DEF Control, Types, CallTypes, LockInv
  <2>2. CASE ~poisoned
    BY <2>2 DEF Control, Types, CallTypes, LockInv
  <2> QED BY <2>1, <2>2
<1> QED BY <1>1, <1>2, <1>3, <1>4, <1>5, <1>6, <1>7 DEF Control, Types

(* The pointer is read under the read lock: Control is kept. *)
LEMMA ReadControl ==
  ASSUME Control, NEW t \in Threads, Read(t)
  PROVE  Control'
<1> USE DEF Read
<1>0. storage \in Objects
  BY Pointers
<1>a. order \in Seq(Objects) /\ Len(order) \in Nat \ {0}
  BY Pointers
<1>1. ObjectTypes'
  BY <1>0 DEF Control, Types, ObjectTypes
<1>2. CallTypes'
  BY <1>0 DEF Control, Types, CallTypes
<1>3. LockTypes'
  BY DEF Control, Types, LockTypes
<1>4. HistoryTypes'
  BY <1>a DEF Control, Types, HistoryTypes
<1>5. Shape'
  BY <1>0 DEF Control, Types, CallTypes, Shape, Objects
<1>6. Stages'
  BY DEF Control, Types, CallTypes, Stages
<1>7. LockInv'
  BY DEF Control, Types, CallTypes, LockInv
<1> QED BY <1>1, <1>2, <1>3, <1>4, <1>5, <1>6, <1>7 DEF Control, Types

(* load increments the count of what it has read: Control is kept. *)
LEMMA LoadIncControl ==
  ASSUME Control, NEW t \in Threads, LoadInc(t)
  PROVE  Control'
<1> USE DEF LoadInc
<1>0. cur[t] \in Objects
  BY Pointers
<1>1. ObjectTypes'
  BY <1>0 DEF Control, Types, ObjectTypes
<1>2. CallTypes'
  BY <1>0 DEF Control, Types, CallTypes
<1>3. LockTypes'
  BY DEF Control, Types, LockTypes
<1>4. HistoryTypes'
  BY DEF Control, Types, HistoryTypes
<1>5. Shape'
  BY <1>0 DEF Control, Types, CallTypes, Shape, Objects
<1>6. Stages'
  BY DEF Control, Types, CallTypes, Stages
<1>7. LockInv'
  BY DEF Control, Types, CallTypes, LockInv
<1> QED BY <1>1, <1>2, <1>3, <1>4, <1>5, <1>6, <1>7 DEF Control, Types

(* The guard of the read lock is dropped, and load returns to whoever
   called it: Control is kept. *)
LEMMA ReadUnlockControl ==
  ASSUME Control, NEW t \in Threads, ReadUnlock(t)
  PROVE  Control'
<1> USE DEF ReadUnlock
<1>1. ObjectTypes'
  BY DEF Control, Types, ObjectTypes
<1>2. CallTypes'
  BY DEF Control, Types, CallTypes
<1>3. LockTypes'
  BY DEF Control, Types, LockTypes
<1>4. HistoryTypes'
  BY DEF Control, Types, HistoryTypes
<1>5. Shape'
  BY DEF Control, Types, CallTypes, Shape, Objects
<1>6. Stages'
  BY DEF Control, Types, CallTypes, Stages
<1>7. LockInv'
  BY DEF Control, Types, CallTypes, LockInv
<1> QED BY <1>1, <1>2, <1>3, <1>4, <1>5, <1>6, <1>7 DEF Control, Types

(* A guard is dropped, by the caller of load or as rcu returns: Control is
   kept. *)
LEMMA DropCurControl ==
  ASSUME Control, NEW t \in Threads, DropCur(t)
  PROVE  Control'
<1> USE DEF DropCur
<1>0. cur[t] \in Objects
  BY Pointers
<1>a. order \in Seq(Objects) /\ Len(order) \in Nat \ {0}
  BY Pointers
<1>1. ObjectTypes'
  <2>1. CASE old[t] = None
    BY <1>0, <2>1 DEF Control, Types, ObjectTypes
  <2>2. CASE old[t] # None
    BY <1>0, <2>2 DEF Control, Types, ObjectTypes
  <2> QED BY <2>1, <2>2
<1>2. CallTypes'
  <2>1. CASE old[t] = None
    BY <1>0, <2>1 DEF Control, Types, CallTypes
  <2>2. CASE old[t] # None
    BY <1>0, <2>2 DEF Control, Types, CallTypes
  <2> QED BY <2>1, <2>2
<1>3. LockTypes'
  BY DEF Control, Types, LockTypes
<1>4. HistoryTypes'
  <2>0. from' = [from EXCEPT ![t] = 1] \/ from' = from
    OBVIOUS
  <2>1. from' \in [Threads -> 1..Len(order)]
    BY <1>a, <2>0 DEF Control, Types, HistoryTypes
  <2> QED BY <2>1 DEF Control, Types, HistoryTypes
<1>5. Shape'
  <2>1. CASE old[t] = None
    BY <1>0, <2>1 DEF Control, Types, CallTypes, Shape, Objects
  <2>2. CASE old[t] # None
    BY <1>0, <2>2 DEF Control, Types, CallTypes, Shape, Objects
  <2> QED BY <2>1, <2>2
<1>6. Stages'
  <2>1. CASE old[t] = None
    BY <2>1 DEF Control, Types, CallTypes, Stages
  <2>2. CASE old[t] # None
    BY <2>2 DEF Control, Types, CallTypes, Stages
  <2> QED BY <2>1, <2>2
<1>7. LockInv'
  <2>1. CASE old[t] = None
    BY <2>1 DEF Control, Types, CallTypes, LockInv
  <2>2. CASE old[t] # None
    BY <2>2 DEF Control, Types, CallTypes, LockInv
  <2> QED BY <2>1, <2>2
<1> QED BY <1>1, <1>2, <1>3, <1>4, <1>5, <1>6, <1>7 DEF Control, Types

(* store is called with a new object: Control is kept. *)
LEMMA StoreControl ==
  ASSUME Control, NEW t \in Threads, NEW a \in Objects, Store(t, a)
  PROVE  Control'
<1> USE DEF Store, Call, Allocate
<1>1. ObjectTypes'
  BY DEF Control, Types, ObjectTypes
<1>2. CallTypes'
  BY DEF Control, Types, CallTypes
<1>3. LockTypes'
  BY DEF Control, Types, LockTypes
<1>4. HistoryTypes'
  BY DEF Control, Types, HistoryTypes
<1>5. Shape'
  BY DEF Control, Types, CallTypes, Shape, Objects
<1>6. Stages'
  BY DEF Control, Types, CallTypes, Stages
<1>7. LockInv'
  BY DEF Control, Types, CallTypes, LockInv
<1> QED BY <1>1, <1>2, <1>3, <1>4, <1>5, <1>6, <1>7 DEF Control, Types

(* swap exchanges the pointer and has the old one: Control is kept. *)
LEMMA SwapControl ==
  ASSUME Control, NEW t \in Threads, Swap(t)
  PROVE  Control'
<1> USE DEF Swap, Publish
<1>0. new[t] \in Objects /\ storage \in Objects
  BY Pointers
<1>a. order \in Seq(Objects) /\ Len(order) \in Nat \ {0}
  BY Pointers
<1>1. ObjectTypes'
  BY <1>0 DEF Control, Types, ObjectTypes
<1>2. CallTypes'
  BY <1>0 DEF Control, Types, CallTypes
<1>3. LockTypes'
  BY DEF Control, Types, LockTypes
<1>4. HistoryTypes'
  BY <1>0, <1>a DEF Control, Types, HistoryTypes
<1>5. Shape'
  BY <1>0 DEF Control, Types, CallTypes, Shape, Objects
<1>6. Stages'
  BY DEF Control, Types, CallTypes, Stages
<1>7. LockInv'
  BY DEF Control, Types, CallTypes, LockInv
<1> QED BY <1>1, <1>2, <1>3, <1>4, <1>5, <1>6, <1>7 DEF Control, Types

(* wait_for_readers returns, or panics and ends the call: Control is kept. *)
LEMMA WaitForReadersControl ==
  ASSUME Control, NEW t \in Threads, WaitForReaders(t)
  PROVE  Control'
<1> USE DEF WaitForReaders
<1>0. old[t] \in Objects
  BY Pointers
<1>a. order \in Seq(Objects) /\ Len(order) \in Nat \ {0}
  BY Pointers
<1>1. ObjectTypes'
  <2>1. CASE poisoned
    BY <1>0, <2>1 DEF Control, Types, ObjectTypes
  <2>2. CASE ~poisoned
    BY <1>0, <2>2 DEF Control, Types, ObjectTypes
  <2> QED BY <2>1, <2>2
<1>2. CallTypes'
  <2>1. CASE poisoned
    BY <1>0, <2>1 DEF Control, Types, CallTypes
  <2>2. CASE ~poisoned
    BY <1>0, <2>2 DEF Control, Types, CallTypes
  <2> QED BY <2>1, <2>2
<1>3. LockTypes'
  BY DEF Control, Types, LockTypes
<1>4. HistoryTypes'
  <2>1. CASE poisoned
    BY <1>a, <2>1 DEF Control, Types, HistoryTypes
  <2>2. CASE ~poisoned
    BY <1>a, <2>2 DEF Control, Types, HistoryTypes
  <2> QED BY <2>1, <2>2
<1>5. Shape'
  <2>1. CASE poisoned
    BY <1>0, <2>1 DEF Control, Types, CallTypes, Shape, Objects
  <2>2. CASE ~poisoned
    BY <1>0, <2>2 DEF Control, Types, CallTypes, Shape, Objects
  <2> QED BY <2>1, <2>2
<1>6. Stages'
  <2>1. CASE poisoned
    BY <2>1 DEF Control, Types, CallTypes, Stages
  <2>2. CASE ~poisoned
    BY <2>2 DEF Control, Types, CallTypes, Stages
  <2> QED BY <2>1, <2>2
<1>7. LockInv'
  <2>1. CASE poisoned
    BY <2>1 DEF Control, Types, CallTypes, LockInv
  <2>2. CASE ~poisoned
    BY <2>2 DEF Control, Types, CallTypes, LockInv
  <2> QED BY <2>1, <2>2
<1> QED BY <1>1, <1>2, <1>3, <1>4, <1>5, <1>6, <1>7 DEF Control, Types

(* The value that was replaced is dropped: Control is kept. *)
LEMMA DropOldControl ==
  ASSUME Control, NEW t \in Threads, DropOld(t)
  PROVE  Control'
<1> USE DEF DropOld
<1>0. old[t] \in Objects
  BY Pointers
<1>a. order \in Seq(Objects) /\ Len(order) \in Nat \ {0}
  BY Pointers
<1>1. ObjectTypes'
  BY <1>0 DEF Control, Types, ObjectTypes
<1>2. CallTypes'
  BY <1>0 DEF Control, Types, CallTypes
<1>3. LockTypes'
  BY DEF Control, Types, LockTypes
<1>4. HistoryTypes'
  BY <1>a DEF Control, Types, HistoryTypes
<1>5. Shape'
  BY <1>0 DEF Control, Types, CallTypes, Shape, Objects
<1>6. Stages'
  BY DEF Control, Types, CallTypes, Stages
<1>7. LockInv'
  BY DEF Control, Types, CallTypes, LockInv
<1> QED BY <1>1, <1>2, <1>3, <1>4, <1>5, <1>6, <1>7 DEF Control, Types

(* The closure of rcu returns a new object: Control is kept. *)
LEMMA RcuClosureControl ==
  ASSUME Control, NEW t \in Threads, NEW a \in Objects, RcuClosure(t, a)
  PROVE  Control'
<1> USE DEF RcuClosure, Allocate
<1>0. cur[t] \in Objects
  BY Pointers
<1>1. ObjectTypes'
  BY <1>0 DEF Control, Types, ObjectTypes
<1>2. CallTypes'
  BY <1>0 DEF Control, Types, CallTypes
<1>3. LockTypes'
  BY DEF Control, Types, LockTypes
<1>4. HistoryTypes'
  BY DEF Control, Types, HistoryTypes
<1>5. Shape'
  BY <1>0 DEF Control, Types, CallTypes, Shape, Objects
<1>6. Stages'
  BY DEF Control, Types, CallTypes, Stages
<1>7. LockInv'
  BY DEF Control, Types, CallTypes, LockInv
<1> QED BY <1>1, <1>2, <1>3, <1>4, <1>5, <1>6, <1>7 DEF Control, Types

(* compare_and_swap takes the write lock, which nobody else has then:
   Control is kept. *)
LEMMA CasLockControl ==
  ASSUME Control, NEW t \in Threads, CasLock(t)
  PROVE  Control'
<1> USE DEF CasLock
<1>1. ObjectTypes'
  BY DEF Control, Types, ObjectTypes
<1>2. CallTypes'
  BY DEF Control, Types, CallTypes
<1>3. LockTypes'
  BY DEF Control, Types, LockTypes
<1>4. HistoryTypes'
  BY DEF Control, Types, HistoryTypes
<1>5. Shape'
  BY DEF Control, Types, CallTypes, Shape, Objects
<1>6. Stages'
  BY DEF Control, Types, CallTypes, Stages
<1>7. LockInv'
  BY DEF Control, Types, CallTypes, LockInv
<1> QED BY <1>1, <1>2, <1>3, <1>4, <1>5, <1>6, <1>7 DEF Control, Types

(* compare_and_swap has the pointer that it has found, and the new one only
   if that was not the expected one: Control is kept. *)
LEMMA CasControl ==
  ASSUME Control, NEW t \in Threads, Cas(t)
  PROVE  Control'
<1> USE DEF Cas, Publish
<1>0. new[t] \in Objects /\ storage \in Objects
  BY Pointers
<1>a. order \in Seq(Objects) /\ Len(order) \in Nat \ {0}
  BY Pointers
<1>1. ObjectTypes'
  <2>1. CASE storage = cur[t]
    BY <1>0, <2>1 DEF Control, Types, ObjectTypes
  <2>2. CASE storage # cur[t]
    BY <1>0, <2>2 DEF Control, Types, ObjectTypes
  <2> QED BY <2>1, <2>2
<1>2. CallTypes'
  <2>1. pc' \in [Threads -> Pc]
    BY DEF Control, Types, CallTypes
  <2>2. old' \in [Threads -> Objects \cup {None}]
    BY <1>0 DEF Control, Types, CallTypes
  <2>3. new' \in [Threads -> Objects \cup {None}]
    BY DEF Control, Types, CallTypes
  <2> QED BY <2>1, <2>2, <2>3 DEF Control, Types, CallTypes
<1>3. LockTypes'
  BY DEF Control, Types, LockTypes
<1>4. HistoryTypes'
  <2>1. CASE storage = cur[t]
    <3>1. /\ order' = Append(order, new[t]) /\ UNCHANGED <<from, cachedAt>>
          /\ seen' = [seen EXCEPT ![t] = Len(order) + 1]
          /\ updates' = IF op[t] = "rcu" THEN updates + 1 ELSE 0
      BY <2>1
    <3> HIDE DEF Cas
    <3>2. HistoryTypes'
      BY <1>0, <1>a, <3>1 DEF Control, Types, HistoryTypes
    <3> QED BY <3>2
  <2>2. CASE storage # cur[t]
    <3>1. /\ UNCHANGED <<from, cachedAt, order, updates>>
          /\ seen' = [seen EXCEPT ![t] = Len(order)]
      BY <2>2
    <3> HIDE DEF Cas
    <3>2. HistoryTypes'
      BY <1>0, <1>a, <3>1 DEF Control, Types, HistoryTypes
    <3> QED BY <3>2
  <2> QED BY <2>1, <2>2
<1>5. Shape'
  <2>1. /\ pc[t] = "cas" /\ UNCHANGED cur
        /\ old' = [old EXCEPT ![t] = storage]
        /\ \/ pc' = [pc EXCEPT ![t] = "cas_unlock"] /\ new' = [new EXCEPT ![t] = None]
           \/ pc' = [pc EXCEPT ![t] = "cas_inc"] /\ UNCHANGED new
    OBVIOUS
  <2> HIDE DEF Cas
  <2>2. storage # None
    BY <1>0 DEF Objects
  <2>3. Shape'
    BY <2>1, <2>2 DEF Control, Types, CallTypes, Shape
  <2> QED BY <2>3
<1>6. Stages'
  <2>1. CASE storage = cur[t]
    BY <2>1 DEF Control, Types, CallTypes, Stages
  <2>2. CASE storage # cur[t]
    BY <2>2 DEF Control, Types, CallTypes, Stages
  <2> QED BY <2>1, <2>2
<1>7. LockInv'
  <2>1. CASE storage = cur[t]
    BY <2>1 DEF Control, Types, CallTypes, LockInv
  <2>2. CASE storage # cur[t]
    BY <2>2 DEF Control, Types, CallTypes, LockInv
  <2> QED BY <2>1, <2>2
<1> QED BY <1>1, <1>2, <1>3, <1>4, <1>5, <1>6, <1>7 DEF Control, Types

(* A failed compare_and_swap counts what it has found: Control is kept. *)
LEMMA CasIncControl ==
  ASSUME Control, NEW t \in Threads, CasInc(t)
  PROVE  Control'
<1> USE DEF CasInc
<1>0. old[t] \in Objects
  BY Pointers
<1>1. ObjectTypes'
  BY <1>0 DEF Control, Types, ObjectTypes
<1>2. CallTypes'
  BY <1>0 DEF Control, Types, CallTypes
<1>3. LockTypes'
  BY DEF Control, Types, LockTypes
<1>4. HistoryTypes'
  BY DEF Control, Types, HistoryTypes
<1>5. Shape'
  BY <1>0 DEF Control, Types, CallTypes, Shape, Objects
<1>6. Stages'
  BY DEF Control, Types, CallTypes, Stages
<1>7. LockInv'
  BY DEF Control, Types, CallTypes, LockInv
<1> QED BY <1>1, <1>2, <1>3, <1>4, <1>5, <1>6, <1>7 DEF Control, Types

(* A failed compare_and_swap drops the new value, which may panic: Control
   is kept. *)
LEMMA CasDropNewControl ==
  ASSUME Control, NEW t \in Threads, CasDropNew(t)
  PROVE  Control'
<1> USE DEF CasDropNew
<1>0. new[t] \in Objects
  BY Pointers
<1>1. ObjectTypes'
  BY <1>0 DEF Control, Types, ObjectTypes
<1>2. CallTypes'
  BY <1>0 DEF Control, Types, CallTypes
<1>3. LockTypes'
  BY DEF Control, Types, LockTypes
<1>4. HistoryTypes'
  BY DEF Control, Types, HistoryTypes
<1>5. Shape'
  BY <1>0 DEF Control, Types, CallTypes, Shape, Objects
<1>6. Stages'
  BY DEF Control, Types, CallTypes, Stages
<1>7. LockInv'
  BY DEF Control, Types, CallTypes, LockInv
<1> QED BY <1>1, <1>2, <1>3, <1>4, <1>5, <1>6, <1>7 DEF Control, Types

(* The panic drops what compare_and_swap has found: Control is kept. *)
LEMMA CasUnwindControl ==
  ASSUME Control, NEW t \in Threads, CasUnwind(t)
  PROVE  Control'
<1> USE DEF CasUnwind
<1>0. old[t] \in Objects
  BY Pointers
<1>1. ObjectTypes'
  BY <1>0 DEF Control, Types, ObjectTypes
<1>2. CallTypes'
  BY <1>0 DEF Control, Types, CallTypes
<1>3. LockTypes'
  BY DEF Control, Types, LockTypes
<1>4. HistoryTypes'
  BY DEF Control, Types, HistoryTypes
<1>5. Shape'
  BY <1>0 DEF Control, Types, CallTypes, Shape, Objects
<1>6. Stages'
  BY DEF Control, Types, CallTypes, Stages
<1>7. LockInv'
  BY DEF Control, Types, CallTypes, LockInv
<1> QED BY <1>1, <1>2, <1>3, <1>4, <1>5, <1>6, <1>7 DEF Control, Types

(* The write lock is given back, by a panic too: Control is kept. *)
LEMMA CasUnlockControl ==
  ASSUME Control, NEW t \in Threads, CasUnlock(t)
  PROVE  Control'
<1> USE DEF CasUnlock
<1>1. ObjectTypes'
  BY DEF Control, Types, ObjectTypes
<1>2. CallTypes'
  BY DEF Control, Types, CallTypes
<1>3. LockTypes'
  BY DEF Control, Types, LockTypes
<1>4. HistoryTypes'
  BY DEF Control, Types, HistoryTypes
<1>5. Shape'
  BY DEF Control, Types, CallTypes, Shape, Objects
<1>6. Stages'
  BY DEF Control, Types, CallTypes, Stages
<1>7. LockInv'
  BY DEF Control, Types, CallTypes, LockInv
<1> QED BY <1>1, <1>2, <1>3, <1>4, <1>5, <1>6, <1>7 DEF Control, Types

(* rcu is done, or tries again with the value that it was given: Control is
   kept. *)
LEMMA RcuCompareControl ==
  ASSUME Control, NEW t \in Threads, RcuCompare(t)
  PROVE  Control'
<1> USE DEF RcuCompare
<1>0. cur[t] \in Objects /\ old[t] \in Objects
  BY Pointers
<1>1. ObjectTypes'
  <2>1. CASE cur[t] = old[t]
    BY <1>0, <2>1 DEF Control, Types, ObjectTypes
  <2>2. CASE cur[t] # old[t]
    BY <1>0, <2>2 DEF Control, Types, ObjectTypes
  <2> QED BY <2>1, <2>2
<1>2. CallTypes'
  <2>1. CASE cur[t] = old[t]
    BY <1>0, <2>1 DEF Control, Types, CallTypes
  <2>2. CASE cur[t] # old[t]
    BY <1>0, <2>2 DEF Control, Types, CallTypes
  <2> QED BY <2>1, <2>2
<1>3. LockTypes'
  BY DEF Control, Types, LockTypes
<1>4. HistoryTypes'
  <2>1. CASE cur[t] = old[t]
    BY <2>1 DEF Control, Types, HistoryTypes
  <2>2. CASE cur[t] # old[t]
    BY <2>2 DEF Control, Types, HistoryTypes
  <2> QED BY <2>1, <2>2
<1>5. Shape'
  <2>1. CASE cur[t] = old[t]
    BY <1>0, <2>1 DEF Control, Types, CallTypes, Shape, Objects
  <2>2. CASE cur[t] # old[t]
    BY <1>0, <2>2 DEF Control, Types, CallTypes, Shape, Objects
  <2> QED BY <2>1, <2>2
<1>6. Stages'
  <2>1. CASE cur[t] = old[t]
    BY <2>1 DEF Control, Types, CallTypes, Stages
  <2>2. CASE cur[t] # old[t]
    BY <2>2 DEF Control, Types, CallTypes, Stages
  <2> QED BY <2>1, <2>2
<1>7. LockInv'
  <2>1. CASE cur[t] = old[t]
    BY <2>1 DEF Control, Types, CallTypes, LockInv
  <2>2. CASE cur[t] # old[t]
    BY <2>2 DEF Control, Types, CallTypes, LockInv
  <2> QED BY <2>1, <2>2
<1> QED BY <1>1, <1>2, <1>3, <1>4, <1>5, <1>6, <1>7 DEF Control, Types

(* Cache::load begins, with something cached: Control is kept. *)
LEMMA CacheLoadControl ==
  ASSUME Control, NEW t \in Threads, CacheLoad(t)
  PROVE  Control'
<1> USE DEF CacheLoad, Call
<1>1. ObjectTypes'
  BY DEF Control, Types, ObjectTypes
<1>2. CallTypes'
  BY DEF Control, Types, CallTypes
<1>3. LockTypes'
  BY DEF Control, Types, LockTypes
<1>4. HistoryTypes'
  BY DEF Control, Types, HistoryTypes
<1>5. Shape'
  BY DEF Control, Types, CallTypes, Shape, Objects
<1>6. Stages'
  BY DEF Control, Types, CallTypes, Stages
<1>7. LockInv'
  BY DEF Control, Types, CallTypes, LockInv
<1> QED BY <1>1, <1>2, <1>3, <1>4, <1>5, <1>6, <1>7 DEF Control, Types

(* The cached pointer is compared with the storage: Control is kept. *)
LEMMA RevalidateControl ==
  ASSUME Control, NEW t \in Threads, Revalidate(t)
  PROVE  Control'
<1> USE DEF Revalidate
<1>a. order \in Seq(Objects) /\ Len(order) \in Nat \ {0}
  BY Pointers
<1>1. ObjectTypes'
  BY DEF Control, Types, ObjectTypes
<1>2. CallTypes'
  BY DEF Control, Types, CallTypes
<1>3. LockTypes'
  BY DEF Control, Types, LockTypes
<1>4. HistoryTypes'
  <2>0. from' = [from EXCEPT ![t] = 1] \/ from' = from
    OBVIOUS
  <2>1. from' \in [Threads -> 1..Len(order)]
    <3> HIDE DEF Revalidate
    <3>1. from \in [Threads -> 1..Len(order)]
      BY DEF Control, Types, HistoryTypes
    <3> QED BY <1>a, <2>0, <3>1
  <2>2. seen' \in [Threads -> 1..Len(order)]
    BY <1>a DEF Control, Types, HistoryTypes
  <2> QED BY <2>1, <2>2 DEF Control, Types, HistoryTypes
<1>5. Shape'
  BY DEF Control, Types, CallTypes, Shape, Objects
<1>6. Stages'
  <2>1. /\ pc[t] = "check" /\ UNCHANGED cached
        /\ \/ Return(t)
           \/ pc' = [pc EXCEPT ![t] = "read_lock"] /\ UNCHANGED frame
    OBVIOUS
  <2> HIDE DEF Revalidate
  <2>2. Stages'
    BY <2>1 DEF Control, Types, CallTypes, Stages
  <2> QED BY <2>2
<1>7. LockInv'
  BY DEF Control, Types, CallTypes, LockInv
<1> QED BY <1>1, <1>2, <1>3, <1>4, <1>5, <1>6, <1>7 DEF Control, Types

(* A new value is cached and the former one dropped: Control is kept. *)
LEMMA CacheFillControl ==
  ASSUME Control, NEW t \in Threads, CacheFill(t)
  PROVE  Control'
<1> USE DEF CacheFill
<1>0. cur[t] \in Objects
  BY Pointers
<1>a. order \in Seq(Objects) /\ Len(order) \in Nat \ {0}
  BY Pointers
<1>1. ObjectTypes'
  <2>1. CASE cached[t] = None
    BY <1>0, <2>1 DEF Control, Types, ObjectTypes
  <2>2. CASE cached[t] # None
    BY <1>0, <2>2 DEF Control, Types, ObjectTypes
  <2> QED BY <2>1, <2>2
<1>2. CallTypes'
  <2>1. CASE cached[t] = None
    BY <1>0, <2>1 DEF Control, Types, CallTypes
  <2>2. CASE cached[t] # None
    BY <1>0, <2>2 DEF Control, Types, CallTypes
  <2> QED BY <2>1, <2>2
<1>3. LockTypes'
  BY DEF Control, Types, LockTypes
<1>4. HistoryTypes'
  <2>1. CASE cached[t] = None
    BY <1>a, <2>1 DEF Control, Types, HistoryTypes
  <2>2. CASE cached[t] # None
    BY <1>a, <2>2 DEF Control, Types, HistoryTypes
  <2> QED BY <2>1, <2>2
<1>5. Shape'
  <2>1. CASE cached[t] = None
    BY <1>0, <2>1 DEF Control, Types, CallTypes, Shape, Objects
  <2>2. CASE cached[t] # None
    BY <1>0, <2>2 DEF Control, Types, CallTypes, Shape, Objects
  <2> QED BY <2>1, <2>2
<1>6. Stages'
  <2>1. CASE cached[t] = None
    BY <2>1 DEF Control, Types, CallTypes, Stages
  <2>2. CASE cached[t] # None
    BY <2>2 DEF Control, Types, CallTypes, Stages
  <2> QED BY <2>1, <2>2
<1>7. LockInv'
  <2>1. CASE cached[t] = None
    BY <2>1 DEF Control, Types, CallTypes, LockInv
  <2>2. CASE cached[t] # None
    BY <2>2 DEF Control, Types, CallTypes, LockInv
  <2> QED BY <2>1, <2>2
<1> QED BY <1>1, <1>2, <1>3, <1>4, <1>5, <1>6, <1>7 DEF Control, Types

(* A cache is dropped: Control is kept. *)
LEMMA DropCacheControl ==
  ASSUME Control, NEW t \in Threads, DropCache(t)
  PROVE  Control'
<1> USE DEF DropCache, Call
<1>0. cached[t] \in Objects
  BY Pointers
<1>1. ObjectTypes'
  BY <1>0 DEF Control, Types, ObjectTypes
<1>2. CallTypes'
  BY <1>0 DEF Control, Types, CallTypes
<1>3. LockTypes'
  BY DEF Control, Types, LockTypes
<1>4. HistoryTypes'
  BY DEF Control, Types, HistoryTypes
<1>5. Shape'
  BY <1>0 DEF Control, Types, CallTypes, Shape, Objects
<1>6. Stages'
  BY DEF Control, Types, CallTypes, Stages
<1>7. LockInv'
  BY DEF Control, Types, CallTypes, LockInv
<1> QED BY <1>1, <1>2, <1>3, <1>4, <1>5, <1>6, <1>7 DEF Control, Types

(* Control is kept by every step. *)
LEMMA ControlStep ==
  ASSUME Control, NEW t \in Threads, StartCall(t) \/ CallStep(t)
  PROVE  Control'
BY LoadControl, ReadLockControl, ReadControl, LoadIncControl,
   ReadUnlockControl, DropCurControl, StoreControl, SwapControl,
   WaitForReadersControl, DropOldControl, RcuClosureControl, CasLockControl,
   CasControl, CasIncControl, CasDropNewControl, CasUnwindControl,
   CasUnlockControl, RcuCompareControl, CacheLoadControl, RevalidateControl,
   CacheFillControl, DropCacheControl DEF StartCall, CallStep

-----------------------------------------------------------------------------
(* The storage, or a writer that still waits for the readers, has a. *)
Held(a) ==
  storage = a \/ \E u \in Threads : pc[u] = "write_lock" /\ old[u] = a

(* What is about to be counted has a reference that cannot go away: the lock
   that the counting thread has keeps out whoever could drop it. *)
Protected ==
  \A t \in Threads :
    /\ pc[t] = "inc" => Held(cur[t])
    /\ pc[t] = "cas_inc" => Held(old[t])

(* Nobody else has a pointer to a value that is still to be stored. *)
Fresh ==
  \A t, u \in Threads :
    new[t] # None =>
      /\ storage # new[t] /\ cur[u] # new[t] /\ old[u] # new[t]
      /\ cached[u] # new[t] /\ (u # t => new[u] # new[t])

Memory == Accounting /\ Protected /\ Fresh

(* The references to a that thread t has. *)
Mine(t, a) ==
  (IF cur[t] = a /\ pc[t] # "inc" THEN 1 ELSE 0)
  + (IF new[t] = a THEN 1 ELSE 0)
  + (IF old[t] = a /\ pc[t] # "cas_inc" THEN 1 ELSE 0)
  + (IF cached[t] = a THEN 1 ELSE 0)

(* The references to a that are in a thread, by its count. *)
Counted(a) == cnt[a] - (IF storage = a THEN 1 ELSE 0) - leaked[a]

(* A step of t leaves the variables of the others alone. *)
OnlyOf(t) ==
  \A u \in Threads \ {t} :
    /\ pc'[u] = pc[u] /\ op'[u] = op[u] /\ cur'[u] = cur[u]
    /\ new'[u] = new[u] /\ old'[u] = old[u] /\ from'[u] = from[u]
    /\ cached'[u] = cached[u] /\ cachedAt'[u] = cachedAt[u]
    /\ seen'[u] = seen[u]

(* The references of all threads are finitely many. *)
LEMMA HoldersFinite ==
  ASSUME NEW a
  PROVE  /\ IsFiniteSet(InCur(a)) /\ IsFiniteSet(InNew(a))
         /\ IsFiniteSet(InOld(a)) /\ IsFiniteSet(InCache(a))
         /\ References(a) \in Nat
<1>1. \A S \in SUBSET Threads : IsFiniteSet(S) /\ Cardinality(S) \in Nat
  BY ThreadsAssumption, PartOfFinite
<1>2. /\ InCur(a) \in SUBSET Threads /\ InNew(a) \in SUBSET Threads
      /\ InOld(a) \in SUBSET Threads /\ InCache(a) \in SUBSET Threads
  BY DEF InCur, InNew, InOld, InCache
<1> QED BY <1>1, <1>2 DEF References

(* The number of references changes by what the thread that moves gains or
   loses. *)
LEMMA ReferencesStep ==
  ASSUME NEW t \in Threads, NEW a, OnlyOf(t)
  PROVE  /\ References(a) \in Nat /\ References(a)' \in Nat
         /\ References(a)' + Mine(t, a) = References(a) + Mine(t, a)'
<1>1. InCur(a) \ {t} = InCur(a)' \ {t}
  BY DEF OnlyOf, InCur
<1>2. InNew(a) \ {t} = InNew(a)' \ {t}
  BY DEF OnlyOf, InNew
<1>3. InOld(a) \ {t} = InOld(a)' \ {t}
  BY DEF OnlyOf, InOld
<1>4. InCache(a) \ {t} = InCache(a)' \ {t}
  BY DEF OnlyOf, InCache
<1>5. /\ Cardinality(InCur(a)) \in Nat /\ Cardinality(InCur(a)') \in Nat
      /\ Cardinality(InCur(a)') + (IF t \in InCur(a) THEN 1 ELSE 0)
           = Cardinality(InCur(a)) + (IF t \in InCur(a)' THEN 1 ELSE 0)
  BY <1>1, HoldersFinite, OneElement
<1>6. /\ Cardinality(InNew(a)) \in Nat /\ Cardinality(InNew(a)') \in Nat
      /\ Cardinality(InNew(a)') + (IF t \in InNew(a) THEN 1 ELSE 0)
           = Cardinality(InNew(a)) + (IF t \in InNew(a)' THEN 1 ELSE 0)
  BY <1>2, HoldersFinite, OneElement
<1>7. /\ Cardinality(InOld(a)) \in Nat /\ Cardinality(InOld(a)') \in Nat
      /\ Cardinality(InOld(a)') + (IF t \in InOld(a) THEN 1 ELSE 0)
           = Cardinality(InOld(a)) + (IF t \in InOld(a)' THEN 1 ELSE 0)
  BY <1>3, HoldersFinite, OneElement
<1>8. /\ Cardinality(InCache(a)) \in Nat /\ Cardinality(InCache(a)') \in Nat
      /\ Cardinality(InCache(a)') + (IF t \in InCache(a) THEN 1 ELSE 0)
           = Cardinality(InCache(a)) + (IF t \in InCache(a)' THEN 1 ELSE 0)
  BY <1>4, HoldersFinite, OneElement
<1>9. Mine(t, a) =
        (IF t \in InCur(a) THEN 1 ELSE 0) + (IF t \in InNew(a) THEN 1 ELSE 0)
        + (IF t \in InOld(a) THEN 1 ELSE 0) + (IF t \in InCache(a) THEN 1 ELSE 0)
  BY DEF Mine, InCur, InNew, InOld, InCache
<1>10. Mine(t, a)' =
        (IF t \in InCur(a)' THEN 1 ELSE 0) + (IF t \in InNew(a)' THEN 1 ELSE 0)
        + (IF t \in InOld(a)' THEN 1 ELSE 0) + (IF t \in InCache(a)' THEN 1 ELSE 0)
  BY DEF Mine, InCur, InNew, InOld, InCache
<1>11. /\ References(a) =
            Cardinality(InCur(a)) + Cardinality(InNew(a))
            + Cardinality(InOld(a)) + Cardinality(InCache(a))
       /\ References(a)' =
            Cardinality(InCur(a)') + Cardinality(InNew(a)')
            + Cardinality(InOld(a)') + Cardinality(InCache(a)')
  BY DEF References
<1> HIDE DEF Mine, References
<1> QED BY <1>5, <1>6, <1>7, <1>8, <1>9, <1>10, <1>11

(* What a call has not got. *)
LEMMA Absent ==
  ASSUME Control, NEW t \in Threads
  PROVE  /\ pc[t] \notin WithCur => cur[t] = None
         /\ pc[t] \notin WithNew => new[t] = None
         /\ pc[t] \notin MayHaveOld => old[t] = None
         /\ None \notin Objects
BY DEF Control, Shape, Objects

(* Accounting is kept by a step whose counts follow the references of the
   thread that makes it. *)
LEMMA AccountingStep ==
  ASSUME Control, Control', Accounting, NEW t \in Threads, OnlyOf(t),
         \A a \in Objects : Counted(a)' + Mine(t, a) = Counted(a) + Mine(t, a)'
  PROVE  Accounting'
<1> SUFFICES ASSUME NEW a \in Objects
             PROVE  cnt'[a] = (IF storage' = a THEN 1 ELSE 0) + leaked'[a]
                              + References(a)'
  BY DEF Accounting
<1>1. References(a)' + Mine(t, a) = References(a) + Mine(t, a)'
  BY ReferencesStep
<1>2. References(a) \in Nat /\ References(a)' \in Nat
  BY ReferencesStep
<1>3. Mine(t, a) \in Nat /\ Mine(t, a)' \in Nat
  BY DEF Mine
<1>4. /\ cnt[a] \in Int /\ cnt'[a] \in Int /\ leaked[a] \in Int
      /\ leaked'[a] \in Int
  BY DEF Control, Types, ObjectTypes
<1>5. Counted(a) = References(a)
  BY <1>2, <1>4 DEF Accounting, Counted
<1>6. Counted(a)' + Mine(t, a) = Counted(a) + Mine(t, a)'
  OBVIOUS
<1>7. Counted(a)' = References(a)'
  BY <1>1, <1>2, <1>3, <1>4, <1>5, <1>6 DEF Counted
<1> QED BY <1>2, <1>4, <1>7 DEF Counted

(* Thread u has a reference to a. *)
Has(u, a) ==
  \/ cur[u] = a /\ pc[u] # "inc"
  \/ new[u] = a
  \/ old[u] = a /\ pc[u] # "cas_inc"
  \/ cached[u] = a

(* What somebody has a reference to has a positive count. *)
LEMMA Referenced ==
  ASSUME Control, Accounting, NEW a \in Objects
  PROVE  /\ cnt[a] \in Nat
         /\ storage = a => cnt[a] > 0
         /\ \A u \in Threads : Has(u, a) => cnt[a] > 0
<1>1. cnt[a] = (IF storage = a THEN 1 ELSE 0) + leaked[a] + References(a)
  BY DEF Accounting
<1>2. leaked[a] \in Nat
  BY DEF Control, Types, ObjectTypes
<1>3. References(a) \in Nat
  BY HoldersFinite
<1>4. ASSUME NEW u \in Threads, Has(u, a)
      PROVE  References(a) > 0
  <2>1. u \in InCur(a) \/ u \in InNew(a) \/ u \in InOld(a) \/ u \in InCache(a)
    BY <1>4 DEF Has, InCur, InNew, InOld, InCache
  <2>2. \A S : IsFiniteSet(S) =>
          Cardinality(S) \in Nat /\ (u \in S => Cardinality(S) > 0)
    BY PartOfFinite
  <2> QED BY <2>1, <2>2, HoldersFinite DEF References
<1> QED BY <1>1, <1>2, <1>3, <1>4

(* An address that the allocator may use again is nowhere in the program: not
   even in a load that has not counted its pointer yet. *)
LEMMA Unreferenced ==
  ASSUME Control, Memory, NEW a \in Objects, cnt[a] = 0
  PROVE  /\ storage # a
         /\ \A u \in Threads :
              cur[u] # a /\ new[u] # a /\ old[u] # a /\ cached[u] # a
<1>1. /\ storage # a
      /\ \A u \in Threads :
           /\ ~(cur[u] = a /\ pc[u] # "inc") /\ new[u] # a
           /\ ~(old[u] = a /\ pc[u] # "cas_inc") /\ cached[u] # a
  BY Referenced DEF Memory, Has
<1>2. ~Held(a)
  BY <1>1 DEF Held
<1> QED BY <1>1, <1>2 DEF Memory, Protected

(* Every step is of one thread. *)
LEMMA OnlyOfStep ==
  ASSUME Control, NEW t \in Threads, StartCall(t) \/ CallStep(t)
  PROVE  OnlyOf(t)
<1>1. ASSUME NEW c \in ApiCalls, Load(t, c)
      PROVE  OnlyOf(t)
  BY <1>1 DEF Load, Call, OnlyOf, Control, Types, CallTypes, ObjectTypes,
         HistoryTypes
<1>2. CASE ReadLock(t)
  BY <1>2 DEF ReadLock, OnlyOf, Control, Types, CallTypes, ObjectTypes,
         HistoryTypes
<1>3. CASE Read(t)
  BY <1>3 DEF Read, OnlyOf, Control, Types, CallTypes, ObjectTypes,
         HistoryTypes
<1>4. CASE LoadInc(t)
  BY <1>4 DEF LoadInc, OnlyOf, Control, Types, CallTypes, ObjectTypes,
         HistoryTypes
<1>5. CASE ReadUnlock(t)
  BY <1>5 DEF ReadUnlock, OnlyOf, Control, Types, CallTypes, ObjectTypes,
         HistoryTypes
<1>6. CASE DropCur(t)
  BY <1>6 DEF DropCur, OnlyOf, Control, Types, CallTypes, ObjectTypes,
         HistoryTypes
<1>7. ASSUME NEW a \in Objects, Store(t, a)
      PROVE  OnlyOf(t)
  BY <1>7 DEF Store, Call, Allocate, OnlyOf, Control, Types, CallTypes,
     ObjectTypes,
         HistoryTypes
<1>8. CASE Swap(t)
  BY <1>8 DEF Swap, Publish, OnlyOf, Control, Types, CallTypes, ObjectTypes,
         HistoryTypes
<1>9. CASE WaitForReaders(t)
  BY <1>9 DEF WaitForReaders, OnlyOf, Control, Types, CallTypes, ObjectTypes,
         HistoryTypes
<1>10. CASE DropOld(t)
  BY <1>10 DEF DropOld, OnlyOf, Control, Types, CallTypes, ObjectTypes,
         HistoryTypes
<1>11. ASSUME NEW a \in Objects, RcuClosure(t, a)
      PROVE  OnlyOf(t)
  BY <1>11 DEF RcuClosure, Allocate, OnlyOf, Control, Types, CallTypes,
     ObjectTypes,
         HistoryTypes
<1>12. CASE CasLock(t)
  BY <1>12 DEF CasLock, OnlyOf, Control, Types, CallTypes, ObjectTypes,
         HistoryTypes
<1>13. CASE Cas(t)
  BY <1>13 DEF Cas, Publish, OnlyOf, Control, Types, CallTypes, ObjectTypes,
         HistoryTypes
<1>14. CASE CasInc(t)
  BY <1>14 DEF CasInc, OnlyOf, Control, Types, CallTypes, ObjectTypes,
         HistoryTypes
<1>15. CASE CasDropNew(t)
  BY <1>15 DEF CasDropNew, OnlyOf, Control, Types, CallTypes, ObjectTypes,
         HistoryTypes
<1>16. CASE CasUnwind(t)
  BY <1>16 DEF CasUnwind, OnlyOf, Control, Types, CallTypes, ObjectTypes,
         HistoryTypes
<1>17. CASE CasUnlock(t)
  BY <1>17 DEF CasUnlock, OnlyOf, Control, Types, CallTypes, ObjectTypes,
         HistoryTypes
<1>18. CASE RcuCompare(t)
  BY <1>18 DEF RcuCompare, OnlyOf, Control, Types, CallTypes, ObjectTypes,
         HistoryTypes
<1>19. CASE CacheLoad(t)
  BY <1>19 DEF CacheLoad, Call, OnlyOf, Control, Types, CallTypes, ObjectTypes,
         HistoryTypes
<1>20. CASE Revalidate(t)
  BY <1>20 DEF Revalidate, OnlyOf, Control, Types, CallTypes, ObjectTypes,
         HistoryTypes
<1>21. CASE CacheFill(t)
  BY <1>21 DEF CacheFill, OnlyOf, Control, Types, CallTypes, ObjectTypes,
         HistoryTypes
<1>22. CASE DropCache(t)
  BY <1>22 DEF DropCache, Call, OnlyOf, Control, Types, CallTypes, ObjectTypes,
         HistoryTypes
<1> QED BY <1>1, <1>2, <1>3, <1>4, <1>5, <1>6, <1>7, <1>8, <1>9, <1>10, <1>11, <1>12,
           <1>13, <1>14, <1>15, <1>16, <1>17, <1>18, <1>19, <1>20, <1>21, <1>22
  DEF StartCall, CallStep

(* A call begins and counts nothing: Memory is kept. *)
LEMMA LoadMemory ==
  ASSUME Control, Control', Memory, NEW t \in Threads, OnlyOf(t), NEW c \in ApiCalls,
         Load(t, c)
  PROVE  Memory'
<1> USE DEF Load, Call
<1>1. ASSUME NEW a \in Objects
      PROVE  Counted(a)' + Mine(t, a) = Counted(a) + Mine(t, a)'
  BY DEF Counted, Mine, Control, Types, CallTypes, ObjectTypes
<1>2. Accounting'
  BY <1>1, AccountingStep DEF Memory
<1>3. Protected'
  BY DEF Memory, Protected, Held, Control, Types, CallTypes, LockInv
<1>4. Fresh'
  BY DEF Memory, Fresh, Control, Types, CallTypes
<1> QED BY <1>2, <1>3, <1>4 DEF Memory

(* A call that finds the lock poisoned has no reference to lose: Memory is
   kept. *)
LEMMA ReadLockMemory ==
  ASSUME Control, Control', Memory, NEW t \in Threads, OnlyOf(t),
         ReadLock(t)
  PROVE  Memory'
<1> USE DEF ReadLock
<1>1. ASSUME NEW a \in Objects
      PROVE  Counted(a)' + Mine(t, a) = Counted(a) + Mine(t, a)'
  <2>1. /\ pc[t] = "read_lock" /\ cur[t] = None /\ new[t] = None
        /\ old[t] = None /\ a # None
    BY Absent
  <2>2. cnt[a] \in Int /\ leaked[a] \in Nat
    BY DEF Control, Types, ObjectTypes
  <2>3. CASE poisoned
    <3>1. /\ cnt'[a] = cnt[a]
          /\ leaked'[a] = leaked[a]
          /\ storage' = storage
      BY <2>1, <2>3 DEF Control, Types, ObjectTypes
    <3>2. /\ pc'[t] = "idle" /\ cur'[t] = None /\ new'[t] = None
          /\ old'[t] = None /\ cached'[t] = cached[t]
      BY <2>1, <2>3 DEF Control, Types, CallTypes, ObjectTypes
    <3> HIDE DEF ReadLock
    <3>3. Counted(a)' + Mine(t, a) = Counted(a) + Mine(t, a)'
      BY <2>1, <2>2, <2>3, <3>1, <3>2 DEF Counted, Mine
    <3> QED BY <3>3
  <2>4. CASE ~poisoned
    <3>1. /\ cnt'[a] = cnt[a]
          /\ leaked'[a] = leaked[a]
          /\ storage' = storage
      BY <2>1, <2>4 DEF Control, Types, ObjectTypes
    <3>2. /\ pc'[t] = "read" /\ cur'[t] = cur[t] /\ new'[t] = new[t]
          /\ old'[t] = old[t] /\ cached'[t] = cached[t]
      BY <2>1, <2>4 DEF Control, Types, CallTypes, ObjectTypes
    <3> HIDE DEF ReadLock
    <3>3. Counted(a)' + Mine(t, a) = Counted(a) + Mine(t, a)'
      BY <2>1, <2>2, <2>4, <3>1, <3>2 DEF Counted, Mine
    <3> QED BY <3>3
  <2> QED BY <2>3, <2>4
<1>2. Accounting'
  BY <1>1, AccountingStep DEF Memory
<1>3. Protected'
  BY DEF Memory, Protected, Held, Control, Types, CallTypes, LockInv
<1>4. Fresh'
  BY DEF Memory, Fresh, Control, Types, CallTypes
<1> QED BY <1>2, <1>3, <1>4 DEF Memory

(* The pointer that has been read is in the storage, and not counted yet:
   Memory is kept. *)
LEMMA ReadMemory ==
  ASSUME Control, Control', Memory, NEW t \in Threads, OnlyOf(t),
         Read(t)
  PROVE  Memory'
<1> USE DEF Read
<1>0. storage \in Objects
  BY Pointers
<1>1. ASSUME NEW a \in Objects
      PROVE  Counted(a)' + Mine(t, a) = Counted(a) + Mine(t, a)'
  <2>1. /\ pc[t] = "read" /\ cur[t] = None /\ new[t] = None /\ old[t] = None
        /\ a # None
    BY Absent
  <2>2. cnt[a] \in Int /\ leaked[a] \in Nat
    BY DEF Control, Types, ObjectTypes
  <2>3. /\ cnt'[a] = cnt[a]
        /\ leaked'[a] = leaked[a]
        /\ storage' = storage
    BY <1>0, <2>1 DEF Control, Types, ObjectTypes
  <2>4. /\ pc'[t] = "inc" /\ cur'[t] = storage /\ new'[t] = new[t]
        /\ old'[t] = old[t] /\ cached'[t] = cached[t]
    BY <1>0, <2>1 DEF Control, Types, CallTypes, ObjectTypes
  <2> HIDE DEF Read
  <2>5. Counted(a)' + Mine(t, a) = Counted(a) + Mine(t, a)'
    BY <1>0, <2>1, <2>2, <2>3, <2>4 DEF Counted, Mine
  <2> QED BY <2>5
<1>2. Accounting'
  BY <1>1, AccountingStep DEF Memory
<1>3. Protected'
  BY <1>0 DEF Memory, Protected, Held, Control, Types, CallTypes, LockInv
<1>4. Fresh'
  BY <1>0 DEF Memory, Fresh, Control, Types, CallTypes
<1> QED BY <1>2, <1>3, <1>4 DEF Memory

(* load gets the reference that it counts: Memory is kept. *)
LEMMA LoadIncMemory ==
  ASSUME Control, Control', Memory, NEW t \in Threads, OnlyOf(t),
         LoadInc(t)
  PROVE  Memory'
<1> USE DEF LoadInc
<1>0. cur[t] \in Objects
  BY Pointers
<1>1. ASSUME NEW a \in Objects
      PROVE  Counted(a)' + Mine(t, a) = Counted(a) + Mine(t, a)'
  BY <1>0 DEF Counted, Mine, Control, Types, CallTypes, ObjectTypes
<1>2. Accounting'
  BY <1>1, AccountingStep DEF Memory
<1>3. Protected'
  BY <1>0 DEF Memory, Protected, Held, Control, Types, CallTypes, LockInv
<1>4. Fresh'
  BY <1>0 DEF Memory, Fresh, Control, Types, CallTypes
<1> QED BY <1>2, <1>3, <1>4 DEF Memory

(* The lock is not needed once the load has a reference: Memory is kept. *)
LEMMA ReadUnlockMemory ==
  ASSUME Control, Control', Memory, NEW t \in Threads, OnlyOf(t),
         ReadUnlock(t)
  PROVE  Memory'
<1> USE DEF ReadUnlock
<1>1. ASSUME NEW a \in Objects
      PROVE  Counted(a)' + Mine(t, a) = Counted(a) + Mine(t, a)'
  BY DEF Counted, Mine, Control, Types, CallTypes, ObjectTypes
<1>2. Accounting'
  BY <1>1, AccountingStep DEF Memory
<1>3. Protected'
  BY DEF Memory, Protected, Held, Control, Types, CallTypes, LockInv
<1>4. Fresh'
  BY DEF Memory, Fresh, Control, Types, CallTypes
<1> QED BY <1>2, <1>3, <1>4 DEF Memory

(* A guard and its count go together: Memory is kept. *)
LEMMA DropCurMemory ==
  ASSUME Control, Control', Memory, NEW t \in Threads, OnlyOf(t),
         DropCur(t)
  PROVE  Memory'
<1> USE DEF DropCur
<1>0. cur[t] \in Objects
  BY Pointers
<1>1. ASSUME NEW a \in Objects
      PROVE  Counted(a)' + Mine(t, a) = Counted(a) + Mine(t, a)'
  <2>1. pc[t] = "drop_cur" /\ new[t] = None /\ a # None
    BY Absent
  <2>2. cnt[a] \in Int /\ leaked[a] \in Nat
    BY DEF Control, Types, ObjectTypes
  <2>3. CASE old[t] = None
    <3>1. /\ cnt'[a] = cnt[a] - (IF cur[t] = a THEN 1 ELSE 0)
          /\ leaked'[a] = leaked[a]
          /\ storage' = storage
      BY <1>0, <2>1, <2>3 DEF Control, Types, ObjectTypes
    <3>2. /\ pc'[t] = "idle" /\ cur'[t] = None /\ new'[t] = None
          /\ old'[t] = None /\ cached'[t] = cached[t]
      BY <1>0, <2>1, <2>3 DEF Control, Types, CallTypes, ObjectTypes
    <3> HIDE DEF DropCur
    <3>3. Counted(a)' + Mine(t, a) = Counted(a) + Mine(t, a)'
      BY <1>0, <2>1, <2>2, <2>3, <3>1, <3>2 DEF Counted, Mine
    <3> QED BY <3>3
  <2>4. CASE old[t] # None
    <3>1. /\ cnt'[a] = cnt[a] - (IF cur[t] = a THEN 1 ELSE 0)
          /\ leaked'[a] = leaked[a]
          /\ storage' = storage
      BY <1>0, <2>1, <2>4 DEF Control, Types, ObjectTypes
    <3>2. /\ pc'[t] = "drop_old" /\ cur'[t] = None /\ new'[t] = new[t]
          /\ old'[t] = old[t] /\ cached'[t] = cached[t]
      BY <1>0, <2>1, <2>4 DEF Control, Types, CallTypes, ObjectTypes
    <3> HIDE DEF DropCur
    <3>3. Counted(a)' + Mine(t, a) = Counted(a) + Mine(t, a)'
      BY <1>0, <2>1, <2>2, <2>4, <3>1, <3>2 DEF Counted, Mine
    <3> QED BY <3>3
  <2> QED BY <2>3, <2>4
<1>2. Accounting'
  BY <1>1, AccountingStep DEF Memory
<1>3. Protected'
  BY <1>0 DEF Memory, Protected, Held, Control, Types, CallTypes, LockInv
<1>4. Fresh'
  BY <1>0 DEF Memory, Fresh, Control, Types, CallTypes
<1> QED BY <1>2, <1>3, <1>4 DEF Memory

(* A new object has one reference, and its address is nowhere else: Memory
   is kept. *)
LEMMA StoreMemory ==
  ASSUME Control, Control', Memory, NEW t \in Threads, OnlyOf(t), NEW a \in Objects,
         Store(t, a)
  PROVE  Memory'
<1> USE DEF Store, Call, Allocate
<1>a. /\ storage # a
      /\ \A u \in Threads : cur[u] # a /\ new[u] # a /\ old[u] # a /\ cached[u] # a
  BY Unreferenced
<1>1. ASSUME NEW b \in Objects
      PROVE  Counted(b)' + Mine(t, b) = Counted(b) + Mine(t, b)'
  <2>1. /\ pc[t] = "idle" /\ cur[t] = None /\ new[t] = None /\ old[t] = None
        /\ b # None
    BY Absent
  <2>2. cnt[b] \in Int /\ leaked[b] \in Nat
    BY DEF Control, Types, ObjectTypes
  <2>3. /\ cnt'[b] = cnt[b] + (IF a = b THEN 1 ELSE 0)
        /\ leaked'[b] = leaked[b]
        /\ storage' = storage
    BY <2>1 DEF Control, Types, ObjectTypes
  <2>4. /\ pc'[t] = "swap" /\ cur'[t] = cur[t] /\ new'[t] = a
        /\ old'[t] = old[t] /\ cached'[t] = cached[t]
    BY <2>1 DEF Control, Types, CallTypes, ObjectTypes
  <2> HIDE DEF Store
  <2>5. Counted(b)' + Mine(t, b) = Counted(b) + Mine(t, b)'
    BY <1>a, <2>1, <2>2, <2>3, <2>4 DEF Counted, Mine
  <2> QED BY <2>5
<1>2. Accounting'
  BY <1>1, AccountingStep DEF Memory
<1>3. Protected'
  BY DEF Memory, Protected, Held, Control, Types, CallTypes, LockInv
<1>4. Fresh'
  BY <1>a DEF Memory, Fresh, Control, Types, CallTypes
<1> QED BY <1>2, <1>3, <1>4 DEF Memory

(* The storage's reference passes to the writer, the new value's to the
   storage; who has read the old pointer is now protected by the writer's
   wait: Memory is kept. *)
LEMMA SwapMemory ==
  ASSUME Control, Control', Memory, NEW t \in Threads, OnlyOf(t),
         Swap(t)
  PROVE  Memory'
<1> USE DEF Swap, Publish
<1>0. new[t] \in Objects /\ storage \in Objects
  BY Pointers
<1>1. ASSUME NEW a \in Objects
      PROVE  Counted(a)' + Mine(t, a) = Counted(a) + Mine(t, a)'
  <2>1. pc[t] = "swap" /\ cur[t] = None /\ old[t] = None /\ a # None
    BY Absent
  <2>2. cnt[a] \in Int /\ leaked[a] \in Nat
    BY DEF Control, Types, ObjectTypes
  <2>3. /\ cnt'[a] = cnt[a]
        /\ leaked'[a] = leaked[a]
        /\ storage' = new[t]
    BY <1>0, <2>1 DEF Control, Types, ObjectTypes
  <2>4. /\ pc'[t] = "write_lock" /\ cur'[t] = cur[t] /\ new'[t] = None
        /\ old'[t] = storage /\ cached'[t] = cached[t]
    BY <1>0, <2>1 DEF Control, Types, CallTypes, ObjectTypes
  <2> HIDE DEF Swap
  <2>5. Counted(a)' + Mine(t, a) = Counted(a) + Mine(t, a)'
    BY <1>0, <2>1, <2>2, <2>3, <2>4 DEF Counted, Mine
  <2> QED BY <2>5
<1>2. Accounting'
  BY <1>1, AccountingStep DEF Memory
<1>3. Protected'
  BY <1>0 DEF Memory, Protected, Held, Control, Types, CallTypes, LockInv
<1>4. Fresh'
  BY <1>0 DEF Memory, Fresh, Control, Types, CallTypes
<1> QED BY <1>2, <1>3, <1>4 DEF Memory

(* Nobody is left whom the writer protects; a panic leaks what it has:
   Memory is kept. *)
LEMMA WaitForReadersMemory ==
  ASSUME Control, Control', Memory, NEW t \in Threads, OnlyOf(t),
         WaitForReaders(t)
  PROVE  Memory'
<1> USE DEF WaitForReaders
<1>0. old[t] \in Objects
  BY Pointers
<1>1. ASSUME NEW a \in Objects
      PROVE  Counted(a)' + Mine(t, a) = Counted(a) + Mine(t, a)'
  <2>1. pc[t] = "write_lock" /\ cur[t] = None /\ new[t] = None /\ a # None
    BY Absent
  <2>2. cnt[a] \in Int /\ leaked[a] \in Nat
    BY DEF Control, Types, ObjectTypes
  <2>3. CASE poisoned
    <3>1. /\ cnt'[a] = cnt[a]
          /\ leaked'[a] = leaked[a] + (IF old[t] = a THEN 1 ELSE 0)
          /\ storage' = storage
      BY <1>0, <2>1, <2>3 DEF Control, Types, ObjectTypes
    <3>2. /\ pc'[t] = "idle" /\ cur'[t] = None /\ new'[t] = None
          /\ old'[t] = None /\ cached'[t] = cached[t]
      BY <1>0, <2>1, <2>3 DEF Control, Types, CallTypes, ObjectTypes
    <3> HIDE DEF WaitForReaders
    <3>3. Counted(a)' + Mine(t, a) = Counted(a) + Mine(t, a)'
      BY <1>0, <2>1, <2>2, <2>3, <3>1, <3>2 DEF Counted, Mine
    <3> QED BY <3>3
  <2>4. CASE ~poisoned
    <3>1. /\ cnt'[a] = cnt[a]
          /\ leaked'[a] = leaked[a]
          /\ storage' = storage
      BY <1>0, <2>1, <2>4 DEF Control, Types, ObjectTypes
    <3>2. /\ pc'[t] = "drop_old" /\ cur'[t] = cur[t] /\ new'[t] = new[t]
          /\ old'[t] = old[t] /\ cached'[t] = cached[t]
      BY <1>0, <2>1, <2>4 DEF Control, Types, CallTypes, ObjectTypes
    <3> HIDE DEF WaitForReaders
    <3>3. Counted(a)' + Mine(t, a) = Counted(a) + Mine(t, a)'
      BY <1>0, <2>1, <2>2, <2>4, <3>1, <3>2 DEF Counted, Mine
    <3> QED BY <3>3
  <2> QED BY <2>3, <2>4
<1>2. Accounting'
  BY <1>1, AccountingStep DEF Memory
<1>3. Protected'
  BY <1>0 DEF Memory, Protected, Held, Control, Types, CallTypes, LockInv
<1>4. Fresh'
  BY <1>0 DEF Memory, Fresh, Control, Types, CallTypes
<1> QED BY <1>2, <1>3, <1>4 DEF Memory

(* The writer's reference and its count go together: Memory is kept. *)
LEMMA DropOldMemory ==
  ASSUME Control, Control', Memory, NEW t \in Threads, OnlyOf(t),
         DropOld(t)
  PROVE  Memory'
<1> USE DEF DropOld
<1>0. old[t] \in Objects
  BY Pointers
<1>1. ASSUME NEW a \in Objects
      PROVE  Counted(a)' + Mine(t, a) = Counted(a) + Mine(t, a)'
  <2>1. pc[t] = "drop_old" /\ cur[t] = None /\ new[t] = None /\ a # None
    BY Absent
  <2>2. cnt[a] \in Int /\ leaked[a] \in Nat
    BY DEF Control, Types, ObjectTypes
  <2>3. /\ cnt'[a] = cnt[a] - (IF old[t] = a THEN 1 ELSE 0)
        /\ leaked'[a] = leaked[a]
        /\ storage' = storage
    BY <1>0, <2>1 DEF Control, Types, ObjectTypes
  <2>4. /\ pc'[t] = "idle" /\ cur'[t] = None /\ new'[t] = None
        /\ old'[t] = None /\ cached'[t] = cached[t]
    BY <1>0, <2>1 DEF Control, Types, CallTypes, ObjectTypes
  <2> HIDE DEF DropOld
  <2>5. Counted(a)' + Mine(t, a) = Counted(a) + Mine(t, a)'
    BY <1>0, <2>1, <2>2, <2>3, <2>4 DEF Counted, Mine
  <2> QED BY <2>5
<1>2. Accounting'
  BY <1>1, AccountingStep DEF Memory
<1>3. Protected'
  BY <1>0 DEF Memory, Protected, Held, Control, Types, CallTypes, LockInv
<1>4. Fresh'
  BY <1>0 DEF Memory, Fresh, Control, Types, CallTypes
<1> QED BY <1>2, <1>3, <1>4 DEF Memory

(* The object made by the closure is new: Memory is kept. *)
LEMMA RcuClosureMemory ==
  ASSUME Control, Control', Memory, NEW t \in Threads, OnlyOf(t), NEW a \in Objects,
         RcuClosure(t, a)
  PROVE  Memory'
<1> USE DEF RcuClosure, Allocate
<1>0. cur[t] \in Objects
  BY Pointers
<1>a. /\ storage # a
      /\ \A u \in Threads : cur[u] # a /\ new[u] # a /\ old[u] # a /\ cached[u] # a
  BY Unreferenced
<1>1. ASSUME NEW b \in Objects
      PROVE  Counted(b)' + Mine(t, b) = Counted(b) + Mine(t, b)'
  <2>1. pc[t] = "closure" /\ new[t] = None /\ old[t] = None /\ b # None
    BY Absent
  <2>2. cnt[b] \in Int /\ leaked[b] \in Nat
    BY DEF Control, Types, ObjectTypes
  <2>3. /\ cnt'[b] = cnt[b] + (IF a = b THEN 1 ELSE 0)
        /\ leaked'[b] = leaked[b]
        /\ storage' = storage
    BY <1>0, <2>1 DEF Control, Types, ObjectTypes
  <2>4. /\ pc'[t] = "cas_lock" /\ cur'[t] = cur[t] /\ new'[t] = a
        /\ old'[t] = old[t] /\ cached'[t] = cached[t]
    BY <1>0, <2>1 DEF Control, Types, CallTypes, ObjectTypes
  <2> HIDE DEF RcuClosure
  <2>5. Counted(b)' + Mine(t, b) = Counted(b) + Mine(t, b)'
    BY <1>0, <1>a, <2>1, <2>2, <2>3, <2>4 DEF Counted, Mine
  <2> QED BY <2>5
<1>2. Accounting'
  BY <1>1, AccountingStep DEF Memory
<1>3. Protected'
  BY <1>0 DEF Memory, Protected, Held, Control, Types, CallTypes, LockInv
<1>4. Fresh'
  BY <1>0, <1>a DEF Memory, Fresh, Control, Types, CallTypes
<1> QED BY <1>2, <1>3, <1>4 DEF Memory

(* The lock is taken: Memory is kept. *)
LEMMA CasLockMemory ==
  ASSUME Control, Control', Memory, NEW t \in Threads, OnlyOf(t),
         CasLock(t)
  PROVE  Memory'
<1> USE DEF CasLock
<1>1. ASSUME NEW a \in Objects
      PROVE  Counted(a)' + Mine(t, a) = Counted(a) + Mine(t, a)'
  BY DEF Counted, Mine, Control, Types, CallTypes, ObjectTypes
<1>2. Accounting'
  BY <1>1, AccountingStep DEF Memory
<1>3. Protected'
  BY DEF Memory, Protected, Held, Control, Types, CallTypes, LockInv
<1>4. Fresh'
  BY DEF Memory, Fresh, Control, Types, CallTypes
<1> QED BY <1>2, <1>3, <1>4 DEF Memory

(* compare_and_swap passes references on like swap, or reads the pointer;
   no load is under way: Memory is kept. *)
LEMMA CasMemory ==
  ASSUME Control, Control', Memory, NEW t \in Threads, OnlyOf(t),
         Cas(t)
  PROVE  Memory'
<1> USE DEF Cas, Publish
<1>0. new[t] \in Objects /\ storage \in Objects
  BY Pointers
<1>1. ASSUME NEW a \in Objects
      PROVE  Counted(a)' + Mine(t, a) = Counted(a) + Mine(t, a)'
  <2>1. pc[t] = "cas" /\ old[t] = None /\ a # None
    BY Absent
  <2>2. cnt[a] \in Int /\ leaked[a] \in Nat
    BY DEF Control, Types, ObjectTypes
  <2>3. CASE storage = cur[t]
    <3>1. /\ cnt'[a] = cnt[a]
          /\ leaked'[a] = leaked[a]
          /\ storage' = new[t]
      BY <1>0, <2>1, <2>3 DEF Control, Types, ObjectTypes
    <3>2. /\ pc'[t] = "cas_unlock" /\ cur'[t] = cur[t] /\ new'[t] = None
          /\ old'[t] = storage /\ cached'[t] = cached[t]
      BY <1>0, <2>1, <2>3 DEF Control, Types, CallTypes, ObjectTypes
    <3> HIDE DEF Cas
    <3>3. Counted(a)' + Mine(t, a) = Counted(a) + Mine(t, a)'
      BY <1>0, <2>1, <2>2, <2>3, <3>1, <3>2 DEF Counted, Mine
    <3> QED BY <3>3
  <2>4. CASE storage # cur[t]
    <3>1. /\ cnt'[a] = cnt[a]
          /\ leaked'[a] = leaked[a]
          /\ storage' = storage
      BY <1>0, <2>1, <2>4 DEF Control, Types, ObjectTypes
    <3>2. /\ pc'[t] = "cas_inc" /\ cur'[t] = cur[t] /\ new'[t] = new[t]
          /\ old'[t] = storage /\ cached'[t] = cached[t]
      BY <1>0, <2>1, <2>4 DEF Control, Types, CallTypes, ObjectTypes
    <3> HIDE DEF Cas
    <3>3. Counted(a)' + Mine(t, a) = Counted(a) + Mine(t, a)'
      BY <1>0, <2>1, <2>2, <2>4, <3>1, <3>2 DEF Counted, Mine
    <3> QED BY <3>3
  <2> QED BY <2>3, <2>4
<1>2. Accounting'
  BY <1>1, AccountingStep DEF Memory
<1>3. Protected'
  BY <1>0 DEF Memory, Protected, Held, Control, Types, CallTypes, LockInv
<1>4. Fresh'
  BY <1>0 DEF Memory, Fresh, Control, Types, CallTypes
<1> QED BY <1>2, <1>3, <1>4 DEF Memory

(* A failed compare_and_swap gets the reference that it counts: Memory is
   kept. *)
LEMMA CasIncMemory ==
  ASSUME Control, Control', Memory, NEW t \in Threads, OnlyOf(t),
         CasInc(t)
  PROVE  Memory'
<1> USE DEF CasInc
<1>0. old[t] \in Objects
  BY Pointers
<1>1. ASSUME NEW a \in Objects
      PROVE  Counted(a)' + Mine(t, a) = Counted(a) + Mine(t, a)'
  BY <1>0 DEF Counted, Mine, Control, Types, CallTypes, ObjectTypes
<1>2. Accounting'
  BY <1>1, AccountingStep DEF Memory
<1>3. Protected'
  BY <1>0 DEF Memory, Protected, Held, Control, Types, CallTypes, LockInv
<1>4. Fresh'
  BY <1>0 DEF Memory, Fresh, Control, Types, CallTypes
<1> QED BY <1>2, <1>3, <1>4 DEF Memory

(* The new value and its count go together: Memory is kept. *)
LEMMA CasDropNewMemory ==
  ASSUME Control, Control', Memory, NEW t \in Threads, OnlyOf(t),
         CasDropNew(t)
  PROVE  Memory'
<1> USE DEF CasDropNew
<1>0. new[t] \in Objects
  BY Pointers
<1>1. ASSUME NEW a \in Objects
      PROVE  Counted(a)' + Mine(t, a) = Counted(a) + Mine(t, a)'
  <2>1. pc[t] = "cas_drop_new" /\ a # None
    BY Absent
  <2>2. cnt[a] \in Int /\ leaked[a] \in Nat
    BY DEF Control, Types, ObjectTypes
  <2>3. /\ cnt'[a] = cnt[a] - (IF new[t] = a THEN 1 ELSE 0)
        /\ leaked'[a] = leaked[a]
        /\ storage' = storage
    BY <1>0, <2>1 DEF Control, Types, ObjectTypes
  <2>4. /\ pc'[t] \in {"cas_unlock", "cas_unwind"} /\ cur'[t] = cur[t]
        /\ new'[t] = None
        /\ old'[t] = old[t] /\ cached'[t] = cached[t]
    BY <1>0, <2>1 DEF Control, Types, CallTypes, ObjectTypes
  <2> HIDE DEF CasDropNew
  <2>5. Counted(a)' + Mine(t, a) = Counted(a) + Mine(t, a)'
    BY <1>0, <2>1, <2>2, <2>3, <2>4 DEF Counted, Mine
  <2> QED BY <2>5
<1>2. Accounting'
  BY <1>1, AccountingStep DEF Memory
<1>3. Protected'
  BY <1>0 DEF Memory, Protected, Held, Control, Types, CallTypes, LockInv
<1>4. Fresh'
  BY <1>0 DEF Memory, Fresh, Control, Types, CallTypes
<1> QED BY <1>2, <1>3, <1>4 DEF Memory

(* What was found and its count go together: Memory is kept. *)
LEMMA CasUnwindMemory ==
  ASSUME Control, Control', Memory, NEW t \in Threads, OnlyOf(t),
         CasUnwind(t)
  PROVE  Memory'
<1> USE DEF CasUnwind
<1>0. old[t] \in Objects
  BY Pointers
<1>1. ASSUME NEW a \in Objects
      PROVE  Counted(a)' + Mine(t, a) = Counted(a) + Mine(t, a)'
  <2>1. pc[t] = "cas_unwind" /\ new[t] = None /\ a # None
    BY Absent
  <2>2. cnt[a] \in Int /\ leaked[a] \in Nat
    BY DEF Control, Types, ObjectTypes
  <2>3. /\ cnt'[a] = cnt[a] - (IF old[t] = a THEN 1 ELSE 0)
        /\ leaked'[a] = leaked[a]
        /\ storage' = storage
    BY <1>0, <2>1 DEF Control, Types, ObjectTypes
  <2>4. /\ pc'[t] = "cas_unlock" /\ cur'[t] = cur[t] /\ new'[t] = new[t]
        /\ old'[t] = None /\ cached'[t] = cached[t]
    BY <1>0, <2>1 DEF Control, Types, CallTypes, ObjectTypes
  <2> HIDE DEF CasUnwind
  <2>5. Counted(a)' + Mine(t, a) = Counted(a) + Mine(t, a)'
    BY <1>0, <2>1, <2>2, <2>3, <2>4 DEF Counted, Mine
  <2> QED BY <2>5
<1>2. Accounting'
  BY <1>1, AccountingStep DEF Memory
<1>3. Protected'
  BY <1>0 DEF Memory, Protected, Held, Control, Types, CallTypes, LockInv
<1>4. Fresh'
  BY <1>0 DEF Memory, Fresh, Control, Types, CallTypes
<1> QED BY <1>2, <1>3, <1>4 DEF Memory

(* The lock is given back, and nobody is about to count: Memory is kept. *)
LEMMA CasUnlockMemory ==
  ASSUME Control, Control', Memory, NEW t \in Threads, OnlyOf(t),
         CasUnlock(t)
  PROVE  Memory'
<1> USE DEF CasUnlock
<1>1. ASSUME NEW a \in Objects
      PROVE  Counted(a)' + Mine(t, a) = Counted(a) + Mine(t, a)'
  BY DEF Counted, Mine, Control, Types, CallTypes, ObjectTypes
<1>2. Accounting'
  BY <1>1, AccountingStep DEF Memory
<1>3. Protected'
  BY DEF Memory, Protected, Held, Control, Types, CallTypes, LockInv
<1>4. Fresh'
  BY DEF Memory, Fresh, Control, Types, CallTypes
<1> QED BY <1>2, <1>3, <1>4 DEF Memory

(* The reference to the value found takes the place of the dropped guard:
   Memory is kept. *)
LEMMA RcuCompareMemory ==
  ASSUME Control, Control', Memory, NEW t \in Threads, OnlyOf(t),
         RcuCompare(t)
  PROVE  Memory'
<1> USE DEF RcuCompare
<1>0. cur[t] \in Objects /\ old[t] \in Objects
  BY Pointers
<1>1. ASSUME NEW a \in Objects
      PROVE  Counted(a)' + Mine(t, a) = Counted(a) + Mine(t, a)'
  <2>1. pc[t] = "compare" /\ new[t] = None /\ a # None
    BY Absent
  <2>2. cnt[a] \in Int /\ leaked[a] \in Nat
    BY DEF Control, Types, ObjectTypes
  <2>3. CASE cur[t] = old[t]
    <3>1. /\ cnt'[a] = cnt[a]
          /\ leaked'[a] = leaked[a]
          /\ storage' = storage
      BY <1>0, <2>1, <2>3 DEF Control, Types, ObjectTypes
    <3>2. /\ pc'[t] = "drop_cur" /\ cur'[t] = cur[t] /\ new'[t] = new[t]
          /\ old'[t] = old[t] /\ cached'[t] = cached[t]
      BY <1>0, <2>1, <2>3 DEF Control, Types, CallTypes, ObjectTypes
    <3> HIDE DEF RcuCompare
    <3>3. Counted(a)' + Mine(t, a) = Counted(a) + Mine(t, a)'
      BY <1>0, <2>1, <2>2, <2>3, <3>1, <3>2 DEF Counted, Mine
    <3> QED BY <3>3
  <2>4. CASE cur[t] # old[t]
    <3>1. /\ cnt'[a] = cnt[a] - (IF cur[t] = a THEN 1 ELSE 0)
          /\ leaked'[a] = leaked[a]
          /\ storage' = storage
      BY <1>0, <2>1, <2>4 DEF Control, Types, ObjectTypes
    <3>2. /\ pc'[t] = "closure" /\ cur'[t] = old[t] /\ new'[t] = new[t]
          /\ old'[t] = None /\ cached'[t] = cached[t]
      BY <1>0, <2>1, <2>4 DEF Control, Types, CallTypes, ObjectTypes
    <3> HIDE DEF RcuCompare
    <3>3. Counted(a)' + Mine(t, a) = Counted(a) + Mine(t, a)'
      BY <1>0, <2>1, <2>2, <2>4, <3>1, <3>2 DEF Counted, Mine
    <3> QED BY <3>3
  <2> QED BY <2>3, <2>4
<1>2. Accounting'
  BY <1>1, AccountingStep DEF Memory
<1>3. Protected'
  BY <1>0 DEF Memory, Protected, Held, Control, Types, CallTypes, LockInv
<1>4. Fresh'
  BY <1>0 DEF Memory, Fresh, Control, Types, CallTypes
<1> QED BY <1>2, <1>3, <1>4 DEF Memory

(* Cache::load begins and counts nothing: Memory is kept. *)
LEMMA CacheLoadMemory ==
  ASSUME Control, Control', Memory, NEW t \in Threads, OnlyOf(t),
         CacheLoad(t)
  PROVE  Memory'
<1> USE DEF CacheLoad, Call
<1>1. ASSUME NEW a \in Objects
      PROVE  Counted(a)' + Mine(t, a) = Counted(a) + Mine(t, a)'
  BY DEF Counted, Mine, Control, Types, CallTypes, ObjectTypes
<1>2. Accounting'
  BY <1>1, AccountingStep DEF Memory
<1>3. Protected'
  BY DEF Memory, Protected, Held, Control, Types, CallTypes, LockInv
<1>4. Fresh'
  BY DEF Memory, Fresh, Control, Types, CallTypes
<1> QED BY <1>2, <1>3, <1>4 DEF Memory

(* A comparison of pointers counts nothing: Memory is kept. *)
LEMMA RevalidateMemory ==
  ASSUME Control, Control', Memory, NEW t \in Threads, OnlyOf(t),
         Revalidate(t)
  PROVE  Memory'
<1> USE DEF Revalidate
<1>1. ASSUME NEW a \in Objects
      PROVE  Counted(a)' + Mine(t, a) = Counted(a) + Mine(t, a)'
  <2>1. /\ pc[t] = "check" /\ cur[t] = None /\ new[t] = None
        /\ old[t] = None /\ a # None
    BY Absent
  <2>2. cnt[a] \in Int /\ leaked[a] \in Nat
    BY DEF Control, Types, ObjectTypes
  <2>3. CASE pc'[t] = "idle"
    <3>1. /\ cnt'[a] = cnt[a]
          /\ leaked'[a] = leaked[a]
          /\ storage' = storage
      BY <2>1, <2>3 DEF Control, Types, ObjectTypes
    <3>2. /\ pc'[t] = "idle" /\ cur'[t] = None /\ new'[t] = None
          /\ old'[t] = None /\ cached'[t] = cached[t]
      BY <2>1, <2>3 DEF Control, Types, CallTypes, ObjectTypes
    <3> HIDE DEF Revalidate
    <3>3. Counted(a)' + Mine(t, a) = Counted(a) + Mine(t, a)'
      BY <2>1, <2>2, <2>3, <3>1, <3>2 DEF Counted, Mine
    <3> QED BY <3>3
  <2>4. CASE pc'[t] # "idle"
    <3>1. /\ cnt'[a] = cnt[a]
          /\ leaked'[a] = leaked[a]
          /\ storage' = storage
      BY <2>1, <2>4 DEF Control, Types, ObjectTypes
    <3>2. /\ pc'[t] = "read_lock" /\ cur'[t] = cur[t] /\ new'[t] = new[t]
          /\ old'[t] = old[t] /\ cached'[t] = cached[t]
      BY <2>1, <2>4 DEF Control, Types, CallTypes, ObjectTypes
    <3> HIDE DEF Revalidate
    <3>3. Counted(a)' + Mine(t, a) = Counted(a) + Mine(t, a)'
      BY <2>1, <2>2, <2>4, <3>1, <3>2 DEF Counted, Mine
    <3> QED BY <3>3
  <2> QED BY <2>3, <2>4
<1>2. Accounting'
  BY <1>1, AccountingStep DEF Memory
<1>3. Protected'
  <2>1. /\ pc[t] = "check" /\ pc'[t] \in {"idle", "read_lock"}
        /\ storage' = storage
    BY DEF Control, Types, CallTypes
  <2> HIDE DEF Revalidate
  <2>2. \A x : Held(x) => Held(x)'
    BY <2>1 DEF Held, OnlyOf
  <2> QED BY <2>1, <2>2 DEF Memory, Protected, OnlyOf
<1>4. Fresh'
  BY DEF Memory, Fresh, Control, Types, CallTypes
<1> QED BY <1>2, <1>3, <1>4 DEF Memory

(* The reference of load_full passes to the cache, which drops its former
   one: Memory is kept. *)
LEMMA CacheFillMemory ==
  ASSUME Control, Control', Memory, NEW t \in Threads, OnlyOf(t),
         CacheFill(t)
  PROVE  Memory'
<1> USE DEF CacheFill
<1>0. cur[t] \in Objects
  BY Pointers
<1>1. ASSUME NEW a \in Objects
      PROVE  Counted(a)' + Mine(t, a) = Counted(a) + Mine(t, a)'
  <2>1. pc[t] = "fill" /\ new[t] = None /\ old[t] = None /\ a # None
    BY Absent
  <2>2. cnt[a] \in Int /\ leaked[a] \in Nat
    BY DEF Control, Types, ObjectTypes
  <2>3. CASE cached[t] = None
    <3>1. /\ cnt'[a] = cnt[a]
          /\ leaked'[a] = leaked[a]
          /\ storage' = storage
      BY <1>0, <2>1, <2>3 DEF Control, Types, ObjectTypes
    <3>2. /\ pc'[t] = "idle" /\ cur'[t] = None /\ new'[t] = None
          /\ old'[t] = None /\ cached'[t] = cur[t]
      BY <1>0, <2>1, <2>3 DEF Control, Types, CallTypes, ObjectTypes
    <3> HIDE DEF CacheFill
    <3>3. Counted(a)' + Mine(t, a) = Counted(a) + Mine(t, a)'
      BY <1>0, <2>1, <2>2, <2>3, <3>1, <3>2 DEF Counted, Mine
    <3> QED BY <3>3
  <2>4. CASE cached[t] # None
    <3>1. /\ cnt'[a] = cnt[a] - (IF cached[t] = a THEN 1 ELSE 0)
          /\ leaked'[a] = leaked[a]
          /\ storage' = storage
      BY <1>0, <2>1, <2>4 DEF Control, Types, ObjectTypes
    <3>2. /\ pc'[t] = "idle" /\ cur'[t] = None /\ new'[t] = None
          /\ old'[t] = None /\ cached'[t] = cur[t]
      BY <1>0, <2>1, <2>4 DEF Control, Types, CallTypes, ObjectTypes
    <3> HIDE DEF CacheFill
    <3>3. Counted(a)' + Mine(t, a) = Counted(a) + Mine(t, a)'
      BY <1>0, <2>1, <2>2, <2>4, <3>1, <3>2 DEF Counted, Mine
    <3> QED BY <3>3
  <2> QED BY <2>3, <2>4
<1>2. Accounting'
  BY <1>1, AccountingStep DEF Memory
<1>3. Protected'
  BY <1>0 DEF Memory, Protected, Held, Control, Types, CallTypes, LockInv
<1>4. Fresh'
  BY <1>0 DEF Memory, Fresh, Control, Types, CallTypes
<1> QED BY <1>2, <1>3, <1>4 DEF Memory

(* The cache's reference and its count go together: Memory is kept. *)
LEMMA DropCacheMemory ==
  ASSUME Control, Control', Memory, NEW t \in Threads, OnlyOf(t),
         DropCache(t)
  PROVE  Memory'
<1> USE DEF DropCache, Call
<1>0. cached[t] \in Objects
  BY Pointers
<1>1. ASSUME NEW a \in Objects
      PROVE  Counted(a)' + Mine(t, a) = Counted(a) + Mine(t, a)'
  <2>1. /\ pc[t] = "idle" /\ cur[t] = None /\ new[t] = None /\ old[t] = None
        /\ a # None
    BY Absent
  <2>2. cnt[a] \in Int /\ leaked[a] \in Nat
    BY DEF Control, Types, ObjectTypes
  <2>3. /\ cnt'[a] = cnt[a] - (IF cached[t] = a THEN 1 ELSE 0)
        /\ leaked'[a] = leaked[a]
        /\ storage' = storage
    BY <1>0, <2>1 DEF Control, Types, ObjectTypes
  <2>4. /\ pc'[t] = "idle" /\ cur'[t] = cur[t] /\ new'[t] = new[t]
        /\ old'[t] = old[t] /\ cached'[t] = None
    BY <1>0, <2>1 DEF Control, Types, CallTypes, ObjectTypes
  <2> HIDE DEF DropCache
  <2>5. Counted(a)' + Mine(t, a) = Counted(a) + Mine(t, a)'
    BY <1>0, <2>1, <2>2, <2>3, <2>4 DEF Counted, Mine
  <2> QED BY <2>5
<1>2. Accounting'
  BY <1>1, AccountingStep DEF Memory
<1>3. Protected'
  BY <1>0 DEF Memory, Protected, Held, Control, Types, CallTypes, LockInv
<1>4. Fresh'
  BY <1>0 DEF Memory, Fresh, Control, Types, CallTypes
<1> QED BY <1>2, <1>3, <1>4 DEF Memory

(* Memory is kept by every step. *)
LEMMA MemoryStep ==
  ASSUME Control, Control', Memory, NEW t \in Threads, StartCall(t) \/ CallStep(t)
  PROVE  Memory'
BY OnlyOfStep, LoadMemory, ReadLockMemory, ReadMemory, LoadIncMemory,
   ReadUnlockMemory, DropCurMemory, StoreMemory, SwapMemory,
   WaitForReadersMemory, DropOldMemory, RcuClosureMemory, CasLockMemory,
   CasMemory, CasIncMemory, CasDropNewMemory, CasUnwindMemory,
   CasUnlockMemory, RcuCompareMemory, CacheLoadMemory, RevalidateMemory,
   CacheFillMemory, DropCacheMemory DEF StartCall, CallStep

-----------------------------------------------------------------------------
(* What a value to be stored is made of, by the object that rcu gave to its
   closure: that one is guarded, so that it is not another by now. *)
Updates ==
  /\ NoLostUpdate
  /\ \A t \in Threads :
       new[t] # None =>
         value[new[t]] = IF op[t] = "rcu" THEN value[cur[t]] + 1 ELSE 0

(* Nothing of a is stored after the i-th value of the storage. *)
NotAfter(a, i) == \A j \in 1..Len(order) : j > i => order[j] # a

(* A value that is cached, or about to be, has not been stored again since it
   was read. *)
Caching ==
  \A t \in Threads :
    /\ cached[t] # None => NotAfter(cached[t], cachedAt[t])
    /\ pc[t] \in {"inc", "read_unlock", "fill"} =>
         NotAfter(cur[t], from[t]) /\ seen[t] = from[t]

(* Most steps have nothing to do with values. *)
LEMMA UpdatesKept ==
  ASSUME Updates, NEW t \in Threads, OnlyOf(t),
         UNCHANGED <<storage, value, updates>>,
         \/ new'[t] = None
         \/ new'[t] = new[t] /\ op'[t] = op[t] /\ cur'[t] = cur[t]
  PROVE  Updates'
BY DEF Updates, NoLostUpdate, OnlyOf

(* Nor with what is cached. *)
LEMMA CachingKept ==
  ASSUME Caching, NEW t \in Threads, OnlyOf(t), UNCHANGED order,
         \/ cached'[t] = None
         \/ cached'[t] = cached[t] /\ cachedAt'[t] = cachedAt[t],
         \/ pc'[t] \notin {"inc", "read_unlock", "fill"}
         \/ /\ pc[t] \in {"inc", "read_unlock", "fill"}
            /\ cur'[t] = cur[t] /\ from'[t] = from[t] /\ seen'[t] = seen[t]
  PROVE  Caching'
BY DEF Caching, NotAfter, OnlyOf

(* Updates is kept: an allocation changes an object that nobody has, and a
   compare_and_swap that succeeds puts in a successor of what it takes out. *)
LEMMA UpdatesStep ==
  ASSUME Control, Memory, Updates, NEW t \in Threads, StartCall(t) \/ CallStep(t)
  PROVE  Updates'
<1> DEFINE Kept ==
      /\ UNCHANGED <<storage, value, updates>>
      /\ \/ new'[t] = None
         \/ new'[t] = new[t] /\ op'[t] = op[t] /\ cur'[t] = cur[t]
<1>0. OnlyOf(t)
  BY OnlyOfStep
<1>a. new[t] = None \/ pc[t] \in WithNew
  BY Absent
<1>1. Kept => Updates'
  BY <1>0, UpdatesKept
<1>2. (\E c \in ApiCalls : Load(t, c)) => Kept
  BY <1>a DEF Load, Call, Control, Types, CallTypes
<1>3. ReadLock(t) => Kept
  BY DEF ReadLock, Control, Types, CallTypes
<1>4. Read(t) => Kept
  BY <1>a DEF Read, Control, Types, CallTypes
<1>5. LoadInc(t) => Kept
  BY DEF LoadInc, Control, Types, CallTypes
<1>6. ReadUnlock(t) => Kept
  BY DEF ReadUnlock, Control, Types, CallTypes
<1>7. DropCur(t) => Kept
  BY <1>a DEF DropCur, Control, Types, CallTypes
<1>8. ASSUME NEW a \in Objects, Store(t, a)
      PROVE  Updates'
  <2>1. /\ storage # a /\ \A u \in Threads : cur[u] # a /\ new[u] # a
        /\ value' = [value EXCEPT ![a] = 0]
    BY <1>8, Unreferenced DEF Store, Call, Allocate
  <2>2. /\ new'[t] = a /\ op'[t] = "store" /\ cur'[t] = cur[t]
        /\ UNCHANGED <<storage, updates>>
    BY <1>8 DEF Store, Call, Allocate, Control, Types, CallTypes
  <2>3. /\ value'[a] = 0
        /\ \A b \in Objects \ {a} : value'[b] = value[b]
    BY <2>1 DEF Control, Types, ObjectTypes
  <2>4. \A u \in Threads : /\ new[u] # None => new[u] \in Objects
                          /\ op[u] = "rcu" /\ new[u] # None => cur[u] \in Objects
    BY DEF Control, Types, CallTypes, Shape, Stages
  <2>5. OnlyOf(t) /\ storage \in Objects
    BY <1>8, OnlyOfStep, Pointers, Absent DEF StartCall, CallStep, Store,
       Call, Allocate, Control, Stages
  <2>6. NoLostUpdate'
    BY <2>1, <2>2, <2>3, <2>5 DEF Updates, NoLostUpdate
  <2>7. ASSUME NEW u \in Threads, new'[u] # None
        PROVE  value'[new'[u]] = IF op'[u] = "rcu" THEN value'[cur'[u]] + 1 ELSE 0
    BY <2>1, <2>2, <2>3, <2>4, <2>5, <2>7 DEF Updates, OnlyOf
  <2> QED BY <2>6, <2>7 DEF Updates
<1>9. CASE Swap(t)
  <2>1. OnlyOf(t)
    BY <1>9, OnlyOfStep DEF StartCall, CallStep
  <2>2. new[t] # None
    BY <1>9, Absent, Pointers DEF Swap
  <2>3. new'[t] = None /\ UNCHANGED value /\ storage' = new[t]
    BY <1>9 DEF Swap, Publish, Control, Types, CallTypes
  <2>4. NoLostUpdate'
    BY <1>9, <2>2, <2>3 DEF Swap, Publish, Updates, NoLostUpdate, Control,
       Stages
  <2> QED BY <2>1, <2>3, <2>4 DEF Updates, OnlyOf
<1>10. WaitForReaders(t) => Kept
  BY DEF WaitForReaders, Control, Types, CallTypes
<1>11. DropOld(t) => Kept
  BY DEF DropOld, Control, Types, CallTypes
<1>12. ASSUME NEW a \in Objects, RcuClosure(t, a)
      PROVE  Updates'
  <2>1. /\ storage # a /\ \A u \in Threads : cur[u] # a /\ new[u] # a
        /\ value' = [value EXCEPT ![a] = value[cur[t]] + 1]
    BY <1>12, Unreferenced DEF RcuClosure, Allocate
  <2>2. /\ new'[t] = a /\ op'[t] = op[t] /\ cur'[t] = cur[t]
        /\ UNCHANGED <<storage, updates>>
    BY <1>12 DEF RcuClosure, Allocate, Control, Types, CallTypes
  <2>3. /\ value'[a] = value[cur[t]] + 1
        /\ \A b \in Objects \ {a} : value'[b] = value[b]
    BY <2>1 DEF Control, Types, ObjectTypes
  <2>4. \A u \in Threads : /\ new[u] # None => new[u] \in Objects
                          /\ op[u] = "rcu" /\ new[u] # None => cur[u] \in Objects
    BY DEF Control, Types, CallTypes, Shape, Stages
  <2>5. OnlyOf(t) /\ storage \in Objects /\ cur[t] \in Objects /\ op[t] = "rcu"
    BY <1>12, OnlyOfStep, Pointers, Absent DEF StartCall, CallStep,
       RcuClosure, Allocate, Control, Stages
  <2>6. NoLostUpdate'
    BY <2>1, <2>2, <2>3, <2>5 DEF Updates, NoLostUpdate
  <2>7. ASSUME NEW u \in Threads, new'[u] # None
        PROVE  value'[new'[u]] = IF op'[u] = "rcu" THEN value'[cur'[u]] + 1 ELSE 0
    BY <2>1, <2>2, <2>3, <2>4, <2>5, <2>7 DEF Updates, OnlyOf
  <2> QED BY <2>6, <2>7 DEF Updates
<1>13. CasLock(t) => Kept
  BY DEF CasLock, Control, Types, CallTypes
<1>14. CASE Cas(t)
  <2>a. CASE storage = cur[t]
    <3>1. OnlyOf(t)
      BY <1>14, OnlyOfStep DEF StartCall, CallStep
    <3>2. new[t] # None
      BY <1>14, Absent, Pointers DEF Cas
    <3>3. new'[t] = None /\ UNCHANGED value /\ storage' = new[t]
      BY <1>14, <2>a DEF Cas, Publish, Control, Types, CallTypes
    <3>4. NoLostUpdate'
      BY <1>14, <2>a, <3>2, <3>3 DEF Cas, Publish, Updates, NoLostUpdate,
         Control, Stages
    <3> QED BY <3>1, <3>3, <3>4 DEF Updates, OnlyOf
  <2>b. CASE storage # cur[t]
    <3>1. OnlyOf(t)
      BY <1>14, OnlyOfStep DEF StartCall, CallStep
    <3>2. /\ UNCHANGED <<storage, value, updates>>
          /\ new'[t] = new[t] /\ op'[t] = op[t] /\ cur'[t] = cur[t]
      BY <1>14, <2>b DEF Cas
    <3> QED BY <3>1, <3>2, UpdatesKept
  <2> QED BY <2>a, <2>b
<1>15. CasInc(t) => Kept
  BY DEF CasInc, Control, Types, CallTypes
<1>16. CasDropNew(t) => Kept
  BY DEF CasDropNew, Control, Types, CallTypes
<1>17. CasUnwind(t) => Kept
  BY DEF CasUnwind, Control, Types, CallTypes
<1>18. CasUnlock(t) => Kept
  BY DEF CasUnlock, Control, Types, CallTypes
<1>19. RcuCompare(t) => Kept
  BY <1>a DEF RcuCompare, Control, Types, CallTypes
<1>20. CacheLoad(t) => Kept
  BY <1>a DEF CacheLoad, Call, Control, Types, CallTypes
<1>21. Revalidate(t) => Kept
  BY DEF Revalidate, Control, Types, CallTypes
<1>22. CacheFill(t) => Kept
  BY DEF CacheFill, Control, Types, CallTypes
<1>23. DropCache(t) => Kept
  BY DEF DropCache, Call, Control, Types, CallTypes
<1> HIDE DEF Kept
<1> QED BY <1>1, <1>2, <1>3, <1>4, <1>5, <1>6, <1>7, <1>8, <1>9, <1>10,
   <1>11, <1>12, <1>13, <1>14, <1>15, <1>16, <1>17, <1>18, <1>19, <1>20,
   <1>21, <1>22, <1>23 DEF StartCall, CallStep

(* Caching is kept: what is stored was in nobody's hands. *)
LEMMA CachingStep ==
  ASSUME Control, Memory, Caching, NEW t \in Threads, StartCall(t) \/ CallStep(t)
  PROVE  Caching'
<1> DEFINE Kept ==
      /\ UNCHANGED order
      /\ \/ cached'[t] = None
         \/ cached'[t] = cached[t] /\ cachedAt'[t] = cachedAt[t]
      /\ \/ pc'[t] \notin {"inc", "read_unlock", "fill"}
         \/ /\ pc[t] \in {"inc", "read_unlock", "fill"}
            /\ cur'[t] = cur[t] /\ from'[t] = from[t] /\ seen'[t] = seen[t]
<1>0. OnlyOf(t)
  BY OnlyOfStep
<1>1. Kept => Caching'
  BY <1>0, CachingKept
<1>2. (\E c \in ApiCalls : Load(t, c)) => Kept
  BY DEF Load, Call, Control, Types, CallTypes, ObjectTypes
<1>3. ReadLock(t) => Kept
  BY DEF ReadLock, Control, Types, CallTypes, ObjectTypes
<1>4. CASE Read(t)
  <2>1. OnlyOf(t)
    BY <1>4, OnlyOfStep DEF StartCall, CallStep
  <2>2. /\ UNCHANGED <<order, cached, cachedAt>>
        /\ from'[t] = Len(order) /\ seen'[t] = Len(order)
    BY <1>4 DEF Read, Control, Types, HistoryTypes
  <2>3. Len(order) \in Nat
    BY Pointers
  <2> QED BY <2>1, <2>2, <2>3 DEF Caching, NotAfter, OnlyOf
<1>5. LoadInc(t) => Kept
  BY DEF LoadInc, Control, Types, CallTypes, ObjectTypes
<1>6. ReadUnlock(t) => Kept
  BY DEF ReadUnlock, Control, Types, CallTypes, ObjectTypes
<1>7. DropCur(t) => Kept
  BY DEF DropCur, Control, Types, CallTypes, ObjectTypes
<1>8. (\E a \in Objects : Store(t, a)) => Kept
  BY DEF Store, Call, Allocate, Control, Types, CallTypes, ObjectTypes
<1>9. CASE Swap(t)
  <2>1. OnlyOf(t) /\ new[t] \in Objects /\ order \in Seq(Objects)
    BY <1>9, OnlyOfStep, Pointers DEF Swap, StartCall, CallStep
  <2>2. /\ order' = Append(order, new[t]) /\ cached' = cached
        /\ cachedAt' = cachedAt
        /\ pc'[t] \notin {"inc", "read_unlock", "fill"}
    BY <1>9 DEF Swap, Publish, Control, Types, CallTypes
  <2>3. \A u \in Threads : cached[u] # new[t] /\ cur[u] # new[t]
    BY <2>1 DEF Memory, Fresh, Objects
  <2>4. ASSUME NEW u \in Threads, cached[u] # None
        PROVE  NotAfter(cached[u], cachedAt[u])'
    <3>1. NotAfter(cached[u], cachedAt[u])
      BY <2>4 DEF Caching
    <3>2. \A j \in 1..Len(order') : j > cachedAt[u] => order'[j] # cached[u]
      BY <3>1, <2>1, <2>2, <2>3 DEF NotAfter
    <3> QED BY <3>2, <2>2 DEF NotAfter
  <2>5. ASSUME NEW u \in Threads \ {t}, pc[u] \in {"inc", "read_unlock", "fill"}
        PROVE  NotAfter(cur[u], from[u])' /\ seen'[u] = from'[u]
    <3>1. NotAfter(cur[u], from[u]) /\ seen[u] = from[u]
      BY <2>5 DEF Caching
    <3>2. \A j \in 1..Len(order') : j > from[u] => order'[j] # cur[u]
      BY <3>1, <2>1, <2>2, <2>3 DEF NotAfter
    <3> QED BY <3>1, <3>2, <2>1 DEF NotAfter, OnlyOf
  <2> QED BY <2>1, <2>2, <2>4, <2>5 DEF Caching, OnlyOf
<1>10. WaitForReaders(t) => Kept
  BY DEF WaitForReaders, Control, Types, CallTypes, ObjectTypes
<1>11. DropOld(t) => Kept
  BY DEF DropOld, Control, Types, CallTypes, ObjectTypes
<1>12. (\E a \in Objects : RcuClosure(t, a)) => Kept
  BY DEF RcuClosure, Allocate, Control, Types, CallTypes, ObjectTypes
<1>13. CasLock(t) => Kept
  BY DEF CasLock, Control, Types, CallTypes, ObjectTypes
<1>14. CASE Cas(t)
  <2>a. CASE storage = cur[t]
    <3>1. OnlyOf(t) /\ new[t] \in Objects /\ order \in Seq(Objects)
      BY <1>14, OnlyOfStep, Pointers DEF Cas, StartCall, CallStep
    <3>2. /\ order' = Append(order, new[t]) /\ cached' = cached
          /\ cachedAt' = cachedAt
          /\ pc'[t] \notin {"inc", "read_unlock", "fill"}
      BY <1>14, <2>a DEF Cas, Publish, Control, Types, CallTypes
    <3>3. \A u \in Threads : cached[u] # new[t] /\ cur[u] # new[t]
      BY <3>1 DEF Memory, Fresh, Objects
    <3>4. ASSUME NEW u \in Threads, cached[u] # None
          PROVE  NotAfter(cached[u], cachedAt[u])'
      <4>1. NotAfter(cached[u], cachedAt[u])
        BY <3>4 DEF Caching
      <4>2. \A j \in 1..Len(order') : j > cachedAt[u] => order'[j] # cached[u]
        BY <4>1, <3>1, <3>2, <3>3 DEF NotAfter
      <4> QED BY <4>2, <3>2 DEF NotAfter
    <3>5. ASSUME NEW u \in Threads \ {t}, pc[u] \in {"inc", "read_unlock", "fill"}
          PROVE  NotAfter(cur[u], from[u])' /\ seen'[u] = from'[u]
      <4>1. NotAfter(cur[u], from[u]) /\ seen[u] = from[u]
        BY <3>5 DEF Caching
      <4>2. \A j \in 1..Len(order') : j > from[u] => order'[j] # cur[u]
        BY <4>1, <3>1, <3>2, <3>3 DEF NotAfter
      <4> QED BY <4>1, <4>2, <3>1 DEF NotAfter, OnlyOf
    <3> QED BY <3>1, <3>2, <3>4, <3>5 DEF Caching, OnlyOf
  <2>b. CASE storage # cur[t]
    <3>1. OnlyOf(t)
      BY <1>14, OnlyOfStep DEF StartCall, CallStep
    <3>2. /\ UNCHANGED <<order, cached, cachedAt>>
          /\ pc'[t] \notin {"inc", "read_unlock", "fill"}
      BY <1>14, <2>b DEF Cas, Control, Types, CallTypes
    <3> QED BY <3>1, <3>2, CachingKept
  <2> QED BY <2>a, <2>b
<1>15. CasInc(t) => Kept
  BY DEF CasInc, Control, Types, CallTypes, ObjectTypes
<1>16. CasDropNew(t) => Kept
  BY DEF CasDropNew, Control, Types, CallTypes, ObjectTypes
<1>17. CasUnwind(t) => Kept
  BY DEF CasUnwind, Control, Types, CallTypes, ObjectTypes
<1>18. CasUnlock(t) => Kept
  BY DEF CasUnlock, Control, Types, CallTypes, ObjectTypes
<1>19. RcuCompare(t) => Kept
  BY DEF RcuCompare, Control, Types, CallTypes, ObjectTypes
<1>20. CacheLoad(t) => Kept
  BY DEF CacheLoad, Call, Control, Types, CallTypes, ObjectTypes
<1>21. Revalidate(t) => Kept
  BY DEF Revalidate, Control, Types, CallTypes, ObjectTypes
<1>22. CASE CacheFill(t)
  <2>1. OnlyOf(t)
    BY <1>22, OnlyOfStep DEF StartCall, CallStep
  <2>2. /\ UNCHANGED order /\ pc[t] = "fill" /\ pc'[t] = "idle"
        /\ cached'[t] = cur[t] /\ cachedAt'[t] = from[t]
    BY <1>22 DEF CacheFill, Control, Types, CallTypes, ObjectTypes,
       HistoryTypes
  <2> QED BY <2>1, <2>2 DEF Caching, NotAfter, OnlyOf
<1>23. DropCache(t) => Kept
  BY DEF DropCache, Call, Control, Types, CallTypes, ObjectTypes
<1> HIDE DEF Kept
<1> QED BY <1>1, <1>2, <1>3, <1>4, <1>5, <1>6, <1>7, <1>8, <1>9, <1>10,
   <1>11, <1>12, <1>13, <1>14, <1>15, <1>16, <1>17, <1>18, <1>19, <1>20,
   <1>21, <1>22, <1>23 DEF StartCall, CallStep

-----------------------------------------------------------------------------
IInv == Control /\ Memory /\ Updates /\ Caching

(* At the beginning the storage has the only reference. *)
LEMMA InitIInv == Init => IInv
<1> SUFFICES ASSUME Init PROVE IInv
  OBVIOUS
<1>1. Control
  BY InitControl
<1>2. Accounting
  <2> SUFFICES ASSUME NEW a \in Objects
               PROVE  cnt[a] = (IF storage = a THEN 1 ELSE 0) + leaked[a]
                               + References(a)
    BY DEF Accounting
  <2>1. a # None
    BY DEF Objects
  <2>2. InCur(a) = {} /\ InNew(a) = {} /\ InOld(a) = {} /\ InCache(a) = {}
    BY <2>1 DEF Init, InCur, InNew, InOld, InCache
  <2>3. References(a) = 0
    BY <2>2, FS_EmptySet DEF References
  <2> QED BY <2>3 DEF Init
<1>3. Protected /\ Fresh
  BY DEF Init, Protected, Fresh
<1>4. Updates
  BY DEF Init, Updates, NoLostUpdate, Objects
<1>5. Caching
  BY DEF Init, Caching
<1> QED BY <1>1, <1>2, <1>3, <1>4, <1>5 DEF IInv, Memory

(* IInv is inductive. *)
LEMMA NextIInv == IInv /\ [Next]_vars => IInv'
<1> SUFFICES ASSUME IInv, [Next]_vars PROVE IInv'
  OBVIOUS
<1>1. ASSUME NEW t \in Threads, StartCall(t) \/ CallStep(t)
      PROVE  IInv'
  <2>1. Control'
    BY <1>1, ControlStep DEF IInv
  <2>2. Memory'
    BY <1>1, <2>1, MemoryStep DEF IInv
  <2>3. Updates' /\ Caching'
    BY <1>1, UpdatesStep, CachingStep DEF IInv
  <2> QED BY <2>1, <2>2, <2>3 DEF IInv
<1>2. CASE UNCHANGED vars
  <2> USE <1>2 DEF vars
  <2>1. Control'
    <3>1. ObjectTypes' /\ LockTypes'
      BY DEF IInv, Control, Types, ObjectTypes, LockTypes
    <3>2. CallTypes' /\ HistoryTypes'
      BY DEF IInv, Control, Types, CallTypes, HistoryTypes
    <3>3. Shape' /\ Stages' /\ LockInv'
      BY DEF IInv, Control, Shape, Stages, LockInv
    <3> QED BY <3>1, <3>2, <3>3 DEF Control, Types
  <2>2. Memory'
    BY DEF IInv, Memory, Accounting, References, InCur, InNew, InOld, InCache,
           Protected, Held, Fresh
  <2>3. Updates' /\ Caching'
    BY DEF IInv, Updates, NoLostUpdate, Caching, NotAfter
  <2> QED BY <2>1, <2>2, <2>3 DEF IInv
<1> QED BY <1>1, <1>2 DEF Next, Quiet

(* IInv always holds. *)
THEOREM Invariance == Spec => []IInv
BY InitIInv, NextIInv, PTL DEF Spec

(* Every variable keeps its type; above all, no count goes below zero: nothing
   is dropped more often than it was counted, on any way out of swap, rcu,
   compare_and_swap and Cache, a panic included. *)
THEOREM TypeCorrect == Spec => []TypeOK
<1>1. IInv => TypeOK
  <2> SUFFICES ASSUME IInv PROVE TypeOK
    OBVIOUS
  <2>1. \A a \in Objects : cnt[a] \in Nat
    BY Referenced DEF IInv, Memory
  <2>2. cnt \in [Objects -> Nat]
    BY <2>1 DEF IInv, Control, Types, ObjectTypes
  <2> QED BY <2>2 DEF IInv, Control, Types, ObjectTypes, LockTypes, CallTypes,
                      HistoryTypes, TypeOK
<1> QED BY <1>1, Invariance, PTL

(* The strong count of every object is at every instant the number of
   references that exist, whatever the threads do. *)
THEOREM CountsExact == Spec => []Accounting
<1>1. IInv => Accounting
  BY DEF IInv, Memory
<1> QED BY <1>1, Invariance, PTL

(* load and a failed compare_and_swap never increment the count of an object
   that is gone, although the pointer is exchanged without the lock. *)
THEOREM SafeToCount == Spec => []NoUseAfterFree
<1>1. IInv => NoUseAfterFree
  <2> SUFFICES ASSUME IInv, NEW t \in Threads
               PROVE  /\ pc[t] = "inc" => cnt[cur[t]] > 0
                      /\ pc[t] = "cas_inc" => cnt[old[t]] > 0
    BY DEF NoUseAfterFree
  <2>1. ASSUME NEW a \in Objects, Held(a) PROVE cnt[a] > 0
    BY <2>1, Referenced DEF IInv, Memory, Held, Has
  <2>2. /\ pc[t] = "inc" => cur[t] \in Objects /\ Held(cur[t])
        /\ pc[t] = "cas_inc" => old[t] \in Objects /\ Held(old[t])
    BY Pointers DEF IInv, Memory, Protected
  <2> QED BY <2>1, <2>2
<1> QED BY <1>1, Invariance, PTL

(* The storage has counted every rcu that has taken effect: comparing pointers
   is enough, because the guard of rcu keeps the address from being used
   again. *)
THEOREM RcuCounts == Spec => []NoLostUpdate
<1>1. IInv => NoLostUpdate
  BY DEF IInv, Updates
<1> QED BY <1>1, Invariance, PTL

(* What Cache::load returns is not older than what its thread has seen: as long
   as it is cached, no other object can be at the cached address, so that the
   relaxed read of the pointer tells them apart. *)
THEOREM CacheIsCurrent == Spec => CacheReturnsSeen
<1>1. ASSUME IInv, Next, NEW t \in Threads, op[t] = "cache_load",
             pc[t] \in {"check", "fill"}, pc'[t] = "idle"
      PROVE  cachedAt'[t] >= seen'[t]
  <2>1. PICK u \in Threads : StartCall(u) \/ CallStep(u)
    BY <1>1 DEF Next, Quiet, vars
  <2>2. u = t
    BY <1>1, <2>1, OnlyOfStep DEF IInv, OnlyOf
  <2>3. CallStep(t)
    BY <1>1, <2>1, <2>2 DEF StartCall, Load, Store, CacheLoad, DropCache, Call
  <2>4. Revalidate(t) \/ CacheFill(t)
    BY <1>1, <2>3 DEF CallStep, ReadLock, Read, LoadInc, ReadUnlock, DropCur,
       Swap,
       WaitForReaders, DropOld, RcuClosure, CasLock, Cas, CasInc, CasDropNew,
       CasUnwind, CasUnlock, RcuCompare
  <2>5. CASE Revalidate(t)
    <3>1. PICK i \in seen[t]..Len(order) :
            seen'[t] = i /\ order[i] = cached[t]
      BY <1>1, <2>5 DEF Revalidate, IInv, Control, Types, CallTypes,
         HistoryTypes
    <3>2. cached[t] # None /\ cachedAt' = cachedAt
      BY <1>1, <2>5 DEF Revalidate, IInv, Control, Stages
    <3>3. /\ seen[t] \in 1..Len(order) /\ cachedAt[t] \in 1..Len(order)
          /\ Len(order) \in Nat
      BY <1>1 DEF IInv, Control, Types, HistoryTypes
    <3> QED BY <1>1, <3>1, <3>2, <3>3 DEF IInv, Caching, NotAfter
  <2>6. CASE CacheFill(t)
    <3>1. /\ cachedAt'[t] = from[t] /\ seen' = seen
          /\ seen[t] = from[t] /\ from[t] \in Nat
      BY <1>1, <2>6 DEF CacheFill, IInv, Control, Types, HistoryTypes, Caching
    <3> QED BY <3>1
  <2> QED BY <2>4, <2>5, <2>6
<1>2. IInv /\ [Next]_vars =>
        [\A t \in Threads :
           (/\ op[t] = "cache_load" /\ pc[t] \in {"check", "fill"}
            /\ pc'[t] = "idle")
             => cachedAt'[t] >= seen'[t]]_vars
  BY <1>1
<1> QED BY <1>2, Invariance, PTL DEF Spec, CacheReturnsSeen

-----------------------------------------------------------------------------
(* The variables of Strategy, thread by thread. *)
ReadingOf(t) ==
  IF At(t, "inc") THEN cur[t] ELSE IF At(t, "cas_inc") THEN old[t] ELSE None
RemovedBy(t) ==
  IF At(t, "write_lock") \/ (At(t, "cas_unlock") /\ old[t] = cur[t])
  THEN old[t] ELSE None

(* Nobody has read the pointer and not counted it while the lock is free of
   readers and no other writer has it. *)
LEMMA NobodyReading ==
  ASSUME Control, NEW t \in Threads, readers = {}, writer \subseteq {t},
         pc[t] # "cas_inc"
  PROVE  \A u \in Threads : ReadingOf(u) = None
BY DEF Control, LockInv, ReadingOf

(* The five things a step may be for Strategy, by what it does to the variables
   of the thread that makes it. *)
LEMMA StrategySteps ==
  ASSUME NEW t \in Threads, OnlyOf(t)
  PROVE  /\ /\ storage' = storage
            /\ ReadingOf(t)' = ReadingOf(t) /\ RemovedBy(t)' = RemovedBy(t)
            => UNCHANGED Abstract!vars
         /\ /\ storage' = storage /\ ReadingOf(t) = None
            /\ ReadingOf(t)' = storage /\ RemovedBy(t)' = RemovedBy(t)
            => Abstract!Read(t)
         /\ /\ storage' = storage /\ ReadingOf(t) # None
            /\ ReadingOf(t)' = None /\ RemovedBy(t)' = RemovedBy(t)
            => Abstract!Protect(t)
         /\ /\ ReadingOf(t)' = ReadingOf(t) /\ RemovedBy(t) = None
            /\ RemovedBy(t)' = storage
            => Abstract!Exchange(t, storage')
         /\ /\ storage' = storage /\ RemovedBy(t) # None
            /\ \A u \in Threads : ReadingOf(u) # RemovedBy(t)
            /\ ReadingOf(t)' = ReadingOf(t) /\ RemovedBy(t)' = None
            => Abstract!WaitForReaders(t)
<1> DEFINE reads == [u \in Threads |-> ReadingOf(u)]
           removes == [u \in Threads |-> RemovedBy(u)]
<1>1. \A u \in Threads \ {t} :
        ReadingOf(u)' = ReadingOf(u) /\ RemovedBy(u)' = RemovedBy(u)
  BY DEF OnlyOf, ReadingOf, RemovedBy
<1>2. reads' = [reads EXCEPT ![t] = ReadingOf(t)']
  BY <1>1
<1>3. removes' = [removes EXCEPT ![t] = RemovedBy(t)']
  BY <1>1
<1>4. /\ ReadingOf(t)' = ReadingOf(t) => reads' = reads
      /\ RemovedBy(t)' = RemovedBy(t) => removes' = removes
  BY <1>1
<1> USE DEF Abstract!vars, Abstract!Read, Abstract!Protect, Abstract!Exchange,
            Abstract!WaitForReaders
<1> QED BY <1>2, <1>3, <1>4 DEF ReadingOf, RemovedBy

(* Every step of the RwLock strategy is one of these. *)
LEMMA StrategyStep ==
  ASSUME Control, Control', NEW t \in Threads, StartCall(t) \/ CallStep(t)
  PROVE  Abstract!Next \/ UNCHANGED Abstract!vars
<1> DEFINE Stutter == /\ storage' = storage /\ ReadingOf(t)' = ReadingOf(t)
                      /\ RemovedBy(t)' = RemovedBy(t)
           Reads == /\ storage' = storage /\ ReadingOf(t) = None
                    /\ ReadingOf(t)' = storage /\ RemovedBy(t)' = RemovedBy(t)
           Protects == /\ storage' = storage /\ ReadingOf(t) # None
                       /\ ReadingOf(t)' = None /\ RemovedBy(t)' = RemovedBy(t)
           Exchanges == /\ ReadingOf(t)' = ReadingOf(t) /\ RemovedBy(t) = None
                        /\ RemovedBy(t)' = storage /\ storage' \in Objects
           Waits == /\ storage' = storage /\ RemovedBy(t) # None
                    /\ \A u \in Threads : ReadingOf(u) # RemovedBy(t)
                    /\ ReadingOf(t)' = ReadingOf(t) /\ RemovedBy(t)' = None
           Ok == Stutter \/ Reads \/ Protects \/ Exchanges \/ Waits
<1>0. OnlyOf(t)
  BY OnlyOfStep
<1>1. Ok => Abstract!Next \/ UNCHANGED Abstract!vars
  <2>1. /\ Stutter => UNCHANGED Abstract!vars
        /\ Reads => Abstract!Read(t)
        /\ Protects => Abstract!Protect(t)
        /\ Exchanges => Abstract!Exchange(t, storage')
        /\ Waits => Abstract!WaitForReaders(t)
    BY <1>0, StrategySteps
  <2>2. Exchanges => storage' \in Objects
    OBVIOUS
  <2> HIDE DEF Stutter, Reads, Protects, Exchanges, Waits
  <2>3. Exchanges => \E x \in Objects : Abstract!Exchange(t, x)
    BY <2>1, <2>2 DEF Abstract!Exchange
  <2>4. Reads \/ Protects \/ Waits => Abstract!Next
    BY <2>1 DEF Abstract!Next
  <2>5. Exchanges => Abstract!Next
    BY <2>3 DEF Abstract!Next
  <2> QED BY <2>1, <2>4, <2>5
<1>2. /\ storage \in Objects /\ None \notin Objects
      /\ pc[t] \in WithCur => cur[t] \in Objects
      /\ pc[t] \in WithNew => new[t] \in Objects
      /\ pc[t] \in WithOld => old[t] \in Objects
  BY Pointers, Absent
<1> USE DEF ReadingOf, RemovedBy
<1>3. (\E c \in ApiCalls : Load(t, c)) => Stutter
  BY <1>2 DEF Load, Call, Control, Types, CallTypes
<1>4. ReadLock(t) => Stutter
  BY <1>2 DEF ReadLock, Control, Types, CallTypes
<1>5. Read(t) => Reads
  BY <1>2 DEF Read, Control, Types, CallTypes
<1>6. LoadInc(t) => Protects
  BY <1>2 DEF LoadInc, Control, Types, CallTypes
<1>7. ReadUnlock(t) => Stutter
  BY <1>2 DEF ReadUnlock, Control, Types, CallTypes
<1>8. DropCur(t) => Stutter
  BY <1>2 DEF DropCur, Control, Types, CallTypes
<1>9. (\E a \in Objects : Store(t, a)) => Stutter
  BY <1>2 DEF Store, Call, Allocate, Control, Types, CallTypes
<1>10. Swap(t) => Exchanges
  BY <1>2 DEF Swap, Publish, Control, Types, CallTypes
<1>11. WaitForReaders(t) => Waits
  <2> SUFFICES ASSUME WaitForReaders(t) PROVE Waits
    OBVIOUS
  <2>1. \A u \in Threads : ReadingOf(u) = None
    BY NobodyReading DEF WaitForReaders
  <2>2. /\ storage' = storage /\ ReadingOf(t)' = ReadingOf(t)
        /\ RemovedBy(t) = old[t] /\ RemovedBy(t)' = None
    BY <1>2 DEF WaitForReaders, Control, Types, CallTypes
  <2>3. old[t] # None
    BY <1>2 DEF WaitForReaders
  <2> HIDE DEF ReadingOf, RemovedBy
  <2> QED BY <2>1, <2>2, <2>3
<1>12. DropOld(t) => Stutter
  BY <1>2 DEF DropOld, Control, Types, CallTypes
<1>13. (\E a \in Objects : RcuClosure(t, a)) => Stutter
  BY <1>2 DEF RcuClosure, Allocate, Control, Types, CallTypes
<1>14. CasLock(t) => Stutter
  BY <1>2 DEF CasLock, Control, Types, CallTypes
<1>15. Cas(t) => Exchanges \/ Reads
  BY <1>2 DEF Cas, Publish, Control, Types, CallTypes
<1>16. CasInc(t) => Protects
  BY <1>2 DEF CasInc, Control, Types, CallTypes
<1>17. CasDropNew(t) => Stutter
  <2> SUFFICES ASSUME CasDropNew(t) PROVE Stutter
    OBVIOUS
  <2>1. old[t] # cur[t]
    BY DEF CasDropNew, Control, Stages
  <2> QED BY <2>1 DEF CasDropNew, Control, Types, CallTypes
<1>18. CasUnwind(t) => Stutter
  BY <1>2 DEF CasUnwind, Control, Types, CallTypes
<1>19. CasUnlock(t) => Waits \/ Stutter
  <2> SUFFICES ASSUME CasUnlock(t) PROVE Waits \/ Stutter
    OBVIOUS
  <2>1. readers = {} /\ writer \subseteq {t}
    BY DEF CasUnlock, Control, LockInv
  <2>2. \A u \in Threads : ReadingOf(u) = None
    BY <2>1, NobodyReading DEF CasUnlock
  <2>3. /\ storage' = storage /\ ReadingOf(t)' = ReadingOf(t)
        /\ RemovedBy(t) = (IF old[t] = cur[t] THEN old[t] ELSE None)
        /\ RemovedBy(t)' = None
    BY DEF CasUnlock, Control, Types, CallTypes
  <2>4. cur[t] # None
    BY <1>2 DEF CasUnlock
  <2> HIDE DEF ReadingOf, RemovedBy
  <2> QED BY <2>2, <2>3, <2>4
<1>20. RcuCompare(t) => Stutter
  BY <1>2 DEF RcuCompare, Control, Types, CallTypes
<1>21. CacheLoad(t) => Stutter
  BY <1>2 DEF CacheLoad, Call, Control, Types, CallTypes
<1>22. Revalidate(t) => Stutter
  BY <1>2 DEF Revalidate, Control, Types, CallTypes
<1>23. CacheFill(t) => Stutter
  BY <1>2 DEF CacheFill, Control, Types, CallTypes
<1>24. DropCache(t) => Stutter
  BY <1>2 DEF DropCache, Call, Control, Types, CallTypes
<1> HIDE DEF Stutter, Reads, Protects, Exchanges, Waits
<1> QED BY <1>1, <1>3, <1>4, <1>5, <1>6, <1>7, <1>8, <1>9, <1>10, <1>11,
   <1>12, <1>13, <1>14, <1>15, <1>16, <1>17, <1>18, <1>19, <1>20, <1>21,
   <1>22, <1>23, <1>24 DEF StartCall, CallStep

(* The RwLock strategy is a strategy. *)
THEOREM RwLockIsStrategy == Spec => ImplementsStrategy
<1>1. Init => Abstract!Init
  BY DEF Init, Abstract!Init, Objects
<1>2. IInv /\ IInv' /\ [Next]_vars => [Abstract!Next]_(Abstract!vars)
  <2> SUFFICES ASSUME IInv, IInv', [Next]_vars
               PROVE  [Abstract!Next]_(Abstract!vars)
    OBVIOUS
  <2>1. CASE UNCHANGED vars
    BY <2>1 DEF vars, Abstract!vars
  <2>2. ASSUME NEW t \in Threads, StartCall(t) \/ CallStep(t)
        PROVE  [Abstract!Next]_(Abstract!vars)
    BY <2>2, StrategyStep DEF IInv
  <2> QED BY <2>1, <2>2 DEF Next, Quiet
<1> QED BY <1>1, <1>2, Invariance, PTL DEF Spec, ImplementsStrategy, Abstract!Spec
=============================================================================
