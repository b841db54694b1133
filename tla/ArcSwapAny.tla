----------------------------- MODULE ArcSwapAny -----------------------------
(***************************************************************************)
(* The public interface of arc-swap, seen by the programs that use it: a   *)
(* storage of any of the pointer types of RefCnt, the guards and pointers  *)
(* that its operations hand out, the accesses of src/src/access.rs built   *)
(* on top of it and the caches of src/src/cache.rs.                        *)
(*                                                                         *)
(* An operation is one step, which is what a strategy promises of it       *)
(* (LoadLinearizable and Accounting of HybridStrategy, ImplementsStrategy  *)
(* of RwLockStrategy); a guard is one reference, whether it is a debt or a *)
(* count.  What is left to get wrong is who owns which reference, and that *)
(* the code compares addresses where it means objects: the allocator gives *)
(* out an address again as soon as nothing is left of the object there.    *)
(*                                                                         *)
(* Every holder of a pointer remembers, as a history, the number of the    *)
(* object that the pointer was made for.                                   *)
(***************************************************************************)
EXTENDS RefCnt, Sequences, FiniteSets, SequencesExt

CONSTANTS
  Places,      \* where the program keeps its pointers and guards
  Caches,      \* where it keeps its caches
  Accesses     \* the accesses in use: the wrappers around the storage

Wrappers == {"Ref", "Direct", "Map", "Dyn"}

ASSUME AccessesAssumption == Accesses \subseteq Seq(Wrappers)
ASSUME FiniteAssumption ==
  IsFiniteSet(Addrs) /\ IsFiniteSet(Places) /\ IsFiniteSet(Caches)
ASSUME AddrsAssumption == Null \notin Addrs /\ None \notin Addrs /\ Dangling \notin Addrs

VARIABLES
  heap,      \* the counts of every address and the object that lives there
  storage,   \* the ArcSwapAny: its type and ptr, and as a history what was
             \* stored; Empty when there is none
  held,      \* the pointers and guards of the program
  cache,     \* Cache and MapCache: cached, and whether there is a projection
  last       \* history: what the last comparison of addresses has decided,
             \* and what a comparison of objects would have

vars == <<heap, storage, held, cache, last>>

Empty == [form |-> "empty"]
NoComparison == [op |-> "none"]

(* form: an owned smart pointer, a guard, or a raw pointer, which has no
   reference; layers: what a guard is wrapped in. *)
Holding(form, layers, x, id) == [form |-> form, layers |-> layers, val |-> x, id |-> id]
Owned(x, id) == Holding("owned", <<>>, x, id)
Guard(x, id) == Holding("guard", <<>>, x, id)

Forms == {"owned", "guard", "raw"}
(* Enough for every holder of a pointer to remember another object. *)
Ids == 0..(Cardinality(Places) + Cardinality(Caches) + Cardinality(Addrs) + 2)

Init ==
  /\ heap = [a \in Addrs |-> Free]
  /\ storage = Empty
  /\ held = [h \in Places |-> Empty]
  /\ cache = [c \in Caches |-> Empty]
  /\ last = NoComparison

-----------------------------------------------------------------------------
Exists == storage # Empty
Full(h) == held[h] # Empty
IsOwned(h) == Full(h) /\ held[h].form = "owned"
IsGuard(h) == Full(h) /\ held[h].form = "guard"
Plain(h) == Full(h) /\ held[h].layers = <<>>    \* not wrapped by an access

(* What is in the storage, as the smart pointer it was. *)
Inside == from_ptr(storage.type, storage.ptr)

(* A value of type T for an operation, and the place it is moved out of: a
   pointer of the program, or one made for the call (None, Weak::new()). *)
Arguments(T) ==
  {[val |-> [held[h].val EXCEPT !.type = T], id |-> held[h].id, from |-> {h}] :
     h \in {p \in Places : IsOwned(p) /\ <<held[p].val.type, T>> \in
                             {<<T, T>>, <<"Arc", "Option">>}}}
  \cup {[val |-> x, id |-> Nothing, from |-> {}] :
          x \in {y \in Pointers(T) : y.at \notin Addrs}}

(* held, once the places in from are moved out of and x is put into h. *)
Moved(from) == [h \in Places |-> IF h \in from THEN Empty ELSE held[h]]
Into(h, from, x) ==
  /\ Moved(from)[h] = Empty
  /\ held' = [Moved(from) EXCEPT ![h] = x]

Stored(T, arg) ==
  storage' = [form |-> "storage", type |-> T, ptr |-> as_ptr(arg.val),
              val |-> arg.val, id |-> arg.id]

-----------------------------------------------------------------------------
(* The smart pointers themselves. *)

(* The numbers of objects that somebody remembers; any other may stand for a
   new object. *)
Remembered ==
  {Nothing} \cup {held[h].id : h \in {p \in Places : Full(p)}}
  \cup {cache[c].id : c \in {k \in Caches : cache[k] # Empty}}
  \cup {heap[a].id : a \in Addrs}
  \cup (IF Exists THEN {storage.id} ELSE {})

(* The least of them is taken. *)
IsNew(i) == LET others == Ids \ Remembered IN i \in others /\ \A j \in others : i =< j

(* Arc::new, at an address of which nothing is left. *)
ArcNew(h, a) ==
  /\ heap[a] = Free
  /\ \E new \in Ids :
    /\ IsNew(new)
    /\ heap' = [heap EXCEPT ![a] = [strong |-> 1, weak |-> 0, id |-> new]]
    /\ Into(h, {}, Owned([type |-> "Arc", at |-> a], new))
    /\ UNCHANGED <<storage, cache>>

(* Clone::clone, of a pointer or through the Deref of a guard; Constant::load
   makes a guard of the clone. *)
Clone(h, d, form) ==
  /\ Plain(h) /\ held[h].form # "raw"
  /\ heap' = inc(heap, held[h].val)
  /\ Into(d, {}, Holding(form, <<>>, held[h].val, held[h].id))
  /\ UNCHANGED <<storage, cache>>

(* Arc::downgrade and Weak::upgrade. *)
Downgrade(h, d) ==
  /\ IsOwned(h) /\ held[h].val.type = "Arc"
  /\ LET w == [type |-> "Weak", at |-> held[h].val.at] IN
       heap' = inc(heap, w) /\ Into(d, {}, Owned(w, held[h].id))
  /\ UNCHANGED <<storage, cache>>

Upgrade(h, d) ==
  /\ IsOwned(h) /\ held[h].val.type = "Weak" /\ held[h].val.at \in Addrs
  /\ heap[held[h].val.at].strong > 0
  /\ LET x == [type |-> "Arc", at |-> held[h].val.at] IN
       heap' = inc(heap, x) /\ Into(d, {}, Owned(x, held[h].id))
  /\ UNCHANGED <<storage, cache>>

(* The program keeps the address of a pointer, and nothing else. *)
AsRaw(h, d) ==
  /\ Plain(h)
  /\ Into(d, {}, Holding("raw", <<>>, held[h].val, held[h].id))
  /\ UNCHANGED <<heap, storage, cache>>

(* A pointer, a guard with all it is wrapped in, or a raw pointer is dropped. *)
Drop(h) ==
  /\ Full(h)
  /\ heap' = IF held[h].form = "raw" THEN heap ELSE dec(heap, held[h].val)
  /\ held' = Moved({h})
  /\ UNCHANGED <<storage, cache>>

-----------------------------------------------------------------------------
(* The storage. *)

(* with_strategy, and what ends there: new, from, default, empty. *)
New(T, arg) ==
  /\ ~Exists
  /\ Stored(T, arg)
  /\ held' = Moved(arg.from)
  /\ UNCHANGED <<heap, cache>>

(* The guards that the wrappers of acc put around the one of the storage; a
   reference to an access is only followed. *)
Layers(acc) == SelectSeq(acc, LAMBDA w : w # "Ref")

(* Access::load through acc: the innermost one loads from the storage, each of
   the others puts its own guard around.  Without a wrapper it is
   ArcSwapAny::load.  Only the guard of an Arc goes through to the object
   (DirectDeref); a projection may be of any storage.  What a projection
   returns is borrowed from the guard for as long as it is used. *)
Load(acc, h) ==
  /\ Exists
  /\ "Direct" \in ToSet(acc) => storage.type = "Arc"
  /\ heap' = inc(heap, Inside)
  /\ Into(h, {}, Holding("guard", Layers(acc), Inside, storage.id))
  /\ UNCHANGED <<storage, cache>>

LoadFull(h) ==
  /\ Exists
  /\ heap' = inc(heap, Inside)
  /\ Into(h, {}, Owned(Inside, storage.id))
  /\ UNCHANGED <<storage, cache>>

(* A mutant of IntoInner: the reference is released with the guard. *)
IntoInnerReleasing(h) ==
  /\ IsGuard(h) /\ Plain(h)
  /\ held' = [held EXCEPT ![h].form = "owned"]
  /\ heap' = dec(heap, held[h].val)
  /\ UNCHANGED <<storage, cache>>

(* Guard::into_inner and from_inner: the reference stays with the value. *)
IntoInner(h) ==
  /\ IsGuard(h) /\ Plain(h)
  /\ held' = [held EXCEPT ![h].form = "owned"]
  /\ UNCHANGED <<heap, storage, cache>>

FromInner(h) ==
  /\ IsOwned(h)
  /\ held' = [held EXCEPT ![h].form = "guard"]
  /\ UNCHANGED <<heap, storage, cache>>

(* A mutant of Swap: the old value is dropped and returned. *)
SwapDropping(arg, h) ==
  /\ Exists
  /\ Stored(storage.type, arg)
  /\ Into(h, arg.from, Owned(Inside, storage.id))
  /\ heap' = dec(heap, Inside)
  /\ UNCHANGED cache

Swap(arg, h) ==
  /\ Exists
  /\ Stored(storage.type, arg)
  /\ Into(h, arg.from, Owned(Inside, storage.id))
  /\ UNCHANGED <<heap, cache>>

Store(arg) ==
  /\ Exists
  /\ Stored(storage.type, arg)
  /\ held' = Moved(arg.from)
  /\ heap' = dec(heap, Inside)
  /\ UNCHANGED cache

(* A mutant of NotSwapped: the value that did not go in is leaked. *)
NotSwappedLeaking(arg) == inc(heap, Inside)

(* The exchange has failed: what is inside gets one more reference, for the
   guard that is returned, and the new value is dropped. *)
NotSwapped(arg) == dec(inc(heap, Inside), arg.val)

(* The storage changes if its pointer is that of current: a pointer or guard
   of any type (AsRaw), or a raw pointer.  What was inside is returned in a
   guard.  At the end current is dropped, if it is a guard given by value. *)
CompareAndSwap(h, byValue, arg, d) ==
  LET swapped == as_ptr(held[h].val) = storage.ptr
      result == IF swapped THEN heap ELSE NotSwapped(arg)
      used == IF byValue THEN {h} ELSE {} IN
  /\ Exists /\ Plain(h) /\ h \notin arg.from
  /\ byValue => IsGuard(h)
  /\ IF swapped THEN Stored(storage.type, arg) ELSE UNCHANGED storage
  /\ heap' = IF byValue THEN dec(result, held[h].val) ELSE result
  /\ Into(d, arg.from \cup used, Guard(Inside, storage.id))
  /\ last' = [op |-> "compare_and_swap", raw |-> held[h].form = "raw",
              got |-> swapped, want |-> held[h].id = storage.id]
  /\ UNCHANGED cache

(* The storage is dropped, or unwrapped; no cache borrows it any more. *)
Unused == \A c \in Caches : cache[c] = Empty

DropStorage ==
  /\ Exists /\ Unused
  /\ heap' = dec(heap, Inside)
  /\ storage' = Empty
  /\ UNCHANGED <<held, cache>>

UnwrapStorage(h) ==
  /\ Exists /\ Unused
  /\ Into(h, {}, Owned(Inside, storage.id))
  /\ storage' = Empty
  /\ UNCHANGED <<heap, cache>>

-----------------------------------------------------------------------------
(* The caches. *)

(* A cache, or the one inside a MapCache, that has just loaded. *)
Cached(form) == [form |-> form, val |-> Inside, id |-> storage.id]

(* Cache::new and From. *)
CacheNew(c) ==
  /\ Exists /\ cache[c] = Empty
  /\ heap' = inc(heap, Inside)
  /\ cache' = [cache EXCEPT ![c] = Cached("cache")]
  /\ UNCHANGED <<storage, held>>

CacheClone(c, d) ==
  /\ cache[c] # Empty /\ cache[d] = Empty
  /\ heap' = inc(heap, cache[c].val)
  /\ cache' = [cache EXCEPT ![d] = cache[c]]
  /\ UNCHANGED <<storage, held>>

(* Cache::map: a MapCache, with the same cache inside. *)
CacheMap(c) ==
  /\ cache[c] # Empty
  /\ cache' = [cache EXCEPT ![c].form = "map_cache"]
  /\ UNCHANGED <<heap, storage, held>>

(* A mutant of CacheLoad: the cached pointer has no reference of its own. *)
CacheLoadBorrowed(c) ==
  /\ cache[c] # Empty
  /\ IF as_ptr(cache[c].val) = storage.ptr THEN UNCHANGED <<heap, cache>>
     ELSE /\ heap' = dec(heap, cache[c].val)
          /\ cache' = [cache EXCEPT ![c] = Cached(cache[c].form)]
  /\ last' = [op |-> "cache_load", got |-> cache'[c].id, want |-> storage.id]
  /\ UNCHANGED <<storage, held>>

(* load of either: revalidate, then the cached value, or its projection. *)
CacheLoad(c) ==
  /\ cache[c] # Empty
  /\ IF as_ptr(cache[c].val) = storage.ptr THEN UNCHANGED <<heap, cache>>
     ELSE /\ heap' = dec(inc(heap, Inside), cache[c].val)
          /\ cache' = [cache EXCEPT ![c] = Cached(cache[c].form)]
  /\ last' = [op |-> "cache_load", got |-> cache'[c].id, want |-> storage.id]
  /\ UNCHANGED <<storage, held>>

CacheDrop(c) ==
  /\ cache[c] # Empty
  /\ heap' = dec(heap, cache[c].val)
  /\ cache' = [cache EXCEPT ![c] = Empty]
  /\ UNCHANGED <<storage, held>>

-----------------------------------------------------------------------------
OnPointers ==
  \E h, d \in Places :
    \/ \E a \in Addrs : ArcNew(h, a)
    \/ \E form \in {"owned", "guard"} : Clone(h, d, form)
    \/ Downgrade(h, d) \/ Upgrade(h, d) \/ AsRaw(h, d)
    \/ Drop(h) \/ IntoInner(h) \/ FromInner(h)

OnStorage ==
  \/ \E T \in Types : \E arg \in Arguments(T) : New(T, arg)
  \/ \E h \in Places :
       (\E acc \in Accesses : Load(acc, h)) \/ LoadFull(h) \/ UnwrapStorage(h)
  \/ Exists /\ \E arg \in Arguments(storage.type) :
       Store(arg) \/ \E h \in Places : Swap(arg, h)
  \/ DropStorage

OnCaches ==
  \E c, d \in Caches : CacheNew(c) \/ CacheClone(c, d) \/ CacheMap(c) \/ CacheDrop(c)

(* The operations that compare addresses. *)
Comparing ==
  \/ \E c \in Caches : CacheLoad(c)
  \/ Exists /\ \E arg \in Arguments(storage.type), h, d \in Places, byValue \in BOOLEAN :
       CompareAndSwap(h, byValue, arg, d)

Next ==
  \/ (OnPointers \/ OnStorage \/ OnCaches) /\ last' = NoComparison
  \/ Comparing

Spec == Init /\ [][Next]_vars

-----------------------------------------------------------------------------
(* The types of the variables. *)
TypeOK ==
  /\ heap \in [Addrs -> [strong : Nat, weak : Nat, id : Ids]]
  /\ storage \in {Empty} \cup
       [form : {"storage"}, type : Types, ptr : Addrs \cup {Null},
        val : SmartPointers, id : Ids]
  /\ held \in [Places -> {Empty} \cup
       [form : Forms, layers : {<<>>} \cup {Layers(acc) : acc \in Accesses},
        val : SmartPointers, id : Ids]]
  /\ cache \in [Caches -> {Empty} \cup
       [form : {"cache", "map_cache"}, val : SmartPointers, id : Ids]]

(* v, a pointer of the program, a cache or the storage, has a reference of kind
   f to what is at a. *)
Refers(v, a, f) ==
  v # Empty /\ v.form # "raw" /\ v.val.at = a /\ Counted(v.val) = f

Holders(a, f) ==
  Cardinality({h \in Places : Refers(held[h], a, f)})
  + Cardinality({c \in Caches : Refers(cache[c], a, f)})
  + (IF Refers(storage, a, f) THEN 1 ELSE 0)

(* "Reclamation is exact - the resource is released as soon as possible":
   after any sequence of operations an object has as many references, and its
   memory as many weak ones, as there are pointers, guards (wrapped in
   anything), caches and storages for it. *)
Counting ==
  \A a \in Addrs :
    heap[a].strong = Holders(a, "strong") /\ heap[a].weak = Holders(a, "weak")

(* "Keeping the result makes sure the same object is used": a pointer or a
   guard leads to the object that it was made for, whatever is stored, dropped
   and allocated meanwhile, and the object is alive; a Weak keeps its address
   from being used again. *)
SnapshotStable ==
  \A h \in Places :
    Full(h) /\ held[h].form # "raw" /\ held[h].val.at \in Addrs =>
      /\ heap[held[h].val.at].id = held[h].id
      /\ held[h].val.type # "Weak" => heap[held[h].val.at].strong > 0

(* A load returns the value that was stored, through the conversion to a
   pointer and back: None and a Weak without an object too. *)
LoadReturnsStored ==
  Exists => Inside = storage.val /\ (Inside.at \in Addrs => heap[Inside.at].id = storage.id)

(* compare_and_swap compares addresses, and yet swaps if and only if the
   object inside is the one that current stands for: current has a reference,
   so that its address cannot have been used again.  Of a raw pointer that is
   not true. *)
CasComparesObjects ==
  last.op = "compare_and_swap" /\ ~last.raw => last.got = last.want

(* load of a Cache or a MapCache returns the object that is in the storage,
   although only the addresses are compared: the cached one is kept alive. *)
CacheReflectsStorage == last.op = "cache_load" => last.got = last.want
=============================================================================
