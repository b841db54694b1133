-------------------------- MODULE ArcSwapAnyProofs --------------------------
(***************************************************************************)
(* The public interface is exact about references and objects, for any     *)
(* finite sets of addresses, of places where the program keeps pointers    *)
(* and of caches, and any accesses.                                        *)
(*                                                                         *)
(* The invariant Memory keeps books: the count of every address, of either *)
(* kind, is the number of the pointers, guards, caches and storages that   *)
(* refer to it (Balanced), and each of them leads to the object that it    *)
(* was made for (AllSound).  The two need each other.  That the count is   *)
(* positive for whoever is in the books (Live) is why the address of his   *)
(* object is not given out again; that he is led to the same object makes  *)
(* a comparison of addresses one of objects (SameObject).                  *)
(*                                                                         *)
(* Each operation is balanced on its own: its lemma says what the number   *)
(* of holders gains or loses, place by place (PlacePut, CachesPut,         *)
(* StoragePut), and that inc and dec do the same to the count (IncEffect,  *)
(* DecEffect).                                                             *)
(***************************************************************************)
EXTENDS ArcSwapAny, CardinalityLemmas, TLAPS

(* The counts of kind f of address a. *)
Count(hp, a, f) == IF f = "strong" THEN hp[a].strong ELSE hp[a].weak

(* The kinds of references, and the heaps that have them. *)
Kinds == {"strong", "weak"}
Cell == [strong : Nat, weak : Nat, id : Ids]
Heaps == [Addrs -> Cell]

(* One reference, if b. *)
Bit(b) == IF b THEN 1 ELSE 0

(* What a smart pointer consists of. *)
LEMMA PointerShape ==
  ASSUME NEW x \in SmartPointers
  PROVE  /\ x.type \in Types /\ x \in Pointers(x.type)
         /\ x.at \in Addrs \cup {None, Dangling}
         /\ x = [type |-> x.type, at |-> x.at]
<1>1. PICK T \in Types : x \in Pointers(T)
  BY DEF SmartPointers
<1>2. CASE T = "Arc"
  BY <1>1, <1>2 DEF Pointers, Types
<1>3. CASE T = "Option"
  BY <1>1, <1>3 DEF Pointers, Types
<1>4. CASE T = "Weak"
  BY <1>1, <1>4 DEF Pointers, Types
<1> QED BY <1>1, <1>2, <1>3, <1>4 DEF Types

(* as_ptr is the address, or null where there is no object. *)
LEMMA AsPtr ==
  ASSUME NEW x \in SmartPointers
  PROVE  as_ptr(x) = IF x.at \in Addrs THEN x.at ELSE Null
<1>1. PICK T \in Types : x \in Pointers(T)
  BY DEF SmartPointers
<1>2. CASE T = "Arc"
  BY <1>1, <1>2, AddrsAssumption DEF Pointers, Types, as_ptr
<1>3. CASE T = "Option"
  BY <1>1, <1>3, AddrsAssumption DEF Pointers, Types, as_ptr
<1>4. CASE T = "Weak"
  BY <1>1, <1>4, AddrsAssumption DEF Pointers, Types, as_ptr, WeakAsPtr
<1> QED BY <1>1, <1>2, <1>3, <1>4 DEF Types

(* from_ptr undoes as_ptr, for every smart pointer of every type: None and a
   Weak without an object come back from the null pointer. *)
THEOREM RoundTrip ==
  \A T \in Types : \A x \in Pointers(T) : from_ptr(T, as_ptr(x)) = x
<1> SUFFICES ASSUME NEW T \in Types, NEW x \in Pointers(T)
             PROVE  from_ptr(T, as_ptr(x)) = x
  OBVIOUS
<1>2. CASE T = "Arc"
  BY <1>2, AddrsAssumption DEF Pointers, as_ptr, from_ptr
<1>3. CASE T = "Option"
  BY <1>3, AddrsAssumption DEF Pointers, as_ptr, from_ptr
<1>4. CASE T = "Weak"
  BY <1>4, AddrsAssumption DEF Pointers, as_ptr, WeakAsPtr, from_ptr,
     WeakFromPtr
<1> QED BY <1>2, <1>3, <1>4 DEF Types

(* What inc does to each count: one reference more, and no other change. *)
LEMMA IncEffect ==
  ASSUME NEW hp \in Heaps, NEW x
  PROVE  /\ inc(hp, x) \in Heaps
         /\ \A a \in Addrs :
              /\ \A f \in Kinds : Count(inc(hp, x), a, f)
                                    = Count(hp, a, f) + Bit(x.at = a /\ Counted(x) = f)
              /\ inc(hp, x)[a].id = hp[a].id
<1>1. CASE x.at \notin Addrs
  BY <1>1 DEF inc, Bit, Heaps, Cell, Count
<1>2. CASE x.at \in Addrs /\ x.type = "Weak"
  <2>1. inc(hp, x) = [hp EXCEPT ![x.at].weak = @ + 1]
    BY <1>2 DEF inc, Counted
  <2>2. inc(hp, x) \in Heaps
    BY <1>2, <2>1 DEF Heaps, Cell
  <2> QED BY <1>2, <2>1, <2>2 DEF Heaps, Cell, Count, Kinds, Bit, Counted
<1>3. CASE x.at \in Addrs /\ x.type # "Weak"
  <2>1. inc(hp, x) = [hp EXCEPT ![x.at].strong = @ + 1]
    BY <1>3 DEF inc, Counted
  <2>2. inc(hp, x) \in Heaps
    BY <1>3, <2>1 DEF Heaps, Cell
  <2> QED BY <1>3, <2>1, <2>2 DEF Heaps, Cell, Count, Kinds, Bit, Counted
<1> QED BY <1>1, <1>2, <1>3

(* The number of no object is a number, and a free address has its type. *)
LEMMA IdsHaveNothing == Nothing \in Ids /\ Free \in Cell
<1>1. Cardinality(Places) \in Nat /\ Cardinality(Caches) \in Nat /\ Cardinality(Addrs) \in Nat
  BY FiniteAssumption, FS_CardinalityType
<1> QED BY <1>1 DEF Ids, Nothing, Free, Cell

(* What dec does to each count: one reference less, and with the last one the
   number of the object is forgotten. *)
LEMMA DecEffect ==
  ASSUME NEW hp \in Heaps, NEW x,
         x.at \in Addrs => Count(hp, x.at, Counted(x)) > 0
  PROVE  /\ dec(hp, x) \in Heaps
         /\ \A a \in Addrs :
              /\ \A f \in Kinds : Count(dec(hp, x), a, f)
                                    = Count(hp, a, f) - Bit(x.at = a /\ Counted(x) = f)
              /\ dec(hp, x)[a].id =
                   IF x.at = a /\ \A f \in Kinds : Count(dec(hp, x), a, f) = 0
                   THEN Nothing ELSE hp[a].id
<1>1. CASE x.at \notin Addrs
  BY <1>1 DEF dec, Bit, Heaps, Cell, Count
<1>2. CASE x.at \in Addrs /\ x.type = "Weak"
  <2> DEFINE hd == [hp EXCEPT ![x.at].weak = @ - 1]
  <2>1. dec(hp, x) = IF hd[x.at].strong = 0 /\ hd[x.at].weak = 0
                     THEN [hd EXCEPT ![x.at] = Free] ELSE hd
    BY <1>2 DEF dec, Counted
  <2>2. hd \in Heaps
    BY <1>2 DEF Heaps, Cell, Count, Counted
  <2>3. \A a \in Addrs : /\ hd[a].strong = hp[a].strong /\ hd[a].id = hp[a].id
                         /\ hd[a].weak = hp[a].weak - Bit(x.at = a)
    BY <1>2 DEF Heaps, Cell, Bit
  <2> HIDE DEF hd
  <2>4. dec(hp, x) \in Heaps
    BY <1>2, <2>1, <2>2, IdsHaveNothing DEF Heaps
  <2> QED BY <1>2, <2>1, <2>2, <2>3, <2>4
  DEF Heaps, Cell, Count, Kinds, Bit, Counted, Free
<1>3. CASE x.at \in Addrs /\ x.type # "Weak"
  <2> DEFINE hd == [hp EXCEPT ![x.at].strong = @ - 1]
  <2>1. dec(hp, x) = IF hd[x.at].strong = 0 /\ hd[x.at].weak = 0
                     THEN [hd EXCEPT ![x.at] = Free] ELSE hd
    BY <1>3 DEF dec, Counted
  <2>2. hd \in Heaps
    BY <1>3 DEF Heaps, Cell, Count, Counted
  <2>3. \A a \in Addrs : /\ hd[a].weak = hp[a].weak /\ hd[a].id = hp[a].id
                         /\ hd[a].strong = hp[a].strong - Bit(x.at = a)
    BY <1>3 DEF Heaps, Cell, Bit
  <2> HIDE DEF hd
  <2>4. dec(hp, x) \in Heaps
    BY <1>3, <2>1, <2>2, IdsHaveNothing DEF Heaps
  <2> QED BY <1>3, <2>1, <2>2, <2>3, <2>4
  DEF Heaps, Cell, Count, Kinds, Bit, Counted, Free
<1> QED BY <1>1, <1>2, <1>3

(* How many of the places S refer to a. *)
Number(S, fn, a, f) == Cardinality({h \in S : Refers(fn[h], a, f)})

(* What the holder v adds to the count of kind f of a. *)
One(v, a, f) == Bit(Refers(v, a, f))

(* The number changes by what the one changed place gains or loses. *)
LEMMA Put ==
  ASSUME NEW S, IsFiniteSet(S), NEW fn, NEW gn, NEW h \in S,
         \A k \in S \ {h} : gn[k] = fn[k], NEW a, NEW f
  PROVE  /\ Number(S, fn, a, f) \in Nat /\ Number(S, gn, a, f) \in Nat
         /\ Number(S, gn, a, f) + One(fn[h], a, f) = Number(S, fn, a, f) + One(gn[h], a, f)
<1> DEFINE A == {k \in S : Refers(fn[k], a, f)}
           B == {k \in S : Refers(gn[k], a, f)}
<1>2. /\ A \ {h} = B \ {h}
      /\ (h \in A <=> Refers(fn[h], a, f)) /\ (h \in B <=> Refers(gn[h], a, f))
  OBVIOUS
<1>3. IsFiniteSet(A)
  BY PartOfFinite
<1> HIDE DEF A, B
<1>4. /\ Cardinality(A) \in Nat /\ Cardinality(B) \in Nat
      /\ Cardinality(B) + (IF h \in A THEN 1 ELSE 0)
           = Cardinality(A) + (IF h \in B THEN 1 ELSE 0)
  BY <1>2, <1>3, OneElement
<1> QED BY <1>2, <1>4 DEF Number, One, Bit, A, B

-----------------------------------------------------------------------------
(* The types of the pointers of the program, of the caches and of the
   storage. *)
HeldType ==
  {Empty} \cup [form : Forms, layers : {<<>>} \cup {Layers(acc) : acc \in Accesses},
                val : SmartPointers, id : Ids]
CacheType ==
  {Empty} \cup [form : {"cache", "map_cache"}, val : SmartPointers, id : Ids]
StorageType ==
  {Empty} \cup [form : {"storage"}, type : Types, ptr : Addrs \cup {Null},
                val : SmartPointers, id : Ids]

(* All that refer to a. *)
Total(hd, ca, st, a, f) ==
  Number(Places, hd, a, f) + Number(Caches, ca, a, f) + One(st, a, f)

(* Every count is the number of those who refer to the address. *)
Balanced(hp, hd, ca, st) ==
  \A a \in Addrs, f \in Kinds : Count(hp, a, f) = Total(hd, ca, st, a, f)

(* An address has an object or what is left of one if and only if somebody
   has a reference. *)
WellFormed(hp) ==
  /\ hp \in Heaps
  /\ \A a \in Addrs : hp[a].id = Nothing <=> \A f \in Kinds : Count(hp, a, f) = 0

(* Different addresses have different objects. *)
UniqueIds(hp) ==
  \A a, b \in Addrs : hp[a].id = hp[b].id /\ a # b => hp[a].id = Nothing

(* v leads to the object that it was made for; a raw pointer may not. *)
Sound(v, hp) ==
  v # Empty /\ v.form # "raw" =>
    v.id = IF v.val.at \in Addrs THEN hp[v.val.at].id ELSE Nothing

(* So do all of them. *)
AllSound(hp, hd, ca, st) ==
  /\ \A h \in Places : Sound(hd[h], hp)
  /\ \A c \in Caches : Sound(ca[c], hp)
  /\ Sound(st, hp)

(* The word in the storage is the one that from_ptr turns back into what was
   stored. *)
StorageIs ==
  Exists => storage.ptr = as_ptr(storage.val) /\ storage.val \in Pointers(storage.type)

(* A cache borrows the storage, which is there as long as the cache. *)
Borrowing == Exists \/ Unused

(* The types of those who hold something. *)
Shapes ==
  held \in [Places -> HeldType] /\ cache \in [Caches -> CacheType] /\ storage \in StorageType

(* The inductive invariant. *)
Memory ==
  /\ Shapes
  /\ WellFormed(heap)
  /\ UniqueIds(heap)
  /\ Balanced(heap, held, cache, storage)
  /\ AllSound(heap, held, cache, storage)
  /\ StorageIs
  /\ Borrowing

-----------------------------------------------------------------------------
(* A count is a natural number. *)
LEMMA CountType ==
  ASSUME NEW hp \in Heaps, NEW a \in Addrs, NEW f \in Kinds
  PROVE  Count(hp, a, f) \in Nat
BY DEF Heaps, Cell, Count

(* So is the number of places, which is positive when there is one. *)
LEMMA NumberType ==
  ASSUME NEW S, IsFiniteSet(S), NEW fn, NEW a, NEW f
  PROVE  /\ Number(S, fn, a, f) \in Nat
         /\ \A h \in S : Refers(fn[h], a, f) => Number(S, fn, a, f) > 0
<1> DEFINE A == {h \in S : Refers(fn[h], a, f)}
<1>1. Cardinality(A) \in Nat /\ \A h \in A : Cardinality(A) > 0
  BY PartOfFinite
<1> QED BY <1>1 DEF Number

(* So is the number of all who refer to an address. *)
LEMMA TotalPositive ==
  ASSUME NEW hd, NEW ca, NEW st, NEW a, NEW f
  PROVE  /\ Total(hd, ca, st, a, f) \in Nat
         /\ \A h \in Places : Refers(hd[h], a, f) => Total(hd, ca, st, a, f) > 0
         /\ \A c \in Caches : Refers(ca[c], a, f) => Total(hd, ca, st, a, f) > 0
         /\ Refers(st, a, f) => Total(hd, ca, st, a, f) > 0
<1>1. /\ Number(Places, hd, a, f) \in Nat
      /\ \A h \in Places : Refers(hd[h], a, f) => Number(Places, hd, a, f) > 0
  BY FiniteAssumption, NumberType
<1>2. /\ Number(Caches, ca, a, f) \in Nat
      /\ \A c \in Caches : Refers(ca[c], a, f) => Number(Caches, ca, a, f) > 0
  BY FiniteAssumption, NumberType
<1>3. One(st, a, f) \in {0, 1} /\ (Refers(st, a, f) => One(st, a, f) = 1)
  BY DEF One, Bit
<1> QED BY <1>1, <1>2, <1>3 DEF Total

(* Every pointer counts in one of the two ways. *)
LEMMA KindOf == \A x : Counted(x) \in Kinds
BY DEF Counted, Kinds

(* A holder that is in the books keeps the object at its address. *)
LEMMA Live ==
  ASSUME NEW hp, NEW hd, NEW ca, NEW st, Balanced(hp, hd, ca, st), NEW v,
         (\E h \in Places : v = hd[h]) \/ (\E c \in Caches : v = ca[c]) \/ v = st,
         v # Empty, v.form # "raw", v.val.at \in Addrs
  PROVE  Count(hp, v.val.at, Counted(v.val)) > 0
<1>1. Refers(v, v.val.at, Counted(v.val))
  BY DEF Refers
<1>2. Total(hd, ca, st, v.val.at, Counted(v.val)) > 0
  BY <1>1, TotalPositive
<1> QED BY <1>2, KindOf DEF Balanced

(* A reference more to something that is there leaves the heap well-formed,
   and every object where it is. *)
LEMMA IncKeeps ==
  ASSUME NEW hp, WellFormed(hp), NEW x,
         x.at \in Addrs => \E f \in Kinds : Count(hp, x.at, f) > 0
  PROVE  /\ WellFormed(inc(hp, x))
         /\ \A a \in Addrs : inc(hp, x)[a].id = hp[a].id
<1>1. /\ inc(hp, x) \in Heaps
      /\ \A a \in Addrs :
              /\ \A f \in Kinds : Count(inc(hp, x), a, f)
                                    = Count(hp, a, f) + Bit(x.at = a /\ Counted(x) = f)
              /\ inc(hp, x)[a].id = hp[a].id
  BY IncEffect DEF WellFormed
<1>2. ASSUME NEW a \in Addrs
      PROVE  inc(hp, x)[a].id = Nothing <=> \A f \in Kinds : Count(inc(hp, x), a, f) = 0
  <2>1. \A f \in Kinds : Count(hp, a, f) \in Nat
    BY CountType DEF WellFormed
  <2>2. hp[a].id = Nothing <=> \A f \in Kinds : Count(hp, a, f) = 0
    BY DEF WellFormed
  <2>3. CASE x.at = a
    BY <1>1, <2>1, <2>2, <2>3 DEF Bit
  <2>4. CASE x.at # a
    BY <1>1, <2>1, <2>2, <2>4 DEF Bit
  <2> QED BY <2>3, <2>4
<1> QED BY <1>1, <1>2 DEF WellFormed

(* A reference less leaves the heap well-formed; an object may go, and none
   comes. *)
LEMMA DecKeeps ==
  ASSUME NEW hp, WellFormed(hp), NEW x,
         x.at \in Addrs => Count(hp, x.at, Counted(x)) > 0
  PROVE  /\ WellFormed(dec(hp, x))
         /\ \A a \in Addrs : dec(hp, x)[a].id \in {hp[a].id, Nothing}
<1>1. /\ dec(hp, x) \in Heaps
      /\ \A a \in Addrs :
              /\ \A f \in Kinds : Count(dec(hp, x), a, f)
                                    = Count(hp, a, f) - Bit(x.at = a /\ Counted(x) = f)
              /\ dec(hp, x)[a].id =
                   IF x.at = a /\ \A f \in Kinds : Count(dec(hp, x), a, f) = 0
                   THEN Nothing ELSE hp[a].id
  BY DecEffect DEF WellFormed
<1>2. ASSUME NEW a \in Addrs
      PROVE  dec(hp, x)[a].id = Nothing <=> \A f \in Kinds : Count(dec(hp, x), a, f) = 0
  <2>1. \A f \in Kinds : Count(hp, a, f) \in Nat
    BY CountType DEF WellFormed
  <2>2. hp[a].id = Nothing <=> \A f \in Kinds : Count(hp, a, f) = 0
    BY DEF WellFormed
  <2>3. CASE x.at = a
    <3>1. hp[a].id # Nothing
      BY <2>2, <2>3, KindOf
    <3> QED BY <1>1, <2>3, <3>1
  <2>4. CASE x.at # a
    BY <1>1, <2>1, <2>2, <2>4 DEF Bit
  <2> QED BY <2>3, <2>4
<1> QED BY <1>1, <1>2 DEF WellFormed

(* Who refers to an object when the books are balanced again refers to the
   object he referred to before. *)
LEMMA SoundAgain ==
  ASSUME NEW hp, WellFormed(hp), UniqueIds(hp), NEW hq, WellFormed(hq),
         \A a \in Addrs : hq[a].id \in {hp[a].id, Nothing},
         NEW hd, NEW ca, NEW st, Balanced(hq, hd, ca, st), AllSound(hp, hd, ca, st)
  PROVE  AllSound(hq, hd, ca, st) /\ UniqueIds(hq)
<1>1. ASSUME NEW v, Sound(v, hp),
             (\E h \in Places : v = hd[h]) \/ (\E c \in Caches : v = ca[c]) \/ v = st
      PROVE  Sound(v, hq)
  <2>1. CASE v # Empty /\ v.form # "raw" /\ v.val.at \in Addrs
    <3>1. Count(hq, v.val.at, Counted(v.val)) > 0
      BY <1>1, <2>1, Live
    <3>2. hq[v.val.at].id # Nothing
      BY <2>1, <3>1, KindOf DEF WellFormed
    <3> QED BY <1>1, <2>1, <3>2 DEF Sound
  <2>2. CASE ~(v # Empty /\ v.form # "raw" /\ v.val.at \in Addrs)
    BY <1>1, <2>2 DEF Sound
  <2> QED BY <2>1, <2>2
<1>2. AllSound(hq, hd, ca, st)
  BY <1>1 DEF AllSound
<1>3. UniqueIds(hq)
  BY DEF UniqueIds
<1> QED BY <1>2, <1>3

(* What a step has to show. *)
LEMMA MemoryAgain ==
  ASSUME Memory, Shapes', WellFormed(heap'),
         \A a \in Addrs : heap'[a].id \in {heap[a].id, Nothing},
         Balanced(heap', held', cache', storage'),
         AllSound(heap, held', cache', storage'),
         StorageIs', Borrowing'
  PROVE  Memory'
<1>1. AllSound(heap', held', cache', storage') /\ UniqueIds(heap')
  BY SoundAgain DEF Memory
<1> QED BY <1>1 DEF Memory

(* What is empty refers to nothing. *)
LEMMA EmptyRefers == \A a, f : One(Empty, a, f) = 0
BY DEF One, Bit, Refers

(* A holder is counted once or not at all. *)
LEMMA OneType == \A v, a, f : One(v, a, f) \in Nat
BY DEF One, Bit

(* All who refer to an address, when one place of the program has changed. *)
LEMMA PlacePut ==
  ASSUME NEW hd, NEW hq, NEW d \in Places, \A k \in Places \ {d} : hq[k] = hd[k],
         NEW ca, NEW st, NEW a, NEW f
  PROVE  Total(hq, ca, st, a, f) + One(hd[d], a, f)
           = Total(hd, ca, st, a, f) + One(hq[d], a, f)
<1>1. /\ Number(Places, hd, a, f) \in Nat /\ Number(Places, hq, a, f) \in Nat
      /\ Number(Places, hq, a, f) + One(hd[d], a, f)
           = Number(Places, hd, a, f) + One(hq[d], a, f)
  BY FiniteAssumption, Put
<1>2. Number(Caches, ca, a, f) \in Nat
  BY FiniteAssumption, NumberType
<1> QED BY <1>1, <1>2, OneType DEF Total

(* All who refer to an address, when the storage has changed. *)
LEMMA StoragePut ==
  ASSUME NEW hd, NEW ca, NEW st, NEW su, NEW a, NEW f
  PROVE  Total(hd, ca, su, a, f) + One(st, a, f) = Total(hd, ca, st, a, f) + One(su, a, f)
<1>1. Number(Places, hd, a, f) \in Nat /\ Number(Caches, ca, a, f) \in Nat
  BY FiniteAssumption, NumberType
<1> QED BY <1>1, OneType DEF Total

(* The reference that x has or needs. *)
Ref(x, a, f) == IF x.at = a /\ Counted(x) = f THEN 1 ELSE 0

(* What is neither empty nor raw has the reference that its pointer needs. *)
LEMMA OneRef ==
  ASSUME NEW v, v # Empty, v.form # "raw", NEW a, NEW f
  PROVE  One(v, a, f) = Ref(v.val, a, f)
BY DEF One, Bit, Refers, Ref

(* The count and the holder come together. *)
LEMMA BalancedInc ==
  ASSUME NEW hp \in Heaps, NEW hd, NEW ca, NEW st, Balanced(hp, hd, ca, st), NEW x,
         NEW hq, NEW cb, NEW su,
         \A a \in Addrs, f \in Kinds :
           Total(hq, cb, su, a, f) = Total(hd, ca, st, a, f) + Ref(x, a, f)
  PROVE  Balanced(inc(hp, x), hq, cb, su)
<1> SUFFICES ASSUME NEW a \in Addrs, NEW f \in Kinds
             PROVE  Count(inc(hp, x), a, f) = Total(hq, cb, su, a, f)
  BY DEF Balanced
<1>1. Count(inc(hp, x), a, f) = Count(hp, a, f) + Ref(x, a, f)
  BY IncEffect DEF Bit, Ref
<1>2. Count(hp, a, f) = Total(hd, ca, st, a, f)
  BY DEF Balanced
<1> QED BY <1>1, <1>2

(* The count and the holder go together. *)
LEMMA BalancedDec ==
  ASSUME NEW hp \in Heaps, NEW hd, NEW ca, NEW st, Balanced(hp, hd, ca, st), NEW x,
         x.at \in Addrs => Count(hp, x.at, Counted(x)) > 0,
         NEW hq, NEW cb, NEW su,
         \A a \in Addrs, f \in Kinds :
           Total(hq, cb, su, a, f) + Ref(x, a, f) = Total(hd, ca, st, a, f)
  PROVE  Balanced(dec(hp, x), hq, cb, su)
<1> SUFFICES ASSUME NEW a \in Addrs, NEW f \in Kinds
             PROVE  Count(dec(hp, x), a, f) = Total(hq, cb, su, a, f)
  BY DEF Balanced
<1>1. Count(dec(hp, x), a, f) = Count(hp, a, f) - Ref(x, a, f)
  BY DecEffect DEF Bit, Ref
<1>2. Count(hp, a, f) = Total(hd, ca, st, a, f)
  BY DEF Balanced
<1>3. Total(hq, cb, su, a, f) \in Nat /\ Total(hd, ca, st, a, f) \in Nat
  BY TotalPositive
<1>4. Ref(x, a, f) \in Nat
  BY DEF Ref
<1> QED BY <1>1, <1>2, <1>3, <1>4
-----------------------------------------------------------------------------
(* One of the pointers of the program has changed. *)
LEMMA HeldPut ==
  ASSUME NEW d \in Places, \A k \in Places \ {d} : held'[k] = held[k]
  PROVE  \A ca, st, a, f :
           Total(held', ca, st, a, f) + One(held[d], a, f)
             = Total(held, ca, st, a, f) + One(held'[d], a, f)
<1> SUFFICES ASSUME NEW ca, NEW st, NEW a, NEW f
             PROVE  Total(held', ca, st, a, f) + One(held[d], a, f)
                      = Total(held, ca, st, a, f) + One(held'[d], a, f)
  OBVIOUS
<1>1. IsFiniteSet(Places)
  BY FiniteAssumption
<1>2. /\ Number(Places, held, a, f) \in Nat /\ Number(Places, held', a, f) \in Nat
      /\ Number(Places, held', a, f) + One(held[d], a, f)
           = Number(Places, held, a, f) + One(held'[d], a, f)
  BY <1>1, Put
<1>3. Number(Caches, ca, a, f) \in Nat
  BY FiniteAssumption, NumberType
<1> QED BY <1>2, <1>3, OneType DEF Total

(* A reference is taken for the place d, which gets v. *)
Takes(d, v) ==
  /\ v \in HeldType /\ v # Empty /\ v.form # "raw"
  /\ Sound(v, heap)
  /\ v.val.at \in Addrs => \E k \in Kinds : Count(heap, v.val.at, k) > 0
  /\ heap' = inc(heap, v.val)
  /\ held[d] = Empty
  /\ held' = [held EXCEPT ![d] = v]
  /\ UNCHANGED <<storage, cache>>

(* The books are balanced again. *)
LEMMA TakeReference ==
  ASSUME Memory, NEW d \in Places, NEW v, Takes(d, v)
  PROVE  Memory'
<1>1. held'[d] = v /\ held[d] = Empty /\ \A k \in Places \ {d} : held'[k] = held[k]
  BY DEF Memory, Shapes, Takes
<1>2. Shapes'
  BY DEF Memory, Shapes, Takes
<1>3. WellFormed(heap') /\ \A a \in Addrs : heap'[a].id = heap[a].id
  BY IncKeeps DEF Memory, Takes
<1>4. ASSUME NEW a \in Addrs, NEW f \in Kinds
      PROVE  Total(held', cache, storage, a, f)
               = Total(held, cache, storage, a, f) + Ref(v.val, a, f)
  <2>1. Total(held', cache, storage, a, f) + One(held[d], a, f)
          = Total(held, cache, storage, a, f) + One(held'[d], a, f)
    BY <1>1, HeldPut
  <2>2. One(held[d], a, f) = 0 /\ One(held'[d], a, f) = Ref(v.val, a, f)
    BY <1>1, EmptyRefers, OneRef DEF Takes
  <2>3. /\ Total(held, cache, storage, a, f) \in Nat
        /\ Total(held', cache, storage, a, f) \in Nat
    BY TotalPositive
  <2> QED BY <2>1, <2>2, <2>3
<1>5. Balanced(heap', held', cache', storage')
  <2>1. heap \in Heaps /\ Balanced(heap, held, cache, storage)
    BY DEF Memory, WellFormed
  <2>2. Balanced(inc(heap, v.val), held', cache, storage)
    BY <1>4, <2>1, BalancedInc
  <2> QED BY <2>2 DEF Takes
<1>6. AllSound(heap, held', cache', storage')
  BY <1>1 DEF Memory, AllSound, Takes
<1>7. StorageIs' /\ Borrowing'
  BY DEF Memory, StorageIs, Borrowing, Exists, Unused, Takes
<1> QED BY <1>2, <1>3, <1>5, <1>6, <1>7, MemoryAgain

(* The place h gets v, which refers to what was there before. *)
Reforms(h, v) ==
  /\ v \in HeldType
  /\ Sound(v, heap)
  /\ \A a \in Addrs, f \in Kinds : One(v, a, f) = One(held[h], a, f)
  /\ held' = [held EXCEPT ![h] = v]
  /\ UNCHANGED <<heap, storage, cache>>

(* No reference comes or goes. *)
LEMMA SameReferences ==
  ASSUME Memory, NEW h \in Places, NEW v, Reforms(h, v)
  PROVE  Memory'
<1>1. held'[h] = v /\ \A k \in Places \ {h} : held'[k] = held[k]
  BY DEF Memory, Shapes, Reforms
<1>2. Shapes'
  BY DEF Memory, Shapes, Reforms
<1>3. WellFormed(heap') /\ \A a \in Addrs : heap'[a].id = heap[a].id
  BY DEF Memory, Reforms
<1>4. ASSUME NEW a \in Addrs, NEW f \in Kinds
      PROVE  Total(held', cache, storage, a, f) = Total(held, cache, storage, a, f)
  <2>1. Total(held', cache, storage, a, f) + One(held[h], a, f)
          = Total(held, cache, storage, a, f) + One(held'[h], a, f)
    BY <1>1, HeldPut
  <2>2. One(held[h], a, f) = One(held'[h], a, f) /\ One(held[h], a, f) \in Nat
    BY <1>1, OneType DEF Reforms
  <2>3. /\ Total(held, cache, storage, a, f) \in Nat
        /\ Total(held', cache, storage, a, f) \in Nat
    BY TotalPositive
  <2> QED BY <2>1, <2>2, <2>3
<1>5. Balanced(heap', held', cache', storage')
  BY <1>4 DEF Memory, Balanced, Reforms
<1>6. AllSound(heap, held', cache', storage')
  BY <1>1 DEF Memory, AllSound, Reforms
<1>7. StorageIs' /\ Borrowing'
  BY DEF Memory, StorageIs, Borrowing, Exists, Unused, Reforms
<1> QED BY <1>2, <1>3, <1>5, <1>6, <1>7, MemoryAgain

(* Something is put into an empty place. *)
LEMMA IntoEmpty ==
  ASSUME Memory, NEW d \in Places, NEW v, Into(d, {}, v)
  PROVE  held[d] = Empty /\ held' = [held EXCEPT ![d] = v]
<1>1. Moved({}) = held
  BY DEF Moved, Memory, Shapes
<1> QED BY <1>1 DEF Into

(* What is inside the storage is what was stored. *)
LEMMA InsideIs ==
  ASSUME Memory, Exists
  PROVE  /\ Inside = storage.val /\ Inside \in SmartPointers
         /\ storage.id \in Ids /\ storage.form = "storage" /\ storage.type \in Types
         /\ storage.ptr \in Addrs \cup {Null}
<1>1. storage.type \in Types
  BY DEF Memory, Shapes, StorageType, Exists
<1>2. Inside = storage.val
  BY <1>1, RoundTrip DEF Inside, Memory, StorageIs
<1> QED BY <1>1, <1>2 DEF Memory, Shapes, StorageType, Exists

(* What a pointer of the program is. *)
LEMMA HeldIs ==
  ASSUME Memory, NEW h \in Places, Full(h)
  PROVE  /\ held[h].form \in Forms /\ held[h].val \in SmartPointers
         /\ held[h].id \in Ids
         /\ held[h].layers \in {<<>>} \cup {Layers(acc) : acc \in Accesses}
         /\ held[h] = Holding(held[h].form, held[h].layers, held[h].val, held[h].id)
<1>1. held[h] \in [form : Forms, layers : {<<>>} \cup {Layers(acc) : acc \in Accesses},
                   val : SmartPointers, id : Ids]
  BY DEF Memory, Shapes, HeldType, Full
<1> HIDE DEF Full
<1> QED BY <1>1 DEF Holding

(* What the constructors of a pointer or guard build. *)
LEMMA HoldingIs ==
  ASSUME NEW form \in Forms, NEW layers \in {<<>>} \cup {Layers(acc) : acc \in Accesses},
         NEW x \in SmartPointers, NEW id \in Ids
  PROVE  LET v == Holding(form, layers, x, id) IN
         /\ v \in HeldType /\ v # Empty
         /\ v.form = form /\ v.val = x /\ v.id = id
BY DEF Holding, HeldType, Empty, Forms

(* The same of a pointer that is owned. *)
LEMMA OwnedIs ==
  ASSUME NEW x \in SmartPointers, NEW id \in Ids
  PROVE  /\ Owned(x, id) \in HeldType /\ Owned(x, id) # Empty
         /\ Owned(x, id).form = "owned" /\ Owned(x, id).val = x /\ Owned(x, id).id = id
BY HoldingIs DEF Owned, Forms

(* The same of a guard. *)
LEMMA GuardIs ==
  ASSUME NEW x \in SmartPointers, NEW id \in Ids
  PROVE  /\ Guard(x, id) \in HeldType /\ Guard(x, id) # Empty
         /\ Guard(x, id).form = "guard" /\ Guard(x, id).val = x /\ Guard(x, id).id = id
BY HoldingIs DEF Guard, Forms

(* A guard becomes a pointer, or a pointer a guard. *)
LEMMA Reformed ==
  ASSUME NEW f, NEW l, NEW x, NEW id, NEW g
  PROVE  [Holding(f, l, x, id) EXCEPT !.form = g] = Holding(g, l, x, id)
BY DEF Holding

(* A reference of either kind keeps the address. *)
LEMMA HeldLive ==
  ASSUME Memory, NEW h \in Places, Full(h), held[h].form # "raw",
         held[h].val.at \in Addrs
  PROVE  /\ Count(heap, held[h].val.at, Counted(held[h].val)) > 0
         /\ \E f \in Kinds : Count(heap, held[h].val.at, f) > 0
<1>1. Count(heap, held[h].val.at, Counted(held[h].val)) > 0
  BY Live DEF Memory, Full
<1> QED BY <1>1, KindOf

(* A clone has a reference of its own. *)
LEMMA CloneStep ==
  ASSUME Memory, NEW h \in Places, NEW d \in Places, NEW form \in {"owned", "guard"},
         Clone(h, d, form)
  PROVE  Memory'
<1> DEFINE v == Holding(form, <<>>, held[h].val, held[h].id)
<1>0. Full(h) /\ held[h].form # "raw"
  BY DEF Clone, Plain
<1>1. v \in HeldType /\ v # Empty /\ v.form = form /\ v.val = held[h].val /\ v.id = held[h].id
  <2>1. held[h].val \in SmartPointers /\ held[h].id \in Ids
    BY <1>0, HeldIs
  <2>2. CASE form = "owned"
    BY <2>1, <2>2, OwnedIs DEF Owned
  <2>3. CASE form = "guard"
    BY <2>1, <2>3, GuardIs DEF Guard
  <2> QED BY <2>2, <2>3
<1>2. Sound(v, heap)
  BY <1>0, <1>1 DEF Memory, AllSound, Sound, Full
<1>3. /\ heap' = inc(heap, v.val) /\ held[d] = Empty /\ held' = [held EXCEPT ![d] = v]
      /\ UNCHANGED <<storage, cache>>
  BY <1>1, IntoEmpty DEF Clone
<1> HIDE DEF v
<1>9. Takes(d, v)
  BY <1>0, <1>1, <1>2, <1>3, HeldLive DEF Takes
<1> QED BY <1>9, TakeReference

(* The Arc keeps the memory that the Weak refers to. *)
LEMMA DowngradeStep ==
  ASSUME Memory, NEW h \in Places, NEW d \in Places, Downgrade(h, d)
  PROVE  Memory'
<1> DEFINE w == [type |-> "Weak", at |-> held[h].val.at]
           v == Owned(w, held[h].id)
<1>0. Full(h) /\ held[h].form # "raw" /\ held[h].val.type = "Arc"
  BY DEF Downgrade, IsOwned
<1>1. held[h].val \in SmartPointers /\ held[h].id \in Ids
  BY <1>0, HeldIs
<1>2. held[h].val.at \in Addrs
  <2>1. held[h].val \in Pointers("Arc")
    BY <1>0, <1>1, PointerShape
  <2> QED BY <2>1 DEF Pointers
<1>3. w \in SmartPointers
  BY <1>2 DEF SmartPointers, Pointers, Types
<1>4. v \in HeldType /\ v # Empty /\ v.form = "owned" /\ v.val = w /\ v.id = held[h].id
  BY <1>1, <1>3, OwnedIs
<1>5. Sound(v, heap)
  BY <1>0, <1>2, <1>4 DEF Memory, AllSound, Sound, Full
<1>6. /\ heap' = inc(heap, v.val) /\ held[d] = Empty /\ held' = [held EXCEPT ![d] = v]
      /\ UNCHANGED <<storage, cache>>
  BY <1>4, IntoEmpty DEF Downgrade
<1>7. \E f \in Kinds : Count(heap, v.val.at, f) > 0
  BY <1>0, <1>2, <1>4, HeldLive
<1> HIDE DEF v, w
<1>9. Takes(d, v)
  BY <1>4, <1>5, <1>6, <1>7 DEF Takes
<1> QED BY <1>9, TakeReference

(* The Weak has kept the address for the object. *)
LEMMA UpgradeStep ==
  ASSUME Memory, NEW h \in Places, NEW d \in Places, Upgrade(h, d)
  PROVE  Memory'
<1> DEFINE w == [type |-> "Arc", at |-> held[h].val.at]
           v == Owned(w, held[h].id)
<1>0. Full(h) /\ held[h].form # "raw" /\ held[h].val.at \in Addrs
  BY DEF Upgrade, IsOwned
<1>1. held[h].id \in Ids
  BY <1>0, HeldIs
<1>3. w \in SmartPointers
  BY <1>0 DEF SmartPointers, Pointers, Types
<1>4. v \in HeldType /\ v # Empty /\ v.form = "owned" /\ v.val = w /\ v.id = held[h].id
  BY <1>1, <1>3, OwnedIs
<1>5. Sound(v, heap)
  BY <1>0, <1>4 DEF Memory, AllSound, Sound, Full
<1>6. /\ heap' = inc(heap, v.val) /\ held[d] = Empty /\ held' = [held EXCEPT ![d] = v]
      /\ UNCHANGED <<storage, cache>>
  BY <1>4, IntoEmpty DEF Upgrade
<1>7. \E f \in Kinds : Count(heap, v.val.at, f) > 0
  BY <1>0, <1>4, HeldLive
<1> HIDE DEF v, w
<1>9. Takes(d, v)
  BY <1>4, <1>5, <1>6, <1>7 DEF Takes
<1> QED BY <1>9, TakeReference

(* A raw pointer is in no books. *)
LEMMA AsRawStep ==
  ASSUME Memory, NEW h \in Places, NEW d \in Places, AsRaw(h, d)
  PROVE  Memory'
<1> DEFINE v == Holding("raw", <<>>, held[h].val, held[h].id)
<1>0. Full(h)
  BY DEF AsRaw, Plain
<1>1. v \in HeldType /\ v # Empty /\ v.form = "raw"
  BY <1>0, HeldIs, HoldingIs DEF Forms
<1>2. Sound(v, heap) /\ \A a, f : ~Refers(v, a, f)
  BY <1>1 DEF Sound, Refers
<1>3. held' = [held EXCEPT ![d] = v] /\ held[d] = Empty /\ UNCHANGED <<heap, storage, cache>>
  BY IntoEmpty DEF AsRaw
<1>4. \A a \in Addrs, f \in Kinds : One(v, a, f) = One(held[d], a, f)
  BY <1>2, <1>3, EmptyRefers DEF One, Bit
<1> HIDE DEF v
<1>9. Reforms(d, v)
  BY <1>1, <1>2, <1>3, <1>4 DEF Reforms
<1> QED BY <1>9, SameReferences

(* The reference of a guard stays with the value. *)
LEMMA IntoInnerStep ==
  ASSUME Memory, NEW h \in Places, IntoInner(h)
  PROVE  Memory'
<1> DEFINE v == Holding("owned", held[h].layers, held[h].val, held[h].id)
<1>0. Full(h) /\ held[h].form = "guard"
  BY DEF IntoInner, IsGuard
<1>1. v \in HeldType /\ v # Empty /\ v.form = "owned" /\ v.val = held[h].val /\ v.id = held[h].id
  BY <1>0, HeldIs, HoldingIs DEF Forms
<1>2. Sound(v, heap) /\ \A a \in Addrs, f \in Kinds : One(v, a, f) = One(held[h], a, f)
  BY <1>0, <1>1, OneRef DEF Memory, AllSound, Sound, Full
<1>3. [held[h] EXCEPT !.form = "owned"] = v
  BY <1>0, HeldIs, Reformed
<1>4. held' = [held EXCEPT ![h] = v] /\ UNCHANGED <<heap, storage, cache>>
  BY <1>3 DEF IntoInner
<1> HIDE DEF v
<1>9. Reforms(h, v)
  BY <1>1, <1>2, <1>4 DEF Reforms
<1> QED BY <1>9, SameReferences

(* And back. *)
LEMMA FromInnerStep ==
  ASSUME Memory, NEW h \in Places, FromInner(h)
  PROVE  Memory'
<1> DEFINE v == Holding("guard", held[h].layers, held[h].val, held[h].id)
<1>0. Full(h) /\ held[h].form = "owned"
  BY DEF FromInner, IsOwned
<1>1. v \in HeldType /\ v # Empty /\ v.form = "guard" /\ v.val = held[h].val /\ v.id = held[h].id
  BY <1>0, HeldIs, HoldingIs DEF Forms
<1>2. Sound(v, heap) /\ \A a \in Addrs, f \in Kinds : One(v, a, f) = One(held[h], a, f)
  BY <1>0, <1>1, OneRef DEF Memory, AllSound, Sound, Full
<1>3. [held[h] EXCEPT !.form = "guard"] = v
  BY <1>0, HeldIs, Reformed
<1>4. held' = [held EXCEPT ![h] = v] /\ UNCHANGED <<heap, storage, cache>>
  BY <1>3 DEF FromInner
<1> HIDE DEF v
<1>9. Reforms(h, v)
  BY <1>1, <1>2, <1>4 DEF Reforms
<1> QED BY <1>9, SameReferences

(* Load, through any of the accesses: the storage keeps the object until the
   guard has its reference. *)
LEMMA LoadStep ==
  ASSUME Memory, NEW acc \in Accesses, NEW h \in Places, Load(acc, h)
  PROVE  Memory'
<1> DEFINE v == Holding("guard", Layers(acc), Inside, storage.id)
<1>0. Exists
  BY DEF Load
<1>1. v \in HeldType /\ v # Empty /\ v.form = "guard" /\ v.val = Inside /\ v.id = storage.id
  BY <1>0, InsideIs, HoldingIs DEF Forms
<1>2. /\ Sound(v, heap)
      /\ v.val.at \in Addrs => \E f \in Kinds : Count(heap, v.val.at, f) > 0
  BY <1>0, <1>1, InsideIs, Live, KindOf DEF Memory, AllSound, Sound, Exists
<1>3. /\ heap' = inc(heap, v.val) /\ held[h] = Empty /\ held' = [held EXCEPT ![h] = v]
      /\ UNCHANGED <<storage, cache>>
  BY <1>1, IntoEmpty DEF Load
<1> HIDE DEF v
<1>9. Takes(h, v)
  BY <1>1, <1>2, <1>3 DEF Takes
<1> QED BY <1>9, TakeReference

(* load_full. *)
LEMMA LoadFullStep ==
  ASSUME Memory, NEW h \in Places, LoadFull(h)
  PROVE  Memory'
<1> DEFINE v == Owned(Inside, storage.id)
<1>0. Exists
  BY DEF LoadFull
<1>1. v \in HeldType /\ v # Empty /\ v.form = "owned" /\ v.val = Inside /\ v.id = storage.id
  BY <1>0, InsideIs, OwnedIs
<1>2. /\ Sound(v, heap)
      /\ v.val.at \in Addrs => \E f \in Kinds : Count(heap, v.val.at, f) > 0
  BY <1>0, <1>1, InsideIs, Live, KindOf DEF Memory, AllSound, Sound, Exists
<1>3. /\ heap' = inc(heap, v.val) /\ held[h] = Empty /\ held' = [held EXCEPT ![h] = v]
      /\ UNCHANGED <<storage, cache>>
  BY <1>1, IntoEmpty DEF LoadFull
<1> HIDE DEF v
<1>9. Takes(h, v)
  BY <1>1, <1>2, <1>3 DEF Takes
<1> QED BY <1>9, TakeReference

-----------------------------------------------------------------------------
(* What an operation is given. *)
LEMMA ArgumentIs ==
  ASSUME Memory, NEW T \in Types, NEW arg \in Arguments(T)
  PROVE  \/ /\ arg.val \in Pointers(T) /\ arg.val.at \notin Addrs
            /\ arg.id = Nothing /\ arg.from = {}
         \/ \E k \in Places :
              /\ arg.from = {k} /\ IsOwned(k)
              /\ arg.val \in Pointers(T) /\ arg.val.at = held[k].val.at
              /\ Counted(arg.val) = Counted(held[k].val) /\ arg.id = held[k].id
<1>1. CASE arg \in {[val |-> x, id |-> Nothing, from |-> {}] :
                      x \in {y \in Pointers(T) : y.at \notin Addrs}}
  BY <1>1
<1>2. CASE arg \notin {[val |-> x, id |-> Nothing, from |-> {}] :
                         x \in {y \in Pointers(T) : y.at \notin Addrs}}
  <2>1. PICK k \in Places :
          /\ IsOwned(k) /\ <<held[k].val.type, T>> \in {<<T, T>>, <<"Arc", "Option">>}
          /\ arg = [val |-> [held[k].val EXCEPT !.type = T], id |-> held[k].id,
                    from |-> {k}]
    BY <1>2 DEF Arguments
  <2>2. held[k].val \in SmartPointers
    BY <2>1, HeldIs DEF IsOwned
  <2>3. /\ held[k].val \in Pointers(held[k].val.type)
        /\ held[k].val = [type |-> held[k].val.type, at |-> held[k].val.at]
    BY <2>2, PointerShape
  <2>4. arg.from = {k} /\ arg.id = held[k].id /\ arg.val = [held[k].val EXCEPT !.type = T]
    BY <2>1
  <2>5. arg.val.at = held[k].val.at /\ arg.val.type = T
        /\ arg.val = [type |-> T, at |-> held[k].val.at]
    BY <2>3, <2>4
  <2>6. CASE held[k].val.type = T
    <3>1. arg.val = held[k].val
      BY <2>3, <2>5, <2>6
    <3> QED BY <2>1, <2>3, <2>4, <2>6, <3>1
  <2>7. CASE held[k].val.type = "Arc" /\ T = "Option"
    <3>1. held[k].val.at \in Addrs
      BY <2>3, <2>7 DEF Pointers
    <3>2. arg.val \in Pointers(T)
      BY <2>5, <2>7, <3>1 DEF Pointers
    <3>3. Counted(arg.val) = Counted(held[k].val)
      BY <2>5, <2>7 DEF Counted
    <3> QED BY <2>1, <2>4, <2>5, <3>2, <3>3
  <2> QED BY <2>1, <2>6, <2>7
<1> QED BY <1>1, <1>2

(* It is moved out of its place, and its reference with it. *)
LEMMA ArgumentMoved ==
  ASSUME Memory, NEW T \in Types, NEW arg \in Arguments(T)
  PROVE  /\ Moved(arg.from) \in [Places -> HeldType]
         /\ \A h \in Places : Moved(arg.from)[h] = IF h \in arg.from THEN Empty ELSE held[h]
         /\ arg.id \in Ids /\ arg.val \in Pointers(T) /\ arg.val \in SmartPointers
         /\ arg.id = IF arg.val.at \in Addrs THEN heap[arg.val.at].id ELSE Nothing
<1>1. /\ Moved(arg.from) \in [Places -> HeldType]
      /\ \A h \in Places : Moved(arg.from)[h] = IF h \in arg.from THEN Empty ELSE held[h]
  <2>1. Empty \in HeldType
    BY DEF HeldType
  <2> QED BY <2>1 DEF Moved, Memory, Shapes
<1>2. \A k \in Places : IsOwned(k) =>
        /\ held[k].id \in Ids
        /\ held[k].id = IF held[k].val.at \in Addrs THEN heap[held[k].val.at].id ELSE Nothing
  BY HeldIs DEF IsOwned, Full, Memory, AllSound, Sound
<1>3. /\ arg.id \in Ids /\ arg.val \in Pointers(T)
      /\ arg.id = IF arg.val.at \in Addrs THEN heap[arg.val.at].id ELSE Nothing
  BY <1>2, ArgumentIs, IdsHaveNothing
<1>4. arg.val \in SmartPointers
  BY <1>3 DEF SmartPointers
<1> QED BY <1>1, <1>3, <1>4

(* hd is what the program holds, but for the place k. *)
LEMMA TakenOut ==
  ASSUME NEW hd, NEW k \in Places, \A h \in Places \ {k} : held[h] = hd[h]
  PROVE  \A ca, st, a, f :
           Total(held, ca, st, a, f) + One(hd[k], a, f)
             = Total(hd, ca, st, a, f) + One(held[k], a, f)
BY PlacePut

(* The references that are left when it is moved. *)
LEMMA ArgumentCounts ==
  ASSUME Memory, NEW T \in Types, NEW arg \in Arguments(T), NEW ca, NEW st,
         NEW a \in Addrs, NEW f \in Kinds
  PROVE  Total(held, ca, st, a, f) = Total(Moved(arg.from), ca, st, a, f) + Ref(arg.val, a, f)
<1> DEFINE hq == Moved(arg.from)
<1>0. Total(held, ca, st, a, f) \in Nat /\ Total(hq, ca, st, a, f) \in Nat
  BY TotalPositive
<1>1. CASE arg.val.at \notin Addrs /\ arg.from = {}
  <2>1. hq = held
    BY <1>1 DEF Moved, Memory, Shapes
  <2>2. Ref(arg.val, a, f) = 0
    BY <1>1 DEF Ref
  <2> QED BY <1>0, <2>1, <2>2
<1>2. ASSUME NEW k \in Places, arg.from = {k}, IsOwned(k),
             arg.val.at = held[k].val.at, Counted(arg.val) = Counted(held[k].val)
      PROVE  Total(held, ca, st, a, f) = Total(hq, ca, st, a, f) + Ref(arg.val, a, f)
  <2>1. hq[k] = Empty /\ \A h \in Places \ {k} : hq[h] = held[h]
    BY <1>2, ArgumentMoved
  <2>2. One(hq[k], a, f) = 0 /\ One(held[k], a, f) = Ref(arg.val, a, f)
    BY <1>2, <2>1, EmptyRefers, OneRef DEF IsOwned, Full, Ref
  <2> HIDE DEF hq
  <2>3. Total(hq, ca, st, a, f) + One(held[k], a, f)
          = Total(held, ca, st, a, f) + One(hq[k], a, f)
    <3>1. \A h \in Places \ {k} : held[h] = hq[h]
      BY <2>1
    <3> QED BY <3>1, TakenOut
  <2> QED BY <1>0, <2>2, <2>3
<1> QED BY <1>1, <1>2, ArgumentIs

(* The storage once arg is in it. *)
LEMMA StoredIs ==
  ASSUME Memory, NEW T \in Types, NEW arg \in Arguments(T), Stored(T, arg)
  PROVE  /\ storage' \in StorageType /\ storage' # Empty /\ storage'.form = "storage"
         /\ storage'.val = arg.val /\ storage'.id = arg.id
         /\ Sound(storage', heap)
         /\ \A a, f : One(storage', a, f) = Ref(arg.val, a, f)
         /\ StorageIs' /\ Borrowing'
<1>1. storage' = [form |-> "storage", type |-> T, ptr |-> as_ptr(arg.val),
                  val |-> arg.val, id |-> arg.id]
  BY DEF Stored
<1>2. as_ptr(arg.val) \in Addrs \cup {Null}
  BY ArgumentMoved, AsPtr
<1>3. /\ storage'.form = "storage" /\ storage'.type = T /\ storage'.ptr = as_ptr(arg.val)
      /\ storage'.val = arg.val /\ storage'.id = arg.id
  BY <1>1
<1>4. storage' \in StorageType
  BY <1>1, <1>2, ArgumentMoved DEF StorageType
<1>5. storage' # Empty
  BY <1>3 DEF Empty
<1>6. Sound(storage', heap)
  BY <1>3, ArgumentMoved DEF Sound
<1>7. \A a, f : One(storage', a, f) = Ref(arg.val, a, f)
  BY <1>3, <1>5, OneRef
<1>8. StorageIs' /\ Borrowing'
  BY <1>3, <1>5, ArgumentMoved DEF StorageIs, Borrowing, Exists
<1> QED BY <1>3, <1>4, <1>5, <1>6, <1>7, <1>8

(* The storage as a holder. *)
LEMMA StorageOne ==
  ASSUME Memory, Exists
  PROVE  \A a, f : One(storage, a, f) = Ref(Inside, a, f)
<1>1. storage # Empty /\ storage.form = "storage" /\ Inside = storage.val
  BY InsideIs DEF Exists
<1> QED BY <1>1, OneRef

(* The storage keeps what is inside. *)
LEMMA InsideLive ==
  ASSUME Memory, Exists, Inside.at \in Addrs
  PROVE  /\ Count(heap, Inside.at, Counted(Inside)) > 0
         /\ \E k \in Kinds : Count(heap, Inside.at, k) > 0
         /\ storage.id = heap[Inside.at].id
<1>1. storage # Empty /\ storage.form = "storage" /\ Inside = storage.val
  BY InsideIs DEF Exists
<1>2. Count(heap, Inside.at, Counted(Inside)) > 0
  BY <1>1, Live DEF Memory
<1>3. storage.id = heap[Inside.at].id
  BY <1>1 DEF Memory, AllSound, Sound
<1> QED BY <1>2, <1>3, KindOf

(* with_strategy: the reference moves into the storage. *)
LEMMA NewStep ==
  ASSUME Memory, NEW T \in Types, NEW arg \in Arguments(T), New(T, arg)
  PROVE  Memory'
<1> DEFINE hq == Moved(arg.from)
<1>1. /\ storage = Empty /\ Stored(T, arg) /\ held' = hq /\ heap' = heap /\ cache' = cache
  BY DEF New, Exists
<1>2. Shapes'
  BY <1>1, ArgumentMoved, StoredIs DEF Memory, Shapes
<1>3. WellFormed(heap') /\ \A a \in Addrs : heap'[a].id = heap[a].id
  BY <1>1 DEF Memory
<1>4. ASSUME NEW a \in Addrs, NEW f \in Kinds
      PROVE  Total(hq, cache, storage', a, f) = Total(held, cache, storage, a, f)
  <2>1. Total(held, cache, storage, a, f) = Total(hq, cache, storage, a, f) + Ref(arg.val, a, f)
    BY ArgumentCounts
  <2> HIDE DEF hq
  <2>2. Total(hq, cache, storage', a, f) + One(storage, a, f)
          = Total(hq, cache, storage, a, f) + One(storage', a, f)
    BY StoragePut
  <2>3. One(storage, a, f) = 0 /\ One(storage', a, f) = Ref(arg.val, a, f)
    BY <1>1, EmptyRefers, StoredIs
  <2>4. Total(hq, cache, storage', a, f) \in Nat /\ Total(hq, cache, storage, a, f) \in Nat
    BY TotalPositive
  <2> QED BY <2>1, <2>2, <2>3, <2>4
<1>5. Balanced(heap', held', cache', storage')
  BY <1>1, <1>4 DEF Memory, Balanced
<1>6. AllSound(heap, held', cache', storage')
  <2>1. Sound(Empty, heap) /\ Sound(storage', heap)
    BY <1>1, StoredIs DEF Sound
  <2> QED BY <1>1, <2>1, ArgumentMoved DEF Memory, AllSound
<1>7. StorageIs' /\ Borrowing'
  BY <1>1, StoredIs
<1> QED BY <1>2, <1>3, <1>5, <1>6, <1>7, MemoryAgain

(* store: one reference moves in and the other one is dropped. *)
LEMMA StoreStep ==
  ASSUME Memory, Exists, NEW arg \in Arguments(storage.type), Store(arg)
  PROVE  Memory'
<1> DEFINE hq == Moved(arg.from)
<1>0. storage.type \in Types
  BY InsideIs
<1>1. /\ Stored(storage.type, arg) /\ held' = hq /\ heap' = dec(heap, Inside)
      /\ cache' = cache
  BY DEF Store
<1>2. Shapes'
  BY <1>0, <1>1, ArgumentMoved, StoredIs DEF Memory, Shapes
<1>3. WellFormed(heap') /\ \A a \in Addrs : heap'[a].id \in {heap[a].id, Nothing}
  BY <1>1, InsideLive, DecKeeps DEF Memory
<1>4. ASSUME NEW a \in Addrs, NEW f \in Kinds
      PROVE  Total(hq, cache, storage', a, f) + Ref(Inside, a, f)
               = Total(held, cache, storage, a, f)
  <2>1. Total(held, cache, storage, a, f) = Total(hq, cache, storage, a, f) + Ref(arg.val, a, f)
    BY <1>0, ArgumentCounts
  <2> HIDE DEF hq
  <2>2. Total(hq, cache, storage', a, f) + One(storage, a, f)
          = Total(hq, cache, storage, a, f) + One(storage', a, f)
    BY StoragePut
  <2>3. One(storage, a, f) = Ref(Inside, a, f) /\ One(storage', a, f) = Ref(arg.val, a, f)
    BY <1>0, <1>1, StorageOne, StoredIs
  <2> QED BY <2>1, <2>2, <2>3
<1>5. Balanced(heap', held', cache', storage')
  <2>1. heap \in Heaps /\ Balanced(heap, held, cache, storage)
    BY DEF Memory, WellFormed
  <2> HIDE DEF hq
  <2>2. Balanced(dec(heap, Inside), hq, cache, storage')
    BY <1>4, <2>1, InsideLive, BalancedDec
  <2> QED BY <1>1, <2>2
<1>6. AllSound(heap, held', cache', storage')
  <2>1. Sound(Empty, heap) /\ Sound(storage', heap)
    BY <1>0, <1>1, StoredIs DEF Sound
  <2> QED BY <1>0, <1>1, <2>1, ArgumentMoved DEF Memory, AllSound
<1>7. StorageIs' /\ Borrowing'
  BY <1>0, <1>1, StoredIs
<1> QED BY <1>2, <1>3, <1>5, <1>6, <1>7, MemoryAgain

(* swap: one reference moves in and the other one out. *)
LEMMA SwapStep ==
  ASSUME Memory, Exists, NEW arg \in Arguments(storage.type), NEW h \in Places, Swap(arg, h)
  PROVE  Memory'
<1> DEFINE hq == Moved(arg.from)
           v == Owned(Inside, storage.id)
<1>0. storage.type \in Types
  BY InsideIs
<1>1. /\ Stored(storage.type, arg) /\ heap' = heap /\ cache' = cache
      /\ hq[h] = Empty /\ held' = [hq EXCEPT ![h] = v]
  BY DEF Swap, Into
<1>2. v \in HeldType /\ v # Empty /\ v.form = "owned" /\ v.val = Inside /\ v.id = storage.id
  BY InsideIs, OwnedIs
<1>3. held' \in [Places -> HeldType] /\ held'[h] = v /\ \A k \in Places \ {h} : held'[k] = hq[k]
  BY <1>0, <1>1, <1>2, ArgumentMoved
<1>4. Shapes'
  BY <1>0, <1>1, <1>3, StoredIs DEF Memory, Shapes
<1>5. WellFormed(heap') /\ \A a \in Addrs : heap'[a].id = heap[a].id
  BY <1>1 DEF Memory
<1>6. ASSUME NEW a \in Addrs, NEW f \in Kinds
      PROVE  Total(held', cache, storage', a, f) = Total(held, cache, storage, a, f)
  <2>1. Total(held, cache, storage, a, f) = Total(hq, cache, storage, a, f) + Ref(arg.val, a, f)
    BY <1>0, ArgumentCounts
  <2>2. /\ One(storage, a, f) = Ref(Inside, a, f) /\ One(storage', a, f) = Ref(arg.val, a, f)
        /\ One(v, a, f) = Ref(Inside, a, f) /\ One(hq[h], a, f) = 0
    BY <1>0, <1>1, <1>2, StorageOne, StoredIs, OneRef, EmptyRefers
  <2> HIDE DEF hq, v
  <2>3. Total(hq, cache, storage', a, f) + One(storage, a, f)
          = Total(hq, cache, storage, a, f) + One(storage', a, f)
    BY StoragePut
  <2>4. Total(held', cache, storage', a, f) + One(hq[h], a, f)
          = Total(hq, cache, storage', a, f) + One(held'[h], a, f)
    BY <1>3, PlacePut
  <2>5. /\ Total(hq, cache, storage', a, f) \in Nat /\ Total(hq, cache, storage, a, f) \in Nat
        /\ Total(held', cache, storage', a, f) \in Nat
    BY TotalPositive
  <2>6. Ref(arg.val, a, f) \in Nat /\ Ref(Inside, a, f) \in Nat
    BY DEF Ref
  <2> QED BY <1>3, <2>1, <2>2, <2>3, <2>4, <2>5, <2>6
<1>7. Balanced(heap', held', cache', storage')
  BY <1>1, <1>6 DEF Memory, Balanced
<1>8. AllSound(heap, held', cache', storage')
  <2>1. Sound(Empty, heap) /\ Sound(storage', heap)
    BY <1>0, <1>1, StoredIs DEF Sound
  <2>2. Sound(v, heap)
    BY <1>2, InsideIs DEF Memory, AllSound, Sound, Exists
  <2>3. \A k \in Places : Sound(hq[k], heap)
    BY <1>0, <2>1, ArgumentMoved DEF Memory, AllSound
  <2> HIDE DEF hq, v
  <2> QED BY <1>1, <1>3, <2>1, <2>2, <2>3 DEF Memory, AllSound
<1>9. StorageIs' /\ Borrowing'
  BY <1>0, <1>1, StoredIs
<1> QED BY <1>4, <1>5, <1>7, <1>8, <1>9, MemoryAgain

(* The storage is dropped with its reference. *)
LEMMA DropStorageStep ==
  ASSUME Memory, DropStorage
  PROVE  Memory'
<1>1. /\ Exists /\ Unused /\ heap' = dec(heap, Inside) /\ storage' = Empty
      /\ held' = held /\ cache' = cache
  BY DEF DropStorage
<1>2. Shapes'
  BY <1>1 DEF Memory, Shapes, StorageType
<1>3. WellFormed(heap') /\ \A a \in Addrs : heap'[a].id \in {heap[a].id, Nothing}
  BY <1>1, InsideLive, DecKeeps DEF Memory
<1>4. ASSUME NEW a \in Addrs, NEW f \in Kinds
      PROVE  Total(held, cache, Empty, a, f) + Ref(Inside, a, f)
               = Total(held, cache, storage, a, f)
  <2>1. Total(held, cache, Empty, a, f) + One(storage, a, f)
          = Total(held, cache, storage, a, f) + One(Empty, a, f)
    BY StoragePut
  <2>2. One(storage, a, f) = Ref(Inside, a, f) /\ One(Empty, a, f) = 0
    BY <1>1, StorageOne, EmptyRefers
  <2>3. Total(held, cache, storage, a, f) \in Nat
    BY TotalPositive
  <2> QED BY <2>1, <2>2, <2>3
<1>5. Balanced(heap', held', cache', storage')
  <2>1. heap \in Heaps /\ Balanced(heap, held, cache, storage)
    BY DEF Memory, WellFormed
  <2>2. Balanced(dec(heap, Inside), held, cache, Empty)
    BY <1>1, <1>4, <2>1, InsideLive, BalancedDec
  <2> QED BY <1>1, <2>2
<1>6. AllSound(heap, held', cache', storage')
  BY <1>1 DEF Memory, AllSound, Sound
<1>7. StorageIs' /\ Borrowing'
  BY <1>1 DEF StorageIs, Borrowing, Exists, Unused
<1> QED BY <1>2, <1>3, <1>5, <1>6, <1>7, MemoryAgain

(* into_inner of the storage: the reference moves out. *)
LEMMA UnwrapStorageStep ==
  ASSUME Memory, NEW h \in Places, UnwrapStorage(h)
  PROVE  Memory'
<1> DEFINE v == Owned(Inside, storage.id)
<1>1. /\ Exists /\ Unused /\ heap' = heap /\ storage' = Empty /\ cache' = cache
      /\ held[h] = Empty /\ held' = [held EXCEPT ![h] = v]
  BY IntoEmpty DEF UnwrapStorage
<1>2. v \in HeldType /\ v # Empty /\ v.form = "owned" /\ v.val = Inside /\ v.id = storage.id
  BY <1>1, InsideIs, OwnedIs
<1>3. /\ held' \in [Places -> HeldType] /\ held'[h] = v
      /\ \A k \in Places \ {h} : held'[k] = held[k]
  BY <1>1, <1>2 DEF Memory, Shapes
<1>4. Shapes'
  BY <1>1, <1>3 DEF Memory, Shapes, StorageType
<1>5. WellFormed(heap') /\ \A a \in Addrs : heap'[a].id = heap[a].id
  BY <1>1 DEF Memory
<1> HIDE DEF v
<1>6. ASSUME NEW a \in Addrs, NEW f \in Kinds
      PROVE  Total(held', cache, Empty, a, f) = Total(held, cache, storage, a, f)
  <2>1. Total(held, cache, Empty, a, f) + One(storage, a, f)
          = Total(held, cache, storage, a, f) + One(Empty, a, f)
    BY StoragePut
  <2>2. Total(held', cache, Empty, a, f) + One(held[h], a, f)
          = Total(held, cache, Empty, a, f) + One(held'[h], a, f)
    BY <1>3, HeldPut
  <2>3. /\ One(storage, a, f) = Ref(Inside, a, f) /\ One(Empty, a, f) = 0
        /\ One(held[h], a, f) = 0 /\ One(held'[h], a, f) = Ref(Inside, a, f)
    BY <1>1, <1>2, <1>3, StorageOne, EmptyRefers, OneRef
  <2>4. /\ Total(held, cache, storage, a, f) \in Nat
        /\ Total(held, cache, Empty, a, f) \in Nat
        /\ Total(held', cache, Empty, a, f) \in Nat
    BY TotalPositive
  <2> QED BY <2>1, <2>2, <2>3, <2>4
<1>7. Balanced(heap', held', cache', storage')
  BY <1>1, <1>6 DEF Memory, Balanced
<1>8. AllSound(heap, held', cache', storage')
  <2>1. Sound(v, heap) /\ Sound(Empty, heap)
    BY <1>1, <1>2, InsideIs DEF Memory, AllSound, Sound, Exists
  <2> QED BY <1>1, <1>3, <2>1 DEF Memory, AllSound
<1>9. StorageIs' /\ Borrowing'
  BY <1>1 DEF StorageIs, Borrowing, Exists, Unused
<1> QED BY <1>4, <1>5, <1>7, <1>8, <1>9, MemoryAgain

(* A pointer, a guard or a raw pointer is dropped. *)
LEMMA DropStep ==
  ASSUME Memory, NEW h \in Places, Drop(h)
  PROVE  Memory'
<1>1. /\ Full(h) /\ UNCHANGED <<storage, cache>>
      /\ held' \in [Places -> HeldType]
      /\ held'[h] = Empty /\ \A k \in Places \ {h} : held'[k] = held[k]
  <2>1. Empty \in HeldType
    BY DEF HeldType
  <2> QED BY <2>1 DEF Drop, Moved, Memory, Shapes
<1>2. Sound(Empty, heap)
  BY DEF Sound
<1>3. CASE held[h].form = "raw"
  <2>1. heap' = heap /\ held' = [held EXCEPT ![h] = Empty]
    BY <1>3 DEF Drop, Moved, Memory, Shapes
  <2>2. \A a \in Addrs, f \in Kinds : One(Empty, a, f) = One(held[h], a, f)
    BY <1>3, EmptyRefers DEF One, Bit, Refers
  <2>3. Reforms(h, Empty)
    BY <1>1, <1>2, <2>1, <2>2 DEF Reforms, HeldType
  <2> QED BY <2>3, SameReferences
<1>4. CASE held[h].form # "raw"
  <2>1. heap' = dec(heap, held[h].val)
    BY <1>4 DEF Drop
  <2>2. Shapes'
    BY <1>1 DEF Memory, Shapes
  <2>3. held[h].val.at \in Addrs => Count(heap, held[h].val.at, Counted(held[h].val)) > 0
    BY <1>1, <1>4, HeldLive
  <2>4. WellFormed(heap') /\ \A a \in Addrs : heap'[a].id \in {heap[a].id, Nothing}
    BY <2>1, <2>3, DecKeeps DEF Memory
  <2>5. ASSUME NEW a \in Addrs, NEW f \in Kinds
        PROVE  Total(held', cache, storage, a, f) + Ref(held[h].val, a, f)
                 = Total(held, cache, storage, a, f)
    <3>1. Total(held', cache, storage, a, f) + One(held[h], a, f)
            = Total(held, cache, storage, a, f) + One(held'[h], a, f)
      BY <1>1, HeldPut
    <3>2. One(held'[h], a, f) = 0 /\ One(held[h], a, f) = Ref(held[h].val, a, f)
      BY <1>1, <1>4, EmptyRefers, OneRef DEF Full
    <3>3. Total(held, cache, storage, a, f) \in Nat
      BY TotalPositive
    <3> QED BY <3>1, <3>2, <3>3
  <2>6. Balanced(heap', held', cache', storage')
    <3>1. heap \in Heaps /\ Balanced(heap, held, cache, storage)
      BY DEF Memory, WellFormed
    <3>2. Balanced(dec(heap, held[h].val), held', cache, storage)
      BY <2>3, <2>5, <3>1, BalancedDec
    <3> QED BY <1>1, <2>1, <3>2
  <2>7. AllSound(heap, held', cache', storage')
    BY <1>1, <1>2 DEF Memory, AllSound
  <2>8. StorageIs' /\ Borrowing'
    BY <1>1 DEF Memory, StorageIs, Borrowing, Exists, Unused
  <2> QED BY <2>2, <2>4, <2>6, <2>7, <2>8, MemoryAgain
<1> QED BY <1>3, <1>4

-----------------------------------------------------------------------------
(* One of the caches has changed. *)
LEMMA CachesPut ==
  ASSUME NEW c \in Caches, \A k \in Caches \ {c} : cache'[k] = cache[k]
  PROVE  \A hd, st, a, f :
           Total(hd, cache', st, a, f) + One(cache[c], a, f)
             = Total(hd, cache, st, a, f) + One(cache'[c], a, f)
<1> SUFFICES ASSUME NEW hd, NEW st, NEW a, NEW f
             PROVE  Total(hd, cache', st, a, f) + One(cache[c], a, f)
                      = Total(hd, cache, st, a, f) + One(cache'[c], a, f)
  OBVIOUS
<1>1. IsFiniteSet(Caches)
  BY FiniteAssumption
<1>2. /\ Number(Caches, cache, a, f) \in Nat /\ Number(Caches, cache', a, f) \in Nat
      /\ Number(Caches, cache', a, f) + One(cache[c], a, f)
           = Number(Caches, cache, a, f) + One(cache'[c], a, f)
  BY <1>1, Put
<1>3. Number(Places, hd, a, f) \in Nat
  BY FiniteAssumption, NumberType
<1> QED BY <1>2, <1>3, OneType DEF Total

(* What a cache is. *)
LEMMA CacheIs ==
  ASSUME Memory, NEW c \in Caches, cache[c] # Empty
  PROVE  /\ cache[c].form \in {"cache", "map_cache"} /\ cache[c].val \in SmartPointers
         /\ cache[c].id \in Ids /\ Exists
         /\ cache[c].val.at \in Addrs =>
              /\ Count(heap, cache[c].val.at, Counted(cache[c].val)) > 0
              /\ \E k \in Kinds : Count(heap, cache[c].val.at, k) > 0
              /\ cache[c].id = heap[cache[c].val.at].id
         /\ cache[c].val.at \notin Addrs => cache[c].id = Nothing
         /\ \A a, f : One(cache[c], a, f) = Ref(cache[c].val, a, f)
<1>1. /\ cache[c].form \in {"cache", "map_cache"} /\ cache[c].val \in SmartPointers
      /\ cache[c].id \in Ids
  BY DEF Memory, Shapes, CacheType
<1>2. Exists
  BY DEF Memory, Borrowing, Unused
<1>3. cache[c].val.at \in Addrs => Count(heap, cache[c].val.at, Counted(cache[c].val)) > 0
  BY <1>1, Live DEF Memory
<1>4. cache[c].id = IF cache[c].val.at \in Addrs THEN heap[cache[c].val.at].id ELSE Nothing
  BY <1>1 DEF Memory, AllSound, Sound
<1>5. \A a, f : One(cache[c], a, f) = Ref(cache[c].val, a, f)
  BY <1>1, OneRef
<1> QED BY <1>1, <1>2, <1>3, <1>4, <1>5, KindOf

(* A cache with the pointer x. *)
CacheValue(form, x, id) == [form |-> form, val |-> x, id |-> id]

(* What it is built of. *)
LEMMA CacheValueIs ==
  ASSUME NEW form \in {"cache", "map_cache"}, NEW x \in SmartPointers, NEW id \in Ids
  PROVE  LET v == CacheValue(form, x, id) IN
         /\ v \in CacheType /\ v # Empty
         /\ v.form = form /\ v.val = x /\ v.id = id
BY DEF CacheValue, CacheType, Empty

(* A reference is taken for the cache c, which gets v. *)
TakesForCache(c, v) ==
  /\ v \in CacheType /\ v # Empty /\ v.form # "raw"
  /\ Sound(v, heap)
  /\ v.val.at \in Addrs => \E k \in Kinds : Count(heap, v.val.at, k) > 0
  /\ heap' = inc(heap, v.val)
  /\ cache[c] = Empty
  /\ cache' = [cache EXCEPT ![c] = v]
  /\ Exists
  /\ UNCHANGED <<storage, held>>

(* The books are balanced again. *)
LEMMA CacheReference ==
  ASSUME Memory, NEW c \in Caches, NEW v, TakesForCache(c, v)
  PROVE  Memory'
<1>1. cache'[c] = v /\ cache[c] = Empty /\ \A k \in Caches \ {c} : cache'[k] = cache[k]
  BY DEF Memory, Shapes, TakesForCache
<1>2. Shapes'
  BY DEF Memory, Shapes, TakesForCache
<1>3. WellFormed(heap') /\ \A a \in Addrs : heap'[a].id = heap[a].id
  BY IncKeeps DEF Memory, TakesForCache
<1>4. ASSUME NEW a \in Addrs, NEW f \in Kinds
      PROVE  Total(held, cache', storage, a, f)
               = Total(held, cache, storage, a, f) + Ref(v.val, a, f)
  <2>1. Total(held, cache', storage, a, f) + One(cache[c], a, f)
          = Total(held, cache, storage, a, f) + One(cache'[c], a, f)
    BY <1>1, CachesPut
  <2>2. One(cache[c], a, f) = 0 /\ One(cache'[c], a, f) = Ref(v.val, a, f)
    BY <1>1, EmptyRefers, OneRef DEF TakesForCache
  <2>3. /\ Total(held, cache, storage, a, f) \in Nat
        /\ Total(held, cache', storage, a, f) \in Nat
    BY TotalPositive
  <2> QED BY <2>1, <2>2, <2>3
<1>5. Balanced(heap', held', cache', storage')
  <2>1. heap \in Heaps /\ Balanced(heap, held, cache, storage)
    BY DEF Memory, WellFormed
  <2>2. Balanced(inc(heap, v.val), held, cache', storage)
    BY <1>4, <2>1, BalancedInc
  <2> QED BY <2>2 DEF TakesForCache
<1>6. AllSound(heap, held', cache', storage')
  BY <1>1 DEF Memory, AllSound, TakesForCache
<1>7. StorageIs' /\ Borrowing'
  BY DEF Memory, StorageIs, Borrowing, Exists, TakesForCache
<1> QED BY <1>2, <1>3, <1>5, <1>6, <1>7, MemoryAgain

(* Cache::new loads. *)
LEMMA CacheNewStep ==
  ASSUME Memory, NEW c \in Caches, CacheNew(c)
  PROVE  Memory'
<1> DEFINE v == CacheValue("cache", Inside, storage.id)
<1>0. Exists
  BY DEF CacheNew
<1>1. v \in CacheType /\ v # Empty /\ v.form = "cache" /\ v.val = Inside /\ v.id = storage.id
  BY <1>0, InsideIs, CacheValueIs
<1>2. /\ Sound(v, heap)
      /\ v.val.at \in Addrs => \E k \in Kinds : Count(heap, v.val.at, k) > 0
  BY <1>0, <1>1, InsideIs, InsideLive DEF Memory, AllSound, Sound, Exists
<1>3. /\ heap' = inc(heap, v.val) /\ cache[c] = Empty /\ cache' = [cache EXCEPT ![c] = v]
      /\ UNCHANGED <<storage, held>>
  BY <1>1 DEF CacheNew, Cached, CacheValue
<1> HIDE DEF v
<1>4. TakesForCache(c, v)
  BY <1>0, <1>1, <1>2, <1>3 DEF TakesForCache
<1> QED BY <1>4, CacheReference

(* The clone of a cache has a reference of its own. *)
LEMMA CacheCloneStep ==
  ASSUME Memory, NEW c \in Caches, NEW d \in Caches, CacheClone(c, d)
  PROVE  Memory'
<1>1. /\ cache[c] # Empty /\ heap' = inc(heap, cache[c].val) /\ cache[d] = Empty
      /\ cache' = [cache EXCEPT ![d] = cache[c]] /\ UNCHANGED <<storage, held>>
  BY DEF CacheClone
<1>2. cache[c] \in CacheType /\ Sound(cache[c], heap)
  BY DEF Memory, Shapes, AllSound
<1>3. /\ cache[c].form # "raw" /\ Exists
      /\ cache[c].val.at \in Addrs => \E k \in Kinds : Count(heap, cache[c].val.at, k) > 0
  BY <1>1, CacheIs
<1>4. TakesForCache(d, cache[c])
  BY <1>1, <1>2, <1>3 DEF TakesForCache
<1> QED BY <1>4, CacheReference

(* MapCache has the cache, and its reference, inside. *)
LEMMA CacheMapStep ==
  ASSUME Memory, NEW c \in Caches, CacheMap(c)
  PROVE  Memory'
<1> DEFINE v == CacheValue("map_cache", cache[c].val, cache[c].id)
<1>0. cache[c] # Empty /\ UNCHANGED <<heap, storage, held>>
  BY DEF CacheMap
<1>1. /\ v \in CacheType /\ v # Empty /\ v.form = "map_cache" /\ v.val = cache[c].val
      /\ v.id = cache[c].id
  BY <1>0, CacheIs, CacheValueIs
<1>2. [cache[c] EXCEPT !.form = "map_cache"] = v
  <2>1. cache[c] \in [form : {"cache", "map_cache"}, val : SmartPointers, id : Ids]
    BY <1>0 DEF Memory, Shapes, CacheType
  <2>2. cache[c] = [form |-> cache[c].form, val |-> cache[c].val, id |-> cache[c].id]
    BY <2>1
  <2> QED BY <2>2 DEF CacheValue
<1>3. /\ cache' \in [Caches -> CacheType] /\ cache'[c] = v
      /\ \A k \in Caches \ {c} : cache'[k] = cache[k]
  BY <1>1, <1>2 DEF CacheMap, Memory, Shapes
<1>4. Shapes'
  BY <1>0, <1>3 DEF Memory, Shapes
<1>5. WellFormed(heap') /\ \A a \in Addrs : heap'[a].id = heap[a].id
  BY <1>0 DEF Memory
<1>6. ASSUME NEW a \in Addrs, NEW f \in Kinds
      PROVE  Total(held, cache', storage, a, f) = Total(held, cache, storage, a, f)
  <2>1. Total(held, cache', storage, a, f) + One(cache[c], a, f)
          = Total(held, cache, storage, a, f) + One(cache'[c], a, f)
    BY <1>3, CachesPut
  <2>2. One(cache[c], a, f) = One(cache'[c], a, f) /\ One(cache[c], a, f) \in Nat
    BY <1>0, <1>1, <1>3, CacheIs, OneRef, OneType
  <2>3. /\ Total(held, cache, storage, a, f) \in Nat
        /\ Total(held, cache', storage, a, f) \in Nat
    BY TotalPositive
  <2> QED BY <2>1, <2>2, <2>3
<1>7. Balanced(heap', held', cache', storage')
  BY <1>0, <1>6 DEF Memory, Balanced
<1>8. AllSound(heap, held', cache', storage')
  <2>1. Sound(v, heap)
    BY <1>0, <1>1, CacheIs DEF Sound
  <2> QED BY <1>0, <1>3, <2>1 DEF Memory, AllSound
<1>9. StorageIs' /\ Borrowing'
  BY <1>0, CacheIs DEF Memory, StorageIs, Borrowing, Exists
<1> QED BY <1>4, <1>5, <1>7, <1>8, <1>9, MemoryAgain

(* A cache is dropped with its reference. *)
LEMMA CacheDropStep ==
  ASSUME Memory, NEW c \in Caches, CacheDrop(c)
  PROVE  Memory'
<1>0. cache[c] # Empty /\ heap' = dec(heap, cache[c].val) /\ UNCHANGED <<storage, held>>
  BY DEF CacheDrop
<1>1. /\ cache' \in [Caches -> CacheType]
      /\ cache'[c] = Empty /\ \A k \in Caches \ {c} : cache'[k] = cache[k]
  BY DEF CacheDrop, Memory, Shapes, CacheType
<1>2. Shapes'
  BY <1>0, <1>1 DEF Memory, Shapes
<1>3. WellFormed(heap') /\ \A a \in Addrs : heap'[a].id \in {heap[a].id, Nothing}
  BY <1>0, CacheIs, DecKeeps DEF Memory
<1>4. ASSUME NEW a \in Addrs, NEW f \in Kinds
      PROVE  Total(held, cache', storage, a, f) + Ref(cache[c].val, a, f)
               = Total(held, cache, storage, a, f)
  <2>1. Total(held, cache', storage, a, f) + One(cache[c], a, f)
          = Total(held, cache, storage, a, f) + One(cache'[c], a, f)
    BY <1>1, CachesPut
  <2>2. One(cache'[c], a, f) = 0 /\ One(cache[c], a, f) = Ref(cache[c].val, a, f)
    BY <1>0, <1>1, EmptyRefers, CacheIs
  <2>3. Total(held, cache, storage, a, f) \in Nat
    BY TotalPositive
  <2> QED BY <2>1, <2>2, <2>3
<1>5. Balanced(heap', held', cache', storage')
  <2>1. heap \in Heaps /\ Balanced(heap, held, cache, storage)
    BY DEF Memory, WellFormed
  <2>2. Balanced(dec(heap, cache[c].val), held, cache', storage)
    BY <1>0, <1>4, <2>1, CacheIs, BalancedDec
  <2> QED BY <1>0, <2>2
<1>6. AllSound(heap, held', cache', storage')
  <2>1. Sound(Empty, heap)
    BY DEF Sound
  <2> QED BY <1>0, <1>1, <2>1 DEF Memory, AllSound
<1>7. StorageIs' /\ Borrowing'
  BY <1>0, CacheIs DEF Memory, StorageIs, Borrowing, Exists
<1> QED BY <1>2, <1>3, <1>5, <1>6, <1>7, MemoryAgain

(* A new object: nobody refers to its address, and nobody remembers its
   number. *)
LEMMA ArcNewStep ==
  ASSUME Memory, NEW h \in Places, NEW a \in Addrs, ArcNew(h, a)
  PROVE  Memory'
<1>0. PICK new \in Ids :
        /\ IsNew(new) /\ heap[a] = Free
        /\ heap' = [heap EXCEPT ![a] = [strong |-> 1, weak |-> 0, id |-> new]]
        /\ Into(h, {}, Owned([type |-> "Arc", at |-> a], new))
        /\ UNCHANGED <<storage, cache>>
  BY DEF ArcNew
<1> DEFINE x == [type |-> "Arc", at |-> a]
           v == Owned(x, new)
<1>1. held[h] = Empty /\ held' = [held EXCEPT ![h] = v]
  BY <1>0, IntoEmpty
<1>2. new # Nothing /\ \A b \in Addrs : heap[b].id # new
  BY <1>0 DEF IsNew, Remembered
<1>3. v \in HeldType /\ v # Empty /\ v.form = "owned" /\ v.val = x /\ v.id = new
  <2>1. x \in SmartPointers
    BY DEF SmartPointers, Pointers, Types
  <2> QED BY <2>1, OwnedIs
<1>4. /\ held' \in [Places -> HeldType] /\ held'[h] = v
      /\ \A k \in Places \ {h} : held'[k] = held[k]
  BY <1>1, <1>3 DEF Memory, Shapes
<1>5. /\ heap' \in Heaps
      /\ heap'[a].strong = 1 /\ heap'[a].weak = 0 /\ heap'[a].id = new
      /\ \A b \in Addrs \ {a} : heap'[b] = heap[b]
      /\ heap[a].strong = 0 /\ heap[a].weak = 0
  BY <1>0 DEF Memory, WellFormed, Heaps, Cell, Free
<1>6. x.at = a /\ Counted(x) = "strong"
  BY DEF Counted
<1> HIDE DEF v, x
<1>7. WellFormed(heap')
  <2>1. \A b \in Addrs \ {a} : \A f \in Kinds : Count(heap', b, f) = Count(heap, b, f)
    BY <1>5 DEF Count
  <2>2. Count(heap', a, "strong") = 1 /\ "strong" \in Kinds
    BY <1>5 DEF Count, Kinds
  <2> QED BY <1>2, <1>5, <2>1, <2>2 DEF Memory, WellFormed
<1>8. UniqueIds(heap')
  BY <1>2, <1>5 DEF Memory, UniqueIds
<1>9. ASSUME NEW w, Sound(w, heap),
             (\E k \in Places : w = held[k]) \/ (\E c \in Caches : w = cache[c])
               \/ w = storage
      PROVE  Sound(w, heap')
  <2>1. CASE w # Empty /\ w.form # "raw" /\ w.val.at = a
    <3>1. Count(heap, w.val.at, Counted(w.val)) > 0
      BY <1>9, <2>1, Live DEF Memory
    <3> QED BY <1>5, <2>1, <3>1 DEF Count
  <2>2. CASE ~(w # Empty /\ w.form # "raw" /\ w.val.at = a)
    BY <1>5, <1>9, <2>2 DEF Sound
  <2> QED BY <2>1, <2>2
<1>10. AllSound(heap', held', cache', storage')
  <2>1. Sound(v, heap')
    BY <1>3, <1>5, <1>6 DEF Sound
  <2> QED BY <1>0, <1>4, <1>9, <2>1 DEF Memory, AllSound
<1>11. Balanced(heap', held', cache', storage')
  <2>1. ASSUME NEW b \in Addrs, NEW f \in Kinds
        PROVE  Count(heap', b, f) = Total(held', cache, storage, b, f)
    <3>1. Total(held', cache, storage, b, f) + One(held[h], b, f)
            = Total(held, cache, storage, b, f) + One(held'[h], b, f)
      BY <1>4, HeldPut
    <3>2. One(held[h], b, f) = 0 /\ One(held'[h], b, f) = Ref(x, b, f)
      BY <1>1, <1>3, <1>4, EmptyRefers, OneRef
    <3>3. /\ Total(held, cache, storage, b, f) \in Nat
          /\ Total(held', cache, storage, b, f) \in Nat
      BY TotalPositive
    <3>4. Count(heap', b, f) = Count(heap, b, f) + Ref(x, b, f)
      <4>1. CASE b = a
        BY <1>5, <1>6, <4>1 DEF Count, Ref, Kinds
      <4>2. CASE b # a
        BY <1>5, <1>6, <4>2, CountType DEF Count, Ref, Kinds, Memory,
           WellFormed
      <4> QED BY <4>1, <4>2
    <3>5. Count(heap, b, f) = Total(held, cache, storage, b, f)
      BY DEF Memory, Balanced
    <3> QED BY <3>1, <3>2, <3>3, <3>4, <3>5
  <2> QED BY <1>0, <2>1 DEF Balanced
<1>12. Shapes' /\ StorageIs' /\ Borrowing'
  BY <1>0, <1>4 DEF Memory, Shapes, StorageIs, Borrowing, Exists, Unused
<1> QED BY <1>7, <1>8, <1>10, <1>11, <1>12 DEF Memory

(* One more reference makes no other count smaller. *)
LEMMA IncCounts ==
  ASSUME NEW hp \in Heaps, NEW x, NEW a \in Addrs, NEW f \in Kinds, Count(hp, a, f) > 0
  PROVE  Count(inc(hp, x), a, f) > 0
<1>1. Count(inc(hp, x), a, f) = Count(hp, a, f) + Ref(x, a, f)
  BY IncEffect DEF Bit, Ref
<1>2. Count(hp, a, f) \in Nat
  BY CountType
<1> QED BY <1>1, <1>2 DEF Ref

(* A cache is revalidated: the reference to what is inside is taken before the
   one to what was cached is given up. *)
LEMMA CacheLoadStep ==
  ASSUME Memory, NEW c \in Caches, CacheLoad(c)
  PROVE  Memory'
<1>0. cache[c] # Empty /\ UNCHANGED <<storage, held>>
  BY DEF CacheLoad
<1>1. CASE as_ptr(cache[c].val) = storage.ptr
  <2>1. heap' = heap /\ cache' = cache
    BY <1>1 DEF CacheLoad
  <2> QED BY <1>0, <2>1 DEF Memory, Shapes, StorageIs, Borrowing, Exists,
     Unused
<1>2. CASE as_ptr(cache[c].val) # storage.ptr
  <2> DEFINE v == CacheValue(cache[c].form, Inside, storage.id)
             hp == inc(heap, Inside)
             old == cache[c].val
  <2>1. /\ Exists /\ cache[c].form \in {"cache", "map_cache"}
        /\ Inside \in SmartPointers /\ storage.id \in Ids
    BY <1>0, CacheIs, InsideIs
  <2>2. v \in CacheType /\ v # Empty /\ v.form # "raw" /\ v.val = Inside /\ v.id = storage.id
    BY <2>1, CacheValueIs
  <2>3. Cached(cache[c].form) = v
    BY DEF Cached, CacheValue
  <2>4. heap' = dec(hp, old)
    BY <1>2 DEF CacheLoad
  <2>5. /\ cache' \in [Caches -> CacheType] /\ cache'[c] = v
        /\ \A k \in Caches \ {c} : cache'[k] = cache[k]
    <3>1. cache' = [cache EXCEPT ![c] = v]
      BY <1>2, <2>3 DEF CacheLoad
    <3> QED BY <2>2, <3>1 DEF Memory, Shapes
  <2>6. /\ WellFormed(hp) /\ \A a \in Addrs : hp[a].id = heap[a].id
    BY <2>1, InsideLive, IncKeeps DEF Memory
  <2>7. old.at \in Addrs => Count(hp, old.at, Counted(old)) > 0
    <3>1. old.at \in Addrs => Count(heap, old.at, Counted(old)) > 0
      BY <1>0, CacheIs
    <3> QED BY <3>1, IncCounts, KindOf DEF Memory, WellFormed
  <2>8. \A a, f :
          One(cache[c], a, f) = Ref(old, a, f) /\ One(v, a, f) = Ref(Inside, a, f)
    BY <1>0, <2>2, CacheIs, OneRef
  <2>9. Sound(v, heap)
    BY <2>1, <2>2, InsideIs DEF Memory, AllSound, Sound, Exists
  <2> HIDE DEF v, hp, old
  <2>10. WellFormed(heap') /\ \A a \in Addrs : heap'[a].id \in {heap[a].id, Nothing}
    BY <2>4, <2>6, <2>7, DecKeeps
  <2>11. Balanced(heap', held', cache', storage')
    <3>1. ASSUME NEW a \in Addrs, NEW f \in Kinds
          PROVE  Count(heap', a, f) = Total(held, cache', storage, a, f)
      <4>1. Total(held, cache', storage, a, f) + Ref(old, a, f)
              = Total(held, cache, storage, a, f) + Ref(Inside, a, f)
        BY <2>5, <2>8, CachesPut
      <4>2. Count(hp, a, f) = Count(heap, a, f) + Ref(Inside, a, f)
        BY IncEffect DEF hp, Memory, WellFormed, Bit, Ref
      <4>3. Count(heap', a, f) = Count(hp, a, f) - Ref(old, a, f)
        BY <2>4, <2>6, <2>7, DecEffect DEF WellFormed, Bit, Ref
      <4>4. Count(heap, a, f) = Total(held, cache, storage, a, f)
        BY DEF Memory, Balanced
      <4>5. /\ Total(held, cache, storage, a, f) \in Nat
            /\ Total(held, cache', storage, a, f) \in Nat
        BY TotalPositive
      <4>6. Ref(old, a, f) \in Nat /\ Ref(Inside, a, f) \in Nat
        BY DEF Ref
      <4> QED BY <4>1, <4>2, <4>3, <4>4, <4>5, <4>6
    <3> QED BY <1>0, <3>1 DEF Balanced
  <2>12. AllSound(heap, held', cache', storage')
    BY <1>0, <2>5, <2>9 DEF Memory, AllSound
  <2>13. Shapes' /\ StorageIs' /\ Borrowing'
    BY <1>0, <2>1, <2>5 DEF Memory, Shapes, StorageIs, Borrowing, Exists
  <2> QED BY <2>10, <2>11, <2>12, <2>13, MemoryAgain
<1> QED BY <1>1, <1>2

(* Two holders have the same address if and only if they are for the same
   object, of which each of them keeps at least the memory. *)
LEMMA SameObject ==
  ASSUME Memory, NEW v, NEW w,
         v # Empty, v.form # "raw", v.val \in SmartPointers,
         w # Empty, w.form # "raw", w.val \in SmartPointers,
         (\E h \in Places : v = held[h]) \/ (\E c \in Caches : v = cache[c]) \/ v = storage,
         (\E h \in Places : w = held[h]) \/ (\E c \in Caches : w = cache[c]) \/ w = storage
  PROVE  as_ptr(v.val) = as_ptr(w.val) <=> v.id = w.id
<1>1. Sound(v, heap) /\ Sound(w, heap)
  BY DEF Memory, AllSound
<1>2. /\ as_ptr(v.val) = IF v.val.at \in Addrs THEN v.val.at ELSE Null
      /\ as_ptr(w.val) = IF w.val.at \in Addrs THEN w.val.at ELSE Null
  BY AsPtr
<1>3. /\ v.val.at \in Addrs => Count(heap, v.val.at, Counted(v.val)) > 0
      /\ w.val.at \in Addrs => Count(heap, w.val.at, Counted(w.val)) > 0
  BY Live DEF Memory
<1>4. /\ v.val.at \in Addrs => heap[v.val.at].id # Nothing
      /\ w.val.at \in Addrs => heap[w.val.at].id # Nothing
  BY <1>3, KindOf DEF Memory, WellFormed
<1> QED BY <1>1, <1>2, <1>4, AddrsAssumption DEF Memory, UniqueIds, Sound

-----------------------------------------------------------------------------
(* Something is put into the place d of hd. *)
LEMMA PutInto ==
  ASSUME NEW hd, NEW d \in Places, \A k \in Places \ {d} : held'[k] = hd[k]
  PROVE  \A ca, st, a, f :
           Total(held', ca, st, a, f) + One(hd[d], a, f)
             = Total(hd, ca, st, a, f) + One(held'[d], a, f)
BY PlacePut

(* Who gives a value keeps its object alive. *)
LEMMA ArgumentLive ==
  ASSUME Memory, NEW T \in Types, NEW arg \in Arguments(T), arg.val.at \in Addrs
  PROVE  Count(heap, arg.val.at, Counted(arg.val)) > 0
<1>1. PICK k \in Places :
        /\ IsOwned(k) /\ arg.val.at = held[k].val.at
        /\ Counted(arg.val) = Counted(held[k].val)
  BY ArgumentIs
<1>2. Full(k) /\ held[k].form # "raw"
  BY <1>1 DEF IsOwned
<1> QED BY <1>1, <1>2, HeldLive

(* The exchange itself, done or not: there is a reference for the guard that is
   returned, next to those of the storage and of all the others. *)
Exchange(arg, result) ==
  \/ Stored(storage.type, arg) /\ result = heap
  \/ UNCHANGED storage /\ result = NotSwapped(arg)

(* The books with that one reference on top. *)
LEMMA Exchanged ==
  ASSUME Memory, Exists, NEW arg \in Arguments(storage.type), NEW result,
         Exchange(arg, result)
  PROVE  /\ WellFormed(result)
         /\ \A a \in Addrs : result[a].id \in {heap[a].id, Nothing}
         /\ storage' \in StorageType /\ StorageIs' /\ Borrowing' /\ Sound(storage', heap)
         /\ \A a \in Addrs, f \in Kinds :
              Count(result, a, f)
                = Total(Moved(arg.from), cache, storage', a, f) + Ref(Inside, a, f)
<1> DEFINE hq == Moved(arg.from)
<1>0. storage.type \in Types
  BY InsideIs
<1>1. ASSUME NEW a \in Addrs, NEW f \in Kinds
      PROVE  /\ Count(heap, a, f) = Total(hq, cache, storage, a, f) + Ref(arg.val, a, f)
             /\ Total(hq, cache, storage, a, f) \in Nat
             /\ Total(hq, cache, storage', a, f) \in Nat
             /\ Ref(arg.val, a, f) \in Nat /\ Ref(Inside, a, f) \in Nat
  <2>1. Count(heap, a, f) = Total(held, cache, storage, a, f)
    BY DEF Memory, Balanced
  <2>2. Total(held, cache, storage, a, f) = Total(hq, cache, storage, a, f) + Ref(arg.val, a, f)
    BY <1>0, ArgumentCounts
  <2> HIDE DEF hq
  <2>3. Total(hq, cache, storage, a, f) \in Nat /\ Total(hq, cache, storage', a, f) \in Nat
    BY TotalPositive
  <2> QED BY <2>1, <2>2, <2>3 DEF Ref
<1>2. CASE Stored(storage.type, arg) /\ result = heap
  <2>1. WellFormed(result) /\ \A a \in Addrs : result[a].id \in {heap[a].id, Nothing}
    BY <1>2 DEF Memory
  <2>2. storage' \in StorageType /\ StorageIs' /\ Borrowing' /\ Sound(storage', heap)
    BY <1>0, <1>2, StoredIs
  <2>3. ASSUME NEW a \in Addrs, NEW f \in Kinds
        PROVE  Count(result, a, f) = Total(hq, cache, storage', a, f) + Ref(Inside, a, f)
    <3>1. One(storage, a, f) = Ref(Inside, a, f) /\ One(storage', a, f) = Ref(arg.val, a, f)
      BY <1>0, <1>2, StorageOne, StoredIs
    <3> HIDE DEF hq
    <3>2. Total(hq, cache, storage', a, f) + One(storage, a, f)
            = Total(hq, cache, storage, a, f) + One(storage', a, f)
      BY StoragePut
    <3> QED BY <1>1, <1>2, <3>1, <3>2
  <2> QED BY <2>1, <2>2, <2>3
<1>3. CASE UNCHANGED storage /\ result = NotSwapped(arg)
  <2> DEFINE hp == inc(heap, Inside)
  <2>1. WellFormed(hp) /\ \A a \in Addrs : hp[a].id = heap[a].id
    BY InsideLive, IncKeeps DEF Memory
  <2>2. arg.val.at \in Addrs => Count(hp, arg.val.at, Counted(arg.val)) > 0
    BY <1>0, ArgumentLive, IncCounts, KindOf DEF Memory, WellFormed
  <2>3. ASSUME NEW a \in Addrs, NEW f \in Kinds
        PROVE  Count(hp, a, f) = Count(heap, a, f) + Ref(Inside, a, f)
    BY IncEffect DEF Memory, WellFormed, Bit, Ref
  <2>4. result = dec(hp, arg.val)
    BY <1>3 DEF NotSwapped
  <2> HIDE DEF hp
  <2>5. WellFormed(result) /\ \A a \in Addrs : result[a].id \in {heap[a].id, Nothing}
    BY <2>1, <2>2, <2>4, DecKeeps
  <2>6. \A a \in Addrs, f \in Kinds : Count(result, a, f) = Count(hp, a, f) - Ref(arg.val, a, f)
    BY <2>1, <2>2, <2>4, DecEffect DEF WellFormed, Bit, Ref
  <2>7. storage' \in StorageType /\ StorageIs' /\ Borrowing' /\ Sound(storage', heap)
    BY <1>3 DEF Memory, Shapes, StorageIs, Borrowing, Exists, AllSound
  <2>8. ASSUME NEW a \in Addrs, NEW f \in Kinds
        PROVE  Count(result, a, f) = Total(hq, cache, storage', a, f) + Ref(Inside, a, f)
    <3>1. Total(hq, cache, storage', a, f) = Total(hq, cache, storage, a, f)
      BY <1>3
    <3> HIDE DEF hq
    <3> QED BY <1>1, <2>3, <2>6, <3>1
  <2> QED BY <2>5, <2>7, <2>8
<1> QED BY <1>2, <1>3 DEF Exchange

(* The guard of current, given by value, is dropped: its reference is there
   until then. *)
LEMMA CompareAndSwapStep ==
  ASSUME Memory, Exists, NEW arg \in Arguments(storage.type), NEW h \in Places,
         NEW d \in Places, NEW byValue \in BOOLEAN, CompareAndSwap(h, byValue, arg, d)
  PROVE  Memory'
<1> DEFINE result == IF as_ptr(held[h].val) = storage.ptr THEN heap ELSE NotSwapped(arg)
           used == IF byValue THEN {h} ELSE {}
           hq == Moved(arg.from)
           hr == Moved(arg.from \cup used)
           v == Guard(Inside, storage.id)
<1>0. /\ storage.type \in Types /\ h \notin arg.from /\ Plain(h) /\ cache' = cache
      /\ byValue => IsGuard(h)
  BY InsideIs DEF CompareAndSwap
<1>1. Exchange(arg, result)
  BY DEF CompareAndSwap, Exchange
<1>2. heap' = IF byValue THEN dec(result, held[h].val) ELSE result
  BY DEF CompareAndSwap
<1>3. hr[d] = Empty /\ held' = [hr EXCEPT ![d] = v]
  BY DEF CompareAndSwap, Into
<1>4. v \in HeldType /\ v # Empty /\ v.form = "guard" /\ v.val = Inside /\ v.id = storage.id
  BY InsideIs, GuardIs
<1>5. /\ hq \in [Places -> HeldType] /\ hq[h] = held[h]
      /\ \A k \in Places : hq[k] = IF k \in arg.from THEN Empty ELSE held[k]
  BY <1>0, ArgumentMoved
<1>6. /\ hr \in [Places -> HeldType]
      /\ \A k \in Places : hr[k] = IF k \in used THEN Empty ELSE hq[k]
  <2>1. Empty \in HeldType
    BY DEF HeldType
  <2> QED BY <2>1 DEF Moved, Memory, Shapes
<1>7. /\ held' \in [Places -> HeldType] /\ held'[d] = v
      /\ \A k \in Places \ {d} : held'[k] = hr[k]
  BY <1>3, <1>4, <1>6
<1>8. \A a, f : One(hr[d], a, f) = 0 /\ One(held'[d], a, f) = Ref(Inside, a, f)
  BY <1>3, <1>4, <1>7, OneRef, EmptyRefers
<1>9. /\ WellFormed(result)
      /\ \A a \in Addrs : result[a].id \in {heap[a].id, Nothing}
      /\ storage' \in StorageType /\ StorageIs' /\ Borrowing' /\ Sound(storage', heap)
      /\ \A a \in Addrs, f \in Kinds :
           Count(result, a, f) = Total(hq, cache, storage', a, f) + Ref(Inside, a, f)
  BY <1>1, Exchanged
<1>10. AllSound(heap, held', cache', storage')
  <2>1. Sound(Empty, heap)
    BY DEF Sound
  <2>2. Sound(v, heap)
    BY <1>4, InsideIs DEF Memory, AllSound, Sound, Exists
  <2>3. \A k \in Places : Sound(hq[k], heap)
    BY <1>5, <2>1 DEF Memory, AllSound
  <2> HIDE DEF hq, hr, v, used
  <2>4. \A k \in Places : Sound(hr[k], heap)
    BY <1>6, <2>1, <2>3
  <2> QED BY <1>0, <1>7, <1>9, <2>2, <2>4 DEF Memory, AllSound
<1>11. Shapes'
  BY <1>0, <1>7, <1>9 DEF Memory, Shapes
<1> HIDE DEF result, hq, hr, v
<1>12. ASSUME NEW a \in Addrs, NEW f \in Kinds
       PROVE  /\ Total(held', cache, storage', a, f)
                   = Total(hr, cache, storage', a, f) + Ref(Inside, a, f)
              /\ Total(hr, cache, storage', a, f) \in Nat
              /\ Total(hq, cache, storage', a, f) \in Nat
              /\ Ref(Inside, a, f) \in Nat
  <2>1. Total(held', cache, storage', a, f) + One(hr[d], a, f)
          = Total(hr, cache, storage', a, f) + One(held'[d], a, f)
    <3>1. \A k \in Places \ {d} : held'[k] = hr[k]
      BY <1>7
    <3> QED BY <3>1, PutInto
  <2>2. /\ Total(hr, cache, storage', a, f) \in Nat
        /\ Total(hq, cache, storage', a, f) \in Nat
        /\ Total(held', cache, storage', a, f) \in Nat
    BY TotalPositive
  <2> QED BY <1>8, <2>1, <2>2 DEF Ref
<1>13. CASE ~byValue
  <2>1. \A k \in Places : hr[k] = hq[k]
    BY <1>6, <1>13
  <2>2. hr = hq
    BY <1>5, <1>6, <2>1
  <2>3. heap' = result
    BY <1>2, <1>13
  <2>4. Balanced(heap', held', cache', storage')
    BY <1>0, <1>9, <1>12, <2>2, <2>3 DEF Balanced
  <2> QED BY <1>9, <1>10, <1>11, <2>3, <2>4, MemoryAgain
<1>14. CASE byValue
  <2> DEFINE x == held[h].val
  <2>1. Full(h) /\ held[h].form = "guard"
    BY <1>0, <1>14 DEF IsGuard
  <2>2. hr[h] = Empty /\ \A k \in Places \ {h} : hr[k] = hq[k]
    BY <1>6, <1>14
  <2>3. \A a, f : One(hr[h], a, f) = 0 /\ One(hq[h], a, f) = Ref(x, a, f)
    BY <1>5, <2>1, <2>2, OneRef, EmptyRefers DEF Full
  <2>4. x.at \in Addrs => Count(result, x.at, Counted(x)) > 0
    <3> SUFFICES ASSUME x.at \in Addrs
                 PROVE  Count(result, x.at, Counted(x)) > 0
      OBVIOUS
    <3>1. Refers(hq[h], x.at, Counted(x))
      BY <1>5, <2>1 DEF Refers, Full
    <3> HIDE DEF x
    <3>2. Total(hq, cache, storage', x.at, Counted(x)) > 0
      BY <3>1, TotalPositive
    <3> QED BY <1>9, <1>12, <3>2, KindOf
  <2>5. heap' = dec(result, x)
    BY <1>2, <1>14
  <2> HIDE DEF x
  <2>6. WellFormed(heap') /\ \A a \in Addrs : heap'[a].id \in {heap[a].id, Nothing}
    <3>1. WellFormed(heap') /\ \A a \in Addrs : heap'[a].id \in {result[a].id, Nothing}
      BY <1>9, <2>4, <2>5, DecKeeps
    <3> QED BY <1>9, <3>1
  <2>7. ASSUME NEW a \in Addrs, NEW f \in Kinds
        PROVE  Count(heap', a, f) = Total(held', cache, storage', a, f)
    <3>1. Count(heap', a, f) = Count(result, a, f) - Ref(x, a, f)
      BY <1>9, <2>4, <2>5, DecEffect DEF WellFormed, Bit, Ref
    <3>2. Total(hr, cache, storage', a, f) + One(hq[h], a, f)
            = Total(hq, cache, storage', a, f) + One(hr[h], a, f)
      BY <2>2, PlacePut
    <3>3. Ref(x, a, f) \in Nat
      BY DEF Ref
    <3> QED BY <1>9, <1>12, <2>3, <3>1, <3>2, <3>3
  <2>8. Balanced(heap', held', cache', storage')
    BY <1>0, <2>7 DEF Balanced
  <2> QED BY <1>9, <1>10, <1>11, <2>6, <2>8, MemoryAgain
<1> QED BY <1>13, <1>14

-----------------------------------------------------------------------------
(* What is compared by address is compared by object: the last comparison has
   decided what a comparison of objects would have. *)
Comparisons == CasComparesObjects /\ CacheReflectsStorage

(* compare_and_swap: current, unless raw, and the storage have references. *)
LEMMA CasDecides ==
  ASSUME Memory, Exists, NEW arg \in Arguments(storage.type), NEW h \in Places,
         NEW d \in Places, NEW byValue \in BOOLEAN, CompareAndSwap(h, byValue, arg, d)
  PROVE  Comparisons'
<1> DEFINE swapped == as_ptr(held[h].val) = storage.ptr
           same == held[h].id = storage.id
<1>1. /\ last' = [op |-> "compare_and_swap", raw |-> held[h].form = "raw",
                  got |-> swapped, want |-> same]
      /\ Full(h)
  BY DEF CompareAndSwap, Plain
<1>2. ASSUME held[h].form # "raw" PROVE swapped <=> same
  <2>1. held[h] # Empty /\ held[h].val \in SmartPointers
    BY <1>1, HeldIs DEF Full
  <2>2. /\ storage # Empty /\ storage.form # "raw" /\ storage.val \in SmartPointers
        /\ storage.ptr = as_ptr(storage.val)
    BY InsideIs DEF Exists, Memory, StorageIs
  <2> QED BY <1>2, <2>1, <2>2, SameObject
<1> HIDE DEF swapped, same
<1>3. /\ last'.op = "compare_and_swap" /\ last'.raw = (held[h].form = "raw")
      /\ last'.got = swapped /\ last'.want = same
  BY <1>1
<1>4. swapped \in BOOLEAN /\ same \in BOOLEAN
  BY DEF swapped, same
<1>5. CASE held[h].form = "raw"
  <2>1. last'.raw
    BY <1>3, <1>5
  <2> QED BY <1>3, <2>1 DEF Comparisons, CasComparesObjects,
     CacheReflectsStorage
<1>6. CASE held[h].form # "raw"
  <2>1. swapped = same
    BY <1>2, <1>4, <1>6
  <2> QED BY <1>3, <2>1 DEF Comparisons, CasComparesObjects,
     CacheReflectsStorage
<1> QED BY <1>5, <1>6

(* The cache and the storage have references. *)
LEMMA CacheDecides ==
  ASSUME Memory, NEW c \in Caches, CacheLoad(c)
  PROVE  Comparisons'
<1>1. /\ last' = [op |-> "cache_load", got |-> cache'[c].id, want |-> storage.id]
      /\ cache[c] # Empty
  BY DEF CacheLoad
<1>2. cache[c].val \in SmartPointers /\ cache[c].form # "raw" /\ Exists
  BY <1>1, CacheIs
<1>3. cache'[c].id = storage.id
  <2>1. CASE as_ptr(cache[c].val) = storage.ptr
    <3>1. cache' = cache
      BY <2>1 DEF CacheLoad
    <3>2. /\ storage # Empty /\ storage.form # "raw" /\ storage.val \in SmartPointers
          /\ storage.ptr = as_ptr(storage.val)
      BY <1>2, InsideIs DEF Exists, Memory, StorageIs
    <3>3. cache[c].id = storage.id
      BY <1>1, <1>2, <2>1, <3>2, SameObject
    <3> QED BY <3>1, <3>3
  <2>2. CASE as_ptr(cache[c].val) # storage.ptr
    <3>1. cache' = [cache EXCEPT ![c] = Cached(cache[c].form)]
      BY <2>2 DEF CacheLoad
    <3>2. cache'[c] = Cached(cache[c].form)
      BY <3>1 DEF Memory, Shapes
    <3> QED BY <3>2 DEF Cached
  <2> QED BY <2>1, <2>2
<1> QED BY <1>1, <1>3 DEF Comparisons, CasComparesObjects, CacheReflectsStorage

(* In the beginning there is nothing. *)
LEMMA MemoryInit ==
  ASSUME Init
  PROVE  Memory /\ Comparisons
<1>1. /\ heap = [a \in Addrs |-> Free] /\ storage = Empty
      /\ held = [h \in Places |-> Empty] /\ cache = [c \in Caches |-> Empty]
      /\ last = NoComparison
  BY DEF Init
<1>2. Shapes
  BY <1>1 DEF Shapes, HeldType, CacheType, StorageType
<1>3. heap \in Heaps /\ \A a \in Addrs : heap[a].id = Nothing
  BY <1>1, IdsHaveNothing DEF Heaps, Free
<1>4. \A a \in Addrs, f \in Kinds : Count(heap, a, f) = 0
  BY <1>1 DEF Count, Free
<1>5. WellFormed(heap) /\ UniqueIds(heap)
  BY <1>3, <1>4 DEF WellFormed, UniqueIds
<1>6. AllSound(heap, held, cache, storage) /\ StorageIs /\ Borrowing
  BY <1>1 DEF AllSound, Sound, StorageIs, Borrowing, Exists, Unused
<1>7. Balanced(heap, held, cache, storage)
  <2>1. ASSUME NEW a \in Addrs, NEW f \in Kinds
        PROVE  Total(held, cache, storage, a, f) = 0
    <3>1. /\ {h \in Places : Refers(held[h], a, f)} = {}
          /\ {c \in Caches : Refers(cache[c], a, f)} = {}
      BY <1>1 DEF Refers
    <3>2. One(storage, a, f) = 0
      BY <1>1, EmptyRefers
    <3> QED BY <3>1, <3>2, FS_EmptySet DEF Total, Number
  <2> QED BY <1>4, <2>1 DEF Balanced
<1>8. Comparisons
  BY <1>1 DEF Comparisons, CasComparesObjects, CacheReflectsStorage,
     NoComparison
<1> QED BY <1>2, <1>5, <1>6, <1>7, <1>8 DEF Memory

(* Every operation keeps the books. *)
LEMMA MemoryNext ==
  ASSUME Memory, Comparisons, [Next]_vars
  PROVE  Memory' /\ Comparisons'
<1>1. CASE UNCHANGED vars
  <2>1. /\ heap' = heap /\ storage' = storage /\ held' = held /\ cache' = cache
        /\ last' = last
    BY <1>1 DEF vars
  <2>2. Memory'
    BY <2>1 DEF Memory, Shapes, StorageIs, Borrowing, Exists, Unused
  <2>3. Comparisons'
    BY <2>1 DEF Comparisons, CasComparesObjects, CacheReflectsStorage
  <2> QED BY <2>2, <2>3
<1>2. ASSUME OnPointers PROVE Memory'
  BY <1>2, ArcNewStep, CloneStep, DowngradeStep, UpgradeStep, AsRawStep,
     DropStep,
     IntoInnerStep, FromInnerStep DEF OnPointers
<1>3. ASSUME OnStorage PROVE Memory'
  BY <1>3, NewStep, LoadStep, LoadFullStep, UnwrapStorageStep, StoreStep,
     SwapStep,
     DropStorageStep DEF OnStorage
<1>4. ASSUME OnCaches PROVE Memory'
  BY <1>4, CacheNewStep, CacheCloneStep, CacheMapStep, CacheDropStep
  DEF OnCaches
<1>5. CASE Comparing
  BY <1>5, CacheLoadStep, CompareAndSwapStep, CacheDecides, CasDecides
  DEF Comparing
<1>6. ASSUME last' = NoComparison PROVE Comparisons'
  BY <1>6 DEF Comparisons, CasComparesObjects, CacheReflectsStorage,
     NoComparison
<1> QED BY <1>1, <1>2, <1>3, <1>4, <1>5, <1>6 DEF Next

(* The books are balanced and every holder leads to the object that it is for,
   in every reachable state. *)
THEOREM MemoryInvariance == Spec => [](Memory /\ Comparisons)
<1>1. Init => Memory /\ Comparisons
  BY MemoryInit
<1>2. Memory /\ Comparisons /\ [Next]_vars => (Memory /\ Comparisons)'
  BY MemoryNext
<1> QED BY <1>1, <1>2, PTL DEF Spec

(* The variables have their types. *)
THEOREM TypeCorrect == Spec => []TypeOK
<1>1. Memory => TypeOK
  BY DEF Memory, Shapes, WellFormed, Heaps, Cell, HeldType, CacheType,
     StorageType, TypeOK
<1> QED BY <1>1, MemoryInvariance, PTL

(* "Reclamation is exact": whatever the operations and their order, and for any
   number of addresses, pointers and caches, each count is the number of those
   who have a reference. *)
THEOREM CountsExact == Spec => []Counting
<1>1. ASSUME Memory PROVE Counting
  <2> SUFFICES ASSUME NEW a \in Addrs
               PROVE  /\ heap[a].strong = Holders(a, "strong")
                      /\ heap[a].weak = Holders(a, "weak")
    BY DEF Counting
  <2>1. \A f \in Kinds : Count(heap, a, f) = Holders(a, f)
    BY <1>1 DEF Memory, Balanced, Total, Number, One, Bit, Holders
  <2> QED BY <2>1 DEF Count, Kinds
<1> QED BY <1>1, MemoryInvariance, PTL

(* A pointer or a guard leads to the object that it was made for, which is
   alive
   unless it is a Weak that keeps only the memory. *)
THEOREM GuardsKeepObjects == Spec => []SnapshotStable
<1>1. ASSUME Memory PROVE SnapshotStable
  <2> SUFFICES ASSUME NEW h \in Places, Full(h), held[h].form # "raw",
                      held[h].val.at \in Addrs
               PROVE  /\ heap[held[h].val.at].id = held[h].id
                      /\ held[h].val.type # "Weak" => heap[held[h].val.at].strong > 0
    BY DEF SnapshotStable
  <2>1. heap[held[h].val.at].id = held[h].id
    BY <1>1 DEF Memory, AllSound, Sound, Full
  <2>2. Count(heap, held[h].val.at, Counted(held[h].val)) > 0
    BY <1>1, HeldLive
  <2>3. ASSUME held[h].val.type # "Weak" PROVE heap[held[h].val.at].strong > 0
    BY <2>2, <2>3 DEF Count, Counted
  <2> QED BY <2>1, <2>3
<1> QED BY <1>1, MemoryInvariance, PTL

(* A load returns what was stored, through as_ptr and from_ptr. *)
THEOREM StoredIsLoaded == Spec => []LoadReturnsStored
<1>1. ASSUME Memory PROVE LoadReturnsStored
  BY <1>1, InsideIs, InsideLive DEF LoadReturnsStored
<1> QED BY <1>1, MemoryInvariance, PTL

(* compare_and_swap with a pointer or a guard as current swaps if and only if
   the object inside is that of current, although it compares addresses. *)
THEOREM CasIsExact == Spec => []CasComparesObjects
BY MemoryInvariance, PTL DEF Comparisons

(* load of a Cache returns the object in the storage, although it compares
   addresses. *)
THEOREM CacheIsExact == Spec => []CacheReflectsStorage
BY MemoryInvariance, PTL DEF Comparisons
=============================================================================
