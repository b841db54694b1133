------------------------------- MODULE RefCnt -------------------------------
(***************************************************************************)
(* The smart pointers that a storage may hold, as src/src/ref_cnt.rs,      *)
(* src/src/weak.rs and src/src/as_raw.rs see them: how they are turned     *)
(* into the one word that is stored and back, and what they count.         *)
(*                                                                         *)
(* A smart pointer is a type and the address it has.  Arc stands for Rc    *)
(* and for the pinned ones too: their conversions are the same.  Option is *)
(* Option<Arc>.  The heap gives every address its counts and the number of *)
(* the object allocated there last; a Weak keeps the memory of an object,  *)
(* and so its address, but not the object.                                 *)
(***************************************************************************)
EXTENDS Naturals

CONSTANTS Addrs, Null

None == "None"             \* Option::None
Dangling == "Weak::new()"  \* a Weak that was never attached to an object

Nothing == 0               \* no object
Free == [strong |-> 0, weak |-> 0, id |-> Nothing]

Types == {"Arc", "Option", "Weak"}

Pointers(T) ==
  [type : {T}, at : Addrs \cup (CASE T = "Arc" -> {} [] T = "Option" -> {None}
                                  [] T = "Weak" -> {Dangling})]
SmartPointers == UNION {Pointers(T) : T \in Types}

(* A Weak without an object has no address that could be given back to it. *)
WeakAsPtr(x) == IF x.at = Dangling THEN Null ELSE x.at
WeakFromPtr(p) == IF p = Null THEN Dangling ELSE p

(* RefCnt::as_ptr, and into_ptr: neither changes a count. *)
as_ptr(x) ==
  CASE x.type = "Arc" -> x.at
    [] x.type = "Option" -> IF x.at = None THEN Null ELSE x.at
    [] x.type = "Weak" -> WeakAsPtr(x)

(* A mutant of from_ptr: no pointer is special. *)
from_ptr_plain(T, p) == [type |-> T, at |-> p]

(* RefCnt::from_ptr. *)
from_ptr(T, p) ==
  [type |-> T,
   at |-> CASE T = "Arc" -> p
            [] T = "Option" -> IF p = Null THEN None ELSE p
            [] T = "Weak" -> WeakFromPtr(p)]

(* The heap after clone (RefCnt::inc) and after drop (RefCnt::dec): when nobody
   has a reference of either kind, the memory is free. *)
Counted(x) == IF x.type = "Weak" THEN "weak" ELSE "strong"

inc(heap, x) ==
  IF x.at \notin Addrs THEN heap ELSE [heap EXCEPT ![x.at][Counted(x)] = @ + 1]
dec(heap, x) ==
  IF x.at \notin Addrs THEN heap
  ELSE LET hp == [heap EXCEPT ![x.at][Counted(x)] = @ - 1] IN
       IF hp[x.at].strong = 0 /\ hp[x.at].weak = 0 THEN [hp EXCEPT ![x.at] = Free]
       ELSE hp
=============================================================================
