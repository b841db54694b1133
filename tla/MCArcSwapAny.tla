---------------------------- MODULE MCArcSwapAny ----------------------------
(* A small instance of ArcSwapAny. *)
EXTENDS ArcSwapAny

(* The storage itself, a projection of it, of whatever type it is, and a
   projection of a boxed access to the object of an Arc that is reached through
   a reference. *)
SomeAccesses == {<<>>, <<"Map">>, <<"Direct", "Dyn", "Ref", "Map">>}
Alike == Permutations(Places) \cup Permutations(Caches) \cup Permutations(Addrs)
=============================================================================
