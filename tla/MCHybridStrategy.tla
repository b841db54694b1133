-------------------------- MODULE MCHybridStrategy --------------------------
(* Small instances of HybridStrategy. *)
EXTENDS HybridStrategy, TLC

CONSTANTS A, B, a1, a2, a3, a4

(* One storage, any object: addresses are reused freely. *)
AnyObject == [s \in Storages |-> Objects]
StartsWithA1 == [s \in Storages |-> a1]
FreshObjects == Permutations(Objects \ {a1})

(* Two storages of different objects; the second may be empty. *)
ApartPool == (A :> {a1, a2}) @@ (B :> {a3, Null})
ApartInitial == (A :> a1) @@ (B :> Null)

(* Two storages whose objects come from the same allocator. *)
SharedPool == (A :> {a1, a2}) @@ (B :> {a1, a3})
SharedInitial == (A :> a1) @@ (B :> a3)

(* B never changes: its guards only occupy fast slots. *)
OccupyPool == (A :> {a1, a2, a4}) @@ (B :> {a3})
OccupyInitial == (A :> a1) @@ (B :> a3)

On(ops) == ops \X Storages
OnGuards == {"into_inner", "clone"} \X {NoStorage}
Repeat(n, calls_) == [i \in 1..n |-> calls_]

OnThread == {<<"restart", NoStorage>>}

GuardScript ==
  <<<<On({"load", "load_full"}),
      On({"compare_and_swap"}) \cup OnGuards \cup OnThread,
      On({"load"})>>,
    <<On({"swap", "store"}), On({"store"})>>>>
HelpScript == <<<<On({"load"})>>, <<On({"store"})>>, <<On({"store"})>>>>
StorageScript == <<<<On({"load", "load_full"}), OnThread, On({"load"})>>,
                   Repeat(2, On({"store", "drop_storage", "unwrap_storage"}))>>
LoadsAndBoth ==
  <<Repeat(3, On({"load"})),
    <<On({"load"}), On({"load", "store"}), On({"load", "store"})>>>>
ReuseScript == <<<<On({"load"})>>, Repeat(3, On({"store"}))>>
WrapScript == <<Repeat(2, On({"load"})), <<>>>>

(* Both threads occupy their fast slots; then thread 1 loads and stores while
   thread 2 stores. *)
MutualScript ==
  <<<<{<<"load", B>>}, {<<"load", A>>}, {<<"store", A>>}>>,
    <<{<<"load", B>>}, {<<"store", A>>}>>>>
=============================================================================
