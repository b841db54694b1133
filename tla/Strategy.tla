------------------------------ MODULE Strategy ------------------------------
(***************************************************************************)
(* What ArcSwapAny expects of a strategy, whatever its means: the sealed   *)
(* traits of src/src/strategy/mod.rs as src/src/lib.rs uses them.          *)
(*                                                                         *)
(* A load reads the pointer and only later has a protection of its own; in *)
(* between, the object belongs to the storage alone.  Whoever takes a      *)
(* pointer out of the storage must not use the reference that was in it    *)
(* until wait_for_readers has returned: nobody is left who has read the    *)
(* pointer and has no protection.                                          *)
(***************************************************************************)
CONSTANTS
  Threads,
  Pointers,
  NoPointer

VARIABLES
  ptr,       \* ArcSwapAny::ptr
  reading,   \* the pointer that a load has read and not yet protected
  removed    \* the pointer that a thread has taken out of the storage

vars == <<ptr, reading, removed>>

Init ==
  /\ ptr \in Pointers
  /\ reading = [t \in Threads |-> NoPointer]
  /\ removed = [t \in Threads |-> NoPointer]

(* load, and a compare_and_swap that fails. *)
Read(t) ==
  /\ reading[t] = NoPointer
  /\ reading' = [reading EXCEPT ![t] = ptr]
  /\ UNCHANGED <<ptr, removed>>

Protect(t) ==
  /\ reading[t] # NoPointer
  /\ reading' = [reading EXCEPT ![t] = NoPointer]
  /\ UNCHANGED <<ptr, removed>>

(* swap, and a compare_and_swap that succeeds. *)
Exchange(t, new) ==
  /\ removed[t] = NoPointer
  /\ removed' = [removed EXCEPT ![t] = ptr]
  /\ ptr' = new
  /\ UNCHANGED reading

WaitForReaders(t) ==
  /\ removed[t] # NoPointer
  /\ \A u \in Threads : reading[u] # removed[t]
  /\ removed' = [removed EXCEPT ![t] = NoPointer]
  /\ UNCHANGED <<ptr, reading>>

Next ==
  \E t \in Threads :
    \/ Read(t) \/ Protect(t) \/ WaitForReaders(t)
    \/ \E new \in Pointers : Exchange(t, new)

Spec == Init /\ [][Next]_vars
=============================================================================
