--------------------------- MODULE MCHelpingSlots ---------------------------
(* Small instances of HelpingSlots. *)
EXTENDS HelpingSlots

(* A storage holds one value, its own name: a value handed over from the
   wrong storage shows. *)
MCLoadable == [s \in Storages |-> {s}]
=============================================================================
