---------------------------- MODULE HelpingSlots ----------------------------
(***************************************************************************)
(* The hand-over protocol of src/src/debt/helping.rs.                      *)
(*                                                                         *)
(* Every node has a control word, the address its owner is loading from    *)
(* and an envelope to put a replacement value into.  The owner of a node   *)
(* (a reader) publishes an address and a generation, and confirms by       *)
(* swapping the control word back to IDLE.  A writer that meets a          *)
(* generation loads a value from the same storage and hands it over in its *)
(* own envelope, taking the reader's envelope in return.                   *)
(*                                                                         *)
(* A step is one access to memory that another thread may touch, together  *)
(* with the thread-local computation that follows it.  The debt slots and  *)
(* the reference counts are left to HybridStrategy, which implements this  *)
(* module; here a replacement is any value that a full load of the storage *)
(* may return.  How nodes are claimed and released is in NodeList.         *)
(***************************************************************************)
EXTENDS Naturals

CONSTANTS
  Nodes,           \* the debt nodes; each is owned by one thread at a time
  Storages,        \* the addresses of the ArcSwap instances
  Values,          \* the pointers that can be handed over
  Loadable,        \* Loadable[s]: the pointers a load of storage s may return
  Zero,            \* the word 0 that Slots::default stores everywhere
  MaxGenerations,  \* bound: how many loads an owner of a node starts
  FairNodes        \* the nodes whose owners are sure to be scheduled again

ASSUME LoadableAssumption == Loadable \in [Storages -> SUBSET Values]
ASSUME ZeroAssumption == Zero \notin Storages
ASSUME MaxGenerationsAssumption == MaxGenerations \in Nat

VARIABLES
  generation,    \* Local::generation, thread local
  control,       \* Slots::control
  active_addr,   \* Slots::active_addr
  space_offer,   \* Slots::space_offer: the envelope the node owns
  handover,      \* the content of every envelope (envelope n was node n's first)
  reader,        \* where the owner is inside get_debt and confirm
  envelope,      \* confirm: the envelope found in the control word
  helper,        \* where the owner is inside help
  who,           \* help: the node being helped
  target,        \* help: storage_addr, the storage the writer has changed
  observed,      \* help: the control word as last read
  replacement,   \* help: the value loaded for the reader
  their_space    \* help: the reader's envelope

readerVars == <<generation, reader, envelope>>
helperVars == <<helper, who, target, observed, replacement, their_space>>
vars == <<control, active_addr, space_offer, handover, readerVars, helperVars>>

-----------------------------------------------------------------------------
(* The values of the control word: the two low bits are the tag. *)

IDLE == <<"IDLE", 0>>
Gen(g) == <<"GEN_TAG", g>>
Replacement(e) == <<"REPLACEMENT_TAG", e>>

Generations == {Gen(g) : g \in 0..MaxGenerations}
Handovers == {Replacement(e) : e \in Nodes}

IsGen(c) == c[1] = "GEN_TAG"
IsReplacement(c) == c[1] = "REPLACEMENT_TAG"

ReaderPc == {"idle", "swap_control", "confirm", "take_handover"}
HelperPc == {"idle", "check_addr", "recheck", "replacement", "their_space",
             "fill", "cas", "switch"}

(* Slots::default, and Slots::init: the envelope is the node's own. *)
Init ==
  /\ generation = [n \in Nodes |-> 0]
  /\ control = [n \in Nodes |-> IDLE]
  /\ active_addr = [n \in Nodes |-> Zero]
  /\ space_offer = [n \in Nodes |-> n]
  /\ handover = [n \in Nodes |-> Zero]
  /\ reader = [n \in Nodes |-> "idle"]
  /\ envelope = [n \in Nodes |-> n]
  /\ helper = [n \in Nodes |-> "idle"]
  /\ who = [n \in Nodes |-> n]
  /\ target = [n \in Nodes |-> Zero]
  /\ observed = [n \in Nodes |-> IDLE]
  /\ replacement = [n \in Nodes |-> Zero]
  /\ their_space = [n \in Nodes |-> n]

-----------------------------------------------------------------------------
(* The reader: get_debt, then confirm. *)

(* A load begins: at top level, or as the writer's own load of a replacement. *)
GetDebtAddr(n, s) ==
  /\ reader[n] = "idle"
  /\ \/ helper[n] = "idle"
     \/ helper[n] = "replacement" /\ s = target[n]
  /\ generation[n] < MaxGenerations
  /\ generation' = [generation EXCEPT ![n] = @ + 1]
  /\ active_addr' = [active_addr EXCEPT ![n] = s]
  /\ reader' = [reader EXCEPT ![n] = "swap_control"]
  /\ UNCHANGED <<control, space_offer, handover, envelope, helperVars>>

GetDebtControl(n) ==
  /\ reader[n] = "swap_control"
  /\ control' = [control EXCEPT ![n] = Gen(generation[n])]
  /\ reader' = [reader EXCEPT ![n] = "confirm"]
  /\ UNCHANGED <<active_addr, space_offer, handover, generation, envelope, helperVars>>

(* A mutant of Confirm: the tag is not masked off the envelope's address. *)
ConfirmTagged(n) ==
  /\ reader[n] = "confirm"
  /\ control' = [control EXCEPT ![n] = IDLE]
  /\ \/ /\ control[n] = Gen(generation[n])
        /\ reader' = [reader EXCEPT ![n] = "idle"]
        /\ UNCHANGED envelope
     \/ /\ control[n] # Gen(generation[n])
        /\ reader' = [reader EXCEPT ![n] = "take_handover"]
        /\ envelope' = [envelope EXCEPT ![n] = control[n]]
  /\ UNCHANGED <<active_addr, space_offer, handover, generation, helperVars>>

(* A mutant of Confirm: a load of the control word, set to IDLE only if it is
   still the generation. *)
ConfirmByLoad(n) ==
  /\ reader[n] = "confirm"
  /\ \/ /\ control[n] = Gen(generation[n])
        /\ control' = [control EXCEPT ![n] = IDLE]
        /\ reader' = [reader EXCEPT ![n] = "idle"]
        /\ UNCHANGED envelope
     \/ /\ control[n] # Gen(generation[n])
        /\ reader' = [reader EXCEPT ![n] = "take_handover"]
        /\ envelope' = [envelope EXCEPT ![n] = control[n][2]]
        /\ UNCHANGED control
  /\ UNCHANGED <<active_addr, space_offer, handover, generation, helperVars>>

(* A mutant of Confirm: a compare-exchange repeated until it succeeds. *)
ConfirmSpinning(n) ==
  /\ reader[n] = "confirm"
  /\ \/ /\ control[n] = Gen(generation[n])
        /\ control' = [control EXCEPT ![n] = IDLE]
        /\ reader' = [reader EXCEPT ![n] = "idle"]
     \/ /\ control[n] # Gen(generation[n])
        /\ UNCHANGED <<control, reader>>
  /\ UNCHANGED <<active_addr, space_offer, handover, generation, envelope, helperVars>>

(* control.swap(IDLE): Ok when the generation is still there. *)
Confirm(n) ==
  /\ reader[n] = "confirm"
  /\ control' = [control EXCEPT ![n] = IDLE]
  /\ \/ /\ control[n] = Gen(generation[n])
        /\ reader' = [reader EXCEPT ![n] = "idle"]
        /\ UNCHANGED envelope
     \/ /\ control[n] # Gen(generation[n])
        /\ reader' = [reader EXCEPT ![n] = "take_handover"]
        /\ envelope' = [envelope EXCEPT ![n] = control[n][2]]
  /\ UNCHANGED <<active_addr, space_offer, handover, generation, helperVars>>

(* Err: the value is read from the envelope, which becomes the node's own.
   The envelope is out of everybody else's reach by now (EnvelopeExclusive),
   so the read and the store to space_offer are one step. *)
TakeHandover(n) ==
  /\ reader[n] = "take_handover"
  /\ space_offer' = [space_offer EXCEPT ![n] = envelope[n]]
  /\ reader' = [reader EXCEPT ![n] = "idle"]
  /\ envelope' = [envelope EXCEPT ![n] = n]
  /\ UNCHANGED <<control, active_addr, handover, generation, helperVars>>

-----------------------------------------------------------------------------
(* The writer: help(self, who, storage_addr, replacement). *)

(* help returns; its locals go out of scope. *)
Return(n) ==
  /\ helper' = [helper EXCEPT ![n] = "idle"]
  /\ who' = [who EXCEPT ![n] = n]
  /\ target' = [target EXCEPT ![n] = Zero]
  /\ observed' = [observed EXCEPT ![n] = IDLE]
  /\ replacement' = [replacement EXCEPT ![n] = Zero]
  /\ their_space' = [their_space EXCEPT ![n] = n]

(* The next turn of the loop, on a control word just read: only a generation
   needs work. *)
Again(n) ==
  /\ IsGen(control[who[n]])
  /\ helper' = [helper EXCEPT ![n] = "check_addr"]
  /\ observed' = [observed EXCEPT ![n] = control[who[n]]]
  /\ replacement' = [replacement EXCEPT ![n] = Zero]
  /\ their_space' = [their_space EXCEPT ![n] = n]
  /\ UNCHANGED <<who, target>>

Retry(n) ==
  \/ Again(n)
  \/ ~IsGen(control[who[n]]) /\ Return(n)

(* The first read of the control word.  Without a generation in it help
   returns at once, having changed nothing. *)
HelpStart(n, w, s) ==
  /\ helper[n] = "idle" /\ reader[n] = "idle"
  /\ IsGen(control[w])
  /\ helper' = [helper EXCEPT ![n] = "check_addr"]
  /\ who' = [who EXCEPT ![n] = w]
  /\ target' = [target EXCEPT ![n] = s]
  /\ observed' = [observed EXCEPT ![n] = control[w]]
  /\ UNCHANGED <<control, active_addr, space_offer, handover, readerVars,
                 replacement, their_space>>

HelpCheckAddr(n) ==
  /\ helper[n] = "check_addr"
  /\ helper' = [helper EXCEPT ![n] =
                  IF active_addr[who[n]] = target[n] THEN "replacement" ELSE "recheck"]
  /\ UNCHANGED <<control, active_addr, space_offer, handover, readerVars,
                 who, target, observed, replacement, their_space>>

(* A mutant of HelpRecheck: another storage is no reason to stop. *)
HelpRecheckForever(n) ==
  /\ helper[n] = "recheck"
  /\ Retry(n)
  /\ UNCHANGED <<control, active_addr, space_offer, handover, readerVars>>

(* Another storage: done if the control word is still the same, else retry. *)
HelpRecheck(n) ==
  /\ helper[n] = "recheck"
  /\ \/ control[who[n]] = observed[n] /\ Return(n)
     \/ control[who[n]] # observed[n] /\ Retry(n)
  /\ UNCHANGED <<control, active_addr, space_offer, handover, readerVars>>

(* The writer's own full load has returned a value. *)
HelpReplacement(n) ==
  /\ helper[n] = "replacement" /\ reader[n] = "idle"
  /\ \E v \in Loadable[target[n]] : replacement' = [replacement EXCEPT ![n] = v]
  /\ helper' = [helper EXCEPT ![n] = "their_space"]
  /\ UNCHANGED <<control, active_addr, space_offer, handover, readerVars,
                 who, target, observed, their_space>>

HelpTheirSpace(n) ==
  /\ helper[n] = "their_space"
  /\ their_space' = [their_space EXCEPT ![n] = space_offer[who[n]]]
  /\ helper' = [helper EXCEPT ![n] = "fill"]
  /\ UNCHANGED <<control, active_addr, space_offer, handover, readerVars,
                 who, target, observed, replacement>>

HelpFill(n) ==
  /\ helper[n] = "fill"
  /\ handover' = [handover EXCEPT ![space_offer[n]] = replacement[n]]
  /\ helper' = [helper EXCEPT ![n] = "cas"]
  /\ UNCHANGED <<control, active_addr, space_offer, readerVars,
                 who, target, observed, replacement, their_space>>

(* The hand-over: only if the control word has not changed since it was read. *)
HelpCas(n) ==
  /\ helper[n] = "cas"
  /\ \/ /\ control[who[n]] = observed[n]
        /\ control' = [control EXCEPT ![who[n]] = Replacement(space_offer[n])]
        /\ helper' = [helper EXCEPT ![n] = "switch"]
        /\ UNCHANGED <<who, target, observed, replacement, their_space>>
     \/ /\ control[who[n]] # observed[n]
        /\ Retry(n)
        /\ UNCHANGED control
  /\ UNCHANGED <<active_addr, space_offer, handover, readerVars>>

(* A mutant of HelpSwitch: the writer keeps the envelope it has handed over. *)
HelpSwitchKeepingMine(n) ==
  /\ helper[n] = "switch"
  /\ Return(n)
  /\ UNCHANGED <<control, active_addr, space_offer, handover, readerVars>>

(* The writer's envelope is gone; the reader's is its own from now on. *)
HelpSwitch(n) ==
  /\ helper[n] = "switch"
  /\ space_offer' = [space_offer EXCEPT ![n] = their_space[n]]
  /\ Return(n)
  /\ UNCHANGED <<control, active_addr, handover, readerVars>>

-----------------------------------------------------------------------------
(* The node changes hands. *)

(* A mutant of ChangeOwner: the node has no cooldown. *)
ChangeOwnerAtOnce(n) ==
  /\ reader[n] = "idle" /\ helper[n] = "idle"
  /\ generation' = [generation EXCEPT ![n] = 0]
  /\ UNCHANGED <<control, active_addr, space_offer, handover, reader, envelope,
                 helperVars>>

(* The owner's thread ends and another claims the node, after a cooldown:
   the writers that were on the node have left it (NodeList shows when the
   cooldown does that).  The new owner counts its generations from zero and
   keeps what is in the node. *)
ChangeOwner(n) ==
  /\ reader[n] = "idle" /\ helper[n] = "idle"
  /\ \A m \in Nodes : helper[m] # "idle" => who[m] # n
  /\ generation' = [generation EXCEPT ![n] = 0]
  /\ UNCHANGED <<control, active_addr, space_offer, handover, reader, envelope,
                 helperVars>>

-----------------------------------------------------------------------------
ReaderStep(n) == GetDebtControl(n) \/ Confirm(n) \/ TakeHandover(n)

HelperStep(n) ==
  \/ HelpCheckAddr(n) \/ HelpRecheck(n) \/ HelpReplacement(n)
  \/ HelpTheirSpace(n) \/ HelpFill(n) \/ HelpCas(n) \/ HelpSwitch(n)

(* Outside of the calls the threads may do nothing for good. *)
Elsewhere ==
  /\ \A n \in Nodes : reader[n] = "idle" /\ helper[n] = "idle"
  /\ UNCHANGED vars

Next ==
  \/ \E n \in Nodes :
       \/ \E s \in Storages : GetDebtAddr(n, s)
       \/ ReaderStep(n)
       \/ \E w \in Nodes, s \in Storages : HelpStart(n, w, s)
       \/ HelperStep(n)
       \/ ChangeOwner(n)
  \/ Elsewhere

Spec == Init /\ [][Next]_vars

(* Only the owners of FairNodes are sure to go on once they are inside one of
   the functions; the others may stop anywhere for good.  Nothing is assumed
   of the calls that start one. *)
FairSpec ==
  Spec /\ \A n \in FairNodes : WF_vars(ReaderStep(n)) /\ WF_vars(HelperStep(n))

-----------------------------------------------------------------------------
(* The types of the variables. *)
TypeOK ==
  /\ generation \in [Nodes -> 0..MaxGenerations]
  /\ control \in [Nodes -> {IDLE} \cup Generations \cup Handovers]
  /\ active_addr \in [Nodes -> Storages \cup {Zero}]
  /\ space_offer \in [Nodes -> Nodes]
  /\ handover \in [Nodes -> Values \cup {Zero}]
  /\ reader \in [Nodes -> ReaderPc]
  /\ envelope \in [Nodes -> Nodes]
  /\ helper \in [Nodes -> HelperPc]
  /\ who \in [Nodes -> Nodes]
  /\ target \in [Nodes -> Storages \cup {Zero}]
  /\ observed \in [Nodes -> {IDLE} \cup Generations \cup Handovers]
  /\ replacement \in [Nodes -> Values \cup {Zero}]
  /\ their_space \in [Nodes -> Nodes]

(* The control word is IDLE except between get_debt's swap and confirm's, and
   the generation in it is the one the reader chose last: the assertion "Left
   control in wrong state" of get_debt and the reader's right to treat
   everything but its generation as a hand-over. *)
ControlFollowsReader ==
  \A n \in Nodes :
    /\ reader[n] # "confirm" => control[n] = IDLE
    /\ reader[n] = "confirm" =>
         control[n] \in {Gen(generation[n])} \cup Handovers

(* The envelope that node n is entitled to write next, wherever the exchange
   in help and confirm has got to. *)
OwnEnvelope(n) ==
  CASE IsReplacement(control[n])    -> control[n][2]
    [] reader[n] = "take_handover"  -> envelope[n]
    [] helper[n] = "switch"         -> their_space[n]
    [] OTHER                        -> space_offer[n]

(* "This effectively exchanges the envelopes between the threads so each one
   has an envelope ready for future": no envelope ever has two owners, and
   none is lost, although the exchange takes three separate writes of two
   threads. *)
EnvelopeExclusive ==
  \A m, n \in Nodes : OwnEnvelope(m) = OwnEnvelope(n) => m = n

(* What waits for a reader in its envelope is a value of the storage it is
   loading from: no helper of another storage, or of an earlier load of this
   reader, has got through, and no thread has written to the envelope since. *)
HandoverMatchesRequest ==
  \A n \in Nodes :
    /\ IsReplacement(control[n]) =>
         handover[control[n][2]] \in Loadable[active_addr[n]]
    /\ reader[n] = "take_handover" =>
         handover[envelope[n]] \in Loadable[active_addr[n]]

(* A reader that has announced itself finishes its transaction, whatever the
   other threads do, and even if they stop in the middle of helping it. *)
ReaderFinishes ==
  \A n \in FairNodes : reader[n] # "idle" ~> reader[n] = "idle"

(* A writer inside help finishes, even if the reader it looks at stops for
   good: it retries only when the reader has moved on, which happens at most
   MaxGenerations times. *)
HelperFinishes ==
  \A n \in FairNodes : helper[n] # "idle" ~> helper[n] = "idle"
=============================================================================
