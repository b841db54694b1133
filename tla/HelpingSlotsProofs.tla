------------------------- MODULE HelpingSlotsProofs -------------------------
(***************************************************************************)
(* The hand-over protocol is safe for any number of nodes, storages,       *)
(* values and generations.                                                 *)
(*                                                                         *)
(* The compare-exchange of help is an optimistic validation: everything    *)
(* the helper has read since it saw a generation (the address, the         *)
(* reader's envelope) is current as long as the control word still holds   *)
(* that generation.  The invariant says so, once for each thing read.      *)
(***************************************************************************)
EXTENDS HelpingSlots, TLAPS

(* A helper has seen a generation that the reader has already chosen, and a
   reader about to publish one has chosen it after all that were seen. *)
ObservedPast ==
  \A n \in Nodes : helper[n] # "idle" =>
    /\ who[n] # n
    /\ target[n] \in Storages
    /\ \E g \in 0..generation[who[n]] :
         /\ observed[n] = Gen(g)
         /\ reader[who[n]] = "swap_control" => g # generation[who[n]]

(* Outside of the load of a replacement, a helper reads nothing itself. *)
HelperNotReading ==
  \A n \in Nodes : helper[n] \notin {"idle", "replacement"} => reader[n] = "idle"

(* What the helper has read is current while the generation is. *)
AddrCurrent ==
  \A n \in Nodes :
    helper[n] \in {"replacement", "their_space", "fill", "cas"}
      /\ control[who[n]] = observed[n] => active_addr[who[n]] = target[n]

SpaceCurrent ==
  \A n \in Nodes :
    helper[n] \in {"fill", "cas"} /\ control[who[n]] = observed[n] =>
      their_space[n] = space_offer[who[n]]

(* The envelope about to be handed over holds the replacement. *)
EnvelopeFilled ==
  \A n \in Nodes :
    /\ helper[n] \in {"their_space", "fill", "cas"} =>
         replacement[n] \in Loadable[target[n]]
    /\ helper[n] = "cas" => handover[space_offer[n]] = replacement[n]

IInv ==
  /\ TypeOK
  /\ ControlFollowsReader
  /\ ObservedPast
  /\ HelperNotReading
  /\ AddrCurrent
  /\ SpaceCurrent
  /\ EnvelopeFilled
  /\ EnvelopeExclusive
  /\ HandoverMatchesRequest

-----------------------------------------------------------------------------
USE LoadableAssumption, ZeroAssumption, MaxGenerationsAssumption
USE DEF IDLE, Gen, Replacement, Generations, Handovers, IsGen, IsReplacement,
        ReaderPc, HelperPc, readerVars, helperVars

(* Slots::default and Slots::init establish the invariant. *)
LEMMA InitEstablishesIInv == Init => IInv
<1> SUFFICES ASSUME Init PROVE IInv
  OBVIOUS
<1>1. TypeOK
  BY DEF Init, TypeOK
<1>2. ControlFollowsReader
  BY DEF Init, ControlFollowsReader
<1>3. ObservedPast
  BY DEF Init, ObservedPast
<1>4. HelperNotReading
  BY DEF Init, HelperNotReading
<1>5. AddrCurrent
  BY DEF Init, AddrCurrent
<1>6. SpaceCurrent
  BY DEF Init, SpaceCurrent
<1>7. EnvelopeFilled
  BY DEF Init, EnvelopeFilled
<1>8. EnvelopeExclusive
  BY DEF Init, EnvelopeExclusive, OwnEnvelope
<1>9. HandoverMatchesRequest
  BY DEF Init, HandoverMatchesRequest
<1> QED BY <1>1, <1>2, <1>3, <1>4, <1>5, <1>6, <1>7, <1>8, <1>9 DEF IInv

(* The reader stores an address while its control word is IDLE, which matches no
   generation that a helper has seen. *)
LEMMA GetDebtAddrStep ==
  ASSUME IInv, NEW n \in Nodes, NEW s \in Storages, GetDebtAddr(n, s)
  PROVE  IInv'
<1> USE DEF IInv, GetDebtAddr
<1>1. TypeOK'
  BY DEF TypeOK
<1>2. ControlFollowsReader'
  BY DEF TypeOK, ControlFollowsReader
<1>3. ObservedPast'
  BY DEF TypeOK, ObservedPast
<1>4. HelperNotReading'
  BY DEF TypeOK, HelperNotReading
<1>5. AddrCurrent'
  BY DEF TypeOK, ControlFollowsReader, ObservedPast, AddrCurrent
<1>6. SpaceCurrent'
  BY DEF TypeOK, SpaceCurrent
<1>7. EnvelopeFilled'
  BY DEF TypeOK, EnvelopeFilled
<1>8. EnvelopeExclusive'
  BY DEF TypeOK, EnvelopeExclusive, OwnEnvelope
<1>9. HandoverMatchesRequest'
  BY DEF TypeOK, ControlFollowsReader, HandoverMatchesRequest
<1> QED BY <1>1, <1>2, <1>3, <1>4, <1>5, <1>6, <1>7, <1>8, <1>9

(* The generation published now is newer than every one that was seen. *)
LEMMA GetDebtControlStep ==
  ASSUME IInv, NEW n \in Nodes, GetDebtControl(n)
  PROVE  IInv'
<1> USE DEF IInv, GetDebtControl
<1>1. TypeOK'
  BY DEF TypeOK
<1>2. ControlFollowsReader'
  BY DEF TypeOK, ControlFollowsReader
<1>3. ObservedPast'
  BY DEF TypeOK, ObservedPast
<1>4. HelperNotReading'
  BY DEF TypeOK, HelperNotReading
<1>5. AddrCurrent'
  BY DEF TypeOK, ObservedPast, AddrCurrent
<1>6. SpaceCurrent'
  BY DEF TypeOK, ObservedPast, SpaceCurrent
<1>7. EnvelopeFilled'
  BY DEF TypeOK, EnvelopeFilled
<1>8. EnvelopeExclusive'
  BY DEF TypeOK, ControlFollowsReader, EnvelopeExclusive, OwnEnvelope
<1>9. HandoverMatchesRequest'
  BY DEF TypeOK, HandoverMatchesRequest
<1> QED BY <1>1, <1>2, <1>3, <1>4, <1>5, <1>6, <1>7, <1>8, <1>9

(* Taking the control word back makes the helpers' compare-exchange fail; the
   reader now owns the envelope it found there. *)
LEMMA ConfirmStep ==
  ASSUME IInv, NEW n \in Nodes, Confirm(n)
  PROVE  IInv'
<1> USE DEF IInv, Confirm
<1>1. TypeOK'
  <2>1. control[n] # Gen(generation[n]) => control[n][2] \in Nodes
    BY DEF TypeOK, ControlFollowsReader
  <2> QED BY <2>1 DEF TypeOK
<1>2. ControlFollowsReader'
  BY DEF TypeOK, ControlFollowsReader
<1>3. ObservedPast'
  BY DEF TypeOK, ObservedPast
<1>4. HelperNotReading'
  BY DEF TypeOK, HelperNotReading
<1>5. AddrCurrent'
  BY DEF TypeOK, ObservedPast, AddrCurrent
<1>6. SpaceCurrent'
  BY DEF TypeOK, ObservedPast, SpaceCurrent
<1>7. EnvelopeFilled'
  BY DEF TypeOK, EnvelopeFilled
<1>8. EnvelopeExclusive'
  BY DEF TypeOK, ControlFollowsReader, EnvelopeExclusive, OwnEnvelope
<1>9. HandoverMatchesRequest'
  BY DEF TypeOK, ControlFollowsReader, HandoverMatchesRequest
<1> QED BY <1>1, <1>2, <1>3, <1>4, <1>5, <1>6, <1>7, <1>8, <1>9

(* space_offer catches up with the ownership that confirm has changed. *)
LEMMA TakeHandoverStep ==
  ASSUME IInv, NEW n \in Nodes, TakeHandover(n)
  PROVE  IInv'
<1> USE DEF IInv, TakeHandover
<1>1. TypeOK'
  BY DEF TypeOK
<1>2. ControlFollowsReader'
  BY DEF TypeOK, ControlFollowsReader
<1>3. ObservedPast'
  BY DEF TypeOK, ObservedPast
<1>4. HelperNotReading'
  BY DEF TypeOK, HelperNotReading
<1>5. AddrCurrent'
  BY DEF TypeOK, AddrCurrent
<1>6. SpaceCurrent'
  BY DEF TypeOK, ControlFollowsReader, ObservedPast, SpaceCurrent
<1>7. EnvelopeFilled'
  BY DEF TypeOK, HelperNotReading, EnvelopeFilled
<1>8. EnvelopeExclusive'
  BY DEF TypeOK, ControlFollowsReader, EnvelopeExclusive, OwnEnvelope
<1>9. HandoverMatchesRequest'
  BY DEF TypeOK, HandoverMatchesRequest
<1> QED BY <1>1, <1>2, <1>3, <1>4, <1>5, <1>6, <1>7, <1>8, <1>9

(* A helper begins with the generation the reader has chosen last. *)
LEMMA HelpStartStep ==
  ASSUME IInv, NEW n \in Nodes, NEW w \in Nodes, NEW s \in Storages,
         HelpStart(n, w, s)
  PROVE  IInv'
<1> USE DEF IInv, HelpStart
<1>1. TypeOK'
  BY DEF TypeOK
<1>2. ControlFollowsReader'
  BY DEF TypeOK, ControlFollowsReader
<1>3. ObservedPast'
  BY DEF TypeOK, ControlFollowsReader, ObservedPast
<1>4. HelperNotReading'
  BY DEF TypeOK, HelperNotReading
<1>5. AddrCurrent'
  BY DEF TypeOK, AddrCurrent
<1>6. SpaceCurrent'
  BY DEF TypeOK, SpaceCurrent
<1>7. EnvelopeFilled'
  BY DEF TypeOK, EnvelopeFilled
<1>8. EnvelopeExclusive'
  BY DEF TypeOK, EnvelopeExclusive, OwnEnvelope
<1>9. HandoverMatchesRequest'
  BY DEF TypeOK, HandoverMatchesRequest
<1> QED BY <1>1, <1>2, <1>3, <1>4, <1>5, <1>6, <1>7, <1>8, <1>9

(* The address that was read is the one of the generation that was seen. *)
LEMMA HelpCheckAddrStep ==
  ASSUME IInv, NEW n \in Nodes, HelpCheckAddr(n)
  PROVE  IInv'
<1> USE DEF IInv, HelpCheckAddr
<1>1. TypeOK'
  BY DEF TypeOK
<1>2. ControlFollowsReader'
  BY DEF TypeOK, ControlFollowsReader
<1>3. ObservedPast'
  BY DEF TypeOK, ObservedPast
<1>4. HelperNotReading'
  BY DEF TypeOK, HelperNotReading
<1>5. AddrCurrent'
  BY DEF TypeOK, AddrCurrent
<1>6. SpaceCurrent'
  BY DEF TypeOK, SpaceCurrent
<1>7. EnvelopeFilled'
  BY DEF TypeOK, EnvelopeFilled
<1>8. EnvelopeExclusive'
  BY DEF TypeOK, EnvelopeExclusive, OwnEnvelope
<1>9. HandoverMatchesRequest'
  BY DEF TypeOK, HandoverMatchesRequest
<1> QED BY <1>1, <1>2, <1>3, <1>4, <1>5, <1>6, <1>7, <1>8, <1>9

(* Nothing shared changes: the helper leaves, or begins again. *)
LEMMA HelpRecheckStep ==
  ASSUME IInv, NEW n \in Nodes, HelpRecheck(n)
  PROVE  IInv'
<1> USE DEF IInv, HelpRecheck, Return, Retry, Again
<1>1. TypeOK'
  <2>1. CASE Return(n)
    BY <2>1 DEF TypeOK
  <2>2. CASE Again(n)
    <3>1. control[who[n]] \in Generations
      BY <2>2 DEF TypeOK, Again
    <3> QED BY <2>2, <3>1 DEF TypeOK, Again
  <2> QED BY <2>1, <2>2
<1>2. ControlFollowsReader'
  BY DEF TypeOK, ControlFollowsReader
<1>3. ObservedPast'
  <2>1. CASE Return(n)
    BY <2>1 DEF TypeOK, ObservedPast
  <2>2. CASE Again(n)
    <3>1. /\ control[who[n]] = Gen(generation[who[n]])
          /\ reader[who[n]] = "confirm"
      BY <2>2 DEF TypeOK, ControlFollowsReader, Again
    <3>2. generation[who[n]] \in 0..generation[who[n]]
      BY DEF TypeOK
    <3>3. observed'[n] = Gen(generation[who[n]])
      BY <2>2, <3>1 DEF TypeOK, Again
    <3> QED BY <2>2, <3>1, <3>2, <3>3 DEF TypeOK, ObservedPast, Again
  <2> QED BY <2>1, <2>2
<1>4. HelperNotReading'
  BY DEF TypeOK, HelperNotReading
<1>5. AddrCurrent'
  BY DEF TypeOK, ControlFollowsReader, AddrCurrent
<1>6. SpaceCurrent'
  BY DEF TypeOK, SpaceCurrent
<1>7. EnvelopeFilled'
  BY DEF TypeOK, EnvelopeFilled
<1>8. EnvelopeExclusive'
  <2>1. \A m \in Nodes : OwnEnvelope(m)' = OwnEnvelope(m)
    BY DEF TypeOK, OwnEnvelope
  <2> QED BY <2>1 DEF EnvelopeExclusive
<1>9. HandoverMatchesRequest'
  BY DEF TypeOK, HandoverMatchesRequest
<1> QED BY <1>1, <1>2, <1>3, <1>4, <1>5, <1>6, <1>7, <1>8, <1>9

(* The replacement comes from the storage the reader asks for. *)
LEMMA HelpReplacementStep ==
  ASSUME IInv, NEW n \in Nodes, HelpReplacement(n)
  PROVE  IInv'
<1> USE DEF IInv, HelpReplacement
<1>1. TypeOK'
  BY DEF TypeOK, ObservedPast
<1>2. ControlFollowsReader'
  BY DEF TypeOK, ControlFollowsReader
<1>3. ObservedPast'
  BY DEF TypeOK, ObservedPast
<1>4. HelperNotReading'
  BY DEF TypeOK, HelperNotReading
<1>5. AddrCurrent'
  BY DEF TypeOK, AddrCurrent
<1>6. SpaceCurrent'
  BY DEF TypeOK, SpaceCurrent
<1>7. EnvelopeFilled'
  BY DEF TypeOK, EnvelopeFilled
<1>8. EnvelopeExclusive'
  BY DEF TypeOK, EnvelopeExclusive, OwnEnvelope
<1>9. HandoverMatchesRequest'
  BY DEF TypeOK, HandoverMatchesRequest
<1> QED BY <1>1, <1>2, <1>3, <1>4, <1>5, <1>6, <1>7, <1>8, <1>9

(* The reader's envelope is read. *)
LEMMA HelpTheirSpaceStep ==
  ASSUME IInv, NEW n \in Nodes, HelpTheirSpace(n)
  PROVE  IInv'
<1> USE DEF IInv, HelpTheirSpace
<1>1. TypeOK'
  BY DEF TypeOK
<1>2. ControlFollowsReader'
  BY DEF TypeOK, ControlFollowsReader
<1>3. ObservedPast'
  BY DEF TypeOK, ObservedPast
<1>4. HelperNotReading'
  BY DEF TypeOK, HelperNotReading
<1>5. AddrCurrent'
  BY DEF TypeOK, AddrCurrent
<1>6. SpaceCurrent'
  BY DEF TypeOK, SpaceCurrent
<1>7. EnvelopeFilled'
  BY DEF TypeOK, EnvelopeFilled
<1>8. EnvelopeExclusive'
  BY DEF TypeOK, EnvelopeExclusive, OwnEnvelope
<1>9. HandoverMatchesRequest'
  BY DEF TypeOK, HandoverMatchesRequest
<1> QED BY <1>1, <1>2, <1>3, <1>4, <1>5, <1>6, <1>7, <1>8, <1>9

(* The writer fills its own envelope: nobody else's, by EnvelopeExclusive. *)
LEMMA HelpFillStep ==
  ASSUME IInv, NEW n \in Nodes, HelpFill(n)
  PROVE  IInv'
<1> USE DEF IInv, HelpFill
<1>1. TypeOK'
  BY DEF TypeOK
<1>2. ControlFollowsReader'
  BY DEF TypeOK, ControlFollowsReader
<1>3. ObservedPast'
  BY DEF TypeOK, ObservedPast
<1>4. HelperNotReading'
  BY DEF TypeOK, HelperNotReading
<1>5. AddrCurrent'
  BY DEF TypeOK, AddrCurrent
<1>6. SpaceCurrent'
  BY DEF TypeOK, SpaceCurrent
<1>7. EnvelopeFilled'
  <2>1. \A m \in Nodes : m # n => OwnEnvelope(m) # space_offer[n]
    <3>1. OwnEnvelope(n) = space_offer[n]
      BY DEF TypeOK, ControlFollowsReader, HelperNotReading, OwnEnvelope
    <3> QED BY <3>1 DEF EnvelopeExclusive
  <2>2. \A m \in Nodes : helper[m] = "cas" => OwnEnvelope(m) = space_offer[m]
    BY DEF TypeOK, ControlFollowsReader, HelperNotReading, OwnEnvelope
  <2> QED BY <2>1, <2>2 DEF TypeOK, EnvelopeFilled
<1>8. EnvelopeExclusive'
  BY DEF TypeOK, EnvelopeExclusive, OwnEnvelope
<1>9. HandoverMatchesRequest'
  <2>1. \A m \in Nodes : m # n => OwnEnvelope(m) # space_offer[n]
    <3>1. OwnEnvelope(n) = space_offer[n]
      BY DEF TypeOK, ControlFollowsReader, HelperNotReading, OwnEnvelope
    <3> QED BY <3>1 DEF EnvelopeExclusive
  <2>2. reader[n] = "idle" /\ control[n] = IDLE
    BY DEF HelperNotReading, ControlFollowsReader
  <2>3. \A m \in Nodes :
          IsReplacement(control[m]) => OwnEnvelope(m) = control[m][2]
    BY DEF OwnEnvelope, ControlFollowsReader, HelperNotReading
  <2>4. \A m \in Nodes :
          reader[m] = "take_handover" => OwnEnvelope(m) = envelope[m]
    BY DEF OwnEnvelope, ControlFollowsReader, HelperNotReading
  <2> QED BY <2>1, <2>2, <2>3, <2>4 DEF TypeOK, HandoverMatchesRequest
<1> QED BY <1>1, <1>2, <1>3, <1>4, <1>5, <1>6, <1>7, <1>8, <1>9

(* The hand-over exchanges the two envelopes. *)
LEMMA HelpCasStep ==
  ASSUME IInv, NEW n \in Nodes, HelpCas(n)
  PROVE  IInv'
<1> USE DEF IInv, HelpCas, Return, Retry, Again
<1>1. TypeOK'
  <2>1. CASE control[who[n]] = observed[n]
    BY <2>1 DEF TypeOK
  <2>2. CASE Return(n) /\ UNCHANGED control
    BY <2>2 DEF TypeOK
  <2>3. CASE Again(n) /\ UNCHANGED control
    <3>1. control[who[n]] \in Generations
      BY <2>3 DEF TypeOK, Again
    <3> QED BY <2>3, <3>1 DEF TypeOK, Again
  <2> QED BY <2>1, <2>2, <2>3
<1>2. ControlFollowsReader'
  BY DEF TypeOK, ControlFollowsReader, ObservedPast
<1>3. ObservedPast'
  <2>1. CASE control[who[n]] = observed[n]
    BY <2>1 DEF TypeOK, ObservedPast
  <2>2. CASE Return(n) /\ UNCHANGED control
    BY <2>2 DEF TypeOK, ObservedPast
  <2>3. CASE Again(n) /\ UNCHANGED control
    <3>1. /\ control[who[n]] = Gen(generation[who[n]])
          /\ reader[who[n]] = "confirm"
      BY <2>3 DEF TypeOK, ControlFollowsReader
    <3>2. generation[who[n]] \in 0..generation[who[n]]
      BY DEF TypeOK
    <3>3. observed'[n] = Gen(generation[who[n]])
      BY <2>3, <3>1 DEF TypeOK
    <3> QED BY <2>3, <3>1, <3>2, <3>3 DEF TypeOK, ObservedPast
  <2> QED BY <2>1, <2>2, <2>3
<1>4. HelperNotReading'
  BY DEF TypeOK, HelperNotReading
<1>5. AddrCurrent'
  BY DEF TypeOK, ObservedPast, AddrCurrent
<1>6. SpaceCurrent'
  BY DEF TypeOK, ObservedPast, SpaceCurrent
<1>7. EnvelopeFilled'
  BY DEF TypeOK, EnvelopeFilled
<1>8. EnvelopeExclusive'
  <2>1. CASE control[who[n]] # observed[n]
    <3>1. \A m \in Nodes : OwnEnvelope(m)' = OwnEnvelope(m)
      BY <2>1 DEF TypeOK, OwnEnvelope
    <3> QED BY <3>1 DEF EnvelopeExclusive
  <2>2. CASE control[who[n]] = observed[n]
    <3>0. PICK w \in Nodes : w = who[n]
      BY DEF TypeOK
    <3>1. /\ w # n
          /\ control[n] = IDLE /\ reader[n] = "idle"
          /\ IsGen(control[w]) /\ reader[w] = "confirm"
          /\ helper[w] # "switch"
      BY <2>2, <3>0 DEF TypeOK, ObservedPast, ControlFollowsReader,
             HelperNotReading
    <3>2. OwnEnvelope(n) = space_offer[n] /\ OwnEnvelope(w) = space_offer[w]
      BY <3>1 DEF OwnEnvelope
    <3>3. OwnEnvelope(w)' = space_offer[n]
      BY <2>2, <3>0, <3>1 DEF OwnEnvelope, TypeOK
    <3>4. OwnEnvelope(n)' = space_offer[w]
      BY <2>2, <3>0, <3>1 DEF OwnEnvelope, TypeOK, SpaceCurrent
    <3>5. \A m \in Nodes \ {n, w} : OwnEnvelope(m)' = OwnEnvelope(m)
      BY <2>2, <3>0, <3>1 DEF OwnEnvelope, TypeOK
    <3> SUFFICES ASSUME NEW a \in Nodes, NEW b \in Nodes,
                        OwnEnvelope(a)' = OwnEnvelope(b)'
                 PROVE  a = b
      BY DEF EnvelopeExclusive
    <3> QED BY <3>1, <3>2, <3>3, <3>4, <3>5 DEF EnvelopeExclusive
  <2> QED BY <2>1, <2>2
<1>9. HandoverMatchesRequest'
  BY DEF TypeOK, AddrCurrent, EnvelopeFilled, HandoverMatchesRequest
<1> QED BY <1>1, <1>2, <1>3, <1>4, <1>5, <1>6, <1>7, <1>8, <1>9

(* space_offer catches up with the ownership that the hand-over has changed. *)
LEMMA HelpSwitchStep ==
  ASSUME IInv, NEW n \in Nodes, HelpSwitch(n)
  PROVE  IInv'
<1> USE DEF IInv, HelpSwitch, Return
<1>1. TypeOK'
  BY DEF TypeOK
<1>2. ControlFollowsReader'
  BY DEF TypeOK, ControlFollowsReader
<1>3. ObservedPast'
  BY DEF TypeOK, ObservedPast
<1>4. HelperNotReading'
  BY DEF TypeOK, HelperNotReading
<1>5. AddrCurrent'
  BY DEF TypeOK, AddrCurrent
<1>6. SpaceCurrent'
  BY DEF TypeOK, ControlFollowsReader, ObservedPast, HelperNotReading,
         SpaceCurrent
<1>7. EnvelopeFilled'
  BY DEF TypeOK, EnvelopeFilled
<1>8. EnvelopeExclusive'
  <2>1. control[n] = IDLE /\ reader[n] = "idle"
    BY DEF ControlFollowsReader, HelperNotReading
  <2>2. OwnEnvelope(n)' = OwnEnvelope(n)
    BY <2>1 DEF TypeOK, OwnEnvelope
  <2>3. \A m \in Nodes \ {n} : OwnEnvelope(m)' = OwnEnvelope(m)
    BY DEF TypeOK, OwnEnvelope
  <2> QED BY <2>2, <2>3 DEF EnvelopeExclusive
<1>9. HandoverMatchesRequest'
  BY DEF TypeOK, HandoverMatchesRequest
<1> QED BY <1>1, <1>2, <1>3, <1>4, <1>5, <1>6, <1>7, <1>8, <1>9

(* The new owner starts its generations again at zero: nobody is left on the
   node who could have seen one of the old owner's. *)
LEMMA ChangeOwnerStep ==
  ASSUME IInv, NEW n \in Nodes, ChangeOwner(n)
  PROVE  IInv'
<1> USE DEF IInv, ChangeOwner
<1>1. TypeOK'
  BY DEF TypeOK
<1>2. ControlFollowsReader'
  BY DEF TypeOK, ControlFollowsReader
<1>3. ObservedPast'
  BY DEF TypeOK, ObservedPast
<1>4. HelperNotReading'
  BY DEF HelperNotReading
<1>5. AddrCurrent'
  BY DEF AddrCurrent
<1>6. SpaceCurrent'
  BY DEF SpaceCurrent
<1>7. EnvelopeFilled'
  BY DEF EnvelopeFilled
<1>8. EnvelopeExclusive'
  BY DEF EnvelopeExclusive, OwnEnvelope
<1>9. HandoverMatchesRequest'
  BY DEF HandoverMatchesRequest
<1> QED BY <1>1, <1>2, <1>3, <1>4, <1>5, <1>6, <1>7, <1>8, <1>9

-----------------------------------------------------------------------------
(* The inductive invariant holds in every state of the protocol. *)
THEOREM Invariance == Spec => []IInv
<1>1. Init => IInv
  BY InitEstablishesIInv
<1>2. IInv /\ [Next]_vars => IInv'
  <2> SUFFICES ASSUME IInv, [Next]_vars PROVE IInv'
    OBVIOUS
  <2>1. CASE Elsewhere \/ UNCHANGED vars
    BY <2>1 DEF Elsewhere, vars, IInv, TypeOK, ControlFollowsReader,
           ObservedPast,
                HelperNotReading, AddrCurrent, SpaceCurrent, EnvelopeFilled,
                EnvelopeExclusive, OwnEnvelope, HandoverMatchesRequest
  <2>2. CASE \E n \in Nodes, s \in Storages : GetDebtAddr(n, s)
    BY <2>2, GetDebtAddrStep
  <2>3. CASE \E n \in Nodes : ReaderStep(n)
    BY <2>3, GetDebtControlStep, ConfirmStep, TakeHandoverStep DEF ReaderStep
  <2>4. CASE \E n, w \in Nodes, s \in Storages : HelpStart(n, w, s)
    BY <2>4, HelpStartStep
  <2>5. CASE \E n \in Nodes : HelperStep(n)
    BY <2>5, HelpCheckAddrStep, HelpRecheckStep, HelpReplacementStep,
       HelpTheirSpaceStep, HelpFillStep, HelpCasStep, HelpSwitchStep
    DEF HelperStep
  <2>6. CASE \E n \in Nodes : ChangeOwner(n)
    BY <2>6, ChangeOwnerStep
  <2> QED BY <2>1, <2>2, <2>3, <2>4, <2>5, <2>6 DEF Next
<1> QED BY <1>1, <1>2, PTL DEF Spec

(* The variables have their types: in particular every envelope that a control
   word or a space_offer names is one of the nodes' envelopes. *)
THEOREM TypeCorrect == Spec => []TypeOK
<1>1. IInv => TypeOK
  BY DEF IInv
<1> QED BY <1>1, Invariance, PTL

(* get_debt never finds its control word in use ("Left control in wrong
   state"), and confirm finds its generation or a hand-over, nothing else. *)
THEOREM ControlDiscipline == Spec => []ControlFollowsReader
<1>1. IInv => ControlFollowsReader
  BY DEF IInv
<1> QED BY <1>1, Invariance, PTL

(* The exchange of envelopes by help and confirm gives every node exactly one,
   whatever the interleaving of readers and helpers. *)
THEOREM EnvelopesNeverShared == Spec => []EnvelopeExclusive
<1>1. IInv => EnvelopeExclusive
  BY DEF IInv
<1> QED BY <1>1, Invariance, PTL

(* A reader that was helped finds a value of the storage it loads from: the
   check of active_addr and the generations keep every other helper out. *)
THEOREM HandoversMatch == Spec => []HandoverMatchesRequest
<1>1. IInv => HandoverMatchesRequest
  BY DEF IInv
<1> QED BY <1>1, Invariance, PTL
=============================================================================
