------------------------ MODULE HybridStrategyProofs ------------------------
(***************************************************************************)
(* The hybrid strategy for every number of threads, slots, storages and    *)
(* generations, second part: the reference counts.                         *)
(*                                                                         *)
(* Ledger is Accounting part by part.  cnt plus the debts is the number of *)
(* references, and every action changes both sides by the same amount: one *)
(* lemma per action (XBalanced) compares what the thread of the step had   *)
(* before and has after.                                                   *)
(*                                                                         *)
(* The balance alone does not keep a value alive, since the debts stand on *)
(* the side of the counts.  Memory says why it does: every debt has a      *)
(* debtor, and a debt that its load has confirmed, or that has become a    *)
(* guard, is on a pointer that is in a storage, or that a writer has taken *)
(* out and will walk over that very slot to pay.  What a storage or such a *)
(* writer stands for is a reference without a debt, so the count is not    *)
(* zero.                                                                   *)
(*                                                                         *)
(* The two together give TypeOK (no count is ever negative) and            *)
(* NoUseAfterFree.                                                         *)
(***************************************************************************)
EXTENDS HybridControl, CardinalityLemmas
USE NullAssumption DEF NoStorage, nodeVars, localVars

(* One for a pointer to a, nothing for another. *)
Is(p, a) == IF p = a THEN 1 ELSE 0

(* The parts of the balance of a: what the debt slots, the storages, the
   callers, the hand-overs, the loads and the writes stand for. *)
Debts(a) == Cardinality({x \in SlotIds : slots[x] = a})
Stored(a) == Cardinality({s \in Storages : storage[s] = a})
Held(a) == Cardinality(Holdings(a))
Handed(a) == Cardinality({n \in Threads : Waiting(n, a)})
Loading(a) ==
  Cardinality({t \in Threads : HasGuard(t, a)})
  + Cardinality({t \in Threads : HasInner(t, a)})
  + Cardinality({t \in Threads : HasGot(t, a)})
Writing(a) ==
  Cardinality({t \in Threads : HasOld(t, a)})
  + Cardinality({t \in Threads : HasVal(t, a)})
  + Cardinality({t \in Threads : HasRepl(t, a)})
  + Cardinality({t \in Threads : HasOldGuard(t, a)})
  + Cardinality({t \in Threads : HasNew(t, a)})

Balanced(a) ==
  /\ IsFiniteSet(Holdings(a))
  /\ cnt[a] + Debts(a)
       = Stored(a) + Held(a) + Handed(a) + Loading(a) + Writing(a)
Ledger == \A a \in Objects : Balanced(a)

(* The share of one load and of one write; H: the envelopes. *)
GuardPc ==
  {"confirm", "give_back", "confirm_control", "take", "unused_pay", "unused_dec",
   "inc", "inner_pay", "inner_dec", "drop_dec", "return"}
LoadRefs(r, H, a) ==
  (IF r.pc \in GuardPc THEN Is(r.ptr, a) ELSE 0)
  + (IF r.pc \in {"inner_pay", "inner_dec"} THEN Is(r.ptr, a) ELSE 0)
  + (IF r.pc = "take" THEN Is(H[r.env], a)
     ELSE IF r.pc \in {"unused_pay", "unused_dec"} THEN Is(r.got, a) ELSE 0)
WriteRefs(w, a) ==
  (IF w.pc \in PayAllPc \cup {"pre_pay", "release", "drop_old"}
   THEN Is(w.old, a) ELSE 0)
  + (IF w.pc \in (PayAllPc \ {"pay_inc"}) \cup {"release"}
     THEN Is(w.old, a) ELSE 0)
  + (IF w.pc \in {"their_space", "fill", "help_cas", "help_drop"}
     THEN Is(w.repl, a) ELSE 0)
  + (IF /\ w.op = "compare_and_swap"
        /\ w.pc \notin {"cas_load", "cas_retry", "drop_new"}
     THEN Is(w.old, a) ELSE 0)
  + (IF w.pc \in CasPc THEN Is(w.new, a) ELSE 0)
HandedRefs(c, a) == IF IsReplacement(c) THEN Is(handover[c[2]], a) ELSE 0

(* The summands are numbers. *)
LEMMA IsTypes ==
  /\ \A p, a : Is(p, a) \in Nat
  /\ \A r, H, a : LoadRefs(r, H, a) \in Nat
  /\ \A w, a : WriteRefs(w, a) \in Nat
<1>1. \A p, a : Is(p, a) \in Nat
  BY DEF Is
<1>2. \A r, H, a : LoadRefs(r, H, a) \in Nat
  BY <1>1 DEF LoadRefs
<1>3. \A w, a : WriteRefs(w, a) \in Nat
  BY <1>1 DEF WriteRefs
<1> QED BY <1>1, <1>2, <1>3

(* There are finitely many slots. *)
LEMMA FiniteSlots == IsFiniteSet(SlotIds) /\ IsFiniteSet(Threads)
<1>1. IsFiniteSet(Threads)
  BY NAssumption, FS_Interval DEF Threads
<1>2. IsFiniteSet(1..HELPING)
  BY Constants, FS_Interval
<1> QED BY <1>1, <1>2, FS_Product DEF SlotIds

(* Counting a set of threads that only t enters or leaves. *)
LEMMA ThreadCount ==
  ASSUME NEW t \in Threads, NEW S \in SUBSET Threads, NEW T \in SUBSET Threads,
         \A u \in Threads : u # t => (u \in S <=> u \in T)
  PROVE  /\ Cardinality(S) \in Nat /\ Cardinality(T) \in Nat
         /\ Cardinality(T) + (IF t \in S THEN 1 ELSE 0)
              = Cardinality(S) + (IF t \in T THEN 1 ELSE 0)
<1>1. IsFiniteSet(S)
  BY FiniteSlots, FS_Subset
<1>2. S \ {t} = T \ {t}
  OBVIOUS
<1> QED BY <1>1, <1>2, OneElement

(* The references of the loads when t is the only one that moves. *)
LEMMA LoadingStep ==
  ASSUME NEW t \in Threads, OnlyRd(t), NEW a,
         \A u \in Threads : u # t /\ rd[u].pc = "take" =>
           handover'[rd[u].env] = handover[rd[u].env]
  PROVE  /\ Loading(a) \in Nat /\ Loading(a)' \in Nat
         /\ Loading(a)' + LoadRefs(rd[t], handover, a) = Loading(a) + LoadRefs(rd'[t], handover', a)
<1> DEFINE A1 == {u \in Threads : HasGuard(u, a)}
           A2 == {u \in Threads : HasInner(u, a)}
           A3 == {u \in Threads : HasGot(u, a)}
           B1 == {u \in Threads : HasGuard(u, a)'}
           B2 == {u \in Threads : HasInner(u, a)'}
           B3 == {u \in Threads : HasGot(u, a)'}
<1>1. \A u \in Threads : u # t => (u \in A1 <=> u \in B1)
  BY DEF OnlyRd, HasGuard
<1>2. \A u \in Threads : u # t => (u \in A2 <=> u \in B2)
  BY DEF OnlyRd, HasInner
<1>3. \A u \in Threads : u # t => (u \in A3 <=> u \in B3)
  BY DEF OnlyRd, HasGot
<1>4. /\ (IF t \in A1 THEN 1 ELSE 0) + (IF t \in A2 THEN 1 ELSE 0)
           + (IF t \in A3 THEN 1 ELSE 0)
           = LoadRefs(rd[t], handover, a)
      /\ (IF t \in B1 THEN 1 ELSE 0) + (IF t \in B2 THEN 1 ELSE 0)
           + (IF t \in B3 THEN 1 ELSE 0)
           = LoadRefs(rd'[t], handover', a)
  BY DEF HasGuard, HasInner, HasGot, LoadRefs, GuardPc, Is
<1>5. /\ Loading(a) = Cardinality(A1) + Cardinality(A2) + Cardinality(A3)
      /\ Loading(a)' = Cardinality(B1) + Cardinality(B2) + Cardinality(B3)
  BY DEF Loading
<1>6. /\ A1 \in SUBSET Threads /\ A2 \in SUBSET Threads /\ A3 \in SUBSET Threads
      /\ B1 \in SUBSET Threads /\ B2 \in SUBSET Threads /\ B3 \in SUBSET Threads
  OBVIOUS
<1> HIDE DEF A1, A2, A3, B1, B2, B3
<1>7. /\ Cardinality(A1) \in Nat /\ Cardinality(B1) \in Nat
      /\ Cardinality(B1) + (IF t \in A1 THEN 1 ELSE 0)
           = Cardinality(A1) + (IF t \in B1 THEN 1 ELSE 0)
  BY <1>1, <1>6, ThreadCount
<1>8. /\ Cardinality(A2) \in Nat /\ Cardinality(B2) \in Nat
      /\ Cardinality(B2) + (IF t \in A2 THEN 1 ELSE 0)
           = Cardinality(A2) + (IF t \in B2 THEN 1 ELSE 0)
  BY <1>2, <1>6, ThreadCount
<1>9. /\ Cardinality(A3) \in Nat /\ Cardinality(B3) \in Nat
      /\ Cardinality(B3) + (IF t \in A3 THEN 1 ELSE 0)
           = Cardinality(A3) + (IF t \in B3 THEN 1 ELSE 0)
  BY <1>3, <1>6, ThreadCount
<1> QED BY <1>4, <1>5, <1>7, <1>8, <1>9

(* The same for the writes. *)
LEMMA WritingStep ==
  ASSUME NEW t \in Threads, OnlyWr(t), NEW a
  PROVE  /\ Writing(a) \in Nat /\ Writing(a)' \in Nat
         /\ Writing(a)' + WriteRefs(wr[t], a) = Writing(a) + WriteRefs(wr'[t], a)
<1> DEFINE A1 == {u \in Threads : HasOld(u, a)}
           A2 == {u \in Threads : HasVal(u, a)}
           A3 == {u \in Threads : HasRepl(u, a)}
           A4 == {u \in Threads : HasOldGuard(u, a)}
           A5 == {u \in Threads : HasNew(u, a)}
           B1 == {u \in Threads : HasOld(u, a)'}
           B2 == {u \in Threads : HasVal(u, a)'}
           B3 == {u \in Threads : HasRepl(u, a)'}
           B4 == {u \in Threads : HasOldGuard(u, a)'}
           B5 == {u \in Threads : HasNew(u, a)'}
<1>1. \A u \in Threads : u # t => (u \in A1 <=> u \in B1)
  BY DEF OnlyWr, HasOld
<1>2. \A u \in Threads : u # t => (u \in A2 <=> u \in B2)
  BY DEF OnlyWr, HasVal
<1>3. \A u \in Threads : u # t => (u \in A3 <=> u \in B3)
  BY DEF OnlyWr, HasRepl
<1>4. \A u \in Threads : u # t => (u \in A4 <=> u \in B4)
  BY DEF OnlyWr, HasOldGuard
<1>5. \A u \in Threads : u # t => (u \in A5 <=> u \in B5)
  BY DEF OnlyWr, HasNew
<1>6. /\ (IF t \in A1 THEN 1 ELSE 0) + (IF t \in A2 THEN 1 ELSE 0)
           + (IF t \in A3 THEN 1 ELSE 0) + (IF t \in A4 THEN 1 ELSE 0)
           + (IF t \in A5 THEN 1 ELSE 0) = WriteRefs(wr[t], a)
      /\ (IF t \in B1 THEN 1 ELSE 0) + (IF t \in B2 THEN 1 ELSE 0)
           + (IF t \in B3 THEN 1 ELSE 0) + (IF t \in B4 THEN 1 ELSE 0)
           + (IF t \in B5 THEN 1 ELSE 0) = WriteRefs(wr'[t], a)
  BY DEF HasOld, HasVal, HasRepl, HasOldGuard, HasNew, WriteRefs, CasPc, Is
<1>7. /\ Writing(a) = Cardinality(A1) + Cardinality(A2) + Cardinality(A3)
                       + Cardinality(A4) + Cardinality(A5)
      /\ Writing(a)' = Cardinality(B1) + Cardinality(B2) + Cardinality(B3)
                        + Cardinality(B4) + Cardinality(B5)
  BY DEF Writing
<1>8. /\ A1 \in SUBSET Threads /\ A2 \in SUBSET Threads /\ A3 \in SUBSET Threads
      /\ A4 \in SUBSET Threads /\ A5 \in SUBSET Threads
      /\ B1 \in SUBSET Threads /\ B2 \in SUBSET Threads /\ B3 \in SUBSET Threads
      /\ B4 \in SUBSET Threads /\ B5 \in SUBSET Threads
  OBVIOUS
<1> HIDE DEF A1, A2, A3, A4, A5, B1, B2, B3, B4, B5
<1>9. /\ Cardinality(A1) \in Nat /\ Cardinality(B1) \in Nat
      /\ Cardinality(B1) + (IF t \in A1 THEN 1 ELSE 0)
           = Cardinality(A1) + (IF t \in B1 THEN 1 ELSE 0)
  BY <1>1, <1>8, ThreadCount
<1>10. /\ Cardinality(A2) \in Nat /\ Cardinality(B2) \in Nat
       /\ Cardinality(B2) + (IF t \in A2 THEN 1 ELSE 0)
            = Cardinality(A2) + (IF t \in B2 THEN 1 ELSE 0)
  BY <1>2, <1>8, ThreadCount
<1>11. /\ Cardinality(A3) \in Nat /\ Cardinality(B3) \in Nat
       /\ Cardinality(B3) + (IF t \in A3 THEN 1 ELSE 0)
            = Cardinality(A3) + (IF t \in B3 THEN 1 ELSE 0)
  BY <1>3, <1>8, ThreadCount
<1>12. /\ Cardinality(A4) \in Nat /\ Cardinality(B4) \in Nat
       /\ Cardinality(B4) + (IF t \in A4 THEN 1 ELSE 0)
            = Cardinality(A4) + (IF t \in B4 THEN 1 ELSE 0)
  BY <1>4, <1>8, ThreadCount
<1>13. /\ Cardinality(A5) \in Nat /\ Cardinality(B5) \in Nat
       /\ Cardinality(B5) + (IF t \in A5 THEN 1 ELSE 0)
            = Cardinality(A5) + (IF t \in B5 THEN 1 ELSE 0)
  BY <1>5, <1>8, ThreadCount
<1> QED BY <1>6, <1>7, <1>9, <1>10, <1>11, <1>12, <1>13

(* The hand-overs not yet taken, when one control word changes. *)
LEMMA HandedStep ==
  ASSUME NEW n \in Threads, NEW a, handover' = handover,
         \A u \in Threads : u # n => control'[u] = control[u]
  PROVE  /\ Handed(a) \in Nat /\ Handed(a)' \in Nat
         /\ Handed(a)' + HandedRefs(control[n], a)
              = Handed(a) + HandedRefs(control'[n], a)
<1> DEFINE A1 == {u \in Threads : Waiting(u, a)}
           B1 == {u \in Threads : Waiting(u, a)'}
<1>1. \A u \in Threads : u # n => (u \in A1 <=> u \in B1)
  BY DEF Waiting, IsReplacement
<1>2. /\ (IF n \in A1 THEN 1 ELSE 0) = HandedRefs(control[n], a)
      /\ (IF n \in B1 THEN 1 ELSE 0) = HandedRefs(control'[n], a)
  BY DEF Waiting, HandedRefs, Is, IsReplacement
<1>3. Handed(a) = Cardinality(A1) /\ Handed(a)' = Cardinality(B1)
  BY DEF Handed
<1>4. A1 \in SUBSET Threads /\ B1 \in SUBSET Threads
  OBVIOUS
<1> HIDE DEF A1, B1
<1>5. /\ Cardinality(A1) \in Nat /\ Cardinality(B1) \in Nat
      /\ Cardinality(B1) + (IF n \in A1 THEN 1 ELSE 0)
           = Cardinality(A1) + (IF n \in B1 THEN 1 ELSE 0)
  BY <1>1, <1>4, ThreadCount
<1> QED BY <1>2, <1>3, <1>5

(* The storages, when one of them changes. *)
LEMMA StoredStep ==
  ASSUME Types, NEW s \in Storages, NEW v, NEW a,
         storage' = [storage EXCEPT ![s] = v]
  PROVE  /\ Stored(a) \in Nat /\ Stored(a)' \in Nat
         /\ Stored(a)' + Is(storage[s], a) = Stored(a) + Is(v, a)
<1> DEFINE A1 == {r \in Storages : storage[r] = a}
           B1 == {r \in Storages : storage'[r] = a}
<1>1. A1 \ {s} = B1 \ {s}
  BY DEF Types
<1>2. /\ (IF s \in A1 THEN 1 ELSE 0) = Is(storage[s], a)
      /\ (IF s \in B1 THEN 1 ELSE 0) = Is(v, a)
  BY DEF Is, Types
<1>3. Stored(a) = Cardinality(A1) /\ Stored(a)' = Cardinality(B1)
  BY DEF Stored
<1>4. IsFiniteSet(A1)
  <2>1. A1 \in SUBSET Storages
    OBVIOUS
  <2> QED BY <2>1, StoragesAssumption, FS_Subset
<1> HIDE DEF A1, B1
<1> QED BY <1>1, <1>2, <1>3, <1>4, OneElement

(* The debt slots, when one of them changes. *)
LEMMA DebtsStep ==
  ASSUME Types, NEW x \in SlotIds, NEW v, NEW a,
         slots' = [slots EXCEPT ![x] = v]
  PROVE  /\ Debts(a) \in Nat /\ Debts(a)' \in Nat
         /\ Debts(a)' + Is(slots[x], a) = Debts(a) + Is(v, a)
<1> DEFINE A1 == {y \in SlotIds : slots[y] = a}
           B1 == {y \in SlotIds : slots'[y] = a}
<1>1. A1 \ {x} = B1 \ {x}
  BY DEF Types
<1>2. /\ (IF x \in A1 THEN 1 ELSE 0) = Is(slots[x], a)
      /\ (IF x \in B1 THEN 1 ELSE 0) = Is(v, a)
  BY DEF Is, Types
<1>3. Debts(a) = Cardinality(A1) /\ Debts(a)' = Cardinality(B1)
  BY DEF Debts
<1>4. IsFiniteSet(A1)
  <2>1. A1 \in SUBSET SlotIds
    OBVIOUS
  <2> QED BY <2>1, FiniteSlots, FS_Subset
<1> HIDE DEF A1, B1
<1> QED BY <1>1, <1>2, <1>3, <1>4, OneElement

(* Holdings(a) for any function that counts the guards and Arcs. *)
GuardDebts == SlotIds \cup {NoDebt}
GuardOf(a, d) == [ptr |-> a, debt |-> d]
HoldingsOf(H, a) == UNION {{d} \X (1..H[GuardOf(a, d)]) : d \in GuardDebts}

(* Its elements are pairs of a debt and a number. *)
LEMMA InHoldings ==
  \A H, a, z :
    z \in HoldingsOf(H, a) <=>
      \E d \in GuardDebts : \E i \in 1..H[GuardOf(a, d)] : z = <<d, i>>
<1>1. \A H, a, z :
        z \in HoldingsOf(H, a) <=>
          \E d \in GuardDebts : z \in {d} \X (1..H[GuardOf(a, d)])
  BY Zenon DEF HoldingsOf
<1>2. \A S, d, z : z \in {d} \X S <=> \E i \in S : z = <<d, i>>
  OBVIOUS
<1> QED
  <2> SUFFICES ASSUME NEW H, NEW a, NEW z
               PROVE  z \in HoldingsOf(H, a) <=>
                        \E d \in GuardDebts : \E i \in 1..H[GuardOf(a, d)] : z = <<d, i>>
    OBVIOUS
  <2>1. \A d : z \in {d} \X (1..H[GuardOf(a, d)]) <=>
                 \E i \in 1..H[GuardOf(a, d)] : z = <<d, i>>
    BY <1>2
  <2> QED BY <1>1, <2>1

(* One more guard or Arc of a is one more element; of another, none. *)
LEMMA OneMore ==
  ASSUME NEW H \in [Handles -> Nat], NEW J \in [Handles -> Nat],
         NEW h \in Handles, NEW a \in Objects,
         \A g \in Handles : J[g] = IF g = h THEN H[g] + 1 ELSE H[g]
  PROVE  /\ h.ptr # a => HoldingsOf(J, a) = HoldingsOf(H, a)
         /\ h.ptr = a =>
              /\ HoldingsOf(J, a) = HoldingsOf(H, a) \cup {<<h.debt, H[h] + 1>>}
              /\ <<h.debt, H[h] + 1>> \notin HoldingsOf(H, a)
<1>1. h = [ptr |-> h.ptr, debt |-> h.debt] /\ h.debt \in GuardDebts
      /\ H[h] \in Nat
  BY DEF Handles, GuardDebts
<1>2. \A d \in GuardDebts : GuardOf(a, d) \in Handles
  BY DEF Handles, Ptrs, GuardDebts, GuardOf
<1>3. \A d : GuardOf(a, d) = h <=> h.ptr = a /\ d = h.debt
  BY <1>1 DEF GuardOf
<1>6. ASSUME h.ptr # a
      PROVE  HoldingsOf(J, a) = HoldingsOf(H, a)
  <2>1. \A d \in GuardDebts : J[GuardOf(a, d)] = H[GuardOf(a, d)]
    BY <1>2, <1>3, <1>6
  <2>2. ASSUME NEW z
        PROVE  z \in HoldingsOf(J, a) <=> z \in HoldingsOf(H, a)
    BY InHoldings, <2>1
  <2> QED BY <2>2
<1>7. ASSUME h.ptr = a
      PROVE  /\ HoldingsOf(J, a) = HoldingsOf(H, a) \cup {<<h.debt, H[h] + 1>>}
             /\ <<h.debt, H[h] + 1>> \notin HoldingsOf(H, a)
  <2>1. /\ GuardOf(a, h.debt) = h /\ J[GuardOf(a, h.debt)] = H[h] + 1
        /\ \A d \in GuardDebts : d # h.debt => J[GuardOf(a, d)] = H[GuardOf(a, d)]
    BY <1>1, <1>2, <1>3, <1>7
  <2>2. 1..(H[h] + 1) = (1..H[h]) \cup {H[h] + 1} /\ H[h] + 1 \notin 1..H[h]
    BY <1>1
  <2>3. ASSUME NEW z \in HoldingsOf(J, a)
        PROVE  z \in HoldingsOf(H, a) \cup {<<h.debt, H[h] + 1>>}
    <3>1. PICK d \in GuardDebts : \E i \in 1..J[GuardOf(a, d)] : z = <<d, i>>
      BY InHoldings
    <3>2. PICK i \in 1..J[GuardOf(a, d)] : z = <<d, i>>
      BY <3>1
    <3>3. CASE d # h.debt
      <4>1. i \in 1..H[GuardOf(a, d)]
        BY <2>1, <3>3
      <4> QED BY InHoldings, <3>2, <4>1
    <3>4. CASE d = h.debt
      <4>1. i \in 1..H[GuardOf(a, d)] \/ i = H[h] + 1
        BY <2>1, <2>2, <3>4
      <4> QED BY InHoldings, <3>2, <3>4, <4>1
    <3> QED BY <3>3, <3>4
  <2>4. ASSUME NEW z \in HoldingsOf(H, a)
        PROVE  z \in HoldingsOf(J, a)
    <3>1. PICK d \in GuardDebts : \E i \in 1..H[GuardOf(a, d)] : z = <<d, i>>
      BY InHoldings
    <3>2. PICK i \in 1..H[GuardOf(a, d)] : z = <<d, i>>
      BY <3>1
    <3>3. i \in 1..J[GuardOf(a, d)]
      BY <2>1, <2>2
    <3> QED BY InHoldings, <3>2, <3>3
  <2>5. <<h.debt, H[h] + 1>> \in HoldingsOf(J, a)
    <3>1. H[h] + 1 \in 1..J[GuardOf(a, h.debt)] /\ h.debt \in GuardDebts
      BY <1>1, <2>1
    <3> QED BY InHoldings, <3>1
  <2>6. <<h.debt, H[h] + 1>> \notin HoldingsOf(H, a)
    <3>1. \A d, i : <<h.debt, H[h] + 1>> = <<d, i>> => d = h.debt /\ i = H[h] + 1
      OBVIOUS
    <3> QED BY InHoldings, <2>1, <2>2, <3>1
  <2> QED BY <2>3, <2>4, <2>5, <2>6
<1> QED BY <1>6, <1>7

(* A caller gets a guard or an Arc. *)
LEMMA HeldGive ==
  ASSUME Types, NEW a \in Objects, IsFiniteSet(Holdings(a)), NEW h \in Handles,
         Give(h)
  PROVE  /\ Held(a) \in Nat /\ Held(a)' \in Nat /\ IsFiniteSet(Holdings(a)')
         /\ Held(a)' = Held(a) + Is(h.ptr, a)
<1>1. /\ Holdings(a) = HoldingsOf(held, a)
         /\ Holdings(a)' = HoldingsOf(held', a)
      /\ Held(a) = Cardinality(Holdings(a))
         /\ Held(a)' = Cardinality(Holdings(a)')
  BY DEF Holdings, HoldingsOf, GuardDebts, GuardOf, Held
<1>2. /\ held \in [Handles -> Nat] /\ held' \in [Handles -> Nat]
      /\ \A g \in Handles : held'[g] = IF g = h THEN held[g] + 1 ELSE held[g]
  BY DEF Types, Give
<1>3. Held(a) \in Nat
  BY <1>1, FS_CardinalityType
<1>4. /\ h.ptr # a => HoldingsOf(held', a) = HoldingsOf(held, a)
      /\ h.ptr = a =>
           /\ HoldingsOf(held', a) = HoldingsOf(held, a) \cup {<<h.debt, held[h] + 1>>}
           /\ <<h.debt, held[h] + 1>> \notin HoldingsOf(held, a)
  BY <1>2, OneMore
<1>5. CASE h.ptr # a
  <2>1. HoldingsOf(held', a) = HoldingsOf(held, a)
    BY <1>4, <1>5
  <2> QED BY <1>1, <1>3, <1>5, <2>1 DEF Is
<1>6. CASE h.ptr = a
  <2>1.
  /\ HoldingsOf(held', a) = HoldingsOf(held, a) \cup {<<h.debt, held[h] + 1>>}
        /\ <<h.debt, held[h] + 1>> \notin HoldingsOf(held, a)
    BY <1>4, <1>6
  <2>2. /\ IsFiniteSet(Holdings(a) \cup {<<h.debt, held[h] + 1>>})
        /\ Cardinality(Holdings(a) \cup {<<h.debt, held[h] + 1>>}) = Held(a) + 1
    <3>1. <<h.debt, held[h] + 1>> \notin Holdings(a)
      BY <1>1, <2>1
    <3> HIDE DEF Holdings
    <3> QED BY <1>1, <3>1, FS_AddElement
  <2> QED BY <1>1, <1>3, <1>6, <2>1, <2>2 DEF Is
<1> QED BY <1>5, <1>6

(* A caller loses one. *)
LEMMA HeldTake ==
  ASSUME Types, NEW a \in Objects, IsFiniteSet(Holdings(a)),
         NEW h \in Handles, held[h] > 0, Take(h)
  PROVE  /\ Held(a) \in Nat /\ Held(a)' \in Nat /\ IsFiniteSet(Holdings(a)')
         /\ Held(a)' + Is(h.ptr, a) = Held(a)
<1>1. /\ Holdings(a) = HoldingsOf(held, a)
         /\ Holdings(a)' = HoldingsOf(held', a)
      /\ Held(a) = Cardinality(Holdings(a))
         /\ Held(a)' = Cardinality(Holdings(a)')
  BY DEF Holdings, HoldingsOf, GuardDebts, GuardOf, Held
<1>2. /\ held \in [Handles -> Nat] /\ held' \in [Handles -> Nat]
      /\ \A g \in Handles : held[g] = IF g = h THEN held'[g] + 1 ELSE held'[g]
  BY DEF Types, Take
<1>3. Held(a) \in Nat
  BY <1>1, FS_CardinalityType
<1>4. /\ h.ptr # a => HoldingsOf(held, a) = HoldingsOf(held', a)
      /\ h.ptr = a =>
           /\ HoldingsOf(held, a) = HoldingsOf(held', a) \cup {<<h.debt, held'[h] + 1>>}
           /\ <<h.debt, held'[h] + 1>> \notin HoldingsOf(held', a)
  BY <1>2, OneMore
<1>5. CASE h.ptr # a
  <2>1. HoldingsOf(held, a) = HoldingsOf(held', a)
    BY <1>4, <1>5
  <2> QED BY <1>1, <1>3, <1>5, <2>1 DEF Is
<1>6. CASE h.ptr = a
  <2>1.
  /\ HoldingsOf(held, a) = HoldingsOf(held', a) \cup {<<h.debt, held'[h] + 1>>}
        /\ <<h.debt, held'[h] + 1>> \notin HoldingsOf(held', a)
    BY <1>4, <1>6
  <2>2. IsFiniteSet(Holdings(a)')
    BY <1>1, <2>1, FS_Subset
  <2>3. Held(a)' \in Nat
    BY <1>1, <2>2, FS_CardinalityType
  <2>4. Cardinality(Holdings(a)' \cup {<<h.debt, held'[h] + 1>>}) = Held(a)' + 1
    BY <1>1, <2>1, <2>2, FS_AddElement
  <2> QED BY <1>1, <1>3, <1>6, <2>1, <2>2, <2>3, <2>4 DEF Is
<1> QED BY <1>5, <1>6

(* The counts. *)
LEMMA CntInc ==
  ASSUME Types, NEW a \in Objects, NEW p \in Ptrs, Inc(p)
  PROVE  cnt'[a] = cnt[a] + Is(p, a)
<1>1. cnt \in [Objects -> Int]
  BY DEF Types
<1> QED BY <1>1 DEF Inc, Is, Ptrs

(* One count less. *)
LEMMA CntDec ==
  ASSUME Types, NEW a \in Objects, NEW p \in Ptrs, Dec(p)
  PROVE  cnt'[a] + Is(p, a) = cnt[a]
<1>1. cnt \in [Objects -> Int]
  BY DEF Types
<1> QED BY <1>1 DEF Dec, Is, Ptrs

(* The debt slots when one is paid, or was. *)
LEMMA DebtsPaid ==
  ASSUME Types, NEW a \in Objects, NEW x \in SlotIds, NEW p \in Ptrs, Paid(x, p)
  PROVE  Debts(a)' + Is(p, a) = Debts(a) /\ Debts(a) \in Nat
  /\ Debts(a)' \in Nat
<1>1. slots[x] = p /\ slots' = [slots EXCEPT ![x] = NONE]
  BY DEF Paid
<1>2. Is(NONE, a) = 0
  BY SentinelAssumption DEF Is, Ptrs
<1>3. Is(p, a) \in Nat
  BY IsTypes
<1>4. /\ Debts(a) \in Nat /\ Debts(a)' \in Nat
      /\ Debts(a)' + Is(p, a) = Debts(a) + Is(NONE, a)
  BY <1>1, DebtsStep
<1> QED BY <1>2, <1>3, <1>4

(* A debt is written in an empty slot. *)
LEMMA DebtsNew ==
  ASSUME Types, NEW a \in Objects, NEW x \in SlotIds, NEW p \in Ptrs,
         slots[x] = NONE, slots' = [slots EXCEPT ![x] = p]
  PROVE  Debts(a)' = Debts(a) + Is(p, a) /\ Debts(a) \in Nat
  /\ Debts(a)' \in Nat
<1>1. Is(NONE, a) = 0
  BY SentinelAssumption DEF Is, Ptrs
<1>2. Is(p, a) \in Nat
  BY IsTypes
<1>3. /\ Debts(a) \in Nat /\ Debts(a)' \in Nat
      /\ Debts(a)' + Is(NONE, a) = Debts(a) + Is(p, a)
  BY DebtsStep
<1> QED BY <1>1, <1>2, <1>3

(* A value that the caller owns comes out of an allocation or an Arc. *)
LEMMA NewValueBalance ==
  ASSUME Types, NEW a \in Objects, IsFiniteSet(Holdings(a)), NEW s \in Storages,
         NEW v \in Pool[s], NewValue(s, v)
  PROVE  /\ Held(a) \in Nat /\ Held(a)' \in Nat /\ IsFiniteSet(Holdings(a)')
         /\ cnt'[a] + Held(a) = cnt[a] + Held(a)' + Is(v, a)
<1>1. v \in Ptrs /\ cnt \in [Objects -> Int] /\ Is(v, a) \in Nat
  BY PoolAssumption, IsTypes DEF Types
<1>2. held' = held => Holdings(a)' = Holdings(a) /\ Held(a)' = Held(a)
  BY DEF Holdings, Held
<1>3. Held(a) \in Nat
  BY FS_CardinalityType DEF Held
<1>4. CASE v = Null /\ UNCHANGED <<cnt, held>>
  <2>1. Is(v, a) = 0
    BY <1>4 DEF Is
  <2> QED BY <1>1, <1>2, <1>3, <1>4, <2>1
<1>5. CASE v # Null /\ cnt[v] = 0 /\ cnt' = [cnt EXCEPT ![v] = 1]
      /\ UNCHANGED held
  <2>1. cnt'[a] = cnt[a] + Is(v, a)
    BY <1>1, <1>5 DEF Is, Ptrs
  <2> QED BY <1>1, <1>2, <1>3, <1>5, <2>1
<1>6. CASE v # Null /\ held[Owned(v)] > 0 /\ Take(Owned(v)) /\ UNCHANGED cnt
  <2>1. Owned(v) \in Handles /\ Owned(v).ptr = v
    BY <1>1, Handle, Constants DEF Owned
  <2>2. /\ Held(a) \in Nat /\ Held(a)' \in Nat /\ IsFiniteSet(Holdings(a)')
        /\ Held(a)' + Is(v, a) = Held(a)
    BY <1>6, <2>1, HeldTake
  <2> QED BY <1>1, <1>6, <2>2
<1> QED BY <1>4, <1>5, <1>6 DEF NewValue

(* What does not change. *)
LEMMA Unmoved ==
  ASSUME Types, NEW a \in Objects, Balanced(a)
  PROVE  /\ cnt' = cnt => cnt'[a] = cnt[a]
         /\ slots' = slots => Debts(a)' = Debts(a) /\ Debts(a) \in Nat
         /\ storage' = storage => Stored(a)' = Stored(a) /\ Stored(a) \in Nat
         /\ held' = held => /\ Held(a)' = Held(a) /\ Held(a) \in Nat
                            /\ IsFiniteSet(Holdings(a)')
         /\ control' = control /\ handover' = handover =>
              Handed(a)' = Handed(a) /\ Handed(a) \in Nat
         /\ rd' = rd /\ handover' = handover =>
              \A t \in Threads : LoadRefs(rd'[t], handover'[rd'[t].env], a)
                                   = LoadRefs(rd[t], handover[rd[t].env], a)
         /\ wr' = wr => \A t \in Threads : WriteRefs(wr'[t], a) = WriteRefs(wr[t], a)
<1>1. /\ {x \in SlotIds : slots[x] = a} \in SUBSET SlotIds
      /\ {s \in Storages : storage[s] = a} \in SUBSET Storages
      /\ {n \in Threads : Waiting(n, a)} \in SUBSET Threads
  OBVIOUS
<1>2. Debts(a) \in Nat /\ Stored(a) \in Nat /\ Handed(a) \in Nat
  BY <1>1, FiniteSlots, StoragesAssumption, PartOfFinite DEF Debts, Stored,
     Handed
<1>3. Held(a) \in Nat /\ IsFiniteSet(Holdings(a))
  BY FS_CardinalityType DEF Held, Balanced
<1>4. held' = held => Held(a)' = Held(a) /\ Holdings(a)' = Holdings(a)
  BY DEF Held, Holdings
<1>5. slots' = slots => Debts(a)' = Debts(a)
  BY DEF Debts
<1>6. storage' = storage => Stored(a)' = Stored(a)
  BY DEF Stored
<1>7. control' = control /\ handover' = handover => Handed(a)' = Handed(a)
  BY DEF Handed, Waiting
<1>8. rd' = rd /\ handover' = handover =>
        \A t \in Threads : LoadRefs(rd'[t], handover', a) = LoadRefs(rd[t], handover, a)
  OBVIOUS
<1>9. wr' = wr => \A t \in Threads : WriteRefs(wr'[t], a) = WriteRefs(wr[t], a)
  OBVIOUS
<1> QED BY <1>2, <1>3, <1>4, <1>5, <1>6, <1>7, <1>8, <1>9

(* The step of t changes both sides of the balance by the same number. *)
Even(t, a) ==
  /\ cnt'[a] \in Int /\ Debts(a)' \in Nat /\ Debts(a) \in Nat
  /\ Stored(a)' \in Nat /\ Stored(a) \in Nat /\ Held(a)' \in Nat
     /\ Held(a) \in Nat
  /\ Handed(a)' \in Nat /\ Handed(a) \in Nat
  /\ cnt'[a] + Debts(a)' + LoadRefs(rd[t], handover, a) + WriteRefs(wr[t], a)
       + (Stored(a) + Held(a) + Handed(a))
     = cnt[a] + Debts(a) + LoadRefs(rd'[t], handover', a) + WriteRefs(wr'[t], a)
       + (Stored(a)' + Held(a)' + Handed(a)')

(* A step of t keeps the balance when what it takes and what it gives are even.
   *)
LEMMA LedgerStep ==
  ASSUME Types, NEW t \in Threads, OnlyRd(t), OnlyWr(t), NEW a \in Objects,
         Balanced(a),
         \A u \in Threads : u # t /\ rd[u].pc = "take" =>
           handover'[rd[u].env] = handover[rd[u].env],
         IsFiniteSet(Holdings(a)'), Even(t, a)
  PROVE  Balanced(a)'
<1> DEFINE L == LoadRefs(rd[t], handover, a)
           M == LoadRefs(rd'[t], handover', a)
           W == WriteRefs(wr[t], a)
           X == WriteRefs(wr'[t], a)
           R == Stored(a) + Held(a) + Handed(a)
           Q == Stored(a)' + Held(a)' + Handed(a)'
<1>1. Loading(a) \in Nat /\ Loading(a)' \in Nat
      /\ Loading(a)' + L = Loading(a) + M
  BY LoadingStep
<1>2. Writing(a) \in Nat /\ Writing(a)' \in Nat
      /\ Writing(a)' + W = Writing(a) + X
  BY WritingStep
<1>3. L \in Nat /\ M \in Nat /\ W \in Nat /\ X \in Nat
  BY IsTypes
<1>4. cnt[a] \in Int /\ cnt'[a] \in Int
  BY DEF Types, Even
<1>5. R \in Nat /\ Q \in Nat /\ Debts(a)' \in Nat /\ Debts(a) \in Nat
  BY DEF Even
<1>6. cnt[a] + Debts(a) = R + Loading(a) + Writing(a)
  BY DEF Balanced
<1>7. cnt'[a] + Debts(a)' + L + W + R = cnt[a] + Debts(a) + M + X + Q
  BY <1>3, <1>4, <1>5 DEF Even
<1>8. Balanced(a)' <=> cnt'[a] + Debts(a)' = Q + Loading(a)' + Writing(a)'
  BY DEF Balanced
<1> HIDE DEF L, M, W, X, R, Q
<1>9. cnt'[a] + Debts(a)' + L + W = Loading(a) + Writing(a) + M + X + Q
  <2> DEFINE c == cnt[a] + Debts(a)
             e == cnt'[a] + Debts(a)'
             l == L + W
             m == M + X
             k == Loading(a) + Writing(a)
  <2>1. /\ c \in Int /\ e \in Int /\ l \in Int /\ m \in Int /\ k \in Int
        /\ R \in Int /\ Q \in Int
    BY <1>1, <1>2, <1>3, <1>4, <1>5
  <2>2. c = R + k
    BY <1>1, <1>2, <1>5, <1>6
  <2>3. e + l + R = c + m + Q
    BY <1>3, <1>4, <1>5, <1>7
  <2>4. e + l = k + m + Q => cnt'[a] + Debts(a)' + L + W = Loading(a) + Writing(a) + M + X + Q
    BY <1>1, <1>2, <1>3, <1>4, <1>5
  <2> HIDE DEF c, e, l, m, k
  <2> QED BY <2>1, <2>2, <2>3, <2>4
<1>10. cnt'[a] + Debts(a)' = Q + Loading(a)' + Writing(a)'
  BY <1>1, <1>2, <1>3, <1>4, <1>5, <1>9
<1> QED BY <1>8, <1>10

(* The same when the envelopes stay as they are. *)
LEMMA LedgerMove ==
  ASSUME Types, NEW t \in Threads, OnlyRd(t), OnlyWr(t), NEW a \in Objects,
         Balanced(a),
         handover' = handover, IsFiniteSet(Holdings(a)'), Even(t, a)
  PROVE  Balanced(a)'
BY LedgerStep

(* The shares, by where the load and the write are. *)
LEMMA LoadValue ==
  \A r, H, a :
    /\ r.pc \in {"idle", "scan", "get_debt", "control", "candidate", "slot",
                 "panicked"} => LoadRefs(r, H, a) = 0
    /\ r.pc \in {"confirm", "give_back", "confirm_control", "inc", "drop_dec",
                 "return"} => LoadRefs(r, H, a) = Is(r.ptr, a)
    /\ r.pc \in {"inner_pay", "inner_dec"} =>
         LoadRefs(r, H, a) = Is(r.ptr, a) + Is(r.ptr, a)
    /\ r.pc = "take" => LoadRefs(r, H, a) = Is(r.ptr, a) + Is(H[r.env], a)
    /\ r.pc \in {"unused_pay", "unused_dec"} =>
         LoadRefs(r, H, a) = Is(r.ptr, a) + Is(r.got, a)
<1> SUFFICES ASSUME NEW r, NEW H, NEW a
             PROVE  /\ r.pc \in {"idle", "scan", "get_debt", "control",
                                 "candidate", "slot", "panicked"} =>
                         LoadRefs(r, H, a) = 0
                    /\ r.pc \in {"confirm", "give_back", "confirm_control",
                                 "inc", "drop_dec", "return"} =>
                         LoadRefs(r, H, a) = Is(r.ptr, a)
                    /\ r.pc \in {"inner_pay", "inner_dec"} =>
                         LoadRefs(r, H, a) = Is(r.ptr, a) + Is(r.ptr, a)
                    /\ r.pc = "take" =>
                         LoadRefs(r, H, a) = Is(r.ptr, a) + Is(H[r.env], a)
                    /\ r.pc \in {"unused_pay", "unused_dec"} =>
                         LoadRefs(r, H, a) = Is(r.ptr, a) + Is(r.got, a)
  OBVIOUS
<1>1. Is(r.ptr, a) \in Nat /\ Is(H[r.env], a) \in Nat /\ Is(r.got, a) \in Nat
  BY IsTypes
<1> QED BY <1>1 DEF LoadRefs, GuardPc

OldGuard(w, a) == IF w.op = "compare_and_swap" THEN Is(w.old, a) ELSE 0

(* What a write stands for, by where it is. *)
LEMMA WriteValue ==
  \A w, a :
    /\ w.pc = "idle" /\ w.op = "none" => WriteRefs(w, a) = 0
    /\ w.pc \in {"pre_pay", "pay_inc", "drop_old"} =>
         WriteRefs(w, a) = Is(w.old, a) + OldGuard(w, a)
    /\ w.pc \in {"help", "help_addr", "help_recheck", "replacement", "switch",
                 "pay", "release"} =>
         WriteRefs(w, a) = Is(w.old, a) + Is(w.old, a) + OldGuard(w, a)
    /\ w.pc \in {"their_space", "fill", "help_cas", "help_drop"} =>
         WriteRefs(w, a)
           = Is(w.old, a) + Is(w.old, a) + OldGuard(w, a) + Is(w.repl, a)
    /\ w.pc \in {"cas_load", "cas_retry", "drop_new"} =>
         WriteRefs(w, a) = Is(w.new, a)
    /\ w.pc \in {"cas", "cas_pay", "cas_dec"} =>
         WriteRefs(w, a) = OldGuard(w, a) + Is(w.new, a)
<1> SUFFICES ASSUME NEW w, NEW a
             PROVE  /\ w.pc = "idle" /\ w.op = "none" => WriteRefs(w, a) = 0
                    /\ w.pc \in {"pre_pay", "pay_inc", "drop_old"} =>
                         WriteRefs(w, a) = Is(w.old, a) + OldGuard(w, a)
                    /\ w.pc \in {"help", "help_addr", "help_recheck",
                                 "replacement", "switch", "pay", "release"} =>
                         WriteRefs(w, a)
                           = Is(w.old, a) + Is(w.old, a) + OldGuard(w, a)
                    /\ w.pc \in {"their_space", "fill", "help_cas",
                                 "help_drop"} =>
                         WriteRefs(w, a)
                           = Is(w.old, a) + Is(w.old, a) + OldGuard(w, a)
                             + Is(w.repl, a)
                    /\ w.pc \in {"cas_load", "cas_retry", "drop_new"} =>
                         WriteRefs(w, a) = Is(w.new, a)
                    /\ w.pc \in {"cas", "cas_pay", "cas_dec"} =>
                         WriteRefs(w, a) = OldGuard(w, a) + Is(w.new, a)
  OBVIOUS
<1>1. Is(w.old, a) \in Nat /\ Is(w.repl, a) \in Nat /\ Is(w.new, a) \in Nat
  BY IsTypes
<1> QED BY <1>1 DEF WriteRefs, PayAllPc, CasPc, OldGuard

(* The helping slots, and the fast ones, are slots. *)
LEMMA HelpingSlotId ==
  \A t \in Threads : <<t, HELPING>> \in SlotIds /\ FastSlots \subseteq SlotIds
BY Slots, Constants

(* The second read. *)
LEMMA ConfirmFastBalanced ==
  ASSUME Control, NEW t \in Threads, ConfirmFast(t),
         NEW a \in Objects, Balanced(a)
  PROVE  Balanced(a)'
<1>1. Types /\ rd[t].pc = "confirm"
  BY Own, ConfirmFastEffect
<1>2. storage' = storage /\ cnt' = cnt /\ slots' = slots /\ control' = control
      /\ handover' = handover /\ wr' = wr /\ held' = held
  BY <1>1, ConfirmFastEffect
<1>3. OnlyRd(t) /\ OnlyWr(t)
  BY <1>1, <1>2, ConfirmFastEffect DEF OnlyRd, OnlyWr, RdGo, RdMove, RdTo
<1>6. /\ cnt'[a] = cnt[a]
      /\ cnt[a] \in Int
      /\ Debts(a)' = Debts(a) /\ Debts(a) \in Nat
      /\ Stored(a)' = Stored(a) /\ Stored(a) \in Nat
      /\ Handed(a)' = Handed(a) /\ Handed(a) \in Nat
      /\ Held(a)' = Held(a) /\ Held(a) \in Nat /\ IsFiniteSet(Holdings(a)')
      /\ WriteRefs(wr'[t], a) = WriteRefs(wr[t], a)
      /\ LoadRefs(rd[t], handover, a) \in Nat /\ WriteRefs(wr[t], a) \in Nat
      /\ LoadRefs(rd'[t], handover', a) \in Nat /\ WriteRefs(wr'[t], a) \in Nat
  BY <1>1, <1>2, Unmoved, IsTypes DEF Types
<1>11. ASSUME storage[rd[t].src] = rd[t].ptr,
              RdGo(t, "return")
       PROVE  Even(t, a) /\ IsFiniteSet(Holdings(a)')
  <2>1. LoadRefs(rd'[t], handover', a) = LoadRefs(rd[t], handover, a)
    BY <1>1, <1>2, <1>11, LoadValue, IsTypes DEF RdGo, RdMove, RdTo
  <2> QED BY <1>6, <2>1 DEF Even
<1>12. ASSUME storage[rd[t].src] # rd[t].ptr,
              RdGo(t, "give_back")
       PROVE  Even(t, a) /\ IsFiniteSet(Holdings(a)')
  <2>1. LoadRefs(rd'[t], handover', a) = LoadRefs(rd[t], handover, a)
    BY <1>1, <1>2, <1>12, LoadValue, IsTypes DEF RdGo, RdMove, RdTo
  <2> QED BY <1>6, <2>1 DEF Even
<1>20. Even(t, a) /\ IsFiniteSet(Holdings(a)')
  BY <1>1, <1>11, <1>12, ConfirmFastEffect
<1> QED BY <1>1, <1>2, <1>3, <1>20, LedgerMove

(* The debt is returned, or was paid. *)
LEMMA GiveBackBalanced ==
  ASSUME Control, NEW t \in Threads, GiveBack(t),
         NEW a \in Objects, Balanced(a)
  PROVE  Balanced(a)'
<1>1. Types /\ rd[t].pc = "give_back"
  BY Own, GiveBackEffect
<1>2. storage' = storage /\ cnt' = cnt /\ control' = control
      /\ handover' = handover /\ wr' = wr /\ held' = held
  BY <1>1, GiveBackEffect
<1>3. OnlyRd(t) /\ OnlyWr(t)
  BY <1>1, <1>2, GiveBackEffect DEF OnlyRd, OnlyWr, RdMove, RdTo
<1>4. rd[t].ptr \in Ptrs /\ rd[t].debt \in SlotIds
  BY <1>1, Own, FrameTypes, Slots, Constants, HelpingSlotId DEF LoadOk,
     WriteOk, OwnerOk
<1>5. Is(rd[t].ptr, a) \in Nat
  BY <1>1, Own, IsTypes DEF WriteOk, CasPc
<1>6. /\ cnt'[a] = cnt[a]
      /\ cnt[a] \in Int
      /\ Stored(a)' = Stored(a) /\ Stored(a) \in Nat
      /\ Handed(a)' = Handed(a) /\ Handed(a) \in Nat
      /\ Held(a)' = Held(a) /\ Held(a) \in Nat /\ IsFiniteSet(Holdings(a)')
      /\ WriteRefs(wr'[t], a) = WriteRefs(wr[t], a)
      /\ LoadRefs(rd[t], handover, a) \in Nat /\ WriteRefs(wr[t], a) \in Nat
      /\ LoadRefs(rd'[t], handover', a) \in Nat /\ WriteRefs(wr'[t], a) \in Nat
  BY <1>1, <1>2, Unmoved, IsTypes DEF Types
<1>11. ASSUME Paid(rd[t].debt, rd[t].ptr),
              RdMove(t, "get_debt", Null, NoDebt)
       PROVE  Even(t, a) /\ IsFiniteSet(Holdings(a)')
  <2>1. Debts(a)' + Is(rd[t].ptr, a) = Debts(a) /\ Debts(a) \in Nat
  /\ Debts(a)' \in Nat
    BY <1>1, <1>4, <1>11, Slots, DebtsPaid
  <2>2. LoadRefs(rd'[t], handover', a) + Is(rd[t].ptr, a) = LoadRefs(rd[t], handover, a)
    BY <1>1, <1>2, <1>5, <1>11, LoadValue, IsTypes DEF RdMove, RdTo
  <2> QED BY <1>5, <1>6, <2>1, <2>2 DEF Even
<1>12. ASSUME PaidBefore(rd[t].debt, rd[t].ptr),
              RdMove(t, "return", rd[t].ptr, NoDebt)
       PROVE  Even(t, a) /\ IsFiniteSet(Holdings(a)')
  <2>1. Debts(a)' = Debts(a) /\ Debts(a) \in Nat
    BY <1>1, <1>12, Slots, Unmoved DEF PaidBefore
  <2>2. LoadRefs(rd'[t], handover', a) = LoadRefs(rd[t], handover, a)
    BY <1>1, <1>2, <1>5, <1>12, LoadValue, IsTypes DEF RdMove, RdTo
  <2> QED BY <1>5, <1>6, <2>1, <2>2 DEF Even
<1>20. Even(t, a) /\ IsFiniteSet(Holdings(a)')
  BY <1>1, <1>11, <1>12, GiveBackEffect
<1> QED BY <1>1, <1>2, <1>3, <1>20, LedgerMove

(* A new generation. *)
LEMMA GetDebtBalanced ==
  ASSUME Control, NEW t \in Threads, GetDebt(t),
         NEW a \in Objects, Balanced(a)
  PROVE  Balanced(a)'
<1>1. Types /\ rd[t].pc = "get_debt"
  BY Own, GetDebtEffect
<1>2. storage' = storage /\ cnt' = cnt /\ slots' = slots /\ control' = control
      /\ handover' = handover /\ wr' = wr /\ held' = held
  BY <1>1, GetDebtEffect
<1>3. OnlyRd(t) /\ OnlyWr(t)
  BY <1>1, <1>2, GetDebtEffect DEF OnlyRd, OnlyWr, RdGo, RdMove, RdTo
<1>6. /\ cnt'[a] = cnt[a]
      /\ cnt[a] \in Int
      /\ Debts(a)' = Debts(a) /\ Debts(a) \in Nat
      /\ Stored(a)' = Stored(a) /\ Stored(a) \in Nat
      /\ Handed(a)' = Handed(a) /\ Handed(a) \in Nat
      /\ Held(a)' = Held(a) /\ Held(a) \in Nat /\ IsFiniteSet(Holdings(a)')
      /\ WriteRefs(wr'[t], a) = WriteRefs(wr[t], a)
      /\ LoadRefs(rd[t], handover, a) \in Nat /\ WriteRefs(wr[t], a) \in Nat
      /\ LoadRefs(rd'[t], handover', a) \in Nat /\ WriteRefs(wr'[t], a) \in Nat
  BY <1>1, <1>2, Unmoved, IsTypes DEF Types
<1>11. LoadRefs(rd'[t], handover', a) = LoadRefs(rd[t], handover, a)
  BY <1>1, <1>2, GetDebtEffect, LoadValue, IsTypes DEF RdGo, RdMove, RdTo
<1>20. Even(t, a) /\ IsFiniteSet(Holdings(a)')
  BY <1>6, <1>11 DEF Even
<1> QED BY <1>1, <1>2, <1>3, <1>20, LedgerMove

(* The candidate is read. *)
LEMMA CandidateBalanced ==
  ASSUME Control, NEW t \in Threads, Candidate(t),
         NEW a \in Objects, Balanced(a)
  PROVE  Balanced(a)'
<1>1. Types /\ rd[t].pc = "candidate"
  BY Own, CandidateEffect
<1>2. storage' = storage /\ cnt' = cnt /\ slots' = slots /\ control' = control
      /\ handover' = handover /\ wr' = wr /\ held' = held
  BY <1>1, CandidateEffect
<1>3. OnlyRd(t) /\ OnlyWr(t)
  BY <1>1, <1>2, CandidateEffect DEF OnlyRd, OnlyWr, RdMove, RdTo
<1>6. /\ cnt'[a] = cnt[a]
      /\ cnt[a] \in Int
      /\ Debts(a)' = Debts(a) /\ Debts(a) \in Nat
      /\ Stored(a)' = Stored(a) /\ Stored(a) \in Nat
      /\ Handed(a)' = Handed(a) /\ Handed(a) \in Nat
      /\ Held(a)' = Held(a) /\ Held(a) \in Nat /\ IsFiniteSet(Holdings(a)')
      /\ WriteRefs(wr'[t], a) = WriteRefs(wr[t], a)
      /\ LoadRefs(rd[t], handover, a) \in Nat /\ WriteRefs(wr[t], a) \in Nat
      /\ LoadRefs(rd'[t], handover', a) \in Nat /\ WriteRefs(wr'[t], a) \in Nat
  BY <1>1, <1>2, Unmoved, IsTypes DEF Types
<1>11. ASSUME generation[t] = 0,
              RdMove(t, "panicked", storage[rd[t].src], rd[t].debt)
       PROVE  Even(t, a) /\ IsFiniteSet(Holdings(a)')
  <2>1. LoadRefs(rd'[t], handover', a) = LoadRefs(rd[t], handover, a)
    BY <1>1, <1>2, <1>11, LoadValue, IsTypes DEF RdMove, RdTo
  <2> QED BY <1>6, <2>1 DEF Even
<1>12. ASSUME generation[t] # 0,
              RdMove(t, "slot", storage[rd[t].src], rd[t].debt)
       PROVE  Even(t, a) /\ IsFiniteSet(Holdings(a)')
  <2>1. LoadRefs(rd'[t], handover', a) = LoadRefs(rd[t], handover, a)
    BY <1>1, <1>2, <1>12, LoadValue, IsTypes DEF RdMove, RdTo
  <2> QED BY <1>6, <2>1 DEF Even
<1>20. Even(t, a) /\ IsFiniteSet(Holdings(a)')
  BY <1>1, <1>11, <1>12, CandidateEffect
<1> QED BY <1>1, <1>2, <1>3, <1>20, LedgerMove

(* The debt on the candidate. *)
LEMMA ConfirmSlotBalanced ==
  ASSUME Control, NEW t \in Threads, ConfirmSlot(t),
         NEW a \in Objects, Balanced(a)
  PROVE  Balanced(a)'
<1>1. Types /\ rd[t].pc = "slot"
  BY Own, ConfirmSlotEffect
<1>2. storage' = storage /\ cnt' = cnt /\ control' = control
      /\ handover' = handover /\ wr' = wr /\ held' = held
  BY <1>1, ConfirmSlotEffect
<1>3. OnlyRd(t) /\ OnlyWr(t)
  BY <1>1, <1>2, ConfirmSlotEffect DEF OnlyRd, OnlyWr, RdMove, RdTo
<1>4. rd[t].ptr \in Ptrs /\ <<t, HELPING>> \in SlotIds
      /\ slots[<<t, HELPING>>] = NONE
  BY <1>1, Own, FrameTypes, Slots, Constants, HelpingSlotId DEF LoadOk,
     WriteOk, OwnerOk
<1>5. Is(rd[t].ptr, a) \in Nat
  BY <1>1, Own, IsTypes DEF WriteOk, CasPc
<1>6. /\ cnt'[a] = cnt[a]
      /\ cnt[a] \in Int
      /\ Stored(a)' = Stored(a) /\ Stored(a) \in Nat
      /\ Handed(a)' = Handed(a) /\ Handed(a) \in Nat
      /\ Held(a)' = Held(a) /\ Held(a) \in Nat /\ IsFiniteSet(Holdings(a)')
      /\ WriteRefs(wr'[t], a) = WriteRefs(wr[t], a)
      /\ LoadRefs(rd[t], handover, a) \in Nat /\ WriteRefs(wr[t], a) \in Nat
      /\ LoadRefs(rd'[t], handover', a) \in Nat /\ WriteRefs(wr'[t], a) \in Nat
  BY <1>1, <1>2, Unmoved, IsTypes DEF Types
<1>11. Debts(a)' = Debts(a) + Is(rd[t].ptr, a) /\ Debts(a) \in Nat
       /\ Debts(a)' \in Nat
  BY <1>1, <1>4, ConfirmSlotEffect, DebtsNew
<1>12. rd'[t].pc = "confirm_control" /\ rd'[t].ptr = rd[t].ptr
  BY <1>1, ConfirmSlotEffect DEF RdMove, RdTo
<1>13. LoadRefs(rd'[t], handover', a) = LoadRefs(rd[t], handover, a) + Is(rd[t].ptr, a)
  BY <1>1, <1>5, <1>12, LoadValue, IsTypes
<1>20. Even(t, a) /\ IsFiniteSet(Holdings(a)')
  BY <1>5, <1>6, <1>11, <1>12, <1>13 DEF Even
<1> QED BY <1>1, <1>2, <1>3, <1>20, LedgerMove

(* The envelope is emptied and kept. *)
LEMMA TakeHandoverBalanced ==
  ASSUME Control, NEW t \in Threads, TakeHandover(t),
         NEW a \in Objects, Balanced(a)
  PROVE  Balanced(a)'
<1>1. Types /\ rd[t].pc = "take"
  BY Own, TakeHandoverEffect
<1>2. storage' = storage /\ cnt' = cnt /\ slots' = slots /\ control' = control
      /\ handover' = handover /\ wr' = wr /\ held' = held
  BY <1>1, TakeHandoverEffect
<1>3. OnlyRd(t) /\ OnlyWr(t)
  BY <1>1, <1>2, TakeHandoverEffect DEF OnlyRd, OnlyWr, RdTo
<1>6. /\ cnt'[a] = cnt[a]
      /\ cnt[a] \in Int
      /\ Debts(a)' = Debts(a) /\ Debts(a) \in Nat
      /\ Stored(a)' = Stored(a) /\ Stored(a) \in Nat
      /\ Handed(a)' = Handed(a) /\ Handed(a) \in Nat
      /\ Held(a)' = Held(a) /\ Held(a) \in Nat /\ IsFiniteSet(Holdings(a)')
      /\ WriteRefs(wr'[t], a) = WriteRefs(wr[t], a)
      /\ LoadRefs(rd[t], handover, a) \in Nat /\ WriteRefs(wr[t], a) \in Nat
      /\ LoadRefs(rd'[t], handover', a) \in Nat /\ WriteRefs(wr'[t], a) \in Nat
  BY <1>1, <1>2, Unmoved, IsTypes DEF Types
<1>11. LoadRefs(rd'[t], handover', a) = LoadRefs(rd[t], handover, a)
  BY <1>1, <1>2, TakeHandoverEffect, LoadValue, IsTypes DEF RdTo
<1>20. Even(t, a) /\ IsFiniteSet(Holdings(a)')
  BY <1>6, <1>11 DEF Even
<1> QED BY <1>1, <1>2, <1>3, <1>20, LedgerMove

(* The debt on the candidate is returned, or was paid. *)
LEMMA UnusedPayBalanced ==
  ASSUME Control, NEW t \in Threads, UnusedPay(t),
         NEW a \in Objects, Balanced(a)
  PROVE  Balanced(a)'
<1>1. Types /\ rd[t].pc = "unused_pay"
  BY Own, UnusedPayEffect
<1>2. storage' = storage /\ cnt' = cnt /\ control' = control
      /\ handover' = handover /\ wr' = wr /\ held' = held
  BY <1>1, UnusedPayEffect
<1>3. OnlyRd(t) /\ OnlyWr(t)
  BY <1>1, <1>2, UnusedPayEffect DEF OnlyRd, OnlyWr, RdGo, RdMove, RdTo
<1>4. rd[t].ptr \in Ptrs /\ rd[t].debt \in SlotIds
  <2>1. LoadOk(t, rd[t]) /\ rd[t].ptr \in Ptrs
    BY <1>1, Own, FrameTypes
  <2>2. rd[t].debt \in FastSlots \cup {<<t, HELPING>>}
    BY <1>1, <2>1 DEF LoadOk
  <2> QED BY <2>1, <2>2, HelpingSlotId
<1>5. Is(rd[t].ptr, a) \in Nat
  BY <1>1, Own, IsTypes DEF WriteOk, CasPc
<1>6. /\ cnt'[a] = cnt[a]
      /\ cnt[a] \in Int
      /\ Stored(a)' = Stored(a) /\ Stored(a) \in Nat
      /\ Handed(a)' = Handed(a) /\ Handed(a) \in Nat
      /\ Held(a)' = Held(a) /\ Held(a) \in Nat /\ IsFiniteSet(Holdings(a)')
      /\ WriteRefs(wr'[t], a) = WriteRefs(wr[t], a)
      /\ LoadRefs(rd[t], handover, a) \in Nat /\ WriteRefs(wr[t], a) \in Nat
      /\ LoadRefs(rd'[t], handover', a) \in Nat /\ WriteRefs(wr'[t], a) \in Nat
  BY <1>1, <1>2, Unmoved, IsTypes DEF Types
<1>11. ASSUME Paid(rd[t].debt, rd[t].ptr),
              RdTo(t, "return", rd[t].src, rd[t].got, NoDebt, rd[t].env, Null, rd[t].full)
       PROVE  Even(t, a) /\ IsFiniteSet(Holdings(a)')
  <2>1. Debts(a)' + Is(rd[t].ptr, a) = Debts(a) /\ Debts(a) \in Nat
  /\ Debts(a)' \in Nat
    BY <1>1, <1>4, <1>11, Slots, DebtsPaid
  <2>2. LoadRefs(rd'[t], handover', a) + Is(rd[t].ptr, a) = LoadRefs(rd[t], handover, a)
    BY <1>1, <1>2, <1>5, <1>11, LoadValue, IsTypes DEF RdGo, RdMove, RdTo
  <2> QED BY <1>5, <1>6, <2>1, <2>2 DEF Even
<1>12. ASSUME PaidBefore(rd[t].debt, rd[t].ptr),
              RdGo(t, "unused_dec")
       PROVE  Even(t, a) /\ IsFiniteSet(Holdings(a)')
  <2>1. Debts(a)' = Debts(a) /\ Debts(a) \in Nat
    BY <1>1, <1>12, Slots, Unmoved DEF PaidBefore
  <2>2. LoadRefs(rd'[t], handover', a) = LoadRefs(rd[t], handover, a)
    BY <1>1, <1>2, <1>5, <1>12, LoadValue, IsTypes DEF RdGo, RdMove, RdTo
  <2> QED BY <1>5, <1>6, <2>1, <2>2 DEF Even
<1>20. Even(t, a) /\ IsFiniteSet(Holdings(a)')
  BY <1>1, <1>11, <1>12, UnusedPayEffect
<1> QED BY <1>1, <1>2, <1>3, <1>20, LedgerMove

(* The reference that paid the debt is released. *)
LEMMA UnusedDecBalanced ==
  ASSUME Control, NEW t \in Threads, UnusedDec(t),
         NEW a \in Objects, Balanced(a)
  PROVE  Balanced(a)'
<1>1. Types /\ rd[t].pc = "unused_dec"
  BY Own, UnusedDecEffect
<1>2. storage' = storage /\ slots' = slots /\ control' = control
      /\ handover' = handover /\ wr' = wr /\ held' = held
  BY <1>1, UnusedDecEffect
<1>3. OnlyRd(t) /\ OnlyWr(t)
  BY <1>1, <1>2, UnusedDecEffect DEF OnlyRd, OnlyWr, RdTo
<1>4. rd[t].ptr \in Ptrs
  BY <1>1, Own, FrameTypes, Slots, Constants, HelpingSlotId DEF LoadOk,
     WriteOk, OwnerOk
<1>5. Is(rd[t].ptr, a) \in Nat
  BY <1>1, Own, IsTypes DEF WriteOk, CasPc
<1>6. /\ cnt[a] \in Int
      /\ Debts(a)' = Debts(a) /\ Debts(a) \in Nat
      /\ Stored(a)' = Stored(a) /\ Stored(a) \in Nat
      /\ Handed(a)' = Handed(a) /\ Handed(a) \in Nat
      /\ Held(a)' = Held(a) /\ Held(a) \in Nat /\ IsFiniteSet(Holdings(a)')
      /\ WriteRefs(wr'[t], a) = WriteRefs(wr[t], a)
      /\ LoadRefs(rd[t], handover, a) \in Nat /\ WriteRefs(wr[t], a) \in Nat
      /\ LoadRefs(rd'[t], handover', a) \in Nat /\ WriteRefs(wr'[t], a) \in Nat
  BY <1>1, <1>2, Unmoved, IsTypes DEF Types
<1>11. cnt'[a] + Is(rd[t].ptr, a) = cnt[a] /\ cnt'[a] \in Int
  BY <1>1, <1>4, UnusedDecEffect, CntDec, DecTypes DEF Types
<1>12. LoadRefs(rd'[t], handover', a) + Is(rd[t].ptr, a) = LoadRefs(rd[t], handover, a)
  BY <1>1, <1>2, <1>5, UnusedDecEffect, LoadValue, IsTypes DEF RdTo
<1>20. Even(t, a) /\ IsFiniteSet(Holdings(a)')
  BY <1>5, <1>6, <1>11, <1>12 DEF Even
<1> QED BY <1>1, <1>2, <1>3, <1>20, LedgerMove

(* A reference is taken. *)
LEMMA IntoInnerIncBalanced ==
  ASSUME Control, NEW t \in Threads, IntoInnerInc(t),
         NEW a \in Objects, Balanced(a)
  PROVE  Balanced(a)'
<1>1. Types /\ rd[t].pc = "inc"
  BY Own, IntoInnerIncEffect
<1>2. storage' = storage /\ slots' = slots /\ control' = control
      /\ handover' = handover /\ wr' = wr /\ held' = held
  BY <1>1, IntoInnerIncEffect
<1>3. OnlyRd(t) /\ OnlyWr(t)
  BY <1>1, <1>2, IntoInnerIncEffect DEF OnlyRd, OnlyWr, RdGo, RdMove, RdTo
<1>4. rd[t].ptr \in Ptrs
  BY <1>1, Own, FrameTypes, Slots, Constants, HelpingSlotId DEF LoadOk,
     WriteOk, OwnerOk
<1>5. Is(rd[t].ptr, a) \in Nat
  BY <1>1, Own, IsTypes DEF WriteOk, CasPc
<1>6. /\ cnt[a] \in Int
      /\ Debts(a)' = Debts(a) /\ Debts(a) \in Nat
      /\ Stored(a)' = Stored(a) /\ Stored(a) \in Nat
      /\ Handed(a)' = Handed(a) /\ Handed(a) \in Nat
      /\ Held(a)' = Held(a) /\ Held(a) \in Nat /\ IsFiniteSet(Holdings(a)')
      /\ WriteRefs(wr'[t], a) = WriteRefs(wr[t], a)
      /\ LoadRefs(rd[t], handover, a) \in Nat /\ WriteRefs(wr[t], a) \in Nat
      /\ LoadRefs(rd'[t], handover', a) \in Nat /\ WriteRefs(wr'[t], a) \in Nat
  BY <1>1, <1>2, Unmoved, IsTypes DEF Types
<1>11. cnt'[a] = cnt[a] + Is(rd[t].ptr, a) /\ cnt'[a] \in Int
  BY <1>1, <1>4, IntoInnerIncEffect, CntInc, IncTypes DEF Types
<1>12. LoadRefs(rd'[t], handover', a) = LoadRefs(rd[t], handover, a) + Is(rd[t].ptr, a)
  BY <1>1, <1>2, <1>5, IntoInnerIncEffect, LoadValue, IsTypes DEF RdGo, RdMove,
     RdTo
<1>20. Even(t, a) /\ IsFiniteSet(Holdings(a)')
  BY <1>5, <1>6, <1>11, <1>12 DEF Even
<1> QED BY <1>1, <1>2, <1>3, <1>20, LedgerMove

(* The debt is paid, or was. *)
LEMMA IntoInnerPayBalanced ==
  ASSUME Control, NEW t \in Threads, IntoInnerPay(t),
         NEW a \in Objects, Balanced(a)
  PROVE  Balanced(a)'
<1>1. Types /\ rd[t].pc = "inner_pay"
  BY Own, IntoInnerPayEffect
<1>2. storage' = storage /\ cnt' = cnt /\ control' = control
      /\ handover' = handover /\ wr' = wr /\ held' = held
  BY <1>1, IntoInnerPayEffect
<1>3. OnlyRd(t) /\ OnlyWr(t)
  BY <1>1, <1>2, IntoInnerPayEffect DEF OnlyRd, OnlyWr, RdGo, RdMove, RdTo
<1>4. rd[t].ptr \in Ptrs /\ rd[t].debt \in SlotIds
  <2>1. LoadOk(t, rd[t]) /\ rd[t].ptr \in Ptrs
    BY <1>1, Own, FrameTypes
  <2>2. rd[t].debt \in FastSlots \cup {<<t, HELPING>>}
    BY <1>1, <2>1 DEF LoadOk
  <2> QED BY <2>1, <2>2, HelpingSlotId
<1>5. Is(rd[t].ptr, a) \in Nat
  BY <1>1, Own, IsTypes DEF WriteOk, CasPc
<1>6. /\ cnt'[a] = cnt[a]
      /\ cnt[a] \in Int
      /\ Stored(a)' = Stored(a) /\ Stored(a) \in Nat
      /\ Handed(a)' = Handed(a) /\ Handed(a) \in Nat
      /\ Held(a)' = Held(a) /\ Held(a) \in Nat /\ IsFiniteSet(Holdings(a)')
      /\ WriteRefs(wr'[t], a) = WriteRefs(wr[t], a)
      /\ LoadRefs(rd[t], handover, a) \in Nat /\ WriteRefs(wr[t], a) \in Nat
      /\ LoadRefs(rd'[t], handover', a) \in Nat /\ WriteRefs(wr'[t], a) \in Nat
  BY <1>1, <1>2, Unmoved, IsTypes DEF Types
<1>11. ASSUME Paid(rd[t].debt, rd[t].ptr),
              RdMove(t, "return", rd[t].ptr, NoDebt)
       PROVE  Even(t, a) /\ IsFiniteSet(Holdings(a)')
  <2>1. Debts(a)' + Is(rd[t].ptr, a) = Debts(a) /\ Debts(a) \in Nat
  /\ Debts(a)' \in Nat
    BY <1>1, <1>4, <1>11, Slots, DebtsPaid
  <2>2. LoadRefs(rd'[t], handover', a) + Is(rd[t].ptr, a) = LoadRefs(rd[t], handover, a)
    BY <1>1, <1>2, <1>5, <1>11, LoadValue, IsTypes DEF RdGo, RdMove, RdTo
  <2> QED BY <1>5, <1>6, <2>1, <2>2 DEF Even
<1>12. ASSUME PaidBefore(rd[t].debt, rd[t].ptr),
              RdGo(t, "inner_dec")
       PROVE  Even(t, a) /\ IsFiniteSet(Holdings(a)')
  <2>1. Debts(a)' = Debts(a) /\ Debts(a) \in Nat
    BY <1>1, <1>12, Slots, Unmoved DEF PaidBefore
  <2>2. LoadRefs(rd'[t], handover', a) = LoadRefs(rd[t], handover, a)
    BY <1>1, <1>2, <1>5, <1>12, LoadValue, IsTypes DEF RdGo, RdMove, RdTo
  <2> QED BY <1>5, <1>6, <2>1, <2>2 DEF Even
<1>20. Even(t, a) /\ IsFiniteSet(Holdings(a)')
  BY <1>1, <1>11, <1>12, IntoInnerPayEffect
<1> QED BY <1>1, <1>2, <1>3, <1>20, LedgerMove

(* The second reference is released. *)
LEMMA IntoInnerDecBalanced ==
  ASSUME Control, NEW t \in Threads, IntoInnerDec(t),
         NEW a \in Objects, Balanced(a)
  PROVE  Balanced(a)'
<1>1. Types /\ rd[t].pc = "inner_dec"
  BY Own, IntoInnerDecEffect
<1>2. storage' = storage /\ slots' = slots /\ control' = control
      /\ handover' = handover /\ wr' = wr /\ held' = held
  BY <1>1, IntoInnerDecEffect
<1>3. OnlyRd(t) /\ OnlyWr(t)
  BY <1>1, <1>2, IntoInnerDecEffect DEF OnlyRd, OnlyWr, RdMove, RdTo
<1>4. rd[t].ptr \in Ptrs
  BY <1>1, Own, FrameTypes, Slots, Constants, HelpingSlotId DEF LoadOk,
     WriteOk, OwnerOk
<1>5. Is(rd[t].ptr, a) \in Nat
  BY <1>1, Own, IsTypes DEF WriteOk, CasPc
<1>6. /\ cnt[a] \in Int
      /\ Debts(a)' = Debts(a) /\ Debts(a) \in Nat
      /\ Stored(a)' = Stored(a) /\ Stored(a) \in Nat
      /\ Handed(a)' = Handed(a) /\ Handed(a) \in Nat
      /\ Held(a)' = Held(a) /\ Held(a) \in Nat /\ IsFiniteSet(Holdings(a)')
      /\ WriteRefs(wr'[t], a) = WriteRefs(wr[t], a)
      /\ LoadRefs(rd[t], handover, a) \in Nat /\ WriteRefs(wr[t], a) \in Nat
      /\ LoadRefs(rd'[t], handover', a) \in Nat /\ WriteRefs(wr'[t], a) \in Nat
  BY <1>1, <1>2, Unmoved, IsTypes DEF Types
<1>11. cnt'[a] + Is(rd[t].ptr, a) = cnt[a] /\ cnt'[a] \in Int
  BY <1>1, <1>4, IntoInnerDecEffect, CntDec, DecTypes DEF Types
<1>12. LoadRefs(rd'[t], handover', a) + Is(rd[t].ptr, a) = LoadRefs(rd[t], handover, a)
  BY <1>1, <1>2, <1>5, IntoInnerDecEffect, LoadValue, IsTypes DEF RdMove, RdTo
<1>20. Even(t, a) /\ IsFiniteSet(Holdings(a)')
  BY <1>5, <1>6, <1>11, <1>12 DEF Even
<1> QED BY <1>1, <1>2, <1>3, <1>20, LedgerMove

(* A guard becomes an Arc. *)
LEMMA ReturnFullBalanced ==
  ASSUME Control, NEW t \in Threads, ReturnFull(t),
         NEW a \in Objects, Balanced(a)
  PROVE  Balanced(a)'
<1>1. Types /\ rd[t].pc = "return"
  BY Own, ReturnFullEffect
<1>2. storage' = storage /\ cnt' = cnt /\ slots' = slots /\ control' = control
      /\ handover' = handover /\ wr' = wr /\ held' = held
  BY <1>1, ReturnFullEffect
<1>3. OnlyRd(t) /\ OnlyWr(t)
  BY <1>1, <1>2, ReturnFullEffect DEF OnlyRd, OnlyWr, RdGo, RdMove, RdTo
<1>6. /\ cnt'[a] = cnt[a]
      /\ cnt[a] \in Int
      /\ Debts(a)' = Debts(a) /\ Debts(a) \in Nat
      /\ Stored(a)' = Stored(a) /\ Stored(a) \in Nat
      /\ Handed(a)' = Handed(a) /\ Handed(a) \in Nat
      /\ Held(a)' = Held(a) /\ Held(a) \in Nat /\ IsFiniteSet(Holdings(a)')
      /\ WriteRefs(wr'[t], a) = WriteRefs(wr[t], a)
      /\ LoadRefs(rd[t], handover, a) \in Nat /\ WriteRefs(wr[t], a) \in Nat
      /\ LoadRefs(rd'[t], handover', a) \in Nat /\ WriteRefs(wr'[t], a) \in Nat
  BY <1>1, <1>2, Unmoved, IsTypes DEF Types
<1>11. LoadRefs(rd'[t], handover', a) = LoadRefs(rd[t], handover, a)
  BY <1>1, <1>2, ReturnFullEffect, LoadValue, IsTypes DEF RdGo, RdMove, RdTo
<1>20. Even(t, a) /\ IsFiniteSet(Holdings(a)')
  BY <1>6, <1>11 DEF Even
<1> QED BY <1>1, <1>2, <1>3, <1>20, LedgerMove

(* The caller has the guard. *)
LEMMA ReturnToCallerBalanced ==
  ASSUME Control, NEW t \in Threads, ReturnToCaller(t),
         NEW a \in Objects, Balanced(a)
  PROVE  Balanced(a)'
<1>1. Types /\ rd[t].pc = "return" /\ wr[t].pc = "idle"
  BY Own, ReturnToCallerEffect
<1>2. storage' = storage /\ cnt' = cnt /\ slots' = slots /\ control' = control
      /\ handover' = handover /\ wr' = wr
  BY <1>1, ReturnToCallerEffect
<1>3. OnlyRd(t) /\ OnlyWr(t)
  BY <1>1, <1>2, ReturnToCallerEffect DEF OnlyRd, OnlyWr, RdIdle, RdTo
<1>4. rd[t].ptr \in Ptrs
      /\ [ptr |-> rd[t].ptr, debt |-> rd[t].debt] \in Handles
  BY <1>1, Own, FrameTypes, Slots, Constants, HelpingSlotId, Handle DEF LoadOk,
     WriteOk, OwnerOk
<1>5. Is(rd[t].ptr, a) \in Nat
  BY <1>1, Own, IsTypes DEF WriteOk, CasPc
<1>6. /\ cnt'[a] = cnt[a]
      /\ cnt[a] \in Int
      /\ Debts(a)' = Debts(a) /\ Debts(a) \in Nat
      /\ Stored(a)' = Stored(a) /\ Stored(a) \in Nat
      /\ Handed(a)' = Handed(a) /\ Handed(a) \in Nat
      /\ WriteRefs(wr'[t], a) = WriteRefs(wr[t], a)
      /\ LoadRefs(rd[t], handover, a) \in Nat /\ WriteRefs(wr[t], a) \in Nat
      /\ LoadRefs(rd'[t], handover', a) \in Nat /\ WriteRefs(wr'[t], a) \in Nat
  BY <1>1, <1>2, Unmoved, IsTypes DEF Types
<1>11. /\ Held(a)' = Held(a) + Is(rd[t].ptr, a)
       /\ Held(a) \in Nat /\ Held(a)' \in Nat /\ IsFiniteSet(Holdings(a)')
  BY <1>1, <1>4, HeldGive, ReturnToCallerEffect DEF Balanced
<1>12. rd'[t].pc = "idle"
  BY <1>1, ReturnToCallerEffect DEF RdIdle, RdTo
<1>13. LoadRefs(rd'[t], handover', a) + Is(rd[t].ptr, a) = LoadRefs(rd[t], handover, a)
  BY <1>1, <1>5, <1>12, LoadValue, IsTypes
<1>20. Even(t, a) /\ IsFiniteSet(Holdings(a)')
  BY <1>5, <1>6, <1>11, <1>12, <1>13 DEF Even
<1> QED BY <1>1, <1>2, <1>3, <1>20, LedgerMove

(* A guard whose debt was paid releases its reference. *)
LEMMA DropDecBalanced ==
  ASSUME Control, NEW t \in Threads, DropDec(t),
         NEW a \in Objects, Balanced(a)
  PROVE  Balanced(a)'
<1>1. Types /\ rd[t].pc = "drop_dec"
  BY Own, DropDecEffect
<1>2. storage' = storage /\ slots' = slots /\ control' = control
      /\ handover' = handover /\ wr' = wr /\ held' = held
  BY <1>1, DropDecEffect
<1>3. OnlyRd(t) /\ OnlyWr(t)
  BY <1>1, <1>2, DropDecEffect DEF OnlyRd, OnlyWr, RdIdle, RdTo
<1>4. rd[t].ptr \in Ptrs
  BY <1>1, Own, FrameTypes, Slots, Constants, HelpingSlotId DEF LoadOk,
     WriteOk, OwnerOk
<1>5. Is(rd[t].ptr, a) \in Nat
  BY <1>1, Own, IsTypes DEF WriteOk, CasPc
<1>6. /\ cnt[a] \in Int
      /\ Debts(a)' = Debts(a) /\ Debts(a) \in Nat
      /\ Stored(a)' = Stored(a) /\ Stored(a) \in Nat
      /\ Handed(a)' = Handed(a) /\ Handed(a) \in Nat
      /\ Held(a)' = Held(a) /\ Held(a) \in Nat /\ IsFiniteSet(Holdings(a)')
      /\ WriteRefs(wr'[t], a) = WriteRefs(wr[t], a)
      /\ LoadRefs(rd[t], handover, a) \in Nat /\ WriteRefs(wr[t], a) \in Nat
      /\ LoadRefs(rd'[t], handover', a) \in Nat /\ WriteRefs(wr'[t], a) \in Nat
  BY <1>1, <1>2, Unmoved, IsTypes DEF Types
<1>11. cnt'[a] + Is(rd[t].ptr, a) = cnt[a] /\ cnt'[a] \in Int
  BY <1>1, <1>4, DropDecEffect, CntDec, DecTypes DEF Types
<1>12. rd'[t].pc = "idle"
  BY <1>1, DropDecEffect DEF RdIdle, RdTo
<1>13. LoadRefs(rd'[t], handover', a) + Is(rd[t].ptr, a) = LoadRefs(rd[t], handover, a)
  BY <1>1, <1>5, <1>12, LoadValue, IsTypes
<1>20. Even(t, a) /\ IsFiniteSet(Holdings(a)')
  BY <1>5, <1>6, <1>11, <1>12, <1>13 DEF Even
<1> QED BY <1>1, <1>2, <1>3, <1>20, LedgerMove

(* A load begins. *)
LEMMA LoadBalanced ==
  ASSUME Control, NEW t \in Threads, NEW s \in Storages, NEW op \in {"load",
         "load_full"}, Load(t, s, op),
         rd[t].pc = "idle", wr[t].pc = "idle",
         NEW a \in Objects, Balanced(a)
  PROVE  Balanced(a)'
<1>1. Types
  BY Own, LoadEffect
<1>2. storage' = storage /\ cnt' = cnt /\ slots' = slots /\ control' = control
      /\ handover' = handover /\ wr' = wr /\ held' = held
  BY <1>1, LoadEffect
<1>3. OnlyRd(t) /\ OnlyWr(t)
  BY <1>1, <1>2, LoadEffect DEF OnlyRd, OnlyWr, LoadBegins, RdTo
<1>6. /\ cnt'[a] = cnt[a]
      /\ cnt[a] \in Int
      /\ Debts(a)' = Debts(a) /\ Debts(a) \in Nat
      /\ Stored(a)' = Stored(a) /\ Stored(a) \in Nat
      /\ Handed(a)' = Handed(a) /\ Handed(a) \in Nat
      /\ Held(a)' = Held(a) /\ Held(a) \in Nat /\ IsFiniteSet(Holdings(a)')
      /\ WriteRefs(wr'[t], a) = WriteRefs(wr[t], a)
      /\ LoadRefs(rd[t], handover, a) \in Nat /\ WriteRefs(wr[t], a) \in Nat
      /\ LoadRefs(rd'[t], handover', a) \in Nat /\ WriteRefs(wr'[t], a) \in Nat
  BY <1>1, <1>2, Unmoved, IsTypes DEF Types
<1>11. LoadRefs(rd'[t], handover', a) = LoadRefs(rd[t], handover, a)
  BY <1>1, <1>2, LoadEffect, LoadValue, IsTypes DEF LoadBegins, RdTo
<1>20. Even(t, a) /\ IsFiniteSet(Holdings(a)')
  BY <1>6, <1>11 DEF Even
<1> QED BY <1>1, <1>2, <1>3, <1>20, LedgerMove

(* A guard is turned into an Arc. *)
LEMMA IntoInnerBalanced ==
  ASSUME Control, NEW t \in Threads, NEW h \in Handles, held[h] > 0,
         IntoInner(t, h),
         rd[t].pc = "idle", wr[t].pc = "idle",
         NEW a \in Objects, Balanced(a)
  PROVE  Balanced(a)'
<1>1. Types /\ h.debt # NoDebt
  BY Own, IntoInnerEffect
<1>2. storage' = storage /\ cnt' = cnt /\ slots' = slots /\ control' = control
      /\ handover' = handover /\ wr' = wr
  BY <1>1, IntoInnerEffect
<1>3. OnlyRd(t) /\ OnlyWr(t)
  BY <1>1, <1>2, IntoInnerEffect DEF OnlyRd, OnlyWr, RdTo
<1>4. h.ptr \in Ptrs
  BY <1>1, Own, FrameTypes, HandleFields, Slots, Constants, HelpingSlotId
     DEF LoadOk, WriteOk, OwnerOk
<1>5. Is(h.ptr, a) \in Nat
  BY <1>1, Own, IsTypes DEF WriteOk, CasPc
<1>6. /\ cnt'[a] = cnt[a]
      /\ cnt[a] \in Int
      /\ Debts(a)' = Debts(a) /\ Debts(a) \in Nat
      /\ Stored(a)' = Stored(a) /\ Stored(a) \in Nat
      /\ Handed(a)' = Handed(a) /\ Handed(a) \in Nat
      /\ WriteRefs(wr'[t], a) = WriteRefs(wr[t], a)
      /\ LoadRefs(rd[t], handover, a) \in Nat /\ WriteRefs(wr[t], a) \in Nat
      /\ LoadRefs(rd'[t], handover', a) \in Nat /\ WriteRefs(wr'[t], a) \in Nat
  BY <1>1, <1>2, Unmoved, IsTypes DEF Types
<1>11. /\ Held(a)' + Is(h.ptr, a) = Held(a)
       /\ Held(a) \in Nat /\ Held(a)' \in Nat /\ IsFiniteSet(Holdings(a)')
  BY <1>1, <1>4, HeldTake, IntoInnerEffect DEF Balanced
<1>12. rd'[t].pc = "inc" /\ rd'[t].ptr = h.ptr /\ rd[t].pc = "idle"
  BY <1>1, IntoInnerEffect DEF RdTo
<1>13. LoadRefs(rd'[t], handover', a) = LoadRefs(rd[t], handover, a) + Is(h.ptr, a)
  BY <1>1, <1>5, <1>12, LoadValue, IsTypes
<1>20. Even(t, a) /\ IsFiniteSet(Holdings(a)')
  BY <1>5, <1>6, <1>11, <1>12, <1>13 DEF Even
<1> QED BY <1>1, <1>2, <1>3, <1>20, LedgerMove

(* A guard or an Arc is dropped. *)
LEMMA DropBalanced ==
  ASSUME Control, NEW t \in Threads, NEW h \in Handles, held[h] > 0, Drop(t, h),
         rd[t].pc = "idle", wr[t].pc = "idle",
         NEW a \in Objects, Balanced(a)
  PROVE  Balanced(a)'
<1>1. Types
  BY Own, DropEffect
<1>2. storage' = storage /\ control' = control /\ handover' = handover
      /\ wr' = wr
  BY <1>1, DropEffect
<1>3. OnlyRd(t) /\ OnlyWr(t)
  BY <1>1, <1>2, DropEffect DEF OnlyRd, OnlyWr, RdMove, RdTo
<1>4. h.ptr \in Ptrs /\ h.debt \in SlotIds \cup {NoDebt}
  BY <1>1, Own, FrameTypes, HandleFields, Slots, Constants, HelpingSlotId
     DEF LoadOk, WriteOk, OwnerOk
<1>5. Is(h.ptr, a) \in Nat
  BY <1>1, Own, IsTypes DEF WriteOk, CasPc
<1>6. /\ cnt[a] \in Int
      /\ Stored(a)' = Stored(a) /\ Stored(a) \in Nat
      /\ Handed(a)' = Handed(a) /\ Handed(a) \in Nat
      /\ WriteRefs(wr'[t], a) = WriteRefs(wr[t], a)
      /\ LoadRefs(rd[t], handover, a) \in Nat /\ WriteRefs(wr[t], a) \in Nat
      /\ LoadRefs(rd'[t], handover', a) \in Nat /\ WriteRefs(wr'[t], a) \in Nat
  BY <1>1, <1>2, Unmoved, IsTypes DEF Types
<1>11. ASSUME h.debt = NoDebt,
              Dec(h.ptr),
              slots' = slots,
              rd' = rd
       PROVE  Even(t, a) /\ IsFiniteSet(Holdings(a)')
  <2>1. cnt'[a] + Is(h.ptr, a) = cnt[a] /\ cnt'[a] \in Int
    BY <1>1, <1>4, <1>11, DropEffect, CntDec, DecTypes DEF Types
  <2>2. Debts(a)' = Debts(a) /\ Debts(a) \in Nat
    BY <1>1, <1>11, Slots, Unmoved DEF PaidBefore
  <2>3. /\ Held(a)' + Is(h.ptr, a) = Held(a)
        /\ Held(a) \in Nat /\ Held(a)' \in Nat /\ IsFiniteSet(Holdings(a)')
    BY <1>1, <1>4, <1>11, HeldTake, DropEffect DEF Balanced
  <2>4. LoadRefs(rd'[t], handover', a) = LoadRefs(rd[t], handover, a)
    BY <1>1, <1>2, <1>5, <1>11, LoadValue, IsTypes DEF RdMove, RdTo
  <2> QED BY <1>5, <1>6, <2>1, <2>2, <2>3, <2>4 DEF Even
<1>12. ASSUME h.debt # NoDebt,
              Paid(h.debt, h.ptr),
              UNCHANGED <<cnt, window>>,
              rd' = rd
       PROVE  Even(t, a) /\ IsFiniteSet(Holdings(a)')
  <2>1. cnt'[a] = cnt[a] /\ cnt'[a] \in Int
    BY <1>1, <1>12, DropEffect DEF Types
  <2>2. Debts(a)' + Is(h.ptr, a) = Debts(a) /\ Debts(a) \in Nat
  /\ Debts(a)' \in Nat
    BY <1>1, <1>4, <1>12, Slots, DebtsPaid
  <2>3. /\ Held(a)' + Is(h.ptr, a) = Held(a)
        /\ Held(a) \in Nat /\ Held(a)' \in Nat /\ IsFiniteSet(Holdings(a)')
    BY <1>1, <1>4, <1>12, HeldTake, DropEffect DEF Balanced
  <2>4. LoadRefs(rd'[t], handover', a) = LoadRefs(rd[t], handover, a)
    BY <1>1, <1>2, <1>5, <1>12, LoadValue, IsTypes DEF RdMove, RdTo
  <2> QED BY <1>5, <1>6, <2>1, <2>2, <2>3, <2>4 DEF Even
<1>13. ASSUME h.debt # NoDebt,
              PaidBefore(h.debt, h.ptr),
              UNCHANGED <<cnt, window>>,
              RdMove(t, "drop_dec", h.ptr, rd[t].debt)
       PROVE  Even(t, a) /\ IsFiniteSet(Holdings(a)')
  <2>1. cnt'[a] = cnt[a] /\ cnt'[a] \in Int
    BY <1>1, <1>13, DropEffect DEF Types
  <2>2. Debts(a)' = Debts(a) /\ Debts(a) \in Nat
    BY <1>1, <1>13, Slots, Unmoved DEF PaidBefore
  <2>3. /\ Held(a)' + Is(h.ptr, a) = Held(a)
        /\ Held(a) \in Nat /\ Held(a)' \in Nat /\ IsFiniteSet(Holdings(a)')
    BY <1>1, <1>4, <1>13, HeldTake, DropEffect DEF Balanced
  <2>4. LoadRefs(rd'[t], handover', a) = LoadRefs(rd[t], handover, a) + Is(h.ptr, a)
    BY <1>1, <1>2, <1>5, <1>13, LoadValue, IsTypes DEF RdMove, RdTo
  <2> QED BY <1>5, <1>6, <2>1, <2>2, <2>3, <2>4 DEF Even
<1>20. Even(t, a) /\ IsFiniteSet(Holdings(a)')
  BY <1>1, <1>11, <1>12, <1>13, DropEffect
<1> QED BY <1>1, <1>2, <1>3, <1>20, LedgerMove

(* The load of compare_and_swap has returned. *)
LEMMA CasLoadedBalanced ==
  ASSUME Control, NEW t \in Threads, CasLoaded(t),
         NEW a \in Objects, Balanced(a)
  PROVE  Balanced(a)'
<1>1. Types /\ wr[t].pc = "cas_load" /\ rd[t].pc = "return"
  BY Own, CasLoadedEffect
<1>2. storage' = storage /\ cnt' = cnt /\ slots' = slots /\ control' = control
      /\ handover' = handover
  BY <1>1, CasLoadedEffect
<1>3. OnlyRd(t) /\ OnlyWr(t)
  BY <1>1, <1>2, CasLoadedEffect DEF OnlyRd, OnlyWr, RdIdle, RdTo, WrCas, WrTo,
     WrGo
<1>4. rd[t].ptr \in Ptrs
      /\ [ptr |-> rd[t].ptr, debt |-> rd[t].debt] \in Handles
  BY <1>1, Own, FrameTypes, Slots, Constants, HelpingSlotId, Handle DEF LoadOk,
     WriteOk, OwnerOk
<1>5. Is(rd[t].ptr, a) \in Nat /\ wr[t].op = "compare_and_swap"
  BY <1>1, Own, IsTypes DEF WriteOk, CasPc
<1>6. /\ cnt'[a] = cnt[a]
      /\ cnt[a] \in Int
      /\ Debts(a)' = Debts(a) /\ Debts(a) \in Nat
      /\ Stored(a)' = Stored(a) /\ Stored(a) \in Nat
      /\ Handed(a)' = Handed(a) /\ Handed(a) \in Nat
      /\ LoadRefs(rd[t], handover, a) \in Nat /\ WriteRefs(wr[t], a) \in Nat
      /\ LoadRefs(rd'[t], handover', a) \in Nat /\ WriteRefs(wr'[t], a) \in Nat
  BY <1>1, <1>2, Unmoved, IsTypes DEF Types
<1>11. ASSUME rd[t].ptr # wr[t].current,
              Give([ptr |-> rd[t].ptr, debt |-> rd[t].debt]),
              WrGo(t, "drop_new")
       PROVE  Even(t, a) /\ IsFiniteSet(Holdings(a)')
  <2>1. /\ Held(a)' = Held(a) + Is(rd[t].ptr, a)
        /\ Held(a) \in Nat /\ Held(a)' \in Nat /\ IsFiniteSet(Holdings(a)')
    BY <1>1, <1>4, <1>11, HeldGive DEF Balanced
  <2>2. rd'[t].pc = "idle"
    BY <1>1, <1>11, CasLoadedEffect DEF RdIdle, RdTo
  <2>3. LoadRefs(rd'[t], handover', a) + Is(rd[t].ptr, a) = LoadRefs(rd[t], handover, a)
    BY <1>1, <1>5, <2>2, LoadValue, IsTypes
  <2>4. WriteRefs(wr'[t], a) = WriteRefs(wr[t], a)
    BY <1>1, <1>2, <1>5, <1>11, WriteValue, IsTypes DEF OldGuard, WrCas, WrTo,
       WrGo
  <2> QED BY <1>5, <1>6, <2>1, <2>2, <2>3, <2>4 DEF Even
<1>12. ASSUME rd[t].ptr = wr[t].current,
              held' = held,
              WrCas(t, "cas", rd[t].ptr, rd[t].debt)
       PROVE  Even(t, a) /\ IsFiniteSet(Holdings(a)')
  <2>1. Held(a)' = Held(a) /\ Held(a) \in Nat /\ IsFiniteSet(Holdings(a)')
    BY <1>1, <1>12, Unmoved
  <2>2. rd'[t].pc = "idle"
    BY <1>1, <1>12, CasLoadedEffect DEF RdIdle, RdTo
  <2>3. LoadRefs(rd'[t], handover', a) + Is(rd[t].ptr, a) = LoadRefs(rd[t], handover, a)
    BY <1>1, <1>5, <2>2, LoadValue, IsTypes
  <2>4. WriteRefs(wr'[t], a) = WriteRefs(wr[t], a) + Is(rd[t].ptr, a)
    BY <1>1, <1>2, <1>5, <1>12, WriteValue, IsTypes DEF OldGuard, WrCas, WrTo,
       WrGo
  <2> QED BY <1>5, <1>6, <2>1, <2>2, <2>3, <2>4 DEF Even
<1>20. Even(t, a) /\ IsFiniteSet(Holdings(a)')
  BY <1>1, <1>11, <1>12, CasLoadedEffect
<1> QED BY <1>1, <1>2, <1>3, <1>20, LedgerMove

(* new is dropped. *)
LEMMA DropNewBalanced ==
  ASSUME Control, NEW t \in Threads, DropNew(t),
         NEW a \in Objects, Balanced(a)
  PROVE  Balanced(a)'
<1>1. Types /\ wr[t].pc = "drop_new"
  BY Own, DropNewEffect
<1>2. storage' = storage /\ slots' = slots /\ control' = control
      /\ handover' = handover /\ rd' = rd /\ held' = held
  BY <1>1, DropNewEffect
<1>3. OnlyRd(t) /\ OnlyWr(t)
  BY <1>1, <1>2, DropNewEffect DEF OnlyRd, OnlyWr, WrIdle, WrBegins, WrTo
<1>4. wr[t].new \in Ptrs
  BY <1>1, Own, FrameTypes, Slots, Constants, HelpingSlotId DEF LoadOk,
     WriteOk, OwnerOk
<1>5. Is(wr[t].new, a) \in Nat /\ wr[t].op = "compare_and_swap"
  BY <1>1, Own, IsTypes DEF WriteOk, CasPc
<1>6. /\ cnt[a] \in Int
      /\ Debts(a)' = Debts(a) /\ Debts(a) \in Nat
      /\ Stored(a)' = Stored(a) /\ Stored(a) \in Nat
      /\ Handed(a)' = Handed(a) /\ Handed(a) \in Nat
      /\ Held(a)' = Held(a) /\ Held(a) \in Nat /\ IsFiniteSet(Holdings(a)')
      /\ LoadRefs(rd'[t], handover', a) = LoadRefs(rd[t], handover, a)
      /\ LoadRefs(rd[t], handover, a) \in Nat /\ WriteRefs(wr[t], a) \in Nat
      /\ LoadRefs(rd'[t], handover', a) \in Nat /\ WriteRefs(wr'[t], a) \in Nat
  BY <1>1, <1>2, Unmoved, IsTypes DEF Types
<1>11. cnt'[a] + Is(wr[t].new, a) = cnt[a] /\ cnt'[a] \in Int
  BY <1>1, <1>4, DropNewEffect, CntDec, DecTypes DEF Types
<1>12. WriteRefs(wr'[t], a) + Is(wr[t].new, a) = WriteRefs(wr[t], a)
  BY <1>1, <1>2, <1>5, DropNewEffect, WriteValue, IsTypes DEF OldGuard, WrIdle,
     WrBegins, WrTo
<1>20. Even(t, a) /\ IsFiniteSet(Holdings(a)')
  BY <1>5, <1>6, <1>11, <1>12 DEF Even
<1> QED BY <1>1, <1>2, <1>3, <1>20, LedgerMove

(* The exchange fails. *)
LEMMA CasFailedBalanced ==
  ASSUME Control, NEW t \in Threads, CasFailed(t),
         NEW a \in Objects, Balanced(a)
  PROVE  Balanced(a)'
<1>1. Types /\ wr[t].pc = "cas"
  BY Own, CasFailedEffect
<1>2. storage' = storage /\ cnt' = cnt /\ slots' = slots /\ control' = control
      /\ handover' = handover /\ rd' = rd /\ held' = held
  BY <1>1, CasFailedEffect
<1>3. OnlyRd(t) /\ OnlyWr(t)
  BY <1>1, <1>2, CasFailedEffect DEF OnlyRd, OnlyWr, WrGo, WrCas, WrTo
<1>5. wr[t].op = "compare_and_swap"
  BY <1>1, Own, IsTypes DEF WriteOk, CasPc
<1>6. /\ cnt'[a] = cnt[a]
      /\ cnt[a] \in Int
      /\ Debts(a)' = Debts(a) /\ Debts(a) \in Nat
      /\ Stored(a)' = Stored(a) /\ Stored(a) \in Nat
      /\ Handed(a)' = Handed(a) /\ Handed(a) \in Nat
      /\ Held(a)' = Held(a) /\ Held(a) \in Nat /\ IsFiniteSet(Holdings(a)')
      /\ LoadRefs(rd'[t], handover', a) = LoadRefs(rd[t], handover, a)
      /\ LoadRefs(rd[t], handover, a) \in Nat /\ WriteRefs(wr[t], a) \in Nat
      /\ LoadRefs(rd'[t], handover', a) \in Nat /\ WriteRefs(wr'[t], a) \in Nat
  BY <1>1, <1>2, Unmoved, IsTypes DEF Types
<1>11. ASSUME wr[t].odebt = NoDebt,
              WrGo(t, "cas_dec")
       PROVE  Even(t, a) /\ IsFiniteSet(Holdings(a)')
  <2>1. WriteRefs(wr'[t], a) = WriteRefs(wr[t], a)
    BY <1>1, <1>2, <1>5, <1>11, WriteValue, IsTypes DEF OldGuard, WrGo, WrCas,
       WrTo
  <2> QED BY <1>5, <1>6, <2>1 DEF Even
<1>12. ASSUME wr[t].odebt # NoDebt,
              WrGo(t, "cas_pay")
       PROVE  Even(t, a) /\ IsFiniteSet(Holdings(a)')
  <2>1. WriteRefs(wr'[t], a) = WriteRefs(wr[t], a)
    BY <1>1, <1>2, <1>5, <1>12, WriteValue, IsTypes DEF OldGuard, WrGo, WrCas,
       WrTo
  <2> QED BY <1>5, <1>6, <2>1 DEF Even
<1>20. Even(t, a) /\ IsFiniteSet(Holdings(a)')
  BY <1>1, <1>11, <1>12, CasFailedEffect
<1> QED BY <1>1, <1>2, <1>3, <1>20, LedgerMove

(* The old guard returns its debt. *)
LEMMA CasPayBalanced ==
  ASSUME Control, NEW t \in Threads, CasPay(t),
         NEW a \in Objects, Balanced(a)
  PROVE  Balanced(a)'
<1>1. Types /\ wr[t].pc = "cas_pay"
  BY Own, CasPayEffect
<1>2. storage' = storage /\ cnt' = cnt /\ control' = control
      /\ handover' = handover /\ rd' = rd /\ held' = held
  BY <1>1, CasPayEffect
<1>3. OnlyRd(t) /\ OnlyWr(t)
  BY <1>1, <1>2, CasPayEffect DEF OnlyRd, OnlyWr, WrCas, WrTo
<1>4. wr[t].old \in Ptrs /\ wr[t].odebt \in SlotIds
  BY <1>1, Own, FrameTypes, Slots, Constants, HelpingSlotId DEF LoadOk,
     WriteOk, OwnerOk
<1>5. Is(wr[t].old, a) \in Nat /\ wr[t].op = "compare_and_swap"
  BY <1>1, Own, IsTypes DEF WriteOk, CasPc
<1>6. /\ cnt'[a] = cnt[a]
      /\ cnt[a] \in Int
      /\ Stored(a)' = Stored(a) /\ Stored(a) \in Nat
      /\ Handed(a)' = Handed(a) /\ Handed(a) \in Nat
      /\ Held(a)' = Held(a) /\ Held(a) \in Nat /\ IsFiniteSet(Holdings(a)')
      /\ LoadRefs(rd'[t], handover', a) = LoadRefs(rd[t], handover, a)
      /\ LoadRefs(rd[t], handover, a) \in Nat /\ WriteRefs(wr[t], a) \in Nat
      /\ LoadRefs(rd'[t], handover', a) \in Nat /\ WriteRefs(wr'[t], a) \in Nat
  BY <1>1, <1>2, Unmoved, IsTypes DEF Types
<1>11. ASSUME Paid(wr[t].odebt, wr[t].old),
              WrCas(t, "cas_retry", wr[t].old, NoDebt)
       PROVE  Even(t, a) /\ IsFiniteSet(Holdings(a)')
  <2>1. Debts(a)' + Is(wr[t].old, a) = Debts(a) /\ Debts(a) \in Nat
  /\ Debts(a)' \in Nat
    BY <1>1, <1>4, <1>11, Slots, DebtsPaid
  <2>2. WriteRefs(wr'[t], a) + Is(wr[t].old, a) = WriteRefs(wr[t], a)
    BY <1>1, <1>2, <1>5, <1>11, WriteValue, IsTypes DEF OldGuard, WrCas, WrTo
  <2> QED BY <1>5, <1>6, <2>1, <2>2 DEF Even
<1>12. ASSUME PaidBefore(wr[t].odebt, wr[t].old),
              WrCas(t, "cas_dec", wr[t].old, NoDebt)
       PROVE  Even(t, a) /\ IsFiniteSet(Holdings(a)')
  <2>1. Debts(a)' = Debts(a) /\ Debts(a) \in Nat
    BY <1>1, <1>12, Slots, Unmoved DEF PaidBefore
  <2>2. WriteRefs(wr'[t], a) = WriteRefs(wr[t], a)
    BY <1>1, <1>2, <1>5, <1>12, WriteValue, IsTypes DEF OldGuard, WrCas, WrTo
  <2> QED BY <1>5, <1>6, <2>1, <2>2 DEF Even
<1>20. Even(t, a) /\ IsFiniteSet(Holdings(a)')
  BY <1>1, <1>11, <1>12, CasPayEffect
<1> QED BY <1>1, <1>2, <1>3, <1>20, LedgerMove

(* The old guard releases its reference. *)
LEMMA CasDecBalanced ==
  ASSUME Control, NEW t \in Threads, CasDec(t),
         NEW a \in Objects, Balanced(a)
  PROVE  Balanced(a)'
<1>1. Types /\ wr[t].pc = "cas_dec"
  BY Own, CasDecEffect
<1>2. storage' = storage /\ slots' = slots /\ control' = control
      /\ handover' = handover /\ rd' = rd /\ held' = held
  BY <1>1, CasDecEffect
<1>3. OnlyRd(t) /\ OnlyWr(t)
  BY <1>1, <1>2, CasDecEffect DEF OnlyRd, OnlyWr, WrGo, WrCas, WrTo
<1>4. wr[t].old \in Ptrs
  BY <1>1, Own, FrameTypes, Slots, Constants, HelpingSlotId DEF LoadOk,
     WriteOk, OwnerOk
<1>5. Is(wr[t].old, a) \in Nat /\ wr[t].op = "compare_and_swap"
  BY <1>1, Own, IsTypes DEF WriteOk, CasPc
<1>6. /\ cnt[a] \in Int
      /\ Debts(a)' = Debts(a) /\ Debts(a) \in Nat
      /\ Stored(a)' = Stored(a) /\ Stored(a) \in Nat
      /\ Handed(a)' = Handed(a) /\ Handed(a) \in Nat
      /\ Held(a)' = Held(a) /\ Held(a) \in Nat /\ IsFiniteSet(Holdings(a)')
      /\ LoadRefs(rd'[t], handover', a) = LoadRefs(rd[t], handover, a)
      /\ LoadRefs(rd[t], handover, a) \in Nat /\ WriteRefs(wr[t], a) \in Nat
      /\ LoadRefs(rd'[t], handover', a) \in Nat /\ WriteRefs(wr'[t], a) \in Nat
  BY <1>1, <1>2, Unmoved, IsTypes DEF Types
<1>11. cnt'[a] + Is(wr[t].old, a) = cnt[a] /\ cnt'[a] \in Int
  BY <1>1, <1>4, CasDecEffect, CntDec, DecTypes DEF Types
<1>12. WriteRefs(wr'[t], a) + Is(wr[t].old, a) = WriteRefs(wr[t], a)
  BY <1>1, <1>2, <1>5, CasDecEffect, WriteValue, IsTypes DEF OldGuard, WrGo,
     WrCas, WrTo
<1>20. Even(t, a) /\ IsFiniteSet(Holdings(a)')
  BY <1>5, <1>6, <1>11, <1>12 DEF Even
<1> QED BY <1>1, <1>2, <1>3, <1>20, LedgerMove

(* The loop of compare_and_swap turns. *)
LEMMA CasRetryBalanced ==
  ASSUME Control, NEW t \in Threads, CasRetry(t),
         NEW a \in Objects, Balanced(a)
  PROVE  Balanced(a)'
<1>1. Types /\ wr[t].pc = "cas_retry"
  BY Own, CasRetryEffect
<1>2. storage' = storage /\ cnt' = cnt /\ slots' = slots /\ control' = control
      /\ handover' = handover /\ held' = held
  BY <1>1, CasRetryEffect
<1>3. OnlyRd(t) /\ OnlyWr(t)
  BY <1>1, <1>2, CasRetryEffect DEF OnlyRd, OnlyWr, LoadBegins, RdTo, WrCas,
     WrTo
<1>5. rd[t].pc = "idle" /\ wr[t].op = "compare_and_swap"
  BY <1>1, Own, IsTypes DEF WriteOk, CasPc
<1>6. /\ cnt'[a] = cnt[a]
      /\ cnt[a] \in Int
      /\ Debts(a)' = Debts(a) /\ Debts(a) \in Nat
      /\ Stored(a)' = Stored(a) /\ Stored(a) \in Nat
      /\ Handed(a)' = Handed(a) /\ Handed(a) \in Nat
      /\ Held(a)' = Held(a) /\ Held(a) \in Nat /\ IsFiniteSet(Holdings(a)')
      /\ LoadRefs(rd[t], handover, a) \in Nat /\ WriteRefs(wr[t], a) \in Nat
      /\ LoadRefs(rd'[t], handover', a) \in Nat /\ WriteRefs(wr'[t], a) \in Nat
  BY <1>1, <1>2, Unmoved, IsTypes DEF Types
<1>11. rd'[t].pc \in {"scan", "get_debt"}
  BY <1>1, CasRetryEffect DEF LoadBegins, RdTo
<1>12. LoadRefs(rd'[t], handover', a) = LoadRefs(rd[t], handover, a)
  BY <1>1, <1>5, <1>11, LoadValue, IsTypes
<1>13. wr'[t].pc = "cas_load" /\ wr'[t].new = wr[t].new
  BY <1>1, CasRetryEffect DEF WrCas, WrTo
<1>14. WriteRefs(wr'[t], a) = WriteRefs(wr[t], a)
  BY <1>1, <1>5, <1>13, WriteValue, IsTypes DEF OldGuard
<1>20. Even(t, a) /\ IsFiniteSet(Holdings(a)')
  BY <1>5, <1>6, <1>11, <1>12, <1>13, <1>14 DEF Even
<1> QED BY <1>1, <1>2, <1>3, <1>20, LedgerMove

(* One reference ahead. *)
LEMMA PrePayBalanced ==
  ASSUME Control, NEW t \in Threads, PrePay(t),
         NEW a \in Objects, Balanced(a)
  PROVE  Balanced(a)'
<1>1. Types /\ wr[t].pc = "pre_pay"
  BY Own, PrePayEffect
<1>2. storage' = storage /\ slots' = slots /\ control' = control
      /\ handover' = handover /\ rd' = rd /\ held' = held
  BY <1>1, PrePayEffect
<1>3. OnlyRd(t) /\ OnlyWr(t)
  BY <1>1, <1>2, PrePayEffect DEF OnlyRd, OnlyWr, WrSlot, WrTo
<1>4. wr[t].old \in Ptrs
  BY <1>1, Own, FrameTypes, Slots, Constants, HelpingSlotId DEF LoadOk,
     WriteOk, OwnerOk
<1>5. Is(wr[t].old, a) \in Nat
  BY <1>1, Own, IsTypes DEF WriteOk, CasPc
<1>6. /\ cnt[a] \in Int
      /\ Debts(a)' = Debts(a) /\ Debts(a) \in Nat
      /\ Stored(a)' = Stored(a) /\ Stored(a) \in Nat
      /\ Handed(a)' = Handed(a) /\ Handed(a) \in Nat
      /\ Held(a)' = Held(a) /\ Held(a) \in Nat /\ IsFiniteSet(Holdings(a)')
      /\ LoadRefs(rd'[t], handover', a) = LoadRefs(rd[t], handover, a)
      /\ LoadRefs(rd[t], handover, a) \in Nat /\ WriteRefs(wr[t], a) \in Nat
      /\ LoadRefs(rd'[t], handover', a) \in Nat /\ WriteRefs(wr'[t], a) \in Nat
  BY <1>1, <1>2, Unmoved, IsTypes DEF Types
<1>11. cnt'[a] = cnt[a] + Is(wr[t].old, a) /\ cnt'[a] \in Int
  BY <1>1, <1>4, PrePayEffect, CntInc, IncTypes DEF Types
<1>12. WriteRefs(wr'[t], a) = WriteRefs(wr[t], a) + Is(wr[t].old, a)
  BY <1>1, <1>2, <1>5, PrePayEffect, WriteValue, IsTypes DEF OldGuard, WrSlot,
     WrTo
<1>20. Even(t, a) /\ IsFiniteSet(Holdings(a)')
  BY <1>5, <1>6, <1>11, <1>12 DEF Even
<1> QED BY <1>1, <1>2, <1>3, <1>20, LedgerMove

(* The control word is read. *)
LEMMA HelpBalanced ==
  ASSUME Control, NEW t \in Threads, Help(t),
         NEW a \in Objects, Balanced(a)
  PROVE  Balanced(a)'
<1>1. Types /\ wr[t].pc = "help"
  BY Own, HelpEffect
<1>2. storage' = storage /\ cnt' = cnt /\ slots' = slots /\ control' = control
      /\ handover' = handover /\ rd' = rd /\ held' = held
  BY <1>1, HelpEffect
<1>3. OnlyRd(t) /\ OnlyWr(t)
  BY <1>1, <1>2, HelpEffect DEF OnlyRd, OnlyWr, WrHelp, WrTo, WrHelped
<1>6. /\ cnt'[a] = cnt[a]
      /\ cnt[a] \in Int
      /\ Debts(a)' = Debts(a) /\ Debts(a) \in Nat
      /\ Stored(a)' = Stored(a) /\ Stored(a) \in Nat
      /\ Handed(a)' = Handed(a) /\ Handed(a) \in Nat
      /\ Held(a)' = Held(a) /\ Held(a) \in Nat /\ IsFiniteSet(Holdings(a)')
      /\ LoadRefs(rd'[t], handover', a) = LoadRefs(rd[t], handover, a)
      /\ LoadRefs(rd[t], handover, a) \in Nat /\ WriteRefs(wr[t], a) \in Nat
      /\ LoadRefs(rd'[t], handover', a) \in Nat /\ WriteRefs(wr'[t], a) \in Nat
  BY <1>1, <1>2, Unmoved, IsTypes DEF Types
<1>11. ASSUME IsGen(control[wr[t].node]),
              WrHelp(t, "help_addr", control[wr[t].node], wr[t].repl, wr[t].their)
       PROVE  Even(t, a) /\ IsFiniteSet(Holdings(a)')
  <2>1. WriteRefs(wr'[t], a) = WriteRefs(wr[t], a)
    BY <1>1, <1>2, <1>11, WriteValue, IsTypes DEF OldGuard, WrHelp, WrTo,
       WrHelped
  <2> QED BY <1>6, <2>1 DEF Even
<1>12. ASSUME ~IsGen(control[wr[t].node]),
              WrHelped(t)
       PROVE  Even(t, a) /\ IsFiniteSet(Holdings(a)')
  <2>1. WriteRefs(wr'[t], a) = WriteRefs(wr[t], a)
    BY <1>1, <1>2, <1>12, WriteValue, IsTypes DEF OldGuard, WrHelp, WrTo,
       WrHelped
  <2> QED BY <1>6, <2>1 DEF Even
<1>20. Even(t, a) /\ IsFiniteSet(Holdings(a)')
  BY <1>1, <1>11, <1>12, HelpEffect
<1> QED BY <1>1, <1>2, <1>3, <1>20, LedgerMove

(* The address is compared. *)
LEMMA HelpCheckAddrBalanced ==
  ASSUME Control, NEW t \in Threads, HelpCheckAddr(t),
         NEW a \in Objects, Balanced(a)
  PROVE  Balanced(a)'
<1>1. Types /\ wr[t].pc = "help_addr"
  BY Own, HelpCheckAddrEffect
<1>2. storage' = storage /\ cnt' = cnt /\ slots' = slots /\ control' = control
      /\ handover' = handover /\ held' = held
  BY <1>1, HelpCheckAddrEffect
<1>3. OnlyRd(t) /\ OnlyWr(t)
  BY <1>1, <1>2, HelpCheckAddrEffect DEF OnlyRd, OnlyWr, LoadBegins, RdTo,
     WrGo, WrCas, WrTo
<1>5. rd[t].pc = "idle"
  BY <1>1, Own, IsTypes DEF WriteOk, CasPc
<1>6. /\ cnt'[a] = cnt[a]
      /\ cnt[a] \in Int
      /\ Debts(a)' = Debts(a) /\ Debts(a) \in Nat
      /\ Stored(a)' = Stored(a) /\ Stored(a) \in Nat
      /\ Handed(a)' = Handed(a) /\ Handed(a) \in Nat
      /\ Held(a)' = Held(a) /\ Held(a) \in Nat /\ IsFiniteSet(Holdings(a)')
      /\ LoadRefs(rd[t], handover, a) \in Nat /\ WriteRefs(wr[t], a) \in Nat
      /\ LoadRefs(rd'[t], handover', a) \in Nat /\ WriteRefs(wr'[t], a) \in Nat
  BY <1>1, <1>2, Unmoved, IsTypes DEF Types
<1>11. ASSUME active_addr[wr[t].node] = wr[t].dst,
              LoadBegins(t, wr[t].dst, TRUE),
              WrGo(t, "replacement")
       PROVE  Even(t, a) /\ IsFiniteSet(Holdings(a)')
  <2>1. LoadRefs(rd'[t], handover', a) = LoadRefs(rd[t], handover, a)
    BY <1>1, <1>2, <1>5, <1>11, LoadValue, IsTypes DEF LoadBegins, RdTo
  <2>2. WriteRefs(wr'[t], a) = WriteRefs(wr[t], a)
    BY <1>1, <1>2, <1>5, <1>11, WriteValue, IsTypes DEF OldGuard, WrGo, WrCas,
       WrTo
  <2> QED BY <1>5, <1>6, <2>1, <2>2 DEF Even
<1>12. ASSUME active_addr[wr[t].node] # wr[t].dst,
              UNCHANGED <<rd, window>>,
              WrGo(t, "help_recheck")
       PROVE  Even(t, a) /\ IsFiniteSet(Holdings(a)')
  <2>1. LoadRefs(rd'[t], handover', a) = LoadRefs(rd[t], handover, a)
    BY <1>1, <1>2, <1>5, <1>12, LoadValue, IsTypes DEF LoadBegins, RdTo
  <2>2. WriteRefs(wr'[t], a) = WriteRefs(wr[t], a)
    BY <1>1, <1>2, <1>5, <1>12, WriteValue, IsTypes DEF OldGuard, WrGo, WrCas,
       WrTo
  <2> QED BY <1>5, <1>6, <2>1, <2>2 DEF Even
<1>20. Even(t, a) /\ IsFiniteSet(Holdings(a)')
  BY <1>1, <1>11, <1>12, HelpCheckAddrEffect
<1> QED BY <1>1, <1>2, <1>3, <1>20, LedgerMove

(* The control word is read again. *)
LEMMA HelpRecheckBalanced ==
  ASSUME Control, NEW t \in Threads, HelpRecheck(t),
         NEW a \in Objects, Balanced(a)
  PROVE  Balanced(a)'
<1>1. Types /\ wr[t].pc = "help_recheck"
  BY Own, HelpRecheckEffect
<1>2. storage' = storage /\ cnt' = cnt /\ slots' = slots /\ control' = control
      /\ handover' = handover /\ rd' = rd /\ held' = held
  BY <1>1, HelpRecheckEffect
<1>3. OnlyRd(t) /\ OnlyWr(t)
  BY <1>1, <1>2, HelpRecheckEffect DEF OnlyRd, OnlyWr, WrHelp, WrTo, WrHelped
<1>6. /\ cnt'[a] = cnt[a]
      /\ cnt[a] \in Int
      /\ Debts(a)' = Debts(a) /\ Debts(a) \in Nat
      /\ Stored(a)' = Stored(a) /\ Stored(a) \in Nat
      /\ Handed(a)' = Handed(a) /\ Handed(a) \in Nat
      /\ Held(a)' = Held(a) /\ Held(a) \in Nat /\ IsFiniteSet(Holdings(a)')
      /\ LoadRefs(rd'[t], handover', a) = LoadRefs(rd[t], handover, a)
      /\ LoadRefs(rd[t], handover, a) \in Nat /\ WriteRefs(wr[t], a) \in Nat
      /\ LoadRefs(rd'[t], handover', a) \in Nat /\ WriteRefs(wr'[t], a) \in Nat
  BY <1>1, <1>2, Unmoved, IsTypes DEF Types
<1>11. ASSUME IsGen(control[wr[t].node]),
              WrHelp(t, "help_addr", control[wr[t].node], wr[t].repl, wr[t].their)
       PROVE  Even(t, a) /\ IsFiniteSet(Holdings(a)')
  <2>1. WriteRefs(wr'[t], a) = WriteRefs(wr[t], a)
    BY <1>1, <1>2, <1>11, WriteValue, IsTypes DEF OldGuard, WrHelp, WrTo,
       WrHelped
  <2> QED BY <1>6, <2>1 DEF Even
<1>12. ASSUME WrHelped(t)
       PROVE  Even(t, a) /\ IsFiniteSet(Holdings(a)')
  <2>1. WriteRefs(wr'[t], a) = WriteRefs(wr[t], a)
    BY <1>1, <1>2, <1>12, WriteValue, IsTypes DEF OldGuard, WrHelp, WrTo,
       WrHelped
  <2> QED BY <1>6, <2>1 DEF Even
<1>20. Even(t, a) /\ IsFiniteSet(Holdings(a)')
  BY <1>1, <1>11, <1>12, HelpRecheckEffect
<1> QED BY <1>1, <1>2, <1>3, <1>20, LedgerMove

(* The replacement is loaded. *)
LEMMA HelpReplacementBalanced ==
  ASSUME Control, NEW t \in Threads, HelpReplacement(t),
         NEW a \in Objects, Balanced(a)
  PROVE  Balanced(a)'
<1>1. Types /\ wr[t].pc = "replacement" /\ rd[t].pc = "return"
  BY Own, HelpReplacementEffect
<1>2. storage' = storage /\ cnt' = cnt /\ slots' = slots /\ control' = control
      /\ handover' = handover /\ held' = held
  BY <1>1, HelpReplacementEffect
<1>3. OnlyRd(t) /\ OnlyWr(t)
  BY <1>1, <1>2, HelpReplacementEffect DEF OnlyRd, OnlyWr, RdIdle, RdTo,
     WrHelp, WrTo
<1>4. rd[t].ptr \in Ptrs
  BY <1>1, Own, FrameTypes, Slots, Constants, HelpingSlotId DEF LoadOk,
     WriteOk, OwnerOk
<1>5. Is(rd[t].ptr, a) \in Nat
  BY <1>1, Own, IsTypes DEF WriteOk, CasPc
<1>6. /\ cnt'[a] = cnt[a]
      /\ cnt[a] \in Int
      /\ Debts(a)' = Debts(a) /\ Debts(a) \in Nat
      /\ Stored(a)' = Stored(a) /\ Stored(a) \in Nat
      /\ Handed(a)' = Handed(a) /\ Handed(a) \in Nat
      /\ Held(a)' = Held(a) /\ Held(a) \in Nat /\ IsFiniteSet(Holdings(a)')
      /\ LoadRefs(rd[t], handover, a) \in Nat /\ WriteRefs(wr[t], a) \in Nat
      /\ LoadRefs(rd'[t], handover', a) \in Nat /\ WriteRefs(wr'[t], a) \in Nat
  BY <1>1, <1>2, Unmoved, IsTypes DEF Types
<1>11. rd'[t].pc = "idle"
  BY <1>1, HelpReplacementEffect DEF RdIdle, RdTo
<1>12. LoadRefs(rd'[t], handover', a) + Is(rd[t].ptr, a) = LoadRefs(rd[t], handover, a)
  BY <1>1, <1>5, <1>11, LoadValue, IsTypes
<1>13. WriteRefs(wr'[t], a) = WriteRefs(wr[t], a) + Is(rd[t].ptr, a)
  BY <1>1, <1>2, <1>5, HelpReplacementEffect, WriteValue, IsTypes DEF OldGuard,
     WrHelp, WrTo
<1>20. Even(t, a) /\ IsFiniteSet(Holdings(a)')
  BY <1>5, <1>6, <1>11, <1>12, <1>13 DEF Even
<1> QED BY <1>1, <1>2, <1>3, <1>20, LedgerMove

(* The reader's envelope is read. *)
LEMMA HelpTheirSpaceBalanced ==
  ASSUME Control, NEW t \in Threads, HelpTheirSpace(t),
         NEW a \in Objects, Balanced(a)
  PROVE  Balanced(a)'
<1>1. Types /\ wr[t].pc = "their_space"
  BY Own, HelpTheirSpaceEffect
<1>2. storage' = storage /\ cnt' = cnt /\ slots' = slots /\ control' = control
      /\ handover' = handover /\ rd' = rd /\ held' = held
  BY <1>1, HelpTheirSpaceEffect
<1>3. OnlyRd(t) /\ OnlyWr(t)
  BY <1>1, <1>2, HelpTheirSpaceEffect DEF OnlyRd, OnlyWr, WrHelp, WrTo
<1>6. /\ cnt'[a] = cnt[a]
      /\ cnt[a] \in Int
      /\ Debts(a)' = Debts(a) /\ Debts(a) \in Nat
      /\ Stored(a)' = Stored(a) /\ Stored(a) \in Nat
      /\ Handed(a)' = Handed(a) /\ Handed(a) \in Nat
      /\ Held(a)' = Held(a) /\ Held(a) \in Nat /\ IsFiniteSet(Holdings(a)')
      /\ LoadRefs(rd'[t], handover', a) = LoadRefs(rd[t], handover, a)
      /\ LoadRefs(rd[t], handover, a) \in Nat /\ WriteRefs(wr[t], a) \in Nat
      /\ LoadRefs(rd'[t], handover', a) \in Nat /\ WriteRefs(wr'[t], a) \in Nat
  BY <1>1, <1>2, Unmoved, IsTypes DEF Types
<1>11. WriteRefs(wr'[t], a) = WriteRefs(wr[t], a)
  BY <1>1, <1>2, HelpTheirSpaceEffect, WriteValue, IsTypes DEF OldGuard,
     WrHelp, WrTo
<1>20. Even(t, a) /\ IsFiniteSet(Holdings(a)')
  BY <1>6, <1>11 DEF Even
<1> QED BY <1>1, <1>2, <1>3, <1>20, LedgerMove

(* The reader's envelope is the writer's. *)
LEMMA HelpSwitchBalanced ==
  ASSUME Control, NEW t \in Threads, HelpSwitch(t),
         NEW a \in Objects, Balanced(a)
  PROVE  Balanced(a)'
<1>1. Types /\ wr[t].pc = "switch"
  BY Own, HelpSwitchEffect
<1>2. storage' = storage /\ cnt' = cnt /\ slots' = slots /\ control' = control
      /\ handover' = handover /\ rd' = rd /\ held' = held
  BY <1>1, HelpSwitchEffect
<1>3. OnlyRd(t) /\ OnlyWr(t)
  BY <1>1, <1>2, HelpSwitchEffect DEF OnlyRd, OnlyWr, WrHelped, WrTo
<1>6. /\ cnt'[a] = cnt[a]
      /\ cnt[a] \in Int
      /\ Debts(a)' = Debts(a) /\ Debts(a) \in Nat
      /\ Stored(a)' = Stored(a) /\ Stored(a) \in Nat
      /\ Handed(a)' = Handed(a) /\ Handed(a) \in Nat
      /\ Held(a)' = Held(a) /\ Held(a) \in Nat /\ IsFiniteSet(Holdings(a)')
      /\ LoadRefs(rd'[t], handover', a) = LoadRefs(rd[t], handover, a)
      /\ LoadRefs(rd[t], handover, a) \in Nat /\ WriteRefs(wr[t], a) \in Nat
      /\ LoadRefs(rd'[t], handover', a) \in Nat /\ WriteRefs(wr'[t], a) \in Nat
  BY <1>1, <1>2, Unmoved, IsTypes DEF Types
<1>11. WriteRefs(wr'[t], a) = WriteRefs(wr[t], a)
  BY <1>1, <1>2, HelpSwitchEffect, WriteValue, IsTypes DEF OldGuard, WrHelped,
     WrTo
<1>20. Even(t, a) /\ IsFiniteSet(Holdings(a)')
  BY <1>6, <1>11 DEF Even
<1> QED BY <1>1, <1>2, <1>3, <1>20, LedgerMove

(* The replacement is dropped. *)
LEMMA HelpDropBalanced ==
  ASSUME Control, NEW t \in Threads, HelpDrop(t),
         NEW a \in Objects, Balanced(a)
  PROVE  Balanced(a)'
<1>1. Types /\ wr[t].pc = "help_drop"
  BY Own, HelpDropEffect
<1>2. storage' = storage /\ slots' = slots /\ control' = control
      /\ handover' = handover /\ rd' = rd /\ held' = held
  BY <1>1, HelpDropEffect
<1>3. OnlyRd(t) /\ OnlyWr(t)
  BY <1>1, <1>2, HelpDropEffect DEF OnlyRd, OnlyWr, WrHelp, WrTo, WrHelped
<1>4. wr[t].repl \in Ptrs
  BY <1>1, Own, FrameTypes, Slots, Constants, HelpingSlotId DEF LoadOk,
     WriteOk, OwnerOk
<1>5. Is(wr[t].repl, a) \in Nat
  BY <1>1, Own, IsTypes DEF WriteOk, CasPc
<1>6. /\ cnt[a] \in Int
      /\ Debts(a)' = Debts(a) /\ Debts(a) \in Nat
      /\ Stored(a)' = Stored(a) /\ Stored(a) \in Nat
      /\ Handed(a)' = Handed(a) /\ Handed(a) \in Nat
      /\ Held(a)' = Held(a) /\ Held(a) \in Nat /\ IsFiniteSet(Holdings(a)')
      /\ LoadRefs(rd'[t], handover', a) = LoadRefs(rd[t], handover, a)
      /\ LoadRefs(rd[t], handover, a) \in Nat /\ WriteRefs(wr[t], a) \in Nat
      /\ LoadRefs(rd'[t], handover', a) \in Nat /\ WriteRefs(wr'[t], a) \in Nat
  BY <1>1, <1>2, Unmoved, IsTypes DEF Types
<1>11. ASSUME IsGen(wr[t].observed),
              WrHelp(t, "help_addr", wr[t].observed, Null, wr[t].their)
       PROVE  Even(t, a) /\ IsFiniteSet(Holdings(a)')
  <2>1. cnt'[a] + Is(wr[t].repl, a) = cnt[a] /\ cnt'[a] \in Int
    BY <1>1, <1>4, <1>11, HelpDropEffect, CntDec, DecTypes DEF Types
  <2>2. WriteRefs(wr'[t], a) + Is(wr[t].repl, a) = WriteRefs(wr[t], a)
    BY <1>1, <1>2, <1>5, <1>11, WriteValue, IsTypes DEF OldGuard, WrHelp, WrTo,
       WrHelped
  <2> QED BY <1>5, <1>6, <2>1, <2>2 DEF Even
<1>12. ASSUME ~IsGen(wr[t].observed),
              WrHelped(t)
       PROVE  Even(t, a) /\ IsFiniteSet(Holdings(a)')
  <2>1. cnt'[a] + Is(wr[t].repl, a) = cnt[a] /\ cnt'[a] \in Int
    BY <1>1, <1>4, <1>12, HelpDropEffect, CntDec, DecTypes DEF Types
  <2>2. WriteRefs(wr'[t], a) + Is(wr[t].repl, a) = WriteRefs(wr[t], a)
    BY <1>1, <1>2, <1>5, <1>12, WriteValue, IsTypes DEF OldGuard, WrHelp, WrTo,
       WrHelped
  <2> QED BY <1>5, <1>6, <2>1, <2>2 DEF Even
<1>20. Even(t, a) /\ IsFiniteSet(Holdings(a)')
  BY <1>1, <1>11, <1>12, HelpDropEffect
<1> QED BY <1>1, <1>2, <1>3, <1>20, LedgerMove

(* A debt is paid, or the next slot is looked at. *)
LEMMA PaySlotBalanced ==
  ASSUME Control, NEW t \in Threads, PaySlot(t),
         NEW a \in Objects, Balanced(a)
  PROVE  Balanced(a)'
<1>1. Types /\ wr[t].pc = "pay"
  BY Own, PaySlotEffect
<1>2. storage' = storage /\ cnt' = cnt /\ control' = control
      /\ handover' = handover /\ rd' = rd /\ held' = held
  BY <1>1, PaySlotEffect
<1>3. OnlyRd(t) /\ OnlyWr(t)
  BY <1>1, <1>2, PaySlotEffect DEF OnlyRd, OnlyWr, SlotDone, WrSlot, WrTo,
     WrGo, WrCas
<1>4. wr[t].old \in Ptrs /\ <<wr[t].node, wr[t].k>> \in SlotIds
  BY <1>1, Own, FrameTypes, Slots, Constants, HelpingSlotId DEF LoadOk,
     WriteOk, OwnerOk
<1>5. Is(wr[t].old, a) \in Nat
  BY <1>1, Own, IsTypes DEF WriteOk, CasPc
<1>6. /\ cnt'[a] = cnt[a]
      /\ cnt[a] \in Int
      /\ Stored(a)' = Stored(a) /\ Stored(a) \in Nat
      /\ Handed(a)' = Handed(a) /\ Handed(a) \in Nat
      /\ Held(a)' = Held(a) /\ Held(a) \in Nat /\ IsFiniteSet(Holdings(a)')
      /\ LoadRefs(rd'[t], handover', a) = LoadRefs(rd[t], handover, a)
      /\ LoadRefs(rd[t], handover, a) \in Nat /\ WriteRefs(wr[t], a) \in Nat
      /\ LoadRefs(rd'[t], handover', a) \in Nat /\ WriteRefs(wr'[t], a) \in Nat
  BY <1>1, <1>2, Unmoved, IsTypes DEF Types
<1>11. ASSUME Paid(<<wr[t].node, wr[t].k>>, wr[t].old),
              WrGo(t, "pay_inc")
       PROVE  Even(t, a) /\ IsFiniteSet(Holdings(a)')
  <2>1. Debts(a)' + Is(wr[t].old, a) = Debts(a) /\ Debts(a) \in Nat
  /\ Debts(a)' \in Nat
    BY <1>1, <1>4, <1>11, Slots, DebtsPaid
  <2>2. WriteRefs(wr'[t], a) + Is(wr[t].old, a) = WriteRefs(wr[t], a)
    BY <1>1, <1>2, <1>5, <1>11, WriteValue, IsTypes DEF OldGuard, SlotDone,
       WrSlot, WrTo, WrGo, WrCas
  <2> QED BY <1>5, <1>6, <2>1, <2>2 DEF Even
<1>12. ASSUME PaidBefore(<<wr[t].node, wr[t].k>>, wr[t].old),
              SlotDone(t)
       PROVE  Even(t, a) /\ IsFiniteSet(Holdings(a)')
  <2>1. Debts(a)' = Debts(a) /\ Debts(a) \in Nat
    BY <1>1, <1>12, Slots, Unmoved DEF PaidBefore
  <2>2. WriteRefs(wr'[t], a) = WriteRefs(wr[t], a)
    BY <1>1, <1>2, <1>5, <1>12, WriteValue, IsTypes DEF OldGuard, SlotDone,
       WrSlot, WrTo, WrGo, WrCas
  <2> QED BY <1>5, <1>6, <2>1, <2>2 DEF Even
<1>20. Even(t, a) /\ IsFiniteSet(Holdings(a)')
  BY <1>1, <1>11, <1>12, PaySlotEffect
<1> QED BY <1>1, <1>2, <1>3, <1>20, LedgerMove

(* A reference for the next debt. *)
LEMMA PayIncBalanced ==
  ASSUME Control, NEW t \in Threads, PayInc(t),
         NEW a \in Objects, Balanced(a)
  PROVE  Balanced(a)'
<1>1. Types /\ wr[t].pc = "pay_inc"
  BY Own, PayIncEffect
<1>2. storage' = storage /\ slots' = slots /\ control' = control
      /\ handover' = handover /\ rd' = rd /\ held' = held
  BY <1>1, PayIncEffect
<1>3. OnlyRd(t) /\ OnlyWr(t)
  BY <1>1, <1>2, PayIncEffect DEF OnlyRd, OnlyWr, SlotDone, WrSlot, WrTo
<1>4. wr[t].old \in Ptrs
  BY <1>1, Own, FrameTypes, Slots, Constants, HelpingSlotId DEF LoadOk,
     WriteOk, OwnerOk
<1>5. Is(wr[t].old, a) \in Nat
  BY <1>1, Own, IsTypes DEF WriteOk, CasPc
<1>6. /\ cnt[a] \in Int
      /\ Debts(a)' = Debts(a) /\ Debts(a) \in Nat
      /\ Stored(a)' = Stored(a) /\ Stored(a) \in Nat
      /\ Handed(a)' = Handed(a) /\ Handed(a) \in Nat
      /\ Held(a)' = Held(a) /\ Held(a) \in Nat /\ IsFiniteSet(Holdings(a)')
      /\ LoadRefs(rd'[t], handover', a) = LoadRefs(rd[t], handover, a)
      /\ LoadRefs(rd[t], handover, a) \in Nat /\ WriteRefs(wr[t], a) \in Nat
      /\ LoadRefs(rd'[t], handover', a) \in Nat /\ WriteRefs(wr'[t], a) \in Nat
  BY <1>1, <1>2, Unmoved, IsTypes DEF Types
<1>11. cnt'[a] = cnt[a] + Is(wr[t].old, a) /\ cnt'[a] \in Int
  BY <1>1, <1>4, PayIncEffect, CntInc, IncTypes DEF Types
<1>12. /\ wr'[t].pc \in {"pay", "help", "release"}
       /\ wr'[t].op = wr[t].op /\ wr'[t].old = wr[t].old
  BY <1>1, PayIncEffect DEF SlotDone, WrSlot, WrTo
<1>13. WriteRefs(wr'[t], a) = WriteRefs(wr[t], a) + Is(wr[t].old, a)
  BY <1>1, <1>5, <1>12, WriteValue, IsTypes DEF OldGuard
<1>20. Even(t, a) /\ IsFiniteSet(Holdings(a)')
  BY <1>5, <1>6, <1>11, <1>12, <1>13 DEF Even
<1> QED BY <1>1, <1>2, <1>3, <1>20, LedgerMove

(* val is released. *)
LEMMA ReleaseValBalanced ==
  ASSUME Control, NEW t \in Threads, ReleaseVal(t),
         NEW a \in Objects, Balanced(a)
  PROVE  Balanced(a)'
<1>1. Types /\ wr[t].pc = "release"
  BY Own, ReleaseValEffect
<1>2. storage' = storage /\ slots' = slots /\ control' = control
      /\ handover' = handover /\ rd' = rd
  BY <1>1, ReleaseValEffect
<1>3. OnlyRd(t) /\ OnlyWr(t)
  BY <1>1, <1>2, ReleaseValEffect DEF OnlyRd, OnlyWr, WrGo, WrCas, WrTo,
     WrIdle, WrBegins
<1>4. wr[t].old \in Ptrs /\ Owned(wr[t].old) \in Handles
  BY <1>1, Own, FrameTypes, Slots, Constants, HelpingSlotId, Handle DEF LoadOk,
     WriteOk, OwnerOk
<1>5. Is(wr[t].old, a) \in Nat
  BY <1>1, Own, IsTypes DEF WriteOk, CasPc
<1>6. /\ cnt[a] \in Int
      /\ Debts(a)' = Debts(a) /\ Debts(a) \in Nat
      /\ Stored(a)' = Stored(a) /\ Stored(a) \in Nat
      /\ Handed(a)' = Handed(a) /\ Handed(a) \in Nat
      /\ LoadRefs(rd'[t], handover', a) = LoadRefs(rd[t], handover, a)
      /\ LoadRefs(rd[t], handover, a) \in Nat /\ WriteRefs(wr[t], a) \in Nat
      /\ LoadRefs(rd'[t], handover', a) \in Nat /\ WriteRefs(wr'[t], a) \in Nat
  BY <1>1, <1>2, Unmoved, IsTypes DEF Types
<1>11. ASSUME wr[t].op \in {"swap", "unwrap_storage"},
              Give(Owned(wr[t].old)),
              WrIdle(t)
       PROVE  Even(t, a) /\ IsFiniteSet(Holdings(a)')
  <2>1. cnt'[a] + Is(wr[t].old, a) = cnt[a] /\ cnt'[a] \in Int
    BY <1>1, <1>4, <1>11, ReleaseValEffect, CntDec, DecTypes DEF Types
  <2>2. /\ Held(a)' = Held(a) + Is(wr[t].old, a)
        /\ Held(a) \in Nat /\ Held(a)' \in Nat /\ IsFiniteSet(Holdings(a)')
    BY <1>1, <1>4, <1>11, HeldGive DEF Balanced, Owned
  <2>3. WriteRefs(wr'[t], a) + Is(wr[t].old, a) + Is(wr[t].old, a) = WriteRefs(wr[t], a)
    BY <1>1, <1>2, <1>5, <1>11, WriteValue, IsTypes DEF OldGuard, WrGo, WrCas,
       WrTo, WrIdle, WrBegins
  <2> QED BY <1>5, <1>6, <2>1, <2>2, <2>3 DEF Even
<1>12. ASSUME wr[t].op \in {"store", "drop_storage", "compare_and_swap"},
              held' = held,
              WrGo(t, "drop_old")
       PROVE  Even(t, a) /\ IsFiniteSet(Holdings(a)')
  <2>1. cnt'[a] + Is(wr[t].old, a) = cnt[a] /\ cnt'[a] \in Int
    BY <1>1, <1>4, <1>12, ReleaseValEffect, CntDec, DecTypes DEF Types
  <2>2. Held(a)' = Held(a) /\ Held(a) \in Nat /\ IsFiniteSet(Holdings(a)')
    BY <1>1, <1>12, Unmoved
  <2>3. WriteRefs(wr'[t], a) + Is(wr[t].old, a) = WriteRefs(wr[t], a)
    BY <1>1, <1>2, <1>5, <1>12, WriteValue, IsTypes DEF OldGuard, WrGo, WrCas,
       WrTo, WrIdle, WrBegins
  <2> QED BY <1>5, <1>6, <2>1, <2>2, <2>3 DEF Even
<1>20. Even(t, a) /\ IsFiniteSet(Holdings(a)')
  BY <1>1, <1>11, <1>12, ReleaseValEffect
<1> QED BY <1>1, <1>2, <1>3, <1>20, LedgerMove

(* The reference of the storage is released. *)
LEMMA DropOldBalanced ==
  ASSUME Control, NEW t \in Threads, DropOld(t),
         NEW a \in Objects, Balanced(a)
  PROVE  Balanced(a)'
<1>1. Types /\ wr[t].pc = "drop_old"
  BY Own, DropOldEffect
<1>2. storage' = storage /\ slots' = slots /\ control' = control
      /\ handover' = handover /\ rd' = rd
  BY <1>1, DropOldEffect
<1>3. OnlyRd(t) /\ OnlyWr(t)
  BY <1>1, <1>2, DropOldEffect DEF OnlyRd, OnlyWr, WrIdle, WrBegins, WrTo
<1>4. wr[t].old \in Ptrs
      /\ [ptr |-> wr[t].old, debt |-> wr[t].odebt] \in Handles
  BY <1>1, Own, FrameTypes, Slots, Constants, HelpingSlotId, Handle DEF LoadOk,
     WriteOk, OwnerOk
<1>5. Is(wr[t].old, a) \in Nat
  BY <1>1, Own, IsTypes DEF WriteOk, CasPc
<1>6. /\ cnt[a] \in Int
      /\ Debts(a)' = Debts(a) /\ Debts(a) \in Nat
      /\ Stored(a)' = Stored(a) /\ Stored(a) \in Nat
      /\ Handed(a)' = Handed(a) /\ Handed(a) \in Nat
      /\ LoadRefs(rd'[t], handover', a) = LoadRefs(rd[t], handover, a)
      /\ LoadRefs(rd[t], handover, a) \in Nat /\ WriteRefs(wr[t], a) \in Nat
      /\ LoadRefs(rd'[t], handover', a) \in Nat /\ WriteRefs(wr'[t], a) \in Nat
  BY <1>1, <1>2, Unmoved, IsTypes DEF Types
<1>11. ASSUME wr[t].op # "compare_and_swap",
              held' = held
       PROVE  Even(t, a) /\ IsFiniteSet(Holdings(a)')
  <2>1. cnt'[a] + Is(wr[t].old, a) = cnt[a] /\ cnt'[a] \in Int
    BY <1>1, <1>4, <1>11, DropOldEffect, CntDec, DecTypes DEF Types
  <2>2. Held(a)' = Held(a) /\ Held(a) \in Nat /\ IsFiniteSet(Holdings(a)')
    BY <1>1, <1>11, Unmoved
  <2>3. wr'[t].pc = "idle" /\ wr'[t].op = "none"
    BY <1>1, <1>11, DropOldEffect DEF WrIdle, WrBegins, WrTo
  <2>4. WriteRefs(wr'[t], a) + Is(wr[t].old, a) = WriteRefs(wr[t], a)
    BY <1>1, <1>5, <1>11, <2>3, WriteValue, IsTypes DEF OldGuard
  <2> QED BY <1>5, <1>6, <2>1, <2>2, <2>3, <2>4 DEF Even
<1>12. ASSUME wr[t].op = "compare_and_swap",
              Give([ptr |-> wr[t].old, debt |-> wr[t].odebt])
       PROVE  Even(t, a) /\ IsFiniteSet(Holdings(a)')
  <2>1. cnt'[a] + Is(wr[t].old, a) = cnt[a] /\ cnt'[a] \in Int
    BY <1>1, <1>4, <1>12, DropOldEffect, CntDec, DecTypes DEF Types
  <2>2. /\ Held(a)' = Held(a) + Is(wr[t].old, a)
        /\ Held(a) \in Nat /\ Held(a)' \in Nat /\ IsFiniteSet(Holdings(a)')
    BY <1>1, <1>4, <1>12, HeldGive DEF Balanced
  <2>3. wr'[t].pc = "idle" /\ wr'[t].op = "none"
    BY <1>1, <1>12, DropOldEffect DEF WrIdle, WrBegins, WrTo
  <2>4. WriteRefs(wr'[t], a) + Is(wr[t].old, a) + Is(wr[t].old, a) = WriteRefs(wr[t], a)
    BY <1>1, <1>5, <1>12, <2>3, WriteValue, IsTypes DEF OldGuard
  <2> QED BY <1>5, <1>6, <2>1, <2>2, <2>3, <2>4 DEF Even
<1>20. Even(t, a) /\ IsFiniteSet(Holdings(a)')
  BY <1>1, <1>11, <1>12, DropOldEffect
<1> QED BY <1>1, <1>2, <1>3, <1>20, LedgerMove

(* What a step leaves alone, for the lemmas below. *)
LEMMA Shares ==
  ASSUME Types, NEW t \in Threads, NEW a \in Objects
  PROVE  /\ cnt[a] \in Int
         /\ LoadRefs(rd[t], handover, a) \in Nat /\ WriteRefs(wr[t], a) \in Nat
         /\ LoadRefs(rd'[t], handover', a) \in Nat
            /\ WriteRefs(wr'[t], a) \in Nat
BY IsTypes DEF Types

(* A fast slot is taken, or the next one is tried. *)
LEMMA ScanBalanced ==
  ASSUME Control, NEW t \in Threads, Scan(t), NEW a \in Objects, Balanced(a)
  PROVE  Balanced(a)'
<1>1. Types /\ rd[t].pc = "scan"
  BY Own, ScanEffect
<1>2. storage' = storage /\ cnt' = cnt /\ control' = control
      /\ handover' = handover /\ wr' = wr /\ held' = held
  BY <1>1, ScanEffect
<1>3. OnlyRd(t) /\ OnlyWr(t)
  BY <1>1, <1>2, ScanEffect DEF OnlyWr, RdGo, RdMove, RdTo
<1>4. rd[t].ptr \in Ptrs /\ Is(rd[t].ptr, a) \in Nat
  BY <1>1, FrameTypes, IsTypes
<1>5. /\ cnt'[a] = cnt[a] /\ Stored(a)' = Stored(a) /\ Stored(a) \in Nat
      /\ Handed(a)' = Handed(a) /\ Handed(a) \in Nat
      /\ Held(a)' = Held(a) /\ Held(a) \in Nat /\ IsFiniteSet(Holdings(a)')
      /\ WriteRefs(wr'[t], a) = WriteRefs(wr[t], a)
  BY <1>1, <1>2, Unmoved
<1>6. LoadRefs(rd[t], handover, a) = 0
  BY <1>1, LoadValue
<1>7. ASSUME NEW k \in 1..DEBT_SLOT_CNT, slots[<<t, k>>] = NONE,
             slots' = [slots EXCEPT ![<<t, k>>] = rd[t].ptr],
             RdMove(t, "confirm", rd[t].ptr, <<t, k>>)
      PROVE  Even(t, a)
  <2>1. <<t, k>> \in SlotIds
    BY Slots, Constants
  <2>2. /\ Debts(a)' = Debts(a) + Is(rd[t].ptr, a)
        /\ Debts(a) \in Nat /\ Debts(a)' \in Nat
    BY <1>1, <1>4, <1>7, <2>1, DebtsNew
  <2>3. rd'[t].pc = "confirm" /\ rd'[t].ptr = rd[t].ptr
    BY <1>7 DEF RdMove, RdTo
  <2>4. LoadRefs(rd'[t], handover', a) = Is(rd[t].ptr, a)
    BY <2>3, LoadValue
  <2> QED BY <1>1, <1>4, <1>5, <1>6, <2>2, <2>4, Shares DEF Even
<1>8. ASSUME slots' = slots,
             RdGo(t, rd[t].pc) \/ RdMove(t, "get_debt", Null, rd[t].debt)
      PROVE  Even(t, a)
  <2>1. Debts(a)' = Debts(a) /\ Debts(a) \in Nat
    BY <1>1, <1>8, Unmoved
  <2>2. rd'[t].pc \in {"scan", "get_debt"}
    BY <1>1, <1>8 DEF RdGo, RdMove, RdTo
  <2>3. LoadRefs(rd'[t], handover', a) = 0
    BY <2>2, LoadValue
  <2> QED BY <1>1, <1>5, <1>6, <2>1, <2>3, Shares DEF Even
<1>9. Even(t, a)
  BY <1>1, <1>7, <1>8, ScanEffect
<1> QED BY <1>1, <1>2, <1>3, <1>5, <1>9, LedgerMove

(* The generation is published. *)
LEMMA GetDebtControlBalanced ==
  ASSUME Control, NEW t \in Threads, GetDebtControl(t),
         NEW a \in Objects, Balanced(a)
  PROVE  Balanced(a)'
<1>1. Types /\ rd[t].pc = "control"
  BY Own, GetDebtControlEffect
<1>2. storage' = storage /\ cnt' = cnt /\ slots' = slots
      /\ handover' = handover /\ wr' = wr /\ held' = held
  BY <1>1, GetDebtControlEffect
<1>3. OnlyRd(t) /\ OnlyWr(t) /\ rd'[t].pc = "candidate"
  BY <1>1, <1>2, GetDebtControlEffect DEF OnlyWr, RdGo, RdMove, RdTo
<1>4. /\ control[t] = IDLE /\ control'[t] = Gen(generation[t])
      /\ \A u \in Threads : u # t => control'[u] = control[u]
  <2>1. FollowOk(rd[t], control[t], generation[t], active_addr[t])
    BY Own
  <2>2. control[t] = IDLE
    BY <1>1, <2>1 DEF FollowOk, Announced
  <2>3. control \in [Threads -> ControlWords]
        /\ control' = [control EXCEPT ![t] = Gen(generation[t])]
    BY <1>1, GetDebtControlEffect DEF Types
  <2> QED BY <2>2, <2>3
<1>5. /\ cnt'[a] = cnt[a] /\ Stored(a)' = Stored(a) /\ Stored(a) \in Nat
      /\ Debts(a)' = Debts(a) /\ Debts(a) \in Nat
      /\ Held(a)' = Held(a) /\ Held(a) \in Nat /\ IsFiniteSet(Holdings(a)')
      /\ WriteRefs(wr'[t], a) = WriteRefs(wr[t], a)
  BY <1>1, <1>2, Unmoved
<1>6. HandedRefs(control[t], a) = 0 /\ HandedRefs(control'[t], a) = 0
  BY <1>4, Words DEF HandedRefs
<1>7. /\ Handed(a) \in Nat /\ Handed(a)' \in Nat
      /\ Handed(a)' + HandedRefs(control[t], a)
           = Handed(a) + HandedRefs(control'[t], a)
  BY <1>2, <1>4, HandedStep
<1>8. Handed(a)' = Handed(a)
  BY <1>6, <1>7
<1>9. LoadRefs(rd[t], handover, a) = 0 /\ LoadRefs(rd'[t], handover', a) = 0
  BY <1>1, <1>3, LoadValue
<1>10. Even(t, a)
  BY <1>1, <1>5, <1>7, <1>8, <1>9, Shares DEF Even
<1> QED BY <1>1, <1>2, <1>3, <1>5, <1>10, LedgerMove

(* The control word is taken back, and a hand-over with it. *)
LEMMA ConfirmControlBalanced ==
  ASSUME Control, NEW t \in Threads, ConfirmControl(t),
         NEW a \in Objects, Balanced(a)
  PROVE  Balanced(a)'
<1>1. Types /\ rd[t].pc = "confirm_control"
  BY Own, ConfirmControlEffect
<1>2. storage' = storage /\ cnt' = cnt /\ slots' = slots
      /\ handover' = handover /\ wr' = wr /\ held' = held
  BY <1>1, ConfirmControlEffect
<1>3. OnlyRd(t) /\ OnlyWr(t)
  BY <1>1, <1>2, ConfirmControlEffect DEF OnlyWr, RdGo, RdMove, RdTo
<1>4. /\ control'[t] = IDLE
      /\ \A u \in Threads : u # t => control'[u] = control[u]
  BY <1>1, ConfirmControlEffect DEF Types
<1>5. /\ cnt'[a] = cnt[a] /\ Stored(a)' = Stored(a) /\ Stored(a) \in Nat
      /\ Debts(a)' = Debts(a) /\ Debts(a) \in Nat
      /\ Held(a)' = Held(a) /\ Held(a) \in Nat /\ IsFiniteSet(Holdings(a)')
      /\ WriteRefs(wr'[t], a) = WriteRefs(wr[t], a)
  BY <1>1, <1>2, Unmoved
<1>6. HandedRefs(control'[t], a) = 0
  BY <1>4, Words DEF HandedRefs
<1>7. /\ Handed(a) \in Nat /\ Handed(a)' \in Nat
      /\ Handed(a)' + HandedRefs(control[t], a)
           = Handed(a) + HandedRefs(control'[t], a)
  BY <1>2, <1>4, HandedStep
<1>8. LoadRefs(rd[t], handover, a) = Is(rd[t].ptr, a)
      /\ Is(rd[t].ptr, a) \in Nat
  BY <1>1, LoadValue, IsTypes
<1>9. ASSUME control[t] = Gen(generation[t]), RdGo(t, "inc")
      PROVE  Even(t, a)
  <2>1. HandedRefs(control[t], a) = 0
    BY <1>9, Words DEF HandedRefs
  <2>2. Handed(a)' = Handed(a)
    BY <1>6, <1>7, <2>1
  <2>3. rd'[t].pc = "inc" /\ rd'[t].ptr = rd[t].ptr
    BY <1>9 DEF RdGo, RdMove, RdTo
  <2>4. LoadRefs(rd'[t], handover', a) = Is(rd[t].ptr, a)
    BY <2>3, LoadValue
  <2> QED BY <1>1, <1>5, <1>7, <1>8, <2>2, <2>4, Shares DEF Even
<1>10. ASSUME control[t] # Gen(generation[t]),
              RdTo(t, "take", rd[t].src, rd[t].ptr, rd[t].debt, control[t][2],
                   rd[t].got, rd[t].full)
       PROVE  Even(t, a)
  <2> DEFINE e == Is(handover[control[t][2]], a)
  <2>1. IsReplacement(control[t])
    <3>1. FollowOk(rd[t], control[t], generation[t], active_addr[t])
      BY Own
    <3>2. \E d \in Threads : control[t] = Replacement(d)
      BY <1>1, <1>10, <3>1 DEF FollowOk, Announced
    <3> QED BY <3>2, Words
  <2>2. HandedRefs(control[t], a) = e /\ e \in Nat
    BY <2>1, IsTypes DEF HandedRefs
  <2>3. rd'[t].pc = "take" /\ rd'[t].ptr = rd[t].ptr /\ rd'[t].env = control[t][2]
    BY <1>10 DEF RdTo
  <2>4. LoadRefs(rd'[t], handover', a) = Is(rd[t].ptr, a) + e
    BY <1>2, <2>3, LoadValue
  <2> HIDE DEF e
  <2>5. Handed(a)' + e = Handed(a)
    BY <1>6, <1>7, <2>2
  <2> QED BY <1>1, <1>5, <1>7, <1>8, <2>2, <2>4, <2>5, Shares DEF Even
<1>11. Even(t, a)
  BY <1>1, <1>9, <1>10, ConfirmControlEffect
<1> QED BY <1>1, <1>2, <1>3, <1>5, <1>11, LedgerMove

(* Nobody else waits for the envelope that a writer fills. *)
LEMMA FillAlone ==
  ASSUME Control, Protocol, NEW t \in Threads, wr[t].pc = "fill"
  PROVE  /\ space_offer[t] \in Threads
         /\ \A u \in Threads :
              /\ IsReplacement(control[u]) => control[u][2] # space_offer[t]
              /\ rd[u].pc = "take" => rd[u].env # space_offer[t]
<1>1. /\ rd[t].pc = "idle" /\ space_offer[t] \in Threads
      /\ control[t] = IDLE
  BY Own DEF WriteOk, FollowOk, Announced, Types
<1>2. ~IsReplacement(control[t])
  BY <1>1, Words
<1>3. Envelope(t) = space_offer[t]
  BY <1>1, <1>2 DEF Envelope, OwnEnvelope
<1>4. ASSUME NEW u \in Threads, u # t
      PROVE  Envelope(u) # space_offer[t]
  BY <1>3, <1>4, Seen
<1>5. ASSUME NEW u \in Threads, IsReplacement(control[u])
      PROVE  control[u][2] # space_offer[t]
  BY <1>2, <1>4, <1>5 DEF Envelope, OwnEnvelope
<1>6. ASSUME NEW u \in Threads, rd[u].pc = "take"
      PROVE  rd[u].env # space_offer[t]
  <2>1. ~IsReplacement(control[u]) /\ u # t
    BY <1>1, <1>6, Own, Words DEF FollowOk, Announced
  <2> QED BY <1>4, <1>6, <2>1 DEF Envelope, OwnEnvelope
<1> QED BY <1>1, <1>5, <1>6

(* The envelope is filled. *)
LEMMA HelpFillBalanced ==
  ASSUME Control, Protocol, NEW t \in Threads, HelpFill(t),
         NEW a \in Objects, Balanced(a)
  PROVE  Balanced(a)'
<1>1. Types /\ wr[t].pc = "fill"
  BY Own, HelpFillEffect
<1>2. storage' = storage /\ cnt' = cnt /\ slots' = slots /\ control' = control
      /\ rd' = rd /\ held' = held
  BY <1>1, HelpFillEffect
<1>3. OnlyRd(t) /\ OnlyWr(t)
  BY <1>1, <1>2, HelpFillEffect DEF OnlyRd, WrGo, WrCas, WrTo
<1>4. \A e \in Threads : e # space_offer[t] => handover'[e] = handover[e]
  BY <1>1, HelpFillEffect DEF Types
<1>5. /\ \A u \in Threads : IsReplacement(control[u]) =>
           handover'[control[u][2]] = handover[control[u][2]]
      /\ \A u \in Threads : rd[u].pc = "take" =>
           handover'[rd[u].env] = handover[rd[u].env]
  <2>1. \A u \in Threads :
          /\ IsReplacement(control[u]) => control[u][2] \in Threads
          /\ rd[u].env \in Threads
    BY <1>1, FrameTypes, Words DEF Types
  <2> QED BY <1>1, <1>4, <2>1, FillAlone
<1>6. Handed(a)' = Handed(a)
  BY <1>2, <1>5 DEF Handed, Waiting
<1>7. Handed(a) \in Nat
  <2>1. {n \in Threads : Waiting(n, a)} \in SUBSET Threads
    OBVIOUS
  <2> QED BY <2>1, FiniteSlots, PartOfFinite DEF Handed
<1>8. /\ cnt'[a] = cnt[a] /\ Stored(a)' = Stored(a) /\ Stored(a) \in Nat
      /\ Debts(a)' = Debts(a) /\ Debts(a) \in Nat
      /\ Held(a)' = Held(a) /\ Held(a) \in Nat /\ IsFiniteSet(Holdings(a)')
  BY <1>1, <1>2, Unmoved
<1>9. rd[t].pc = "idle" /\ rd'[t].pc = "idle"
  BY <1>1, <1>2, Own DEF WriteOk
<1>10. LoadRefs(rd[t], handover, a) = 0 /\ LoadRefs(rd'[t], handover', a) = 0
  BY <1>9, LoadValue
<1>11. /\ wr'[t].pc = "help_cas" /\ wr'[t].op = wr[t].op
       /\ wr'[t].old = wr[t].old /\ wr'[t].repl = wr[t].repl
  BY <1>1, HelpFillEffect DEF WrGo, WrCas, WrTo
<1>12. WriteRefs(wr'[t], a) = WriteRefs(wr[t], a)
  BY <1>1, <1>11, WriteValue DEF OldGuard
<1>13. Even(t, a)
  BY <1>1, <1>6, <1>7, <1>8, <1>10, <1>12, Shares DEF Even
<1> QED BY <1>1, <1>3, <1>5, <1>8, <1>13, LedgerStep

(* The hand-over passes the reference on, if the control word is the same. *)
LEMMA HelpCasBalanced ==
  ASSUME Control, Protocol, NEW t \in Threads, HelpCas(t),
         NEW a \in Objects, Balanced(a)
  PROVE  Balanced(a)'
<1>1. Types /\ wr[t].pc = "help_cas" /\ wr[t].node \in Threads
  BY Own, HelpCasEffect, FrameTypes
<1>2. storage' = storage /\ cnt' = cnt /\ slots' = slots
      /\ handover' = handover /\ rd' = rd /\ held' = held
  BY <1>1, HelpCasEffect
<1>3. OnlyRd(t) /\ OnlyWr(t)
  BY <1>1, <1>2, HelpCasEffect DEF OnlyRd, WrGo, WrCas, WrHelp, WrTo
<1>4. /\ cnt'[a] = cnt[a] /\ Stored(a)' = Stored(a) /\ Stored(a) \in Nat
      /\ Debts(a)' = Debts(a) /\ Debts(a) \in Nat
      /\ Held(a)' = Held(a) /\ Held(a) \in Nat /\ IsFiniteSet(Holdings(a)')
      /\ LoadRefs(rd'[t], handover', a) = LoadRefs(rd[t], handover, a)
  BY <1>1, <1>2, Unmoved
<1>5. /\ Is(wr[t].old, a) \in Nat /\ Is(wr[t].repl, a) \in Nat
      /\ OldGuard(wr[t], a) \in Nat
  BY IsTypes DEF OldGuard
<1>6. ASSUME control[wr[t].node] = wr[t].observed,
             control' = [control EXCEPT ![wr[t].node] = Replacement(space_offer[t])],
             WrGo(t, "switch")
      PROVE  Even(t, a)
  <2>1. /\ control'[wr[t].node] = Replacement(space_offer[t])
        /\ \A u \in Threads : u # wr[t].node => control'[u] = control[u]
    BY <1>1, <1>6 DEF Types
  <2>2. IsGen(wr[t].observed)
    BY <1>1, Own DEF HelpOk, HelpPc
  <2>3. HandedRefs(control[wr[t].node], a) = 0
    BY <1>6, <2>2 DEF HandedRefs, IsGen, IsReplacement
  <2>4. handover[space_offer[t]] = wr[t].repl
    BY <1>1, Seen
  <2>5. HandedRefs(control'[wr[t].node], a) = Is(wr[t].repl, a)
    BY <2>1, <2>4, Words DEF HandedRefs
  <2>6. /\ Handed(a) \in Nat /\ Handed(a)' \in Nat
        /\ Handed(a)' + HandedRefs(control[wr[t].node], a)
             = Handed(a) + HandedRefs(control'[wr[t].node], a)
    BY <1>1, <1>2, <2>1, HandedStep
  <2>7. Handed(a)' = Handed(a) + Is(wr[t].repl, a)
    BY <1>5, <2>3, <2>5, <2>6
  <2>8. wr'[t].pc = "switch" /\ wr'[t].op = wr[t].op /\ wr'[t].old = wr[t].old
    BY <1>6 DEF WrGo, WrCas, WrTo
  <2>9. OldGuard(wr'[t], a) = OldGuard(wr[t], a)
    BY <2>8 DEF OldGuard
  <2>10. WriteRefs(wr'[t], a) + Is(wr[t].repl, a) = WriteRefs(wr[t], a)
    BY <1>1, <1>5, <2>8, <2>9, WriteValue
  <2> QED BY <1>1, <1>4, <1>5, <2>6, <2>7, <2>10, Shares DEF Even
<1>7. ASSUME control' = control,
             WrHelp(t, "help_drop", control[wr[t].node], wr[t].repl, 1)
      PROVE  Even(t, a)
  <2>1. Handed(a)' = Handed(a) /\ Handed(a) \in Nat
    BY <1>1, <1>2, <1>7, Unmoved
  <2>2. /\ wr'[t].pc = "help_drop" /\ wr'[t].op = wr[t].op
        /\ wr'[t].old = wr[t].old /\ wr'[t].repl = wr[t].repl
    BY <1>7 DEF WrHelp, WrTo
  <2>3. WriteRefs(wr'[t], a) = WriteRefs(wr[t], a)
    BY <1>1, <2>2, WriteValue DEF OldGuard
  <2> QED BY <1>1, <1>4, <2>1, <2>3, Shares DEF Even
<1>8. Even(t, a)
  BY <1>1, <1>6, <1>7, HelpCasEffect
<1> QED BY <1>1, <1>2, <1>3, <1>4, <1>8, LedgerMove

(* The exchange of swap and store. *)
LEMMA SwapBalanced ==
  ASSUME Control, NEW t \in Threads, NEW s \in Storages,
         NEW op \in {"swap", "store"}, Swap(t, s, op),
         rd[t].pc = "idle", wr[t].pc = "idle", NEW a \in Objects, Balanced(a)
  PROVE  Balanced(a)'
<1>1. Types
  BY Own
<1>2. slots' = slots /\ control' = control /\ handover' = handover /\ rd' = rd
  BY <1>1, SwapEffect
<1>3. OnlyRd(t) /\ OnlyWr(t)
  BY <1>1, <1>2, SwapEffect DEF OnlyRd, WrBegins, WrTo
<1>4. PICK v \in Pool[s] : NewValue(s, v) /\ Publish(s, v)
  BY <1>1, SwapEffect
<1>5. /\ Handed(a)' = Handed(a) /\ Handed(a) \in Nat
      /\ Debts(a)' = Debts(a) /\ Debts(a) \in Nat
      /\ LoadRefs(rd'[t], handover', a) = LoadRefs(rd[t], handover, a)
  BY <1>1, <1>2, Unmoved
<1>6. Is(v, a) \in Nat /\ Is(storage[s], a) \in Nat
  BY IsTypes
<1>7. /\ Stored(a) \in Nat /\ Stored(a)' \in Nat
      /\ Stored(a)' + Is(storage[s], a) = Stored(a) + Is(v, a)
  BY <1>1, <1>4, StoredStep DEF Publish
<1>8. /\ Held(a) \in Nat /\ Held(a)' \in Nat /\ IsFiniteSet(Holdings(a)')
      /\ cnt'[a] + Held(a) = cnt[a] + Held(a)' + Is(v, a)
  <2>1. IsFiniteSet(Holdings(a))
    BY DEF Balanced
  <2> QED BY <1>1, <1>4, <2>1, NewValueBalance
<1>9. cnt'[a] \in Int
  BY <1>1, <1>4, NewValueTypes
<1>10. wr[t].op = "none"
  BY Own DEF WriteOk
<1>11. wr'[t].pc = "pre_pay" /\ wr'[t].op = op /\ wr'[t].old = storage[s]
  BY <1>1, SwapEffect DEF WrBegins, WrTo
<1>12. OldGuard(wr'[t], a) = 0
  BY <1>11 DEF OldGuard
<1>13. WriteRefs(wr[t], a) = 0 /\ WriteRefs(wr'[t], a) = Is(storage[s], a)
  BY <1>6, <1>10, <1>11, <1>12, WriteValue
<1>14. Even(t, a)
  BY <1>1, <1>5, <1>6, <1>7, <1>8, <1>9, <1>13, Shares DEF Even
<1> QED BY <1>1, <1>2, <1>3, <1>8, <1>14, LedgerMove

(* A storage gives its reference to the call that ends it. *)
LEMMA EndStorageBalanced ==
  ASSUME Control, NEW t \in Threads, NEW s \in Storages,
         NEW op \in {"drop_storage", "unwrap_storage"}, EndStorage(t, s, op),
         rd[t].pc = "idle", wr[t].pc = "idle", NEW a \in Objects, Balanced(a)
  PROVE  Balanced(a)'
<1>1. Types
  BY Own
<1>2. cnt' = cnt /\ slots' = slots /\ control' = control /\ handover' = handover
      /\ rd' = rd /\ held' = held
  BY <1>1, EndStorageEffect
<1>3. OnlyRd(t) /\ OnlyWr(t)
  BY <1>1, <1>2, EndStorageEffect DEF OnlyRd, WrBegins, WrTo
<1>4. /\ cnt'[a] = cnt[a] /\ Handed(a)' = Handed(a) /\ Handed(a) \in Nat
      /\ Debts(a)' = Debts(a) /\ Debts(a) \in Nat
      /\ Held(a)' = Held(a) /\ Held(a) \in Nat /\ IsFiniteSet(Holdings(a)')
      /\ LoadRefs(rd'[t], handover', a) = LoadRefs(rd[t], handover, a)
  BY <1>1, <1>2, Unmoved
<1>5. Is(storage[s], a) \in Nat /\ Is(Dropped, a) = 0
  BY IsTypes, SentinelAssumption DEF Is, Ptrs
<1>6. /\ Stored(a) \in Nat /\ Stored(a)' \in Nat
      /\ Stored(a)' + Is(storage[s], a) = Stored(a) + Is(Dropped, a)
  <2>1. storage' = [storage EXCEPT ![s] = Dropped]
    BY <1>1, EndStorageEffect
  <2> QED BY <1>1, <2>1, StoredStep
<1>7. wr[t].op = "none"
  BY Own DEF WriteOk
<1>8. wr'[t].pc = "pre_pay" /\ wr'[t].op = op /\ wr'[t].old = storage[s]
  BY <1>1, EndStorageEffect DEF WrBegins, WrTo
<1>9. OldGuard(wr'[t], a) = 0
  BY <1>8 DEF OldGuard
<1>10. WriteRefs(wr[t], a) = 0 /\ WriteRefs(wr'[t], a) = Is(storage[s], a)
  BY <1>5, <1>7, <1>8, <1>9, WriteValue
<1>11. Even(t, a)
  BY <1>1, <1>4, <1>5, <1>6, <1>10, Shares DEF Even
<1> QED BY <1>1, <1>2, <1>3, <1>4, <1>11, LedgerMove

(* compare_and_swap has its new value. *)
LEMMA CompareAndSwapBalanced ==
  ASSUME Control, NEW t \in Threads, NEW s \in Storages, NEW p \in Pool[s],
         CompareAndSwap(t, s, p), rd[t].pc = "idle", wr[t].pc = "idle",
         NEW a \in Objects, Balanced(a)
  PROVE  Balanced(a)'
<1>1. Types
  BY Own
<1>2. storage' = storage /\ slots' = slots /\ control' = control
      /\ handover' = handover
  BY <1>1, CompareAndSwapEffect
<1>3. PICK v \in Pool[s] :
        /\ NewValue(s, v)
        /\ WrBegins(t, "cas_load", "compare_and_swap", s, v, p, Null)
  BY <1>1, CompareAndSwapEffect
<1>4. OnlyRd(t) /\ OnlyWr(t) /\ rd'[t].pc \in {"scan", "get_debt"}
  BY <1>1, <1>3, CompareAndSwapEffect DEF LoadBegins, RdTo, WrBegins, WrTo
<1>5. /\ Handed(a)' = Handed(a) /\ Handed(a) \in Nat
      /\ Debts(a)' = Debts(a) /\ Debts(a) \in Nat
      /\ Stored(a)' = Stored(a) /\ Stored(a) \in Nat
  BY <1>1, <1>2, Unmoved
<1>6. Is(v, a) \in Nat
  BY IsTypes
<1>7. /\ Held(a) \in Nat /\ Held(a)' \in Nat /\ IsFiniteSet(Holdings(a)')
      /\ cnt'[a] + Held(a) = cnt[a] + Held(a)' + Is(v, a)
  <2>1. IsFiniteSet(Holdings(a))
    BY DEF Balanced
  <2> QED BY <1>1, <1>3, <2>1, NewValueBalance
<1>8. cnt'[a] \in Int
  BY <1>1, <1>3, NewValueTypes
<1>9. wr[t].op = "none"
  BY Own DEF WriteOk
<1>10. wr'[t].pc = "cas_load" /\ wr'[t].new = v
  BY <1>3 DEF WrBegins, WrTo
<1>11. WriteRefs(wr[t], a) = 0 /\ WriteRefs(wr'[t], a) = Is(v, a)
  BY <1>9, <1>10, WriteValue
<1>12. LoadRefs(rd[t], handover, a) = 0 /\ LoadRefs(rd'[t], handover', a) = 0
  BY <1>4, LoadValue
<1>13. Even(t, a)
  BY <1>1, <1>5, <1>6, <1>7, <1>8, <1>11, <1>12, Shares DEF Even
<1> QED BY <1>1, <1>2, <1>4, <1>7, <1>13, LedgerMove

(* The exchange of compare_and_swap. *)
LEMMA CasExchangeBalanced ==
  ASSUME Control, NEW t \in Threads, CasExchange(t), NEW a \in Objects,
         Balanced(a)
  PROVE  Balanced(a)'
<1>1. Types /\ wr[t].pc = "cas"
  BY Own, CasExchangeEffect
<1>2. cnt' = cnt /\ slots' = slots /\ control' = control /\ handover' = handover
      /\ rd' = rd /\ held' = held
  BY <1>1, CasExchangeEffect
<1>3. OnlyRd(t) /\ OnlyWr(t)
  BY <1>1, <1>2, CasExchangeEffect DEF OnlyRd, WrTo
<1>4. /\ wr[t].op = "compare_and_swap" /\ wr[t].dst \in Storages
      /\ storage[wr[t].dst] = wr[t].old
  <2>1. WriteOk(wr[t], rd[t]) /\ storage[wr[t].dst] = wr[t].current
    BY <1>1, Own, CasExchangeEffect
  <2> QED BY <1>1, <2>1 DEF WriteOk, CasPc
<1>5. /\ cnt'[a] = cnt[a] /\ Handed(a)' = Handed(a) /\ Handed(a) \in Nat
      /\ Debts(a)' = Debts(a) /\ Debts(a) \in Nat
      /\ Held(a)' = Held(a) /\ Held(a) \in Nat /\ IsFiniteSet(Holdings(a)')
      /\ LoadRefs(rd'[t], handover', a) = LoadRefs(rd[t], handover, a)
  BY <1>1, <1>2, Unmoved
<1>6. Is(wr[t].old, a) \in Nat /\ Is(wr[t].new, a) \in Nat
  BY IsTypes
<1>7. /\ Stored(a) \in Nat /\ Stored(a)' \in Nat
      /\ Stored(a)' + Is(wr[t].old, a) = Stored(a) + Is(wr[t].new, a)
  <2>1. storage' = [storage EXCEPT ![wr[t].dst] = wr[t].new]
    BY <1>1, CasExchangeEffect DEF Publish
  <2>2. /\ Stored(a) \in Nat /\ Stored(a)' \in Nat
        /\ Stored(a)' + Is(storage[wr[t].dst], a) = Stored(a) + Is(wr[t].new, a)
    BY <1>1, <1>4, <2>1, StoredStep
  <2> QED BY <1>4, <2>2
<1>8. /\ wr'[t].pc = "pre_pay" /\ wr'[t].op = wr[t].op
      /\ wr'[t].old = wr[t].old
  BY <1>1, CasExchangeEffect DEF WrTo
<1>9. OldGuard(wr[t], a) = Is(wr[t].old, a)
      /\ OldGuard(wr'[t], a) = Is(wr[t].old, a)
  BY <1>4, <1>8 DEF OldGuard
<1>10. /\ WriteRefs(wr[t], a) = Is(wr[t].old, a) + Is(wr[t].new, a)
       /\ WriteRefs(wr'[t], a) = Is(wr[t].old, a) + Is(wr[t].old, a)
  BY <1>1, <1>8, <1>9, WriteValue
<1>11. Even(t, a)
  BY <1>1, <1>5, <1>6, <1>7, <1>10, Shares DEF Even
<1> QED BY <1>1, <1>2, <1>3, <1>5, <1>11, LedgerMove

(* A clone is an Arc of its own. *)
LEMMA CloneBalanced ==
  ASSUME Control, NEW t \in Threads, NEW h \in Handles, Clone(t, h),
         NEW a \in Objects, Balanced(a)
  PROVE  Balanced(a)'
<1>1. Types
  BY Own
<1>2. /\ storage' = storage /\ slots' = slots /\ control' = control
      /\ handover' = handover /\ rd' = rd /\ wr' = wr
      /\ Inc(h.ptr) /\ Give(Owned(h.ptr))
  BY DEF Clone
<1>3. OnlyRd(t) /\ OnlyWr(t)
  BY <1>2 DEF OnlyRd, OnlyWr
<1>4. h.ptr \in Ptrs /\ Owned(h.ptr) \in Handles /\ Owned(h.ptr).ptr = h.ptr
  BY Handle, HandleFields DEF Owned
<1>5. /\ Handed(a)' = Handed(a) /\ Handed(a) \in Nat
      /\ Debts(a)' = Debts(a) /\ Debts(a) \in Nat
      /\ Stored(a)' = Stored(a) /\ Stored(a) \in Nat
      /\ LoadRefs(rd'[t], handover', a) = LoadRefs(rd[t], handover, a)
      /\ WriteRefs(wr'[t], a) = WriteRefs(wr[t], a)
  BY <1>1, <1>2, Unmoved
<1>6. cnt'[a] = cnt[a] + Is(h.ptr, a) /\ Is(h.ptr, a) \in Nat
  BY <1>1, <1>2, <1>4, CntInc, IsTypes
<1>7. /\ Held(a) \in Nat /\ Held(a)' \in Nat /\ IsFiniteSet(Holdings(a)')
      /\ Held(a)' = Held(a) + Is(h.ptr, a)
  <2>1. IsFiniteSet(Holdings(a))
    BY DEF Balanced
  <2>2. Held(a)' = Held(a) + Is(Owned(h.ptr).ptr, a)
    BY <1>1, <1>2, <1>4, <2>1, HeldGive
  <2> QED BY <1>1, <1>2, <1>4, <2>1, <2>2, HeldGive
<1>8. Even(t, a)
  BY <1>1, <1>5, <1>6, <1>7, Shares DEF Even
<1> QED BY <1>1, <1>2, <1>3, <1>7, <1>8, LedgerMove

(* Nothing that counts has changed. *)
LEMMA BalanceAlone ==
  ASSUME Types, storage' = storage, cnt' = cnt, slots' = slots,
         control' = control, handover' = handover, rd' = rd, wr' = wr,
         held' = held, NEW a \in Objects, Balanced(a)
  PROVE  Balanced(a)'
<1>1. /\ cnt'[a] = cnt[a] /\ Handed(a)' = Handed(a) /\ Debts(a)' = Debts(a)
      /\ Stored(a)' = Stored(a) /\ Held(a)' = Held(a)
      /\ IsFiniteSet(Holdings(a)')
  BY Unmoved
<1>2. Loading(a)' = Loading(a)
  BY DEF Loading, HasGuard, HasInner, HasGot
<1>3. Writing(a)' = Writing(a)
  BY DEF Writing, HasOld, HasVal, HasRepl, HasOldGuard, HasNew
<1> QED BY <1>1, <1>2, <1>3 DEF Balanced

(* A thread ends and its node gets another owner: the balance stays. *)
LEMMA ThreadRestartBalanced ==
  ASSUME Control, NEW t \in Threads, ThreadRestart(t), NEW a \in Objects,
         Balanced(a)
  PROVE  Balanced(a)'
BY Own, BalanceAlone DEF ThreadRestart

(* The counts are exact at the beginning. *)
LEMMA LedgerInit ==
  ASSUME Init
  PROVE  Ledger
<1> SUFFICES ASSUME NEW a \in Objects
             PROVE  Balanced(a)
  BY DEF Ledger
<1>1. Types
  BY ControlInit DEF Control
<1>2. {x \in SlotIds : slots[x] = a} = {}
  BY SentinelAssumption DEF Init, Ptrs
<1>3. Holdings(a) = {}
  <2>1. \A d \in GuardDebts : GuardOf(a, d) \in Handles
    BY DEF Handles, Ptrs, GuardDebts, GuardOf
  <2>2. \A d \in GuardDebts : held[GuardOf(a, d)] = 0
    BY <2>1 DEF Init
  <2>3. \A z : z \notin HoldingsOf(held, a)
    BY <2>2, InHoldings
  <2>4. Holdings(a) = HoldingsOf(held, a)
    BY DEF Holdings, HoldingsOf, GuardDebts, GuardOf
  <2> QED BY <2>3, <2>4
<1>4. {n \in Threads : Waiting(n, a)} = {}
  BY DEF Init, Waiting, IsReplacement, IDLE
<1>5. \A t \in Threads : rd[t].pc = "idle" /\ wr[t].pc = "idle" /\ wr[t].op = "none"
  BY DEF Init, NoLoad, NoWrite
<1>6. /\ {t \in Threads : HasGuard(t, a)} = {}
         /\ {t \in Threads : HasInner(t, a)} = {}
      /\ {t \in Threads : HasGot(t, a)} = {}
  BY <1>5 DEF HasGuard, HasInner, HasGot
<1>7. /\ {t \in Threads : HasOld(t, a)} = {}
         /\ {t \in Threads : HasVal(t, a)} = {}
      /\ {t \in Threads : HasRepl(t, a)} = {}
      /\ {t \in Threads : HasOldGuard(t, a)} = {}
      /\ {t \in Threads : HasNew(t, a)} = {}
  BY <1>5 DEF HasOld, HasVal, HasRepl, HasOldGuard, HasNew, PayAllPc
<1>8. cnt[a] = Stored(a)
  BY DEF Init, Stored
<1>9. Stored(a) \in Nat
  <2>1. {s \in Storages : storage[s] = a} \in SUBSET Storages
    OBVIOUS
  <2> QED BY <2>1, StoragesAssumption, PartOfFinite DEF Stored
<1>10. Debts(a) = 0 /\ Held(a) = 0 /\ Handed(a) = 0 /\ IsFiniteSet(Holdings(a))
  BY <1>2, <1>3, <1>4, FS_EmptySet DEF Debts, Held, Handed
<1>11. Loading(a) = 0
  BY <1>6, FS_EmptySet DEF Loading
<1>12. Writing(a) = 0
  BY <1>7, FS_EmptySet DEF Writing
<1> QED BY <1>8, <1>9, <1>10, <1>11, <1>12 DEF Balanced

(* Every step keeps the balance. *)
LEMMA BalancedNext ==
  ASSUME Control, Protocol, NEW a \in Objects, Balanced(a), [Next]_vars
  PROVE  Balanced(a)'
<1>1. ASSUME NEW t \in Threads, LoadStep(t)
      PROVE  Balanced(a)'
  BY <1>1, ScanBalanced, ConfirmFastBalanced, GiveBackBalanced,
     GetDebtBalanced, GetDebtControlBalanced, CandidateBalanced,
     ConfirmSlotBalanced, ConfirmControlBalanced, TakeHandoverBalanced,
     UnusedPayBalanced, UnusedDecBalanced, IntoInnerIncBalanced,
     IntoInnerPayBalanced, IntoInnerDecBalanced, ReturnFullBalanced,
     ReturnToCallerBalanced, DropDecBalanced DEF LoadStep
<1>2. ASSUME NEW t \in Threads, WriteStep(t)
      PROVE  Balanced(a)'
  BY <1>2, CasLoadedBalanced, DropNewBalanced, CasExchangeBalanced,
     CasFailedBalanced, CasPayBalanced, CasDecBalanced, CasRetryBalanced,
     PrePayBalanced, HelpBalanced, HelpCheckAddrBalanced,
     HelpRecheckBalanced, HelpReplacementBalanced, HelpTheirSpaceBalanced,
     HelpFillBalanced, HelpCasBalanced, HelpSwitchBalanced,
     HelpDropBalanced, PaySlotBalanced, PayIncBalanced, ReleaseValBalanced,
     DropOldBalanced DEF WriteStep
<1>3. ASSUME NEW t \in Threads, StartCall(t)
      PROVE  Balanced(a)'
  <2>1. rd[t].pc = "idle" /\ wr[t].pc = "idle"
    BY <1>3 DEF StartCall
  <2>2. CASE \E s \in Storages, op \in {"load", "load_full"} : Load(t, s, op)
    BY <2>1, <2>2, LoadBalanced
  <2>3. CASE \E s \in Storages, op \in {"swap", "store"} : Swap(t, s, op)
    BY <2>1, <2>3, SwapBalanced
  <2>4. CASE \E s \in Storages, op \in {"drop_storage", "unwrap_storage"} :
               EndStorage(t, s, op)
    BY <2>1, <2>4, EndStorageBalanced
  <2>5. CASE \E s \in Storages : \E p \in Pool[s] : CompareAndSwap(t, s, p)
    BY <2>1, <2>5, CompareAndSwapBalanced
  <2>6. CASE \E h \in Handles : held[h] > 0 /\ IntoInner(t, h)
    BY <2>1, <2>6, IntoInnerBalanced
  <2>7. CASE \E h \in Handles : held[h] > 0 /\ Clone(t, h)
    BY <2>1, <2>7, CloneBalanced
  <2>8. CASE \E h \in Handles : held[h] > 0 /\ Drop(t, h)
    BY <2>1, <2>8, DropBalanced
  <2>9. CASE ThreadRestart(t)
    BY <2>1, <2>9, ThreadRestartBalanced
  <2> QED BY <1>3, <2>2, <2>3, <2>4, <2>5, <2>6, <2>7, <2>8, <2>9 DEF StartCall
<1>4. ASSUME UNCHANGED vars
      PROVE  Balanced(a)'
  BY <1>4, BalanceAlone DEF Control, vars
<1> QED BY <1>1, <1>2, <1>3, <1>4 DEF Next, AllDone

(* The count of every object, with its debts, is the number of references to it:
   the invariant behind Accounting. *)
THEOREM LedgerHolds == Spec => [](Control /\ Protocol /\ Ledger)
<1>1. Init => Control /\ Protocol /\ Ledger
  BY ControlInit, ProtocolInit, LedgerInit
<1>2. Control /\ Protocol /\ Ledger /\ [Next]_vars => Control' /\ Protocol' /\ Ledger'
  BY ControlNext, ProtocolNext, BalancedNext DEF Ledger
<1> QED BY <1>1, <1>2, PTL DEF Spec

(* The reference counting is exact at every instant (Accounting), with any number
   of threads, slots, storages and objects: no payment, hand-over or drop leaks
   a reference or releases one twice. *)
THEOREM AccountingHolds == Spec => []Accounting
<1>1. Ledger => Accounting
  <2> SUFFICES ASSUME Ledger, NEW a \in Objects
               PROVE  cnt[a] + Cardinality({x \in SlotIds : slots[x] = a})
                        = References(a)
    BY DEF Accounting
  <2>1. Balanced(a)
    BY DEF Ledger
  <2>2. /\ Cardinality({t \in Threads : HasGuard(t, a)}) \in Nat
        /\ Cardinality({t \in Threads : HasInner(t, a)}) \in Nat
        /\ Cardinality({t \in Threads : HasGot(t, a)}) \in Nat
        /\ Cardinality({t \in Threads : HasOld(t, a)}) \in Nat
        /\ Cardinality({t \in Threads : HasVal(t, a)}) \in Nat
        /\ Cardinality({t \in Threads : HasRepl(t, a)}) \in Nat
        /\ Cardinality({t \in Threads : HasOldGuard(t, a)}) \in Nat
        /\ Cardinality({t \in Threads : HasNew(t, a)}) \in Nat
        /\ Cardinality({n \in Threads : Waiting(n, a)}) \in Nat
    <3>1. \A S \in SUBSET Threads : Cardinality(S) \in Nat
      BY FiniteSlots, PartOfFinite
    <3> QED BY <3>1
  <2>3. Cardinality({s \in Storages : storage[s] = a}) \in Nat
    <3>1. {s \in Storages : storage[s] = a} \in SUBSET Storages
      OBVIOUS
    <3> QED BY <3>1, StoragesAssumption, PartOfFinite
  <2>4. Cardinality(Holdings(a)) \in Nat
    BY <2>1, FS_CardinalityType DEF Balanced
  <2> QED BY <2>1, <2>2, <2>3, <2>4
          DEF Balanced, References, Debts, Stored, Held, Handed, Loading,
          Writing
<1> QED BY <1>1, LedgerHolds, PTL

(* The load that filled a slot does not know yet if it was in time. *)
UnconfirmedPc == {"confirm", "give_back", "confirm_control", "take", "unused_pay"}
Unconfirmed(r, x) == r.debt = x /\ r.pc \in UnconfirmedPc

(* Who has the debt of slot x on a: a load or into_inner, the old guard of
   compare_and_swap, a guard of a caller. *)
OwingPc == UnconfirmedPc \cup {"inc", "inner_pay", "return"}
OwesLoad(r, x, a) == r.debt = x /\ r.ptr = a /\ r.pc \in OwingPc
OwesWrite(w, x, a) == w.odebt = x /\ w.old = a
OwesGuard(H, x, a) == H[[ptr |-> a, debt |-> x]] > 0
Owed(x, a) ==
  \/ OwesGuard(held, x, a)
  \/ \E t \in Threads : OwesLoad(rd[t], x, a) \/ OwesWrite(wr[t], x, a)

(* A slot that is not empty has a debtor. *)
DebtsOwed == \A x \in SlotIds : slots[x] # NONE => Owed(x, slots[x])

(* An unconfirmed debt is on the pointer that the load has read. *)
OwnDebt ==
  \A t \in Threads :
    rd[t].pc \in UnconfirmedPc => slots[rd[t].debt] \in {rd[t].ptr, NONE}

(* The write w has yet to come to slot x. *)
WillPay(w, x) ==
  \/ w.pc = "pre_pay"
  \/ /\ w.pc \in PayAllPc
     /\ \/ w.node > x[1]
        \/ /\ w.node = x[1]
           /\ \/ w.pc \notin {"pay", "pay_inc"}
              \/ w.pc = "pay" /\ w.k <= x[2]
              \/ w.pc = "pay_inc" /\ w.k < x[2]

(* Somebody has a reference to a, and keeps it while slot x holds a. *)
Covered(x, a) ==
  \/ \E s \in Storages : storage[s] = a
  \/ \E u \in Threads : wr[u].old = a /\ WillPay(wr[u], x)

(* A confirmed debt is covered. *)
DebtsCovered ==
  \A x \in SlotIds :
    slots[x] \in Objects /\ ~Unconfirmed(rd[x[1]], x) => Covered(x, slots[x])

(* The write w has yet to help the load of thread t from src, with the control
   word c. *)
WillHelp(w, t, src, c) ==
  /\ w.dst = src
  /\ \/ w.pc = "pre_pay"
     \/ w.pc \in PayAllPc /\ w.node > t
     \/ w.node = t /\ w.pc = "help"
     \/ /\ w.node = t /\ w.observed = c
        /\ w.pc \in {"help_addr", "replacement", "their_space", "fill", "help_cas"}

(* The candidate of a load that nobody has helped is still stored, or the writer
   that has removed it is still to come. *)
Unhelped(r, c, g) == r.pc \in {"slot", "confirm_control"} /\ c = Gen(g)
CandidateCovered ==
  \A t \in Threads :
    Unhelped(rd[t], control[t], generation[t]) =>
      \/ storage[rd[t].src] = rd[t].ptr
      \/ \E u \in Threads :
           wr[u].old = rd[t].ptr /\ WillHelp(wr[u], t, rd[t].src, control[t])

Memory == DebtsOwed /\ OwnDebt /\ DebtsCovered /\ CandidateCovered

-----------------------------------------------------------------------------
(* What a step of t has to do for Memory. *)

(* A slot is left alone or emptied, or t fills one of its own. *)
NewDebts(t) ==
  \A x \in SlotIds :
    \/ slots'[x] = slots[x] \/ slots'[x] = NONE
    \/ x[1] = t /\ Unconfirmed(rd'[t], x) /\ OwesLoad(rd'[t], x, slots'[x])

(* A debt that stays has a debtor afterwards. *)
KeepsDebts(t) ==
  \A x \in SlotIds :
    /\ slots[x] # NONE /\ slots'[x] = slots[x]
    /\ \/ OwesGuard(held, x, slots[x])
       \/ OwesLoad(rd[t], x, slots[x]) \/ OwesWrite(wr[t], x, slots[x])
    => \/ OwesGuard(held', x, slots[x])
       \/ OwesLoad(rd'[t], x, slots[x]) \/ OwesWrite(wr'[t], x, slots[x])

KeepsOwn(t) ==
  rd'[t].pc \in UnconfirmedPc => slots'[rd'[t].debt] \in {rd'[t].ptr, NONE}

(* A debt is only confirmed when it is covered. *)
Confirms(t) ==
  \A x \in SlotIds :
    /\ x[1] = t /\ slots[x] \in Objects /\ slots'[x] = slots[x]
    /\ Unconfirmed(rd[t], x) /\ ~Unconfirmed(rd'[t], x)
    => Covered(x, slots[x])

(* The writer does not pass a slot with its pointer. *)
KeepsPaying(t) ==
  \A x \in SlotIds :
    /\ slots[x] \in Objects /\ slots'[x] = slots[x]
    /\ wr[t].old = slots[x] /\ WillPay(wr[t], x)
    => wr'[t].old = slots[x] /\ WillPay(wr'[t], x)

(* Nor a load that needs its help. *)
KeepsHelping(t) ==
  \A v \in Threads :
    /\ Unhelped(rd[v], control[v], generation[v]) /\ control'[v] = control[v]
    /\ wr[t].old = rd[v].ptr /\ WillHelp(wr[t], v, rd[v].src, control[v])
    => wr'[t].old = wr[t].old /\ WillHelp(wr'[t], v, rd[v].src, control[v])

(* Who removes a pointer from a storage has to pay and help. *)
Removes(t) ==
  \A s \in Storages : storage'[s] # storage[s] =>
    wr'[t].pc = "pre_pay" /\ wr'[t].old = storage[s] /\ wr'[t].dst = s

(* The load of t has its candidate from the storage, or as before. *)
KeepsCandidate(t) ==
  Unhelped(rd'[t], control'[t], generation'[t]) =>
    \/ storage'[rd'[t].src] = rd'[t].ptr
    \/ /\ Unhelped(rd[t], control[t], generation[t])
       /\ control'[t] = control[t]
       /\ rd'[t].ptr = rd[t].ptr /\ rd'[t].src = rd[t].src

(* The words of the other nodes are left alone, or a hand-over is announced. *)
KeepsWords(t) ==
  \A v \in Threads : v # t =>
    /\ generation'[v] = generation[v]
    /\ control'[v] = control[v] \/ ~IsGen(control'[v])

(* An unconfirmed debt is in a slot of the thread's own node. *)
LEMMA OwnSlot ==
  ASSUME Control, NEW t \in Threads, rd[t].pc \in UnconfirmedPc
  PROVE  rd[t].debt \in SlotIds /\ rd[t].debt[1] = t
<1>1. LoadOk(t, rd[t])
  BY Own
<1>2. CASE rd[t].pc \in {"confirm", "give_back"}
  BY <1>1, <1>2, Slots DEF LoadOk
<1>3. CASE rd[t].pc \in {"confirm_control", "take", "unused_pay"}
  <2>1. rd[t].debt = <<t, HELPING>>
    BY <1>1, <1>3 DEF LoadOk
  <2> QED BY <2>1, Slots, Constants
<1> QED BY <1>2, <1>3 DEF UnconfirmedPc

(* Every debt keeps a debtor. *)
LEMMA OwedStep ==
  ASSUME Control, Memory, NEW t \in Threads, OnlyRd(t), OnlyWr(t),
         NewDebts(t), KeepsDebts(t)
  PROVE  DebtsOwed'
<1> SUFFICES ASSUME NEW x \in SlotIds, slots'[x] # NONE
             PROVE  \/ OwesGuard(held', x, slots'[x])
                    \/ \E u \in Threads : \/ OwesLoad(rd'[u], x, slots'[x])
                                          \/ OwesWrite(wr'[u], x, slots'[x])
  BY DEF DebtsOwed, Owed, OwesGuard, OwesLoad, OwesWrite
<1>2. CASE slots'[x] # slots[x]
  <2>1. OwesLoad(rd'[t], x, slots'[x])
    BY <1>2 DEF NewDebts
  <2> QED BY <2>1
<1>3. CASE slots'[x] = slots[x]
  <2>1. Owed(x, slots[x])
    BY <1>3 DEF Memory, DebtsOwed
  <2>2. CASE \/ OwesGuard(held, x, slots[x])
             \/ OwesLoad(rd[t], x, slots[x]) \/ OwesWrite(wr[t], x, slots[x])
    <3>1. \/ OwesGuard(held', x, slots[x])
          \/ OwesLoad(rd'[t], x, slots[x]) \/ OwesWrite(wr'[t], x, slots[x])
      BY <1>3, <2>2 DEF KeepsDebts
    <3> QED BY <1>3, <3>1
  <2>3. ASSUME NEW u \in Threads, u # t,
               OwesLoad(rd[u], x, slots[x]) \/ OwesWrite(wr[u], x, slots[x])
        PROVE  OwesLoad(rd'[u], x, slots'[x]) \/ OwesWrite(wr'[u], x, slots'[x])
    <3>1. rd'[u] = rd[u] /\ wr'[u] = wr[u]
      BY <2>3 DEF OnlyRd, OnlyWr
    <3> QED BY <1>3, <2>3, <3>1
  <2> QED BY <2>1, <2>2, <2>3 DEF Owed
<1> QED BY <1>2, <1>3

(* An unconfirmed debt stays on the pointer that was read, or gets paid. *)
LEMMA OwnDebtStep ==
  ASSUME Control, Memory, NEW t \in Threads, OnlyRd(t), NewDebts(t), KeepsOwn(t)
  PROVE  OwnDebt'
<1> SUFFICES ASSUME NEW u \in Threads, u # t, rd'[u].pc \in UnconfirmedPc
             PROVE  slots'[rd'[u].debt] \in {rd'[u].ptr, NONE}
  BY DEF OwnDebt, KeepsOwn
<1>1. rd'[u] = rd[u]
  BY DEF OnlyRd
<1>2. rd[u].debt \in SlotIds /\ rd[u].debt[1] = u
  BY <1>1, OwnSlot
<1>3. slots[rd[u].debt] \in {rd[u].ptr, NONE}
  BY <1>1 DEF Memory, OwnDebt
<1>4. slots'[rd[u].debt] = slots[rd[u].debt] \/ slots'[rd[u].debt] = NONE
  BY <1>2 DEF NewDebts
<1> QED BY <1>1, <1>3, <1>4

(* A confirmed debt stays covered: what takes its value out of a storage will
   pay it. *)
LEMMA CoveredStep ==
  ASSUME Control, Memory, NEW t \in Threads, OnlyRd(t), OnlyWr(t),
         NewDebts(t), Confirms(t), KeepsPaying(t), Removes(t)
  PROVE  DebtsCovered'
<1> SUFFICES ASSUME NEW x \in SlotIds, slots'[x] \in Objects,
                    ~Unconfirmed(rd'[x[1]], x)
             PROVE  \/ \E s \in Storages : storage'[s] = slots'[x]
                    \/ \E u \in Threads :
                         wr'[u].old = slots'[x] /\ WillPay(wr'[u], x)
  BY DEF DebtsCovered, Unconfirmed, Covered, WillPay
<1>1. slots'[x] = slots[x] /\ x[1] \in Threads
  BY SentinelAssumption DEF NewDebts, SlotIds, Ptrs
<1>2. Covered(x, slots[x])
  <2>1. CASE Unconfirmed(rd[x[1]], x)
    <3>1. x[1] = t
      BY <1>1, <2>1 DEF OnlyRd
    <3> QED BY <1>1, <2>1, <3>1 DEF Confirms
  <2>2. CASE ~Unconfirmed(rd[x[1]], x)
    BY <1>1, <2>2 DEF Memory, DebtsCovered
  <2> QED BY <2>1, <2>2
<1>4. ASSUME NEW s \in Storages, storage[s] = slots[x]
      PROVE  \/ \E q \in Storages : storage'[q] = slots'[x]
             \/ \E v \in Threads :
                  wr'[v].old = slots'[x] /\ WillPay(wr'[v], x)
  <2>1. CASE storage'[s] = storage[s]
    BY <1>1, <1>4, <2>1
  <2>2. CASE storage'[s] # storage[s]
    <3>1. wr'[t].old = slots'[x] /\ WillPay(wr'[t], x)
      BY <1>1, <1>4, <2>2 DEF Removes, WillPay
    <3> QED BY <3>1
  <2> QED BY <2>1, <2>2
<1>5. ASSUME NEW u \in Threads, wr[u].old = slots[x], WillPay(wr[u], x)
      PROVE  \/ \E q \in Storages : storage'[q] = slots'[x]
             \/ \E v \in Threads :
                  wr'[v].old = slots'[x] /\ WillPay(wr'[v], x)
  <2>1. CASE u = t
    <3>1. wr'[t].old = slots'[x] /\ WillPay(wr'[t], x)
      BY <1>1, <1>5, <2>1 DEF KeepsPaying
    <3> QED BY <3>1
  <2>2. CASE u # t
    <3>1. wr'[u] = wr[u]
      BY <2>2 DEF OnlyWr
    <3> QED BY <1>1, <1>5, <3>1
  <2> QED BY <2>1, <2>2
<1> QED BY <1>2, <1>4, <1>5 DEF Covered

(* The candidate of a load that nobody helps stays covered. *)
LEMMA CandidateStep ==
  ASSUME Control, Memory, NEW t \in Threads, OnlyRd(t), OnlyWr(t),
         KeepsHelping(t), Removes(t), KeepsCandidate(t), KeepsWords(t)
  PROVE  CandidateCovered'
<1> SUFFICES ASSUME NEW v \in Threads, Unhelped(rd'[v], control'[v], generation'[v])
             PROVE  \/ storage'[rd'[v].src] = rd'[v].ptr
                    \/ \E u \in Threads :
                         /\ wr'[u].old = rd'[v].ptr
                         /\ WillHelp(wr'[u], v, rd'[v].src, control'[v])
  BY DEF CandidateCovered, Unhelped, WillHelp
<1>1. CASE storage'[rd'[v].src] = rd'[v].ptr
  BY <1>1
<1>2. CASE storage'[rd'[v].src] # rd'[v].ptr
  <2>1. /\ Unhelped(rd[v], control[v], generation[v])
  /\ control'[v] = control[v]
        /\ rd'[v].ptr = rd[v].ptr /\ rd'[v].src = rd[v].src
    <3>1. CASE v = t
      BY <1>2, <3>1 DEF KeepsCandidate
    <3>2. CASE v # t
      <4>1. rd'[v] = rd[v] /\ generation'[v] = generation[v]
        BY <3>2 DEF OnlyRd, KeepsWords
      <4>2. IsGen(control'[v])
        BY Words DEF Unhelped
      <4>3. control'[v] = control[v]
        BY <3>2, <4>2 DEF KeepsWords
      <4> QED BY <4>1, <4>3
    <3> QED BY <3>1, <3>2
  <2>2. rd[v].src \in Storages
    <3>1. LoadOk(v, rd[v]) /\ rd[v].pc \in LoadingPc
      BY <2>1, Own DEF Unhelped, LoadingPc, Announced
    <3> QED BY <3>1 DEF LoadOk
  <2>3. CASE storage[rd[v].src] = rd[v].ptr
    <3>1. /\ wr'[t].pc = "pre_pay" /\ wr'[t].old = rd[v].ptr
          /\ wr'[t].dst = rd[v].src
      BY <1>2, <2>1, <2>2, <2>3 DEF Removes
    <3>2. WillHelp(wr'[t], v, rd[v].src, control[v])
      BY <3>1 DEF WillHelp
    <3> QED BY <2>1, <3>1, <3>2
  <2>4. ASSUME NEW u \in Threads, wr[u].old = rd[v].ptr,
               WillHelp(wr[u], v, rd[v].src, control[v])
        PROVE  \E w \in Threads :
                 /\ wr'[w].old = rd[v].ptr
                 /\ WillHelp(wr'[w], v, rd[v].src, control[v])
    <3>1. CASE u = t
      <4>1. wr'[t].old = wr[t].old /\ WillHelp(wr'[t], v, rd[v].src, control[v])
        BY <2>1, <2>4, <3>1 DEF KeepsHelping
      <4> QED BY <2>4, <3>1, <4>1
    <3>2. CASE u # t
      <4>1. wr'[u] = wr[u]
        BY <3>2 DEF OnlyWr
      <4> QED BY <2>4, <4>1
    <3> QED BY <3>1, <3>2
  <2> QED BY <2>1, <2>3, <2>4 DEF Memory, CandidateCovered
<1> QED BY <1>1, <1>2

(* A step of t keeps Memory when it keeps each of its parts. *)
LEMMA MemoryStep ==
  ASSUME Control, Memory, NEW t \in Threads, OnlyRd(t), OnlyWr(t),
         NewDebts(t), KeepsDebts(t), KeepsOwn(t), Confirms(t), KeepsPaying(t),
         KeepsHelping(t), Removes(t), KeepsCandidate(t), KeepsWords(t)
  PROVE  Memory'
BY OwedStep, OwnDebtStep, CoveredStep, CandidateStep DEF Memory

(* A step that leaves the write frame and the storages alone. *)
LEMMA WritesKept ==
  ASSUME NEW t \in Threads, wr' = wr
  PROVE  KeepsPaying(t) /\ KeepsHelping(t)
BY DEF KeepsPaying, KeepsHelping, WillPay, WillHelp

(* A step that changes no storage removes nothing. *)
LEMMA StoragesKept ==
  ASSUME NEW t, storage' = storage
  PROVE  Removes(t)
BY DEF Removes

(* A step that changes no word keeps the words. *)
LEMMA WordsKept ==
  ASSUME NEW t \in Threads, generation' = generation, control' = control
  PROVE  KeepsWords(t)
BY DEF KeepsWords

(* Slots are only emptied. *)
LEMMA NoNewDebts ==
  ASSUME NEW t \in Threads,
         \A x \in SlotIds : slots'[x] = slots[x] \/ slots'[x] = NONE
  PROVE  NewDebts(t)
BY DEF NewDebts

(* The load frame is left alone, the slots are only emptied. *)
LEMMA LoadKept ==
  ASSUME Control, Memory, NEW t \in Threads, rd'[t] = rd[t],
         \A x \in SlotIds : slots'[x] = slots[x] \/ slots'[x] = NONE
  PROVE  KeepsOwn(t) /\ Confirms(t)
<1>1. Confirms(t)
  BY DEF Confirms
<1>2. ASSUME rd[t].pc \in UnconfirmedPc
      PROVE  slots'[rd[t].debt] \in {rd[t].ptr, NONE}
  <2>1. rd[t].debt \in SlotIds
    BY <1>2, OwnSlot
  <2>2. slots[rd[t].debt] \in {rd[t].ptr, NONE}
    BY <1>2 DEF Memory, OwnDebt
  <2> QED BY <2>1, <2>2
<1> QED BY <1>1, <1>2 DEF KeepsOwn

(* The load frame is not about an unconfirmed debt, before or after the step. *)
LEMMA LoadSettled ==
  ASSUME NEW t \in Threads, rd[t].pc \notin UnconfirmedPc,
         rd'[t].pc \notin UnconfirmedPc \cup {"slot"}
  PROVE  KeepsOwn(t) /\ Confirms(t) /\ KeepsCandidate(t)
BY DEF KeepsOwn, Confirms, KeepsCandidate, Unconfirmed, Unhelped, UnconfirmedPc

(* The load goes on with the same unconfirmed debt. *)
LEMMA DebtGoesOn ==
  ASSUME Control, Memory, NEW t \in Threads, rd[t].pc \in UnconfirmedPc,
         rd'[t].pc \in UnconfirmedPc, rd'[t].debt = rd[t].debt,
         rd'[t].ptr = rd[t].ptr, slots' = slots
  PROVE  KeepsOwn(t) /\ Confirms(t)
BY DEF Memory, OwnDebt, KeepsOwn, Confirms, Unconfirmed

(* What becomes of the debt of the load, the write and the guards. *)
LoadDebt(t) ==
  \/ rd[t].pc \notin OwingPc
  \/ rd[t].debt \notin SlotIds
  \/ slots'[rd[t].debt] # rd[t].ptr
  \/ OwesLoad(rd'[t], rd[t].debt, rd[t].ptr)
  \/ OwesWrite(wr'[t], rd[t].debt, rd[t].ptr)
  \/ OwesGuard(held', rd[t].debt, rd[t].ptr)
WriteDebt(t) ==
  \/ wr[t].odebt \notin SlotIds
  \/ slots'[wr[t].odebt] # wr[t].old
  \/ OwesWrite(wr'[t], wr[t].odebt, wr[t].old)
  \/ OwesGuard(held', wr[t].odebt, wr[t].old)
GuardDebt(t) ==
  \A h \in Handles :
    held[h] > 0 =>
      \/ held'[h] > 0
      \/ h.debt \notin SlotIds
      \/ slots'[h.debt] # h.ptr
      \/ OwesLoad(rd'[t], h.debt, h.ptr)

(* The debts stay owed when the load, the write and the guards keep theirs. *)
LEMMA DebtsKept ==
  ASSUME Types, NEW t \in Threads, LoadDebt(t), WriteDebt(t), GuardDebt(t)
  PROVE  KeepsDebts(t)
<1> SUFFICES ASSUME NEW x \in SlotIds, slots[x] # NONE, slots'[x] = slots[x],
                    \/ OwesGuard(held, x, slots[x])
                    \/ OwesLoad(rd[t], x, slots[x]) \/ OwesWrite(wr[t], x, slots[x])
             PROVE  \/ OwesGuard(held', x, slots[x])
                    \/ OwesLoad(rd'[t], x, slots[x]) \/ OwesWrite(wr'[t], x, slots[x])
  BY DEF KeepsDebts
<1>1. CASE OwesLoad(rd[t], x, slots[x])
  <2>1. rd[t].pc \in OwingPc /\ rd[t].debt = x /\ rd[t].ptr = slots[x]
    BY <1>1 DEF OwesLoad
  <2> QED BY <2>1 DEF LoadDebt
<1>2. CASE OwesWrite(wr[t], x, slots[x])
  <2>1. wr[t].odebt = x /\ wr[t].old = slots[x]
    BY <1>2 DEF OwesWrite
  <2> QED BY <2>1 DEF WriteDebt
<1>3. CASE OwesGuard(held, x, slots[x])
  <2> DEFINE h == [ptr |-> slots[x], debt |-> x]
  <2>1. slots[x] \in Ptrs
    BY DEF Types
  <2>2. h \in Handles /\ h.ptr = slots[x] /\ h.debt = x
    BY <2>1, Handle
  <2>3. held[h] > 0
    BY <1>3 DEF OwesGuard
  <2>4. held'[h] > 0 => OwesGuard(held', x, slots[x])
    BY DEF OwesGuard
  <2> HIDE DEF h
  <2> QED BY <2>2, <2>3, <2>4 DEF GuardDebt
<1> QED BY <1>1, <1>2, <1>3

(* A write that goes on with the same old guard. *)
LEMMA WriteDebtKept ==
  ASSUME NEW t \in Threads,
         wr' = wr \/ (wr'[t].odebt = wr[t].odebt /\ wr'[t].old = wr[t].old)
  PROVE  WriteDebt(t)
BY DEF WriteDebt, OwesWrite

(* The callers keep their guards. *)
LEMMA GuardsKept ==
  ASSUME NEW t, held' = held
  PROVE  GuardDebt(t)
BY DEF GuardDebt

(* A caller gets one guard more. *)
LEMMA GuardsGiven ==
  ASSUME Types, NEW t, NEW h \in Handles, Give(h)
  PROVE  GuardDebt(t) /\ held'[h] > 0
BY DEF GuardDebt, Give, Types

(* A write that is not about to pay anything. *)
LEMMA NotPaying ==
  ASSUME NEW t \in Threads, wr[t].pc \notin PayAllPc \cup {"pre_pay"}
  PROVE  KeepsPaying(t) /\ KeepsHelping(t)
BY DEF KeepsPaying, KeepsHelping, WillPay, WillHelp, PayAllPc

(* help goes on, or comes to the first slot. *)
LEMMA HelpGoesOn ==
  ASSUME Types, NEW t \in Threads, wr[t].pc \in PayAllPc \ {"pay", "pay_inc"},
         wr'[t].node = wr[t].node, wr'[t].old = wr[t].old,
         \/ wr'[t].pc \in PayAllPc \ {"pay", "pay_inc"}
         \/ wr'[t].pc = "pay" /\ wr'[t].k = 1
  PROVE  KeepsPaying(t)
<1> SUFFICES ASSUME NEW x \in SlotIds, WillPay(wr[t], x)
             PROVE  WillPay(wr'[t], x)
  BY DEF KeepsPaying
<1>1. x[1] \in Threads /\ x[2] \in 1..HELPING /\ wr[t].node \in Threads
  BY FrameTypes DEF SlotIds
<1>2. wr[t].node > x[1] \/ wr[t].node = x[1]
  BY DEF WillPay, PayAllPc
<1>3. 1 <= x[2] /\ wr'[t].pc \in PayAllPc
  BY <1>1, Constants DEF PayAllPc
<1> QED BY <1>2, <1>3 DEF WillPay

(* The load that w is to help, if it is the one of the node it has got to. *)
LEMMA HelpsOn ==
  ASSUME NEW t \in Threads, wr[t].pc \in PayAllPc, wr'[t].pc \in PayAllPc,
         wr'[t].node = wr[t].node, wr'[t].dst = wr[t].dst, wr'[t].old = wr[t].old,
         ASSUME NEW v \in Threads, wr[t].node = v, wr[t].dst = rd[v].src,
                Unhelped(rd[v], control[v], generation[v]), control'[v] = control[v],
                \/ wr[t].pc = "help"
                \/ /\ wr[t].observed = control[v]
                   /\ wr[t].pc \in {"help_addr", "replacement", "their_space",
                                     "fill", "help_cas"}
         PROVE  /\ wr'[t].observed = control[v]
                /\ wr'[t].pc \in {"help_addr", "replacement", "their_space",
                                   "fill", "help_cas"}
  PROVE  KeepsHelping(t)
<1> SUFFICES ASSUME NEW v \in Threads, Unhelped(rd[v], control[v], generation[v]),
                    control'[v] = control[v], WillHelp(wr[t], v, rd[v].src, control[v])
             PROVE  WillHelp(wr'[t], v, rd[v].src, control[v])
  BY DEF KeepsHelping
<1>1. CASE wr[t].node > v
  BY <1>1 DEF WillHelp
<1>2. CASE ~(wr[t].node > v)
  <2>1. /\ wr[t].node = v /\ wr[t].dst = rd[v].src
        /\ \/ wr[t].pc = "help"
           \/ /\ wr[t].observed = control[v]
              /\ wr[t].pc \in {"help_addr", "replacement", "their_space",
                                "fill", "help_cas"}
    BY <1>2 DEF WillHelp, PayAllPc
  <2> QED BY <2>1 DEF WillHelp
<1> QED BY <1>1, <1>2

(* A step of the load of t. *)
LEMMA LoadStepMemory ==
  ASSUME Control, Memory, NEW t \in Threads, OnlyRd(t), wr' = wr,
         storage' = storage, KeepsWords(t),
         \A x \in SlotIds : slots'[x] = slots[x] \/ slots'[x] = NONE,
         LoadDebt(t), GuardDebt(t), KeepsOwn(t), Confirms(t), KeepsCandidate(t)
  PROVE  Memory'
<1>1. OnlyWr(t) /\ NewDebts(t) /\ Removes(t) /\ WriteDebt(t)
  BY NoNewDebts, StoragesKept, WriteDebtKept DEF OnlyWr
<1>2. KeepsPaying(t) /\ KeepsHelping(t)
  BY WritesKept
<1>3. KeepsDebts(t)
  BY <1>1, DebtsKept, Own
<1> QED BY <1>1, <1>2, <1>3, MemoryStep

(* A step of the write of t. *)
LEMMA WriteStepMemory ==
  ASSUME Control, Memory, NEW t \in Threads, OnlyWr(t), rd' = rd,
         control' = control, generation' = generation,
         \A x \in SlotIds : slots'[x] = slots[x] \/ slots'[x] = NONE,
         WriteDebt(t), GuardDebt(t), KeepsPaying(t), KeepsHelping(t), Removes(t)
  PROVE  Memory'
<1>1. OnlyRd(t) /\ NewDebts(t) /\ KeepsWords(t)
  BY NoNewDebts, WordsKept DEF OnlyRd
<1>2. KeepsOwn(t) /\ Confirms(t)
  BY LoadKept
<1>3. KeepsCandidate(t) /\ LoadDebt(t)
  BY DEF KeepsCandidate, LoadDebt, OwesLoad
<1>4. KeepsDebts(t)
  BY <1>3, DebtsKept, Own
<1> QED BY <1>1, <1>2, <1>3, <1>4, MemoryStep

(* A step of both, that is not about an unconfirmed debt. *)
LEMMA FramesMemory ==
  ASSUME Control, Memory, NEW t \in Threads, OnlyRd(t), OnlyWr(t),
         storage' = storage, control' = control, generation' = generation,
         slots' = slots, rd[t].pc \notin UnconfirmedPc,
         rd'[t].pc \notin UnconfirmedPc \cup {"slot"}, LoadDebt(t), WriteDebt(t),
         GuardDebt(t), KeepsPaying(t), KeepsHelping(t)
  PROVE  Memory'
<1>1. NewDebts(t) /\ Removes(t) /\ KeepsWords(t)
  BY NoNewDebts, StoragesKept, WordsKept
<1>2. KeepsOwn(t) /\ Confirms(t) /\ KeepsCandidate(t)
  BY LoadSettled
<1>3. KeepsDebts(t)
  BY DebtsKept, Own
<1> QED BY <1>1, <1>2, <1>3, MemoryStep

(* The reference that paid the debt is released. *)
LEMMA UnusedDecMemory ==
  ASSUME Control, Memory, NEW t \in Threads, UnusedDec(t)
  PROVE  Memory'
<1>1. Types /\ rd[t].pc = "unused_dec"
  BY Own, UnusedDecEffect
<1>2. /\ storage' = storage
      /\ control' = control
      /\ generation' = generation
      /\ wr' = wr
      /\ held' = held
      /\ slots' = slots
  BY <1>1, UnusedDecEffect
<1>3. OnlyRd(t) /\ rd'[t].pc = "return"
  BY <1>1, UnusedDecEffect DEF OnlyRd, RdTo
<1>5. \A x \in SlotIds : slots'[x] = slots[x] \/ slots'[x] = NONE
  BY <1>2
<1>6. LoadDebt(t)
  BY <1>1, <1>3 DEF LoadDebt, OwingPc, UnconfirmedPc, OwesLoad
<1>7. KeepsOwn(t) /\ Confirms(t) /\ KeepsCandidate(t)
  BY <1>1, <1>3, LoadSettled DEF UnconfirmedPc
<1>8. GuardDebt(t)
  BY <1>2, GuardsKept
<1> QED BY <1>2, <1>3, <1>5, <1>6, <1>7, <1>8, WordsKept, LoadStepMemory

(* A reference is taken. *)
LEMMA IntoInnerIncMemory ==
  ASSUME Control, Memory, NEW t \in Threads, IntoInnerInc(t)
  PROVE  Memory'
<1>1. Types /\ rd[t].pc = "inc"
  BY Own, IntoInnerIncEffect
<1>2. /\ storage' = storage
      /\ control' = control
      /\ generation' = generation
      /\ wr' = wr
      /\ held' = held
      /\ slots' = slots
  BY <1>1, IntoInnerIncEffect
<1>3. /\ OnlyRd(t)
      /\ rd'[t].pc = "inner_pay"
      /\ rd'[t].debt = rd[t].debt
      /\ rd'[t].ptr = rd[t].ptr
  BY <1>1, IntoInnerIncEffect DEF OnlyRd, RdGo, RdMove, RdTo
<1>5. \A x \in SlotIds : slots'[x] = slots[x] \/ slots'[x] = NONE
  BY <1>2
<1>6. LoadDebt(t)
  BY <1>1, <1>3 DEF LoadDebt, OwingPc, UnconfirmedPc, OwesLoad
<1>7. KeepsOwn(t) /\ Confirms(t) /\ KeepsCandidate(t)
  BY <1>1, <1>3, LoadSettled DEF UnconfirmedPc
<1>8. GuardDebt(t)
  BY <1>2, GuardsKept
<1> QED BY <1>2, <1>3, <1>5, <1>6, <1>7, <1>8, WordsKept, LoadStepMemory

(* The debt is paid, or was. *)
LEMMA IntoInnerPayMemory ==
  ASSUME Control, Memory, NEW t \in Threads, IntoInnerPay(t)
  PROVE  Memory'
<1>1. Types /\ rd[t].pc = "inner_pay"
  BY Own, IntoInnerPayEffect
<1>2. /\ storage' = storage
      /\ control' = control
      /\ generation' = generation
      /\ wr' = wr
      /\ held' = held
  BY <1>1, IntoInnerPayEffect
<1>3. OnlyRd(t) /\ rd'[t].pc \in {"return", "inner_dec"}
  BY <1>1, IntoInnerPayEffect DEF OnlyRd, RdGo, RdMove, RdTo
<1>4. /\ rd[t].ptr \in Ptrs
      /\ (Paid(rd[t].debt, rd[t].ptr) \/ PaidBefore(rd[t].debt, rd[t].ptr))
  BY <1>1, FrameTypes, IntoInnerPayEffect
<1>5. \A x \in SlotIds : slots'[x] = slots[x] \/ slots'[x] = NONE
  BY <1>1, <1>4, PaidSlots
<1>6. LoadDebt(t)
  BY <1>1, <1>4, PaidSlots DEF LoadDebt
<1>7. KeepsOwn(t) /\ Confirms(t) /\ KeepsCandidate(t)
  BY <1>1, <1>3, LoadSettled DEF UnconfirmedPc
<1>8. GuardDebt(t)
  BY <1>2, GuardsKept
<1> QED BY <1>2, <1>3, <1>5, <1>6, <1>7, <1>8, WordsKept, LoadStepMemory

(* The second reference is released. *)
LEMMA IntoInnerDecMemory ==
  ASSUME Control, Memory, NEW t \in Threads, IntoInnerDec(t)
  PROVE  Memory'
<1>1. Types /\ rd[t].pc = "inner_dec"
  BY Own, IntoInnerDecEffect
<1>2. /\ storage' = storage
      /\ control' = control
      /\ generation' = generation
      /\ wr' = wr
      /\ held' = held
      /\ slots' = slots
  BY <1>1, IntoInnerDecEffect
<1>3. OnlyRd(t) /\ rd'[t].pc = "return"
  BY <1>1, IntoInnerDecEffect DEF OnlyRd, RdMove, RdTo
<1>5. \A x \in SlotIds : slots'[x] = slots[x] \/ slots'[x] = NONE
  BY <1>2
<1>6. LoadDebt(t)
  BY <1>1, <1>3 DEF LoadDebt, OwingPc, UnconfirmedPc, OwesLoad
<1>7. KeepsOwn(t) /\ Confirms(t) /\ KeepsCandidate(t)
  BY <1>1, <1>3, LoadSettled DEF UnconfirmedPc
<1>8. GuardDebt(t)
  BY <1>2, GuardsKept
<1> QED BY <1>2, <1>3, <1>5, <1>6, <1>7, <1>8, WordsKept, LoadStepMemory

(* A guard becomes an Arc. *)
LEMMA ReturnFullMemory ==
  ASSUME Control, Memory, NEW t \in Threads, ReturnFull(t)
  PROVE  Memory'
<1>1. Types /\ rd[t].pc = "return"
  BY Own, ReturnFullEffect
<1>2. /\ storage' = storage
      /\ control' = control
      /\ generation' = generation
      /\ wr' = wr
      /\ held' = held
      /\ slots' = slots
  BY <1>1, ReturnFullEffect
<1>3. /\ OnlyRd(t)
      /\ rd'[t].pc = "inc"
      /\ rd'[t].debt = rd[t].debt
      /\ rd'[t].ptr = rd[t].ptr
  BY <1>1, ReturnFullEffect DEF OnlyRd, RdGo, RdMove, RdTo
<1>5. \A x \in SlotIds : slots'[x] = slots[x] \/ slots'[x] = NONE
  BY <1>2
<1>6. LoadDebt(t)
  BY <1>1, <1>3 DEF LoadDebt, OwingPc, UnconfirmedPc, OwesLoad
<1>7. KeepsOwn(t) /\ Confirms(t) /\ KeepsCandidate(t)
  BY <1>1, <1>3, LoadSettled DEF UnconfirmedPc
<1>8. GuardDebt(t)
  BY <1>2, GuardsKept
<1> QED BY <1>2, <1>3, <1>5, <1>6, <1>7, <1>8, WordsKept, LoadStepMemory

(* A guard whose debt was paid releases its reference. *)
LEMMA DropDecMemory ==
  ASSUME Control, Memory, NEW t \in Threads, DropDec(t)
  PROVE  Memory'
<1>1. Types /\ rd[t].pc = "drop_dec"
  BY Own, DropDecEffect
<1>2. /\ storage' = storage
      /\ control' = control
      /\ generation' = generation
      /\ wr' = wr
      /\ held' = held
      /\ slots' = slots
  BY <1>1, DropDecEffect
<1>3. OnlyRd(t) /\ rd'[t].pc = "idle"
  BY <1>1, DropDecEffect DEF OnlyRd, RdIdle, RdTo
<1>5. \A x \in SlotIds : slots'[x] = slots[x] \/ slots'[x] = NONE
  BY <1>2
<1>6. LoadDebt(t)
  BY <1>1, <1>3 DEF LoadDebt, OwingPc, UnconfirmedPc, OwesLoad
<1>7. KeepsOwn(t) /\ Confirms(t) /\ KeepsCandidate(t)
  BY <1>1, <1>3, LoadSettled DEF UnconfirmedPc
<1>8. GuardDebt(t)
  BY <1>2, GuardsKept
<1> QED BY <1>2, <1>3, <1>5, <1>6, <1>7, <1>8, WordsKept, LoadStepMemory

(* A load begins. *)
LEMMA LoadMemory ==
  ASSUME Control, Memory, NEW t \in Threads, NEW s \in Storages,
         NEW op \in {"load", "load_full"}, Load(t, s, op),
         rd[t].pc = "idle", wr[t].pc = "idle"
  PROVE  Memory'
<1>1. Types /\ rd[t].pc = "idle"
  BY Own, LoadEffect
<1>2. /\ storage' = storage
      /\ control' = control
      /\ generation' = generation
      /\ wr' = wr
      /\ held' = held
      /\ slots' = slots
  BY <1>1, LoadEffect
<1>3. OnlyRd(t) /\ rd'[t].pc \in {"scan", "get_debt"}
  BY <1>1, LoadEffect DEF OnlyRd, LoadBegins, RdTo
<1>5. \A x \in SlotIds : slots'[x] = slots[x] \/ slots'[x] = NONE
  BY <1>2
<1>6. LoadDebt(t)
  BY <1>1, <1>3 DEF LoadDebt, OwingPc, UnconfirmedPc, OwesLoad
<1>7. KeepsOwn(t) /\ Confirms(t) /\ KeepsCandidate(t)
  BY <1>1, <1>3, LoadSettled DEF UnconfirmedPc
<1>8. GuardDebt(t)
  BY <1>2, GuardsKept
<1> QED BY <1>2, <1>3, <1>5, <1>6, <1>7, <1>8, WordsKept, LoadStepMemory

(* The envelope is emptied and kept. *)
LEMMA TakeHandoverMemory ==
  ASSUME Control, Memory, NEW t \in Threads, TakeHandover(t)
  PROVE  Memory'
<1>1. Types /\ rd[t].pc = "take"
  BY Own, TakeHandoverEffect
<1>2. /\ storage' = storage
      /\ control' = control
      /\ generation' = generation
      /\ wr' = wr
      /\ held' = held
      /\ slots' = slots
  BY <1>1, TakeHandoverEffect
<1>3. /\ OnlyRd(t)
      /\ rd'[t].pc = "unused_pay"
      /\ rd'[t].debt = rd[t].debt
      /\ rd'[t].ptr = rd[t].ptr
  BY <1>1, TakeHandoverEffect DEF OnlyRd, RdTo
<1>5. \A x \in SlotIds : slots'[x] = slots[x] \/ slots'[x] = NONE
  BY <1>2
<1>6. LoadDebt(t)
  BY <1>1, <1>3 DEF LoadDebt, OwingPc, UnconfirmedPc, OwesLoad
<1>7. KeepsOwn(t) /\ Confirms(t) /\ KeepsCandidate(t)
  BY <1>1, <1>2, <1>3, DebtGoesOn DEF UnconfirmedPc, KeepsCandidate, Unhelped
<1>8. GuardDebt(t)
  BY <1>2, GuardsKept
<1> QED BY <1>2, <1>3, <1>5, <1>6, <1>7, <1>8, WordsKept, LoadStepMemory

(* The second read. *)
LEMMA ConfirmFastMemory ==
  ASSUME Control, Memory, NEW t \in Threads, ConfirmFast(t)
  PROVE  Memory'
<1>1. Types /\ rd[t].pc = "confirm"
  BY Own, ConfirmFastEffect
<1>2. /\ storage' = storage
      /\ control' = control
      /\ generation' = generation
      /\ wr' = wr
      /\ held' = held
      /\ slots' = slots
  BY <1>1, ConfirmFastEffect
<1>3. /\ OnlyRd(t)
      /\ rd'[t].pc \in {"return", "give_back"}
      /\ rd'[t].debt = rd[t].debt
      /\ rd'[t].ptr = rd[t].ptr
      /\ (rd'[t].pc = "return" => storage[rd[t].src] = rd[t].ptr)
  BY <1>1, ConfirmFastEffect DEF OnlyRd, RdGo, RdMove, RdTo
<1>5. \A x \in SlotIds : slots'[x] = slots[x] \/ slots'[x] = NONE
  BY <1>2
<1>6. LoadDebt(t)
  BY <1>1, <1>3 DEF LoadDebt, OwingPc, UnconfirmedPc, OwesLoad
<1>7. KeepsOwn(t) /\ Confirms(t) /\ KeepsCandidate(t)
  <2>1. KeepsCandidate(t)
    BY <1>3 DEF KeepsCandidate, Unhelped
  <2>2. CASE rd'[t].pc = "give_back"
    BY <1>1, <1>2, <1>3, <2>1, <2>2, DebtGoesOn DEF UnconfirmedPc
  <2>3. CASE rd'[t].pc = "return"
    <3>1. KeepsOwn(t)
      BY <2>3 DEF KeepsOwn, UnconfirmedPc
    <3>2. storage[rd[t].src] = rd[t].ptr /\ rd[t].src \in Storages
      <4>1. LoadOk(t, rd[t])
        BY Own
      <4> QED BY <1>1, <1>3, <2>3, <4>1 DEF LoadOk, LoadingPc
    <3>3. ASSUME NEW x \in SlotIds, slots[x] \in Objects, Unconfirmed(rd[t], x)
          PROVE  Covered(x, slots[x])
      <4>1. slots[x] = rd[t].ptr
        BY <3>3, SentinelAssumption DEF Memory, OwnDebt, Unconfirmed, Ptrs
      <4> QED BY <3>2, <4>1 DEF Covered
    <3>4. Confirms(t)
      BY <3>3 DEF Confirms
    <3> QED BY <2>1, <3>1, <3>4
  <2> QED BY <1>3, <2>2, <2>3
<1>8. GuardDebt(t)
  BY <1>2, GuardsKept
<1> QED BY <1>2, <1>3, <1>5, <1>6, <1>7, <1>8, WordsKept, LoadStepMemory

(* The debt is returned, or was paid. *)
LEMMA GiveBackMemory ==
  ASSUME Control, Memory, NEW t \in Threads, GiveBack(t)
  PROVE  Memory'
<1>1. Types /\ rd[t].pc = "give_back"
  BY Own, GiveBackEffect
<1>2. /\ storage' = storage
      /\ control' = control
      /\ generation' = generation
      /\ wr' = wr
      /\ held' = held
  BY <1>1, GiveBackEffect
<1>3. OnlyRd(t) /\ rd'[t].pc \in {"get_debt", "return"}
  BY <1>1, GiveBackEffect DEF OnlyRd, RdMove, RdTo
<1>4. /\ rd[t].ptr \in Ptrs
      /\ (Paid(rd[t].debt, rd[t].ptr) \/ PaidBefore(rd[t].debt, rd[t].ptr))
  BY <1>1, FrameTypes, GiveBackEffect
<1>5. \A x \in SlotIds : slots'[x] = slots[x] \/ slots'[x] = NONE
  BY <1>1, <1>4, PaidSlots
<1>6. LoadDebt(t)
  BY <1>1, <1>4, PaidSlots DEF LoadDebt
<1>7. KeepsOwn(t) /\ Confirms(t) /\ KeepsCandidate(t)
  <2>1. KeepsOwn(t) /\ KeepsCandidate(t)
    BY <1>3 DEF KeepsOwn, KeepsCandidate, UnconfirmedPc, Unhelped
  <2>2. ASSUME NEW x \in SlotIds, slots[x] \in Objects, Unconfirmed(rd[t], x)
        PROVE  slots'[x] # slots[x]
    <3>1. slots[x] = rd[t].ptr /\ rd[t].debt = x
      BY <2>2, SentinelAssumption DEF Memory, OwnDebt, Unconfirmed, Ptrs
    <3> QED BY <1>1, <1>4, <3>1, PaidSlots
  <2> QED BY <2>1, <2>2 DEF Confirms
<1>8. GuardDebt(t)
  BY <1>2, GuardsKept
<1> QED BY <1>2, <1>3, <1>5, <1>6, <1>7, <1>8, WordsKept, LoadStepMemory

(* The debt on the candidate is returned, or was paid. *)
LEMMA UnusedPayMemory ==
  ASSUME Control, Memory, NEW t \in Threads, UnusedPay(t)
  PROVE  Memory'
<1>1. Types /\ rd[t].pc = "unused_pay"
  BY Own, UnusedPayEffect
<1>2. /\ storage' = storage
      /\ control' = control
      /\ generation' = generation
      /\ wr' = wr
      /\ held' = held
  BY <1>1, UnusedPayEffect
<1>3. OnlyRd(t) /\ rd'[t].pc \in {"return", "unused_dec"}
  BY <1>1, UnusedPayEffect DEF OnlyRd, RdGo, RdMove, RdTo
<1>4. /\ rd[t].ptr \in Ptrs
      /\ (Paid(rd[t].debt, rd[t].ptr) \/ PaidBefore(rd[t].debt, rd[t].ptr))
  BY <1>1, FrameTypes, UnusedPayEffect
<1>5. \A x \in SlotIds : slots'[x] = slots[x] \/ slots'[x] = NONE
  BY <1>1, <1>4, PaidSlots
<1>6. LoadDebt(t)
  BY <1>1, <1>4, PaidSlots DEF LoadDebt
<1>7. KeepsOwn(t) /\ Confirms(t) /\ KeepsCandidate(t)
  <2>1. KeepsOwn(t) /\ KeepsCandidate(t)
    BY <1>3 DEF KeepsOwn, KeepsCandidate, UnconfirmedPc, Unhelped
  <2>2. ASSUME NEW x \in SlotIds, slots[x] \in Objects, Unconfirmed(rd[t], x)
        PROVE  slots'[x] # slots[x]
    <3>1. slots[x] = rd[t].ptr /\ rd[t].debt = x
      BY <2>2, SentinelAssumption DEF Memory, OwnDebt, Unconfirmed, Ptrs
    <3> QED BY <1>1, <1>4, <3>1, PaidSlots
  <2> QED BY <2>1, <2>2 DEF Confirms
<1>8. GuardDebt(t)
  BY <1>2, GuardsKept
<1> QED BY <1>2, <1>3, <1>5, <1>6, <1>7, <1>8, WordsKept, LoadStepMemory

(* The candidate is read. *)
LEMMA CandidateMemory ==
  ASSUME Control, Memory, NEW t \in Threads, Candidate(t)
  PROVE  Memory'
<1>1. Types /\ rd[t].pc = "candidate"
  BY Own, CandidateEffect
<1>2. /\ storage' = storage
      /\ control' = control
      /\ generation' = generation
      /\ wr' = wr
      /\ held' = held
      /\ slots' = slots
  BY <1>1, CandidateEffect
<1>3. /\ OnlyRd(t)
      /\ rd'[t].pc \in {"panicked", "slot"}
      /\ rd'[t].ptr = storage[rd[t].src]
      /\ rd'[t].src = rd[t].src
  BY <1>1, CandidateEffect DEF OnlyRd, RdMove, RdTo
<1>5. \A x \in SlotIds : slots'[x] = slots[x] \/ slots'[x] = NONE
  BY <1>2
<1>6. LoadDebt(t)
  BY <1>1, <1>3 DEF LoadDebt, OwingPc, UnconfirmedPc, OwesLoad
<1>7. KeepsOwn(t) /\ Confirms(t) /\ KeepsCandidate(t)
  BY <1>1, <1>2, <1>3 DEF KeepsOwn, Confirms, KeepsCandidate, Unconfirmed,
                          UnconfirmedPc
<1>8. GuardDebt(t)
  BY <1>2, GuardsKept
<1> QED BY <1>2, <1>3, <1>5, <1>6, <1>7, <1>8, WordsKept, LoadStepMemory

(* The exchange fails. *)
LEMMA CasFailedMemory ==
  ASSUME Control, Memory, NEW t \in Threads, CasFailed(t)
  PROVE  Memory'
<1>1. Types /\ wr[t].pc = "cas"
  BY Own, CasFailedEffect
<1>2. /\ storage' = storage
      /\ control' = control
      /\ generation' = generation
      /\ rd' = rd
      /\ held' = held
      /\ slots' = slots
  BY <1>1, CasFailedEffect
<1>3. OnlyWr(t) /\ wr'[t].odebt = wr[t].odebt /\ wr'[t].old = wr[t].old
  BY <1>1, CasFailedEffect DEF OnlyRd, OnlyWr, WrGo, WrCas, WrTo
<1>4. \A x \in SlotIds : slots'[x] = slots[x] \/ slots'[x] = NONE
  BY <1>2
<1>5. WriteDebt(t)
  BY <1>3, WriteDebtKept
<1>6. GuardDebt(t)
  BY <1>2, GuardsKept
<1>7. KeepsPaying(t) /\ KeepsHelping(t)
  BY <1>1, NotPaying DEF PayAllPc
<1>8. Removes(t)
  BY <1>2, StoragesKept
<1> QED BY <1>2, <1>3, <1>4, <1>5, <1>6, <1>7, <1>8, WriteStepMemory

(* new is dropped. *)
LEMMA DropNewMemory ==
  ASSUME Control, Memory, NEW t \in Threads, DropNew(t)
  PROVE  Memory'
<1>1. Types /\ wr[t].pc = "drop_new"
  BY Own, DropNewEffect
<1>2. /\ storage' = storage
      /\ control' = control
      /\ generation' = generation
      /\ rd' = rd
      /\ held' = held
      /\ slots' = slots
  BY <1>1, DropNewEffect
<1>3. OnlyWr(t)
  BY <1>1, DropNewEffect DEF OnlyRd, OnlyWr, WrIdle, WrBegins, WrTo
<1>4. \A x \in SlotIds : slots'[x] = slots[x] \/ slots'[x] = NONE
  BY <1>2
<1>5. WriteDebt(t)
  <2>1. WriteOk(wr[t], rd[t])
    BY Own
  <2>2. wr[t].odebt = NoDebt
    BY <1>1, <2>1 DEF WriteOk, CasPc
  <2> QED BY <2>2, Constants, Slots DEF WriteDebt
<1>6. GuardDebt(t)
  BY <1>2, GuardsKept
<1>7. KeepsPaying(t) /\ KeepsHelping(t)
  BY <1>1, NotPaying DEF PayAllPc
<1>8. Removes(t)
  BY <1>2, StoragesKept
<1> QED BY <1>2, <1>3, <1>4, <1>5, <1>6, <1>7, <1>8, WriteStepMemory

(* The old guard releases its reference. *)
LEMMA CasDecMemory ==
  ASSUME Control, Memory, NEW t \in Threads, CasDec(t)
  PROVE  Memory'
<1>1. Types /\ wr[t].pc = "cas_dec"
  BY Own, CasDecEffect
<1>2. /\ storage' = storage
      /\ control' = control
      /\ generation' = generation
      /\ rd' = rd
      /\ held' = held
      /\ slots' = slots
  BY <1>1, CasDecEffect
<1>3. OnlyWr(t)
  BY <1>1, CasDecEffect DEF OnlyRd, OnlyWr, WrGo, WrCas, WrTo
<1>4. \A x \in SlotIds : slots'[x] = slots[x] \/ slots'[x] = NONE
  BY <1>2
<1>5. WriteDebt(t)
  <2>1. WriteOk(wr[t], rd[t])
    BY Own
  <2>2. wr[t].odebt = NoDebt
    BY <1>1, <2>1 DEF WriteOk, CasPc
  <2> QED BY <2>2, Constants, Slots DEF WriteDebt
<1>6. GuardDebt(t)
  BY <1>2, GuardsKept
<1>7. KeepsPaying(t) /\ KeepsHelping(t)
  BY <1>1, NotPaying DEF PayAllPc
<1>8. Removes(t)
  BY <1>2, StoragesKept
<1> QED BY <1>2, <1>3, <1>4, <1>5, <1>6, <1>7, <1>8, WriteStepMemory

(* The old guard returns its debt. *)
LEMMA CasPayMemory ==
  ASSUME Control, Memory, NEW t \in Threads, CasPay(t)
  PROVE  Memory'
<1>1. Types /\ wr[t].pc = "cas_pay"
  BY Own, CasPayEffect
<1>2. /\ storage' = storage
      /\ control' = control
      /\ generation' = generation
      /\ rd' = rd
      /\ held' = held
  BY <1>1, CasPayEffect
<1>3. OnlyWr(t)
  BY <1>1, CasPayEffect DEF OnlyRd, OnlyWr, WrCas, WrTo
<1>4. \A x \in SlotIds : slots'[x] = slots[x] \/ slots'[x] = NONE
  BY <1>1, CasPayEffect, PaidSlots
<1>5. WriteDebt(t)
  BY <1>1, CasPayEffect, PaidSlots, FrameTypes DEF WriteDebt
<1>6. GuardDebt(t)
  BY <1>2, GuardsKept
<1>7. KeepsPaying(t) /\ KeepsHelping(t)
  BY <1>1, NotPaying DEF PayAllPc
<1>8. Removes(t)
  BY <1>2, StoragesKept
<1> QED BY <1>2, <1>3, <1>4, <1>5, <1>6, <1>7, <1>8, WriteStepMemory

(* The reader's envelope is read. *)
LEMMA HelpTheirSpaceMemory ==
  ASSUME Control, Memory, NEW t \in Threads, HelpTheirSpace(t)
  PROVE  Memory'
<1>1. Types /\ wr[t].pc = "their_space"
  BY Own, HelpTheirSpaceEffect
<1>2. /\ storage' = storage
      /\ control' = control
      /\ generation' = generation
      /\ rd' = rd
      /\ held' = held
      /\ slots' = slots
  BY <1>1, HelpTheirSpaceEffect
<1>3. /\ OnlyWr(t)
      /\ wr'[t].odebt = wr[t].odebt
      /\ wr'[t].old = wr[t].old
      /\ wr'[t].node = wr[t].node
      /\ wr'[t].dst = wr[t].dst
      /\ wr'[t].pc = "fill"
      /\ wr'[t].observed = wr[t].observed
  BY <1>1, HelpTheirSpaceEffect DEF OnlyRd, OnlyWr, WrHelp, WrTo
<1>4. \A x \in SlotIds : slots'[x] = slots[x] \/ slots'[x] = NONE
  BY <1>2
<1>5. WriteDebt(t)
  BY <1>3, WriteDebtKept
<1>6. GuardDebt(t)
  BY <1>2, GuardsKept
<1>7. KeepsPaying(t) /\ KeepsHelping(t)
  <2>1. KeepsPaying(t)
    BY <1>1, <1>3, HelpGoesOn DEF PayAllPc
  <2>2. KeepsHelping(t)
    BY <1>1, <1>3, HelpsOn DEF PayAllPc, Unhelped
  <2> QED BY <2>1, <2>2
<1>8. Removes(t)
  BY <1>2, StoragesKept
<1> QED BY <1>2, <1>3, <1>4, <1>5, <1>6, <1>7, <1>8, WriteStepMemory

(* The envelope is filled. *)
LEMMA HelpFillMemory ==
  ASSUME Control, Memory, NEW t \in Threads, HelpFill(t)
  PROVE  Memory'
<1>1. Types /\ wr[t].pc = "fill"
  BY Own, HelpFillEffect
<1>2. /\ storage' = storage
      /\ control' = control
      /\ generation' = generation
      /\ rd' = rd
      /\ held' = held
      /\ slots' = slots
  BY <1>1, HelpFillEffect
<1>3. /\ OnlyWr(t)
      /\ wr'[t].odebt = wr[t].odebt
      /\ wr'[t].old = wr[t].old
      /\ wr'[t].node = wr[t].node
      /\ wr'[t].dst = wr[t].dst
      /\ wr'[t].pc = "help_cas"
      /\ wr'[t].observed = wr[t].observed
  BY <1>1, HelpFillEffect DEF OnlyRd, OnlyWr, WrGo, WrCas, WrTo
<1>4. \A x \in SlotIds : slots'[x] = slots[x] \/ slots'[x] = NONE
  BY <1>2
<1>5. WriteDebt(t)
  BY <1>3, WriteDebtKept
<1>6. GuardDebt(t)
  BY <1>2, GuardsKept
<1>7. KeepsPaying(t) /\ KeepsHelping(t)
  <2>1. KeepsPaying(t)
    BY <1>1, <1>3, HelpGoesOn DEF PayAllPc
  <2>2. KeepsHelping(t)
    BY <1>1, <1>3, HelpsOn DEF PayAllPc, Unhelped
  <2> QED BY <2>1, <2>2
<1>8. Removes(t)
  BY <1>2, StoragesKept
<1> QED BY <1>2, <1>3, <1>4, <1>5, <1>6, <1>7, <1>8, WriteStepMemory

(* The reader's envelope is the writer's. *)
LEMMA HelpSwitchMemory ==
  ASSUME Control, Memory, NEW t \in Threads, HelpSwitch(t)
  PROVE  Memory'
<1>1. Types /\ wr[t].pc = "switch"
  BY Own, HelpSwitchEffect
<1>2. /\ storage' = storage
      /\ control' = control
      /\ generation' = generation
      /\ rd' = rd
      /\ held' = held
      /\ slots' = slots
  BY <1>1, HelpSwitchEffect
<1>3. /\ OnlyWr(t)
      /\ wr'[t].odebt = wr[t].odebt
      /\ wr'[t].old = wr[t].old
      /\ wr'[t].node = wr[t].node
      /\ wr'[t].dst = wr[t].dst
      /\ wr'[t].pc = "pay"
      /\ wr'[t].k = 1
  BY <1>1, HelpSwitchEffect DEF OnlyRd, OnlyWr, WrHelped, WrTo
<1>4. \A x \in SlotIds : slots'[x] = slots[x] \/ slots'[x] = NONE
  BY <1>2
<1>5. WriteDebt(t)
  BY <1>3, WriteDebtKept
<1>6. GuardDebt(t)
  BY <1>2, GuardsKept
<1>7. KeepsPaying(t) /\ KeepsHelping(t)
  <2>1. KeepsPaying(t)
    BY <1>1, <1>3, HelpGoesOn DEF PayAllPc
  <2>2. KeepsHelping(t)
    BY <1>1, <1>3, HelpsOn DEF PayAllPc, Unhelped
  <2> QED BY <2>1, <2>2
<1>8. Removes(t)
  BY <1>2, StoragesKept
<1> QED BY <1>2, <1>3, <1>4, <1>5, <1>6, <1>7, <1>8, WriteStepMemory

(* The replacement is dropped. *)
LEMMA HelpDropMemory ==
  ASSUME Control, Memory, NEW t \in Threads, HelpDrop(t)
  PROVE  Memory'
<1>1. Types /\ wr[t].pc = "help_drop"
  BY Own, HelpDropEffect
<1>2. /\ storage' = storage
      /\ control' = control
      /\ generation' = generation
      /\ rd' = rd
      /\ held' = held
      /\ slots' = slots
  BY <1>1, HelpDropEffect
<1>3. /\ OnlyWr(t)
      /\ wr'[t].odebt = wr[t].odebt
      /\ wr'[t].old = wr[t].old
      /\ wr'[t].node = wr[t].node
      /\ wr'[t].dst = wr[t].dst
      /\ (wr'[t].pc = "help_addr" \/ (wr'[t].pc = "pay" /\ wr'[t].k = 1))
  BY <1>1, HelpDropEffect DEF OnlyRd, OnlyWr, WrHelp, WrTo, WrHelped
<1>4. \A x \in SlotIds : slots'[x] = slots[x] \/ slots'[x] = NONE
  BY <1>2
<1>5. WriteDebt(t)
  BY <1>3, WriteDebtKept
<1>6. GuardDebt(t)
  BY <1>2, GuardsKept
<1>7. KeepsPaying(t) /\ KeepsHelping(t)
  <2>1. KeepsPaying(t)
    BY <1>1, <1>3, HelpGoesOn DEF PayAllPc
  <2>2. KeepsHelping(t)
    BY <1>1, <1>3, HelpsOn DEF PayAllPc, Unhelped
  <2> QED BY <2>1, <2>2
<1>8. Removes(t)
  BY <1>2, StoragesKept
<1> QED BY <1>2, <1>3, <1>4, <1>5, <1>6, <1>7, <1>8, WriteStepMemory

(* The control word is read again. *)
LEMMA HelpRecheckMemory ==
  ASSUME Control, Memory, NEW t \in Threads, HelpRecheck(t)
  PROVE  Memory'
<1>1. Types /\ wr[t].pc = "help_recheck"
  BY Own, HelpRecheckEffect
<1>2. /\ storage' = storage
      /\ control' = control
      /\ generation' = generation
      /\ rd' = rd
      /\ held' = held
      /\ slots' = slots
  BY <1>1, HelpRecheckEffect
<1>3. /\ OnlyWr(t)
      /\ wr'[t].odebt = wr[t].odebt
      /\ wr'[t].old = wr[t].old
      /\ wr'[t].node = wr[t].node
      /\ wr'[t].dst = wr[t].dst
      /\ (wr'[t].pc = "help_addr" \/ (wr'[t].pc = "pay" /\ wr'[t].k = 1))
  BY <1>1, HelpRecheckEffect DEF OnlyRd, OnlyWr, WrHelp, WrTo, WrHelped
<1>4. \A x \in SlotIds : slots'[x] = slots[x] \/ slots'[x] = NONE
  BY <1>2
<1>5. WriteDebt(t)
  BY <1>3, WriteDebtKept
<1>6. GuardDebt(t)
  BY <1>2, GuardsKept
<1>7. KeepsPaying(t) /\ KeepsHelping(t)
  <2>1. KeepsPaying(t)
    BY <1>1, <1>3, HelpGoesOn DEF PayAllPc
  <2>2. KeepsHelping(t)
    BY <1>1, <1>3, HelpsOn DEF PayAllPc, Unhelped
  <2> QED BY <2>1, <2>2
<1>8. Removes(t)
  BY <1>2, StoragesKept
<1> QED BY <1>2, <1>3, <1>4, <1>5, <1>6, <1>7, <1>8, WriteStepMemory

(* The control word is read. *)
LEMMA HelpMemory ==
  ASSUME Control, Memory, NEW t \in Threads, Help(t)
  PROVE  Memory'
<1>1. Types /\ wr[t].pc = "help"
  BY Own, HelpEffect
<1>2. /\ storage' = storage
      /\ control' = control
      /\ generation' = generation
      /\ rd' = rd
      /\ held' = held
      /\ slots' = slots
  BY <1>1, HelpEffect
<1>3. /\ OnlyWr(t)
      /\ wr'[t].odebt = wr[t].odebt
      /\ wr'[t].old = wr[t].old
      /\ wr'[t].node = wr[t].node
      /\ wr'[t].dst = wr[t].dst
      /\ (wr'[t].pc = "help_addr" \/ (wr'[t].pc = "pay" /\ wr'[t].k = 1))
      /\ (IsGen(control[wr[t].node]) => wr'[t].pc = "help_addr" /\ wr'[t].observed = control[wr[t].node])
  BY <1>1, HelpEffect DEF OnlyRd, OnlyWr, WrHelp, WrTo, WrHelped
<1>4. \A x \in SlotIds : slots'[x] = slots[x] \/ slots'[x] = NONE
  BY <1>2
<1>5. WriteDebt(t)
  BY <1>3, WriteDebtKept
<1>6. GuardDebt(t)
  BY <1>2, GuardsKept
<1>7. KeepsPaying(t) /\ KeepsHelping(t)
  <2>1. KeepsPaying(t)
    BY <1>1, <1>3, HelpGoesOn DEF PayAllPc
  <2>2. KeepsHelping(t)
    <3>1. \A v \in Threads :
            Unhelped(rd[v], control[v], generation[v]) => IsGen(control[v])
      BY Words DEF Unhelped
    <3> QED BY <1>1, <1>3, <3>1, HelpsOn DEF PayAllPc
  <2> QED BY <2>1, <2>2
<1>8. Removes(t)
  BY <1>2, StoragesKept
<1> QED BY <1>2, <1>3, <1>4, <1>5, <1>6, <1>7, <1>8, WriteStepMemory

(* The address is compared. *)
LEMMA HelpCheckAddrMemory ==
  ASSUME Control, Memory, NEW t \in Threads, HelpCheckAddr(t)
  PROVE  Memory'
<1>1. Types /\ wr[t].pc = "help_addr"
  BY Own, HelpCheckAddrEffect
<1>2. /\ storage' = storage
      /\ control' = control
      /\ generation' = generation
      /\ held' = held
      /\ slots' = slots
  BY <1>1, HelpCheckAddrEffect
<1>3. /\ OnlyRd(t)
      /\ OnlyWr(t)
      /\ wr'[t].odebt = wr[t].odebt
      /\ wr'[t].old = wr[t].old
      /\ wr'[t].node = wr[t].node
      /\ wr'[t].dst = wr[t].dst
      /\ wr'[t].observed = wr[t].observed
      /\ wr'[t].pc \in {"replacement", "help_recheck"}
      /\ (active_addr[wr[t].node] = wr[t].dst => wr'[t].pc = "replacement")
      /\ (rd'[t] = rd[t] \/ rd'[t].pc \in {"scan", "get_debt"})
  BY <1>1, HelpCheckAddrEffect DEF OnlyRd, OnlyWr, LoadBegins, RdTo, WrGo,
     WrCas, WrTo
<1>5. WriteDebt(t)
  BY <1>3, WriteDebtKept
<1>6. GuardDebt(t)
  BY <1>2, GuardsKept
<1>7. KeepsPaying(t) /\ KeepsHelping(t)
  <2>1. KeepsPaying(t)
    BY <1>1, <1>3, HelpGoesOn DEF PayAllPc
  <2>2. KeepsHelping(t)
    <3>1. \A v \in Threads :
            Unhelped(rd[v], control[v], generation[v]) => active_addr[v] = rd[v].src
      BY Own DEF FollowOk, Unhelped, Announced
    <3> QED BY <1>1, <1>3, <3>1, HelpsOn DEF PayAllPc
  <2> QED BY <2>1, <2>2
<1>8. rd[t].pc = "idle" /\ LoadDebt(t)
  <2>1. WriteOk(wr[t], rd[t])
    BY Own
  <2>2. rd[t].pc = "idle"
    BY <1>1, <2>1 DEF WriteOk
  <2> QED BY <2>2 DEF LoadDebt, OwingPc, UnconfirmedPc
<1> QED BY <1>1, <1>2, <1>3, <1>5, <1>6, <1>7, <1>8, FramesMemory
          DEF UnconfirmedPc

(* The replacement is loaded. *)
LEMMA HelpReplacementMemory ==
  ASSUME Control, Memory, NEW t \in Threads, HelpReplacement(t)
  PROVE  Memory'
<1>1. Types /\ wr[t].pc = "replacement" /\ rd[t].pc = "return"
  BY Own, HelpReplacementEffect
<1>2. /\ storage' = storage
      /\ control' = control
      /\ generation' = generation
      /\ held' = held
      /\ slots' = slots
  BY <1>1, HelpReplacementEffect
<1>3. /\ OnlyRd(t)
      /\ OnlyWr(t)
      /\ wr'[t].odebt = wr[t].odebt
      /\ wr'[t].old = wr[t].old
      /\ wr'[t].node = wr[t].node
      /\ wr'[t].dst = wr[t].dst
      /\ wr'[t].pc = "their_space"
      /\ wr'[t].observed = wr[t].observed
      /\ rd'[t].pc = "idle"
  BY <1>1, HelpReplacementEffect DEF OnlyRd, OnlyWr, RdIdle, RdTo, WrHelp, WrTo
<1>5. WriteDebt(t)
  BY <1>3, WriteDebtKept
<1>6. GuardDebt(t)
  BY <1>2, GuardsKept
<1>7. KeepsPaying(t) /\ KeepsHelping(t)
  <2>1. KeepsPaying(t)
    BY <1>1, <1>3, HelpGoesOn DEF PayAllPc
  <2>2. KeepsHelping(t)
    BY <1>1, <1>3, HelpsOn DEF PayAllPc, Unhelped
  <2> QED BY <2>1, <2>2
<1>8. LoadDebt(t)
  <2>1. WriteOk(wr[t], rd[t]) /\ ~(rd[t].full /\ rd[t].debt # NoDebt)
    BY <1>1, Own, HelpReplacementEffect
  <2>2. rd[t].debt = NoDebt
    BY <1>1, <2>1 DEF WriteOk
  <2> QED BY <2>2, Slots DEF LoadDebt
<1> QED BY <1>1, <1>2, <1>3, <1>5, <1>6, <1>7, <1>8, FramesMemory
          DEF UnconfirmedPc

(* The loop of compare_and_swap turns. *)
LEMMA CasRetryMemory ==
  ASSUME Control, Memory, NEW t \in Threads, CasRetry(t)
  PROVE  Memory'
<1>1. Types /\ wr[t].pc = "cas_retry"
  BY Own, CasRetryEffect
<1>2. /\ storage' = storage
      /\ control' = control
      /\ generation' = generation
      /\ held' = held
      /\ slots' = slots
  BY <1>1, CasRetryEffect
<1>3. OnlyRd(t) /\ OnlyWr(t) /\ rd'[t].pc \in {"scan", "get_debt"}
  BY <1>1, CasRetryEffect DEF OnlyRd, OnlyWr, LoadBegins, RdTo, WrCas, WrTo
<1>5. WriteDebt(t)
  <2>1. WriteOk(wr[t], rd[t])
    BY Own
  <2>2. wr[t].odebt = NoDebt
    BY <1>1, <2>1 DEF WriteOk, CasPc
  <2> QED BY <2>2, Constants, Slots DEF WriteDebt
<1>6. GuardDebt(t)
  BY <1>2, GuardsKept
<1>7. KeepsPaying(t) /\ KeepsHelping(t)
  BY <1>1, NotPaying DEF PayAllPc
<1>8. rd[t].pc = "idle" /\ LoadDebt(t)
  <2>1. WriteOk(wr[t], rd[t])
    BY Own
  <2>2. rd[t].pc = "idle"
    BY <1>1, <2>1 DEF WriteOk
  <2> QED BY <2>2 DEF LoadDebt, OwingPc, UnconfirmedPc
<1> QED BY <1>1, <1>2, <1>3, <1>5, <1>6, <1>7, <1>8, FramesMemory
          DEF UnconfirmedPc

(* The load of compare_and_swap has returned. *)
LEMMA CasLoadedMemory ==
  ASSUME Control, Memory, NEW t \in Threads, CasLoaded(t)
  PROVE  Memory'
<1>1. Types /\ wr[t].pc = "cas_load" /\ rd[t].pc = "return"
  BY Own, CasLoadedEffect
<1>2. /\ storage' = storage
      /\ control' = control
      /\ generation' = generation
      /\ slots' = slots
  BY <1>1, CasLoadedEffect
<1>3. OnlyRd(t) /\ OnlyWr(t) /\ rd'[t].pc = "idle"
  BY <1>1, CasLoadedEffect DEF OnlyRd, OnlyWr, RdIdle, RdTo, WrCas, WrTo, WrGo
<1>5. WriteDebt(t)
  <2>1. WriteOk(wr[t], rd[t])
    BY Own
  <2>2. wr[t].odebt = NoDebt
    BY <1>1, <2>1 DEF WriteOk, CasPc
  <2> QED BY <2>2, Constants, Slots DEF WriteDebt
<1>6. GuardDebt(t)
  <2>1. [ptr |-> rd[t].ptr, debt |-> rd[t].debt] \in Handles
    BY <1>1, FrameTypes, Handle
  <2> QED BY <1>1, <2>1, CasLoadedEffect, GuardsKept, GuardsGiven
<1>7. KeepsPaying(t) /\ KeepsHelping(t)
  BY <1>1, NotPaying DEF PayAllPc
<1>8. LoadDebt(t)
  <2>1. [ptr |-> rd[t].ptr, debt |-> rd[t].debt] \in Handles
    BY <1>1, FrameTypes, Handle
  <2>2. CASE Give([ptr |-> rd[t].ptr, debt |-> rd[t].debt])
    BY <1>1, <2>1, <2>2, GuardsGiven DEF LoadDebt, OwesGuard
  <2>3. CASE WrCas(t, "cas", rd[t].ptr, rd[t].debt)
    <3>1. OwesWrite(wr'[t], rd[t].debt, rd[t].ptr)
      BY <2>3 DEF WrCas, WrTo, OwesWrite
    <3> QED BY <3>1 DEF LoadDebt
  <2> QED BY <1>1, <2>2, <2>3, CasLoadedEffect
<1> QED BY <1>1, <1>2, <1>3, <1>5, <1>6, <1>7, <1>8, FramesMemory
          DEF UnconfirmedPc

(* val is released. *)
LEMMA ReleaseValMemory ==
  ASSUME Control, Memory, NEW t \in Threads, ReleaseVal(t)
  PROVE  Memory'
<1>1. Types /\ wr[t].pc = "release"
  BY Own, ReleaseValEffect
<1>2. /\ storage' = storage
      /\ control' = control
      /\ generation' = generation
      /\ rd' = rd
      /\ slots' = slots
  BY <1>1, ReleaseValEffect
<1>3. OnlyWr(t)
  BY <1>1, ReleaseValEffect DEF OnlyRd, OnlyWr, WrGo, WrCas, WrTo, WrIdle,
     WrBegins
<1>4. \A x \in SlotIds : slots'[x] = slots[x] \/ slots'[x] = NONE
  BY <1>2
<1>5. WriteDebt(t)
  <2>1. WriteOk(wr[t], rd[t])
    BY Own
  <2>2. CASE wr[t].op \in {"swap", "unwrap_storage"}
    <3>1. wr[t].odebt = NoDebt
      BY <2>1, <2>2 DEF WriteOk
    <3> QED BY <3>1, Slots DEF WriteDebt
  <2>3. CASE WrGo(t, "drop_old")
    BY <2>3, WriteDebtKept DEF WrGo, WrCas, WrTo
  <2> QED BY <1>1, <2>2, <2>3, ReleaseValEffect
<1>6. GuardDebt(t)
  <2>1. Owned(wr[t].old) \in Handles
    BY <1>1, FrameTypes, Handle
  <2> QED BY <1>1, <2>1, ReleaseValEffect, GuardsKept, GuardsGiven
<1>7. KeepsPaying(t) /\ KeepsHelping(t)
  BY <1>1, NotPaying DEF PayAllPc
<1>8. Removes(t)
  BY <1>2, StoragesKept
<1> QED BY <1>2, <1>3, <1>4, <1>5, <1>6, <1>7, <1>8, WriteStepMemory

(* The reference of the storage is released. *)
LEMMA DropOldMemory ==
  ASSUME Control, Memory, NEW t \in Threads, DropOld(t)
  PROVE  Memory'
<1>1. Types /\ wr[t].pc = "drop_old"
  BY Own, DropOldEffect
<1>2. /\ storage' = storage
      /\ control' = control
      /\ generation' = generation
      /\ rd' = rd
      /\ slots' = slots
  BY <1>1, DropOldEffect
<1>3. OnlyWr(t)
  BY <1>1, DropOldEffect DEF OnlyRd, OnlyWr, WrIdle, WrBegins, WrTo
<1>4. \A x \in SlotIds : slots'[x] = slots[x] \/ slots'[x] = NONE
  BY <1>2
<1>5. WriteDebt(t)
  <2>1. WriteOk(wr[t], rd[t])
    BY Own
  <2>2. CASE wr[t].op # "compare_and_swap"
    <3>1. wr[t].odebt = NoDebt
      BY <2>1, <2>2 DEF WriteOk
    <3> QED BY <3>1, Slots DEF WriteDebt
  <2>3. CASE Give([ptr |-> wr[t].old, debt |-> wr[t].odebt])
    <3>1. [ptr |-> wr[t].old, debt |-> wr[t].odebt] \in Handles
      BY <1>1, FrameTypes, Handle
    <3> QED BY <1>1, <2>3, <3>1, GuardsGiven DEF WriteDebt, OwesGuard
  <2> QED BY <1>1, <2>2, <2>3, DropOldEffect
<1>6. GuardDebt(t)
  <2>1. [ptr |-> wr[t].old, debt |-> wr[t].odebt] \in Handles
    BY <1>1, FrameTypes, Handle
  <2> QED BY <1>1, <2>1, DropOldEffect, GuardsKept, GuardsGiven
<1>7. KeepsPaying(t) /\ KeepsHelping(t)
  BY <1>1, NotPaying DEF PayAllPc
<1>8. Removes(t)
  BY <1>2, StoragesKept
<1> QED BY <1>2, <1>3, <1>4, <1>5, <1>6, <1>7, <1>8, WriteStepMemory

(* One reference ahead. *)
LEMMA PrePayMemory ==
  ASSUME Control, Memory, NEW t \in Threads, PrePay(t)
  PROVE  Memory'
<1>1. Types /\ wr[t].pc = "pre_pay"
  BY Own, PrePayEffect
<1>2. /\ storage' = storage
      /\ control' = control
      /\ generation' = generation
      /\ rd' = rd
      /\ held' = held
      /\ slots' = slots
  BY <1>1, PrePayEffect
<1>3. /\ OnlyWr(t)
      /\ wr'[t].odebt = wr[t].odebt
      /\ wr'[t].old = wr[t].old
      /\ wr'[t].pc = "help"
      /\ wr'[t].node = N
      /\ wr'[t].dst = wr[t].dst
  BY <1>1, PrePayEffect DEF OnlyRd, OnlyWr, WrSlot, WrTo
<1>4. \A x \in SlotIds : slots'[x] = slots[x] \/ slots'[x] = NONE
  BY <1>2
<1>5. WriteDebt(t)
  BY <1>3, WriteDebtKept
<1>6. GuardDebt(t)
  BY <1>2, GuardsKept
<1>7. KeepsPaying(t) /\ KeepsHelping(t)
  <2>1. \A v \in Threads : N > v \/ N = v
    BY NAssumption DEF Threads
  <2>2. \A x \in SlotIds : x[1] \in Threads
    BY DEF SlotIds
  <2>3. KeepsPaying(t)
    BY <1>3, <2>1, <2>2 DEF KeepsPaying, WillPay, PayAllPc
  <2>4. KeepsHelping(t)
    BY <1>1, <1>3, <2>1 DEF KeepsHelping, WillHelp, PayAllPc
  <2> QED BY <2>3, <2>4
<1>8. Removes(t)
  BY <1>2, StoragesKept
<1> QED BY <1>2, <1>3, <1>4, <1>5, <1>6, <1>7, <1>8, WriteStepMemory

(* pay_all has seen that a slot is not on its pointer (any more). *)
LEMMA SlotPassed ==
  ASSUME Types, NEW t \in Threads, wr[t].pc \in {"pay", "pay_inc"}, SlotDone(t),
         ASSUME NEW x \in SlotIds, slots'[x] = slots[x], wr[t].old = slots[x],
                wr[t].node = x[1], wr[t].pc = "pay"
         PROVE  wr[t].k # x[2]
  PROVE  KeepsPaying(t) /\ KeepsHelping(t)
<1>1. /\ wr[t].node \in Threads /\ wr[t].k \in 1..HELPING
      /\ wr'[t].old = wr[t].old /\ wr'[t].dst = wr[t].dst
      /\ \/ /\ wr[t].k < HELPING
            /\ wr'[t].pc = "pay" /\ wr'[t].node = wr[t].node
            /\ wr'[t].k = wr[t].k + 1
         \/ /\ wr[t].k = HELPING /\ wr[t].node > 1
            /\ wr'[t].pc = "help" /\ wr'[t].node = wr[t].node - 1
         \/ wr[t].k = HELPING /\ wr[t].node = 1
  BY FrameTypes DEF SlotDone, WrSlot, WrTo
<1>2. ASSUME NEW x \in SlotIds, slots'[x] = slots[x], wr[t].old = slots[x],
             WillPay(wr[t], x)
      PROVE  WillPay(wr'[t], x)
  <2>1. /\ x[1] \in Threads /\ x[2] \in 1..HELPING
        /\ x[1] \in Int /\ x[2] \in Int /\ x[1] >= 1 /\ x[2] <= HELPING
        /\ wr[t].k \in Int /\ wr[t].node \in Int /\ HELPING \in Int
    BY <1>1, Constants DEF SlotIds, Threads
  <2>2. wr[t].node > x[1] \/ (wr[t].node = x[1] /\ wr[t].k < x[2])
    <3>1. wr[t].node > x[1] \/ (wr[t].node = x[1] /\ wr[t].k <= x[2])
      BY <1>2, <2>1 DEF WillPay
    <3>2. wr[t].node = x[1] /\ wr[t].pc = "pay" => wr[t].k # x[2]
      BY <1>2
    <3>3. wr[t].node = x[1] /\ wr[t].pc = "pay_inc" => wr[t].k < x[2]
      BY <1>2, <2>1 DEF WillPay
    <3> QED BY <2>1, <3>1, <3>2, <3>3
  <2> QED BY <1>1, <2>1, <2>2 DEF WillPay, PayAllPc
<1>3. ASSUME NEW v \in Threads, NEW src, NEW c, WillHelp(wr[t], v, src, c)
      PROVE  WillHelp(wr'[t], v, src, c)
  <2>1. v \in Int /\ wr[t].node \in Int /\ v >= 1
    BY <1>1 DEF Threads
  <2>2. wr[t].node > v /\ wr[t].dst = src
    BY <1>3 DEF WillHelp
  <2> QED BY <1>1, <2>1, <2>2 DEF WillHelp, PayAllPc
<1>4. KeepsPaying(t)
  BY <1>1, <1>2 DEF KeepsPaying
<1>5. KeepsHelping(t)
  BY <1>1, <1>3 DEF KeepsHelping
<1> QED BY <1>4, <1>5

(* A debt is paid, or the next slot is looked at. *)
LEMMA PaySlotMemory ==
  ASSUME Control, Memory, NEW t \in Threads, PaySlot(t)
  PROVE  Memory'
<1>1. Types /\ wr[t].pc = "pay"
  BY Own, PaySlotEffect
<1>2. /\ storage' = storage
      /\ control' = control
      /\ generation' = generation
      /\ rd' = rd
      /\ held' = held
  BY <1>1, PaySlotEffect
<1>3. /\ OnlyWr(t)
      /\ wr'[t].odebt = wr[t].odebt
      /\ wr'[t].old = wr[t].old
      /\ wr'[t].dst = wr[t].dst
  BY <1>1, PaySlotEffect DEF OnlyRd, OnlyWr, SlotDone, WrSlot, WrTo, WrGo, WrCas
<1>4. \A x \in SlotIds : slots'[x] = slots[x] \/ slots'[x] = NONE
  BY <1>1, PaySlotEffect, PaidSlots
<1>5. WriteDebt(t)
  BY <1>3, WriteDebtKept
<1>6. GuardDebt(t)
  BY <1>2, GuardsKept
<1>7. KeepsPaying(t) /\ KeepsHelping(t)
  <2> DEFINE y == <<wr[t].node, wr[t].k>>
  <2>1. wr[t].old \in Ptrs /\ y \in SlotIds
    BY <1>1, FrameTypes, Slots
  <2>2. ASSUME NEW x \in SlotIds, slots'[x] = slots[x], wr[t].old = slots[x],
               wr[t].node = x[1], wr[t].k = x[2]
        PROVE  FALSE
    <3>1. x = y
      BY <2>2 DEF SlotIds
    <3>2. slots'[y] # wr[t].old
      BY <1>1, <2>1, PaySlotEffect, PaidSlots
    <3> QED BY <2>2, <3>1, <3>2
  <2>3. CASE SlotDone(t)
    BY <1>1, <2>2, <2>3, SlotPassed
  <2>4. CASE WrGo(t, "pay_inc")
    <3>1. wr'[t].pc = "pay_inc" /\ wr'[t].node = wr[t].node /\ wr'[t].k = wr[t].k
      BY <2>4 DEF WrGo, WrCas, WrTo
    <3>2. KeepsHelping(t)
      BY <1>1, <1>3, <3>1 DEF KeepsHelping, WillHelp, PayAllPc
    <3>3. ASSUME NEW x \in SlotIds, slots'[x] = slots[x], wr[t].old = slots[x],
                 WillPay(wr[t], x)
          PROVE  WillPay(wr'[t], x)
      <4>1. wr[t].node > x[1] \/ (wr[t].node = x[1] /\ wr[t].k <= x[2])
        BY <1>1, <3>3 DEF WillPay
      <4>2. wr[t].node = x[1] => wr[t].k # x[2]
        BY <2>2, <3>3
      <4>3. x[2] \in Int /\ wr[t].k \in Int
        BY <1>1, FrameTypes DEF SlotIds
      <4> QED BY <3>1, <4>1, <4>2, <4>3 DEF WillPay, PayAllPc
    <3>4. KeepsPaying(t)
      BY <1>3, <3>3 DEF KeepsPaying
    <3> QED BY <3>2, <3>4
  <2> QED BY <1>1, <2>3, <2>4, PaySlotEffect
<1>8. Removes(t)
  BY <1>2, StoragesKept
<1> QED BY <1>2, <1>3, <1>4, <1>5, <1>6, <1>7, <1>8, WriteStepMemory

(* A reference for the next debt. *)
LEMMA PayIncMemory ==
  ASSUME Control, Memory, NEW t \in Threads, PayInc(t)
  PROVE  Memory'
<1>1. Types /\ wr[t].pc = "pay_inc"
  BY Own, PayIncEffect
<1>2. /\ storage' = storage
      /\ control' = control
      /\ generation' = generation
      /\ rd' = rd
      /\ held' = held
      /\ slots' = slots
  BY <1>1, PayIncEffect
<1>3. OnlyWr(t) /\ wr'[t].odebt = wr[t].odebt /\ wr'[t].old = wr[t].old
  BY <1>1, PayIncEffect DEF OnlyRd, OnlyWr, SlotDone, WrSlot, WrTo
<1>4. \A x \in SlotIds : slots'[x] = slots[x] \/ slots'[x] = NONE
  BY <1>2
<1>5. WriteDebt(t)
  BY <1>3, WriteDebtKept
<1>6. GuardDebt(t)
  BY <1>2, GuardsKept
<1>7. KeepsPaying(t) /\ KeepsHelping(t)
  BY <1>1, PayIncEffect, SlotPassed
<1>8. Removes(t)
  BY <1>2, StoragesKept
<1> QED BY <1>2, <1>3, <1>4, <1>5, <1>6, <1>7, <1>8, WriteStepMemory

(* The exchange succeeds. *)
LEMMA CasExchangeMemory ==
  ASSUME Control, Memory, NEW t \in Threads, CasExchange(t)
  PROVE  Memory'
<1>1. Types /\ wr[t].pc = "cas"
  BY Own, CasExchangeEffect
<1>2. /\ control' = control
      /\ generation' = generation
      /\ rd' = rd
      /\ held' = held
      /\ slots' = slots
  BY <1>1, CasExchangeEffect
<1>3. /\ OnlyWr(t)
      /\ wr'[t].odebt = wr[t].odebt
      /\ wr'[t].old = wr[t].old
      /\ wr'[t].pc = "pre_pay"
      /\ wr'[t].dst = wr[t].dst
  BY <1>1, CasExchangeEffect DEF OnlyRd, OnlyWr, WrTo
<1>4. \A x \in SlotIds : slots'[x] = slots[x] \/ slots'[x] = NONE
  BY <1>2
<1>5. WriteDebt(t)
  BY <1>3, WriteDebtKept
<1>6. GuardDebt(t)
  BY <1>2, GuardsKept
<1>7. KeepsPaying(t) /\ KeepsHelping(t)
  BY <1>1, NotPaying DEF PayAllPc
<1>9. ASSUME NEW s \in Storages, storage'[s] # storage[s]
      PROVE  s = wr[t].dst /\ wr[t].old = storage[s]
  <2>1. WriteOk(wr[t], rd[t])
    BY Own
  <2>2. Publish(wr[t].dst, wr[t].new) /\ storage[wr[t].dst] = wr[t].current
    BY <1>1, CasExchangeEffect
  <2>3. wr[t].old = wr[t].current
    BY <1>1, <2>1 DEF WriteOk
  <2> QED BY <1>1, <1>9, <2>2, <2>3 DEF Publish, Types
<1>8. Removes(t)
  BY <1>3, <1>9 DEF Removes
<1> QED BY <1>2, <1>3, <1>4, <1>5, <1>6, <1>7, <1>8, WriteStepMemory

(* A guard goes, and with it the debt; or the load of t takes that over. *)
LEMMA GuardTaken ==
  ASSUME Types, NEW t \in Threads, NEW h \in Handles, Take(h),
         \/ h.debt \notin SlotIds \/ slots'[h.debt] # h.ptr
         \/ OwesLoad(rd'[t], h.debt, h.ptr)
  PROVE  GuardDebt(t)
<1> SUFFICES ASSUME NEW g \in Handles, g # h, held[g] > 0
             PROVE  held'[g] > 0
  BY DEF GuardDebt
<1> QED BY DEF Take, Types

(* The value for a storage was an Arc, not a guard with a debt. *)
LEMMA NewValueGuards ==
  ASSUME Types, NEW t \in Threads, NEW s \in Storages, NEW v, NewValue(s, v)
  PROVE  GuardDebt(t)
<1>1. v \in Ptrs
  BY PoolAssumption DEF NewValue
<1>2. CASE held' = held
  BY <1>2, GuardsKept
<1>3. CASE Take(Owned(v))
  <2>1. Owned(v) \in Handles /\ Owned(v).debt = NoDebt
    BY <1>1, Handle, Constants DEF Owned
  <2> QED BY <1>3, <2>1, GuardTaken, Slots
<1> QED BY <1>2, <1>3 DEF NewValue

(* A write begins with the exchange. *)
LEMMA SwapMemory ==
  ASSUME Control, Memory, NEW t \in Threads, NEW s \in Storages,
         NEW op \in {"swap", "store"}, Swap(t, s, op),
         rd[t].pc = "idle", wr[t].pc = "idle"
  PROVE  Memory'
<1>1. Types /\ wr[t].pc = "idle"
  BY Own
<1>2. /\ control' = control /\ generation' = generation /\ rd' = rd
      /\ slots' = slots
  BY <1>1, SwapEffect
<1>3. /\ OnlyWr(t) /\ wr'[t].pc = "pre_pay" /\ wr'[t].old = storage[s]
      /\ wr'[t].dst = s
  BY <1>1, SwapEffect DEF OnlyWr, WrBegins, WrTo
<1>5. WriteDebt(t)
  <2>1. WriteOk(wr[t], rd[t])
    BY Own
  <2>2. wr[t].odebt = NoDebt
    BY <1>1, <2>1 DEF WriteOk
  <2> QED BY <2>2, Slots DEF WriteDebt
<1>6. GuardDebt(t)
  BY <1>1, SwapEffect, NewValueGuards
<1>7. KeepsPaying(t) /\ KeepsHelping(t)
  BY <1>1, NotPaying DEF PayAllPc
<1>8. Removes(t)
  <2>1. \A r \in Storages : storage'[r] # storage[r] => r = s
    BY <1>1, SwapEffect DEF Publish, Types
  <2> QED BY <1>3, <2>1 DEF Removes
<1> QED BY <1>2, <1>3, <1>5, <1>6, <1>7, <1>8, WriteStepMemory

(* A storage ends. *)
LEMMA EndStorageMemory ==
  ASSUME Control, Memory, NEW t \in Threads, NEW s \in Storages,
         NEW op \in {"drop_storage", "unwrap_storage"}, EndStorage(t, s, op),
         rd[t].pc = "idle", wr[t].pc = "idle"
  PROVE  Memory'
<1>1. Types /\ wr[t].pc = "idle"
  BY Own
<1>2. /\ control' = control /\ generation' = generation /\ rd' = rd
      /\ slots' = slots
  BY <1>1, EndStorageEffect
<1>3. /\ OnlyWr(t) /\ wr'[t].pc = "pre_pay" /\ wr'[t].old = storage[s]
      /\ wr'[t].dst = s
  BY <1>1, EndStorageEffect DEF OnlyWr, WrBegins, WrTo
<1>5. WriteDebt(t)
  <2>1. WriteOk(wr[t], rd[t])
    BY Own
  <2>2. wr[t].odebt = NoDebt
    BY <1>1, <2>1 DEF WriteOk
  <2> QED BY <2>2, Slots DEF WriteDebt
<1>6. GuardDebt(t)
  BY <1>1, EndStorageEffect, GuardsKept
<1>7. KeepsPaying(t) /\ KeepsHelping(t)
  BY <1>1, NotPaying DEF PayAllPc
<1>8. Removes(t)
  <2>1. \A r \in Storages : storage'[r] # storage[r] => r = s
    BY <1>1, EndStorageEffect DEF Publish, Types
  <2> QED BY <1>3, <2>1 DEF Removes
<1> QED BY <1>2, <1>3, <1>5, <1>6, <1>7, <1>8, WriteStepMemory

(* compare_and_swap begins. *)
LEMMA CompareAndSwapMemory ==
  ASSUME Control, Memory, NEW t \in Threads, NEW s \in Storages,
         NEW p \in Pool[s], CompareAndSwap(t, s, p),
         rd[t].pc = "idle", wr[t].pc = "idle"
  PROVE  Memory'
<1>1. Types /\ wr[t].pc = "idle" /\ rd[t].pc = "idle"
  BY Own
<1>2. /\ storage' = storage /\ control' = control /\ generation' = generation
      /\ slots' = slots
  BY <1>1, CompareAndSwapEffect
<1>3. OnlyRd(t) /\ OnlyWr(t) /\ rd'[t].pc \in {"scan", "get_debt"}
  BY <1>1, CompareAndSwapEffect DEF OnlyRd, OnlyWr, LoadBegins, RdTo, WrBegins,
     WrTo
<1>5. WriteDebt(t)
  <2>1. WriteOk(wr[t], rd[t])
    BY Own
  <2>2. wr[t].odebt = NoDebt
    BY <1>1, <2>1 DEF WriteOk
  <2> QED BY <2>2, Slots DEF WriteDebt
<1>6. GuardDebt(t)
  BY <1>1, CompareAndSwapEffect, NewValueGuards
<1>7. KeepsPaying(t) /\ KeepsHelping(t)
  BY <1>1, NotPaying DEF PayAllPc
<1>8. LoadDebt(t)
  BY <1>1 DEF LoadDebt, OwingPc, UnconfirmedPc
<1> QED BY <1>1, <1>2, <1>3, <1>5, <1>6, <1>7, <1>8, FramesMemory
        DEF UnconfirmedPc

(* The hand-over, if the control word has not changed. *)
LEMMA HelpCasMemory ==
  ASSUME Control, Memory, NEW t \in Threads, HelpCas(t)
  PROVE  Memory'
<1>1. Types /\ wr[t].pc = "help_cas"
  BY Own, HelpCasEffect
<1>2. /\ storage' = storage /\ generation' = generation /\ rd' = rd
      /\ held' = held /\ slots' = slots
  BY <1>1, HelpCasEffect
<1>3. /\ OnlyWr(t) /\ OnlyRd(t) /\ wr'[t].odebt = wr[t].odebt
      /\ wr'[t].old = wr[t].old /\ wr'[t].node = wr[t].node
      /\ wr'[t].pc \in {"switch", "help_drop"}
  BY <1>1, <1>2, HelpCasEffect DEF OnlyRd, OnlyWr, WrGo, WrCas, WrTo, WrHelp
<1>4. IsGen(wr[t].observed) /\ wr[t].node # t /\ wr[t].node \in Threads
  <2>1. HelpOk(t, wr[t])
    BY Own
  <2> QED BY <1>1, <2>1, FrameTypes DEF HelpOk, HelpPc
<1>5. \A v \in Threads :
        \/ control'[v] = control[v]
        \/ v = wr[t].node /\ ~IsGen(control'[v]) /\ control[v] = wr[t].observed
  <2>1. control \in [Threads -> ControlWords]
    BY <1>1 DEF Types
  <2>2. CASE control' = control
    BY <2>2
  <2>3. CASE /\ control[wr[t].node] = wr[t].observed
             /\ control' = [control EXCEPT ![wr[t].node] = Replacement(space_offer[t])]
    BY <2>1, <2>3, Words
  <2> QED BY <1>1, <2>2, <2>3, HelpCasEffect
<1>6. KeepsWords(t) /\ control'[t] = control[t]
  BY <1>2, <1>4, <1>5 DEF KeepsWords
<1>7. NewDebts(t) /\ KeepsOwn(t) /\ Confirms(t) /\ Removes(t)
  BY <1>2, NoNewDebts, LoadKept, StoragesKept
<1>8. KeepsCandidate(t) /\ LoadDebt(t)
  BY <1>2, <1>6 DEF KeepsCandidate, LoadDebt, OwesLoad
<1>9. KeepsDebts(t)
  BY <1>1, <1>2, <1>3, <1>8, DebtsKept, WriteDebtKept, GuardsKept
<1>10. KeepsPaying(t)
  BY <1>1, <1>3, HelpGoesOn DEF PayAllPc
<1>11. ASSUME NEW v \in Threads, v = wr[t].node, control'[v] = control[v],
              wr[t].observed = control[v]
       PROVE  FALSE
  BY <1>1, <1>4, <1>11, HelpCasEffect, Words DEF Types
<1>12. KeepsHelping(t)
  <2> SUFFICES ASSUME NEW v \in Threads, control'[v] = control[v],
                      WillHelp(wr[t], v, rd[v].src, control[v])
               PROVE  WillHelp(wr'[t], v, rd[v].src, control[v])
    BY <1>3 DEF KeepsHelping
  <2>1. wr[t].node > v
    BY <1>1, <1>11 DEF WillHelp
  <2>2. wr'[t].dst = wr[t].dst
    BY <1>1, HelpCasEffect DEF WrGo, WrCas, WrTo, WrHelp
  <2> QED BY <1>3, <2>1, <2>2 DEF WillHelp, PayAllPc
<1> QED BY <1>3, <1>6, <1>7, <1>8, <1>9, <1>10, <1>12, MemoryStep

(* The caller has the guard. *)
LEMMA ReturnToCallerMemory ==
  ASSUME Control, Memory, NEW t \in Threads, ReturnToCaller(t)
  PROVE  Memory'
<1>1. Types /\ rd[t].pc = "return"
  BY Own, ReturnToCallerEffect
<1>2. /\ storage' = storage /\ control' = control /\ generation' = generation
      /\ wr' = wr /\ slots' = slots
  BY <1>1, ReturnToCallerEffect
<1>3. OnlyRd(t) /\ rd'[t].pc = "idle"
  BY <1>1, ReturnToCallerEffect DEF OnlyRd, RdIdle, RdTo
<1>4. [ptr |-> rd[t].ptr, debt |-> rd[t].debt] \in Handles
  BY <1>1, FrameTypes, Handle
<1>5. GuardDebt(t) /\ OwesGuard(held', rd[t].debt, rd[t].ptr)
  BY <1>1, <1>4, ReturnToCallerEffect, GuardsGiven DEF OwesGuard
<1>6. LoadDebt(t)
  BY <1>5 DEF LoadDebt
<1>7. KeepsOwn(t) /\ Confirms(t) /\ KeepsCandidate(t)
  BY <1>1, <1>3, LoadSettled DEF UnconfirmedPc
<1> QED BY <1>2, <1>3, <1>5, <1>6, <1>7, WordsKept, LoadStepMemory

(* A guard is turned into an Arc. *)
LEMMA IntoInnerMemory ==
  ASSUME Control, Memory, NEW t \in Threads, NEW h \in Handles, held[h] > 0,
         IntoInner(t, h),
         rd[t].pc = "idle", wr[t].pc = "idle"
  PROVE  Memory'
<1>1. Types /\ rd[t].pc = "idle"
  BY Own
<1>2. /\ storage' = storage /\ control' = control /\ generation' = generation
      /\ wr' = wr /\ slots' = slots
  BY <1>1, IntoInnerEffect
<1>3. /\ OnlyRd(t) /\ rd'[t].pc = "inc" /\ rd'[t].ptr = h.ptr
      /\ rd'[t].debt = h.debt
  BY <1>1, IntoInnerEffect DEF OnlyRd, RdTo
<1>5. GuardDebt(t)
  BY <1>1, <1>3, IntoInnerEffect, GuardTaken DEF OwesLoad, OwingPc
<1>6. LoadDebt(t)
  BY <1>1 DEF LoadDebt, OwingPc, UnconfirmedPc
<1>7. KeepsOwn(t) /\ Confirms(t) /\ KeepsCandidate(t)
  BY <1>1, <1>3, LoadSettled DEF UnconfirmedPc
<1> QED BY <1>2, <1>3, <1>5, <1>6, <1>7, WordsKept, LoadStepMemory

(* A guard or an Arc is dropped. *)
LEMMA DropMemory ==
  ASSUME Control, Memory, NEW t \in Threads, NEW h \in Handles, held[h] > 0,
         Drop(t, h),
         rd[t].pc = "idle", wr[t].pc = "idle"
  PROVE  Memory'
<1>1. Types /\ rd[t].pc = "idle" /\ Take(h) /\ h.ptr \in Ptrs
  BY Own, DropEffect, HandleFields
<1>2. /\ storage' = storage /\ control' = control /\ generation' = generation
      /\ wr' = wr
  BY <1>1, DropEffect
<1>3. OnlyRd(t) /\ rd'[t].pc \in {"idle", "drop_dec"}
  BY <1>1, DropEffect DEF OnlyRd, RdMove, RdTo
<1>4. \A x \in SlotIds : slots'[x] = slots[x] \/ slots'[x] = NONE
  BY <1>1, DropEffect, PaidSlots
<1>5. GuardDebt(t)
  <2>1. CASE h.debt = NoDebt
    BY <1>1, <2>1, GuardTaken, Slots
  <2>2. CASE Paid(h.debt, h.ptr) \/ PaidBefore(h.debt, h.ptr)
    <3>1. h.debt \in SlotIds => slots'[h.debt] # h.ptr
      BY <1>1, <2>2, PaidSlots
    <3> QED BY <1>1, <3>1, GuardTaken
  <2> QED BY <1>1, <2>1, <2>2, DropEffect
<1>6. LoadDebt(t)
  BY <1>1 DEF LoadDebt, OwingPc, UnconfirmedPc
<1>7. KeepsOwn(t) /\ Confirms(t) /\ KeepsCandidate(t)
  BY <1>1, <1>3, LoadSettled DEF UnconfirmedPc
<1> QED BY <1>2, <1>3, <1>4, <1>5, <1>6, <1>7, WordsKept, LoadStepMemory

(* A guard or an Arc is cloned. *)
LEMMA CloneMemory ==
  ASSUME Control, Memory, NEW t \in Threads, NEW h \in Handles, Clone(t, h)
  PROVE  Memory'
<1>1. /\ storage' = storage /\ control' = control /\ generation' = generation
      /\ wr' = wr /\ rd' = rd /\ slots' = slots
  BY DEF Clone
<1>2. Types /\ Owned(h.ptr) \in Handles /\ Give(Owned(h.ptr))
  BY Own, HandleFields, Handle, Constants DEF Clone
<1>3. GuardDebt(t) /\ LoadDebt(t)
  BY <1>1, <1>2, GuardsGiven DEF LoadDebt, OwesLoad
<1>4. KeepsOwn(t) /\ Confirms(t)
  BY <1>1, LoadKept
<1>5. KeepsCandidate(t) /\ KeepsWords(t) /\ OnlyRd(t)
  BY <1>1, WordsKept DEF KeepsCandidate, OnlyRd
<1> QED BY <1>1, <1>3, <1>4, <1>5, LoadStepMemory

(* A node goes to another thread. *)
LEMMA ThreadRestartMemory ==
  ASSUME Control, Memory, NEW t \in Threads, rd[t].pc = "idle", ThreadRestart(t)
  PROVE  Memory'
<1>1. /\ storage' = storage /\ control' = control /\ held' = held
      /\ wr' = wr /\ rd' = rd /\ slots' = slots
      /\ generation' = [generation EXCEPT ![t] = 0]
  BY DEF ThreadRestart
<1>2. GuardDebt(t) /\ LoadDebt(t)
  BY <1>1, GuardsKept DEF LoadDebt, OwesLoad
<1>3. KeepsWords(t) /\ OnlyRd(t)
  BY <1>1, Own DEF KeepsWords, OnlyRd, Types
<1>4. KeepsOwn(t) /\ Confirms(t) /\ KeepsCandidate(t)
  BY <1>1, LoadSettled DEF UnconfirmedPc
<1> QED BY <1>1, <1>2, <1>3, <1>4, LoadStepMemory

(* A load fills a slot. *)
LEMMA FillMemory ==
  ASSUME Control, Memory, NEW t \in Threads, NEW x \in SlotIds, x[1] = t,
         OnlyRd(t), wr' = wr, storage' = storage, held' = held,
         control' = control, generation' = generation,
         slots' = [slots EXCEPT ![x] = rd[t].ptr], rd[t].pc \notin OwingPc,
         rd'[t].pc \in UnconfirmedPc, rd'[t].debt = x, rd'[t].ptr = rd[t].ptr,
         KeepsCandidate(t)
  PROVE  Memory'
<1>1. Types /\ slots \in [SlotIds -> Ptrs \cup {NONE}]
  BY Own DEF Types
<1>2. OnlyWr(t) /\ Removes(t) /\ KeepsWords(t) /\ KeepsPaying(t)
      /\ KeepsHelping(t)
  BY StoragesKept, WordsKept, WritesKept DEF OnlyWr
<1>3. NewDebts(t)
  BY <1>1 DEF NewDebts, Unconfirmed, OwesLoad, OwingPc
<1>4. KeepsDebts(t)
  <2>1. LoadDebt(t) /\ WriteDebt(t) /\ GuardDebt(t)
    BY GuardsKept, WriteDebtKept DEF LoadDebt
  <2> QED BY <1>1, <2>1, DebtsKept
<1>5. KeepsOwn(t) /\ Confirms(t)
  BY <1>1 DEF KeepsOwn, Confirms, Unconfirmed, OwingPc
<1> QED BY <1>2, <1>3, <1>4, <1>5, MemoryStep

(* The debt on the candidate. *)
LEMMA ConfirmSlotMemory ==
  ASSUME Control, Memory, NEW t \in Threads, ConfirmSlot(t)
  PROVE  Memory'
<1>1. Types /\ rd[t].pc = "slot" /\ <<t, HELPING>> \in SlotIds
  BY Own, ConfirmSlotEffect, Slots, Constants
<1>2. /\ storage' = storage /\ control' = control /\ generation' = generation
      /\ wr' = wr /\ held' = held
      /\ slots' = [slots EXCEPT ![<<t, HELPING>>] = rd[t].ptr]
  BY <1>1, ConfirmSlotEffect
<1>3. /\ OnlyRd(t) /\ rd'[t].pc = "confirm_control" /\ rd'[t].ptr = rd[t].ptr
      /\ rd'[t].src = rd[t].src /\ rd'[t].debt = <<t, HELPING>>
  BY <1>1, ConfirmSlotEffect DEF OnlyRd, RdMove, RdTo
<1>4. KeepsCandidate(t)
  BY <1>1, <1>2, <1>3 DEF KeepsCandidate, Unhelped
<1> QED BY <1>1, <1>2, <1>3, <1>4, FillMemory DEF OwingPc, UnconfirmedPc

(* A fast slot is taken, or the next one is tried. *)
LEMMA ScanMemory ==
  ASSUME Control, Memory, NEW t \in Threads, Scan(t)
  PROVE  Memory'
<1>1. Types /\ rd[t].pc = "scan"
  BY Own, ScanEffect
<1>2. /\ storage' = storage /\ control' = control /\ generation' = generation
      /\ wr' = wr /\ held' = held
  BY <1>1, ScanEffect
<1>3. CASE /\ slots' = slots /\ OnlyRd(t) /\ rd'[t].pc \in {"scan", "get_debt"}
  <2>1. LoadDebt(t) /\ GuardDebt(t) /\ KeepsWords(t)
    BY <1>1, <1>2, GuardsKept, WordsKept DEF LoadDebt, OwingPc, UnconfirmedPc
  <2>2. KeepsOwn(t) /\ Confirms(t) /\ KeepsCandidate(t)
    BY <1>1, <1>3, LoadSettled DEF UnconfirmedPc
  <2> QED BY <1>2, <1>3, <2>1, <2>2, LoadStepMemory
<1>4. ASSUME NEW k \in 1..DEBT_SLOT_CNT, OnlyRd(t),
             slots' = [slots EXCEPT ![<<t, k>>] = rd[t].ptr],
             rd'[t].pc = "confirm", rd'[t].debt = <<t, k>>, rd'[t].ptr = rd[t].ptr
      PROVE  Memory'
  <2>1. <<t, k>> \in SlotIds
    BY Slots
  <2>2. KeepsCandidate(t)
    BY <1>4 DEF KeepsCandidate, Unhelped
  <2> QED BY <1>1, <1>2, <1>4, <2>1, <2>2, FillMemory DEF OwingPc, UnconfirmedPc
<1> QED BY <1>1, <1>3, <1>4, ScanEffect DEF OnlyRd, RdGo, RdMove, RdTo

(* A new generation. *)
LEMMA GetDebtMemory ==
  ASSUME Control, Memory, NEW t \in Threads, GetDebt(t)
  PROVE  Memory'
<1>1. Types /\ rd[t].pc = "get_debt"
  BY Own, GetDebtEffect
<1>2. /\ storage' = storage /\ control' = control /\ wr' = wr
      /\ held' = held /\ slots' = slots
  BY <1>1, GetDebtEffect
<1>3. OnlyRd(t) /\ rd'[t].pc = "control"
  BY <1>1, GetDebtEffect DEF OnlyRd, RdGo, RdMove, RdTo
<1>4. KeepsWords(t)
  BY <1>1, <1>2, GetDebtEffect DEF KeepsWords, Types
<1>5. LoadDebt(t) /\ GuardDebt(t)
  BY <1>1, <1>2, GuardsKept DEF LoadDebt, OwingPc, UnconfirmedPc
<1>6. KeepsOwn(t) /\ Confirms(t) /\ KeepsCandidate(t)
  BY <1>1, <1>3, LoadSettled DEF UnconfirmedPc
<1> QED BY <1>2, <1>3, <1>4, <1>5, <1>6, LoadStepMemory

(* The generation is published. *)
LEMMA GetDebtControlMemory ==
  ASSUME Control, Memory, NEW t \in Threads, GetDebtControl(t)
  PROVE  Memory'
<1>1. Types /\ rd[t].pc = "control"
  BY Own, GetDebtControlEffect
<1>2. /\ storage' = storage /\ generation' = generation /\ wr' = wr
      /\ held' = held /\ slots' = slots
  BY <1>1, GetDebtControlEffect
<1>3. OnlyRd(t) /\ rd'[t].pc = "candidate"
  BY <1>1, GetDebtControlEffect DEF OnlyRd, RdGo, RdMove, RdTo
<1>4. KeepsWords(t)
  BY <1>1, <1>2, GetDebtControlEffect DEF KeepsWords, Types
<1>5. LoadDebt(t) /\ GuardDebt(t)
  BY <1>1, <1>2, GuardsKept DEF LoadDebt, OwingPc, UnconfirmedPc
<1>6. KeepsOwn(t) /\ Confirms(t) /\ KeepsCandidate(t)
  BY <1>1, <1>3, LoadSettled DEF UnconfirmedPc
<1> QED BY <1>2, <1>3, <1>4, <1>5, <1>6, LoadStepMemory

(* The control word is taken back. *)
LEMMA ConfirmControlMemory ==
  ASSUME Control, Memory, NEW t \in Threads, ConfirmControl(t)
  PROVE  Memory'
<1>1. Types /\ rd[t].pc = "confirm_control"
  BY Own, ConfirmControlEffect
<1>2. storage' = storage /\ wr' = wr /\ held' = held /\ slots' = slots
  BY <1>1, ConfirmControlEffect
<1>3. /\ OnlyRd(t) /\ rd'[t].pc \in {"inc", "take"}
      /\ rd'[t].debt = rd[t].debt /\ rd'[t].ptr = rd[t].ptr
      /\ rd'[t].pc = "inc" => control[t] = Gen(generation[t])
  BY <1>1, ConfirmControlEffect DEF OnlyRd, RdGo, RdMove, RdTo
<1>4. KeepsWords(t)
  BY <1>1, ConfirmControlEffect DEF KeepsWords, Types
<1>5. LoadDebt(t) /\ GuardDebt(t)
  BY <1>2, <1>3, GuardsKept DEF LoadDebt, OwesLoad, OwingPc, UnconfirmedPc
<1>6. KeepsCandidate(t)
  BY <1>3 DEF KeepsCandidate, Unhelped
<1>7. CASE rd'[t].pc = "take"
  <2>1. KeepsOwn(t) /\ Confirms(t)
    BY <1>1, <1>2, <1>3, <1>7, DebtGoesOn DEF UnconfirmedPc
  <2> QED BY <1>2, <1>3, <1>4, <1>5, <1>6, <2>1, LoadStepMemory
<1>8. CASE rd'[t].pc = "inc"
  <2>1. KeepsOwn(t)
    BY <1>8 DEF KeepsOwn, UnconfirmedPc
  <2>2. ASSUME NEW x \in SlotIds, slots[x] \in Objects, Unconfirmed(rd[t], x)
        PROVE  Covered(x, slots[x])
    <3>1. slots[x] = rd[t].ptr
      BY <2>2, SentinelAssumption DEF Memory, OwnDebt, Unconfirmed, Ptrs
    <3>2. x[1] = t
      BY <2>2, OwnSlot DEF Unconfirmed
    <3>3. rd[t].src \in Storages
      <4>1. LoadOk(t, rd[t])
        BY Own
      <4> QED BY <1>1, <4>1 DEF LoadOk, LoadingPc, Announced
    <3>4. Unhelped(rd[t], control[t], generation[t])
      BY <1>1, <1>3, <1>8 DEF Unhelped
    <3>5. CASE storage[rd[t].src] = rd[t].ptr
      BY <3>1, <3>3, <3>5 DEF Covered
    <3>6. ASSUME NEW u \in Threads, wr[u].old = rd[t].ptr,
                 WillHelp(wr[u], t, rd[t].src, control[t])
          PROVE  Covered(x, slots[x])
      <4>1. WillPay(wr[u], x)
        BY <3>2, <3>6 DEF WillHelp, WillPay, PayAllPc
      <4> QED BY <3>1, <3>6, <4>1 DEF Covered
    <3> QED BY <3>4, <3>5, <3>6 DEF Memory, CandidateCovered
  <2>3. Confirms(t)
    BY <2>2 DEF Confirms
  <2> QED BY <1>2, <1>3, <1>4, <1>5, <1>6, <2>1, <2>3, LoadStepMemory
<1> QED BY <1>3, <1>7, <1>8

(* No step at all. *)
LEMMA MemoryStutter ==
  ASSUME Memory, UNCHANGED vars
  PROVE  Memory'
BY DEF Memory, DebtsOwed, Owed, OwesGuard, OwesLoad, OwesWrite, OwnDebt,
       DebtsCovered, Unconfirmed, Covered, WillPay, CandidateCovered, Unhelped,
       WillHelp, vars

(* In the beginning every slot is empty. *)
LEMMA MemoryInit ==
  ASSUME Init
  PROVE  Memory
<1>1. DebtsOwed
  BY DEF Init, DebtsOwed
<1>2. \A t \in Threads : rd[t].pc = "idle"
  BY DEF Init, NoLoad
<1>3. OwnDebt /\ CandidateCovered
  BY <1>2 DEF OwnDebt, CandidateCovered, UnconfirmedPc, Unhelped
<1>4. DebtsCovered
  BY SentinelAssumption DEF Init, DebtsCovered, Ptrs
<1> QED BY <1>1, <1>3, <1>4 DEF Memory

(* Every step keeps Memory. *)
LEMMA MemoryNext ==
  ASSUME Control, Memory, [Next]_vars
  PROVE  Memory'
<1>1. ASSUME NEW t \in Threads, LoadStep(t)
      PROVE  Memory'
  BY <1>1, ScanMemory, ConfirmFastMemory, GiveBackMemory, GetDebtMemory,
     GetDebtControlMemory, CandidateMemory, ConfirmSlotMemory,
     ConfirmControlMemory, TakeHandoverMemory, UnusedPayMemory,
     UnusedDecMemory, IntoInnerIncMemory, IntoInnerPayMemory,
     IntoInnerDecMemory, ReturnFullMemory, ReturnToCallerMemory,
     DropDecMemory DEF LoadStep
<1>2. ASSUME NEW t \in Threads, WriteStep(t)
      PROVE  Memory'
  BY <1>2, CasLoadedMemory, DropNewMemory, CasExchangeMemory,
     CasFailedMemory, CasPayMemory, CasDecMemory, CasRetryMemory,
     PrePayMemory, HelpMemory, HelpCheckAddrMemory, HelpRecheckMemory,
     HelpReplacementMemory, HelpTheirSpaceMemory, HelpFillMemory,
     HelpCasMemory, HelpSwitchMemory, HelpDropMemory, PaySlotMemory,
     PayIncMemory, ReleaseValMemory, DropOldMemory DEF WriteStep
<1>3. ASSUME NEW t \in Threads, StartCall(t)
      PROVE  Memory'
  <2>1. rd[t].pc = "idle" /\ wr[t].pc = "idle"
    BY <1>3 DEF StartCall
  <2>2. CASE \E s \in Storages, op \in {"load", "load_full"} : Load(t, s, op)
    BY <2>1, <2>2, LoadMemory
  <2>3. CASE \E s \in Storages, op \in {"swap", "store"} : Swap(t, s, op)
    BY <2>1, <2>3, SwapMemory
  <2>4. CASE \E s \in Storages, op \in {"drop_storage", "unwrap_storage"} :
               EndStorage(t, s, op)
    BY <2>1, <2>4, EndStorageMemory
  <2>5. CASE \E s \in Storages : \E p \in Pool[s] : CompareAndSwap(t, s, p)
    BY <2>1, <2>5, CompareAndSwapMemory
  <2>6. CASE \E h \in Handles : held[h] > 0 /\ IntoInner(t, h)
    BY <2>1, <2>6, IntoInnerMemory
  <2>7. CASE \E h \in Handles : held[h] > 0 /\ Clone(t, h)
    BY <2>1, <2>7, CloneMemory
  <2>8. CASE \E h \in Handles : held[h] > 0 /\ Drop(t, h)
    BY <2>1, <2>8, DropMemory
  <2>9. CASE ThreadRestart(t)
    BY <2>1, <2>9, ThreadRestartMemory
  <2> QED BY <1>3, <2>2, <2>3, <2>4, <2>5, <2>6, <2>7, <2>8, <2>9 DEF StartCall
<1>4. ASSUME UNCHANGED vars
      PROVE  Memory'
  BY <1>4, MemoryStutter
<1> QED BY <1>1, <1>2, <1>3, <1>4 DEF Next, AllDone

(* Every debt has a debtor, and every confirmed debt is on a pointer that is
   stored or that a writer has yet to pay. *)
THEOREM MemoryHolds == Spec => [](Control /\ Memory)
<1>1. Init => Control /\ Memory
  BY ControlInit, MemoryInit
<1>2. Control /\ Memory /\ [Next]_vars => Control' /\ Memory'
  BY ControlNext, MemoryNext
<1> QED BY <1>1, <1>2, PTL DEF Spec

(* A set is not larger than another if its elements have different images there. *)
LEMMA Counted ==
  ASSUME NEW S, NEW T, IsFiniteSet(T), NEW f \in [S -> T],
         \A x, y \in S : f[x] = f[y] => x = y
  PROVE  IsFiniteSet(S) /\ Cardinality(S) <= Cardinality(T)
<1>1. f \in Injection(S, T)
  BY DEF Injection, IsInjective
<1> QED BY <1>1, FS_Injection

(* Nor is the union of two sets larger than both together. *)
LEMMA UnionBound ==
  ASSUME NEW S, NEW T, IsFiniteSet(S), IsFiniteSet(T)
  PROVE  /\ IsFiniteSet(S \cup T) /\ Cardinality(S \cup T) \in Nat
         /\ Cardinality(S \cup T) <= Cardinality(S) + Cardinality(T)
<1>1. /\ IsFiniteSet(S \cup T)
      /\ Cardinality(S \cup T)
           = Cardinality(S) + Cardinality(T) - Cardinality(S \cap T)
  BY FS_Union
<1>2. IsFiniteSet(S \cap T)
  BY FS_Intersection
<1>3. /\ Cardinality(S) \in Nat /\ Cardinality(T) \in Nat
      /\ Cardinality(S \cup T) \in Nat /\ Cardinality(S \cap T) \in Nat
  BY <1>1, <1>2, FS_CardinalityType
<1> QED BY <1>1, <1>3

(* Every part of a's balance is a number. *)
LEMMA Counts ==
  ASSUME NEW a \in Objects, Balanced(a)
  PROVE  /\ Debts(a) \in Nat /\ Stored(a) \in Nat /\ Held(a) \in Nat
         /\ Handed(a) \in Nat
         /\ \A S \in SUBSET Threads : IsFiniteSet(S) /\ Cardinality(S) \in Nat
         /\ \A S \in SUBSET SlotIds : IsFiniteSet(S) /\ Cardinality(S) \in Nat
<1>1. /\ \A S \in SUBSET Threads : IsFiniteSet(S) /\ Cardinality(S) \in Nat
      /\ \A S \in SUBSET SlotIds : IsFiniteSet(S) /\ Cardinality(S) \in Nat
  BY FiniteSlots, PartOfFinite
<1>2. Debts(a) \in Nat /\ Handed(a) \in Nat
  BY <1>1 DEF Debts, Handed
<1>3. Stored(a) \in Nat
  <2>1. {s \in Storages : storage[s] = a} \in SUBSET Storages
    OBVIOUS
  <2> QED BY <2>1, StoragesAssumption, PartOfFinite DEF Stored
<1>4. Held(a) \in Nat
  BY FS_CardinalityType DEF Balanced, Held
<1> QED BY <1>1, <1>2, <1>3, <1>4

(* The debts on a that guards, loads and writes have are not more than the
   guards, loads and writes that have a. *)
LEMMA GuardDebtors ==
  ASSUME Types, NEW a \in Objects, Balanced(a)
  PROVE  Cardinality({x \in SlotIds : OwesGuard(held, x, a)}) <= Held(a)
<1> DEFINE D == {x \in SlotIds : OwesGuard(held, x, a)}
           f == [x \in D |-> <<x, 1>>]
<1>1. \A x \in D : <<x, 1>> \in Holdings(a)
  <2> SUFFICES ASSUME NEW x \in D
               PROVE  <<x, 1>> \in Holdings(a)
    OBVIOUS
  <2>1. x \in SlotIds \cup {NoDebt} /\ held[[ptr |-> a, debt |-> x]] > 0
    BY DEF OwesGuard
  <2>2. held[[ptr |-> a, debt |-> x]] \in Nat
    BY <2>1, Handle DEF Types, Ptrs
  <2>3. 1 \in 1..held[[ptr |-> a, debt |-> x]]
    BY <2>1, <2>2
  <2>4. <<x, 1>> \in {x} \X (1..held[[ptr |-> a, debt |-> x]])
    BY <2>3
  <2> QED BY <2>1, <2>4, Zenon DEF Holdings
<1>2. f \in [D -> Holdings(a)]
  BY <1>1
<1>3. \A x, y \in D : f[x] = f[y] => x = y
  OBVIOUS
<1>4. IsFiniteSet(Holdings(a))
  BY DEF Balanced
<1> HIDE DEF D, f
<1> QED BY <1>2, <1>3, <1>4, Counted DEF D, Held

(* The debts of the loads are no more than the guards that they have. *)
LEMMA LoadDebtors ==
  ASSUME NEW a \in Objects
  PROVE  Cardinality({x \in SlotIds : \E t \in Threads : OwesLoad(rd[t], x, a)})
           <= Cardinality({t \in Threads : HasGuard(t, a)})
<1> DEFINE D == {x \in SlotIds : \E t \in Threads : OwesLoad(rd[t], x, a)}
           T == {t \in Threads : HasGuard(t, a)}
           f == [x \in D |-> CHOOSE t \in Threads : OwesLoad(rd[t], x, a)]
<1>1. \A x \in D : f[x] \in Threads /\ OwesLoad(rd[f[x]], x, a)
  OBVIOUS
<1>2. \A x \in D : f[x] \in T /\ rd[f[x]].debt = x
  BY <1>1 DEF OwesLoad, HasGuard, OwingPc, UnconfirmedPc
<1>3. f \in [D -> T] /\ \A x, y \in D : f[x] = f[y] => x = y
  BY <1>2
<1>4. IsFiniteSet(T)
  BY FiniteSlots, PartOfFinite
<1> HIDE DEF D, T, f
<1>5. Cardinality(D) <= Cardinality(T)
  BY <1>3, <1>4, Counted
<1> QED BY <1>5 DEF D, T

(* The debts of the writes are no more than their old guards. *)
LEMMA WriteDebtors ==
  ASSUME Control, NEW a \in Objects
  PROVE  Cardinality({x \in SlotIds : \E t \in Threads : OwesWrite(wr[t], x, a)})
           <= Cardinality({t \in Threads : HasOldGuard(t, a)})
<1> DEFINE D == {x \in SlotIds : \E t \in Threads : OwesWrite(wr[t], x, a)}
           T == {t \in Threads : HasOldGuard(t, a)}
           f == [x \in D |-> CHOOSE t \in Threads : OwesWrite(wr[t], x, a)]
<1>1. \A x \in D : f[x] \in Threads /\ OwesWrite(wr[f[x]], x, a)
  OBVIOUS
<1>2. ASSUME NEW x \in SlotIds, NEW t \in Threads, OwesWrite(wr[t], x, a)
      PROVE  HasOldGuard(t, a)
  <2>1. WriteOk(wr[t], rd[t]) /\ wr[t].odebt # NoDebt
    BY <1>2, Own, Slots DEF OwesWrite
  <2> QED BY <1>2, <2>1 DEF OwesWrite, WriteOk, HasOldGuard
<1>3. \A x \in D : f[x] \in T /\ wr[f[x]].odebt = x
  BY <1>1, <1>2 DEF OwesWrite
<1>4. f \in [D -> T] /\ \A x, y \in D : f[x] = f[y] => x = y
  BY <1>3
<1>5. IsFiniteSet(T)
  BY FiniteSlots, PartOfFinite
<1> HIDE DEF D, T, f
<1>6. Cardinality(D) <= Cardinality(T)
  BY <1>4, <1>5, Counted
<1> QED BY <1>6 DEF D, T

(* So the debts on a are never more than the references that have them. *)
LEMMA DebtsBounded ==
  ASSUME Control, Memory, NEW a \in Objects, Balanced(a)
  PROVE  Debts(a) <= Held(a) + Cardinality({t \in Threads : HasGuard(t, a)})
                     + Cardinality({t \in Threads : HasOldGuard(t, a)})
<1> DEFINE D == {x \in SlotIds : slots[x] = a}
           D1 == {x \in SlotIds : OwesGuard(held, x, a)}
           D2 == {x \in SlotIds : \E t \in Threads : OwesLoad(rd[t], x, a)}
           D3 == {x \in SlotIds : \E t \in Threads : OwesWrite(wr[t], x, a)}
           G == Cardinality({t \in Threads : HasGuard(t, a)})
           W == Cardinality({t \in Threads : HasOldGuard(t, a)})
<1>1. D \subseteq (D1 \cup D2) \cup D3
  <2> SUFFICES ASSUME NEW x \in SlotIds, slots[x] = a
               PROVE  x \in (D1 \cup D2) \cup D3
    OBVIOUS
  <2>1. Owed(x, a)
    BY SentinelAssumption DEF Memory, DebtsOwed, Ptrs
  <2> QED BY <2>1 DEF Owed
<1>2. Cardinality(D1) <= Held(a) /\ Cardinality(D2) <= G /\ Cardinality(D3) <= W
  BY GuardDebtors, LoadDebtors, WriteDebtors DEF Control
<1>3. D1 \in SUBSET SlotIds /\ D2 \in SUBSET SlotIds /\ D3 \in SUBSET SlotIds
  OBVIOUS
<1>4. G \in Nat /\ W \in Nat /\ Held(a) \in Nat
  BY Counts
<1>5. Debts(a) = Cardinality(D)
  BY DEF Debts
<1> HIDE DEF D, D1, D2, D3, G, W
<1>6. /\ IsFiniteSet(D1) /\ IsFiniteSet(D2) /\ IsFiniteSet(D3)
      /\ \A S \in SUBSET SlotIds : Cardinality(S) \in Nat
  BY <1>3, Counts
<1>7. /\ IsFiniteSet(D1 \cup D2) /\ Cardinality(D1 \cup D2) \in Nat
      /\ Cardinality(D1 \cup D2) <= Cardinality(D1) + Cardinality(D2)
  BY <1>6, UnionBound
<1>8. /\ IsFiniteSet((D1 \cup D2) \cup D3)
      /\ Cardinality((D1 \cup D2) \cup D3) \in Nat
      /\ Cardinality((D1 \cup D2) \cup D3)
           <= Cardinality(D1 \cup D2) + Cardinality(D3)
  BY <1>6, <1>7, UnionBound
<1>9. Cardinality(D) <= Cardinality((D1 \cup D2) \cup D3)
  BY <1>1, <1>8, FS_Subset
<1>10. Cardinality(D) \in Nat
  BY <1>1, <1>3, <1>6
<1>11. Cardinality(D1) \in Nat /\ Cardinality(D2) \in Nat
       /\ Cardinality(D3) \in Nat
  BY <1>3, <1>6
<1>12. Cardinality(D) <= Held(a) + G + W
  BY <1>2, <1>4, <1>7, <1>8, <1>9, <1>10, <1>11
<1> QED BY <1>5, <1>12 DEF G, W

(* What nobody has a debt for is counted: a storage, a hand-over, the second
   reference of into_inner, the references of a writer. *)
LEMMA CountAtLeast ==
  ASSUME Control, Memory, NEW a \in Objects, Balanced(a)
  PROVE  /\ cnt[a] \in Nat
         /\ (\E s \in Storages : storage[s] = a) => cnt[a] > 0
         /\ \A t \in Threads :
              \/ Waiting(t, a) \/ HasInner(t, a) \/ HasGot(t, a)
              \/ HasOld(t, a) \/ HasRepl(t, a)
              => cnt[a] > 0
<1> DEFINE G == Cardinality({t \in Threads : HasGuard(t, a)})
           I == Cardinality({t \in Threads : HasInner(t, a)})
           F == Cardinality({t \in Threads : HasGot(t, a)})
           O == Cardinality({t \in Threads : HasOld(t, a)})
           V == Cardinality({t \in Threads : HasVal(t, a)})
           R == Cardinality({t \in Threads : HasRepl(t, a)})
           W == Cardinality({t \in Threads : HasOldGuard(t, a)})
           M == Cardinality({t \in Threads : HasNew(t, a)})
<1>1. /\ G \in Nat /\ I \in Nat /\ F \in Nat /\ O \in Nat /\ V \in Nat
      /\ R \in Nat /\ W \in Nat /\ M \in Nat
  BY Counts
<1>2. /\ \A t \in Threads : Waiting(t, a) => Handed(a) > 0
      /\ \A t \in Threads : HasInner(t, a) => I > 0
      /\ \A t \in Threads : HasGot(t, a) => F > 0
      /\ \A t \in Threads : HasOld(t, a) => O > 0
      /\ \A t \in Threads : HasRepl(t, a) => R > 0
  <2>1. \A S \in SUBSET Threads : \A t \in S : Cardinality(S) > 0
    BY FiniteSlots, PartOfFinite
  <2> QED BY <2>1 DEF Handed
<1>3. (\E s \in Storages : storage[s] = a) => Stored(a) > 0
  <2>1. \A S \in SUBSET Storages : \A t \in S : Cardinality(S) > 0
    BY StoragesAssumption, PartOfFinite
  <2> QED BY <2>1 DEF Stored
<1>4. cnt[a] + Debts(a) = Stored(a) + Held(a) + Handed(a) + (G + I + F)
                            + (O + V + R + W + M)
  BY DEF Balanced, Loading, Writing
<1>5. Debts(a) <= Held(a) + G + W
  BY DebtsBounded
<1>6. /\ Debts(a) \in Nat /\ Stored(a) \in Nat /\ Held(a) \in Nat
      /\ Handed(a) \in Nat
  BY Counts
<1>7. cnt[a] \in Int
  BY DEF Control, Types
<1> HIDE DEF G, I, F, O, V, R, W, M
<1>8. cnt[a] >= Stored(a) + Handed(a) + I + F + O + V + R + M
  BY <1>1, <1>4, <1>5, <1>6, <1>7
<1>9. /\ cnt[a] \in Nat /\ cnt[a] >= Stored(a) /\ cnt[a] >= Handed(a)
      /\ cnt[a] >= I /\ cnt[a] >= F /\ cnt[a] >= O /\ cnt[a] >= R
  BY <1>1, <1>6, <1>7, <1>8
<1> QED BY <1>1, <1>2, <1>3, <1>6, <1>9

(* A covered debt is on an object that is there. *)
LEMMA CoveredCounts ==
  ASSUME Control, Memory, NEW a \in Objects, Balanced(a),
         NEW x \in SlotIds, Covered(x, a)
  PROVE  cnt[a] > 0
<1>1. ASSUME NEW u \in Threads, wr[u].old = a, WillPay(wr[u], x)
      PROVE  HasOld(u, a)
  BY <1>1 DEF WillPay, HasOld
<1> QED BY <1>1, CountAtLeast DEF Covered

(* When all the debts on a are unconfirmed, any other reference is counted. *)
LEMMA UnconfirmedDebts ==
  ASSUME Control, Memory, NEW a \in Objects, Balanced(a),
         \A x \in SlotIds : slots[x] = a => Unconfirmed(rd[x[1]], x)
  PROVE  /\ Holdings(a) # {} => cnt[a] > 0
         /\ \A t \in Threads : HasOldGuard(t, a) => cnt[a] > 0
         /\ \A t \in Threads :
              HasGuard(t, a) /\ rd[t].pc \notin UnconfirmedPc => cnt[a] > 0
<1> DEFINE D == {x \in SlotIds : slots[x] = a}
           U == {t \in Threads : HasGuard(t, a) /\ rd[t].pc \in UnconfirmedPc}
           S == {t \in Threads : HasGuard(t, a)}
           f == [x \in D |-> x[1]]
           G == Cardinality(S)
           W == Cardinality({t \in Threads : HasOldGuard(t, a)})
<1>1. \A x \in D : x[1] \in U /\ rd[x[1]].debt = x
  <2> SUFFICES ASSUME NEW x \in SlotIds, slots[x] = a
               PROVE  x[1] \in U /\ rd[x[1]].debt = x
    OBVIOUS
  <2>1. x[1] \in Threads /\ rd[x[1]].debt = x /\ rd[x[1]].pc \in UnconfirmedPc
    BY DEF SlotIds, Unconfirmed
  <2>2. rd[x[1]].ptr = a
    BY <2>1, SentinelAssumption DEF Memory, OwnDebt, Ptrs
  <2> QED BY <2>1, <2>2 DEF HasGuard, UnconfirmedPc
<1>2. f \in [D -> U] /\ \A x, y \in D : f[x] = f[y] => x = y
  BY <1>1
<1>3. IsFiniteSet(U) /\ Cardinality(U) \in Nat /\ IsFiniteSet(S) /\ G \in Nat
      /\ W \in Nat
  BY Counts
<1>4. Debts(a) = Cardinality(D)
  BY DEF Debts
<1>5. \A t \in Threads : HasOldGuard(t, a) => W > 0
  BY FiniteSlots, PartOfFinite
<1>6. ASSUME NEW t \in Threads, HasGuard(t, a), rd[t].pc \notin UnconfirmedPc
      PROVE  Cardinality(U) < G
  <2>1. U \subseteq S /\ t \in S /\ t \notin U
    BY <1>6
  <2> HIDE DEF U, S
  <2>2. Cardinality(U) <= G /\ (G = Cardinality(U) => S = U)
    BY <1>3, <2>1, FS_Subset
  <2> QED BY <1>3, <2>1, <2>2
<1>7. U \subseteq S
  OBVIOUS
<1>8. \A x \in Holdings(a) : Held(a) > 0
  BY PartOfFinite DEF Balanced, Held
<1>9. cnt[a] >= Held(a) + G + W - Debts(a)
  <2> DEFINE I == Cardinality({t \in Threads : HasInner(t, a)})
             F == Cardinality({t \in Threads : HasGot(t, a)})
             O == Cardinality({t \in Threads : HasOld(t, a)})
             V == Cardinality({t \in Threads : HasVal(t, a)})
             R == Cardinality({t \in Threads : HasRepl(t, a)})
             M == Cardinality({t \in Threads : HasNew(t, a)})
  <2>1. /\ I \in Nat /\ F \in Nat /\ O \in Nat /\ V \in Nat /\ R \in Nat
        /\ M \in Nat
    BY Counts
  <2>2. cnt[a] + Debts(a) = Stored(a) + Held(a) + Handed(a) + (G + I + F)
                              + (O + V + R + W + M)
    BY DEF Balanced, Loading, Writing
  <2>3. /\ Debts(a) \in Nat /\ Stored(a) \in Nat /\ Held(a) \in Nat
        /\ Handed(a) \in Nat /\ cnt[a] \in Int
    BY Counts DEF Control, Types
  <2> HIDE DEF I, F, O, V, R, M, G, W
  <2> QED BY <1>3, <2>1, <2>2, <2>3
<1>10. Held(a) \in Nat /\ Debts(a) \in Nat /\ cnt[a] \in Int
  BY Counts DEF Control, Types
<1> HIDE DEF D, U, S, f, G, W
<1>11. Debts(a) <= Cardinality(U)
  BY <1>2, <1>3, <1>4, Counted
<1>12. Cardinality(U) <= G
  BY <1>3, <1>7, FS_Subset DEF G
<1>13. Held(a) > 0 \/ W > 0 \/ Cardinality(U) < G => cnt[a] > 0
  BY <1>3, <1>9, <1>10, <1>11, <1>12
<1>14. Holdings(a) # {} => Held(a) > 0
  BY <1>8
<1> QED BY <1>5, <1>6, <1>13, <1>14

(* Whoever holds a confirmed reference, in a guard, an Arc or a call, holds it
   to an object that is there. *)
LEMMA GuardCounts ==
  ASSUME Control, Memory, NEW a \in Objects, Balanced(a)
  PROVE  /\ Holdings(a) # {} => cnt[a] > 0
         /\ \A t \in Threads : HasOldGuard(t, a) => cnt[a] > 0
         /\ \A t \in Threads :
              HasGuard(t, a) /\ rd[t].pc \notin UnconfirmedPc => cnt[a] > 0
<1>1. CASE \A x \in SlotIds : slots[x] = a => Unconfirmed(rd[x[1]], x)
  BY <1>1, UnconfirmedDebts
<1>2. ASSUME NEW x \in SlotIds, slots[x] = a, ~Unconfirmed(rd[x[1]], x)
      PROVE  cnt[a] > 0
  <2>1. Covered(x, a)
    BY <1>2 DEF Memory, DebtsCovered
  <2> QED BY <2>1, CoveredCounts
<1> QED BY <1>1, <1>2

(* The count of an object that somebody uses is positive. *)
LEMMA UsedCounts ==
  ASSUME Control, Memory, Ledger, NEW p \in InUse, p # Null
  PROVE  cnt[p] > 0
<1>1. Types
  BY DEF Control
<1>2. ASSUME p \in Ptrs
      PROVE  p \in Objects /\ Balanced(p)
  BY <1>2 DEF Ptrs, Ledger
<1>3. ASSUME NEW s \in Storages, storage[s] # Dropped, p = storage[s]
      PROVE  cnt[p] > 0
  <2>1. p \in Ptrs
    BY <1>1, <1>3 DEF Types
  <2> QED BY <1>2, <1>3, <2>1, CountAtLeast
<1>4. ASSUME NEW h \in Handles, held[h] > 0, p = h.ptr
      PROVE  cnt[p] > 0
  <2>1. p \in Ptrs /\ h.debt \in SlotIds \cup {NoDebt}
        /\ h = [ptr |-> p, debt |-> h.debt]
    BY <1>4 DEF Handles
  <2>2. held[[ptr |-> p, debt |-> h.debt]] \in Nat
    BY <1>1, <2>1 DEF Types
  <2>3. 1 \in 1..held[[ptr |-> p, debt |-> h.debt]]
    BY <1>4, <2>1, <2>2
  <2>4. <<h.debt, 1>> \in {h.debt} \X (1..held[[ptr |-> p, debt |-> h.debt]])
    BY <2>3
  <2>5. <<h.debt, 1>> \in Holdings(p)
    BY <2>1, <2>4, Zenon DEF Holdings
  <2> QED BY <1>2, <2>1, <2>5, GuardCounts
<1>5. ASSUME NEW t \in Threads, p = rd[t].ptr, rd[t].pc \in
               {"return", "inc", "inner_pay", "inner_dec", "drop_dec", "unused_dec"}
      PROVE  cnt[p] > 0
  <2>1. p \in Ptrs
    BY <1>1, <1>5, FrameTypes
  <2>2. HasGuard(t, p) /\ rd[t].pc \notin UnconfirmedPc
    BY <1>5 DEF HasGuard, UnconfirmedPc
  <2> QED BY <1>2, <2>1, <2>2, GuardCounts
<1>6. ASSUME NEW t \in Threads, p = rd[t].got,
             rd[t].pc \in {"unused_pay", "unused_dec"}
      PROVE  cnt[p] > 0
  <2>1. p \in Ptrs
    BY <1>1, <1>6, FrameTypes
  <2>2. HasGot(t, p)
    BY <1>6 DEF HasGot
  <2> QED BY <1>2, <2>1, <2>2, CountAtLeast
<1>7. ASSUME NEW t \in Threads, p = wr[t].old, wr[t].pc \in
               PayAllPc \cup {"pre_pay", "release", "drop_old", "cas", "cas_pay", "cas_dec"}
      PROVE  cnt[p] > 0
  <2>1. p \in Ptrs /\ WriteOk(wr[t], rd[t])
    BY <1>1, <1>7, FrameTypes, Own
  <2>2. CASE wr[t].pc \in PayAllPc \cup {"pre_pay", "release", "drop_old"}
    <3>1. HasOld(t, p)
      BY <1>7, <2>2 DEF HasOld
    <3> QED BY <1>2, <2>1, <3>1, CountAtLeast
  <2>3. CASE wr[t].pc \in {"cas", "cas_pay", "cas_dec"}
    <3>1. HasOldGuard(t, p)
      BY <1>7, <2>1, <2>3 DEF HasOldGuard, WriteOk, CasPc
    <3> QED BY <1>2, <2>1, <3>1, GuardCounts
  <2> QED BY <1>7, <2>2, <2>3
<1>8. ASSUME NEW t \in Threads, p = wr[t].repl,
             wr[t].pc \in {"their_space", "fill", "help_cas", "help_drop"}
      PROVE  cnt[p] > 0
  <2>1. p \in Ptrs
    BY <1>1, <1>8, FrameTypes
  <2>2. HasRepl(t, p)
    BY <1>8 DEF HasRepl
  <2> QED BY <1>2, <2>1, <2>2, CountAtLeast
<1>9. ASSUME NEW n \in Threads, IsReplacement(control[n]),
             p = handover[control[n][2]]
      PROVE  cnt[p] > 0
  <2>1. control[n][2] \in Threads
    BY <1>1, <1>9, Words DEF Types
  <2>2. p \in Ptrs
    BY <1>1, <1>9, <2>1 DEF Types
  <2>3. Waiting(n, p)
    BY <1>9 DEF Waiting
  <2> QED BY <1>2, <2>2, <2>3, CountAtLeast
<1> QED BY <1>3, <1>4, <1>5, <1>6, <1>7, <1>8, <1>9 DEF InUse

(* The variables have their types: in particular no reference count is ever
   negative, that is, no reference is released that nobody had. *)
THEOREM TypeOKHolds == Spec => []TypeOK
<1>1. Control /\ Memory /\ Ledger => TypeOK
  <2> SUFFICES ASSUME Control, Memory, Ledger
               PROVE  TypeOK
    OBVIOUS
  <2>1. Types
    BY DEF Control
  <2>2. \A a \in Objects : cnt[a] \in Nat
    BY CountAtLeast DEF Ledger
  <2>3. cnt \in [Objects -> Nat]
    BY <2>1, <2>2 DEF Types
  <2> QED BY <2>1, <2>3 DEF Types, TypeOK
<1> QED BY <1>1, LedgerHolds, MemoryHolds, PTL

(* Nobody uses an object that has been freed, with any number of threads, fast
   slots, storages and objects, and any interleaving of loads, guards that move
   between threads, swaps, compare_and_swaps, the end of storages and threads:
   what a storage, a guard, an Arc, a call under way or a hand-over refers to
   has a positive count. *)
THEOREM NoUseAfterFreeHolds == Spec => []NoUseAfterFree
<1>1. Control /\ Memory /\ Ledger => NoUseAfterFree
  BY UsedCounts DEF NoUseAfterFree
<1> QED BY <1>1, LedgerHolds, MemoryHolds, PTL
==============================================================================
