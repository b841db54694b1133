------------------------- MODULE HybridLinearizable -------------------------
(***************************************************************************)
(* The loads of HybridStrategy are linearizable, for any number of         *)
(* threads, slots, storages and calls, when no object may be in two        *)
(* storages.                                                               *)
(*                                                                         *)
(* A load may return a pointer that its storage has lost again meanwhile,  *)
(* and the pointer may have been freed and used anew between its two       *)
(* reads.  Witnessed says for every place from which a load can still get  *)
(* its result (a first read with its debt, a candidate, an envelope, a     *)
(* replacement on its way) that the pointer there was stored since the     *)
(* load began.  The hard case is the first read: until it is confirmed     *)
(* nothing protects it.  If its object has been freed then the object is   *)
(* Gone (no storage, no writer and no confirmed debt has it), so that      *)
(* nobody pays the debt on it, and the load can only find out that its     *)
(* storage has changed; if the object is stored again then it is stored    *)
(* in the storage of this load, because it may be in no other one (Apart,  *)
(* Origin), and the load may return it.                                    *)
(*                                                                         *)
(* Freed has the reason: an object with no references is in none of the    *)
(* places that count.  Harmless is what a step must not do to the          *)
(* invariant, WitnessedStep that nothing else matters, and one lemma for   *)
(* every step of the code says that it is harmless.                        *)
(*                                                                         *)
(* With the same invariant, and with Control, every step is shown to be    *)
(* one of HelpingSlots or none (HybridImplementsHelpingSlots): that what a *)
(* writer hands over may be loaded from the reader's storage is Origin.    *)
(***************************************************************************)
EXTENDS HybridStrategyProofs
USE NullAssumption DEF NoStorage, nodeVars, localVars

(* No object may be in two storages. *)
Apart == \A r, s \in Storages : r # s => Pool[r] \cap Pool[s] \subseteq {Null}

(* A load that has only read the storage once; one that knows its pointer. *)
FirstPc == {"scan", "confirm", "give_back"}
SettledPc == {"inc", "inner_pay", "return"}

(* Where the pointers in storages, first reads, exchanges and histories come
   from. *)
FirstOf(r) == r.pc \in FirstPc => r.ptr \in Pool[r.src]
NewOf(w) == w.pc \in CasPc => w.new \in Pool[w.dst]
StoredOf(p, s) == p # Dropped => p \in Pool[s]
SeenOf(r, W) == r.src # NoStorage => W \subseteq Pool[r.src]
Origin ==
  /\ \A s \in Storages : StoredOf(storage[s], s)
  /\ \A t \in Threads : FirstOf(rd[t]) /\ NewOf(wr[t]) /\ SeenOf(rd[t], window[t])

(* Nobody has the object a from a storage: it is in none, no writer has removed
   it, no confirmed debt is on it. *)
HasRemoved(w, a) ==
  w.old = a /\ w.pc \in PayAllPc \cup {"pre_pay", "release", "drop_old"}
GoneFor(r, w, a) ==
  /\ ~HasRemoved(w, a)
  /\ w.odebt \in SlotIds => w.old # a
  /\ r.debt \in SlotIds /\ r.pc \in SettledPc => r.ptr # a
Gone(a) ==
  /\ a \in Objects
  /\ \A s \in Storages : storage[s] # a
  /\ \A x \in SlotIds : ~OwesGuard(held, x, a)
  /\ \A t \in Threads : GoneFor(rd[t], wr[t], a)

(* What is stored is seen by the loads from there. *)
StoredSeen ==
  \A t \in Threads : rd[t].src # NoStorage => storage[rd[t].src] \in window[t]

(* The pointer of a first read that has been freed since is gone, and the debt
   on it, if there is one, is not paid. *)
FirstSeenOk(r, W) ==
  r.pc \in FirstPc /\ r.ptr \notin W =>
    Gone(r.ptr) /\ (r.pc # "scan" => slots[r.debt] = r.ptr)
FirstSeen == \A t \in Threads : FirstSeenOk(rd[t], window[t])

(* What the load r, with control word c, generation g and the envelopes H, may
   return without another look is in W. *)
ConfirmedOk(r, c, g, H, W) ==
  /\ r.src # NoStorage /\ r.pc \in SettledPc \cup {"inner_dec"} => r.ptr \in W
  /\ Unhelped(r, c, g) => r.ptr \in W
  /\ IsReplacement(c) => H[c[2]] \in W
  /\ r.pc = "take" => H[r.env] \in W
  /\ r.pc \in {"unused_pay", "unused_dec"} => r.got \in W
ConfirmedSeen ==
  \A t \in Threads :
    ConfirmedOk(rd[t], control[t], generation[t], handover, window[t])

(* A replacement is good for the load it is meant for. *)
AidPc == {"replacement", "their_space", "fill", "help_cas"}
HelpSeenOk(w, c, V, W) ==
  c = w.observed =>
    /\ w.pc = "replacement" => V \subseteq W
    /\ w.pc \in AidPc \ {"replacement"} => w.repl \in W
HelpSeen ==
  \A t \in Threads :
    HelpSeenOk(wr[t], control[wr[t].node], window[t], window[wr[t].node])

Witnessed == StoredSeen /\ FirstSeen /\ ConfirmedSeen /\ HelpSeen

(* What is freed is gone, and none of the pointers that loads and replacements
   rely on; an unconfirmed debt on it is not paid. *)
Unclaimed(r, c, g, H, w, a) ==
  /\ r.pc \in SettledPc \cup {"inner_dec"} => r.ptr # a
  /\ Unhelped(r, c, g) => r.ptr # a
  /\ IsReplacement(c) => H[c[2]] # a
  /\ r.pc = "take" => H[r.env] # a
  /\ r.pc \in {"unused_pay", "unused_dec"} => r.got # a
  /\ w.pc \in AidPc \ {"replacement"} => w.repl # a
FreedOk ==
  \A a \in Objects : cnt[a] = 0 =>
    /\ Gone(a)
    /\ \A t \in Threads :
         /\ Unclaimed(rd[t], control[t], generation[t], handover, wr[t], a)
         /\ rd[t].pc \in {"confirm", "give_back"} /\ rd[t].ptr = a =>
              slots[rd[t].debt] = a

-----------------------------------------------------------------------------
(* A debt on a that was paid before its load knew has a reference. *)
LEMMA PaidUnconfirmed ==
  ASSUME Control, Memory, NEW a \in Objects, Balanced(a),
         NEW t \in Threads, rd[t].pc \in UnconfirmedPc, rd[t].ptr = a,
         slots[rd[t].debt] # a
  PROVE  cnt[a] > 0
<1>1. ASSUME NEW x \in SlotIds, slots[x] = a, ~Unconfirmed(rd[x[1]], x)
      PROVE  cnt[a] > 0
  <2>1. Covered(x, a)
    BY <1>1 DEF Memory, DebtsCovered
  <2> QED BY <2>1, CoveredCounts
<1>2. CASE \A x \in SlotIds : slots[x] = a => Unconfirmed(rd[x[1]], x)
  <2> DEFINE D == {x \in SlotIds : slots[x] = a}
             U == {u \in Threads : HasGuard(u, a) /\ u # t}
             S == {u \in Threads : HasGuard(u, a)}
             f == [x \in D |-> x[1]]
             G == Cardinality(S)
             W == Cardinality({u \in Threads : HasOldGuard(u, a)})
  <2>1. \A x \in D : x[1] \in U /\ rd[x[1]].debt = x
    <3> SUFFICES ASSUME NEW x \in SlotIds, slots[x] = a
                 PROVE  x[1] \in U /\ rd[x[1]].debt = x
      OBVIOUS
    <3>1. x[1] \in Threads /\ rd[x[1]].debt = x /\ rd[x[1]].pc \in UnconfirmedPc
      BY <1>2 DEF SlotIds, Unconfirmed
    <3>2. rd[x[1]].ptr = a /\ x[1] # t
      BY <3>1, SentinelAssumption DEF Memory, OwnDebt, Ptrs
    <3> QED BY <3>1, <3>2 DEF HasGuard, UnconfirmedPc
  <2>2. f \in [D -> U] /\ \A x, y \in D : f[x] = f[y] => x = y
    BY <2>1
  <2>3. /\ IsFiniteSet(U) /\ Cardinality(U) \in Nat /\ IsFiniteSet(S)
        /\ G \in Nat /\ W \in Nat
    BY Counts
  <2>4. Debts(a) = Cardinality(D)
    BY DEF Debts
  <2>5. U \subseteq S /\ t \in S /\ t \notin U
    BY DEF HasGuard, UnconfirmedPc
  <2>6. cnt[a] >= Held(a) + G + W - Debts(a)
    <3> DEFINE I == Cardinality({u \in Threads : HasInner(u, a)})
               F == Cardinality({u \in Threads : HasGot(u, a)})
               O == Cardinality({u \in Threads : HasOld(u, a)})
               V == Cardinality({u \in Threads : HasVal(u, a)})
               R == Cardinality({u \in Threads : HasRepl(u, a)})
               M == Cardinality({u \in Threads : HasNew(u, a)})
    <3>1. /\ I \in Nat /\ F \in Nat /\ O \in Nat /\ V \in Nat /\ R \in Nat
          /\ M \in Nat
      BY Counts
    <3>2. cnt[a] + Debts(a) = Stored(a) + Held(a) + Handed(a) + (G + I + F)
                                + (O + V + R + W + M)
      BY DEF Balanced, Loading, Writing
    <3>3. /\ Debts(a) \in Nat /\ Stored(a) \in Nat /\ Held(a) \in Nat
          /\ Handed(a) \in Nat /\ cnt[a] \in Int
      BY Counts DEF Control, Types
    <3> HIDE DEF I, F, O, V, R, M, G, W
    <3> QED BY <2>3, <3>1, <3>2, <3>3
  <2>7. Held(a) \in Nat /\ Debts(a) \in Nat /\ cnt[a] \in Int
    BY Counts DEF Control, Types
  <2> HIDE DEF D, U, S, f, G, W
  <2>8. Debts(a) <= Cardinality(U)
    BY <2>2, <2>3, <2>4, Counted
  <2>9. Cardinality(U) <= G /\ (G = Cardinality(U) => S = U)
    BY <2>3, <2>5, FS_Subset DEF G
  <2>10. Cardinality(U) < G
    BY <2>3, <2>5, <2>9
  <2> QED BY <2>3, <2>6, <2>7, <2>8, <2>10
<1> QED BY <1>1, <1>2

(* A guard with a debt on a is one of its references. *)
LEMMA OwedHeld ==
  ASSUME Types, NEW a \in Objects, NEW x \in SlotIds, OwesGuard(held, x, a)
  PROVE  Holdings(a) # {}
<1>1. x \in SlotIds \cup {NoDebt} /\ held[[ptr |-> a, debt |-> x]] > 0
  BY DEF OwesGuard
<1>2. held[[ptr |-> a, debt |-> x]] \in Nat
  BY <1>1, Handle DEF Types, Ptrs
<1>3. 1 \in 1..held[[ptr |-> a, debt |-> x]]
  BY <1>1, <1>2
<1>4. <<x, 1>> \in {x} \X (1..held[[ptr |-> a, debt |-> x]])
  BY <1>3
<1>5. <<x, 1>> \in Holdings(a)
  BY <1>1, <1>4, Zenon DEF Holdings
<1> QED BY <1>5

(* What a freed object can no longer be. *)
LEMMA Freed ==
  ASSUME Control, Memory, Ledger
  PROVE  FreedOk
<1> SUFFICES ASSUME NEW a \in Objects, cnt[a] = 0
             PROVE  /\ Gone(a)
                    /\ \A t \in Threads :
                         /\ Unclaimed(rd[t], control[t], generation[t], handover,
                                      wr[t], a)
                         /\ rd[t].pc \in {"confirm", "give_back"} /\ rd[t].ptr = a
                              => slots[rd[t].debt] = a
  BY DEF FreedOk
<1>1. Balanced(a) /\ ~(cnt[a] > 0) /\ Types
  BY DEF Ledger, Control
<1>2. /\ \A s \in Storages : storage[s] # a
      /\ \A t \in Threads : /\ ~Waiting(t, a) /\ ~HasInner(t, a) /\ ~HasGot(t, a)
                            /\ ~HasOld(t, a) /\ ~HasRepl(t, a)
  BY <1>1, CountAtLeast
<1>3. /\ Holdings(a) = {}
      /\ \A t \in Threads : ~HasOldGuard(t, a)
      /\ \A t \in Threads : HasGuard(t, a) => rd[t].pc \in UnconfirmedPc
  BY <1>1, GuardCounts
<1>4. \A x \in SlotIds : ~OwesGuard(held, x, a)
  BY <1>1, <1>3, OwedHeld
<1>5. ASSUME NEW t \in Threads
      PROVE  GoneFor(rd[t], wr[t], a)
  <2>1. ~HasRemoved(wr[t], a)
    BY <1>2 DEF HasRemoved, HasOld
  <2>2. wr[t].odebt \in SlotIds => wr[t].old # a
    <3>1. WriteOk(wr[t], rd[t])
      BY Own
    <3> QED BY <1>3, <3>1, Slots DEF WriteOk, HasOldGuard
  <2>3. rd[t].pc \in SettledPc => rd[t].ptr # a
    BY <1>3 DEF SettledPc, HasGuard, UnconfirmedPc
  <2> QED BY <2>1, <2>2, <2>3 DEF GoneFor
<1>6. ASSUME NEW t \in Threads
      PROVE  Unclaimed(rd[t], control[t], generation[t], handover, wr[t], a)
  <2>1. rd[t].pc \in SettledPc \cup {"inner_dec"} => rd[t].ptr # a
    BY <1>3 DEF SettledPc, HasGuard, UnconfirmedPc
  <2>2. Unhelped(rd[t], control[t], generation[t]) => rd[t].ptr # a
    <3> SUFFICES ASSUME Unhelped(rd[t], control[t], generation[t])
                 PROVE  rd[t].ptr # a
      OBVIOUS
    <3>1. rd[t].src \in Storages
      <4>1. LoadOk(t, rd[t])
        BY Own
      <4> QED BY <4>1 DEF LoadOk, LoadingPc, Announced, Unhelped
    <3>2. ASSUME NEW u \in Threads, wr[u].old = rd[t].ptr,
                 WillHelp(wr[u], t, rd[t].src, control[t])
          PROVE  rd[t].ptr # a
      <4>1. HasOld(u, rd[t].ptr)
        BY <3>2 DEF HasOld, WillHelp, PayAllPc
      <4> QED BY <1>2, <4>1
    <3> QED BY <1>2, <3>1, <3>2 DEF Memory, CandidateCovered
  <2>3. IsReplacement(control[t]) => handover[control[t][2]] # a
    BY <1>2 DEF Waiting
  <2>4. /\ rd[t].pc = "take" => handover[rd[t].env] # a
        /\ rd[t].pc \in {"unused_pay", "unused_dec"} => rd[t].got # a
    BY <1>2 DEF HasGot
  <2>5. wr[t].pc \in AidPc \ {"replacement"} => wr[t].repl # a
    BY <1>2 DEF HasRepl, AidPc
  <2> QED BY <2>1, <2>2, <2>3, <2>4, <2>5 DEF Unclaimed
<1>7. ASSUME NEW t \in Threads, rd[t].pc \in {"confirm", "give_back"},
             rd[t].ptr = a
      PROVE  slots[rd[t].debt] = a
  BY <1>1, <1>7, PaidUnconfirmed DEF UnconfirmedPc
<1> QED BY <1>2, <1>4, <1>5, <1>6, <1>7 DEF Gone

(* What a step of t may do to the histories: nothing, or an object is freed; a
   value is published; a storage ends that nobody loads from; a load of t
   begins or ends. *)
Frees ==
  \E a \in Objects : cnt'[a] = 0 /\ window' = [u \in Threads |-> window[u] \ {a}]
Quiet(t) ==
  /\ storage' = storage
  /\ rd'[t].src \in {rd[t].src, NoStorage}
  /\ window' = window \/ Frees
Publishes ==
  /\ rd' = rd
  /\ \E s \in Storages : \E v \in Pool[s] : Publish(s, v)
Ends ==
  /\ rd' = rd /\ window' = window
  /\ \E s \in Storages : /\ \A u \in Threads : rd[u].src # s
                         /\ storage' = [storage EXCEPT ![s] = Dropped]
Clears(t) ==
  /\ storage' = storage
  /\ rd'[t].pc \in {"scan", "get_debt", "idle"} /\ control'[t] = IDLE
  /\ \A u \in Threads : u # t => window'[u] = window[u]
  /\ rd'[t].src # NoStorage =>
       /\ rd'[t].src \in Storages /\ storage[rd'[t].src] # Dropped
       /\ window'[t] = {storage[rd'[t].src]}
  /\ rd'[t].pc = "scan" => rd'[t].ptr \in window'[t]
History(t) == Quiet(t) \/ Publishes \/ Ends \/ Clears(t)

(* The load of t begins with a first read, or goes on with it. *)
KeepsFirst(t) ==
  rd'[t].pc \in FirstPc =>
    \/ Clears(t)
    \/ /\ rd[t].pc \in FirstPc /\ rd'[t].ptr = rd[t].ptr
       /\ rd'[t].pc # "scan" =>
            \/ slots'[rd'[t].debt] = rd[t].ptr
            \/ /\ rd[t].pc # "scan" /\ rd'[t].debt = rd[t].debt
               /\ slots'[rd[t].debt] = slots[rd[t].debt]

(* An object that is gone stays so until it is published, and nobody pays a
   debt on it but the owner of the slot. *)
KeepsGone(t) ==
  \A a \in Objects :
    Gone(a) /\ (\A s \in Storages : storage'[s] # a) =>
      /\ GoneFor(rd'[t], wr'[t], a)
      /\ \A x \in SlotIds : ~OwesGuard(held', x, a)
      /\ \A x \in SlotIds : x[1] # t /\ slots[x] = a => slots'[x] = a

(* What loads rely on has been stored since they began. *)
KeepsConfirmed(t) ==
  /\ ConfirmedOk(rd'[t], control'[t], generation'[t], handover', window[t])
  /\ \A u \in Threads : u # t =>
       ConfirmedOk(rd[u], control'[u], generation'[u], handover', window[u])

(* So has the replacement of t; and no control word goes back to what somebody
   has seen. *)
KeepsAid(t) ==
  /\ \/ wr'[t].pc \notin AidPc
     \/ control'[wr'[t].node] # wr'[t].observed
     \/ wr' = wr /\ Quiet(t) /\ control'[wr[t].node] = control[wr[t].node]
     \/ /\ wr'[t].pc = "replacement"
        /\ window'[t] \subseteq window'[wr'[t].node]
     \/ /\ wr'[t].pc # "replacement"
        /\ wr'[t].node \in Threads /\ wr'[t].node # t
        /\ wr'[t].repl \in window[wr'[t].node]
  /\ \A u \in Threads :
       u # t /\ wr[u].pc \in AidPc /\ control'[wr[u].node] = wr[u].observed =>
         control[wr[u].node] = wr[u].observed

Harmless(t) ==
  /\ OnlyRd(t) /\ OnlyWr(t) /\ History(t) /\ FirstOf(rd'[t]) /\ NewOf(wr'[t])
  /\ KeepsFirst(t) /\ KeepsGone(t) /\ KeepsConfirmed(t) /\ KeepsAid(t)

-----------------------------------------------------------------------------
(* What has been seen before has been freed, or still counts as seen. *)
LEMMA WindowStep ==
  ASSUME Control, NEW t \in Threads, History(t),
         NEW u \in Threads, NEW p \in window[u]
  PROVE  \/ p \in window'[u]
         \/ p \in Objects /\ cnt'[p] = 0
         \/ u = t /\ Clears(t)
<1>1. CASE Quiet(t)
  BY <1>1 DEF Quiet, Frees
<1>2. CASE Publishes
  BY <1>2 DEF Publishes, Publish
<1>3. CASE Ends
  BY <1>3 DEF Ends
<1>4. CASE Clears(t)
  BY <1>4 DEF Clears
<1> QED BY <1>1, <1>2, <1>3, <1>4 DEF History

(* What is stored is seen. *)
LEMMA StoredSeenStep ==
  ASSUME Control, Witnessed, FreedOk', NEW t \in Threads, OnlyRd(t), History(t)
  PROVE  StoredSeen'
<1> SUFFICES ASSUME NEW u \in Threads, rd'[u].src # NoStorage
             PROVE  storage'[rd'[u].src] \in window'[u]
  BY DEF StoredSeen
<1>0. \A v \in Threads : rd[v].src # NoStorage => storage[rd[v].src] \in window[v]
  BY DEF Witnessed, StoredSeen
<1>1. /\ rd[u].src \in Storages \cup {NoStorage}
      /\ storage \in [Storages -> Ptrs \cup {Dropped}]
  BY Own, FrameTypes DEF Types
<1>2. CASE Quiet(t)
  <2>1. rd'[u].src = rd[u].src /\ storage' = storage /\ rd[u].src \in Storages
    BY <1>1, <1>2 DEF Quiet, OnlyRd
  <2>2. ASSUME NEW a \in Objects, cnt'[a] = 0
        PROVE  storage'[rd'[u].src] # a
    BY <1>1, <2>1, <2>2 DEF FreedOk, Gone
  <2> QED BY <1>0, <1>2, <2>1, <2>2 DEF Quiet, Frees
<1>3. CASE Publishes
  <2>1. rd' = rd /\ rd[u].src \in Storages
    BY <1>1, <1>3 DEF Publishes
  <2>2. PICK s \in Storages : \E v \in Pool[s] : Publish(s, v)
    BY <1>3 DEF Publishes
  <2>3. PICK v \in Pool[s] : Publish(s, v)
    BY <2>2
  <2>4. storage[rd[u].src] \in window[u]
    BY <1>0, <2>1
  <2> QED BY <1>1, <2>1, <2>3, <2>4 DEF Publish
<1>4. CASE Ends
  <2>1. rd' = rd /\ window' = window
    BY <1>4 DEF Ends
  <2>2. storage'[rd[u].src] = storage[rd[u].src]
    BY <1>1, <1>4 DEF Ends
  <2> QED BY <1>0, <2>1, <2>2
<1>5. CASE Clears(t)
  <2>1. CASE u = t
    BY <1>5, <2>1 DEF Clears
  <2>2. CASE u # t
    BY <1>0, <1>5, <2>2 DEF Clears, OnlyRd
  <2> QED BY <2>1, <2>2
<1> QED BY <1>2, <1>3, <1>4, <1>5 DEF History

(* The object a is gone after the step. *)
GoneNow(a) ==
  /\ a \in Objects
  /\ \A s \in Storages : storage'[s] # a
  /\ \A x \in SlotIds : ~OwesGuard(held', x, a)
  /\ \A u \in Threads : GoneFor(rd'[u], wr'[u], a)

(* What is gone stays gone until it is published. *)
LEMMA GoneStep ==
  ASSUME NEW t \in Threads, OnlyRd(t), OnlyWr(t), KeepsGone(t),
         NEW a, Gone(a), \A s \in Storages : storage'[s] # a
  PROVE  GoneNow(a)
<1>1. a \in Objects
  BY DEF Gone
<1>2. /\ GoneFor(rd'[t], wr'[t], a)
      /\ \A x \in SlotIds : ~OwesGuard(held', x, a)
  BY <1>1 DEF KeepsGone
<1>3. ASSUME NEW u \in Threads, u # t
      PROVE  GoneFor(rd'[u], wr'[u], a)
  <2>1. rd'[u] = rd[u] /\ wr'[u] = wr[u] /\ GoneFor(rd[u], wr[u], a)
    BY <1>3 DEF OnlyRd, OnlyWr, Gone
  <2> QED BY <2>1
<1>4. \A u \in Threads : GoneFor(rd'[u], wr'[u], a)
  BY <1>2, <1>3
<1> QED BY <1>1, <1>2, <1>4 DEF GoneNow

(* It is not published behind the back of a load that has read it. *)
LEMMA NotPublished ==
  ASSUME Apart, Control, Origin, NEW t \in Threads, History(t),
         NEW u \in Threads, rd[u].pc \in FirstPc, Gone(rd[u].ptr),
         ~(u = t /\ Clears(t)), rd[u].ptr \notin window'[u],
         NEW s \in Storages
  PROVE  storage'[s] # rd[u].ptr
<1>1. /\ rd[u].ptr \in Pool[rd[u].src] /\ rd[u].ptr \in Objects
      /\ rd[u].ptr # Null /\ rd[u].ptr # Dropped
      /\ \A q \in Storages : storage[q] # rd[u].ptr
  BY SentinelAssumption DEF Origin, FirstOf, Gone, Ptrs
<1>2. rd[u].src \in Storages /\ storage \in [Storages -> Ptrs \cup {Dropped}]
  <2>1. LoadOk(u, rd[u]) /\ Types
    BY Own
  <2> QED BY <2>1 DEF LoadOk, LoadingPc, FirstPc, Types
<1>3. CASE storage' = storage
  BY <1>1, <1>3
<1>4. CASE Publishes
  <2>1. PICK q \in Storages : \E v \in Pool[q] : Publish(q, v)
    BY <1>4 DEF Publishes
  <2>2. PICK v \in Pool[q] : Publish(q, v)
    BY <2>1
  <2>3. CASE v # rd[u].ptr
    BY <1>1, <1>2, <2>2, <2>3 DEF Publish
  <2>4. CASE v = rd[u].ptr
    <3>1. q = rd[u].src
      BY <1>1, <1>2, <2>4 DEF Apart
    <3> QED BY <2>2, <2>4, <3>1 DEF Publish
  <2> QED BY <2>3, <2>4
<1>5. CASE Ends
  BY <1>1, <1>2, <1>5 DEF Ends
<1> QED BY <1>3, <1>4, <1>5 DEF History, Quiet, Clears

(* A first read whose object was freed. *)
LEMMA FirstStep ==
  ASSUME Apart, Control, Origin, Witnessed, FreedOk', NEW t \in Threads,
         OnlyRd(t), OnlyWr(t), History(t), KeepsFirst(t), KeepsGone(t)
  PROVE  FirstSeen'
<1> SUFFICES ASSUME NEW u \in Threads, rd'[u].pc \in FirstPc,
                    rd'[u].ptr \notin window'[u]
             PROVE  /\ GoneNow(rd[u].ptr) /\ rd'[u].ptr = rd[u].ptr
                    /\ rd'[u].pc # "scan" => slots'[rd'[u].debt] = rd[u].ptr
  BY DEF FirstSeen, FirstSeenOk, Gone, GoneNow, GoneFor, HasRemoved, OwesGuard
<1>1. ~(u = t /\ Clears(t))
  BY DEF Clears, FirstPc
<1>2. rd[u].pc \in FirstPc /\ rd'[u].ptr = rd[u].ptr
  BY <1>1 DEF KeepsFirst, OnlyRd
<1>3. rd[u].ptr \in window[u] => rd[u].ptr \in Objects /\ cnt'[rd[u].ptr] = 0
  BY <1>1, <1>2, WindowStep
<1>4. CASE rd[u].ptr \in window[u]
  <2>1. /\ GoneNow(rd[u].ptr)
        /\ rd'[u].pc \in {"confirm", "give_back"} => slots'[rd'[u].debt] = rd[u].ptr
    BY <1>2, <1>3, <1>4
       DEF FreedOk, Gone, GoneNow, GoneFor, HasRemoved, OwesGuard
  <2> QED BY <1>2, <2>1 DEF FirstPc
<1>5. CASE rd[u].ptr \notin window[u]
  <2>1. Gone(rd[u].ptr) /\ (rd[u].pc # "scan" => slots[rd[u].debt] = rd[u].ptr)
    BY <1>2, <1>5 DEF Witnessed, FirstSeen, FirstSeenOk
  <2>2. \A s \in Storages : storage'[s] # rd[u].ptr
    BY <1>1, <1>2, <2>1, NotPublished
  <2>3. GoneNow(rd[u].ptr)
    BY <2>1, <2>2, GoneStep
  <2>4. ASSUME rd'[u].pc # "scan"
        PROVE  slots'[rd'[u].debt] = rd[u].ptr
    <3>1. CASE u = t
      BY <1>1, <2>1, <2>4, <3>1 DEF KeepsFirst
    <3>2. CASE u # t
      <4>1. rd'[u] = rd[u]
        BY <3>2 DEF OnlyRd
      <4>2. rd[u].debt \in SlotIds /\ rd[u].debt[1] = u
        BY <1>2, <2>4, <4>1, OwnSlot DEF FirstPc, UnconfirmedPc
      <4>3. slots[rd[u].debt] = rd[u].ptr /\ rd[u].ptr \in Objects
        BY <2>1, <2>4, <4>1 DEF Gone
      <4> QED BY <2>1, <2>2, <3>2, <4>1, <4>2, <4>3 DEF KeepsGone
    <3> QED BY <3>1, <3>2
  <2> QED BY <1>2, <2>3, <2>4
<1> QED BY <1>4, <1>5

(* What loads rely on stays seen. *)
LEMMA ConfirmedStep ==
  ASSUME Control, FreedOk', NEW t \in Threads, OnlyRd(t), History(t),
         KeepsConfirmed(t)
  PROVE  ConfirmedSeen'
<1> SUFFICES ASSUME NEW u \in Threads
             PROVE  ConfirmedOk(rd'[u], control'[u], generation'[u], handover',
                                window'[u])
  BY DEF ConfirmedSeen, ConfirmedOk, Unhelped
<1>1. ConfirmedOk(rd'[u], control'[u], generation'[u], handover', window[u])
  BY DEF KeepsConfirmed, OnlyRd
<1>2. CASE u = t /\ Clears(t)
  BY <1>2, Words DEF Clears, ConfirmedOk, Unhelped, SettledPc
<1>3. CASE ~(u = t /\ Clears(t))
  <2>1. \A p \in window[u] : p \in window'[u] \/ (p \in Objects /\ cnt'[p] = 0)
    BY <1>3, WindowStep
  <2>2. ASSUME NEW a \in Objects, cnt'[a] = 0
        PROVE  Unclaimed(rd'[u], control'[u], generation'[u], handover', wr'[u], a)
    BY <2>2 DEF FreedOk, Unclaimed, Unhelped
  <2> QED BY <1>1, <2>1, <2>2 DEF ConfirmedOk, Unclaimed
<1> QED BY <1>2, <1>3

(* A load that is helped is from the storage of its helper. *)
LEMMA AidedLoad ==
  ASSUME Control, Protocol, NEW u \in Threads, wr[u].pc \in AidPc,
         control[wr[u].node] = wr[u].observed
  PROVE  /\ wr[u].node \in Threads /\ wr[u].node # u /\ IsGen(wr[u].observed)
         /\ rd[wr[u].node].src = wr[u].dst
         /\ wr[u].pc = "replacement" => rd[u].src = wr[u].dst
<1>1. /\ HelpOk(u, wr[u]) /\ WriteOk(wr[u], rd[u]) /\ wr[u].node \in Threads
      /\ CurrentOk(wr[u], control[wr[u].node], active_addr[wr[u].node],
                   space_offer[wr[u].node])
  BY Own, FrameTypes, Seen
<1>2. wr[u].node # u /\ IsGen(wr[u].observed) /\ active_addr[wr[u].node] = wr[u].dst
  BY <1>1 DEF HelpOk, CurrentOk, HelpPc, AidPc
<1>3. FollowOk(rd[wr[u].node], control[wr[u].node], generation[wr[u].node],
               active_addr[wr[u].node])
  BY <1>1, Own
<1>4. rd[wr[u].node].src = wr[u].dst
  BY <1>2, <1>3, Words DEF FollowOk
<1> QED BY <1>1, <1>2, <1>4 DEF WriteOk

(* A replacement stays good. *)
LEMMA AidStep ==
  ASSUME Control, Protocol, Witnessed, FreedOk', NEW t \in Threads,
         OnlyRd(t), OnlyWr(t), History(t), KeepsAid(t)
  PROVE  HelpSeen'
<1> SUFFICES ASSUME NEW u \in Threads, control'[wr'[u].node] = wr'[u].observed
             PROVE  /\ wr'[u].pc = "replacement" =>
                         window'[u] \subseteq window'[wr'[u].node]
                    /\ wr'[u].pc \in AidPc \ {"replacement"} =>
                         wr'[u].repl \in window'[wr'[u].node]
  BY DEF HelpSeen, HelpSeenOk
<1>1. ASSUME NEW a \in Objects, cnt'[a] = 0
      PROVE  wr'[u].pc \in AidPc \ {"replacement"} => wr'[u].repl # a
  BY <1>1 DEF FreedOk, Unclaimed
<1>2. CASE /\ wr'[u] = wr[u] /\ wr[u].pc \in AidPc
           /\ control[wr[u].node] = wr[u].observed
           /\ u # t \/ Quiet(t)
  <2> DEFINE n == wr[u].node
  <2>1. /\ n \in Threads /\ n # u /\ IsGen(wr[u].observed)
        /\ rd[n].src = wr[u].dst
        /\ wr[u].pc = "replacement" => rd[u].src = wr[u].dst
    BY <1>2, AidedLoad
  <2>2. control'[n] # IDLE /\ ~(n = t /\ Clears(t))
    BY <1>2, <2>1, Words DEF Clears
  <2>3. /\ wr[u].pc = "replacement" => window[u] \subseteq window[n]
        /\ wr[u].pc \in AidPc \ {"replacement"} => wr[u].repl \in window[n]
    BY <1>2 DEF Witnessed, HelpSeen, HelpSeenOk
  <2> HIDE DEF n
  <2>4. wr[u].pc \in AidPc \ {"replacement"} => wr[u].repl \in window'[n]
    BY <1>1, <1>2, <2>1, <2>2, <2>3, WindowStep
  <2>5. ASSUME wr[u].pc = "replacement"
        PROVE  window'[u] \subseteq window'[n]
    <3>1. CASE Quiet(t)
      BY <2>1, <2>3, <2>5, <3>1 DEF Quiet, Frees
    <3>2. CASE Publishes
      BY <2>1, <2>3, <2>5, <3>2 DEF Publishes, Publish
    <3>3. CASE Ends
      BY <2>3, <2>5, <3>3 DEF Ends
    <3>4. CASE Clears(t) /\ u # t
      BY <2>1, <2>2, <2>3, <2>5, <3>4 DEF Clears
    <3> QED BY <1>2, <3>1, <3>2, <3>3, <3>4 DEF History
  <2> QED BY <1>2, <2>4, <2>5 DEF n
<1>3. CASE u # t /\ wr'[u].pc \in AidPc
  <2>1. wr'[u] = wr[u]
    BY <1>3 DEF OnlyWr
  <2>2. control[wr[u].node] = wr[u].observed
    BY <1>3, <2>1 DEF KeepsAid
  <2> QED BY <1>2, <1>3, <2>1, <2>2
<1>4. CASE u = t /\ wr'[u].pc \in AidPc
  <2>1. CASE wr' = wr /\ Quiet(t) /\ control'[wr[t].node] = control[wr[t].node]
    BY <1>2, <1>4, <2>1
  <2>2. CASE /\ wr'[t].pc # "replacement"
             /\ wr'[t].node \in Threads /\ wr'[t].node # t
             /\ wr'[t].repl \in window[wr'[t].node]
    BY <1>1, <1>4, <2>2, WindowStep
  <2>3. CASE /\ wr'[t].pc = "replacement"
             /\ window'[t] \subseteq window'[wr'[t].node]
    BY <1>4, <2>3
  <2> QED BY <1>4, <2>1, <2>2, <2>3 DEF KeepsAid
<1> QED BY <1>3, <1>4 DEF AidPc

(* Storages and first reads have their values from the same pool. *)
LEMMA OriginStep ==
  ASSUME Control, Origin, NEW t \in Threads, OnlyRd(t), OnlyWr(t), History(t),
         FirstOf(rd'[t]), NewOf(wr'[t])
  PROVE  Origin'
<1>1. \A u \in Threads : FirstOf(rd'[u]) /\ NewOf(wr'[u])
  BY DEF OnlyRd, OnlyWr, Origin
<1>2. ASSUME NEW s \in Storages
      PROVE  StoredOf(storage'[s], s)
  <2>1. StoredOf(storage[s], s) /\ storage \in [Storages -> Ptrs \cup {Dropped}]
    BY Own DEF Origin, Control, Types
  <2>2. CASE storage' = storage
    BY <2>1, <2>2
  <2>3. CASE Publishes
    BY <2>1, <2>3 DEF Publishes, Publish, StoredOf
  <2>4. CASE Ends
    BY <2>1, <2>4 DEF Ends, StoredOf
  <2> QED BY <2>2, <2>3, <2>4 DEF History, Quiet, Clears
<1>3. ASSUME NEW u \in Threads
      PROVE  SeenOf(rd'[u], window'[u])
  <2>1. SeenOf(rd[u], window[u]) /\ rd[u].src \in Storages \cup {NoStorage}
    BY Own, FrameTypes DEF Origin
  <2>2. CASE Quiet(t)
    BY <2>1, <2>2 DEF Quiet, Frees, OnlyRd, SeenOf
  <2>3. CASE Publishes
    BY <2>1, <2>3 DEF Publishes, Publish, SeenOf
  <2>4. CASE Ends
    BY <2>1, <2>4 DEF Ends, SeenOf
  <2>5. CASE Clears(t) /\ u # t
    BY <2>1, <2>5 DEF Clears, OnlyRd, SeenOf
  <2>6. CASE Clears(t) /\ u = t
    BY <1>2, <2>6 DEF Clears, SeenOf, StoredOf
  <2> QED BY <2>2, <2>3, <2>4, <2>5, <2>6 DEF History
<1> QED BY <1>1, <1>2, <1>3 DEF Origin, FirstOf, NewOf, StoredOf, SeenOf

(* A harmless step keeps Origin and Witnessed. *)
LEMMA WitnessedStep ==
  ASSUME Apart, Control, Protocol, Origin, Witnessed, FreedOk',
         NEW t \in Threads, Harmless(t)
  PROVE  Origin' /\ Witnessed'
<1>1. /\ OnlyRd(t) /\ OnlyWr(t) /\ History(t) /\ KeepsFirst(t) /\ KeepsGone(t)
      /\ KeepsConfirmed(t) /\ KeepsAid(t)
      /\ FirstOf(rd'[t]) /\ NewOf(wr'[t])
  BY DEF Harmless
<1>2. StoredSeen'
  BY <1>1, StoredSeenStep
<1>3. FirstSeen'
  BY <1>1, FirstStep
<1>4. ConfirmedSeen'
  BY <1>1, ConfirmedStep
<1>5. HelpSeen'
  BY <1>1, AidStep
<1>6. Origin'
  BY <1>1, OriginStep
<1> QED BY <1>2, <1>3, <1>4, <1>5, <1>6 DEF Witnessed

(* The load of t goes on with its first read. *)
FirstGoesOn(t) ==
  rd'[t].pc \in FirstPc =>
    /\ rd[t].pc \in FirstPc /\ rd'[t].ptr = rd[t].ptr
    /\ rd'[t].pc # "scan" =>
         \/ slots'[rd'[t].debt] = rd[t].ptr
         \/ /\ rd[t].pc # "scan" /\ rd'[t].debt = rd[t].debt
            /\ slots'[rd[t].debt] = slots[rd[t].debt]

(* What the load of t settles on with a debt is not gone. *)
SettlesWell(t) ==
  \A a \in Objects :
    Gone(a) /\ rd'[t].debt \in SlotIds /\ rd'[t].pc \in SettledPc => rd'[t].ptr # a

(* The write of t has taken nothing that is gone. *)
RemovesWell(t) ==
  \A a \in Objects :
    Gone(a) => /\ ~HasRemoved(wr'[t], a)
               /\ wr'[t].odebt \in SlotIds => wr'[t].old # a

(* A guard with a debt is not on what is gone. *)
GuardsWell ==
  \A a \in Objects : Gone(a) => \A x \in SlotIds : ~OwesGuard(held', x, a)

(* The debts on it in slots of other nodes stay. *)
PaysWell(t) ==
  \A a \in Objects :
    Gone(a) => \A x \in SlotIds : x[1] # t /\ slots[x] = a => slots'[x] = a

(* Together. *)
LEMMA GoneKept ==
  ASSUME NEW t \in Threads, SettlesWell(t), RemovesWell(t), GuardsWell, PaysWell(t)
  PROVE  KeepsGone(t)
BY DEF SettlesWell, RemovesWell, GuardsWell, PaysWell, KeepsGone, GoneFor

(* The load frame is as before, or has no debt, or has not settled. *)
LEMMA SettledBefore ==
  ASSUME NEW t \in Threads,
         \/ rd' = rd
         \/ rd'[t].pc \notin SettledPc
         \/ rd'[t].debt \notin SlotIds
         \/ /\ rd[t].pc \in SettledPc
            /\ rd'[t].ptr = rd[t].ptr /\ rd'[t].debt = rd[t].debt
  PROVE  SettlesWell(t)
BY DEF SettlesWell, Gone, GoneFor

(* The write frame is as before, or goes on with what it has removed, or has
   nothing. *)
LEMMA RemovedBefore ==
  ASSUME NEW t \in Threads,
         \/ wr' = wr
         \/ /\ wr'[t].pc \in {"idle", "drop_new"} \cup CasPc
            /\ \/ wr'[t].odebt \notin SlotIds
               \/ wr'[t].odebt = wr[t].odebt /\ wr'[t].old = wr[t].old
         \/ /\ wr'[t].old = wr[t].old /\ wr'[t].odebt = wr[t].odebt
            /\ wr[t].pc \in PayAllPc \cup {"pre_pay", "release", "drop_old"}
  PROVE  RemovesWell(t)
<1>1. {"idle", "drop_new"} \cup CasPc \subseteq
        WrPc \ (PayAllPc \cup {"pre_pay", "release", "drop_old"})
  BY DEF CasPc, WrPc, PayAllPc
<1> QED BY <1>1 DEF RemovesWell, Gone, GoneFor, HasRemoved

(* The callers' guards are as before; *)
LEMMA GuardsBefore ==
  ASSUME held' = held
  PROVE  GuardsWell
BY DEF GuardsWell, Gone

(* or there is one more, *)
LEMMA GuardsGive ==
  ASSUME Types, NEW h \in Handles, Give(h),
         \A a \in Objects : Gone(a) /\ h.debt \in SlotIds => h.ptr # a
  PROVE  GuardsWell
<1> SUFFICES ASSUME NEW a \in Objects, Gone(a), NEW x \in SlotIds
             PROVE  ~OwesGuard(held', x, a)
  BY DEF GuardsWell
<1> DEFINE g == [ptr |-> a, debt |-> x]
<1>1. g \in Handles /\ g.ptr = a /\ g.debt = x
  BY Handle DEF Ptrs
<1>2. ~(held[g] > 0)
  BY DEF Gone, OwesGuard
<1>3. g # h
  BY <1>1
<1> HIDE DEF g
<1>4. held'[g] = held[g]
  BY <1>1, <1>3 DEF Give, Types
<1>5. ~(held'[g] > 0)
  BY <1>2, <1>4
<1> QED BY <1>5 DEF g, OwesGuard

(* or one less. *)
LEMMA GuardsTake ==
  ASSUME Types, NEW h \in Handles, Take(h)
  PROVE  GuardsWell
<1> SUFFICES ASSUME NEW a \in Objects, Gone(a), NEW x \in SlotIds
             PROVE  ~OwesGuard(held', x, a)
  BY DEF GuardsWell
<1> DEFINE g == [ptr |-> a, debt |-> x]
<1>1. g \in Handles
  BY Handle DEF Ptrs
<1>2. ~(held[g] > 0)
  BY DEF Gone, OwesGuard
<1> HIDE DEF g
<1>3. held[g] \in Nat /\ held'[g] \in {held[g], held[g] - 1}
  BY <1>1 DEF Take, Types
<1>4. ~(held'[g] > 0)
  BY <1>2, <1>3
<1> QED BY <1>4 DEF g, OwesGuard

(* The value for a storage was new, or an Arc. *)
LEMMA GuardsNewValue ==
  ASSUME Types, NEW s \in Storages, NEW v, NewValue(s, v)
  PROVE  GuardsWell
<1>1. v \in Ptrs
  BY PoolAssumption DEF NewValue
<1>2. CASE held' = held
  BY <1>2, GuardsBefore
<1>3. CASE Take(Owned(v))
  BY <1>1, <1>3, Handle, Constants, GuardsTake
<1> QED BY <1>2, <1>3 DEF NewValue

(* The slots of the other nodes are as before, *)
LEMMA SlotsBefore ==
  ASSUME NEW t \in Threads,
         \/ slots' = slots
         \/ \A x \in SlotIds : x[1] # t => slots'[x] = slots[x]
  PROVE  PaysWell(t)
BY DEF PaysWell

(* or a debt is paid that is not on what is gone. *)
LEMMA SlotsPaid ==
  ASSUME Types, NEW t \in Threads, NEW x, NEW p, Paid(x, p) \/ PaidBefore(x, p),
         \A a \in Objects : Gone(a) /\ x \in SlotIds => p # a
  PROVE  PaysWell(t)
<1> SUFFICES ASSUME NEW a \in Objects, Gone(a), NEW y \in SlotIds, slots[y] = a
             PROVE  slots'[y] = a
  BY DEF PaysWell
<1>1. CASE slots' = slots
  BY <1>1
<1>2. CASE slots[x] = p /\ slots' = [slots EXCEPT ![x] = NONE]
  BY <1>2 DEF Types
<1> QED BY <1>1, <1>2 DEF Paid, PaidBefore

(* A reference is released: perhaps its object is freed. *)
LEMMA DecWindow ==
  ASSUME Types, NEW p \in Ptrs, Dec(p)
  PROVE  window' = window \/ Frees
<1>1. CASE p # Null /\ cnt[p] = 1
  <2>1. p \in Objects /\ cnt'[p] = 0
    BY <1>1 DEF Dec, Types, Ptrs
  <2>2. window' = [u \in Threads |-> window[u] \ {p}]
    BY <1>1 DEF Dec
  <2> QED BY <2>1, <2>2 DEF Frees
<1>2. CASE ~(p # Null /\ cnt[p] = 1)
  BY <1>2 DEF Dec
<1> QED BY <1>1, <1>2

(* The words that the others rely on are as before. *)
LEMMA OthersConfirmed ==
  ASSUME Witnessed, NEW t \in Threads, handover' = handover,
         \A u \in Threads : u # t =>
           control'[u] = control[u] /\ generation'[u] = generation[u],
         ConfirmedOk(rd'[t], control'[t], generation'[t], handover, window[t])
  PROVE  KeepsConfirmed(t)
<1>1. ASSUME NEW u \in Threads, u # t
      PROVE  ConfirmedOk(rd[u], control'[u], generation'[u], handover', window[u])
  <2>1. ConfirmedOk(rd[u], control[u], generation[u], handover, window[u])
    BY DEF Witnessed, ConfirmedSeen
  <2>2. control'[u] = control[u] /\ generation'[u] = generation[u]
    BY <1>1
  <2> QED BY <2>1, <2>2
<1> QED BY <1>1 DEF KeepsConfirmed

(* A step of the load of t. *)
LEMMA ReaderHarmless ==
  ASSUME Control, Origin, Witnessed, NEW t \in Threads, OnlyRd(t),
         wr' = wr, storage' = storage, handover' = handover,
         \A u \in Threads : u # t =>
           control'[u] = control[u] /\ generation'[u] = generation[u],
         \A u \in Threads :
           u # t /\ wr[u].node = t /\ wr[u].pc \in AidPc =>
             control'[t] = control[t] \/ control'[t] # wr[u].observed,
         rd'[t].src \in {rd[t].src, NoStorage}, window' = window \/ Frees,
         rd'[t].src = rd[t].src \/ rd'[t].pc \notin FirstPc,
         FirstGoesOn(t), SettlesWell(t), GuardsWell, PaysWell(t),
         ConfirmedOk(rd'[t], control'[t], generation'[t], handover, window[t])
  PROVE  Harmless(t)
<1>1. OnlyWr(t) /\ Quiet(t) /\ History(t)
  BY DEF OnlyWr, Quiet, History
<1>2. FirstOf(rd'[t]) /\ NewOf(wr'[t])
  BY DEF Origin, FirstOf, FirstGoesOn
<1>3. KeepsFirst(t)
  BY DEF KeepsFirst, FirstGoesOn
<1>4. KeepsGone(t)
  BY RemovedBefore, GoneKept
<1>5. KeepsConfirmed(t)
  BY OthersConfirmed
<1>6. KeepsAid(t)
  <2>1. wr[t].pc \in AidPc => control'[wr[t].node] = control[wr[t].node]
    <3>1. HelpOk(t, wr[t]) /\ wr[t].node \in Threads
      BY Own, FrameTypes
    <3> QED BY <3>1 DEF HelpOk, AidPc, HelpPc
  <2>2. ASSUME NEW u \in Threads, u # t, wr[u].pc \in AidPc,
               control'[wr[u].node] = wr[u].observed
        PROVE  control[wr[u].node] = wr[u].observed
    <3>1. wr[u].node \in Threads
      BY Own, FrameTypes
    <3> QED BY <2>2, <3>1
  <2> QED BY <1>1, <2>1, <2>2 DEF KeepsAid
<1> QED BY <1>1, <1>2, <1>3, <1>4, <1>5, <1>6 DEF Harmless

(* A step of the write of t that leaves the words alone. *)
LEMMA WriteHarmless ==
  ASSUME Control, Origin, Witnessed, NEW t \in Threads, OnlyWr(t), rd' = rd,
         rd[t].pc = "idle", storage' = storage, control' = control,
         generation' = generation, handover' = handover,
         window' = window \/ Frees, NewOf(wr'[t]),
         RemovesWell(t), GuardsWell, PaysWell(t),
         \/ wr'[t].pc \notin AidPc
         \/ /\ wr[t].pc \in AidPc \ {"replacement"}
            /\ wr'[t].pc \in AidPc \ {"replacement"}
            /\ wr'[t].node = wr[t].node /\ wr'[t].observed = wr[t].observed
            /\ wr'[t].repl = wr[t].repl
  PROVE  Harmless(t)
<1>1. OnlyRd(t) /\ Quiet(t) /\ History(t)
  BY DEF OnlyRd, Quiet, History
<1>2. FirstOf(rd'[t]) /\ KeepsFirst(t)
  BY DEF FirstOf, KeepsFirst, FirstPc
<1>3. KeepsGone(t)
  BY SettledBefore, GoneKept
<1>4. KeepsConfirmed(t)
  BY DEF KeepsConfirmed, Witnessed, ConfirmedSeen
<1>5. KeepsAid(t)
  <2>1. CASE wr'[t].pc \notin AidPc
    BY <2>1 DEF KeepsAid
  <2>2. CASE wr'[t].pc \in AidPc
    <3>1. HelpOk(t, wr[t]) /\ wr[t].node \in Threads
      BY Own, FrameTypes
    <3>2. HelpSeenOk(wr[t], control[wr[t].node], window[t], window[wr[t].node])
      BY DEF Witnessed, HelpSeen
    <3> QED BY <2>2, <3>1, <3>2 DEF KeepsAid, HelpSeenOk, HelpOk, AidPc, HelpPc
  <2> QED BY <2>1, <2>2
<1> QED BY <1>1, <1>2, <1>3, <1>4, <1>5 DEF Harmless

(* A load of t begins or ends. *)
LEMMA ClearHarmless ==
  ASSUME Control, Origin, Witnessed, NEW t \in Threads, OnlyRd(t), OnlyWr(t),
         control' = control, generation' = generation, handover' = handover,
         slots' = slots, rd[t].pc \notin Announced, Clears(t),
         FirstOf(rd'[t]), NewOf(wr'[t]), RemovesWell(t), GuardsWell,
         \/ wr'[t].pc \notin AidPc
         \/ control'[wr'[t].node] # wr'[t].observed
         \/ /\ wr'[t].pc = "replacement"
            /\ window'[t] \subseteq window'[wr'[t].node]
         \/ /\ wr'[t].pc # "replacement"
            /\ wr'[t].node \in Threads /\ wr'[t].node # t
            /\ wr'[t].repl \in window[wr'[t].node]
  PROVE  Harmless(t)
<1>1. History(t) /\ KeepsFirst(t)
  BY DEF History, KeepsFirst
<1>2. SettlesWell(t) /\ PaysWell(t)
  BY SettledBefore, SlotsBefore DEF Clears, SettledPc
<1>3. KeepsGone(t)
  BY <1>2, GoneKept
<1>4. ConfirmedOk(rd'[t], control'[t], generation'[t], handover, window[t])
  BY Words DEF Clears, ConfirmedOk, Unhelped, SettledPc
<1>5. KeepsConfirmed(t)
  BY <1>4, OthersConfirmed
<1>6. KeepsAid(t)
  BY DEF KeepsAid
<1> QED BY <1>1, <1>3, <1>5, <1>6 DEF Harmless

(* A fast slot gets the debt on the first read, or the next one is tried. *)
LEMMA ScanHarmless ==
  ASSUME Control, Protocol, Memory, Origin, Witnessed, NEW t \in Threads,
         Scan(t)
  PROVE  Harmless(t)
<1>1. Types /\ rd[t].pc = "scan"
  BY Own, ScanEffect
<1>2. /\ wr' = wr /\ storage' = storage /\ handover' = handover
      /\ control' = control /\ generation' = generation /\ held' = held
      /\ window' = window
  BY <1>1, ScanEffect
<1>3. /\ OnlyRd(t) /\ rd'[t].src = rd[t].src
      /\ rd'[t].pc \in {"scan", "confirm", "get_debt"}
      /\ rd'[t].pc # "get_debt" => rd'[t].ptr = rd[t].ptr
  BY <1>1, ScanEffect DEF RdGo, RdMove, RdTo
<1>4. /\ ConfirmedOk(rd[t], control[t], generation[t], handover, window[t])
      /\ FollowOk(rd[t], control[t], generation[t], active_addr[t])
  BY Own DEF Witnessed, ConfirmedSeen
<1>5. FirstGoesOn(t) /\ PaysWell(t)
  <2>1. CASE /\ slots' = slots
             /\ RdGo(t, rd[t].pc) \/ RdMove(t, "get_debt", Null, rd[t].debt)
    <3>1. rd'[t].pc \in {"scan", "get_debt"}
      BY <1>1, <2>1 DEF RdGo, RdMove, RdTo
    <3> QED BY <1>1, <1>3, <2>1, <3>1, SlotsBefore DEF FirstGoesOn, FirstPc
  <2>2. ASSUME NEW k \in 1..DEBT_SLOT_CNT,
               slots' = [slots EXCEPT ![<<t, k>>] = rd[t].ptr],
               RdMove(t, "confirm", rd[t].ptr, <<t, k>>)
        PROVE  FirstGoesOn(t) /\ PaysWell(t)
    <3>1. <<t, k>> \in SlotIds /\ rd'[t].debt = <<t, k>>
      BY <2>2, Slots DEF RdMove, RdTo
    <3>2. slots'[rd'[t].debt] = rd[t].ptr
      BY <1>1, <2>2, <3>1 DEF Types
    <3>3. \A x \in SlotIds : x[1] # t => slots'[x] = slots[x]
      BY <1>1, <2>2, <3>1 DEF Types
    <3> QED BY <1>1, <1>3, <3>2, <3>3, SlotsBefore DEF FirstGoesOn, FirstPc
  <2> QED BY <1>1, <2>1, <2>2, ScanEffect
<1>6. SettlesWell(t) /\ GuardsWell
  BY <1>2, <1>3, SettledBefore, GuardsBefore DEF SettledPc
<1>7. ConfirmedOk(rd'[t], control'[t], generation'[t], handover, window[t])
  BY <1>1, <1>2, <1>3, <1>4, Words
     DEF ConfirmedOk, FollowOk, Unhelped, SettledPc, Announced
<1> QED BY <1>1, <1>2, <1>3, <1>5, <1>6, <1>7, ReaderHarmless

(* The second read of the fast path. *)
LEMMA ConfirmFastHarmless ==
  ASSUME Control, Protocol, Memory, Origin, Witnessed, NEW t \in Threads,
         ConfirmFast(t)
  PROVE  Harmless(t)
<1>1. Types /\ rd[t].pc = "confirm"
  BY Own, ConfirmFastEffect
<1>2. /\ wr' = wr /\ storage' = storage /\ handover' = handover
      /\ control' = control /\ generation' = generation
      /\ held' = held /\ slots' = slots
  BY <1>1, ConfirmFastEffect
<1>3. /\ OnlyRd(t)
      /\ rd'[t].src = rd[t].src /\ rd'[t].ptr = rd[t].ptr
      /\ rd'[t].debt = rd[t].debt /\ rd'[t].pc \in {"return", "give_back"}
      /\ rd'[t].pc = "return" => storage[rd[t].src] = rd[t].ptr
  BY <1>1, ConfirmFastEffect DEF RdGo, RdMove, RdTo
<1>4. /\ ConfirmedOk(rd[t], control[t], generation[t], handover, window[t])
      /\ FollowOk(rd[t], control[t], generation[t], active_addr[t])
      /\ LoadOk(t, rd[t])
  BY Own DEF Witnessed, ConfirmedSeen
<1>10. rd[t].src \in Storages /\ storage[rd[t].src] \in window[t]
  BY <1>1, <1>4 DEF LoadOk, LoadingPc, Announced, Witnessed, StoredSeen
<1>5. FirstGoesOn(t)
  BY <1>1, <1>2, <1>3 DEF FirstGoesOn, FirstPc
<1>6. SettlesWell(t)
  BY <1>3, <1>10 DEF SettlesWell, SettledPc, Gone
<1>7. GuardsWell /\ PaysWell(t)
  BY <1>2, GuardsBefore, SlotsBefore
<1>8. ConfirmedOk(rd'[t], control'[t], generation'[t], handover, window[t])
  BY <1>1, <1>2, <1>3, <1>4, <1>10, Words
     DEF ConfirmedOk, FollowOk, Unhelped, SettledPc, Announced
<1>9. window' = window \/ Frees
  BY <1>1, ConfirmFastEffect
<1> QED BY <1>1, <1>2, <1>3, <1>5, <1>6, <1>7, <1>8, <1>9, ReaderHarmless
        DEF FirstPc

(* The debt came too late: it is given back, or was paid. *)
LEMMA GiveBackHarmless ==
  ASSUME Control, Protocol, Memory, Origin, Witnessed, NEW t \in Threads,
         GiveBack(t)
  PROVE  Harmless(t)
<1>1. Types /\ rd[t].pc = "give_back"
  BY Own, GiveBackEffect
<1>2. /\ wr' = wr /\ storage' = storage /\ handover' = handover
      /\ control' = control /\ generation' = generation /\ held' = held
  BY <1>1, GiveBackEffect
<1>3. /\ OnlyRd(t)
      /\ rd'[t].src = rd[t].src /\ rd'[t].debt = NoDebt
      /\ rd'[t].pc \in {"return", "get_debt"}
      /\ rd'[t].pc = "return" =>
           rd'[t].ptr = rd[t].ptr /\ slots[rd[t].debt] # rd[t].ptr
  BY <1>1, GiveBackEffect DEF PaidBefore, RdMove, RdTo
<1>4. /\ ConfirmedOk(rd[t], control[t], generation[t], handover, window[t])
      /\ FollowOk(rd[t], control[t], generation[t], active_addr[t])
      /\ LoadOk(t, rd[t])
  BY Own DEF Witnessed, ConfirmedSeen
<1>10. rd[t].debt \in SlotIds /\ rd[t].debt[1] = t
  BY <1>1, OwnSlot DEF UnconfirmedPc
<1>11. rd'[t].pc = "return" => rd[t].ptr \in window[t]
  BY <1>1, <1>3 DEF Witnessed, FirstSeen, FirstSeenOk, FirstPc
<1>5. FirstGoesOn(t)
  BY <1>3 DEF FirstGoesOn, FirstPc
<1>6. SettlesWell(t)
  BY <1>3, SettledBefore, Slots
<1>7. GuardsWell /\ PaysWell(t)
  <2>1. \A x \in SlotIds : x[1] # t => slots'[x] = slots[x]
    BY <1>1, <1>10, GiveBackEffect DEF Paid, PaidBefore, Types
  <2> QED BY <1>2, <2>1, GuardsBefore, SlotsBefore
<1>8. ConfirmedOk(rd'[t], control'[t], generation'[t], handover, window[t])
  BY <1>1, <1>2, <1>3, <1>4, <1>11, Words
     DEF ConfirmedOk, FollowOk, Unhelped, SettledPc, Announced
<1>9. window' = window \/ Frees
  BY <1>1, GiveBackEffect
<1> QED BY <1>1, <1>2, <1>3, <1>5, <1>6, <1>7, <1>8, <1>9, ReaderHarmless
        DEF FirstPc

(* The candidate is read from the storage. *)
LEMMA CandidateHarmless ==
  ASSUME Control, Protocol, Memory, Origin, Witnessed, NEW t \in Threads,
         Candidate(t)
  PROVE  Harmless(t)
<1>1. Types /\ rd[t].pc = "candidate"
  BY Own, CandidateEffect
<1>2. /\ wr' = wr /\ storage' = storage /\ handover' = handover
      /\ control' = control /\ generation' = generation
      /\ held' = held /\ slots' = slots
  BY <1>1, CandidateEffect
<1>3. /\ OnlyRd(t)
      /\ rd'[t].src = rd[t].src /\ rd'[t].ptr = storage[rd[t].src]
      /\ rd'[t].pc \in {"slot", "panicked"}
  BY <1>1, CandidateEffect DEF RdMove, RdTo
<1>4. /\ ConfirmedOk(rd[t], control[t], generation[t], handover, window[t])
      /\ FollowOk(rd[t], control[t], generation[t], active_addr[t])
      /\ LoadOk(t, rd[t])
  BY Own DEF Witnessed, ConfirmedSeen
<1>10. rd[t].src \in Storages /\ storage[rd[t].src] \in window[t]
  BY <1>1, <1>4 DEF LoadOk, LoadingPc, Announced, Witnessed, StoredSeen
<1>5. FirstGoesOn(t)
  BY <1>3 DEF FirstGoesOn, FirstPc
<1>6. SettlesWell(t)
  BY <1>1, <1>3, SettledBefore DEF SettledPc
<1>7. GuardsWell /\ PaysWell(t)
  BY <1>2, GuardsBefore, SlotsBefore
<1>8. ConfirmedOk(rd'[t], control'[t], generation'[t], handover, window[t])
  BY <1>1, <1>2, <1>3, <1>4, <1>10 DEF ConfirmedOk, Unhelped, SettledPc
<1>9. window' = window \/ Frees
  BY <1>1, CandidateEffect
<1> QED BY <1>1, <1>2, <1>3, <1>5, <1>6, <1>7, <1>8, <1>9, ReaderHarmless
        DEF FirstPc

(* The debt on the candidate. *)
LEMMA ConfirmSlotHarmless ==
  ASSUME Control, Protocol, Memory, Origin, Witnessed, NEW t \in Threads,
         ConfirmSlot(t)
  PROVE  Harmless(t)
<1>1. Types /\ rd[t].pc = "slot"
  BY Own, ConfirmSlotEffect
<1>2. /\ wr' = wr /\ storage' = storage /\ handover' = handover
      /\ control' = control /\ generation' = generation /\ held' = held
  BY <1>1, ConfirmSlotEffect
<1>3. /\ OnlyRd(t)
      /\ rd'[t].src = rd[t].src /\ rd'[t].ptr = rd[t].ptr
      /\ rd'[t].pc = "confirm_control"
  BY <1>1, ConfirmSlotEffect DEF RdMove, RdTo
<1>4. /\ ConfirmedOk(rd[t], control[t], generation[t], handover, window[t])
      /\ FollowOk(rd[t], control[t], generation[t], active_addr[t])
      /\ LoadOk(t, rd[t])
  BY Own DEF Witnessed, ConfirmedSeen
<1>5. FirstGoesOn(t)
  BY <1>3 DEF FirstGoesOn, FirstPc
<1>6. SettlesWell(t)
  BY <1>1, <1>3, SettledBefore DEF SettledPc
<1>7. GuardsWell /\ PaysWell(t)
  <2>1. <<t, HELPING>> \in SlotIds
    BY HelpingSlotId
  <2>2. \A x \in SlotIds : x[1] # t => slots'[x] = slots[x]
    BY <1>1, <2>1, ConfirmSlotEffect DEF Types
  <2> QED BY <1>2, <2>2, GuardsBefore, SlotsBefore
<1>8. ConfirmedOk(rd'[t], control'[t], generation'[t], handover, window[t])
  BY <1>1, <1>2, <1>3, <1>4 DEF ConfirmedOk, Unhelped, SettledPc
<1>9. window' = window \/ Frees
  BY <1>1, ConfirmSlotEffect
<1> QED BY <1>1, <1>2, <1>3, <1>5, <1>6, <1>7, <1>8, <1>9, ReaderHarmless
        DEF FirstPc

(* The replacement is taken out of its envelope. *)
LEMMA TakeHandoverHarmless ==
  ASSUME Control, Protocol, Memory, Origin, Witnessed, NEW t \in Threads,
         TakeHandover(t)
  PROVE  Harmless(t)
<1>1. Types /\ rd[t].pc = "take"
  BY Own, TakeHandoverEffect
<1>2. /\ wr' = wr /\ storage' = storage /\ handover' = handover
      /\ control' = control /\ generation' = generation
      /\ held' = held /\ slots' = slots
  BY <1>1, TakeHandoverEffect
<1>3. /\ OnlyRd(t)
      /\ rd'[t].src = rd[t].src /\ rd'[t].got = handover[rd[t].env]
      /\ rd'[t].pc = "unused_pay"
  BY <1>1, TakeHandoverEffect DEF RdTo
<1>4. /\ ConfirmedOk(rd[t], control[t], generation[t], handover, window[t])
      /\ FollowOk(rd[t], control[t], generation[t], active_addr[t])
      /\ LoadOk(t, rd[t])
  BY Own DEF Witnessed, ConfirmedSeen
<1>5. FirstGoesOn(t)
  BY <1>3 DEF FirstGoesOn, FirstPc
<1>6. SettlesWell(t)
  BY <1>1, <1>3, SettledBefore DEF SettledPc
<1>7. GuardsWell /\ PaysWell(t)
  BY <1>2, GuardsBefore, SlotsBefore
<1>8. ConfirmedOk(rd'[t], control'[t], generation'[t], handover, window[t])
  BY <1>1, <1>2, <1>3, <1>4, Words
     DEF ConfirmedOk, FollowOk, Unhelped, SettledPc, Announced
<1>9. window' = window \/ Frees
  BY <1>1, TakeHandoverEffect
<1> QED BY <1>1, <1>2, <1>3, <1>5, <1>6, <1>7, <1>8, <1>9, ReaderHarmless
        DEF FirstPc

(* The debt on the candidate is given back. *)
LEMMA UnusedPayHarmless ==
  ASSUME Control, Protocol, Memory, Origin, Witnessed, NEW t \in Threads,
         UnusedPay(t)
  PROVE  Harmless(t)
<1>1. Types /\ rd[t].pc = "unused_pay"
  BY Own, UnusedPayEffect
<1>2. /\ wr' = wr /\ storage' = storage /\ handover' = handover
      /\ control' = control /\ generation' = generation /\ held' = held
  BY <1>1, UnusedPayEffect
<1>3. /\ OnlyRd(t)
      /\ rd'[t].src = rd[t].src /\ rd'[t].pc \in {"return", "unused_dec"}
      /\ rd'[t].pc = "return" => rd'[t].ptr = rd[t].got /\ rd'[t].debt = NoDebt
      /\ rd'[t].pc = "unused_dec" => rd'[t].got = rd[t].got
  BY <1>1, UnusedPayEffect DEF RdGo, RdMove, RdTo
<1>4. /\ ConfirmedOk(rd[t], control[t], generation[t], handover, window[t])
      /\ FollowOk(rd[t], control[t], generation[t], active_addr[t])
      /\ LoadOk(t, rd[t])
  BY Own DEF Witnessed, ConfirmedSeen
<1>5. FirstGoesOn(t)
  BY <1>3 DEF FirstGoesOn, FirstPc
<1>6. SettlesWell(t)
  BY <1>3, SettledBefore, Slots DEF SettledPc
<1>7. GuardsWell /\ PaysWell(t)
  <2>1. rd[t].debt \in SlotIds /\ rd[t].debt[1] = t
    BY <1>1, OwnSlot DEF UnconfirmedPc
  <2>2. \A x \in SlotIds : x[1] # t => slots'[x] = slots[x]
    BY <1>1, <2>1, UnusedPayEffect DEF Paid, PaidBefore, Types
  <2> QED BY <1>2, <2>2, GuardsBefore, SlotsBefore
<1>8. ConfirmedOk(rd'[t], control'[t], generation'[t], handover, window[t])
  BY <1>1, <1>2, <1>3, <1>4, Words
     DEF ConfirmedOk, FollowOk, Unhelped, SettledPc, Announced
<1>9. window' = window \/ Frees
  BY <1>1, UnusedPayEffect
<1> QED BY <1>1, <1>2, <1>3, <1>5, <1>6, <1>7, <1>8, <1>9, ReaderHarmless
        DEF FirstPc

(* The reference that paid the debt is released. *)
LEMMA UnusedDecHarmless ==
  ASSUME Control, Protocol, Memory, Origin, Witnessed, NEW t \in Threads,
         UnusedDec(t)
  PROVE  Harmless(t)
<1>1. Types /\ rd[t].pc = "unused_dec"
  BY Own, UnusedDecEffect
<1>2. /\ wr' = wr /\ storage' = storage /\ handover' = handover
      /\ control' = control /\ generation' = generation
      /\ held' = held /\ slots' = slots
  BY <1>1, UnusedDecEffect
<1>3. /\ OnlyRd(t)
      /\ rd'[t].src = rd[t].src /\ rd'[t].pc = "return" /\ rd'[t].ptr = rd[t].got
      /\ rd'[t].debt = NoDebt
  BY <1>1, UnusedDecEffect DEF RdTo
<1>4. /\ ConfirmedOk(rd[t], control[t], generation[t], handover, window[t])
      /\ FollowOk(rd[t], control[t], generation[t], active_addr[t])
      /\ LoadOk(t, rd[t])
  BY Own DEF Witnessed, ConfirmedSeen
<1>5. FirstGoesOn(t)
  BY <1>3 DEF FirstGoesOn, FirstPc
<1>6. SettlesWell(t)
  BY <1>3, SettledBefore, Slots
<1>7. GuardsWell /\ PaysWell(t)
  BY <1>2, GuardsBefore, SlotsBefore
<1>8. ConfirmedOk(rd'[t], control'[t], generation'[t], handover, window[t])
  BY <1>1, <1>2, <1>3, <1>4, Words
     DEF ConfirmedOk, FollowOk, Unhelped, SettledPc, Announced
<1>9. window' = window \/ Frees
  <2>1. rd[t].ptr \in Ptrs /\ Dec(rd[t].ptr)
    BY <1>1, FrameTypes, UnusedDecEffect
  <2> QED BY <1>1, <2>1, DecWindow
<1> QED BY <1>1, <1>2, <1>3, <1>5, <1>6, <1>7, <1>8, <1>9, ReaderHarmless
        DEF FirstPc

(* into_inner takes a reference. *)
LEMMA IntoInnerIncHarmless ==
  ASSUME Control, Protocol, Memory, Origin, Witnessed, NEW t \in Threads,
         IntoInnerInc(t)
  PROVE  Harmless(t)
<1>1. Types /\ rd[t].pc = "inc"
  BY Own, IntoInnerIncEffect
<1>2. /\ wr' = wr /\ storage' = storage /\ handover' = handover
      /\ control' = control /\ generation' = generation
      /\ held' = held /\ slots' = slots
  BY <1>1, IntoInnerIncEffect
<1>3. /\ OnlyRd(t)
      /\ rd'[t].src = rd[t].src /\ rd'[t].ptr = rd[t].ptr
      /\ rd'[t].debt = rd[t].debt /\ rd'[t].pc = "inner_pay"
  BY <1>1, IntoInnerIncEffect DEF RdGo, RdMove, RdTo
<1>4. /\ ConfirmedOk(rd[t], control[t], generation[t], handover, window[t])
      /\ FollowOk(rd[t], control[t], generation[t], active_addr[t])
      /\ LoadOk(t, rd[t])
  BY Own DEF Witnessed, ConfirmedSeen
<1>5. FirstGoesOn(t)
  BY <1>3 DEF FirstGoesOn, FirstPc
<1>6. SettlesWell(t)
  BY <1>1, <1>3, SettledBefore DEF SettledPc
<1>7. GuardsWell /\ PaysWell(t)
  BY <1>2, GuardsBefore, SlotsBefore
<1>8. ConfirmedOk(rd'[t], control'[t], generation'[t], handover, window[t])
  BY <1>1, <1>2, <1>3, <1>4, Words
     DEF ConfirmedOk, FollowOk, Unhelped, SettledPc, Announced
<1>9. window' = window \/ Frees
  BY <1>1, IntoInnerIncEffect
<1> QED BY <1>1, <1>2, <1>3, <1>5, <1>6, <1>7, <1>8, <1>9, ReaderHarmless
        DEF FirstPc

(* The debt is paid with it, or has been paid. *)
LEMMA IntoInnerPayHarmless ==
  ASSUME Control, Protocol, Memory, Origin, Witnessed, NEW t \in Threads,
         IntoInnerPay(t)
  PROVE  Harmless(t)
<1>1. Types /\ rd[t].pc = "inner_pay"
  BY Own, IntoInnerPayEffect
<1>2. /\ wr' = wr /\ storage' = storage /\ handover' = handover
      /\ control' = control /\ generation' = generation /\ held' = held
  BY <1>1, IntoInnerPayEffect
<1>3. /\ OnlyRd(t)
      /\ rd'[t].src = rd[t].src /\ rd'[t].ptr = rd[t].ptr
      /\ rd'[t].pc \in {"return", "inner_dec"}
      /\ rd'[t].pc = "return" => rd'[t].debt = NoDebt
  BY <1>1, IntoInnerPayEffect DEF RdGo, RdMove, RdTo
<1>4. /\ ConfirmedOk(rd[t], control[t], generation[t], handover, window[t])
      /\ FollowOk(rd[t], control[t], generation[t], active_addr[t])
      /\ LoadOk(t, rd[t])
  BY Own DEF Witnessed, ConfirmedSeen
<1>5. FirstGoesOn(t)
  BY <1>3 DEF FirstGoesOn, FirstPc
<1>6. SettlesWell(t)
  BY <1>3, SettledBefore, Slots DEF SettledPc
<1>7. GuardsWell /\ PaysWell(t)
  <2>1. \A a \in Objects : Gone(a) /\ rd[t].debt \in SlotIds => rd[t].ptr # a
    BY <1>1 DEF Gone, GoneFor, SettledPc
  <2>2. Paid(rd[t].debt, rd[t].ptr) \/ PaidBefore(rd[t].debt, rd[t].ptr)
    BY <1>1, IntoInnerPayEffect
  <2> QED BY <1>1, <1>2, <2>1, <2>2, GuardsBefore, SlotsPaid
<1>8. ConfirmedOk(rd'[t], control'[t], generation'[t], handover, window[t])
  BY <1>1, <1>2, <1>3, <1>4, Words
     DEF ConfirmedOk, FollowOk, Unhelped, SettledPc, Announced
<1>9. window' = window \/ Frees
  BY <1>1, IntoInnerPayEffect
<1> QED BY <1>1, <1>2, <1>3, <1>5, <1>6, <1>7, <1>8, <1>9, ReaderHarmless
        DEF FirstPc

(* The second reference is released. *)
LEMMA IntoInnerDecHarmless ==
  ASSUME Control, Protocol, Memory, Origin, Witnessed, NEW t \in Threads,
         IntoInnerDec(t)
  PROVE  Harmless(t)
<1>1. Types /\ rd[t].pc = "inner_dec"
  BY Own, IntoInnerDecEffect
<1>2. /\ wr' = wr /\ storage' = storage /\ handover' = handover
      /\ control' = control /\ generation' = generation
      /\ held' = held /\ slots' = slots
  BY <1>1, IntoInnerDecEffect
<1>3. /\ OnlyRd(t)
      /\ rd'[t].src = rd[t].src /\ rd'[t].ptr = rd[t].ptr
      /\ rd'[t].pc = "return" /\ rd'[t].debt = NoDebt
  BY <1>1, IntoInnerDecEffect DEF RdMove, RdTo
<1>4. /\ ConfirmedOk(rd[t], control[t], generation[t], handover, window[t])
      /\ FollowOk(rd[t], control[t], generation[t], active_addr[t])
      /\ LoadOk(t, rd[t])
  BY Own DEF Witnessed, ConfirmedSeen
<1>5. FirstGoesOn(t)
  BY <1>3 DEF FirstGoesOn, FirstPc
<1>6. SettlesWell(t)
  BY <1>3, SettledBefore, Slots
<1>7. GuardsWell /\ PaysWell(t)
  BY <1>2, GuardsBefore, SlotsBefore
<1>8. ConfirmedOk(rd'[t], control'[t], generation'[t], handover, window[t])
  BY <1>1, <1>2, <1>3, <1>4, Words
     DEF ConfirmedOk, FollowOk, Unhelped, SettledPc, Announced
<1>9. window' = window \/ Frees
  <2>1. rd[t].ptr \in Ptrs /\ Dec(rd[t].ptr)
    BY <1>1, FrameTypes, IntoInnerDecEffect
  <2> QED BY <1>1, <2>1, DecWindow
<1> QED BY <1>1, <1>2, <1>3, <1>5, <1>6, <1>7, <1>8, <1>9, ReaderHarmless
        DEF FirstPc

(* load_full goes on to into_inner. *)
LEMMA ReturnFullHarmless ==
  ASSUME Control, Protocol, Memory, Origin, Witnessed, NEW t \in Threads,
         ReturnFull(t)
  PROVE  Harmless(t)
<1>1. Types /\ rd[t].pc = "return"
  BY Own, ReturnFullEffect
<1>2. /\ wr' = wr /\ storage' = storage /\ handover' = handover
      /\ control' = control /\ generation' = generation
      /\ held' = held /\ slots' = slots
  BY <1>1, ReturnFullEffect
<1>3. /\ OnlyRd(t)
      /\ rd'[t].src = rd[t].src /\ rd'[t].ptr = rd[t].ptr
      /\ rd'[t].debt = rd[t].debt /\ rd'[t].pc = "inc"
  BY <1>1, ReturnFullEffect DEF RdGo, RdMove, RdTo
<1>4. /\ ConfirmedOk(rd[t], control[t], generation[t], handover, window[t])
      /\ FollowOk(rd[t], control[t], generation[t], active_addr[t])
      /\ LoadOk(t, rd[t])
  BY Own DEF Witnessed, ConfirmedSeen
<1>5. FirstGoesOn(t)
  BY <1>3 DEF FirstGoesOn, FirstPc
<1>6. SettlesWell(t)
  BY <1>1, <1>3, SettledBefore DEF SettledPc
<1>7. GuardsWell /\ PaysWell(t)
  BY <1>2, GuardsBefore, SlotsBefore
<1>8. ConfirmedOk(rd'[t], control'[t], generation'[t], handover, window[t])
  BY <1>1, <1>2, <1>3, <1>4, Words
     DEF ConfirmedOk, FollowOk, Unhelped, SettledPc, Announced
<1>9. window' = window \/ Frees
  BY <1>1, ReturnFullEffect
<1> QED BY <1>1, <1>2, <1>3, <1>5, <1>6, <1>7, <1>8, <1>9, ReaderHarmless
        DEF FirstPc

(* The reference of a dropped guard is released. *)
LEMMA DropDecHarmless ==
  ASSUME Control, Protocol, Memory, Origin, Witnessed, NEW t \in Threads,
         DropDec(t)
  PROVE  Harmless(t)
<1>1. Types /\ rd[t].pc = "drop_dec"
  BY Own, DropDecEffect
<1>2. /\ wr' = wr /\ storage' = storage /\ handover' = handover
      /\ control' = control /\ generation' = generation
      /\ held' = held /\ slots' = slots
  BY <1>1, DropDecEffect
<1>3. /\ OnlyRd(t)
      /\ rd'[t].src = NoStorage /\ rd'[t].pc = "idle"
  BY <1>1, DropDecEffect DEF RdIdle, RdTo
<1>4. /\ ConfirmedOk(rd[t], control[t], generation[t], handover, window[t])
      /\ FollowOk(rd[t], control[t], generation[t], active_addr[t])
      /\ LoadOk(t, rd[t])
  BY Own DEF Witnessed, ConfirmedSeen
<1>5. FirstGoesOn(t)
  BY <1>3 DEF FirstGoesOn, FirstPc
<1>6. SettlesWell(t)
  BY <1>1, <1>3, SettledBefore DEF SettledPc
<1>7. GuardsWell /\ PaysWell(t)
  BY <1>2, GuardsBefore, SlotsBefore
<1>8. ConfirmedOk(rd'[t], control'[t], generation'[t], handover, window[t])
  BY <1>1, <1>2, <1>3, <1>4, Words
     DEF ConfirmedOk, FollowOk, Unhelped, SettledPc, Announced
<1>9. window' = window \/ Frees
  <2>1. rd[t].ptr \in Ptrs /\ Dec(rd[t].ptr)
    BY <1>1, FrameTypes, DropDecEffect
  <2> QED BY <1>1, <2>1, DecWindow
<1> QED BY <1>1, <1>2, <1>3, <1>5, <1>6, <1>7, <1>8, <1>9, ReaderHarmless
        DEF FirstPc

(* A new generation. *)
LEMMA GetDebtHarmless ==
  ASSUME Control, Protocol, Memory, Origin, Witnessed, NEW t \in Threads,
         GetDebt(t)
  PROVE  Harmless(t)
<1>1. Types /\ rd[t].pc = "get_debt"
  BY Own, GetDebtEffect
<1>2. /\ wr' = wr /\ storage' = storage /\ handover' = handover
      /\ control' = control /\ held' = held /\ slots' = slots
  BY <1>1, GetDebtEffect
<1>3. /\ OnlyRd(t)
      /\ rd'[t].src = rd[t].src /\ rd'[t].pc = "control"
  BY <1>1, GetDebtEffect DEF RdGo, RdMove, RdTo
<1>4. /\ ConfirmedOk(rd[t], control[t], generation[t], handover, window[t])
      /\ FollowOk(rd[t], control[t], generation[t], active_addr[t])
      /\ LoadOk(t, rd[t])
  BY Own DEF Witnessed, ConfirmedSeen
<1>10. \A u \in Threads : u # t =>
         control'[u] = control[u] /\ generation'[u] = generation[u]
  BY <1>1, GetDebtEffect DEF Types
<1>5. FirstGoesOn(t)
  BY <1>3 DEF FirstGoesOn, FirstPc
<1>6. SettlesWell(t)
  BY <1>1, <1>3, SettledBefore DEF SettledPc
<1>7. GuardsWell /\ PaysWell(t)
  BY <1>2, GuardsBefore, SlotsBefore
<1>8. ConfirmedOk(rd'[t], control'[t], generation'[t], handover, window[t])
  BY <1>1, <1>2, <1>3, <1>4, Words
     DEF ConfirmedOk, FollowOk, Unhelped, SettledPc, Announced
<1>9. window' = window \/ Frees
  BY <1>1, GetDebtEffect
<1> QED BY <1>1, <1>2, <1>3, <1>5, <1>6, <1>7, <1>8, <1>9, <1>10, ReaderHarmless
        DEF FirstPc, Types

(* It is published: no helper of this node has seen it before. *)
LEMMA GetDebtControlHarmless ==
  ASSUME Control, Protocol, Memory, Origin, Witnessed, NEW t \in Threads,
         GetDebtControl(t)
  PROVE  Harmless(t)
<1>1. Types /\ rd[t].pc = "control"
  BY Own, GetDebtControlEffect
<1>2. /\ wr' = wr /\ storage' = storage /\ handover' = handover
      /\ generation' = generation
      /\ held' = held /\ slots' = slots
  BY <1>1, GetDebtControlEffect
<1>3. /\ OnlyRd(t)
      /\ rd'[t].src = rd[t].src /\ rd'[t].pc = "candidate"
  BY <1>1, GetDebtControlEffect DEF RdGo, RdMove, RdTo
<1>4. /\ ConfirmedOk(rd[t], control[t], generation[t], handover, window[t])
      /\ FollowOk(rd[t], control[t], generation[t], active_addr[t])
      /\ LoadOk(t, rd[t])
  BY Own DEF Witnessed, ConfirmedSeen
<1>10. \A u \in Threads : u # t =>
         control'[u] = control[u] /\ generation'[u] = generation[u]
  BY <1>1, GetDebtControlEffect DEF Types
<1>11. control'[t] = Gen(generation[t])
  BY <1>1, GetDebtControlEffect DEF Types
<1>12. ASSUME NEW u \in Threads, u # t, wr[u].node = t, wr[u].pc \in AidPc
      PROVE  control'[t] # wr[u].observed
  <2>1. HelpOk(u, wr[u]) /\ PastOk(wr[u], rd[t], generation[t])
    BY <1>12, Own, Seen
  <2> QED BY <1>1, <1>11, <1>12, <2>1 DEF HelpOk, PastOk, AidPc, HelpPc
<1>5. FirstGoesOn(t)
  BY <1>3 DEF FirstGoesOn, FirstPc
<1>6. SettlesWell(t)
  BY <1>1, <1>3, SettledBefore DEF SettledPc
<1>7. GuardsWell /\ PaysWell(t)
  BY <1>2, GuardsBefore, SlotsBefore
<1>8. ConfirmedOk(rd'[t], control'[t], generation'[t], handover, window[t])
  BY <1>1, <1>3, <1>11, Words DEF ConfirmedOk, Unhelped, SettledPc
<1>9. window' = window \/ Frees
  BY <1>1, GetDebtControlEffect
<1> QED BY <1>1, <1>2, <1>3, <1>5, <1>6, <1>7, <1>8, <1>9, <1>10, <1>12,
           ReaderHarmless
        DEF FirstPc, Types

(* The control word is taken back. *)
LEMMA ConfirmControlHarmless ==
  ASSUME Control, Protocol, Memory, Origin, Witnessed, NEW t \in Threads,
         ConfirmControl(t)
  PROVE  Harmless(t)
<1>1. Types /\ rd[t].pc = "confirm_control"
  BY Own, ConfirmControlEffect
<1>2. /\ wr' = wr /\ storage' = storage /\ handover' = handover
      /\ generation' = generation
      /\ held' = held /\ slots' = slots
  BY <1>1, ConfirmControlEffect
<1>3. /\ OnlyRd(t)
      /\ rd'[t].src = rd[t].src /\ rd'[t].ptr = rd[t].ptr
      /\ rd'[t].debt = rd[t].debt /\ rd'[t].pc \in {"inc", "take"}
      /\ rd'[t].pc = "inc" => control[t] = Gen(generation[t])
      /\ rd'[t].pc = "take" =>
           control[t] # Gen(generation[t]) /\ rd'[t].env = control[t][2]
  BY <1>1, ConfirmControlEffect DEF RdGo, RdMove, RdTo
<1>4. /\ ConfirmedOk(rd[t], control[t], generation[t], handover, window[t])
      /\ FollowOk(rd[t], control[t], generation[t], active_addr[t])
      /\ LoadOk(t, rd[t])
  BY Own DEF Witnessed, ConfirmedSeen
<1>10. \A u \in Threads : u # t =>
         control'[u] = control[u] /\ generation'[u] = generation[u]
  BY <1>1, ConfirmControlEffect DEF Types
<1>11. control'[t] = IDLE
  BY <1>1, ConfirmControlEffect DEF Types
<1>12. ASSUME NEW u \in Threads, u # t, wr[u].node = t, wr[u].pc \in AidPc
      PROVE  control'[t] # wr[u].observed
  <2>1. HelpOk(u, wr[u])
    BY <1>12, Own
  <2> QED BY <1>11, <1>12, <2>1, Words DEF HelpOk, AidPc, HelpPc
<1>5. FirstGoesOn(t)
  BY <1>3 DEF FirstGoesOn, FirstPc
<1>6. SettlesWell(t)
  <2> SUFFICES ASSUME NEW a \in Objects, Gone(a), rd'[t].pc = "inc"
               PROVE  rd[t].ptr # a
    BY <1>3 DEF SettlesWell, SettledPc
  <2>1. Unhelped(rd[t], control[t], generation[t]) /\ rd[t].src \in Storages
    BY <1>1, <1>3, <1>4 DEF Unhelped, LoadOk, LoadingPc, Announced
  <2>2. ASSUME NEW u \in Threads, wr[u].old = rd[t].ptr,
               WillHelp(wr[u], t, rd[t].src, control[t])
        PROVE  rd[t].ptr # a
    <3>1. HasRemoved(wr[u], rd[t].ptr)
      BY <2>2 DEF HasRemoved, WillHelp, PayAllPc
    <3> QED BY <3>1 DEF Gone, GoneFor
  <2> QED BY <2>1, <2>2 DEF Memory, CandidateCovered, Gone
<1>7. GuardsWell /\ PaysWell(t)
  BY <1>2, GuardsBefore, SlotsBefore
<1>8. ConfirmedOk(rd'[t], control'[t], generation'[t], handover, window[t])
  <2>1. rd'[t].pc = "take" => IsReplacement(control[t])
    BY <1>1, <1>3, <1>4, Words DEF FollowOk, Announced
  <2> QED BY <1>1, <1>3, <1>4, <1>11, <2>1, Words
          DEF ConfirmedOk, Unhelped, SettledPc
<1>9. window' = window \/ Frees
  BY <1>1, ConfirmControlEffect
<1> QED BY <1>1, <1>2, <1>3, <1>5, <1>6, <1>7, <1>8, <1>9, <1>10, <1>12,
           ReaderHarmless
        DEF FirstPc, Types

(* The value that was not stored is dropped. *)
LEMMA DropNewHarmless ==
  ASSUME Control, Protocol, Memory, Origin, Witnessed, NEW t \in Threads,
         DropNew(t)
  PROVE  Harmless(t)
<1>1. Types /\ wr[t].pc = "drop_new" /\ rd[t].pc = "idle"
  <2>1. Types /\ wr[t].pc = "drop_new"
    BY Own, DropNewEffect
  <2>2. WriteOk(wr[t], rd[t])
    BY Own
  <2> QED BY <2>1, <2>2 DEF WriteOk
<1>2. /\ rd' = rd /\ storage' = storage /\ control' = control
      /\ generation' = generation /\ handover' = handover
  BY <1>1, DropNewEffect
<1>3. /\ OnlyWr(t)
      /\ wr'[t].pc = "idle" /\ wr'[t].odebt = NoDebt
  BY <1>1, DropNewEffect DEF WrIdle, WrBegins, WrTo
<1>4. NewOf(wr'[t])
  BY <1>1, <1>3 DEF NewOf, CasPc, Origin
<1>5. RemovesWell(t)
  BY <1>1, <1>3, Slots, RemovedBefore DEF PayAllPc, CasPc
<1>6. GuardsWell
  BY <1>1, DropNewEffect, GuardsBefore
<1>7. PaysWell(t)
  BY <1>1, DropNewEffect, SlotsBefore
<1>8. window' = window \/ Frees
  <2>1. wr[t].new \in Ptrs /\ Dec(wr[t].new)
    BY <1>1, FrameTypes, DropNewEffect
  <2> QED BY <1>1, <2>1, DecWindow
<1> QED BY <1>1, <1>2, <1>3, <1>4, <1>5, <1>6, <1>7, <1>8, WriteHarmless
        DEF AidPc

(* The exchange has failed: the guard is dropped. *)
LEMMA CasFailedHarmless ==
  ASSUME Control, Protocol, Memory, Origin, Witnessed, NEW t \in Threads,
         CasFailed(t)
  PROVE  Harmless(t)
<1>1. Types /\ wr[t].pc = "cas" /\ rd[t].pc = "idle"
  <2>1. Types /\ wr[t].pc = "cas"
    BY Own, CasFailedEffect
  <2>2. WriteOk(wr[t], rd[t])
    BY Own
  <2> QED BY <2>1, <2>2 DEF WriteOk
<1>2. /\ rd' = rd /\ storage' = storage /\ control' = control
      /\ generation' = generation /\ handover' = handover
  BY <1>1, CasFailedEffect
<1>3. /\ OnlyWr(t)
      /\ wr'[t].pc \in {"cas_dec", "cas_pay"}
      /\ wr'[t].old = wr[t].old /\ wr'[t].odebt = wr[t].odebt
      /\ wr'[t].new = wr[t].new /\ wr'[t].dst = wr[t].dst
  BY <1>1, CasFailedEffect DEF WrGo, WrCas, WrTo
<1>4. NewOf(wr'[t])
  BY <1>1, <1>3 DEF NewOf, CasPc, Origin
<1>5. RemovesWell(t)
  BY <1>1, <1>3, Slots, RemovedBefore DEF PayAllPc, CasPc
<1>6. GuardsWell
  BY <1>1, CasFailedEffect, GuardsBefore
<1>7. PaysWell(t)
  BY <1>1, CasFailedEffect, SlotsBefore
<1>8. window' = window \/ Frees
  BY <1>1, CasFailedEffect
<1> QED BY <1>1, <1>2, <1>3, <1>4, <1>5, <1>6, <1>7, <1>8, WriteHarmless
        DEF AidPc

(* The debt of that guard is given back, or was paid. *)
LEMMA CasPayHarmless ==
  ASSUME Control, Protocol, Memory, Origin, Witnessed, NEW t \in Threads,
         CasPay(t)
  PROVE  Harmless(t)
<1>1. Types /\ wr[t].pc = "cas_pay" /\ rd[t].pc = "idle"
  <2>1. Types /\ wr[t].pc = "cas_pay"
    BY Own, CasPayEffect
  <2>2. WriteOk(wr[t], rd[t])
    BY Own
  <2> QED BY <2>1, <2>2 DEF WriteOk
<1>2. /\ rd' = rd /\ storage' = storage /\ control' = control
      /\ generation' = generation /\ handover' = handover
  BY <1>1, CasPayEffect
<1>3. /\ OnlyWr(t)
      /\ wr'[t].pc \in {"cas_dec", "cas_retry"}
      /\ wr'[t].odebt = NoDebt
      /\ wr'[t].new = wr[t].new /\ wr'[t].dst = wr[t].dst
  BY <1>1, CasPayEffect DEF WrCas, WrTo
<1>4. NewOf(wr'[t])
  BY <1>1, <1>3 DEF NewOf, CasPc, Origin
<1>5. RemovesWell(t)
  BY <1>1, <1>3, Slots, RemovedBefore DEF PayAllPc, CasPc
<1>6. GuardsWell
  BY <1>1, CasPayEffect, GuardsBefore
<1>7. PaysWell(t)
  <2>1. \A a \in Objects : Gone(a) /\ wr[t].odebt \in SlotIds => wr[t].old # a
    BY DEF Gone, GoneFor
  <2>2. Paid(wr[t].odebt, wr[t].old) \/ PaidBefore(wr[t].odebt, wr[t].old)
    BY <1>1, CasPayEffect
  <2> QED BY <1>1, <2>1, <2>2, SlotsPaid
<1>8. window' = window \/ Frees
  BY <1>1, CasPayEffect
<1> QED BY <1>1, <1>2, <1>3, <1>4, <1>5, <1>6, <1>7, <1>8, WriteHarmless
        DEF AidPc

(* Its reference is released. *)
LEMMA CasDecHarmless ==
  ASSUME Control, Protocol, Memory, Origin, Witnessed, NEW t \in Threads,
         CasDec(t)
  PROVE  Harmless(t)
<1>1. Types /\ wr[t].pc = "cas_dec" /\ rd[t].pc = "idle"
  <2>1. Types /\ wr[t].pc = "cas_dec"
    BY Own, CasDecEffect
  <2>2. WriteOk(wr[t], rd[t])
    BY Own
  <2> QED BY <2>1, <2>2 DEF WriteOk
<1>2. /\ rd' = rd /\ storage' = storage /\ control' = control
      /\ generation' = generation /\ handover' = handover
  BY <1>1, CasDecEffect
<1>3. /\ OnlyWr(t)
      /\ wr'[t].pc = "cas_retry"
      /\ wr'[t].old = wr[t].old /\ wr'[t].odebt = wr[t].odebt
      /\ wr'[t].new = wr[t].new /\ wr'[t].dst = wr[t].dst
  BY <1>1, CasDecEffect DEF WrGo, WrCas, WrTo
<1>4. NewOf(wr'[t])
  BY <1>1, <1>3 DEF NewOf, CasPc, Origin
<1>5. RemovesWell(t)
  BY <1>1, <1>3, Slots, RemovedBefore DEF PayAllPc, CasPc
<1>6. GuardsWell
  BY <1>1, CasDecEffect, GuardsBefore
<1>7. PaysWell(t)
  BY <1>1, CasDecEffect, SlotsBefore
<1>8. window' = window \/ Frees
  <2>1. wr[t].old \in Ptrs /\ Dec(wr[t].old)
    BY <1>1, FrameTypes, CasDecEffect
  <2> QED BY <1>1, <2>1, DecWindow
<1> QED BY <1>1, <1>2, <1>3, <1>4, <1>5, <1>6, <1>7, <1>8, WriteHarmless
        DEF AidPc

(* pay_all takes the reference it pays with. *)
LEMMA PrePayHarmless ==
  ASSUME Control, Protocol, Memory, Origin, Witnessed, NEW t \in Threads,
         PrePay(t)
  PROVE  Harmless(t)
<1>1. Types /\ wr[t].pc = "pre_pay" /\ rd[t].pc = "idle"
  <2>1. Types /\ wr[t].pc = "pre_pay"
    BY Own, PrePayEffect
  <2>2. WriteOk(wr[t], rd[t])
    BY Own
  <2> QED BY <2>1, <2>2 DEF WriteOk
<1>2. /\ rd' = rd /\ storage' = storage /\ control' = control
      /\ generation' = generation /\ handover' = handover
  BY <1>1, PrePayEffect
<1>3. /\ OnlyWr(t)
      /\ wr'[t].pc = "help"
      /\ wr'[t].old = wr[t].old /\ wr'[t].odebt = wr[t].odebt
  BY <1>1, PrePayEffect DEF WrSlot, WrTo
<1>4. NewOf(wr'[t])
  BY <1>1, <1>3 DEF NewOf, CasPc, Origin
<1>5. RemovesWell(t)
  BY <1>1, <1>3, Slots, RemovedBefore DEF PayAllPc, CasPc
<1>6. GuardsWell
  BY <1>1, PrePayEffect, GuardsBefore
<1>7. PaysWell(t)
  BY <1>1, PrePayEffect, SlotsBefore
<1>8. window' = window \/ Frees
  BY <1>1, PrePayEffect
<1> QED BY <1>1, <1>2, <1>3, <1>4, <1>5, <1>6, <1>7, <1>8, WriteHarmless
        DEF AidPc

(* The control word of a node is read. *)
LEMMA HelpHarmless ==
  ASSUME Control, Protocol, Memory, Origin, Witnessed, NEW t \in Threads,
         Help(t)
  PROVE  Harmless(t)
<1>1. Types /\ wr[t].pc = "help" /\ rd[t].pc = "idle"
  <2>1. Types /\ wr[t].pc = "help"
    BY Own, HelpEffect
  <2>2. WriteOk(wr[t], rd[t])
    BY Own
  <2> QED BY <2>1, <2>2 DEF WriteOk
<1>2. /\ rd' = rd /\ storage' = storage /\ control' = control
      /\ generation' = generation /\ handover' = handover
  BY <1>1, HelpEffect
<1>3. /\ OnlyWr(t)
      /\ wr'[t].pc \in {"help_addr", "pay"}
      /\ wr'[t].old = wr[t].old /\ wr'[t].odebt = wr[t].odebt
  BY <1>1, HelpEffect DEF WrHelp, WrHelped, WrTo
<1>4. NewOf(wr'[t])
  BY <1>1, <1>3 DEF NewOf, CasPc, Origin
<1>5. RemovesWell(t)
  BY <1>1, <1>3, Slots, RemovedBefore DEF PayAllPc, CasPc
<1>6. GuardsWell
  BY <1>1, HelpEffect, GuardsBefore
<1>7. PaysWell(t)
  BY <1>1, HelpEffect, SlotsBefore
<1>8. window' = window \/ Frees
  BY <1>1, HelpEffect
<1> QED BY <1>1, <1>2, <1>3, <1>4, <1>5, <1>6, <1>7, <1>8, WriteHarmless
        DEF AidPc

(* It is read again. *)
LEMMA HelpRecheckHarmless ==
  ASSUME Control, Protocol, Memory, Origin, Witnessed, NEW t \in Threads,
         HelpRecheck(t)
  PROVE  Harmless(t)
<1>1. Types /\ wr[t].pc = "help_recheck" /\ rd[t].pc = "idle"
  <2>1. Types /\ wr[t].pc = "help_recheck"
    BY Own, HelpRecheckEffect
  <2>2. WriteOk(wr[t], rd[t])
    BY Own
  <2> QED BY <2>1, <2>2 DEF WriteOk
<1>2. /\ rd' = rd /\ storage' = storage /\ control' = control
      /\ generation' = generation /\ handover' = handover
  BY <1>1, HelpRecheckEffect
<1>3. /\ OnlyWr(t)
      /\ wr'[t].pc \in {"help_addr", "pay"}
      /\ wr'[t].old = wr[t].old /\ wr'[t].odebt = wr[t].odebt
  BY <1>1, HelpRecheckEffect DEF WrHelp, WrHelped, WrTo
<1>4. NewOf(wr'[t])
  BY <1>1, <1>3 DEF NewOf, CasPc, Origin
<1>5. RemovesWell(t)
  BY <1>1, <1>3, Slots, RemovedBefore DEF PayAllPc, CasPc
<1>6. GuardsWell
  BY <1>1, HelpRecheckEffect, GuardsBefore
<1>7. PaysWell(t)
  BY <1>1, HelpRecheckEffect, SlotsBefore
<1>8. window' = window \/ Frees
  BY <1>1, HelpRecheckEffect
<1> QED BY <1>1, <1>2, <1>3, <1>4, <1>5, <1>6, <1>7, <1>8, WriteHarmless
        DEF AidPc

(* The envelope of the other node is looked up. *)
LEMMA HelpTheirSpaceHarmless ==
  ASSUME Control, Protocol, Memory, Origin, Witnessed, NEW t \in Threads,
         HelpTheirSpace(t)
  PROVE  Harmless(t)
<1>1. Types /\ wr[t].pc = "their_space" /\ rd[t].pc = "idle"
  <2>1. Types /\ wr[t].pc = "their_space"
    BY Own, HelpTheirSpaceEffect
  <2>2. WriteOk(wr[t], rd[t])
    BY Own
  <2> QED BY <2>1, <2>2 DEF WriteOk
<1>2. /\ rd' = rd /\ storage' = storage /\ control' = control
      /\ generation' = generation /\ handover' = handover
  BY <1>1, HelpTheirSpaceEffect
<1>3. /\ OnlyWr(t)
      /\ wr'[t].pc = "fill"
      /\ wr'[t].node = wr[t].node /\ wr'[t].observed = wr[t].observed
      /\ wr'[t].repl = wr[t].repl
      /\ wr'[t].old = wr[t].old /\ wr'[t].odebt = wr[t].odebt
  BY <1>1, HelpTheirSpaceEffect DEF WrHelp, WrTo
<1>4. NewOf(wr'[t])
  BY <1>1, <1>3 DEF NewOf, CasPc, Origin
<1>5. RemovesWell(t)
  BY <1>1, <1>3, Slots, RemovedBefore DEF PayAllPc, CasPc
<1>6. GuardsWell
  BY <1>1, HelpTheirSpaceEffect, GuardsBefore
<1>7. PaysWell(t)
  BY <1>1, HelpTheirSpaceEffect, SlotsBefore
<1>8. window' = window \/ Frees
  BY <1>1, HelpTheirSpaceEffect
<1> QED BY <1>1, <1>2, <1>3, <1>4, <1>5, <1>6, <1>7, <1>8, WriteHarmless
        DEF AidPc

(* The envelopes have been exchanged. *)
LEMMA HelpSwitchHarmless ==
  ASSUME Control, Protocol, Memory, Origin, Witnessed, NEW t \in Threads,
         HelpSwitch(t)
  PROVE  Harmless(t)
<1>1. Types /\ wr[t].pc = "switch" /\ rd[t].pc = "idle"
  <2>1. Types /\ wr[t].pc = "switch"
    BY Own, HelpSwitchEffect
  <2>2. WriteOk(wr[t], rd[t])
    BY Own
  <2> QED BY <2>1, <2>2 DEF WriteOk
<1>2. /\ rd' = rd /\ storage' = storage /\ control' = control
      /\ generation' = generation /\ handover' = handover
  BY <1>1, HelpSwitchEffect
<1>3. /\ OnlyWr(t)
      /\ wr'[t].pc = "pay"
      /\ wr'[t].old = wr[t].old /\ wr'[t].odebt = wr[t].odebt
  BY <1>1, HelpSwitchEffect DEF WrHelped, WrTo
<1>4. NewOf(wr'[t])
  BY <1>1, <1>3 DEF NewOf, CasPc, Origin
<1>5. RemovesWell(t)
  BY <1>1, <1>3, Slots, RemovedBefore DEF PayAllPc, CasPc
<1>6. GuardsWell
  BY <1>1, HelpSwitchEffect, GuardsBefore
<1>7. PaysWell(t)
  BY <1>1, HelpSwitchEffect, SlotsBefore
<1>8. window' = window \/ Frees
  BY <1>1, HelpSwitchEffect
<1> QED BY <1>1, <1>2, <1>3, <1>4, <1>5, <1>6, <1>7, <1>8, WriteHarmless
        DEF AidPc

(* A replacement that came too late is dropped. *)
LEMMA HelpDropHarmless ==
  ASSUME Control, Protocol, Memory, Origin, Witnessed, NEW t \in Threads,
         HelpDrop(t)
  PROVE  Harmless(t)
<1>1. Types /\ wr[t].pc = "help_drop" /\ rd[t].pc = "idle"
  <2>1. Types /\ wr[t].pc = "help_drop"
    BY Own, HelpDropEffect
  <2>2. WriteOk(wr[t], rd[t])
    BY Own
  <2> QED BY <2>1, <2>2 DEF WriteOk
<1>2. /\ rd' = rd /\ storage' = storage /\ control' = control
      /\ generation' = generation /\ handover' = handover
  BY <1>1, HelpDropEffect
<1>3. /\ OnlyWr(t)
      /\ wr'[t].pc \in {"help_addr", "pay"}
      /\ wr'[t].old = wr[t].old /\ wr'[t].odebt = wr[t].odebt
  BY <1>1, HelpDropEffect DEF WrHelp, WrHelped, WrTo
<1>4. NewOf(wr'[t])
  BY <1>1, <1>3 DEF NewOf, CasPc, Origin
<1>5. RemovesWell(t)
  BY <1>1, <1>3, Slots, RemovedBefore DEF PayAllPc, CasPc
<1>6. GuardsWell
  BY <1>1, HelpDropEffect, GuardsBefore
<1>7. PaysWell(t)
  BY <1>1, HelpDropEffect, SlotsBefore
<1>8. window' = window \/ Frees
  <2>1. wr[t].repl \in Ptrs /\ Dec(wr[t].repl)
    BY <1>1, FrameTypes, HelpDropEffect
  <2> QED BY <1>1, <2>1, DecWindow
<1> QED BY <1>1, <1>2, <1>3, <1>4, <1>5, <1>6, <1>7, <1>8, WriteHarmless
        DEF AidPc

(* A debt on the removed value is paid, with a reference it needs no more. *)
LEMMA PaySlotHarmless ==
  ASSUME Control, Protocol, Memory, Origin, Witnessed, NEW t \in Threads,
         PaySlot(t)
  PROVE  Harmless(t)
<1>1. Types /\ wr[t].pc = "pay" /\ rd[t].pc = "idle"
  <2>1. Types /\ wr[t].pc = "pay"
    BY Own, PaySlotEffect
  <2>2. WriteOk(wr[t], rd[t])
    BY Own
  <2> QED BY <2>1, <2>2 DEF WriteOk
<1>2. /\ rd' = rd /\ storage' = storage /\ control' = control
      /\ generation' = generation /\ handover' = handover
  BY <1>1, PaySlotEffect
<1>3. /\ OnlyWr(t)
      /\ wr'[t].pc \in {"pay_inc", "pay", "help", "release"}
      /\ wr'[t].old = wr[t].old /\ wr'[t].odebt = wr[t].odebt
  BY <1>1, PaySlotEffect DEF WrGo, WrCas, SlotDone, WrSlot, WrTo
<1>4. NewOf(wr'[t])
  BY <1>1, <1>3 DEF NewOf, CasPc, Origin
<1>5. RemovesWell(t)
  BY <1>1, <1>3, Slots, RemovedBefore DEF PayAllPc, CasPc
<1>6. GuardsWell
  BY <1>1, PaySlotEffect, GuardsBefore
<1>7. PaysWell(t)
  <2> DEFINE x == <<wr[t].node, wr[t].k>>
  <2>1. \A a \in Objects : Gone(a) /\ x \in SlotIds => wr[t].old # a
    BY <1>1 DEF Gone, GoneFor, HasRemoved, PayAllPc
  <2>2. Paid(x, wr[t].old) \/ PaidBefore(x, wr[t].old)
    BY <1>1, PaySlotEffect
  <2> HIDE DEF x
  <2> QED BY <1>1, <2>1, <2>2, SlotsPaid
<1>8. window' = window \/ Frees
  BY <1>1, PaySlotEffect
<1> QED BY <1>1, <1>2, <1>3, <1>4, <1>5, <1>6, <1>7, <1>8, WriteHarmless
        DEF AidPc

(* The next reference to pay with. *)
LEMMA PayIncHarmless ==
  ASSUME Control, Protocol, Memory, Origin, Witnessed, NEW t \in Threads,
         PayInc(t)
  PROVE  Harmless(t)
<1>1. Types /\ wr[t].pc = "pay_inc" /\ rd[t].pc = "idle"
  <2>1. Types /\ wr[t].pc = "pay_inc"
    BY Own, PayIncEffect
  <2>2. WriteOk(wr[t], rd[t])
    BY Own
  <2> QED BY <2>1, <2>2 DEF WriteOk
<1>2. /\ rd' = rd /\ storage' = storage /\ control' = control
      /\ generation' = generation /\ handover' = handover
  BY <1>1, PayIncEffect
<1>3. /\ OnlyWr(t)
      /\ wr'[t].pc \in {"pay", "help", "release"}
      /\ wr'[t].old = wr[t].old /\ wr'[t].odebt = wr[t].odebt
  BY <1>1, PayIncEffect DEF SlotDone, WrSlot, WrTo
<1>4. NewOf(wr'[t])
  BY <1>1, <1>3 DEF NewOf, CasPc, Origin
<1>5. RemovesWell(t)
  BY <1>1, <1>3, Slots, RemovedBefore DEF PayAllPc, CasPc
<1>6. GuardsWell
  BY <1>1, PayIncEffect, GuardsBefore
<1>7. PaysWell(t)
  BY <1>1, PayIncEffect, SlotsBefore
<1>8. window' = window \/ Frees
  BY <1>1, PayIncEffect
<1> QED BY <1>1, <1>2, <1>3, <1>4, <1>5, <1>6, <1>7, <1>8, WriteHarmless
        DEF AidPc

(* The reference of pay_all is released. *)
LEMMA ReleaseValHarmless ==
  ASSUME Control, Protocol, Memory, Origin, Witnessed, NEW t \in Threads,
         ReleaseVal(t)
  PROVE  Harmless(t)
<1>1. Types /\ wr[t].pc = "release" /\ rd[t].pc = "idle"
  <2>1. Types /\ wr[t].pc = "release"
    BY Own, ReleaseValEffect
  <2>2. WriteOk(wr[t], rd[t])
    BY Own
  <2> QED BY <2>1, <2>2 DEF WriteOk
<1>2. /\ rd' = rd /\ storage' = storage /\ control' = control
      /\ generation' = generation /\ handover' = handover
  BY <1>1, ReleaseValEffect
<1>3. /\ OnlyWr(t)
      /\ wr'[t].pc \in {"idle", "drop_old"}
      /\ wr'[t].pc = "idle" => wr'[t].odebt = NoDebt
      /\ wr'[t].pc = "drop_old" =>
           wr'[t].old = wr[t].old /\ wr'[t].odebt = wr[t].odebt
  BY <1>1, ReleaseValEffect DEF WrIdle, WrBegins, WrGo, WrCas, WrTo
<1>4. NewOf(wr'[t])
  BY <1>1, <1>3 DEF NewOf, CasPc, Origin
<1>5. RemovesWell(t)
  BY <1>1, <1>3, Slots, RemovedBefore DEF PayAllPc, CasPc
<1>6. GuardsWell
  <2>1. CASE held' = held
    BY <2>1, GuardsBefore
  <2>2. CASE Give(Owned(wr[t].old))
    <3>1. Owned(wr[t].old) \in Handles /\ Owned(wr[t].old).debt \notin SlotIds
      BY <1>1, FrameTypes, Handle, Slots DEF Owned
    <3> QED BY <1>1, <2>2, <3>1, GuardsGive
  <2> QED BY <1>1, <2>1, <2>2, ReleaseValEffect
<1>7. PaysWell(t)
  BY <1>1, ReleaseValEffect, SlotsBefore
<1>8. window' = window \/ Frees
  <2>1. wr[t].old \in Ptrs /\ Dec(wr[t].old)
    BY <1>1, FrameTypes, ReleaseValEffect
  <2> QED BY <1>1, <2>1, DecWindow
<1> QED BY <1>1, <1>2, <1>3, <1>4, <1>5, <1>6, <1>7, <1>8, WriteHarmless
        DEF AidPc

(* The removed value is dropped, or goes to the caller as a guard. *)
LEMMA DropOldHarmless ==
  ASSUME Control, Protocol, Memory, Origin, Witnessed, NEW t \in Threads,
         DropOld(t)
  PROVE  Harmless(t)
<1>1. Types /\ wr[t].pc = "drop_old" /\ rd[t].pc = "idle"
  <2>1. Types /\ wr[t].pc = "drop_old"
    BY Own, DropOldEffect
  <2>2. WriteOk(wr[t], rd[t])
    BY Own
  <2> QED BY <2>1, <2>2 DEF WriteOk
<1>2. /\ rd' = rd /\ storage' = storage /\ control' = control
      /\ generation' = generation /\ handover' = handover
  BY <1>1, DropOldEffect
<1>3. /\ OnlyWr(t)
      /\ wr'[t].pc = "idle" /\ wr'[t].odebt = NoDebt
  BY <1>1, DropOldEffect DEF WrIdle, WrBegins, WrTo
<1>4. NewOf(wr'[t])
  BY <1>1, <1>3 DEF NewOf, CasPc, Origin
<1>5. RemovesWell(t)
  BY <1>1, <1>3, Slots, RemovedBefore DEF PayAllPc, CasPc
<1>6. GuardsWell
  <2> DEFINE h == [ptr |-> wr[t].old, debt |-> wr[t].odebt]
  <2>1. CASE held' = held
    BY <2>1, GuardsBefore
  <2>2. CASE Give(h)
    <3>1. h \in Handles /\ h.ptr = wr[t].old
      BY <1>1, FrameTypes, Handle
    <3>2. \A a \in Objects : Gone(a) => h.ptr # a
      BY <1>1, <3>1 DEF Gone, GoneFor, HasRemoved
    <3> HIDE DEF h
    <3> QED BY <1>1, <2>2, <3>1, <3>2, GuardsGive
  <2> QED BY <1>1, <2>1, <2>2, DropOldEffect
<1>7. PaysWell(t)
  BY <1>1, DropOldEffect, SlotsBefore
<1>8. window' = window \/ Frees
  <2>1. wr[t].old \in Ptrs /\ Dec(wr[t].old)
    BY <1>1, FrameTypes, DropOldEffect
  <2> QED BY <1>1, <2>1, DecWindow
<1> QED BY <1>1, <1>2, <1>3, <1>4, <1>5, <1>6, <1>7, <1>8, WriteHarmless
        DEF AidPc

(* A value is published, or a storage ends: what was there is removed. *)
LEMMA PublishHarmless ==
  ASSUME Control, Origin, Witnessed, NEW t \in Threads, OnlyWr(t), rd' = rd,
         rd[t].pc = "idle", slots' = slots, control' = control,
         generation' = generation, handover' = handover,
         Publishes \/ Ends, GuardsWell, wr'[t].pc = "pre_pay",
         NEW s \in Storages, wr'[t].old = storage[s]
  PROVE  Harmless(t)
<1>1. OnlyRd(t) /\ History(t)
  BY DEF OnlyRd, History
<1>2. /\ FirstOf(rd'[t]) /\ NewOf(wr'[t]) /\ KeepsFirst(t)
  BY DEF FirstOf, NewOf, KeepsFirst, FirstPc, CasPc
<1>3. RemovesWell(t)
  BY DEF RemovesWell, HasRemoved, Gone
<1>4. KeepsGone(t)
  BY <1>3, SettledBefore, SlotsBefore, GoneKept
<1>5. KeepsConfirmed(t)
  BY DEF KeepsConfirmed, Witnessed, ConfirmedSeen
<1>6. KeepsAid(t)
  BY DEF KeepsAid, AidPc
<1> QED BY <1>1, <1>2, <1>4, <1>5, <1>6 DEF Harmless

(* swap and store exchange the pointer. *)
LEMMA SwapHarmless ==
  ASSUME Control, Protocol, Memory, Origin, Witnessed, NEW t \in Threads,
         rd[t].pc = "idle", wr[t].pc = "idle", NEW s \in Storages,
         NEW op \in {"swap", "store"}, Swap(t, s, op)
  PROVE  Harmless(t)
<1>1. Types
  BY Own
<1>2. /\ rd' = rd /\ slots' = slots /\ control' = control
      /\ generation' = generation /\ handover' = handover
      /\ OnlyWr(t) /\ wr'[t].pc = "pre_pay" /\ wr'[t].old = storage[s]
  BY <1>1, SwapEffect DEF WrBegins, WrTo
<1>3. PICK v \in Pool[s] : NewValue(s, v) /\ Publish(s, v)
  BY <1>1, SwapEffect
<1>4. GuardsWell
  BY <1>1, <1>3, GuardsNewValue
<1>5. Publishes
  BY <1>2, <1>3 DEF Publishes
<1> QED BY <1>2, <1>4, <1>5, PublishHarmless

(* A storage ends. *)
LEMMA EndStorageHarmless ==
  ASSUME Control, Protocol, Memory, Origin, Witnessed, NEW t \in Threads,
         rd[t].pc = "idle", wr[t].pc = "idle", NEW s \in Storages,
         NEW op \in {"drop_storage", "unwrap_storage"}, EndStorage(t, s, op)
  PROVE  Harmless(t)
<1>1. Types
  BY Own
<1>2. /\ rd' = rd /\ slots' = slots /\ control' = control
      /\ generation' = generation /\ handover' = handover /\ held' = held
      /\ OnlyWr(t) /\ wr'[t].pc = "pre_pay" /\ wr'[t].old = storage[s]
  BY <1>1, EndStorageEffect DEF WrBegins, WrTo
<1>3. Ends
  BY <1>1, <1>2, EndStorageEffect DEF Ends
<1> QED BY <1>2, <1>3, GuardsBefore, PublishHarmless

(* The exchange of compare_and_swap. *)
LEMMA CasExchangeHarmless ==
  ASSUME Control, Protocol, Memory, Origin, Witnessed, NEW t \in Threads,
         CasExchange(t)
  PROVE  Harmless(t)
<1>1. Types /\ wr[t].pc = "cas" /\ rd[t].pc = "idle"
  <2>1. Types /\ wr[t].pc = "cas"
    BY Own, CasExchangeEffect
  <2>2. WriteOk(wr[t], rd[t])
    BY Own
  <2> QED BY <2>1, <2>2 DEF WriteOk
<1>2. /\ rd' = rd /\ slots' = slots /\ control' = control
      /\ generation' = generation /\ handover' = handover /\ held' = held
      /\ OnlyWr(t) /\ wr'[t].pc = "pre_pay" /\ wr'[t].old = wr[t].old
      /\ storage[wr[t].dst] = wr[t].current /\ Publish(wr[t].dst, wr[t].new)
  BY <1>1, CasExchangeEffect DEF WrTo
<1>3. /\ wr[t].dst \in Storages /\ wr[t].old = wr[t].current
      /\ wr[t].new \in Pool[wr[t].dst]
  <2>1. WriteOk(wr[t], rd[t]) /\ NewOf(wr[t])
    BY Own DEF Origin
  <2> QED BY <1>1, <2>1 DEF WriteOk, NewOf, CasPc
<1>4. Publishes
  BY <1>2, <1>3 DEF Publishes
<1> QED BY <1>1, <1>2, <1>3, <1>4, GuardsBefore, PublishHarmless

(* A load begins with what is stored now. *)
LEMMA LoadClears ==
  ASSUME Control, Origin, NEW t \in Threads, NEW s \in Storages,
         storage[s] # Dropped, NEW full, LoadBegins(t, s, full),
         storage' = storage, control' = control, rd[t].pc \notin Announced
  PROVE  /\ OnlyRd(t) /\ Clears(t) /\ FirstOf(rd'[t])
         /\ window'[t] = {storage[s]}
         /\ \A u \in Threads : u # t => window'[u] = window[u]
<1>1. /\ Types /\ control[t] = IDLE /\ storage[s] \in Pool[s]
  <2>1. FollowOk(rd[t], control[t], generation[t], active_addr[t]) /\ Types
    BY Own
  <2> QED BY <2>1 DEF FollowOk, Origin, StoredOf
<1>2. /\ window'[t] = {storage[s]}
      /\ \A u \in Threads : u # t => window'[u] = window[u]
  BY <1>1 DEF LoadBegins, Types
<1>3. /\ OnlyRd(t) /\ rd'[t].src = s /\ rd'[t].pc \in {"scan", "get_debt"}
      /\ rd'[t].pc = "scan" => rd'[t].ptr = storage[s]
  BY DEF LoadBegins, RdTo
<1> QED BY <1>1, <1>2, <1>3 DEF Clears, FirstOf, FirstPc

(* load and load_full begin. *)
LEMMA LoadHarmless ==
  ASSUME Control, Protocol, Memory, Origin, Witnessed, NEW t \in Threads,
         rd[t].pc = "idle", wr[t].pc = "idle", NEW s \in Storages,
         NEW op \in {"load", "load_full"}, Load(t, s, op)
  PROVE  Harmless(t)
<1>1. Types
  BY Own
<1>2. /\ storage' = storage /\ control' = control /\ generation' = generation
      /\ handover' = handover /\ slots' = slots
      /\ wr' = wr /\ held' = held /\ storage[s] # Dropped
      /\ LoadBegins(t, s, op = "load_full")
  BY <1>1, LoadEffect
<1>3. OnlyRd(t) /\ Clears(t) /\ FirstOf(rd'[t])
  BY <1>2, LoadClears DEF Announced
<1>4. OnlyWr(t) /\ NewOf(wr'[t]) /\ RemovesWell(t) /\ GuardsWell
  BY <1>2, RemovedBefore, GuardsBefore DEF OnlyWr, NewOf, CasPc
<1> QED BY <1>2, <1>3, <1>4, ClearHarmless DEF Announced, AidPc

(* compare_and_swap begins with a load. *)
LEMMA CompareAndSwapHarmless ==
  ASSUME Control, Protocol, Memory, Origin, Witnessed, NEW t \in Threads,
         rd[t].pc = "idle", wr[t].pc = "idle", NEW s \in Storages,
         NEW p \in Pool[s], CompareAndSwap(t, s, p)
  PROVE  Harmless(t)
<1>1. Types
  BY Own
<1>2. /\ storage' = storage /\ control' = control /\ generation' = generation
      /\ handover' = handover /\ slots' = slots
      /\ storage[s] # Dropped /\ LoadBegins(t, s, FALSE)
  BY <1>1, CompareAndSwapEffect
<1>3. PICK v \in Pool[s] :
        /\ NewValue(s, v)
        /\ WrBegins(t, "cas_load", "compare_and_swap", s, v, p, Null)
  BY <1>1, CompareAndSwapEffect
<1>4. OnlyRd(t) /\ Clears(t) /\ FirstOf(rd'[t])
  BY <1>2, LoadClears DEF Announced
<1>5. /\ OnlyWr(t) /\ wr'[t].pc = "cas_load" /\ wr'[t].new = v /\ wr'[t].dst = s
      /\ wr'[t].odebt = NoDebt
  BY <1>3 DEF WrBegins, WrTo
<1>6. NewOf(wr'[t]) /\ RemovesWell(t) /\ GuardsWell
  BY <1>1, <1>3, <1>5, Slots, RemovedBefore, GuardsNewValue DEF NewOf, CasPc
<1> QED BY <1>2, <1>4, <1>5, <1>6, ClearHarmless DEF Announced, AidPc

(* compare_and_swap loads once more. *)
LEMMA CasRetryHarmless ==
  ASSUME Control, Protocol, Memory, Origin, Witnessed, NEW t \in Threads,
         CasRetry(t)
  PROVE  Harmless(t)
<1>1. Types /\ wr[t].pc = "cas_retry" /\ rd[t].pc = "idle"
  <2>1. Types /\ wr[t].pc = "cas_retry"
    BY Own, CasRetryEffect
  <2>2. WriteOk(wr[t], rd[t])
    BY Own
  <2> QED BY <2>1, <2>2 DEF WriteOk
<1>2. /\ storage' = storage /\ control' = control /\ generation' = generation
      /\ handover' = handover /\ slots' = slots
      /\ held' = held /\ LoadBegins(t, wr[t].dst, FALSE)
  BY <1>1, CasRetryEffect
<1>3. /\ OnlyWr(t) /\ wr'[t].pc = "cas_load" /\ wr'[t].new = wr[t].new
      /\ wr'[t].dst = wr[t].dst /\ wr'[t].odebt = wr[t].odebt
  BY <1>1, CasRetryEffect DEF WrCas, WrTo
<1>4. /\ wr[t].dst \in Storages /\ storage[wr[t].dst] # Dropped
      /\ wr[t].odebt = NoDebt /\ wr[t].new \in Pool[wr[t].dst]
  <2>1. /\ WriteOk(wr[t], rd[t]) /\ LiveOk(rd[t], wr[t], storage, active_addr)
        /\ NewOf(wr[t])
    BY Own DEF Origin
  <2> QED BY <1>1, <2>1 DEF WriteOk, LiveOk, NewOf, CasPc
<1>5. OnlyRd(t) /\ Clears(t) /\ FirstOf(rd'[t])
  BY <1>1, <1>2, <1>4, LoadClears DEF Announced
<1>6. NewOf(wr'[t]) /\ RemovesWell(t) /\ GuardsWell
  BY <1>2, <1>3, <1>4, Slots, RemovedBefore, GuardsBefore DEF NewOf, CasPc
<1> QED BY <1>1, <1>2, <1>3, <1>5, <1>6, ClearHarmless DEF Announced, AidPc

(* The helper loads for a reader of its own storage; it begins after that
   reader. *)
LEMMA HelpCheckAddrHarmless ==
  ASSUME Control, Protocol, Memory, Origin, Witnessed, NEW t \in Threads,
         HelpCheckAddr(t)
  PROVE  Harmless(t)
<1>1. Types /\ wr[t].pc = "help_addr" /\ rd[t].pc = "idle"
  <2>1. Types /\ wr[t].pc = "help_addr"
    BY Own, HelpCheckAddrEffect
  <2>2. WriteOk(wr[t], rd[t])
    BY Own
  <2> QED BY <2>1, <2>2 DEF WriteOk
<1>2. /\ storage' = storage /\ control' = control /\ generation' = generation
      /\ handover' = handover /\ slots' = slots /\ held' = held
  BY <1>1, HelpCheckAddrEffect
<1>3. CASE /\ active_addr[wr[t].node] # wr[t].dst
           /\ UNCHANGED <<rd, window>> /\ WrGo(t, "help_recheck")
  <2>1. /\ OnlyWr(t) /\ wr'[t].pc = "help_recheck" /\ wr'[t].old = wr[t].old
        /\ wr'[t].odebt = wr[t].odebt
    BY <1>3 DEF WrGo, WrCas, WrTo
  <2>2. NewOf(wr'[t]) /\ RemovesWell(t) /\ GuardsWell /\ PaysWell(t)
    BY <1>1, <1>2, <2>1, RemovedBefore, GuardsBefore, SlotsBefore
       DEF NewOf, CasPc, PayAllPc
  <2> QED BY <1>1, <1>2, <1>3, <2>1, <2>2, WriteHarmless DEF AidPc
<1>4. CASE /\ active_addr[wr[t].node] = wr[t].dst
           /\ LoadBegins(t, wr[t].dst, TRUE) /\ WrGo(t, "replacement")
  <2> DEFINE n == wr[t].node
  <2>1. /\ OnlyWr(t) /\ wr'[t].pc = "replacement" /\ wr'[t].old = wr[t].old
        /\ wr'[t].odebt = wr[t].odebt /\ wr'[t].node = n
        /\ wr'[t].observed = wr[t].observed
    BY <1>4 DEF WrGo, WrCas, WrTo
  <2>2. /\ wr[t].dst \in Storages /\ storage[wr[t].dst] # Dropped
        /\ n \in Threads /\ n # t /\ IsGen(wr[t].observed)
    <3>1. /\ WriteOk(wr[t], rd[t]) /\ LiveOk(rd[t], wr[t], storage, active_addr)
          /\ HelpOk(t, wr[t])
      BY Own
    <3> QED BY <1>1, <1>4, <3>1, FrameTypes DEF WriteOk, LiveOk, HelpOk, HelpPc
  <2>3. /\ OnlyRd(t) /\ Clears(t) /\ FirstOf(rd'[t])
        /\ window'[t] = {storage[wr[t].dst]}
        /\ \A u \in Threads : u # t => window'[u] = window[u]
    BY <1>1, <1>2, <1>4, <2>2, LoadClears DEF Announced
  <2>4. NewOf(wr'[t]) /\ RemovesWell(t) /\ GuardsWell
    BY <1>1, <1>2, <2>1, RemovedBefore, GuardsBefore DEF NewOf, CasPc, PayAllPc
  <2>5. control[n] = wr[t].observed => storage[wr[t].dst] \in window[n]
    <3> SUFFICES ASSUME control[n] = wr[t].observed
                 PROVE  storage[wr[t].dst] \in window[n]
      OBVIOUS
    <3>1. FollowOk(rd[n], control[n], generation[n], active_addr[n])
      BY <2>2, Own
    <3>2. rd[n].src = wr[t].dst
      BY <1>4, <2>2, <3>1, Words DEF FollowOk
    <3> QED BY <2>2, <3>2 DEF Witnessed, StoredSeen
  <2> HIDE DEF n
  <2>6. control'[n] # wr[t].observed \/ window'[t] \subseteq window'[n]
    BY <1>2, <2>2, <2>3, <2>5
  <2> QED BY <1>1, <1>2, <2>1, <2>3, <2>4, <2>6, ClearHarmless DEF Announced
<1> QED BY <1>1, <1>3, <1>4, HelpCheckAddrEffect

(* A load ends. *)
LEMMA LoadEnds ==
  ASSUME Control, NEW t \in Threads, RdIdle(t), rd[t].pc = "return",
         window' = [window EXCEPT ![t] = {}],
         storage' = storage, control' = control
  PROVE  OnlyRd(t) /\ Clears(t) /\ FirstOf(rd'[t])
<1>1. Types /\ control[t] = IDLE
  <2>1. FollowOk(rd[t], control[t], generation[t], active_addr[t]) /\ Types
    BY Own
  <2> QED BY <2>1 DEF FollowOk, Announced
<1>2. \A u \in Threads : u # t => window'[u] = window[u]
  BY <1>1 DEF Types
<1>3. OnlyRd(t) /\ rd'[t].pc = "idle" /\ rd'[t].src = NoStorage
  BY DEF RdIdle, RdTo
<1> QED BY <1>1, <1>2, <1>3 DEF Clears, FirstOf, FirstPc

(* Its guard has not gone. *)
LEMMA GuardsReturned ==
  ASSUME Control, NEW t \in Threads, rd[t].pc = "return",
         Give([ptr |-> rd[t].ptr, debt |-> rd[t].debt])
  PROVE  GuardsWell
<1> DEFINE h == [ptr |-> rd[t].ptr, debt |-> rd[t].debt]
<1>1. Types /\ h \in Handles /\ h.ptr = rd[t].ptr /\ h.debt = rd[t].debt
  BY Own, FrameTypes, Handle
<1>2. \A a \in Objects : Gone(a) /\ h.debt \in SlotIds => h.ptr # a
  BY <1>1 DEF Gone, GoneFor, SettledPc
<1> HIDE DEF h
<1> QED BY <1>1, <1>2, GuardsGive DEF h

(* The caller gets the guard of the load. *)
LEMMA ReturnToCallerHarmless ==
  ASSUME Control, Protocol, Memory, Origin, Witnessed, NEW t \in Threads,
         ReturnToCaller(t)
  PROVE  Harmless(t)
<1>1. Types
  BY Own
<1>2. /\ storage' = storage /\ control' = control /\ generation' = generation
      /\ handover' = handover /\ slots' = slots
      /\ wr' = wr /\ wr[t].pc = "idle" /\ rd[t].pc = "return"
  BY <1>1, ReturnToCallerEffect
<1>3. OnlyRd(t) /\ Clears(t) /\ FirstOf(rd'[t])
  BY <1>1, <1>2, ReturnToCallerEffect, LoadEnds
<1>4. GuardsWell
  BY <1>1, <1>2, ReturnToCallerEffect, GuardsReturned
<1>5. OnlyWr(t) /\ NewOf(wr'[t]) /\ RemovesWell(t)
  BY <1>2, RemovedBefore DEF OnlyWr, NewOf, CasPc
<1> QED BY <1>2, <1>3, <1>4, <1>5, ClearHarmless DEF Announced, AidPc

(* compare_and_swap has its guard. *)
LEMMA CasLoadedHarmless ==
  ASSUME Control, Protocol, Memory, Origin, Witnessed, NEW t \in Threads,
         CasLoaded(t)
  PROVE  Harmless(t)
<1>1. Types
  BY Own
<1>2. /\ storage' = storage /\ control' = control /\ generation' = generation
      /\ handover' = handover /\ slots' = slots
      /\ wr[t].pc = "cas_load" /\ rd[t].pc = "return"
  BY <1>1, CasLoadedEffect
<1>3. OnlyRd(t) /\ Clears(t) /\ FirstOf(rd'[t])
  BY <1>1, <1>2, CasLoadedEffect, LoadEnds
<1>4. /\ OnlyWr(t) /\ wr'[t].pc \in {"drop_new", "cas"}
      /\ wr'[t].new = wr[t].new /\ wr'[t].dst = wr[t].dst
  BY <1>1, CasLoadedEffect DEF WrGo, WrCas, WrTo
<1>5. NewOf(wr'[t])
  BY <1>2, <1>4 DEF NewOf, Origin, CasPc
<1>6. GuardsWell
  BY <1>1, <1>2, CasLoadedEffect, GuardsReturned, GuardsBefore
<1>7. RemovesWell(t)
  <2>1. CASE WrGo(t, "drop_new")
    BY <2>1, RemovedBefore DEF WrGo, WrCas, WrTo
  <2>2. CASE WrCas(t, "cas", rd[t].ptr, rd[t].debt)
    <3>1. /\ wr'[t].pc = "cas" /\ wr'[t].old = rd[t].ptr
          /\ wr'[t].odebt = rd[t].debt
      BY <2>2 DEF WrGo, WrCas, WrTo
    <3> QED BY <1>2, <3>1 DEF RemovesWell, HasRemoved, PayAllPc, Gone, GoneFor,
                              SettledPc
  <2> QED BY <1>1, <2>1, <2>2, CasLoadedEffect
<1> QED BY <1>2, <1>3, <1>4, <1>5, <1>6, <1>7, ClearHarmless
        DEF Announced, AidPc

(* The helper's load is over: the reader could have returned the same. *)
LEMMA HelpReplacementHarmless ==
  ASSUME Control, Protocol, Memory, Origin, Witnessed, NEW t \in Threads,
         HelpReplacement(t)
  PROVE  Harmless(t)
<1>1. Types
  BY Own
<1>2. /\ storage' = storage /\ control' = control /\ generation' = generation
      /\ handover' = handover /\ slots' = slots
      /\ held' = held /\ wr[t].pc = "replacement" /\ rd[t].pc = "return"
  BY <1>1, HelpReplacementEffect
<1>3. OnlyRd(t) /\ Clears(t) /\ FirstOf(rd'[t])
  BY <1>1, <1>2, HelpReplacementEffect, LoadEnds
<1>4. /\ OnlyWr(t) /\ wr'[t].pc = "their_space" /\ wr'[t].old = wr[t].old
      /\ wr'[t].odebt = wr[t].odebt /\ wr'[t].repl = rd[t].ptr
      /\ wr'[t].node = wr[t].node /\ wr'[t].observed = wr[t].observed
  BY <1>1, HelpReplacementEffect DEF WrHelp, WrTo
<1>5. NewOf(wr'[t]) /\ RemovesWell(t) /\ GuardsWell
  BY <1>2, <1>4, RemovedBefore, GuardsBefore DEF NewOf, CasPc, PayAllPc
<1>6. wr[t].node \in Threads /\ wr[t].node # t /\ rd[t].src # NoStorage
  <2>1. WriteOk(wr[t], rd[t]) /\ HelpOk(t, wr[t])
    BY Own
  <2> QED BY <1>1, <1>2, <2>1, FrameTypes DEF WriteOk, HelpOk, HelpPc
<1>7. \/ control[wr[t].node] # wr[t].observed
      \/ rd[t].ptr \in window[wr[t].node]
  <2>1. /\ ConfirmedOk(rd[t], control[t], generation[t], handover, window[t])
        /\ HelpSeenOk(wr[t], control[wr[t].node], window[t], window[wr[t].node])
    BY DEF Witnessed, ConfirmedSeen, HelpSeen
  <2> QED BY <1>2, <1>6, <2>1 DEF ConfirmedOk, HelpSeenOk, SettledPc
<1> QED BY <1>2, <1>3, <1>4, <1>5, <1>6, <1>7, ClearHarmless
        DEF Announced, AidPc

(* What a guard with a debt is on has not gone. *)
LEMMA HandleNotGone ==
  ASSUME NEW h \in Handles, held[h] > 0, h.debt \in SlotIds,
         NEW a \in Objects, Gone(a)
  PROVE  h.ptr # a
<1> SUFFICES ASSUME h.ptr = a
             PROVE  FALSE
  OBVIOUS
<1>1. h = [ptr |-> a, debt |-> h.debt]
  BY DEF Handles
<1>2. OwesGuard(held, h.debt, a)
  BY <1>1 DEF OwesGuard
<1> QED BY <1>2 DEF Gone

(* The frame of an idle load, with what the others rely on. *)
LEMMA IdleLoad ==
  ASSUME Control, Witnessed, NEW t \in Threads, rd[t].pc = "idle"
  PROVE  /\ Types /\ control[t] = IDLE /\ rd[t].src = NoStorage
         /\ ConfirmedOk(rd[t], control[t], generation[t], handover, window[t])
<1>1. /\ FollowOk(rd[t], control[t], generation[t], active_addr[t])
      /\ LoadOk(t, rd[t]) /\ Types
  BY Own
<1> QED BY <1>1 DEF FollowOk, LoadOk, Announced, Witnessed, ConfirmedSeen

(* into_inner of a guard of the caller. *)
LEMMA IntoInnerHarmless ==
  ASSUME Control, Protocol, Memory, Origin, Witnessed, NEW t \in Threads,
         rd[t].pc = "idle", wr[t].pc = "idle", NEW h \in Handles, held[h] > 0,
         IntoInner(t, h)
  PROVE  Harmless(t)
<1>1. Types /\ control[t] = IDLE /\ rd[t].src = NoStorage
  BY IdleLoad
<1>2. /\ wr' = wr /\ storage' = storage /\ handover' = handover
      /\ control' = control /\ generation' = generation /\ slots' = slots
      /\ window' = window /\ Take(h) /\ h.debt \in SlotIds
  BY <1>1, IntoInnerEffect DEF Handles
<1>3. /\ OnlyRd(t) /\ rd'[t].pc = "inc" /\ rd'[t].src = NoStorage
      /\ rd'[t].ptr = h.ptr /\ rd'[t].debt = h.debt
  BY <1>1, IntoInnerEffect DEF RdTo
<1>4. FirstGoesOn(t) /\ SettlesWell(t)
  BY <1>2, <1>3, HandleNotGone DEF FirstGoesOn, FirstPc, SettlesWell
<1>5. GuardsWell /\ PaysWell(t)
  BY <1>1, <1>2, GuardsTake, SlotsBefore
<1>6. ConfirmedOk(rd'[t], control'[t], generation'[t], handover, window[t])
  BY <1>1, <1>2, <1>3, Words DEF ConfirmedOk, Unhelped
<1> QED BY <1>1, <1>2, <1>3, <1>4, <1>5, <1>6, ReaderHarmless DEF FirstPc

(* A guard or an Arc of the caller is dropped. *)
LEMMA DropHarmless ==
  ASSUME Control, Protocol, Memory, Origin, Witnessed, NEW t \in Threads,
         rd[t].pc = "idle", wr[t].pc = "idle", NEW h \in Handles, held[h] > 0,
         Drop(t, h)
  PROVE  Harmless(t)
<1>1. /\ Types /\ control[t] = IDLE /\ rd[t].src = NoStorage
      /\ ConfirmedOk(rd[t], control[t], generation[t], handover, window[t])
  BY IdleLoad
<1>2. /\ wr' = wr /\ storage' = storage /\ handover' = handover
      /\ control' = control /\ generation' = generation /\ Take(h)
  BY <1>1, DropEffect
<1>3. /\ OnlyRd(t) /\ rd'[t].pc \in {"idle", "drop_dec"}
      /\ rd'[t].src = NoStorage
  BY <1>1, DropEffect DEF RdMove, RdTo, OnlyRd
<1>4. FirstGoesOn(t) /\ SettlesWell(t) /\ GuardsWell
  BY <1>1, <1>2, <1>3, SettledBefore, GuardsTake
     DEF FirstGoesOn, FirstPc, SettledPc
<1>5. PaysWell(t)
  <2>1. CASE slots' = slots
    BY <2>1, SlotsBefore
  <2>2. CASE Paid(h.debt, h.ptr) \/ PaidBefore(h.debt, h.ptr)
    BY <1>1, <2>2, HandleNotGone, SlotsPaid
  <2> QED BY <1>1, <2>1, <2>2, DropEffect
<1>6. window' = window \/ Frees
  <2>1. h.ptr \in Ptrs
    BY DEF Handles
  <2>2. Dec(h.ptr) \/ window' = window
    BY <1>1, DropEffect
  <2> QED BY <1>1, <2>1, <2>2, DecWindow
<1>7. ConfirmedOk(rd'[t], control'[t], generation'[t], handover, window[t])
  BY <1>1, <1>2, <1>3, Words DEF ConfirmedOk, Unhelped, SettledPc
<1> QED BY <1>1, <1>2, <1>3, <1>4, <1>5, <1>6, <1>7, ReaderHarmless DEF FirstPc

(* An Arc is cloned from what the caller has. *)
LEMMA CloneHarmless ==
  ASSUME Control, Protocol, Memory, Origin, Witnessed, NEW t \in Threads,
         rd[t].pc = "idle", wr[t].pc = "idle", NEW h \in Handles, held[h] > 0,
         Clone(t, h)
  PROVE  Harmless(t)
<1>1. /\ Types
      /\ ConfirmedOk(rd[t], control[t], generation[t], handover, window[t])
  BY IdleLoad
<1>2. /\ wr' = wr /\ rd' = rd /\ storage' = storage /\ handover' = handover
      /\ control' = control /\ generation' = generation /\ slots' = slots
      /\ window' = window /\ Give(Owned(h.ptr))
  BY DEF Clone
<1>3. /\ Owned(h.ptr) \in Handles /\ Owned(h.ptr).debt \notin SlotIds
  <2>1. h.ptr \in Ptrs
    BY DEF Handles
  <2> QED BY <2>1, Handle, Slots DEF Owned
<1>4. /\ FirstGoesOn(t) /\ SettlesWell(t) /\ GuardsWell /\ PaysWell(t)
      /\ OnlyRd(t)
  BY <1>1, <1>2, <1>3, SettledBefore, GuardsGive, SlotsBefore
     DEF FirstGoesOn, FirstPc, OnlyRd
<1> QED BY <1>1, <1>2, <1>4, ReaderHarmless

(* A thread ends and another one takes over its node. *)
LEMMA ThreadRestartHarmless ==
  ASSUME Control, Protocol, Memory, Origin, Witnessed, NEW t \in Threads,
         rd[t].pc = "idle", wr[t].pc = "idle", ThreadRestart(t)
  PROVE  Harmless(t)
<1>1. /\ Types
      /\ ConfirmedOk(rd[t], control[t], generation[t], handover, window[t])
  BY IdleLoad
<1>2. /\ wr' = wr /\ rd' = rd /\ storage' = storage /\ handover' = handover
      /\ control' = control /\ slots' = slots /\ held' = held
      /\ window' = window /\ generation' = [generation EXCEPT ![t] = 0]
  BY DEF ThreadRestart
<1>3. \A u \in Threads : u # t => generation'[u] = generation[u]
  BY <1>1, <1>2 DEF Types
<1>4. /\ FirstGoesOn(t) /\ SettlesWell(t) /\ GuardsWell /\ PaysWell(t)
      /\ OnlyRd(t)
  BY <1>2, SettledBefore, GuardsBefore, SlotsBefore
     DEF FirstGoesOn, FirstPc, OnlyRd
<1>5. ConfirmedOk(rd'[t], control'[t], generation'[t], handover, window[t])
  BY <1>1, <1>2 DEF ConfirmedOk, Unhelped, SettledPc
<1> QED BY <1>2, <1>3, <1>4, <1>5, ReaderHarmless

(* The write of t gives a replacement that the load of its node may return. *)
LEMMA HelpFillHarmless ==
  ASSUME Control, Protocol, Memory, Origin, Witnessed, NEW t \in Threads,
         HelpFill(t)
  PROVE  Harmless(t)
<1>1. Types /\ wr[t].pc = "fill" /\ rd[t].pc = "idle"
  <2>1. Types /\ wr[t].pc = "fill"
    BY Own, HelpFillEffect
  <2>2. WriteOk(wr[t], rd[t])
    BY Own
  <2> QED BY <2>1, <2>2 DEF WriteOk
<1>2. /\ rd' = rd /\ storage' = storage /\ control' = control
      /\ generation' = generation /\ slots' = slots /\ held' = held
      /\ window' = window
      /\ handover' = [handover EXCEPT ![space_offer[t]] = wr[t].repl]
  BY <1>1, HelpFillEffect
<1>3. /\ OnlyWr(t) /\ wr'[t].pc = "help_cas" /\ wr'[t].old = wr[t].old
      /\ wr'[t].odebt = wr[t].odebt /\ wr'[t].node = wr[t].node
      /\ wr'[t].observed = wr[t].observed /\ wr'[t].repl = wr[t].repl
  BY <1>1, HelpFillEffect DEF WrGo, WrCas, WrTo
<1>4. /\ OnlyRd(t) /\ History(t) /\ FirstOf(rd'[t]) /\ NewOf(wr'[t])
      /\ KeepsFirst(t)
  BY <1>1, <1>2, <1>3 DEF OnlyRd, History, Quiet, FirstOf, NewOf, CasPc,
                          KeepsFirst, FirstPc
<1>5. KeepsGone(t)
  <2>1. RemovesWell(t)
    BY <1>1, <1>3, RemovedBefore DEF PayAllPc
  <2> QED BY <1>2, <2>1, SettledBefore, GuardsBefore, SlotsBefore, GoneKept
<1>6. ASSUME NEW u \in Threads
      PROVE  ConfirmedOk(rd[u], control[u], generation[u], handover', window[u])
  <2>1. ConfirmedOk(rd[u], control[u], generation[u], handover, window[u])
    BY DEF Witnessed, ConfirmedSeen
  <2>2. /\ IsReplacement(control[u]) => control[u][2] # space_offer[t]
        /\ rd[u].pc = "take" => rd[u].env # space_offer[t]
    BY <1>1, FillAlone
  <2>3. /\ handover \in [Threads -> Ptrs] /\ control[u] \in ControlWords
        /\ rd[u].env \in Threads
    BY <1>1, FrameTypes DEF Types
  <2>4. IsReplacement(control[u]) => control[u][2] \in Threads
    BY <2>3, Words
  <2>5. /\ IsReplacement(control[u]) =>
             handover'[control[u][2]] = handover[control[u][2]]
        /\ rd[u].pc = "take" => handover'[rd[u].env] = handover[rd[u].env]
    BY <1>2, <2>2, <2>3, <2>4
  <2> QED BY <2>1, <2>5 DEF ConfirmedOk
<1>7. KeepsConfirmed(t)
  BY <1>2, <1>6 DEF KeepsConfirmed
<1>8. KeepsAid(t)
  <2>1. HelpOk(t, wr[t]) /\ wr[t].node \in Threads
    BY <1>1, Own, FrameTypes
  <2>2. HelpSeenOk(wr[t], control[wr[t].node], window[t], window[wr[t].node])
    BY DEF Witnessed, HelpSeen
  <2> QED BY <1>1, <1>2, <1>3, <2>1, <2>2
          DEF KeepsAid, HelpSeenOk, HelpOk, AidPc, HelpPc
<1> QED BY <1>3, <1>4, <1>5, <1>7, <1>8 DEF Harmless

(* It is handed over, or somebody else was faster. *)
LEMMA HelpCasHarmless ==
  ASSUME Control, Protocol, Memory, Origin, Witnessed, NEW t \in Threads,
         HelpCas(t)
  PROVE  Harmless(t)
<1> DEFINE n == wr[t].node
<1>1. Types /\ wr[t].pc = "help_cas" /\ rd[t].pc = "idle"
  <2>1. Types /\ wr[t].pc = "help_cas"
    BY Own, HelpCasEffect
  <2>2. WriteOk(wr[t], rd[t])
    BY Own
  <2> QED BY <2>1, <2>2 DEF WriteOk
<1>2. /\ rd' = rd /\ storage' = storage /\ handover' = handover
      /\ generation' = generation /\ slots' = slots /\ held' = held
      /\ window' = window
  BY <1>1, HelpCasEffect
<1>3. /\ OnlyWr(t) /\ wr'[t].pc \in {"switch", "help_drop"}
      /\ wr'[t].old = wr[t].old /\ wr'[t].odebt = wr[t].odebt
  BY <1>1, HelpCasEffect DEF WrGo, WrCas, WrHelp, WrTo
<1>4. /\ OnlyRd(t) /\ History(t) /\ FirstOf(rd'[t]) /\ NewOf(wr'[t])
      /\ KeepsFirst(t)
  BY <1>1, <1>2, <1>3 DEF OnlyRd, History, Quiet, FirstOf, NewOf, CasPc,
                          KeepsFirst, FirstPc
<1>5. KeepsGone(t)
  <2>1. RemovesWell(t)
    BY <1>1, <1>3, RemovedBefore DEF PayAllPc
  <2> QED BY <1>2, <2>1, SettledBefore, GuardsBefore, SlotsBefore, GoneKept
<1>6. /\ n \in Threads
      /\ \A u \in Threads : u # n => control'[u] = control[u]
      /\ \/ control'[n] = control[n]
         \/ /\ control[n] = wr[t].observed
            /\ control'[n] = Replacement(space_offer[t])
  BY <1>1, FrameTypes, HelpCasEffect DEF Types
<1>7. control[n] = wr[t].observed => handover[space_offer[t]] \in window[n]
  <2>1. HelpSeenOk(wr[t], control[n], window[t], window[n])
    BY DEF Witnessed, HelpSeen
  <2>2. handover[space_offer[t]] = wr[t].repl
    BY <1>1, Seen
  <2> QED BY <1>1, <2>1, <2>2 DEF HelpSeenOk, AidPc
<1> HIDE DEF n
<1>8. ASSUME NEW u \in Threads
      PROVE  ConfirmedOk(rd[u], control'[u], generation[u], handover, window[u])
  <2>1. ConfirmedOk(rd[u], control[u], generation[u], handover, window[u])
    BY DEF Witnessed, ConfirmedSeen
  <2>2. CASE control'[u] = control[u]
    BY <2>1, <2>2
  <2>3. CASE /\ u = n /\ control[n] = wr[t].observed
             /\ control'[n] = Replacement(space_offer[t])
    BY <1>7, <2>1, <2>3, Words DEF ConfirmedOk, Unhelped
  <2> QED BY <1>6, <2>2, <2>3
<1>9. KeepsConfirmed(t)
  BY <1>2, <1>8 DEF KeepsConfirmed
<1>10. KeepsAid(t)
  <2>1. ASSUME NEW u \in Threads, wr[u].pc \in AidPc,
               control'[wr[u].node] = wr[u].observed
        PROVE  control[wr[u].node] = wr[u].observed
    <3>1. HelpOk(u, wr[u]) /\ wr[u].node \in Threads
      BY <1>1, Own, FrameTypes
    <3>2. IsGen(wr[u].observed)
      BY <2>1, <3>1 DEF HelpOk, AidPc, HelpPc
    <3> QED BY <1>6, <2>1, <3>1, <3>2, Words
  <2> QED BY <1>3, <2>1 DEF KeepsAid, AidPc
<1> QED BY <1>3, <1>4, <1>5, <1>9, <1>10 DEF Harmless

(* In the beginning nobody loads. *)
LEMMA WitnessedInit ==
  ASSUME Init
  PROVE  Origin /\ Witnessed
<1>1. /\ \A t \in Threads : /\ rd[t].pc = "idle" /\ rd[t].src = NoStorage
                            /\ wr[t].pc = "idle" /\ control[t] = IDLE
  BY DEF Init, NoLoad, NoWrite
<1>2. Origin
  BY <1>1, InitialAssumption
     DEF Init, Origin, FirstOf, NewOf, StoredOf, SeenOf, FirstPc, CasPc
<1>3. StoredSeen /\ FirstSeen
  BY <1>1 DEF StoredSeen, FirstSeen, FirstSeenOk, FirstPc
<1>4. ConfirmedSeen /\ HelpSeen
  BY <1>1, Words DEF ConfirmedSeen, ConfirmedOk, HelpSeen, HelpSeenOk, AidPc,
                     SettledPc, Unhelped
<1> QED BY <1>2, <1>3, <1>4 DEF Witnessed

(* A step that changes nothing. *)
LEMMA WitnessedStutter ==
  ASSUME Origin, Witnessed, UNCHANGED vars
  PROVE  Origin' /\ Witnessed'
BY DEF Origin, FirstOf, NewOf, StoredOf, SeenOf, Witnessed, StoredSeen, FirstSeen,
       FirstSeenOk, Gone, GoneFor, HasRemoved, OwesGuard, ConfirmedSeen,
       ConfirmedOk, Unhelped, HelpSeen, HelpSeenOk, vars

(* Every step is harmless. *)
LEMMA WitnessedNext ==
  ASSUME Apart, Control, Protocol, Memory, Origin, Witnessed, FreedOk',
         [Next]_vars
  PROVE  Origin' /\ Witnessed'
<1>1. ASSUME NEW t \in Threads, LoadStep(t)
      PROVE  Harmless(t)
  BY <1>1, ScanHarmless, ConfirmFastHarmless, GiveBackHarmless,
     GetDebtHarmless, GetDebtControlHarmless, CandidateHarmless,
     ConfirmSlotHarmless, ConfirmControlHarmless, TakeHandoverHarmless,
     UnusedPayHarmless, UnusedDecHarmless, IntoInnerIncHarmless,
     IntoInnerPayHarmless, IntoInnerDecHarmless, ReturnFullHarmless,
     ReturnToCallerHarmless, DropDecHarmless DEF LoadStep
<1>2. ASSUME NEW t \in Threads, WriteStep(t)
      PROVE  Harmless(t)
  BY <1>2, CasLoadedHarmless, DropNewHarmless, CasExchangeHarmless,
     CasFailedHarmless, CasPayHarmless, CasDecHarmless, CasRetryHarmless,
     PrePayHarmless, HelpHarmless, HelpCheckAddrHarmless, HelpRecheckHarmless,
     HelpReplacementHarmless, HelpTheirSpaceHarmless, HelpFillHarmless,
     HelpCasHarmless, HelpSwitchHarmless, HelpDropHarmless, PaySlotHarmless,
     PayIncHarmless, ReleaseValHarmless, DropOldHarmless DEF WriteStep
<1>3. ASSUME NEW t \in Threads, StartCall(t)
      PROVE  Harmless(t)
  <2>1. rd[t].pc = "idle" /\ wr[t].pc = "idle"
    BY <1>3 DEF StartCall
  <2>2. CASE \E s \in Storages, op \in {"load", "load_full"} : Load(t, s, op)
    BY <2>1, <2>2, LoadHarmless
  <2>3. CASE \E s \in Storages, op \in {"swap", "store"} : Swap(t, s, op)
    BY <2>1, <2>3, SwapHarmless
  <2>4. CASE \E s \in Storages, op \in {"drop_storage", "unwrap_storage"} :
               EndStorage(t, s, op)
    BY <2>1, <2>4, EndStorageHarmless
  <2>5. CASE \E s \in Storages : \E p \in Pool[s] : CompareAndSwap(t, s, p)
    BY <2>1, <2>5, CompareAndSwapHarmless
  <2>6. CASE \E h \in Handles : held[h] > 0 /\ IntoInner(t, h)
    BY <2>1, <2>6, IntoInnerHarmless
  <2>7. CASE \E h \in Handles : held[h] > 0 /\ Clone(t, h)
    BY <2>1, <2>7, CloneHarmless
  <2>8. CASE \E h \in Handles : held[h] > 0 /\ Drop(t, h)
    BY <2>1, <2>8, DropHarmless
  <2>9. CASE ThreadRestart(t)
    BY <2>1, <2>9, ThreadRestartHarmless
  <2> QED BY <1>3, <2>2, <2>3, <2>4, <2>5, <2>6, <2>7, <2>8, <2>9 DEF StartCall
<1>4. ASSUME UNCHANGED vars
      PROVE  Origin' /\ Witnessed'
  BY <1>4, WitnessedStutter
<1> QED BY <1>1, <1>2, <1>3, <1>4, WitnessedStep DEF Next, AllDone

(* The invariant holds in every reachable state, when no object may be in two
   storages. *)
LEMMA WitnessedHolds == Apart /\ Spec => [](Control /\ Origin /\ Witnessed)
<1>1. Spec => [](Control /\ Protocol /\ Memory /\ FreedOk)
  <2>1. Control /\ Memory /\ Ledger => FreedOk
    BY Freed
  <2> QED BY <2>1, LedgerHolds, MemoryHolds, PTL
<1>2. Init => Origin /\ Witnessed
  BY WitnessedInit
<1>3. /\ Apart /\ Control /\ Protocol /\ Memory /\ Origin /\ Witnessed
      /\ FreedOk' /\ [Next]_vars
      => Origin' /\ Witnessed'
  BY WitnessedNext
<1>4. Apart => []Apart
  <2>1. Apart => Apart'
    BY DEF Apart
  <2> QED BY <2>1, PTL
<1> QED BY <1>1, <1>2, <1>3, <1>4, PTL DEF Spec

(* A load returns what its storage held at some time between its beginning and
   its end, and which has not been freed since (LoadLinearizable), with any
   number of threads, slots, storages and calls, when no object may be in two
   storages. *)
THEOREM LoadLinearizableHolds == Apart /\ Spec => []LoadLinearizable
<1>1. Witnessed => LoadLinearizable
  BY DEF Witnessed, ConfirmedSeen, ConfirmedOk, LoadLinearizable, SettledPc
<1> QED BY <1>1, WitnessedHolds, PTL

-----------------------------------------------------------------------------
(* What HelpingSlots sees of the load r and the write w of the thread t. *)
EnvelopeOf(t, r) == IF r.pc = "take" THEN r.env ELSE t
WhoOf(t, w) == IF HelperPcOf(w) # "idle" THEN w.node ELSE t
TargetOf(w) == IF HelperPcOf(w) # "idle" THEN w.dst ELSE Null
ObservedOf(w) == IF HelperPcOf(w) # "idle" THEN w.observed ELSE IDLE
ReplacementOf(w) ==
  IF w.pc \in {"their_space", "fill", "help_cas", "switch"} THEN w.repl ELSE Null
TheirSpaceOf(t, w) ==
  IF w.pc \in {"fill", "help_cas", "switch"} THEN w.their ELSE t

(* Its variables. *)
HsReader == [t \in Threads |-> ReaderPcOf(rd[t])]
HsEnvelope == [t \in Threads |-> EnvelopeOf(t, rd[t])]
HsHelper == [t \in Threads |-> HelperPcOf(wr[t])]
HsWho == [t \in Threads |-> WhoOf(t, wr[t])]
HsTarget == [t \in Threads |-> TargetOf(wr[t])]
HsObserved == [t \in Threads |-> ObservedOf(wr[t])]
HsReplacement == [t \in Threads |-> ReplacementOf(wr[t])]
HsTheirSpace == [t \in Threads |-> TheirSpaceOf(t, wr[t])]

(* A step leaves what HelpingSlots sees of t alone. *)
SameReader(t) ==
  /\ ReaderPcOf(rd'[t]) = ReaderPcOf(rd[t])
  /\ EnvelopeOf(t, rd'[t]) = EnvelopeOf(t, rd[t])
SameHelper(t) ==
  /\ HelperPcOf(wr'[t]) = HelperPcOf(wr[t])
  /\ WhoOf(t, wr'[t]) = WhoOf(t, wr[t]) /\ TargetOf(wr'[t]) = TargetOf(wr[t])
  /\ ObservedOf(wr'[t]) = ObservedOf(wr[t])
  /\ ReplacementOf(wr'[t]) = ReplacementOf(wr[t])
  /\ TheirSpaceOf(t, wr'[t]) = TheirSpaceOf(t, wr[t])

(* A step of the load of t changes the reader at t only. *)
LEMMA ReaderMoves ==
  ASSUME NEW t \in Threads, OnlyRd(t)
  PROVE  /\ HsReader' = [HsReader EXCEPT ![t] = ReaderPcOf(rd'[t])]
         /\ HsEnvelope' = [HsEnvelope EXCEPT ![t] = EnvelopeOf(t, rd'[t])]
         /\ EnvelopeOf(t, rd'[t]) = EnvelopeOf(t, rd[t]) => HsEnvelope' = HsEnvelope
         /\ SameReader(t) => HsReader' = HsReader /\ HsEnvelope' = HsEnvelope
<1>1. \A u \in Threads : u # t => rd'[u] = rd[u]
  BY DEF OnlyRd
<1>2. /\ HsReader' = [u \in Threads |-> ReaderPcOf(rd'[u])]
      /\ HsEnvelope' = [u \in Threads |-> EnvelopeOf(u, rd'[u])]
  BY DEF HsReader, HsEnvelope, EnvelopeOf, ReaderPcOf
<1>3. HsReader' = [HsReader EXCEPT ![t] = ReaderPcOf(rd'[t])]
  BY <1>1, <1>2 DEF HsReader
<1>4. HsEnvelope' = [HsEnvelope EXCEPT ![t] = EnvelopeOf(t, rd'[t])]
  BY <1>1, <1>2 DEF HsEnvelope
<1>5. /\ HsReader[t] = ReaderPcOf(rd[t]) /\ HsEnvelope[t] = EnvelopeOf(t, rd[t])
      /\ HsReader = [u \in Threads |-> HsReader[u]]
      /\ HsEnvelope = [u \in Threads |-> HsEnvelope[u]]
  BY DEF HsReader, HsEnvelope
<1> QED BY <1>3, <1>4, <1>5 DEF SameReader

(* A step of the write of t changes the helper at t only. *)
LEMMA HelperMoves ==
  ASSUME NEW t \in Threads, OnlyWr(t)
  PROVE  /\ HsHelper' = [HsHelper EXCEPT ![t] = HelperPcOf(wr'[t])]
         /\ HsWho' = [HsWho EXCEPT ![t] = WhoOf(t, wr'[t])]
         /\ HsTarget' = [HsTarget EXCEPT ![t] = TargetOf(wr'[t])]
         /\ HsObserved' = [HsObserved EXCEPT ![t] = ObservedOf(wr'[t])]
         /\ HsReplacement' = [HsReplacement EXCEPT ![t] = ReplacementOf(wr'[t])]
         /\ HsTheirSpace' = [HsTheirSpace EXCEPT ![t] = TheirSpaceOf(t, wr'[t])]
<1>1. \A u \in Threads : u # t => wr'[u] = wr[u]
  BY DEF OnlyWr
<1>2. /\ HsHelper' = [u \in Threads |-> HelperPcOf(wr'[u])]
      /\ HsWho' = [u \in Threads |-> WhoOf(u, wr'[u])]
      /\ HsTarget' = [u \in Threads |-> TargetOf(wr'[u])]
  BY DEF HsHelper, HsWho, HsTarget, WhoOf, TargetOf, HelperPcOf
<1>3. /\ HsObserved' = [u \in Threads |-> ObservedOf(wr'[u])]
      /\ HsReplacement' = [u \in Threads |-> ReplacementOf(wr'[u])]
      /\ HsTheirSpace' = [u \in Threads |-> TheirSpaceOf(u, wr'[u])]
  BY DEF HsObserved, HsReplacement, HsTheirSpace, ObservedOf, ReplacementOf,
         TheirSpaceOf, HelperPcOf
<1>4. HsHelper' = [HsHelper EXCEPT ![t] = HelperPcOf(wr'[t])]
  BY <1>1, <1>2 DEF HsHelper
<1>5. HsWho' = [HsWho EXCEPT ![t] = WhoOf(t, wr'[t])]
  BY <1>1, <1>2 DEF HsWho
<1>6. HsTarget' = [HsTarget EXCEPT ![t] = TargetOf(wr'[t])]
  BY <1>1, <1>2 DEF HsTarget
<1>7. HsObserved' = [HsObserved EXCEPT ![t] = ObservedOf(wr'[t])]
  BY <1>1, <1>3 DEF HsObserved
<1>8. HsReplacement' = [HsReplacement EXCEPT ![t] = ReplacementOf(wr'[t])]
  BY <1>1, <1>3 DEF HsReplacement
<1>9. HsTheirSpace' = [HsTheirSpace EXCEPT ![t] = TheirSpaceOf(t, wr'[t])]
  BY <1>1, <1>3 DEF HsTheirSpace
<1> QED BY <1>4, <1>5, <1>6, <1>7, <1>8, <1>9

(* What they are at t. *)
LEMMA AtThread ==
  ASSUME NEW t \in Threads
  PROVE  /\ HsReader[t] = ReaderPcOf(rd[t]) /\ HsEnvelope[t] = EnvelopeOf(t, rd[t])
         /\ HsHelper[t] = HelperPcOf(wr[t]) /\ HsWho[t] = WhoOf(t, wr[t])
         /\ HsTarget[t] = TargetOf(wr[t]) /\ HsObserved[t] = ObservedOf(wr[t])
         /\ HsReplacement[t] = ReplacementOf(wr[t])
         /\ HsTheirSpace[t] = TheirSpaceOf(t, wr[t])
BY DEF HsReader, HsEnvelope, HsHelper, HsWho, HsTarget, HsObserved,
       HsReplacement, HsTheirSpace

(* What is the same of the write of t is the same of the helper. *)
LEMMA HelperStays ==
  ASSUME NEW t \in Threads, OnlyWr(t)
  PROVE  /\ HelperPcOf(wr'[t]) = HelperPcOf(wr[t]) => HsHelper' = HsHelper
         /\ WhoOf(t, wr'[t]) = WhoOf(t, wr[t]) => HsWho' = HsWho
         /\ TargetOf(wr'[t]) = TargetOf(wr[t]) => HsTarget' = HsTarget
         /\ ObservedOf(wr'[t]) = ObservedOf(wr[t]) => HsObserved' = HsObserved
         /\ ReplacementOf(wr'[t]) = ReplacementOf(wr[t]) =>
              HsReplacement' = HsReplacement
         /\ TheirSpaceOf(t, wr'[t]) = TheirSpaceOf(t, wr[t]) =>
              HsTheirSpace' = HsTheirSpace
<1>1. /\ HsHelper = [HsHelper EXCEPT ![t] = HelperPcOf(wr[t])]
      /\ HsWho = [HsWho EXCEPT ![t] = WhoOf(t, wr[t])]
      /\ HsTarget = [HsTarget EXCEPT ![t] = TargetOf(wr[t])]
  BY DEF HsHelper, HsWho, HsTarget
<1>2. /\ HsObserved = [HsObserved EXCEPT ![t] = ObservedOf(wr[t])]
      /\ HsReplacement = [HsReplacement EXCEPT ![t] = ReplacementOf(wr[t])]
      /\ HsTheirSpace = [HsTheirSpace EXCEPT ![t] = TheirSpaceOf(t, wr[t])]
  BY DEF HsObserved, HsReplacement, HsTheirSpace
<1> QED BY <1>1, <1>2, HelperMoves

(* A step that the protocol does not see. *)
SameWords ==
  UNCHANGED <<control, active_addr, space_offer, handover, generation>>
LEMMA AsideHs ==
  ASSUME NEW t \in Threads, OnlyRd(t), OnlyWr(t), SameWords, SameReader(t),
         SameHelper(t)
  PROVE  UNCHANGED HS!vars
<1>1. HsReader' = HsReader /\ HsEnvelope' = HsEnvelope
  BY ReaderMoves
<1>2. /\ HsHelper' = HsHelper /\ HsWho' = HsWho /\ HsTarget' = HsTarget
      /\ HsObserved' = HsObserved /\ HsReplacement' = HsReplacement
      /\ HsTheirSpace' = HsTheirSpace
  BY HelperStays DEF SameHelper
<1> QED BY <1>1, <1>2
        DEF SameWords, HS!vars, HS!readerVars, HS!helperVars, HsReader,
            HsEnvelope, HsHelper, HsWho, HsTarget, HsObserved, HsReplacement,
            HsTheirSpace, EnvelopeOf, WhoOf, TargetOf, ObservedOf,
            ReplacementOf, TheirSpaceOf, Helping

(* The generation is swapped for IDLE, or a hand-over found. *)
LEMMA ConfirmControlHs ==
  ASSUME Control, NEW t \in Threads, ConfirmControl(t)
  PROVE  HS!Confirm(t)
<1>1. Types /\ rd[t].pc = "confirm_control"
  BY Own, ConfirmControlEffect
<1>2. /\ wr' = wr /\ control' = [control EXCEPT ![t] = IDLE]
      /\ active_addr' = active_addr /\ space_offer' = space_offer
      /\ handover' = handover /\ generation' = generation
  BY <1>1, ConfirmControlEffect
<1>3. /\ OnlyRd(t)
      /\ \/ control[t] = Gen(generation[t]) /\ rd'[t].pc = "inc"
         \/ /\ control[t] # Gen(generation[t])
            /\ rd'[t].pc = "take" /\ rd'[t].env = control[t][2]
  BY <1>1, ConfirmControlEffect DEF RdGo, RdMove, RdTo
<1>4. /\ HsReader[t] = "confirm" /\ EnvelopeOf(t, rd[t]) = t
      /\ \/ /\ control[t] = Gen(generation[t])
            /\ HsReader' = [HsReader EXCEPT ![t] = "idle"]
            /\ HsEnvelope' = HsEnvelope
         \/ /\ control[t] # Gen(generation[t])
            /\ HsReader' = [HsReader EXCEPT ![t] = "take_handover"]
            /\ HsEnvelope' = [HsEnvelope EXCEPT ![t] = control[t][2]]
  BY <1>1, <1>3, ReaderMoves, AtThread DEF ReaderPcOf, EnvelopeOf
<1>5. /\ HsHelper' = HsHelper /\ HsWho' = HsWho /\ HsTarget' = HsTarget
      /\ HsObserved' = HsObserved /\ HsReplacement' = HsReplacement
      /\ HsTheirSpace' = HsTheirSpace
  BY <1>2, HelperStays DEF OnlyWr
<1> QED BY <1>2, <1>4, <1>5
        DEF HS!Confirm, HS!helperVars, HsReader,
            HsEnvelope, HsHelper, HsWho, HsTarget, HsObserved, HsReplacement,
            HsTheirSpace, EnvelopeOf, WhoOf, TargetOf, ObservedOf,
            ReplacementOf, TheirSpaceOf, Helping, HS!Gen, HS!IDLE, Gen, IDLE

(* No generation wraps: no load is between the step in which its generation
   became 0 and its panic. *)
Unwrapped == \A t \in Threads : ~WrappedOk(rd[t], generation[t])

(* A load, or a write, that is not in the protocol. *)
InSlotsPc == {"control", "candidate", "slot", "confirm_control", "take"}

(* A step of a load or a write that is not in the protocol is none of
   HelpingSlots. *)
LEMMA OutsideHs ==
  ASSUME NEW t \in Threads, OnlyRd(t), OnlyWr(t), SameWords,
         \/ rd' = rd
         \/ rd[t].pc \notin InSlotsPc /\ rd'[t].pc \notin InSlotsPc
         \/ /\ rd[t].pc \in {"candidate", "slot"}
            /\ rd'[t].pc \in {"slot", "confirm_control"},
         \/ wr' = wr
         \/ /\ wr[t].pc \notin HelpPc \cup {"help_drop"}
            /\ wr'[t].pc \notin HelpPc \cup {"help_drop"}
  PROVE  UNCHANGED HS!vars
<1>1. SameReader(t)
  BY DEF SameReader, ReaderPcOf, EnvelopeOf, InSlotsPc
<1>2. CASE wr' = wr
  BY <1>1, <1>2, AsideHs DEF SameHelper
<1>3. CASE /\ wr[t].pc \notin HelpPc \cup {"help_drop"}
           /\ wr'[t].pc \notin HelpPc \cup {"help_drop"}
  <2>1. HelperPcOf(wr[t]) = "idle" /\ HelperPcOf(wr'[t]) = "idle"
    BY <1>3 DEF HelperPcOf, HelpPc
  <2>2. SameHelper(t)
    BY <1>3, <2>1 DEF SameHelper, WhoOf, TargetOf, ObservedOf, ReplacementOf,
                      TheirSpaceOf, HelpPc
  <2> QED BY <1>1, <2>2, AsideHs
<1> QED BY <1>2, <1>3

(* The search for a fast slot is none of HelpingSlots. *)
LEMMA ScanHs ==
  ASSUME Types, NEW t \in Threads, Scan(t)
  PROVE  UNCHANGED HS!vars
<1>1. OnlyRd(t) /\ wr' = wr /\ SameWords
  BY ScanEffect DEF SameWords, RdGo, RdMove, RdTo
<1>2. rd[t].pc = "scan" /\ rd'[t].pc \in {"scan", "confirm", "get_debt"}
  BY ScanEffect DEF RdGo, RdMove, RdTo
<1> QED BY <1>1, <1>2, OutsideHs DEF OnlyWr, InSlotsPc

(* Neither is the second read of the fast path. *)
LEMMA ConfirmFastHs ==
  ASSUME Types, NEW t \in Threads, ConfirmFast(t)
  PROVE  UNCHANGED HS!vars
<1>1. OnlyRd(t) /\ wr' = wr /\ SameWords
  BY ConfirmFastEffect DEF SameWords, RdGo, RdMove, RdTo
<1>2. rd[t].pc = "confirm" /\ rd'[t].pc \in {"return", "give_back"}
  BY ConfirmFastEffect DEF RdGo, RdMove, RdTo
<1> QED BY <1>1, <1>2, OutsideHs DEF OnlyWr, InSlotsPc

(* Neither is the return of its debt. *)
LEMMA GiveBackHs ==
  ASSUME Types, NEW t \in Threads, GiveBack(t)
  PROVE  UNCHANGED HS!vars
<1>1. OnlyRd(t) /\ wr' = wr /\ SameWords
  BY GiveBackEffect DEF SameWords, RdMove, RdTo
<1>2. rd[t].pc = "give_back" /\ rd'[t].pc \in {"return", "get_debt"}
  BY GiveBackEffect DEF RdMove, RdTo
<1> QED BY <1>1, <1>2, OutsideHs DEF OnlyWr, InSlotsPc

(* The debt of confirm is written while the reader is about to confirm. *)
LEMMA ConfirmSlotHs ==
  ASSUME Types, NEW t \in Threads, ConfirmSlot(t)
  PROVE  UNCHANGED HS!vars
<1>1. OnlyRd(t) /\ wr' = wr /\ SameWords
  BY ConfirmSlotEffect DEF SameWords, RdMove, RdTo
<1>2. rd[t].pc = "slot" /\ rd'[t].pc = "confirm_control"
  BY ConfirmSlotEffect DEF RdMove, RdTo
<1> QED BY <1>1, <1>2, OutsideHs DEF OnlyWr, InSlotsPc

(* The debt of a helped load is paid after the hand-over. *)
LEMMA UnusedPayHs ==
  ASSUME Types, NEW t \in Threads, UnusedPay(t)
  PROVE  UNCHANGED HS!vars
<1>1. OnlyRd(t) /\ wr' = wr /\ SameWords
  BY UnusedPayEffect DEF SameWords, RdGo, RdMove, RdTo
<1>2. rd[t].pc = "unused_pay" /\ rd'[t].pc \in {"return", "unused_dec"}
  BY UnusedPayEffect DEF RdGo, RdMove, RdTo
<1> QED BY <1>1, <1>2, OutsideHs DEF OnlyWr, InSlotsPc

(* So is its reference released. *)
LEMMA UnusedDecHs ==
  ASSUME Types, NEW t \in Threads, UnusedDec(t)
  PROVE  UNCHANGED HS!vars
<1>1. OnlyRd(t) /\ wr' = wr /\ SameWords
  BY UnusedDecEffect DEF SameWords, RdTo
<1>2. rd[t].pc = "unused_dec" /\ rd'[t].pc = "return"
  BY UnusedDecEffect DEF RdTo
<1> QED BY <1>1, <1>2, OutsideHs DEF OnlyWr, InSlotsPc

(* into_inner counts after the protocol. *)
LEMMA IntoInnerIncHs ==
  ASSUME Types, NEW t \in Threads, IntoInnerInc(t)
  PROVE  UNCHANGED HS!vars
<1>1. OnlyRd(t) /\ wr' = wr /\ SameWords
  BY IntoInnerIncEffect DEF SameWords, RdGo, RdMove, RdTo
<1>2. rd[t].pc = "inc" /\ rd'[t].pc = "inner_pay"
  BY IntoInnerIncEffect DEF RdGo, RdMove, RdTo
<1> QED BY <1>1, <1>2, OutsideHs DEF OnlyWr, InSlotsPc

(* into_inner pays after the protocol. *)
LEMMA IntoInnerPayHs ==
  ASSUME Types, NEW t \in Threads, IntoInnerPay(t)
  PROVE  UNCHANGED HS!vars
<1>1. OnlyRd(t) /\ wr' = wr /\ SameWords
  BY IntoInnerPayEffect DEF SameWords, RdGo, RdMove, RdTo
<1>2. rd[t].pc = "inner_pay" /\ rd'[t].pc \in {"return", "inner_dec"}
  BY IntoInnerPayEffect DEF RdGo, RdMove, RdTo
<1> QED BY <1>1, <1>2, OutsideHs DEF OnlyWr, InSlotsPc

(* into_inner releases after the protocol. *)
LEMMA IntoInnerDecHs ==
  ASSUME Types, NEW t \in Threads, IntoInnerDec(t)
  PROVE  UNCHANGED HS!vars
<1>1. OnlyRd(t) /\ wr' = wr /\ SameWords
  BY IntoInnerDecEffect DEF SameWords, RdMove, RdTo
<1>2. rd[t].pc = "inner_dec" /\ rd'[t].pc = "return"
  BY IntoInnerDecEffect DEF RdMove, RdTo
<1> QED BY <1>1, <1>2, OutsideHs DEF OnlyWr, InSlotsPc

(* load_full converts its guard after the protocol. *)
LEMMA ReturnFullHs ==
  ASSUME Types, NEW t \in Threads, ReturnFull(t)
  PROVE  UNCHANGED HS!vars
<1>1. OnlyRd(t) /\ wr' = wr /\ SameWords
  BY ReturnFullEffect DEF SameWords, RdGo, RdMove, RdTo
<1>2. rd[t].pc = "return" /\ rd'[t].pc = "inc"
  BY ReturnFullEffect DEF RdGo, RdMove, RdTo
<1> QED BY <1>1, <1>2, OutsideHs DEF OnlyWr, InSlotsPc

(* A load ends outside of the protocol. *)
LEMMA ReturnToCallerHs ==
  ASSUME Types, NEW t \in Threads, ReturnToCaller(t)
  PROVE  UNCHANGED HS!vars
<1>1. OnlyRd(t) /\ wr' = wr /\ SameWords
  BY ReturnToCallerEffect DEF SameWords, RdIdle, RdTo
<1>2. rd[t].pc = "return" /\ rd'[t].pc = "idle"
  BY ReturnToCallerEffect DEF RdIdle, RdTo
<1> QED BY <1>1, <1>2, OutsideHs DEF OnlyWr, InSlotsPc

(* A guard is released outside of the protocol. *)
LEMMA DropDecHs ==
  ASSUME Types, NEW t \in Threads, DropDec(t)
  PROVE  UNCHANGED HS!vars
<1>1. OnlyRd(t) /\ wr' = wr /\ SameWords
  BY DropDecEffect DEF SameWords, RdIdle, RdTo
<1>2. rd[t].pc = "drop_dec" /\ rd'[t].pc = "idle"
  BY DropDecEffect DEF RdIdle, RdTo
<1> QED BY <1>1, <1>2, OutsideHs DEF OnlyWr, InSlotsPc

(* A load begins outside of the protocol. *)
LEMMA LoadHs ==
  ASSUME Types, NEW t \in Threads, rd[t].pc = "idle",
         NEW s \in Storages, NEW op \in {"load", "load_full"}, Load(t, s, op)
  PROVE  UNCHANGED HS!vars
<1>1. OnlyRd(t) /\ wr' = wr /\ SameWords
  BY LoadEffect DEF SameWords, LoadBegins, RdTo
<1>2. rd[t].pc = "idle" /\ rd'[t].pc \in {"scan", "get_debt"}
  BY LoadEffect DEF LoadBegins, RdTo
<1> QED BY <1>1, <1>2, OutsideHs DEF OnlyWr, InSlotsPc

(* The caller's into_inner begins outside of the protocol. *)
LEMMA IntoInnerHs ==
  ASSUME Types, NEW t \in Threads, rd[t].pc = "idle",
         NEW h \in Handles, IntoInner(t, h)
  PROVE  UNCHANGED HS!vars
<1>1. OnlyRd(t) /\ wr' = wr /\ SameWords
  BY IntoInnerEffect DEF SameWords, RdTo
<1>2. rd[t].pc = "idle" /\ rd'[t].pc = "inc"
  BY IntoInnerEffect DEF RdTo
<1> QED BY <1>1, <1>2, OutsideHs DEF OnlyWr, InSlotsPc

(* The drop of a guard is outside of the protocol. *)
LEMMA DropHs ==
  ASSUME Types, NEW t \in Threads, rd[t].pc = "idle",
         NEW h \in Handles, Drop(t, h)
  PROVE  UNCHANGED HS!vars
<1>1. OnlyRd(t) /\ wr' = wr /\ SameWords
  BY DropEffect DEF SameWords, RdMove, RdTo, OnlyRd
<1>2. rd[t].pc = "idle" /\ rd'[t].pc \in {"idle", "drop_dec"}
  BY DropEffect DEF RdMove, RdTo, OnlyRd
<1> QED BY <1>1, <1>2, OutsideHs DEF OnlyWr, InSlotsPc

(* The candidate is read while the reader is about to confirm. *)
LEMMA CandidateHs ==
  ASSUME Types, Unwrapped', NEW t \in Threads, Candidate(t)
  PROVE  UNCHANGED HS!vars
<1>1. OnlyRd(t) /\ wr' = wr /\ SameWords
  BY CandidateEffect DEF SameWords, RdMove, RdTo
<1>2. /\ rd[t].pc = "candidate" /\ rd'[t].pc \in {"slot", "panicked"}
      /\ rd'[t].pc = "panicked" => generation'[t] = 0
  BY CandidateEffect DEF RdMove, RdTo
<1>3. rd'[t].pc # "panicked"
  BY <1>2 DEF Unwrapped, WrappedOk
<1> QED BY <1>1, <1>2, <1>3, OutsideHs DEF OnlyWr

(* swap and store begin outside of the protocol. *)
LEMMA SwapHs ==
  ASSUME Types, NEW t \in Threads, wr[t].pc = "idle",
         NEW s \in Storages, NEW op \in {"swap", "store"}, Swap(t, s, op)
  PROVE  UNCHANGED HS!vars
<1>1. /\ OnlyRd(t) /\ OnlyWr(t) /\ SameWords
      /\ rd' = rd
  BY SwapEffect DEF SameWords, WrBegins, WrTo, OnlyRd
<1>2. wr[t].pc = "idle" /\ wr'[t].pc = "pre_pay"
  BY SwapEffect DEF WrBegins, WrTo, OnlyRd
<1> QED BY <1>1, <1>2, OutsideHs DEF HelpPc, InSlotsPc

(* So does the end of a storage. *)
LEMMA EndStorageHs ==
  ASSUME Types, NEW t \in Threads, wr[t].pc = "idle",
         NEW s \in Storages, NEW op \in {"drop_storage", "unwrap_storage"},
         EndStorage(t, s, op)
  PROVE  UNCHANGED HS!vars
<1>1. /\ OnlyRd(t) /\ OnlyWr(t) /\ SameWords
      /\ rd' = rd
  BY EndStorageEffect DEF SameWords, WrBegins, WrTo, OnlyRd
<1>2. wr[t].pc = "idle" /\ wr'[t].pc = "pre_pay"
  BY EndStorageEffect DEF WrBegins, WrTo, OnlyRd
<1> QED BY <1>1, <1>2, OutsideHs DEF HelpPc, InSlotsPc

(* So does compare_and_swap, with a load. *)
LEMMA CompareAndSwapHs ==
  ASSUME Types, NEW t \in Threads, rd[t].pc = "idle", wr[t].pc = "idle",
         NEW s \in Storages, NEW p \in Pool[s], CompareAndSwap(t, s, p)
  PROVE  UNCHANGED HS!vars
<1>1. /\ OnlyRd(t) /\ OnlyWr(t) /\ SameWords
      /\ rd'[t].pc \in {"scan", "get_debt"}
  BY CompareAndSwapEffect DEF SameWords, LoadBegins, RdTo, WrBegins, WrTo
<1>2. wr[t].pc = "idle" /\ wr'[t].pc = "cas_load"
  BY CompareAndSwapEffect DEF LoadBegins, RdTo, WrBegins, WrTo
<1> QED BY <1>1, <1>2, OutsideHs DEF HelpPc, InSlotsPc

(* That load ends outside of the protocol. *)
LEMMA CasLoadedHs ==
  ASSUME Types, NEW t \in Threads, CasLoaded(t)
  PROVE  UNCHANGED HS!vars
<1>1. /\ OnlyRd(t) /\ OnlyWr(t) /\ SameWords
      /\ rd[t].pc = "return" /\ rd'[t].pc = "idle"
  BY CasLoadedEffect DEF SameWords, RdIdle, RdTo, WrGo, WrCas, WrTo
<1>2. wr[t].pc = "cas_load" /\ wr'[t].pc \in {"drop_new", "cas"}
  BY CasLoadedEffect DEF RdIdle, RdTo, WrGo, WrCas, WrTo
<1> QED BY <1>1, <1>2, OutsideHs DEF HelpPc, InSlotsPc

(* The value that did not go in is dropped outside of it. *)
LEMMA DropNewHs ==
  ASSUME Types, NEW t \in Threads, DropNew(t)
  PROVE  UNCHANGED HS!vars
<1>1. /\ OnlyRd(t) /\ OnlyWr(t) /\ SameWords
      /\ rd' = rd
  BY DropNewEffect DEF SameWords, WrIdle, WrBegins, WrTo, OnlyRd
<1>2. wr[t].pc = "drop_new" /\ wr'[t].pc = "idle"
  BY DropNewEffect DEF WrIdle, WrBegins, WrTo, OnlyRd
<1> QED BY <1>1, <1>2, OutsideHs DEF HelpPc, InSlotsPc

(* The storage is exchanged outside of it. *)
LEMMA CasExchangeHs ==
  ASSUME Types, NEW t \in Threads, CasExchange(t)
  PROVE  UNCHANGED HS!vars
<1>1. /\ OnlyRd(t) /\ OnlyWr(t) /\ SameWords
      /\ rd' = rd
  BY CasExchangeEffect DEF SameWords, WrTo, OnlyRd
<1>2. wr[t].pc = "cas" /\ wr'[t].pc = "pre_pay"
  BY CasExchangeEffect DEF WrTo, OnlyRd
<1> QED BY <1>1, <1>2, OutsideHs DEF HelpPc, InSlotsPc

(* The exchange fails outside of it. *)
LEMMA CasFailedHs ==
  ASSUME Types, NEW t \in Threads, CasFailed(t)
  PROVE  UNCHANGED HS!vars
<1>1. /\ OnlyRd(t) /\ OnlyWr(t) /\ SameWords
      /\ rd' = rd
  BY CasFailedEffect DEF SameWords, WrGo, WrCas, WrTo, OnlyRd
<1>2. wr[t].pc = "cas" /\ wr'[t].pc \in {"cas_dec", "cas_pay"}
  BY CasFailedEffect DEF WrGo, WrCas, WrTo, OnlyRd
<1> QED BY <1>1, <1>2, OutsideHs DEF HelpPc, InSlotsPc

(* The old guard's debt is paid outside of it. *)
LEMMA CasPayHs ==
  ASSUME Types, NEW t \in Threads, CasPay(t)
  PROVE  UNCHANGED HS!vars
<1>1. /\ OnlyRd(t) /\ OnlyWr(t) /\ SameWords
      /\ rd' = rd
  BY CasPayEffect DEF SameWords, WrCas, WrTo, OnlyRd
<1>2. wr[t].pc = "cas_pay" /\ wr'[t].pc \in {"cas_dec", "cas_retry"}
  BY CasPayEffect DEF WrCas, WrTo, OnlyRd
<1> QED BY <1>1, <1>2, OutsideHs DEF HelpPc, InSlotsPc

(* The old guard's reference is released outside of it. *)
LEMMA CasDecHs ==
  ASSUME Types, NEW t \in Threads, CasDec(t)
  PROVE  UNCHANGED HS!vars
<1>1. /\ OnlyRd(t) /\ OnlyWr(t) /\ SameWords
      /\ rd' = rd
  BY CasDecEffect DEF SameWords, WrGo, WrCas, WrTo, OnlyRd
<1>2. wr[t].pc = "cas_dec" /\ wr'[t].pc = "cas_retry"
  BY CasDecEffect DEF WrGo, WrCas, WrTo, OnlyRd
<1> QED BY <1>1, <1>2, OutsideHs DEF HelpPc, InSlotsPc

(* compare_and_swap begins again outside of it. *)
LEMMA CasRetryHs ==
  ASSUME Types, NEW t \in Threads, rd[t].pc = "idle",
         CasRetry(t)
  PROVE  UNCHANGED HS!vars
<1>1. /\ OnlyRd(t) /\ OnlyWr(t) /\ SameWords
      /\ rd[t].pc = "idle" /\ rd'[t].pc \in {"scan", "get_debt"}
  BY CasRetryEffect DEF SameWords, LoadBegins, RdTo, WrCas, WrTo
<1>2. wr[t].pc = "cas_retry" /\ wr'[t].pc = "cas_load"
  BY CasRetryEffect DEF LoadBegins, RdTo, WrCas, WrTo
<1> QED BY <1>1, <1>2, OutsideHs DEF HelpPc, InSlotsPc

(* pay_all takes its reference before help. *)
LEMMA PrePayHs ==
  ASSUME Types, NEW t \in Threads, PrePay(t)
  PROVE  UNCHANGED HS!vars
<1>1. /\ OnlyRd(t) /\ OnlyWr(t) /\ SameWords
      /\ rd' = rd
  BY PrePayEffect DEF SameWords, WrSlot, WrTo, OnlyRd
<1>2. wr[t].pc = "pre_pay" /\ wr'[t].pc = "help"
  BY PrePayEffect DEF WrSlot, WrTo, OnlyRd
<1> QED BY <1>1, <1>2, OutsideHs DEF HelpPc, InSlotsPc

(* pay_all pays a slot after help. *)
LEMMA PaySlotHs ==
  ASSUME Types, NEW t \in Threads, PaySlot(t)
  PROVE  UNCHANGED HS!vars
<1>1. /\ OnlyRd(t) /\ OnlyWr(t) /\ SameWords
      /\ rd' = rd
  BY PaySlotEffect DEF SameWords, WrGo, WrCas, SlotDone, WrSlot, WrTo, OnlyRd
<1>2. wr[t].pc = "pay" /\ wr'[t].pc \in {"pay_inc", "pay", "help", "release"}
  BY PaySlotEffect DEF WrGo, WrCas, SlotDone, WrSlot, WrTo, OnlyRd
<1> QED BY <1>1, <1>2, OutsideHs DEF HelpPc, InSlotsPc

(* pay_all counts a payment after help. *)
LEMMA PayIncHs ==
  ASSUME Types, NEW t \in Threads, PayInc(t)
  PROVE  UNCHANGED HS!vars
<1>1. /\ OnlyRd(t) /\ OnlyWr(t) /\ SameWords
      /\ rd' = rd
  BY PayIncEffect DEF SameWords, SlotDone, WrSlot, WrTo, OnlyRd
<1>2. wr[t].pc = "pay_inc" /\ wr'[t].pc \in {"pay", "help", "release"}
  BY PayIncEffect DEF SlotDone, WrSlot, WrTo, OnlyRd
<1> QED BY <1>1, <1>2, OutsideHs DEF HelpPc, InSlotsPc

(* pay_all releases its reference after help. *)
LEMMA ReleaseValHs ==
  ASSUME Types, NEW t \in Threads, ReleaseVal(t)
  PROVE  UNCHANGED HS!vars
<1>1. /\ OnlyRd(t) /\ OnlyWr(t) /\ SameWords
      /\ rd' = rd
  BY ReleaseValEffect DEF SameWords, WrGo, WrCas, WrIdle, WrBegins, WrTo, OnlyRd
<1>2. wr[t].pc = "release" /\ wr'[t].pc \in {"idle", "drop_old"}
  BY ReleaseValEffect DEF WrGo, WrCas, WrIdle, WrBegins, WrTo, OnlyRd
<1> QED BY <1>1, <1>2, OutsideHs DEF HelpPc, InSlotsPc

(* The old value is dropped outside of the protocol. *)
LEMMA DropOldHs ==
  ASSUME Types, NEW t \in Threads, DropOld(t)
  PROVE  UNCHANGED HS!vars
<1>1. /\ OnlyRd(t) /\ OnlyWr(t) /\ SameWords
      /\ rd' = rd
  BY DropOldEffect DEF SameWords, WrIdle, WrBegins, WrTo, OnlyRd
<1>2. wr[t].pc = "drop_old" /\ wr'[t].pc = "idle"
  BY DropOldEffect DEF WrIdle, WrBegins, WrTo, OnlyRd
<1> QED BY <1>1, <1>2, OutsideHs DEF HelpPc, InSlotsPc

(* The replacement that came too late is dropped before the next turn. *)
LEMMA HelpDropHs ==
  ASSUME Types, NEW t \in Threads, HelpDrop(t)
  PROVE  UNCHANGED HS!vars
<1>1. OnlyRd(t) /\ OnlyWr(t) /\ SameWords /\ rd' = rd
  BY HelpDropEffect DEF SameWords, WrHelp, WrHelped, WrTo, OnlyRd
<1>2. /\ wr[t].pc = "help_drop" /\ wr'[t].dst = wr[t].dst
      /\ wr'[t].node = wr[t].node
      /\ \/ /\ IsGen(wr[t].observed) /\ wr'[t].pc = "help_addr"
            /\ wr'[t].observed = wr[t].observed
         \/ ~IsGen(wr[t].observed) /\ wr'[t].pc = "pay"
  BY HelpDropEffect DEF WrHelp, WrHelped, WrTo
<1>3. HelperPcOf(wr'[t]) = HelperPcOf(wr[t])
  BY <1>2 DEF HelperPcOf
<1>4. SameHelper(t)
  <2>1. IsGen(wr[t].observed) \/ HelperPcOf(wr[t]) = "idle"
    BY <1>2 DEF HelperPcOf
  <2> QED BY <1>2, <1>3, <2>1 DEF SameHelper, WhoOf, TargetOf, ObservedOf,
                                  ReplacementOf, TheirSpaceOf
<1> QED BY <1>1, <1>4, AsideHs DEF SameReader

(* get_debt takes the next generation. *)
LEMMA GetDebtHs ==
  ASSUME Control, Unwrapped', ~Recycle, NEW t \in Threads, GetDebt(t)
  PROVE  \E s \in Storages : HS!GetDebtAddr(t, s)
<1>1. Types /\ rd[t].pc = "get_debt"
  BY Own, GetDebtEffect
<1>2. /\ wr' = wr /\ control' = control /\ space_offer' = space_offer
      /\ handover' = handover
      /\ generation' = [generation EXCEPT ![t] = NextGeneration(t)]
      /\ active_addr' = [active_addr EXCEPT ![t] = rd[t].src]
  BY <1>1, GetDebtEffect
<1>3. OnlyRd(t) /\ rd'[t].pc = "control"
  BY <1>1, GetDebtEffect DEF RdGo, RdMove, RdTo
<1>4. /\ generation[t] < GenLimit - 1
      /\ generation' = [generation EXCEPT ![t] = @ + 1]
  <2>1. generation[t] \in 0..(GenLimit - 1) /\ GenLimit \in Nat \ {0}
    BY <1>1, GenLimitAssumption DEF Types
  <2>2. NextGeneration(t) # 0 /\ NextGeneration(t) = (generation[t] + 1) % GenLimit
    <3>1. generation'[t] = NextGeneration(t)
      BY <1>1, <1>2 DEF Types
    <3> QED BY <1>3, <3>1 DEF Unwrapped, WrappedOk, NextGeneration
  <2>3. generation[t] + 1 # GenLimit
    BY <2>1, <2>2
  <2>4. (generation[t] + 1) % GenLimit = generation[t] + 1
    BY <2>1, <2>3
  <2>5. generation[t] < GenLimit - 1
    BY <2>1, <2>3
  <2>6. NextGeneration(t) = generation[t] + 1
    BY <2>2, <2>4
  <2>7. generation' = [generation EXCEPT ![t] = generation[t] + 1]
    BY <1>2, <2>6, Zenon
  <2> QED BY <2>5, <2>7
<1>5. /\ rd[t].src \in Storages
      /\ \/ HsHelper[t] = "idle"
         \/ HsHelper[t] = "replacement" /\ rd[t].src = HsTarget[t]
  <2>1. LoadOk(t, rd[t]) /\ WriteOk(wr[t], rd[t])
    BY Own
  <2>2. /\ rd[t].src \in Storages
        /\ \/ wr[t].pc \in {"idle", "cas_load"}
           \/ wr[t].pc = "replacement" /\ rd[t].src = wr[t].dst
    BY <1>1, <2>1 DEF LoadOk, LoadingPc, WriteOk
  <2> QED BY <2>2, AtThread DEF HelperPcOf, TargetOf
<1>6. /\ HsReader[t] = "idle" /\ HsEnvelope' = HsEnvelope
      /\ HsReader' = [HsReader EXCEPT ![t] = "swap_control"]
  BY <1>1, <1>3, ReaderMoves, AtThread DEF ReaderPcOf, EnvelopeOf
<1>7. /\ HsHelper' = HsHelper /\ HsWho' = HsWho /\ HsTarget' = HsTarget
      /\ HsObserved' = HsObserved /\ HsReplacement' = HsReplacement
      /\ HsTheirSpace' = HsTheirSpace
  BY <1>2, HelperStays DEF OnlyWr
<1>8. HS!GetDebtAddr(t, rd[t].src)
  BY <1>2, <1>4, <1>5, <1>6, <1>7
        DEF HS!GetDebtAddr, HS!helperVars, HsReader, HsEnvelope, HsHelper,
            HsWho, HsTarget, HsObserved, HsReplacement, HsTheirSpace,
            EnvelopeOf, WhoOf, TargetOf, ObservedOf, ReplacementOf,
            TheirSpaceOf, Helping
<1> QED BY <1>5, <1>8

(* get_debt publishes the generation. *)
LEMMA GetDebtControlHs ==
  ASSUME Control, NEW t \in Threads, GetDebtControl(t)
  PROVE  HS!GetDebtControl(t)
<1>1. Types /\ rd[t].pc = "control"
  BY Own, GetDebtControlEffect
<1>2. /\ wr' = wr /\ control' = [control EXCEPT ![t] = Gen(generation[t])]
      /\ active_addr' = active_addr /\ space_offer' = space_offer
      /\ handover' = handover /\ generation' = generation
  BY <1>1, GetDebtControlEffect
<1>3. OnlyRd(t) /\ rd'[t].pc = "candidate"
  BY <1>1, GetDebtControlEffect DEF RdGo, RdMove, RdTo
<1>4. /\ HsReader[t] = "swap_control" /\ HsEnvelope' = HsEnvelope
      /\ HsReader' = [HsReader EXCEPT ![t] = "confirm"]
  BY <1>1, <1>3, ReaderMoves, AtThread DEF ReaderPcOf, EnvelopeOf
<1>5. /\ HsHelper' = HsHelper /\ HsWho' = HsWho /\ HsTarget' = HsTarget
      /\ HsObserved' = HsObserved /\ HsReplacement' = HsReplacement
      /\ HsTheirSpace' = HsTheirSpace
  BY <1>2, HelperStays DEF OnlyWr
<1> QED BY <1>2, <1>4, <1>5
        DEF HS!GetDebtControl, HS!helperVars, HS!Gen, Gen, HsReader,
            HsEnvelope, HsHelper, HsWho, HsTarget, HsObserved, HsReplacement,
            HsTheirSpace, EnvelopeOf, WhoOf, TargetOf, ObservedOf,
            ReplacementOf, TheirSpaceOf, Helping

(* A hand-over is taken. *)
LEMMA TakeHandoverHs ==
  ASSUME Control, NEW t \in Threads, TakeHandover(t)
  PROVE  HS!TakeHandover(t)
<1>1. Types /\ rd[t].pc = "take"
  BY Own, TakeHandoverEffect
<1>2. /\ wr' = wr /\ space_offer' = [space_offer EXCEPT ![t] = rd[t].env]
      /\ active_addr' = active_addr /\ control' = control
      /\ handover' = handover /\ generation' = generation
  BY <1>1, TakeHandoverEffect
<1>3. OnlyRd(t) /\ rd'[t].pc = "unused_pay"
  BY <1>1, TakeHandoverEffect DEF RdTo
<1>4. /\ HsReader[t] = "take_handover" /\ HsEnvelope[t] = rd[t].env
      /\ HsReader' = [HsReader EXCEPT ![t] = "idle"]
      /\ HsEnvelope' = [HsEnvelope EXCEPT ![t] = t]
  BY <1>1, <1>3, ReaderMoves, AtThread DEF ReaderPcOf, EnvelopeOf
<1>5. /\ HsHelper' = HsHelper /\ HsWho' = HsWho /\ HsTarget' = HsTarget
      /\ HsObserved' = HsObserved /\ HsReplacement' = HsReplacement
      /\ HsTheirSpace' = HsTheirSpace
  BY <1>2, HelperStays DEF OnlyWr
<1> QED BY <1>2, <1>4, <1>5
        DEF HS!TakeHandover, HS!helperVars, HsReader, HsEnvelope, HsHelper,
            HsWho, HsTarget, HsObserved, HsReplacement, HsTheirSpace,
            EnvelopeOf, WhoOf, TargetOf, ObservedOf, ReplacementOf,
            TheirSpaceOf, Helping

(* help returns when its write goes on with the slots. *)
LEMMA ReturnHs ==
  ASSUME NEW t \in Threads, OnlyWr(t), HelperPcOf(wr'[t]) = "idle",
         wr'[t].pc \notin HelpPc
  PROVE  HS!Return(t)
<1>1. /\ HsHelper' = [HsHelper EXCEPT ![t] = "idle"]
      /\ HsWho' = [HsWho EXCEPT ![t] = t]
      /\ HsTarget' = [HsTarget EXCEPT ![t] = Null]
      /\ HsObserved' = [HsObserved EXCEPT ![t] = IDLE]
      /\ HsReplacement' = [HsReplacement EXCEPT ![t] = Null]
      /\ HsTheirSpace' = [HsTheirSpace EXCEPT ![t] = t]
  BY HelperMoves DEF WhoOf, TargetOf, ObservedOf, ReplacementOf, TheirSpaceOf, HelpPc
<1> QED BY <1>1
        DEF HS!Return, HS!IDLE, IDLE, HsReader, HsEnvelope, HsHelper, HsWho,
            HsTarget, HsObserved, HsReplacement, HsTheirSpace, EnvelopeOf,
            WhoOf, TargetOf, ObservedOf, ReplacementOf, TheirSpaceOf,
            Helping

(* It goes round once more on a generation. *)
LEMMA AgainHs ==
  ASSUME Types, NEW t \in Threads, OnlyWr(t), HelperPcOf(wr[t]) # "idle",
         wr[t].node \in Threads, IsGen(control[wr[t].node]),
         wr'[t].pc \in {"help_addr", "help_drop"},
         wr'[t].observed = control[wr[t].node],
         wr'[t].node = wr[t].node, wr'[t].dst = wr[t].dst
  PROVE  HS!Again(t)
<1>1. HelperPcOf(wr'[t]) = "check_addr"
  BY DEF HelperPcOf
<1>2. HsWho[t] = wr[t].node
  BY AtThread DEF WhoOf
<1>3. /\ HsHelper' = [HsHelper EXCEPT ![t] = "check_addr"]
      /\ HsObserved' = [HsObserved EXCEPT ![t] = control[wr[t].node]]
      /\ HsReplacement' = [HsReplacement EXCEPT ![t] = Null]
      /\ HsTheirSpace' = [HsTheirSpace EXCEPT ![t] = t]
  BY <1>1, HelperMoves DEF ObservedOf, ReplacementOf, TheirSpaceOf
<1>4. HsWho' = HsWho /\ HsTarget' = HsTarget
  BY <1>1, HelperStays DEF WhoOf, TargetOf
<1> QED BY <1>2, <1>3, <1>4
        DEF HS!Again, HS!IsGen, IsGen, HsReader, HsEnvelope, HsHelper, HsWho,
            HsTarget, HsObserved, HsReplacement, HsTheirSpace, EnvelopeOf,
            WhoOf, TargetOf, ObservedOf, ReplacementOf, TheirSpaceOf,
            Helping

(* help begins on a generation, or has nothing to do. *)
LEMMA HelpHs ==
  ASSUME Control, NEW t \in Threads, Help(t)
  PROVE  \/ UNCHANGED HS!vars
         \/ \E n \in Threads, s \in Storages : HS!HelpStart(t, n, s)
<1>1. /\ Types /\ wr[t].pc = "help" /\ wr[t].node \in Threads
      /\ wr[t].dst \in Storages
  <2>1. Types /\ wr[t].pc = "help"
    BY Own, HelpEffect
  <2>2. WriteOk(wr[t], rd[t])
    BY Own
  <2> QED BY <2>1, <2>2, FrameTypes DEF WriteOk
<1>2. /\ rd' = rd /\ SameWords /\ OnlyWr(t) /\ rd[t].pc = "idle"
  <2>1. WriteOk(wr[t], rd[t])
    BY Own
  <2> QED BY <1>1, <2>1, HelpEffect DEF SameWords, WrHelp, WrHelped, WrTo, WriteOk
<1>3. CASE ~IsGen(control[wr[t].node])
  <2>1. wr'[t].pc = "pay"
    BY <1>1, <1>3, HelpEffect DEF WrHelped, WrTo
  <2> QED BY <1>1, <1>2, <2>1, OutsideHs DEF OnlyRd, HelpPc
<1>4. CASE IsGen(control[wr[t].node])
  <2>1. /\ wr'[t].pc = "help_addr" /\ wr'[t].node = wr[t].node
        /\ wr'[t].dst = wr[t].dst /\ wr'[t].observed = control[wr[t].node]
    BY <1>1, <1>4, HelpEffect DEF WrHelp, WrTo
  <2>2. HsReader' = HsReader /\ HsEnvelope' = HsEnvelope
    BY <1>2, ReaderMoves DEF OnlyRd, SameReader
  <2>3. HsHelper[t] = "idle" /\ HsReader[t] = "idle"
    BY <1>1, <1>2, AtThread DEF HelperPcOf, ReaderPcOf
  <2>4. HelperPcOf(wr'[t]) = "check_addr"
    BY <2>1 DEF HelperPcOf
  <2>5. /\ HsHelper' = [HsHelper EXCEPT ![t] = "check_addr"]
        /\ HsWho' = [HsWho EXCEPT ![t] = wr[t].node]
        /\ HsTarget' = [HsTarget EXCEPT ![t] = wr[t].dst]
        /\ HsObserved' = [HsObserved EXCEPT ![t] = control[wr[t].node]]
    BY <1>2, <2>1, <2>4, HelperMoves DEF WhoOf, TargetOf, ObservedOf
  <2>6. HsReplacement' = HsReplacement /\ HsTheirSpace' = HsTheirSpace
    BY <1>1, <1>2, <2>1, HelperStays DEF ReplacementOf, TheirSpaceOf
  <2>7. PICK n \in Threads, s \in Storages : wr[t].node = n /\ wr[t].dst = s
    BY <1>1
  <2>8. HS!HelpStart(t, n, s)
    BY <1>2, <1>4, <2>2, <2>3, <2>5, <2>6, <2>7
        DEF SameWords, HS!HelpStart, HS!readerVars, HS!IsGen, IsGen,
            HsReader, HsEnvelope, HsHelper, HsWho, HsTarget, HsObserved,
            HsReplacement, HsTheirSpace, EnvelopeOf, WhoOf, TargetOf,
            ObservedOf, ReplacementOf, TheirSpaceOf, Helping
  <2> QED BY <2>8
<1> QED BY <1>3, <1>4

(* The address is compared. *)
LEMMA HelpCheckAddrHs ==
  ASSUME Control, NEW t \in Threads, HelpCheckAddr(t)
  PROVE  HS!HelpCheckAddr(t)
<1>1. /\ Types /\ wr[t].pc = "help_addr" /\ wr[t].node \in Threads
      /\ wr[t].dst \in Storages
  <2>1. Types /\ wr[t].pc = "help_addr"
    BY Own, HelpCheckAddrEffect
  <2>2. WriteOk(wr[t], rd[t])
    BY Own
  <2> QED BY <2>1, <2>2, FrameTypes DEF WriteOk
<1>2. /\ OnlyRd(t) /\ OnlyWr(t) /\ SameWords
      /\ \/ rd' = rd
         \/ rd[t].pc = "idle" /\ rd'[t].pc \in {"scan", "get_debt"}
  <2>1. rd[t].pc = "idle"
    <3>1. WriteOk(wr[t], rd[t])
      BY Own
    <3> QED BY <1>1, <3>1 DEF WriteOk
  <2>2. OnlyWr(t) /\ SameWords
    BY <1>1, HelpCheckAddrEffect DEF SameWords, WrGo, WrCas, WrTo
  <2>3. CASE rd' = rd
    BY <2>2, <2>3 DEF OnlyRd
  <2>4. CASE rd' # rd
    <3>1. LoadBegins(t, wr[t].dst, TRUE)
      BY <1>1, <2>4, HelpCheckAddrEffect
    <3> QED BY <1>1, <2>1, <2>2, <3>1 DEF LoadBegins, RdTo, OnlyRd, Types
  <2> QED BY <2>3, <2>4
<1>3. /\ wr'[t].pc = IF active_addr[wr[t].node] = wr[t].dst
                    THEN "replacement" ELSE "help_recheck"
      /\ wr'[t].node = wr[t].node /\ wr'[t].dst = wr[t].dst
      /\ wr'[t].observed = wr[t].observed
  BY <1>1, HelpCheckAddrEffect DEF WrGo, WrCas, WrTo
<1>4. HsReader' = HsReader /\ HsEnvelope' = HsEnvelope
  BY <1>2, ReaderMoves DEF SameReader, ReaderPcOf, EnvelopeOf
<1>5. /\ HelperPcOf(wr[t]) = "check_addr"
      /\ HelperPcOf(wr'[t]) = IF active_addr[wr[t].node] = wr[t].dst
                              THEN "replacement" ELSE "recheck"
  BY <1>1, <1>3 DEF HelperPcOf
<1>6. /\ HsHelper[t] = "check_addr" /\ HsWho[t] = wr[t].node
      /\ HsTarget[t] = wr[t].dst
      /\ HsHelper' = [HsHelper EXCEPT ![t] =
                        IF active_addr[wr[t].node] = wr[t].dst
                        THEN "replacement" ELSE "recheck"]
  BY <1>2, <1>5, HelperMoves, AtThread DEF WhoOf, TargetOf
<1>7. /\ HsWho' = HsWho /\ HsTarget' = HsTarget /\ HsObserved' = HsObserved
      /\ HsReplacement' = HsReplacement /\ HsTheirSpace' = HsTheirSpace
  BY <1>1, <1>2, <1>3, <1>5, HelperStays
     DEF WhoOf, TargetOf, ObservedOf, ReplacementOf, TheirSpaceOf
<1> QED BY <1>2, <1>4, <1>6, <1>7
        DEF SameWords, HS!HelpCheckAddr, HS!readerVars, HsReader, HsEnvelope,
            HsHelper, HsWho, HsTarget, HsObserved, HsReplacement,
            HsTheirSpace, EnvelopeOf, WhoOf, TargetOf, ObservedOf,
            ReplacementOf, TheirSpaceOf, Helping

(* The control word is read again, for another storage. *)
LEMMA HelpRecheckHs ==
  ASSUME Control, NEW t \in Threads, HelpRecheck(t)
  PROVE  HS!HelpRecheck(t)
<1>1. /\ Types /\ wr[t].pc = "help_recheck" /\ wr[t].node \in Threads
      /\ wr[t].dst \in Storages
  <2>1. Types /\ wr[t].pc = "help_recheck"
    BY Own, HelpRecheckEffect
  <2>2. WriteOk(wr[t], rd[t])
    BY Own
  <2> QED BY <2>1, <2>2, FrameTypes DEF WriteOk
<1>2. rd' = rd /\ OnlyWr(t) /\ SameWords
  BY <1>1, HelpRecheckEffect DEF SameWords, WrHelp, WrHelped, WrTo
<1>3. /\ wr'[t].node = wr[t].node /\ wr'[t].dst = wr[t].dst
      /\ \/ control[wr[t].node] = wr[t].observed /\ wr'[t].pc = "pay"
         \/ /\ control[wr[t].node] # wr[t].observed
            /\ IsGen(control[wr[t].node]) /\ wr'[t].pc = "help_addr"
            /\ wr'[t].observed = control[wr[t].node]
         \/ /\ control[wr[t].node] # wr[t].observed
            /\ ~IsGen(control[wr[t].node]) /\ wr'[t].pc = "pay"
  BY <1>1 DEF HelpRecheck, Types, WriteFrames, HelpWith, HelpDone
<1>4. HsReader' = HsReader /\ HsEnvelope' = HsEnvelope
  BY <1>2, ReaderMoves DEF OnlyRd, SameReader
<1>5. HelperPcOf(wr[t]) = "recheck"
  BY <1>1 DEF HelperPcOf
<1>6. /\ HsHelper[t] = "recheck" /\ HsWho[t] = wr[t].node
      /\ HsObserved[t] = wr[t].observed
  BY <1>5, AtThread DEF WhoOf, ObservedOf
<1>7. wr'[t].pc = "pay" => HS!Return(t)
  BY <1>2, ReturnHs DEF HelperPcOf, HelpPc
<1>8. wr'[t].pc = "help_addr" => HS!Again(t)
  BY <1>1, <1>2, <1>3, <1>5, AgainHs
<1> QED BY <1>2, <1>3, <1>4, <1>6, <1>7, <1>8
        DEF SameWords, HS!HelpRecheck, HS!Retry, HS!readerVars, HS!IsGen,
            IsGen, HsReader, HsEnvelope, HsHelper, HsWho, HsTarget,
            HsObserved, HsReplacement, HsTheirSpace, EnvelopeOf, WhoOf,
            TargetOf, ObservedOf, ReplacementOf, TheirSpaceOf, Helping

(* The replacement is from the storage of the reader. *)
LEMMA HelpReplacementHs ==
  ASSUME Control, Origin, Witnessed, NEW t \in Threads, HelpReplacement(t)
  PROVE  HS!HelpReplacement(t)
<1>1. /\ Types /\ wr[t].pc = "replacement" /\ wr[t].node \in Threads
      /\ wr[t].dst \in Storages
  <2>1. Types /\ wr[t].pc = "replacement"
    BY Own, HelpReplacementEffect
  <2>2. WriteOk(wr[t], rd[t])
    BY Own
  <2> QED BY <2>1, <2>2, FrameTypes DEF WriteOk
<1>2. /\ OnlyRd(t) /\ OnlyWr(t) /\ SameWords
      /\ rd[t].pc = "return" /\ rd'[t].pc = "idle"
  BY <1>1, HelpReplacementEffect DEF SameWords, RdIdle, RdTo, WrHelp, WrTo
<1>3. /\ wr'[t].pc = "their_space" /\ wr'[t].repl = rd[t].ptr
      /\ wr'[t].node = wr[t].node /\ wr'[t].dst = wr[t].dst
      /\ wr'[t].observed = wr[t].observed
  BY <1>1, HelpReplacementEffect DEF WrHelp, WrTo
<1>4. rd[t].ptr \in Pool[wr[t].dst]
  <2>1. /\ WriteOk(wr[t], rd[t]) /\ SeenOf(rd[t], window[t])
        /\ ConfirmedOk(rd[t], control[t], generation[t], handover, window[t])
    BY Own DEF Origin, Witnessed, ConfirmedSeen
  <2>2. rd[t].src = wr[t].dst /\ rd[t].src # NoStorage
    BY <1>1, <2>1 DEF WriteOk
  <2> QED BY <1>2, <2>1, <2>2 DEF ConfirmedOk, SeenOf, SettledPc
<1>5. HsReader' = HsReader /\ HsEnvelope' = HsEnvelope /\ HsReader[t] = "idle"
  BY <1>2, ReaderMoves, AtThread DEF SameReader, ReaderPcOf, EnvelopeOf
<1>6. HelperPcOf(wr[t]) = "replacement" /\ HelperPcOf(wr'[t]) = "their_space"
  BY <1>1, <1>3 DEF HelperPcOf
<1>7. /\ HsHelper[t] = "replacement" /\ HsTarget[t] = wr[t].dst
      /\ HsHelper' = [HsHelper EXCEPT ![t] = "their_space"]
      /\ HsReplacement' = [HsReplacement EXCEPT ![t] = rd[t].ptr]
  BY <1>2, <1>3, <1>6, HelperMoves, AtThread DEF TargetOf, ReplacementOf
<1>8. /\ HsWho' = HsWho /\ HsTarget' = HsTarget /\ HsObserved' = HsObserved
      /\ HsTheirSpace' = HsTheirSpace
  BY <1>1, <1>2, <1>3, <1>6, HelperStays
     DEF WhoOf, TargetOf, ObservedOf, TheirSpaceOf
<1> QED BY <1>2, <1>4, <1>5, <1>7, <1>8
        DEF SameWords, HS!HelpReplacement, HS!readerVars, HsReader,
            HsEnvelope, HsHelper, HsWho, HsTarget, HsObserved, HsReplacement,
            HsTheirSpace, EnvelopeOf, WhoOf, TargetOf, ObservedOf,
            ReplacementOf, TheirSpaceOf, Helping

(* The envelope of the reader. *)
LEMMA HelpTheirSpaceHs ==
  ASSUME Control, NEW t \in Threads, HelpTheirSpace(t)
  PROVE  HS!HelpTheirSpace(t)
<1>1. /\ Types /\ wr[t].pc = "their_space" /\ wr[t].node \in Threads
      /\ wr[t].dst \in Storages
  <2>1. Types /\ wr[t].pc = "their_space"
    BY Own, HelpTheirSpaceEffect
  <2>2. WriteOk(wr[t], rd[t])
    BY Own
  <2> QED BY <2>1, <2>2, FrameTypes DEF WriteOk
<1>2. rd' = rd /\ OnlyWr(t) /\ SameWords
  BY <1>1, HelpTheirSpaceEffect DEF SameWords, WrHelp, WrTo
<1>3. /\ wr'[t].pc = "fill" /\ wr'[t].their = space_offer[wr[t].node]
      /\ wr'[t].node = wr[t].node /\ wr'[t].dst = wr[t].dst
      /\ wr'[t].observed = wr[t].observed /\ wr'[t].repl = wr[t].repl
  BY <1>1, HelpTheirSpaceEffect DEF WrHelp, WrTo
<1>4. HsReader' = HsReader /\ HsEnvelope' = HsEnvelope
  BY <1>2, ReaderMoves DEF OnlyRd, SameReader
<1>5. HelperPcOf(wr[t]) = "their_space" /\ HelperPcOf(wr'[t]) = "fill"
  BY <1>1, <1>3 DEF HelperPcOf
<1>6. /\ HsHelper[t] = "their_space" /\ HsWho[t] = wr[t].node
      /\ HsHelper' = [HsHelper EXCEPT ![t] = "fill"]
      /\ HsTheirSpace' = [HsTheirSpace EXCEPT ![t] = space_offer[wr[t].node]]
  BY <1>2, <1>3, <1>5, HelperMoves, AtThread DEF WhoOf, TheirSpaceOf
<1>7. /\ HsWho' = HsWho /\ HsTarget' = HsTarget /\ HsObserved' = HsObserved
      /\ HsReplacement' = HsReplacement
  BY <1>1, <1>2, <1>3, <1>5, HelperStays
     DEF WhoOf, TargetOf, ObservedOf, ReplacementOf
<1> QED BY <1>2, <1>4, <1>6, <1>7
        DEF SameWords, HS!HelpTheirSpace, HS!readerVars, HsReader,
            HsEnvelope, HsHelper, HsWho, HsTarget, HsObserved, HsReplacement,
            HsTheirSpace, EnvelopeOf, WhoOf, TargetOf, ObservedOf,
            ReplacementOf, TheirSpaceOf, Helping

(* The own envelope is filled. *)
LEMMA HelpFillHs ==
  ASSUME Control, NEW t \in Threads, HelpFill(t)
  PROVE  HS!HelpFill(t)
<1>1. /\ Types /\ wr[t].pc = "fill" /\ wr[t].node \in Threads
      /\ wr[t].dst \in Storages
  <2>1. Types /\ wr[t].pc = "fill"
    BY Own, HelpFillEffect
  <2>2. WriteOk(wr[t], rd[t])
    BY Own
  <2> QED BY <2>1, <2>2, FrameTypes DEF WriteOk
<1>2. /\ rd' = rd /\ OnlyWr(t) /\ control' = control
      /\ active_addr' = active_addr /\ space_offer' = space_offer
      /\ generation' = generation
      /\ handover' = [handover EXCEPT ![space_offer[t]] = wr[t].repl]
  BY <1>1, HelpFillEffect DEF WrGo, WrCas, WrTo
<1>3. /\ wr'[t].pc = "help_cas" /\ wr'[t].their = wr[t].their
      /\ wr'[t].node = wr[t].node /\ wr'[t].dst = wr[t].dst
      /\ wr'[t].observed = wr[t].observed /\ wr'[t].repl = wr[t].repl
  BY <1>1, HelpFillEffect DEF WrGo, WrCas, WrTo
<1>4. HsReader' = HsReader /\ HsEnvelope' = HsEnvelope
  BY <1>2, ReaderMoves DEF OnlyRd, SameReader
<1>5. HelperPcOf(wr[t]) = "fill" /\ HelperPcOf(wr'[t]) = "cas"
  BY <1>1, <1>3 DEF HelperPcOf
<1>6. /\ HsHelper[t] = "fill" /\ HsReplacement[t] = wr[t].repl
      /\ HsHelper' = [HsHelper EXCEPT ![t] = "cas"]
  BY <1>1, <1>2, <1>5, HelperMoves, AtThread DEF ReplacementOf
<1>7. /\ HsWho' = HsWho /\ HsTarget' = HsTarget /\ HsObserved' = HsObserved
      /\ HsReplacement' = HsReplacement /\ HsTheirSpace' = HsTheirSpace
  BY <1>1, <1>2, <1>3, <1>5, HelperStays
     DEF WhoOf, TargetOf, ObservedOf, ReplacementOf, TheirSpaceOf
<1> QED BY <1>2, <1>4, <1>6, <1>7
        DEF HS!HelpFill, HS!readerVars, HsReader, HsEnvelope, HsHelper,
            HsWho, HsTarget, HsObserved, HsReplacement, HsTheirSpace,
            EnvelopeOf, WhoOf, TargetOf, ObservedOf, ReplacementOf,
            TheirSpaceOf, Helping

(* The hand-over, or the next turn. *)
LEMMA HelpCasHs ==
  ASSUME Control, NEW t \in Threads, HelpCas(t)
  PROVE  HS!HelpCas(t)
<1>1. /\ Types /\ wr[t].pc = "help_cas" /\ wr[t].node \in Threads
      /\ wr[t].dst \in Storages
  <2>1. Types /\ wr[t].pc = "help_cas"
    BY Own, HelpCasEffect
  <2>2. WriteOk(wr[t], rd[t])
    BY Own
  <2> QED BY <2>1, <2>2, FrameTypes DEF WriteOk
<1>2. /\ rd' = rd /\ OnlyWr(t) /\ active_addr' = active_addr
      /\ space_offer' = space_offer /\ generation' = generation
      /\ handover' = handover
  BY <1>1, HelpCasEffect DEF WrHelp, WrGo, WrCas, WrTo
<1>3. HsReader' = HsReader /\ HsEnvelope' = HsEnvelope
  BY <1>2, ReaderMoves DEF OnlyRd, SameReader
<1>4. HelperPcOf(wr[t]) = "cas"
  BY <1>1 DEF HelperPcOf
<1>5. /\ HsHelper[t] = "cas" /\ HsWho[t] = wr[t].node
      /\ HsObserved[t] = wr[t].observed
  BY <1>4, AtThread DEF WhoOf, ObservedOf
<1>6. CASE control[wr[t].node] = wr[t].observed
  <2>1. /\ control' = [control EXCEPT ![wr[t].node] = Replacement(space_offer[t])]
        /\ wr'[t].pc = "switch" /\ wr'[t].their = wr[t].their
        /\ wr'[t].node = wr[t].node /\ wr'[t].dst = wr[t].dst
        /\ wr'[t].observed = wr[t].observed /\ wr'[t].repl = wr[t].repl
    BY <1>1, <1>6, HelpCasEffect DEF WrGo, WrCas, WrTo
  <2>2. HelperPcOf(wr'[t]) = "switch"
    BY <2>1 DEF HelperPcOf
  <2>3. HsHelper' = [HsHelper EXCEPT ![t] = "switch"]
    BY <1>2, <2>2, HelperMoves
  <2>4. /\ HsWho' = HsWho /\ HsTarget' = HsTarget /\ HsObserved' = HsObserved
        /\ HsReplacement' = HsReplacement /\ HsTheirSpace' = HsTheirSpace
    BY <1>1, <1>2, <1>4, <2>1, <2>2, HelperStays
       DEF WhoOf, TargetOf, ObservedOf, ReplacementOf, TheirSpaceOf
  <2> QED BY <1>2, <1>3, <1>5, <1>6, <2>1, <2>3, <2>4
        DEF HS!HelpCas, HS!readerVars, HS!Replacement, Replacement, HsReader,
            HsEnvelope, HsHelper, HsWho, HsTarget, HsObserved, HsReplacement,
            HsTheirSpace, EnvelopeOf, WhoOf, TargetOf, ObservedOf,
            ReplacementOf, TheirSpaceOf, Helping
<1>7. CASE control[wr[t].node] # wr[t].observed
  <2>1. /\ control' = control /\ wr'[t].pc = "help_drop"
        /\ wr'[t].node = wr[t].node /\ wr'[t].dst = wr[t].dst
        /\ wr'[t].observed = control[wr[t].node]
    BY <1>1, <1>7, HelpCasEffect DEF WrHelp, WrTo
  <2>2. IsGen(control[wr[t].node]) => HS!Again(t)
    BY <1>1, <1>2, <1>4, <2>1, AgainHs
  <2>3. ~IsGen(control[wr[t].node]) => HS!Return(t)
    BY <1>2, <2>1, ReturnHs DEF HelperPcOf, HelpPc
  <2> QED BY <1>2, <1>3, <1>5, <1>7, <2>1, <2>2, <2>3
        DEF HS!HelpCas, HS!Retry, HS!readerVars, HS!IsGen, IsGen, HsReader,
            HsEnvelope, HsHelper, HsWho, HsTarget, HsObserved, HsReplacement,
            HsTheirSpace, EnvelopeOf, WhoOf, TargetOf, ObservedOf,
            ReplacementOf, TheirSpaceOf, Helping
<1> QED BY <1>6, <1>7

(* The envelopes are exchanged. *)
LEMMA HelpSwitchHs ==
  ASSUME Control, NEW t \in Threads, HelpSwitch(t)
  PROVE  HS!HelpSwitch(t)
<1>1. /\ Types /\ wr[t].pc = "switch" /\ wr[t].node \in Threads
      /\ wr[t].dst \in Storages
  <2>1. Types /\ wr[t].pc = "switch"
    BY Own, HelpSwitchEffect
  <2>2. WriteOk(wr[t], rd[t])
    BY Own
  <2> QED BY <2>1, <2>2, FrameTypes DEF WriteOk
<1>2. /\ rd' = rd /\ OnlyWr(t) /\ control' = control
      /\ active_addr' = active_addr /\ handover' = handover
      /\ generation' = generation /\ wr'[t].pc = "pay"
      /\ space_offer' = [space_offer EXCEPT ![t] = wr[t].their]
  BY <1>1, HelpSwitchEffect DEF WrHelped, WrTo
<1>3. HsReader' = HsReader /\ HsEnvelope' = HsEnvelope
  BY <1>2, ReaderMoves DEF OnlyRd, SameReader
<1>4. HsHelper[t] = "switch" /\ HsTheirSpace[t] = wr[t].their
  BY <1>1, AtThread DEF HelperPcOf, TheirSpaceOf
<1>5. HS!Return(t)
  BY <1>2, ReturnHs DEF HelperPcOf, HelpPc
<1> QED BY <1>2, <1>3, <1>4, <1>5
        DEF HS!HelpSwitch, HS!readerVars, HsReader, HsEnvelope, HsHelper,
            HsWho, HsTarget, HsObserved, HsReplacement, HsTheirSpace,
            EnvelopeOf, WhoOf, TargetOf, ObservedOf, ReplacementOf,
            TheirSpaceOf, Helping

(* A node changes hands. *)
LEMMA ThreadRestartHs ==
  ASSUME Control, NEW t \in Threads, rd[t].pc = "idle", wr[t].pc = "idle",
         ThreadRestart(t)
  PROVE  HS!ChangeOwner(t)
<1>1. /\ rd' = rd /\ wr' = wr /\ control' = control
      /\ active_addr' = active_addr /\ space_offer' = space_offer
      /\ handover' = handover /\ generation' = [generation EXCEPT ![t] = 0]
      /\ \A u \in Threads : wr[u].pc \in PayAllPc => wr[u].node # t
  BY DEF ThreadRestart
<1>2. HsReader[t] = "idle" /\ HsHelper[t] = "idle"
  BY AtThread DEF ReaderPcOf, HelperPcOf
<1>3. ASSUME NEW u \in Threads, HsHelper[u] # "idle"
      PROVE  HsWho[u] # t
  <2>1. HelperPcOf(wr[u]) # "idle"
    BY <1>3, AtThread
  <2>2. wr[u].pc \in PayAllPc
    BY <2>1 DEF HelperPcOf, PayAllPc
  <2> QED BY <1>1, <2>1, <2>2, AtThread DEF WhoOf
<1>4. HsReader' = HsReader /\ HsEnvelope' = HsEnvelope
  BY <1>1, ReaderMoves DEF OnlyRd, SameReader
<1>5. /\ HsHelper' = HsHelper /\ HsWho' = HsWho /\ HsTarget' = HsTarget
      /\ HsObserved' = HsObserved /\ HsReplacement' = HsReplacement
      /\ HsTheirSpace' = HsTheirSpace
  BY <1>1, HelperStays DEF OnlyWr
<1> QED BY <1>1, <1>2, <1>3, <1>4, <1>5
        DEF HS!ChangeOwner, HS!helperVars, HsReader, HsEnvelope, HsHelper,
            HsWho, HsTarget, HsObserved, HsReplacement, HsTheirSpace,
            EnvelopeOf, WhoOf, TargetOf, ObservedOf, ReplacementOf,
            TheirSpaceOf, Helping

(* An Arc is cloned. *)
LEMMA CloneHs ==
  ASSUME NEW t \in Threads, NEW h \in Handles, Clone(t, h)
  PROVE  UNCHANGED HS!vars
<1>1. rd' = rd /\ wr' = wr /\ SameWords
  BY DEF Clone, SameWords
<1> QED BY <1>1, OutsideHs DEF OnlyRd, OnlyWr

(* What a step of the thread t is in HelpingSlots. *)
HsStep(t) ==
  \/ UNCHANGED HS!vars
  \/ \E s \in Storages : HS!GetDebtAddr(t, s)
  \/ HS!ReaderStep(t)
  \/ \E n \in Threads, s \in Storages : HS!HelpStart(t, n, s)
  \/ HS!HelperStep(t)
  \/ HS!ChangeOwner(t)

(* The steps of a load. *)
LEMMA LoadStepHs ==
  ASSUME Control, Unwrapped', ~Recycle, NEW t \in Threads, LoadStep(t)
  PROVE  HsStep(t)
<1>1. Types
  BY Own
<1>2. CASE GetDebt(t)
  BY <1>2, GetDebtHs DEF HsStep
<1>3. CASE GetDebtControl(t) \/ ConfirmControl(t) \/ TakeHandover(t)
  <2>1. HS!ReaderStep(t)
    BY <1>3, GetDebtControlHs, ConfirmControlHs, TakeHandoverHs DEF HS!ReaderStep
  <2> QED BY <2>1 DEF HsStep
<1>4. CASE ~(GetDebt(t) \/ GetDebtControl(t) \/ ConfirmControl(t) \/ TakeHandover(t))
  <2>1. UNCHANGED HS!vars
    BY <1>1, <1>4, ScanHs, ConfirmFastHs, GiveBackHs, CandidateHs,
       ConfirmSlotHs, UnusedPayHs, UnusedDecHs, IntoInnerIncHs,
       IntoInnerPayHs, IntoInnerDecHs, ReturnFullHs, ReturnToCallerHs,
       DropDecHs DEF LoadStep
  <2> QED BY <2>1 DEF HsStep
<1> QED BY <1>2, <1>3, <1>4

(* The steps of a write. *)
LEMMA WriteStepHs ==
  ASSUME Control, Origin, Witnessed, NEW t \in Threads, WriteStep(t)
  PROVE  HsStep(t)
<1>1. Types
  BY Own
<1>2. CASE Help(t)
  BY <1>2, HelpHs DEF HsStep
<1>3. CASE \/ HelpCheckAddr(t) \/ HelpRecheck(t) \/ HelpReplacement(t)
           \/ HelpTheirSpace(t) \/ HelpFill(t) \/ HelpCas(t) \/ HelpSwitch(t)
  <2>1. HS!HelperStep(t)
    BY <1>3, HelpCheckAddrHs, HelpRecheckHs, HelpReplacementHs,
       HelpTheirSpaceHs, HelpFillHs, HelpCasHs, HelpSwitchHs DEF HS!HelperStep
  <2> QED BY <2>1 DEF HsStep
<1>4. CASE CasRetry(t)
  <2>1. wr[t].pc = "cas_retry" /\ WriteOk(wr[t], rd[t])
    BY <1>1, <1>4, Own, CasRetryEffect
  <2>2. rd[t].pc = "idle"
    BY <2>1 DEF WriteOk
  <2>3. UNCHANGED HS!vars
    BY <1>1, <1>4, <2>2, CasRetryHs
  <2> QED BY <2>3 DEF HsStep
<1>5. CASE \/ CasLoaded(t) \/ DropNew(t) \/ CasExchange(t) \/ CasFailed(t)
           \/ CasPay(t) \/ CasDec(t) \/ PrePay(t) \/ HelpDrop(t) \/ PaySlot(t)
           \/ PayInc(t) \/ ReleaseVal(t) \/ DropOld(t)
  <2>1. UNCHANGED HS!vars
    BY <1>1, <1>5, CasLoadedHs, DropNewHs, CasExchangeHs, CasFailedHs,
       CasPayHs, CasDecHs, PrePayHs, HelpDropHs, PaySlotHs, PayIncHs,
       ReleaseValHs, DropOldHs
  <2> QED BY <2>1 DEF HsStep
<1> QED BY <1>2, <1>3, <1>4, <1>5 DEF WriteStep

(* A call begins outside of the protocol; a new thread owns the node. *)
LEMMA StartCallHs ==
  ASSUME Control, NEW t \in Threads, StartCall(t)
  PROVE  HsStep(t)
<1>1. Types /\ rd[t].pc = "idle" /\ wr[t].pc = "idle"
  BY Own DEF StartCall
<1>2. CASE \E s \in Storages, op \in {"load", "load_full"} : Load(t, s, op)
  BY <1>1, <1>2, LoadHs DEF HsStep
<1>3. CASE \E s \in Storages, op \in {"swap", "store"} : Swap(t, s, op)
  BY <1>1, <1>3, SwapHs DEF HsStep
<1>4. CASE \E s \in Storages, op \in {"drop_storage", "unwrap_storage"} :
             EndStorage(t, s, op)
  BY <1>1, <1>4, EndStorageHs DEF HsStep
<1>5. CASE \E s \in Storages : \E p \in Pool[s] : CompareAndSwap(t, s, p)
  BY <1>1, <1>5, CompareAndSwapHs DEF HsStep
<1>6. CASE \E h \in Handles : IntoInner(t, h)
  BY <1>1, <1>6, IntoInnerHs DEF HsStep
<1>7. CASE \E h \in Handles : Clone(t, h)
  BY <1>1, <1>7, CloneHs DEF HsStep
<1>8. CASE \E h \in Handles : Drop(t, h)
  BY <1>1, <1>8, DropHs DEF HsStep
<1>9. CASE ThreadRestart(t)
  BY <1>1, <1>9, ThreadRestartHs DEF HsStep
<1> QED BY <1>2, <1>3, <1>4, <1>5, <1>6, <1>7, <1>8, <1>9 DEF StartCall

(* Every step is one of HelpingSlots, or none. *)
LEMMA NextHs ==
  ASSUME Control, Origin, Witnessed, Unwrapped', ~Recycle, [Next]_vars
  PROVE  HS!Next \/ UNCHANGED HS!vars
<1>1. ASSUME NEW t \in Threads, StartCall(t) \/ LoadStep(t) \/ WriteStep(t)
      PROVE  HS!Next \/ UNCHANGED HS!vars
  <2>1. HsStep(t)
    BY <1>1, LoadStepHs, WriteStepHs, StartCallHs
  <2> QED BY <2>1 DEF HsStep, HS!Next
<1>2. ASSUME UNCHANGED vars
      PROVE  UNCHANGED HS!vars
  BY <1>2 DEF vars, HS!vars, HS!readerVars, HS!helperVars, Helping
<1> QED BY <1>1, <1>2 DEF Next, AllDone

(* The new threads are not in the protocol. *)
LEMMA InitHs == Init => HS!Init
<1> SUFFICES ASSUME Init PROVE HS!Init
  OBVIOUS
<1>1. \A t \in Threads :
        /\ rd[t].pc = "idle" /\ wr[t].pc = "idle"
        /\ ReaderPcOf(rd[t]) = "idle" /\ HelperPcOf(wr[t]) = "idle"
        /\ ~Helping(t)
  BY DEF Init, NoLoad, NoWrite, ReaderPcOf, HelperPcOf, Helping
<1> QED BY <1>1 DEF Init, HS!Init, HS!IDLE, IDLE

(* The strategy implements the hand-over protocol of HelpingSlots
   (ImplementsHelpingSlots), with any number of threads, slots, storages and
   calls, in every behaviour in which the generations are the code's own and
   none of them wraps.  That no object may be in two storages is what makes the
   value that a writer hands over one of the reader's storage. *)
THEOREM HybridImplementsHelpingSlots ==
  Apart /\ ~Recycle /\ Spec /\ []Unwrapped => ImplementsHelpingSlots
<1>1. Apart /\ Spec => [](Control /\ Origin /\ Witnessed)
  BY WitnessedHolds
<1>2. Init => HS!Init
  BY InitHs
<1>3. /\ Control /\ Origin /\ Witnessed /\ Unwrapped' /\ ~Recycle /\ [Next]_vars
      => [HS!Next]_(HS!vars)
  BY NextHs
<1>4. ~Recycle => []~Recycle
  <2>1. ~Recycle => (~Recycle)'
    OBVIOUS
  <2> QED BY <2>1, PTL
<1> QED BY <1>1, <1>2, <1>3, <1>4, PTL DEF Spec, ImplementsHelpingSlots, HS!Spec
=============================================================================
