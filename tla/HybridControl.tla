--------------------------- MODULE HybridControl ---------------------------
(***************************************************************************)
(* The hybrid strategy for every number of threads, slots, storages and    *)
(* generations, first part: who has which debt, and what the control words *)
(* mean.                                                                   *)
(*                                                                         *)
(* Control says, of every thread, what its load and its write have at each *)
(* of their steps: the debts, the storage, the words seen.  It is          *)
(* inductive by itself, and gives HelpingSlotFree: what a helping slot     *)
(* holds is the debt of its own node's load, and a new load finds it empty.*)
(*                                                                         *)
(* Protocol adds what two nodes have to agree on: no two of them offer the *)
(* same hand-over space, a helper that is about to exchange a control word *)
(* offers its own space, and a generation that a helper has seen is not    *)
(* published again while it is busy, or the load it belongs to ends in the *)
(* panic that guards the wrap-around.                                      *)
(*                                                                         *)
(* For every action there are three lemmas: its effect on the types        *)
(* (XTypes), on Control (XKeeps), and either that it is aside of the       *)
(* protocol (XAside) or that it keeps it (XProtocol).                      *)
(***************************************************************************)
EXTENDS HybridStrategy, TLAPS, FiniteSetTheorems

FastSlots == Threads \X (1..DEBT_SLOT_CNT)

(* From the swap of the control word to confirm's. *)
Announced == {"candidate", "slot", "confirm_control", "panicked"}

(* A load that has not returned. *)
LoadingPc == Announced \cup {"scan", "confirm", "give_back", "get_debt", "control",
                             "take", "unused_pay", "unused_dec"}

(* help has seen a generation, and is still about it. *)
HelpPc == {"help_addr", "help_recheck", "replacement", "their_space", "fill",
           "help_cas", "switch"}

CasPc == {"cas_load", "cas", "cas_pay", "cas_dec", "cas_retry", "drop_new"}

(* The types of the variables; that no count is negative takes more. *)
Types ==
  /\ storage \in [Storages -> Ptrs \cup {Dropped}]
  /\ cnt \in [Objects -> Int]
  /\ slots \in [SlotIds -> Ptrs \cup {NONE}]
  /\ control \in [Threads -> ControlWords]
  /\ active_addr \in [Threads -> Storages \cup {NoStorage}]
  /\ space_offer \in [Threads -> Threads]
  /\ handover \in [Threads -> Ptrs]
  /\ generation \in [Threads -> 0..(GenLimit - 1)]
  /\ offset \in [Threads -> 0..DEBT_SLOT_CNT]
  /\ rd \in [Threads -> LoadFrames]
  /\ wr \in [Threads -> WriteFrames]
  /\ held \in [Handles -> Nat]
  /\ calls \in [Threads -> Nat]
  /\ window \in [Threads -> SUBSET Ptrs]

(* Which of its pointers and debts the load r of thread t has, by where it is. *)
LoadOk(t, r) ==
  /\ r.pc \in LoadingPc => r.src \in Storages
  /\ r.pc \in {"idle", "drop_dec"} => r.src = NoStorage
  /\ r.pc \in {"idle", "drop_dec", "scan", "get_debt", "control", "candidate",
               "slot", "panicked"} => r.debt = NoDebt
  /\ r.pc \in {"confirm", "give_back"} => r.debt \in FastSlots /\ r.debt[1] = t
  /\ r.pc \in {"confirm_control", "take", "unused_pay", "unused_dec"} =>
       r.debt = <<t, HELPING>>
  /\ r.pc \in {"inc", "inner_pay", "inner_dec"} =>
       r.debt \in FastSlots \cup {<<t, HELPING>>}
  /\ r.pc = "return" => r.debt \in FastSlots \cup {NoDebt}
LoadShape == \A t \in Threads : LoadOk(t, rd[t])

(* The same for the write w, and the load r that it makes itself. *)
WriteOk(w, r) ==
  /\ w.pc = "idle" => w.op = "none" /\ w.dst = NoStorage
  /\ w.pc # "idle" => w.op \in WriteOps /\ w.dst \in Storages
  /\ w.pc \in CasPc => w.op = "compare_and_swap"
  /\ w.pc = "cas" => w.old = w.current
  /\ w.odebt \in FastSlots \cup {NoDebt}
  /\ w.op # "compare_and_swap" => w.odebt = NoDebt
  /\ w.pc = "cas_pay" => w.odebt # NoDebt
  /\ w.pc \in {"cas_load", "cas_dec", "cas_retry", "drop_new"} => w.odebt = NoDebt
  /\ w.pc \in {"cas_load", "replacement"} =>
       r.pc \notin {"idle", "drop_dec"} /\ r.src = w.dst
  /\ w.pc = "replacement" => r.full
  /\ w.pc \notin {"idle", "cas_load", "replacement"} => r.pc = "idle"
WriteShape == \A t \in Threads : WriteOk(wr[t], rd[t])

(* Where thread t is in help says what it has seen, and it never helps itself. *)
HelpOk(t, w) ==
  /\ w.pc \in HelpPc => IsGen(w.observed)
  /\ w.pc \in HelpPc \cup {"help_drop"} => w.node # t
  /\ w.pc \notin HelpPc \cup {"help_drop"} => w.observed = IDLE
HelpShape == \A t \in Threads : HelpOk(t, wr[t])

(* Nobody gives away a guard on a helping slot. *)
GuardsAreFast ==
  \A h \in Handles : held[h] > 0 => h.debt \in FastSlots \cup {NoDebt}

(* The storage of a load, and of a write that may load from it, is there. *)
LiveOk(r, w, storages, addrs) ==
  /\ r.src # NoStorage => storages[r.src] # Dropped
  /\ w.op = "compare_and_swap" => storages[w.dst] # Dropped
  /\ w.pc = "help_addr" /\ addrs[w.node] = w.dst => storages[w.dst] # Dropped
  /\ w.pc \in {"replacement", "their_space", "fill", "help_cas", "help_drop"} =>
       storages[w.dst] # Dropped
Live == \A t \in Threads : LiveOk(rd[t], wr[t], storage, active_addr)

(* What the helping slot holds is the debt of its owner's own load. *)
OwnerOk(t, r, p) ==
  p # NONE =>
    /\ r.pc \in {"confirm_control", "take", "unused_pay", "inc", "inner_pay"}
    /\ r.debt = <<t, HELPING>>
    /\ p = r.ptr
HelpingSlotOwned == \A t \in Threads : OwnerOk(t, rd[t], slots[<<t, HELPING>>])

(* The control word follows the load of the node's owner. *)
FollowOk(r, c, g, addr) ==
  /\ r.pc \notin Announced => c = IDLE
  /\ r.pc \in Announced => c = Gen(g) \/ \E e \in Threads : c = Replacement(e)
  /\ r.pc \in Announced \cup {"control"} => addr = r.src
  /\ r.pc \in {"slot", "confirm_control"} => g # 0
  /\ r.pc = "panicked" => g = 0
ControlFollows ==
  \A t \in Threads : FollowOk(rd[t], control[t], generation[t], active_addr[t])

Control ==
  Types /\ LoadShape /\ WriteShape /\ HelpShape /\ GuardsAreFast /\ Live
  /\ HelpingSlotOwned /\ ControlFollows

(* A record that gets a value of the right type keeps its type. *)
LEMMA LoadRecord ==
  ASSUME NEW A, NEW B, NEW C, NEW D, NEW E, NEW F, NEW G, NEW H,
         NEW R, R = [pc : A, src : B, ptr : C, debt : D, i : E, env : F,
                    got : G, full : H],
         NEW r \in R
  PROVE  /\ \A v \in A : [r EXCEPT !.pc = v] \in R
         /\ \A v \in B : [r EXCEPT !.src = v] \in R
         /\ \A v \in C : [r EXCEPT !.ptr = v] \in R
         /\ \A v \in D : [r EXCEPT !.debt = v] \in R
         /\ \A v \in E : [r EXCEPT !.i = v] \in R
         /\ \A v \in F : [r EXCEPT !.env = v] \in R
         /\ \A v \in G : [r EXCEPT !.got = v] \in R
         /\ \A v \in H : [r EXCEPT !.full = v] \in R
<1>1. \A v \in A : [r EXCEPT !.pc = v] \in R
  BY SMT
<1>2. \A v \in B : [r EXCEPT !.src = v] \in R
  BY SMT
<1>3. \A v \in C : [r EXCEPT !.ptr = v] \in R
  BY SMT
<1>4. \A v \in D : [r EXCEPT !.debt = v] \in R
  BY SMT
<1>5. \A v \in E : [r EXCEPT !.i = v] \in R
  BY SMT
<1>6. \A v \in F : [r EXCEPT !.env = v] \in R
  BY SMT
<1>7. \A v \in G : [r EXCEPT !.got = v] \in R
  BY SMT
<1>8. \A v \in H : [r EXCEPT !.full = v] \in R
  BY SMT
<1> QED BY <1>1, <1>2, <1>3, <1>4, <1>5, <1>6, <1>7, <1>8, Zenon

(* The same for a load frame, *)
LEMMA LoadFrame ==
  ASSUME NEW r \in LoadFrames
  PROVE  /\ \A v \in RdPc : [r EXCEPT !.pc = v] \in LoadFrames
         /\ \A v \in Storages \cup {NoStorage} : [r EXCEPT !.src = v] \in LoadFrames
         /\ \A v \in Ptrs : [r EXCEPT !.ptr = v] \in LoadFrames
         /\ \A v \in SlotIds \cup {NoDebt} : [r EXCEPT !.debt = v] \in LoadFrames
         /\ \A v \in 0..DEBT_SLOT_CNT : [r EXCEPT !.i = v] \in LoadFrames
         /\ \A v \in Threads : [r EXCEPT !.env = v] \in LoadFrames
         /\ \A v \in Ptrs : [r EXCEPT !.got = v] \in LoadFrames
         /\ \A v \in BOOLEAN : [r EXCEPT !.full = v] \in LoadFrames
<1>1. /\ \A v \in RdPc : [r EXCEPT !.pc = v] \in LoadFrames
      /\ \A v \in Storages \cup {NoStorage} : [r EXCEPT !.src = v] \in LoadFrames
      /\ \A v \in Ptrs : [r EXCEPT !.ptr = v] \in LoadFrames
      /\ \A v \in SlotIds \cup {NoDebt} : [r EXCEPT !.debt = v] \in LoadFrames
  BY LoadRecord, Zenon DEF LoadFrames
<1>2. /\ \A v \in 0..DEBT_SLOT_CNT : [r EXCEPT !.i = v] \in LoadFrames
      /\ \A v \in Threads : [r EXCEPT !.env = v] \in LoadFrames
      /\ \A v \in Ptrs : [r EXCEPT !.got = v] \in LoadFrames
      /\ \A v \in BOOLEAN : [r EXCEPT !.full = v] \in LoadFrames
  BY LoadRecord, Zenon DEF LoadFrames
<1> QED BY <1>1, <1>2, Zenon

(* A thread gets another frame. *)
LEMMA LoadSet ==
  ASSUME NEW Q \in [Threads -> LoadFrames], NEW t \in Threads,
         NEW r \in LoadFrames
  PROVE  [Q EXCEPT ![t] = r] \in [Threads -> LoadFrames]
OBVIOUS

(* The same for the load frames of the threads. *)
LEMMA LoadFields ==
  ASSUME NEW Q \in [Threads -> LoadFrames], NEW t \in Threads
  PROVE  /\ \A v \in RdPc :
              [Q EXCEPT ![t].pc = v] \in [Threads -> LoadFrames]
         /\ \A v \in Storages \cup {NoStorage} :
              [Q EXCEPT ![t].src = v] \in [Threads -> LoadFrames]
         /\ \A v \in Ptrs :
              [Q EXCEPT ![t].ptr = v] \in [Threads -> LoadFrames]
         /\ \A v \in SlotIds \cup {NoDebt} :
              [Q EXCEPT ![t].debt = v] \in [Threads -> LoadFrames]
         /\ \A v \in 0..DEBT_SLOT_CNT :
              [Q EXCEPT ![t].i = v] \in [Threads -> LoadFrames]
         /\ \A v \in Threads :
              [Q EXCEPT ![t].env = v] \in [Threads -> LoadFrames]
         /\ \A v \in Ptrs :
              [Q EXCEPT ![t].got = v] \in [Threads -> LoadFrames]
         /\ \A v \in BOOLEAN :
              [Q EXCEPT ![t].full = v] \in [Threads -> LoadFrames]
<1>0. Q[t] \in LoadFrames
  OBVIOUS
<1>1. \A v \in RdPc :
         [Q EXCEPT ![t].pc = v] \in [Threads -> LoadFrames]
  BY <1>0, LoadFrame
<1>2. \A v \in Storages \cup {NoStorage} :
         [Q EXCEPT ![t].src = v] \in [Threads -> LoadFrames]
  BY <1>0, LoadFrame
<1>3. \A v \in Ptrs :
         [Q EXCEPT ![t].ptr = v] \in [Threads -> LoadFrames]
  BY <1>0, LoadFrame
<1>4. \A v \in SlotIds \cup {NoDebt} :
         [Q EXCEPT ![t].debt = v] \in [Threads -> LoadFrames]
  BY <1>0, LoadFrame
<1>5. \A v \in 0..DEBT_SLOT_CNT :
         [Q EXCEPT ![t].i = v] \in [Threads -> LoadFrames]
  BY <1>0, LoadFrame
<1>6. \A v \in Threads :
         [Q EXCEPT ![t].env = v] \in [Threads -> LoadFrames]
  BY <1>0, LoadFrame
<1>7. \A v \in Ptrs :
         [Q EXCEPT ![t].got = v] \in [Threads -> LoadFrames]
  BY <1>0, LoadFrame
<1>8. \A v \in BOOLEAN :
         [Q EXCEPT ![t].full = v] \in [Threads -> LoadFrames]
  BY <1>0, LoadFrame
<1> QED BY <1>1, <1>2, <1>3, <1>4, <1>5, <1>6, <1>7, <1>8, Zenon

(* A record that gets a value of the right type keeps its type. *)
LEMMA WriteRecord ==
  ASSUME NEW A, NEW B, NEW C, NEW D, NEW E, NEW F, NEW G, NEW H, NEW I,
         NEW J, NEW K, NEW L,
         NEW R, R = [pc : A, op : B, dst : C, new : D, current : E, old : F,
                    odebt : G, node : H, k : I, observed : J, repl : K,
                    their : L],
         NEW r \in R
  PROVE  /\ \A v \in A : [r EXCEPT !.pc = v] \in R
         /\ \A v \in B : [r EXCEPT !.op = v] \in R
         /\ \A v \in C : [r EXCEPT !.dst = v] \in R
         /\ \A v \in D : [r EXCEPT !.new = v] \in R
         /\ \A v \in E : [r EXCEPT !.current = v] \in R
         /\ \A v \in F : [r EXCEPT !.old = v] \in R
         /\ \A v \in G : [r EXCEPT !.odebt = v] \in R
         /\ \A v \in H : [r EXCEPT !.node = v] \in R
         /\ \A v \in I : [r EXCEPT !.k = v] \in R
         /\ \A v \in J : [r EXCEPT !.observed = v] \in R
         /\ \A v \in K : [r EXCEPT !.repl = v] \in R
         /\ \A v \in L : [r EXCEPT !.their = v] \in R
<1>1. \A v \in A : [r EXCEPT !.pc = v] \in R
  BY SMT
<1>2. \A v \in B : [r EXCEPT !.op = v] \in R
  BY SMT
<1>3. \A v \in C : [r EXCEPT !.dst = v] \in R
  BY SMT
<1>4. \A v \in D : [r EXCEPT !.new = v] \in R
  BY SMT
<1>5. \A v \in E : [r EXCEPT !.current = v] \in R
  BY SMT
<1>6. \A v \in F : [r EXCEPT !.old = v] \in R
  BY SMT
<1>7. \A v \in G : [r EXCEPT !.odebt = v] \in R
  BY SMT
<1>8. \A v \in H : [r EXCEPT !.node = v] \in R
  BY SMT
<1>9. \A v \in I : [r EXCEPT !.k = v] \in R
  BY SMT
<1>10. \A v \in J : [r EXCEPT !.observed = v] \in R
  BY SMT
<1>11. \A v \in K : [r EXCEPT !.repl = v] \in R
  BY SMT
<1>12. \A v \in L : [r EXCEPT !.their = v] \in R
  BY SMT
<1> QED BY <1>1, <1>2, <1>3, <1>4, <1>5, <1>6, <1>7, <1>8, <1>9, <1>10, <1>11,
          <1>12, Zenon

(* The same for a write frame, *)
LEMMA WriteFrame ==
  ASSUME NEW r \in WriteFrames
  PROVE  /\ \A v \in WrPc : [r EXCEPT !.pc = v] \in WriteFrames
         /\ \A v \in WriteOps \cup {"none"} : [r EXCEPT !.op = v] \in WriteFrames
         /\ \A v \in Storages \cup {NoStorage} : [r EXCEPT !.dst = v] \in WriteFrames
         /\ \A v \in Ptrs : [r EXCEPT !.new = v] \in WriteFrames
         /\ \A v \in Ptrs : [r EXCEPT !.current = v] \in WriteFrames
         /\ \A v \in Ptrs : [r EXCEPT !.old = v] \in WriteFrames
         /\ \A v \in SlotIds \cup {NoDebt} : [r EXCEPT !.odebt = v] \in WriteFrames
         /\ \A v \in Threads : [r EXCEPT !.node = v] \in WriteFrames
         /\ \A v \in 1..HELPING : [r EXCEPT !.k = v] \in WriteFrames
         /\ \A v \in ControlWords : [r EXCEPT !.observed = v] \in WriteFrames
         /\ \A v \in Ptrs : [r EXCEPT !.repl = v] \in WriteFrames
         /\ \A v \in Threads : [r EXCEPT !.their = v] \in WriteFrames
<1>1. /\ \A v \in WrPc : [r EXCEPT !.pc = v] \in WriteFrames
      /\ \A v \in WriteOps \cup {"none"} : [r EXCEPT !.op = v] \in WriteFrames
      /\ \A v \in Storages \cup {NoStorage} : [r EXCEPT !.dst = v] \in WriteFrames
      /\ \A v \in Ptrs : [r EXCEPT !.new = v] \in WriteFrames
  BY WriteRecord, Zenon DEF WriteFrames
<1>2. /\ \A v \in Ptrs : [r EXCEPT !.current = v] \in WriteFrames
      /\ \A v \in Ptrs : [r EXCEPT !.old = v] \in WriteFrames
      /\ \A v \in SlotIds \cup {NoDebt} : [r EXCEPT !.odebt = v] \in WriteFrames
      /\ \A v \in Threads : [r EXCEPT !.node = v] \in WriteFrames
  BY WriteRecord, Zenon DEF WriteFrames
<1>3. /\ \A v \in 1..HELPING : [r EXCEPT !.k = v] \in WriteFrames
      /\ \A v \in ControlWords : [r EXCEPT !.observed = v] \in WriteFrames
      /\ \A v \in Ptrs : [r EXCEPT !.repl = v] \in WriteFrames
      /\ \A v \in Threads : [r EXCEPT !.their = v] \in WriteFrames
  BY WriteRecord, Zenon DEF WriteFrames
<1> QED BY <1>1, <1>2, <1>3, Zenon

(* A thread gets another frame. *)
LEMMA WriteSet ==
  ASSUME NEW Q \in [Threads -> WriteFrames], NEW t \in Threads,
         NEW r \in WriteFrames
  PROVE  [Q EXCEPT ![t] = r] \in [Threads -> WriteFrames]
OBVIOUS

(* The same for the write frames of the threads. *)
LEMMA WriteFields ==
  ASSUME NEW Q \in [Threads -> WriteFrames], NEW t \in Threads
  PROVE  /\ \A v \in WrPc :
              [Q EXCEPT ![t].pc = v] \in [Threads -> WriteFrames]
         /\ \A v \in WriteOps \cup {"none"} :
              [Q EXCEPT ![t].op = v] \in [Threads -> WriteFrames]
         /\ \A v \in Storages \cup {NoStorage} :
              [Q EXCEPT ![t].dst = v] \in [Threads -> WriteFrames]
         /\ \A v \in Ptrs :
              [Q EXCEPT ![t].new = v] \in [Threads -> WriteFrames]
         /\ \A v \in Ptrs :
              [Q EXCEPT ![t].current = v] \in [Threads -> WriteFrames]
         /\ \A v \in Ptrs :
              [Q EXCEPT ![t].old = v] \in [Threads -> WriteFrames]
         /\ \A v \in SlotIds \cup {NoDebt} :
              [Q EXCEPT ![t].odebt = v] \in [Threads -> WriteFrames]
         /\ \A v \in Threads :
              [Q EXCEPT ![t].node = v] \in [Threads -> WriteFrames]
         /\ \A v \in 1..HELPING :
              [Q EXCEPT ![t].k = v] \in [Threads -> WriteFrames]
         /\ \A v \in ControlWords :
              [Q EXCEPT ![t].observed = v] \in [Threads -> WriteFrames]
         /\ \A v \in Ptrs :
              [Q EXCEPT ![t].repl = v] \in [Threads -> WriteFrames]
         /\ \A v \in Threads :
              [Q EXCEPT ![t].their = v] \in [Threads -> WriteFrames]
<1>0. Q[t] \in WriteFrames
  OBVIOUS
<1>1. \A v \in WrPc :
         [Q EXCEPT ![t].pc = v] \in [Threads -> WriteFrames]
  BY <1>0, WriteFrame
<1>2. \A v \in WriteOps \cup {"none"} :
         [Q EXCEPT ![t].op = v] \in [Threads -> WriteFrames]
  BY <1>0, WriteFrame
<1>3. \A v \in Storages \cup {NoStorage} :
         [Q EXCEPT ![t].dst = v] \in [Threads -> WriteFrames]
  BY <1>0, WriteFrame
<1>4. \A v \in Ptrs :
         [Q EXCEPT ![t].new = v] \in [Threads -> WriteFrames]
  BY <1>0, WriteFrame
<1>5. \A v \in Ptrs :
         [Q EXCEPT ![t].current = v] \in [Threads -> WriteFrames]
  BY <1>0, WriteFrame
<1>6. \A v \in Ptrs :
         [Q EXCEPT ![t].old = v] \in [Threads -> WriteFrames]
  BY <1>0, WriteFrame
<1>7. \A v \in SlotIds \cup {NoDebt} :
         [Q EXCEPT ![t].odebt = v] \in [Threads -> WriteFrames]
  BY <1>0, WriteFrame
<1>8. \A v \in Threads :
         [Q EXCEPT ![t].node = v] \in [Threads -> WriteFrames]
  BY <1>0, WriteFrame
<1>9. \A v \in 1..HELPING :
         [Q EXCEPT ![t].k = v] \in [Threads -> WriteFrames]
  BY <1>0, WriteFrame
<1>10. \A v \in ControlWords :
         [Q EXCEPT ![t].observed = v] \in [Threads -> WriteFrames]
  BY <1>0, WriteFrame
<1>11. \A v \in Ptrs :
         [Q EXCEPT ![t].repl = v] \in [Threads -> WriteFrames]
  BY <1>0, WriteFrame
<1>12. \A v \in Threads :
         [Q EXCEPT ![t].their = v] \in [Threads -> WriteFrames]
  BY <1>0, WriteFrame
<1> QED BY <1>1, <1>2, <1>3, <1>4, <1>5, <1>6, <1>7, <1>8, <1>9, <1>10, <1>11,
          <1>12, Zenon

(* What the assumptions on the constants give the steps below. *)
LEMMA Constants ==
  /\ DEBT_SLOT_CNT \in Nat /\ HELPING \in Nat /\ HELPING > 1
     /\ DEBT_SLOT_CNT < HELPING
  /\ 0 \in 0..DEBT_SLOT_CNT /\ 1 \in 1..HELPING /\ HELPING \in 1..HELPING
  /\ N \in Nat /\ 1 \in Threads /\ N \in Threads
  /\ Null \in Ptrs /\ NoStorage \in Storages \cup {NoStorage}
  /\ NoDebt \in SlotIds \cup {NoDebt} /\ SlotIds \subseteq SlotIds \cup {NoDebt}
  /\ IDLE \in ControlWords /\ \A e \in Threads : Replacement(e) \in ControlWords
  /\ \A g \in 0..(GenLimit - 1) : Gen(g) \in ControlWords
BY NAssumption, SlotCountAssumption DEF HELPING, Threads, Ptrs, ControlWords

(* The fast slots and the helping slots are apart, and none is NoDebt. *)
LEMMA Slots ==
  /\ \A t \in Threads, k \in 1..HELPING : <<t, k>> \in SlotIds /\ <<t, k>> # NoDebt
  /\ FastSlots \subseteq SlotIds
  /\ \A x \in FastSlots : x # NoDebt /\ \A t \in Threads : x # <<t, HELPING>>
  /\ \A t \in Threads, k \in 1..DEBT_SLOT_CNT : <<t, k>> \in FastSlots
  /\ NoDebt \notin SlotIds
BY NAssumption, SlotCountAssumption DEF HELPING, Threads, SlotIds, FastSlots,
   NoDebt

(* The three kinds of control words are apart, and say what they carry. *)
LEMMA Words ==
  /\ \A g : IsGen(Gen(g)) /\ ~IsReplacement(Gen(g)) /\ Gen(g) # IDLE
  /\ \A e : IsReplacement(Replacement(e)) /\ ~IsGen(Replacement(e))
            /\ Replacement(e) # IDLE /\ Replacement(e)[2] = e
  /\ ~IsGen(IDLE) /\ ~IsReplacement(IDLE)
  /\ \A g, e : Gen(g) # Replacement(e)
  /\ \A g, h : Gen(g) = Gen(h) => g = h
  /\ \A d, e : Replacement(d) = Replacement(e) => d = e
  /\ \A c \in ControlWords :
       /\ c = IDLE \/ IsGen(c) \/ IsReplacement(c)
       /\ IsGen(c) => \E g \in 0..(GenLimit - 1) : c = Gen(g)
       /\ IsReplacement(c) => c[2] \in Threads /\ c = Replacement(c[2])
BY DEF IDLE, Gen, Replacement, IsGen, IsReplacement, ControlWords

(* An idle thread has frames of the right types. *)
LEMMA EmptyFrames ==
  NoLoad \in LoadFrames /\ NoWrite \in WriteFrames
<1>1. "idle" \in RdPc /\ "idle" \in WrPc
  BY DEF RdPc, WrPc
<1>2. NoLoad \in LoadFrames
  BY <1>1, Constants DEF NoLoad, LoadFrames
<1>3. NoWrite \in WriteFrames
  BY <1>1, Constants DEF NoWrite, WriteFrames
<1> QED BY <1>2, <1>3

(* The fields of the frames, one by one. *)
LEMMA FrameTypes ==
  ASSUME Types, NEW t \in Threads
  PROVE  /\ rd[t].pc \in RdPc
         /\ rd[t].src \in Storages \cup {NoStorage}
         /\ rd[t].ptr \in Ptrs
         /\ rd[t].debt \in SlotIds \cup {NoDebt}
         /\ rd[t].i \in 0..DEBT_SLOT_CNT
         /\ rd[t].env \in Threads
         /\ rd[t].got \in Ptrs
         /\ rd[t].full \in BOOLEAN
         /\ wr[t].pc \in WrPc
         /\ wr[t].op \in WriteOps \cup {"none"}
         /\ wr[t].dst \in Storages \cup {NoStorage}
         /\ wr[t].new \in Ptrs
         /\ wr[t].current \in Ptrs
         /\ wr[t].old \in Ptrs
         /\ wr[t].odebt \in SlotIds \cup {NoDebt}
         /\ wr[t].node \in Threads
         /\ wr[t].k \in 1..HELPING
         /\ wr[t].observed \in ControlWords
         /\ wr[t].repl \in Ptrs
         /\ wr[t].their \in Threads
<1>1. rd[t] \in LoadFrames /\ wr[t] \in WriteFrames
  BY DEF Types
<1>2. /\ rd[t].pc \in RdPc
      /\ rd[t].src \in Storages \cup {NoStorage}
      /\ rd[t].ptr \in Ptrs
      /\ rd[t].debt \in SlotIds \cup {NoDebt}
      /\ rd[t].i \in 0..DEBT_SLOT_CNT
      /\ rd[t].env \in Threads
      /\ rd[t].got \in Ptrs
      /\ rd[t].full \in BOOLEAN
  BY <1>1 DEF LoadFrames
<1>3. /\ wr[t].pc \in WrPc
      /\ wr[t].op \in WriteOps \cup {"none"}
      /\ wr[t].dst \in Storages \cup {NoStorage}
      /\ wr[t].new \in Ptrs
      /\ wr[t].current \in Ptrs
      /\ wr[t].old \in Ptrs
      /\ wr[t].odebt \in SlotIds \cup {NoDebt}
      /\ wr[t].node \in Threads
      /\ wr[t].k \in 1..HELPING
      /\ wr[t].observed \in ControlWords
      /\ wr[t].repl \in Ptrs
      /\ wr[t].their \in Threads
  BY <1>1 DEF WriteFrames
<1> QED BY <1>2, <1>3

(* What a caller may hold. *)
LEMMA Handle ==
  ASSUME NEW p \in Ptrs, NEW d \in SlotIds \cup {NoDebt}
  PROVE  [ptr |-> p, debt |-> d] \in Handles /\ Owned(p) \in Handles
BY DEF Handles, Owned

(* What is in a handle. *)
LEMMA HandleFields ==
  ASSUME NEW h \in Handles
  PROVE  h.ptr \in Ptrs /\ h.debt \in SlotIds \cup {NoDebt}
BY DEF Handles

(* One count more keeps the types of the counts. *)
LEMMA IncTypes ==
  ASSUME Types, NEW a \in Ptrs, Inc(a)
  PROVE  cnt' \in [Objects -> Int]
BY DEF Types, Inc, Ptrs

(* One count less does too; that none is below zero takes the accounting. *)
LEMMA DecTypes ==
  ASSUME Types, NEW a \in Ptrs, Dec(a)
  PROVE  cnt' \in [Objects -> Int] /\ window' \in [Threads -> SUBSET Ptrs]
<1>1. cnt \in [Objects -> Int] /\ window \in [Threads -> SUBSET Ptrs]
  BY DEF Types
<1>2. cnt' \in [Objects -> Int]
  BY <1>1 DEF Dec, Ptrs
<1>3. window' \in [Threads -> SUBSET Ptrs]
  <2>1. [t \in Threads |-> window[t] \ {a}] \in [Threads -> SUBSET Ptrs]
    BY <1>1
  <2> QED BY <1>1, <2>1 DEF Dec
<1> QED BY <1>2, <1>3

(* A caller gets a handle. *)
LEMMA GiveTypes ==
  ASSUME Types, NEW h \in Handles, Give(h)
  PROVE  held' \in [Handles -> Nat]
BY DEF Types, Give

(* A caller that has a handle gives it up. *)
LEMMA TakeTypes ==
  ASSUME Types, NEW h \in Handles, held[h] > 0, Take(h)
  PROVE  held' \in [Handles -> Nat]
BY DEF Types, Take

(* A payment, and one that came too late, leaves a slot empty or as it was. *)
LEMMA PaidTypes ==
  ASSUME Types, NEW x, NEW a, Paid(x, a) \/ PaidBefore(x, a)
  PROVE  slots' \in [SlotIds -> Ptrs \cup {NONE}]
BY DEF Types, Paid, PaidBefore

(* The new value of a write is a pointer that the writer owns. *)
LEMMA NewValueTypes ==
  ASSUME Types, NEW s \in Storages, NEW v, NewValue(s, v)
  PROVE  v \in Ptrs /\ cnt' \in [Objects -> Int] /\ held' \in [Handles -> Nat]
<1>1. v \in Ptrs
  BY PoolAssumption DEF NewValue
<1>2. CASE UNCHANGED <<cnt, held>>
  BY <1>1, <1>2 DEF Types
<1>3. CASE v # Null /\ cnt' = [cnt EXCEPT ![v] = 1] /\ UNCHANGED held
  BY <1>1, <1>3 DEF Types, Ptrs
<1>4. CASE held[Owned(v)] > 0 /\ Take(Owned(v)) /\ UNCHANGED cnt
  BY <1>1, <1>4, TakeTypes, Handle, Constants DEF Types
<1> QED BY <1>1, <1>2, <1>3, <1>4 DEF NewValue

(* A storage gets a pointer. *)
LEMMA PublishTypes ==
  ASSUME Types, NEW s \in Storages, NEW v \in Ptrs, Publish(s, v)
  PROVE  /\ storage' \in [Storages -> Ptrs \cup {Dropped}]
         /\ window' \in [Threads -> SUBSET Ptrs]
<1>1. storage' \in [Storages -> Ptrs \cup {Dropped}]
  BY DEF Types, Publish
<1>2. window \in [Threads -> SUBSET Ptrs]
  BY DEF Types
<1>3. window' \in [Threads -> SUBSET Ptrs]
  BY <1>2 DEF Publish
<1> QED BY <1>1, <1>3

(* A call is counted. *)
LEMMA CallTypes ==
  ASSUME Types, NEW t \in Threads, NEW op, NEW s, Call(t, op, s)
  PROVE  calls' \in [Threads -> Nat]
BY DEF Types, Call

(* A load of a storage that is there begins with a frame of its type. *)
LEMMA BeginTypes ==
  ASSUME Types, NEW t \in Threads, NEW s \in Storages, storage[s] # Dropped,
         NEW full \in BOOLEAN,
         StartLoad(t, s, full)
  PROVE  /\ rd' \in [Threads -> LoadFrames]
         /\ window' \in [Threads -> SUBSET Ptrs]
<1>1. storage[s] \in Ptrs
  BY DEF Types
<1>2. "scan" \in RdPc /\ "get_debt" \in RdPc
  BY DEF RdPc
<1>3. /\ (IF UseFast THEN "scan" ELSE "get_debt") \in RdPc
      /\ (IF UseFast THEN storage[s] ELSE Null) \in Ptrs
      /\ s \in Storages \cup {NoStorage}
  BY <1>1, <1>2, Constants
<1>4. NewLoad(s, full) \in LoadFrames
  BY <1>3, EmptyFrames, LoadFrame DEF NewLoad
<1>5. rd' \in [Threads -> LoadFrames]
  BY <1>4, LoadSet DEF StartLoad, Types
<1>6. window' \in [Threads -> SUBSET Ptrs]
  BY <1>1 DEF StartLoad, Types
<1> QED BY <1>5, <1>6

(* pay_all goes on to the next slot, or to the next node. *)
LEMMA NextSlotTypes ==
  ASSUME NEW w \in WriteFrames
  PROVE  NextSlot(w) \in WriteFrames
<1>1. "pay" \in WrPc /\ "help" \in WrPc /\ "release" \in WrPc
  BY DEF WrPc
<1>2. w.k \in 1..HELPING /\ w.node \in Threads
  BY DEF WriteFrames
<1>3. CASE w.k < HELPING
  <2>1. w.k + 1 \in 1..HELPING
    BY <1>2, <1>3, Constants
  <2>2. [w EXCEPT !.pc = "pay", !.k = @ + 1] \in WriteFrames
    BY <1>1, <2>1, WriteFrame
  <2> QED BY <1>3, <2>2 DEF NextSlot
<1>4. CASE ~(w.k < HELPING) /\ w.node > 1
  <2>1. w.node - 1 \in Threads /\ 1 \in 1..HELPING
    BY <1>2, <1>4, Constants DEF Threads
  <2>2. [w EXCEPT !.pc = "help", !.node = @ - 1, !.k = 1] \in WriteFrames
    BY <1>1, <2>1, WriteFrame
  <2> QED BY <1>4, <2>2 DEF NextSlot
<1>5. CASE ~(w.k < HELPING) /\ ~(w.node > 1)
  <2>2. [w EXCEPT !.pc = "release", !.node = 1, !.k = 1] \in WriteFrames
    BY <1>1, Constants, WriteFrame
  <2> QED BY <1>5, <2>2 DEF NextSlot
<1> QED BY <1>3, <1>4, <1>5

(* What Control says of one thread. *)
LEMMA Own ==
  ASSUME Control, NEW t \in Threads
  PROVE  /\ Types /\ LoadOk(t, rd[t]) /\ WriteOk(wr[t], rd[t])
  /\ HelpOk(t, wr[t])
         /\ LiveOk(rd[t], wr[t], storage, active_addr)
         /\ OwnerOk(t, rd[t], slots[<<t, HELPING>>])
         /\ FollowOk(rd[t], control[t], generation[t], active_addr[t])
BY DEF Control, LoadShape, WriteShape, HelpShape, Live, HelpingSlotOwned,
       ControlFollows

(* There are more generations than threads, so that with Recycle one is always
   free: nobody has a copy of what GetDebt takes. *)
LEMMA FreshGeneration ==
  ASSUME Types, NEW t \in Threads, control[t] = IDLE, Recycle
  PROVE  /\ NextGeneration(t) \in 1..(GenLimit - 1)
         /\ Gen(NextGeneration(t)) \notin InCirculation(t)
<1> DEFINE G == 1..(GenLimit - 1)
<1>1. \E g \in G : Gen(g) \notin InCirculation(t)
  <2> SUFFICES ASSUME \A g \in G : Gen(g) \in InCirculation(t)
               PROVE  FALSE
    OBVIOUS
  <2> DEFINE f == [g \in G |-> CHOOSE u \in Threads : wr[u].observed = Gen(g)]
  <2>1. \A g \in G : \E u \in Threads : wr[u].observed = Gen(g)
    BY Words DEF InCirculation
  <2>2. \A g \in G : f[g] \in Threads /\ wr[f[g]].observed = Gen(g)
    BY <2>1
  <2>3. f \in [G -> Threads]
    BY <2>2
  <2>4. /\ IsFiniteSet(G) /\ IsFiniteSet(Threads)
        /\ Cardinality(Threads) < Cardinality(G)
    <3>1. GenLimit - 1 \in Int /\ GenLimit - 1 > N /\ N \in Int /\ N >= 1
      BY GenLimitAssumption, NAssumption, RecycleAssumption
    <3>2. IsFiniteSet(G) /\ Cardinality(G) = GenLimit - 1
      BY <3>1, FS_Interval
    <3>3. IsFiniteSet(Threads) /\ Cardinality(Threads) = N
      BY <3>1, FS_Interval DEF Threads
    <3> QED BY <3>1, <3>2, <3>3
  <2> HIDE DEF f, G
  <2>5. PICK x \in G, y \in G : x # y /\ f[x] = f[y]
    BY <2>3, <2>4, FS_PigeonHole
  <2>6. Gen(x) = Gen(y)
    BY <2>2, <2>5
  <2> QED BY <2>5, <2>6, Words
<1>2. NextGeneration(t) = CHOOSE g \in G : Gen(g) \notin InCirculation(t)
  BY DEF NextGeneration
<1> QED BY <1>1, <1>2

(* An idle word leaves a generation to choose. *)
LEMMA NextGenerationTypes ==
  ASSUME Types, NEW t \in Threads, control[t] = IDLE
  PROVE  NextGeneration(t) \in 0..(GenLimit - 1)
<1>1. CASE Recycle
  BY <1>1, FreshGeneration, GenLimitAssumption
<1>2. CASE ~Recycle
  <2>1. generation[t] + 1 \in Nat
    BY DEF Types
  <2> QED BY <1>2, <2>1, GenLimitAssumption DEF NextGeneration
<1> QED BY <1>1, <1>2

USE DEF nodeVars, localVars

(* A step of t leaves the frames of the others alone. *)
OnlyRd(t) == \A u \in Threads : u # t => rd'[u] = rd[u]
OnlyWr(t) == \A u \in Threads : u # t => wr'[u] = wr[u]

(* What a step makes of the load frame of t. *)
RdTo(t, pc, src, ptr, debt, env, got, full) ==
  /\ rd'[t].pc = pc /\ rd'[t].src = src /\ rd'[t].ptr = ptr
     /\ rd'[t].debt = debt
  /\ rd'[t].env = env /\ rd'[t].got = got /\ rd'[t].full = full
  /\ OnlyRd(t)
RdMove(t, pc, ptr, debt) ==
  RdTo(t, pc, rd[t].src, ptr, debt, rd[t].env, rd[t].got, rd[t].full)
RdGo(t, pc) == RdMove(t, pc, rd[t].ptr, rd[t].debt)
RdIdle(t) == RdTo(t, "idle", NoStorage, Null, NoDebt, 1, Null, FALSE)

LoadBegins(t, s, full) ==
  /\ window' = [window EXCEPT ![t] = {storage[s]}]
  /\ \/ UseFast /\ RdTo(t, "scan", s, storage[s], NoDebt, 1, Null, full)
     \/ ~UseFast /\ RdTo(t, "get_debt", s, Null, NoDebt, 1, Null, full)

(* The same for the write frame. *)
WrTo(t, pc, op, dst, new, current, old, odebt, node, k, observed, repl, their) ==
  /\ wr'[t].pc = pc /\ wr'[t].op = op /\ wr'[t].dst = dst /\ wr'[t].new = new
  /\ wr'[t].current = current /\ wr'[t].old = old /\ wr'[t].odebt = odebt
  /\ wr'[t].node = node /\ wr'[t].k = k /\ wr'[t].observed = observed
  /\ wr'[t].repl = repl /\ wr'[t].their = their
  /\ OnlyWr(t)
WrCas(t, pc, old, odebt) ==
  WrTo(t, pc, wr[t].op, wr[t].dst, wr[t].new, wr[t].current, old, odebt,
       wr[t].node, wr[t].k, wr[t].observed, wr[t].repl, wr[t].their)
WrGo(t, pc) == WrCas(t, pc, wr[t].old, wr[t].odebt)
WrHelp(t, pc, observed, repl, their) ==
  WrTo(t, pc, wr[t].op, wr[t].dst, wr[t].new, wr[t].current, wr[t].old,
       wr[t].odebt, wr[t].node, wr[t].k, observed, repl, their)
WrSlot(t, pc, node, k) ==
  WrTo(t, pc, wr[t].op, wr[t].dst, wr[t].new, wr[t].current, wr[t].old,
       wr[t].odebt, node, k, wr[t].observed, wr[t].repl, wr[t].their)
WrHelped(t) ==
  WrTo(t, "pay", wr[t].op, wr[t].dst, wr[t].new, wr[t].current, wr[t].old,
       wr[t].odebt, wr[t].node, 1, IDLE, Null, 1)
WrBegins(t, pc, op, dst, new, current, old) ==
  WrTo(t, pc, op, dst, new, current, old, NoDebt, 1, 1, IDLE, Null, 1)
WrIdle(t) == WrBegins(t, "idle", "none", NoStorage, Null, Null, Null)

(* The next slot, the next node or the end of the list. *)
SlotDone(t) ==
  \/ /\ wr[t].k < HELPING
     /\ WrSlot(t, "pay", wr[t].node, wr[t].k + 1)
  \/ /\ wr[t].k = HELPING /\ wr[t].node > 1
     /\ WrSlot(t, "help", wr[t].node - 1, 1)
  \/ /\ wr[t].k = HELPING /\ wr[t].node = 1
     /\ WrSlot(t, "release", 1, 1)

USE NAssumption, SlotCountAssumption
(* A fast slot is taken, or the next one is tried. *)
LEMMA ScanEffect ==
  ASSUME Types, NEW t \in Threads, Scan(t)
  PROVE  /\ rd[t].pc = "scan"
         /\ \/ /\ \E k \in 1..DEBT_SLOT_CNT :
                     /\ slots[<<t, k>>] = NONE
                        /\ slots' = [slots EXCEPT ![<<t, k>>] = rd[t].ptr]
                     /\ RdMove(t, "confirm", rd[t].ptr, <<t, k>>)
            \/ /\ slots' = slots
               /\ \/ RdGo(t, rd[t].pc)
                  \/ RdMove(t, "get_debt", Null, rd[t].debt)
         /\ UNCHANGED <<storage, cnt, control, active_addr, space_offer,
                        handover, generation, wr, held, calls, window>>
<1> DEFINE k == ((rd[t].i + offset[t]) % DEBT_SLOT_CNT) + 1
<1>1. k \in 1..DEBT_SLOT_CNT
  BY DEF Types, LoadFrames
<1>2. \/ /\ slots[<<t, k>>] = NONE /\ slots' = [slots EXCEPT ![<<t, k>>] = rd[t].ptr]
         /\ rd' = [rd EXCEPT ![t].pc = "confirm", ![t].debt = <<t, k>>, ![t].i = 0]
      \/ /\ slots' = slots
         /\ \/ rd' = [rd EXCEPT ![t].i = @ + 1]
            \/ rd' = [rd EXCEPT ![t].pc = "get_debt", ![t].i = 0, ![t].ptr = Null]
  BY Zenon DEF Scan
<1> HIDE DEF k
<1>3. \A x : rd' = [rd EXCEPT ![t].pc = "confirm", ![t].debt = <<t, x>>, ![t].i = 0]
        => RdMove(t, "confirm", rd[t].ptr, <<t, x>>)
  BY DEF Types, LoadFrames, RdMove, RdTo, OnlyRd
<1>4. rd' = [rd EXCEPT ![t].i = @ + 1] => RdGo(t, rd[t].pc)
  BY DEF Types, LoadFrames, RdGo, RdMove, RdTo, OnlyRd
<1>5. rd' = [rd EXCEPT ![t].pc = "get_debt", ![t].i = 0, ![t].ptr = Null]
        => RdMove(t, "get_debt", Null, rd[t].debt)
  BY DEF Types, LoadFrames, RdMove, RdTo, OnlyRd
<1>6. /\ rd[t].pc = "scan"
      /\ UNCHANGED <<storage, cnt, nodeVars, generation, wr, held, calls,
                     window>>
  BY DEF Scan
<1> QED BY <1>1, <1>2, <1>3, <1>4, <1>5, <1>6

(* The second read. *)
LEMMA ConfirmFastEffect ==
  ASSUME Types, NEW t \in Threads, ConfirmFast(t)
  PROVE  /\ rd[t].pc = "confirm"
         /\ \/ /\ storage[rd[t].src] = rd[t].ptr
               /\ RdGo(t, "return")
            \/ /\ storage[rd[t].src] # rd[t].ptr
               /\ RdGo(t, "give_back")
         /\ UNCHANGED <<storage, cnt, slots, control, active_addr, space_offer,
                        handover, generation, offset, wr, held, calls, window>>
BY DEF ConfirmFast, Types, LoadFrames, OnlyRd, RdGo, RdMove, RdTo

(* The debt is returned, or was paid. *)
LEMMA GiveBackEffect ==
  ASSUME Types, NEW t \in Threads, GiveBack(t)
  PROVE  /\ rd[t].pc = "give_back"
         /\ \/ /\ Paid(rd[t].debt, rd[t].ptr)
               /\ RdMove(t, "get_debt", Null, NoDebt)
            \/ /\ PaidBefore(rd[t].debt, rd[t].ptr)
               /\ RdMove(t, "return", rd[t].ptr, NoDebt)
         /\ UNCHANGED <<storage, cnt, control, active_addr, space_offer,
                        handover, generation, offset, wr, held, calls, window>>
BY DEF GiveBack, Types, LoadFrames, OnlyRd, RdMove, RdTo

(* A new generation. *)
LEMMA GetDebtEffect ==
  ASSUME Types, NEW t \in Threads, GetDebt(t)
  PROVE  /\ rd[t].pc = "get_debt"
         /\ generation' = [generation EXCEPT ![t] = NextGeneration(t)]
         /\ active_addr' = [active_addr EXCEPT ![t] = rd[t].src]
         /\ RdGo(t, "control")
         /\ UNCHANGED <<storage, cnt, slots, control, space_offer, handover,
                        offset, wr, held, calls, window>>
BY DEF GetDebt, Types, LoadFrames, OnlyRd, RdGo, RdMove, RdTo

(* The generation is published. *)
LEMMA GetDebtControlEffect ==
  ASSUME Types, NEW t \in Threads, GetDebtControl(t)
  PROVE  /\ rd[t].pc = "control"
         /\ control' = [control EXCEPT ![t] = Gen(generation[t])]
         /\ RdGo(t, "candidate")
         /\ UNCHANGED <<storage, cnt, slots, active_addr, space_offer,
                        handover, generation, offset, wr, held, calls, window>>
BY DEF GetDebtControl, Types, LoadFrames, OnlyRd, RdGo, RdMove, RdTo

(* The candidate is read. *)
LEMMA CandidateEffect ==
  ASSUME Types, NEW t \in Threads, Candidate(t)
  PROVE  /\ rd[t].pc = "candidate"
         /\ \/ /\ generation[t] = 0
               /\ RdMove(t, "panicked", storage[rd[t].src], rd[t].debt)
            \/ /\ generation[t] # 0
               /\ RdMove(t, "slot", storage[rd[t].src], rd[t].debt)
         /\ UNCHANGED <<storage, cnt, slots, control, active_addr, space_offer,
                        handover, generation, offset, wr, held, calls, window>>
BY DEF Candidate, Types, LoadFrames, OnlyRd, RdMove, RdTo

(* The debt on the candidate. *)
LEMMA ConfirmSlotEffect ==
  ASSUME Types, NEW t \in Threads, ConfirmSlot(t)
  PROVE  /\ rd[t].pc = "slot"
         /\ slots' = [slots EXCEPT ![<<t, HELPING>>] = rd[t].ptr]
         /\ RdMove(t, "confirm_control", rd[t].ptr, <<t, HELPING>>)
         /\ UNCHANGED <<storage, cnt, control, active_addr, space_offer,
                        handover, generation, offset, wr, held, calls, window>>
BY DEF ConfirmSlot, Types, LoadFrames, OnlyRd, RdMove, RdTo

(* The control word is taken back. *)
LEMMA ConfirmControlEffect ==
  ASSUME Types, NEW t \in Threads, ConfirmControl(t)
  PROVE  /\ rd[t].pc = "confirm_control"
         /\ control' = [control EXCEPT ![t] = IDLE]
         /\ \/ /\ control[t] = Gen(generation[t])
               /\ RdGo(t, "inc")
            \/ /\ control[t] # Gen(generation[t])
               /\ RdTo(t, "take", rd[t].src, rd[t].ptr, rd[t].debt,
                       control[t][2], rd[t].got, rd[t].full)
         /\ UNCHANGED <<storage, cnt, slots, active_addr, space_offer,
                        handover, generation, offset, wr, held, calls, window>>
BY DEF ConfirmControl, Types, LoadFrames, OnlyRd, RdGo, RdMove, RdTo

(* The envelope is emptied and kept. *)
LEMMA TakeHandoverEffect ==
  ASSUME Types, NEW t \in Threads, TakeHandover(t)
  PROVE  /\ rd[t].pc = "take"
         /\ space_offer' = [space_offer EXCEPT ![t] = rd[t].env]
         /\ RdTo(t, "unused_pay", rd[t].src, rd[t].ptr, rd[t].debt, 1,
                 handover[rd[t].env], rd[t].full)
         /\ UNCHANGED <<storage, cnt, slots, control, active_addr, handover,
                        generation, offset, wr, held, calls, window>>
BY DEF TakeHandover, Types, LoadFrames, OnlyRd, RdTo

(* The debt on the candidate is returned, or was paid. *)
LEMMA UnusedPayEffect ==
  ASSUME Types, NEW t \in Threads, UnusedPay(t)
  PROVE  /\ rd[t].pc = "unused_pay"
         /\ \/ /\ Paid(rd[t].debt, rd[t].ptr)
               /\ RdTo(t, "return", rd[t].src, rd[t].got, NoDebt, rd[t].env,
                       Null, rd[t].full)
            \/ /\ PaidBefore(rd[t].debt, rd[t].ptr)
               /\ RdGo(t, "unused_dec")
         /\ UNCHANGED <<storage, cnt, control, active_addr, space_offer,
                        handover, generation, offset, wr, held, calls, window>>
BY DEF UnusedPay, Types, LoadFrames, Helped, OnlyRd, RdGo, RdMove, RdTo

(* The reference that paid the debt is released. *)
LEMMA UnusedDecEffect ==
  ASSUME Types, NEW t \in Threads, UnusedDec(t)
  PROVE  /\ rd[t].pc = "unused_dec"
         /\ Dec(rd[t].ptr)
         /\ RdTo(t, "return", rd[t].src, rd[t].got, NoDebt, rd[t].env, Null,
                 rd[t].full)
         /\ UNCHANGED <<storage, slots, control, active_addr, space_offer,
                        handover, generation, offset, wr, held, calls>>
BY DEF UnusedDec, Types, LoadFrames, Helped, OnlyRd, RdTo

(* A reference is taken. *)
LEMMA IntoInnerIncEffect ==
  ASSUME Types, NEW t \in Threads, IntoInnerInc(t)
  PROVE  /\ rd[t].pc = "inc"
         /\ Inc(rd[t].ptr)
         /\ RdGo(t, "inner_pay")
         /\ UNCHANGED <<storage, slots, control, active_addr, space_offer,
                        handover, generation, offset, wr, held, calls, window>>
BY DEF IntoInnerInc, Types, LoadFrames, OnlyRd, RdGo, RdMove, RdTo

(* The debt is paid, or was. *)
LEMMA IntoInnerPayEffect ==
  ASSUME Types, NEW t \in Threads, IntoInnerPay(t)
  PROVE  /\ rd[t].pc = "inner_pay"
         /\ \/ /\ Paid(rd[t].debt, rd[t].ptr)
               /\ RdMove(t, "return", rd[t].ptr, NoDebt)
            \/ /\ PaidBefore(rd[t].debt, rd[t].ptr)
               /\ RdGo(t, "inner_dec")
         /\ UNCHANGED <<storage, cnt, control, active_addr, space_offer,
                        handover, generation, offset, wr, held, calls, window>>
BY DEF IntoInnerPay, Types, LoadFrames, OnlyRd, RdGo, RdMove, RdTo

(* The second reference is released. *)
LEMMA IntoInnerDecEffect ==
  ASSUME Types, NEW t \in Threads, IntoInnerDec(t)
  PROVE  /\ rd[t].pc = "inner_dec"
         /\ Dec(rd[t].ptr)
         /\ RdMove(t, "return", rd[t].ptr, NoDebt)
         /\ UNCHANGED <<storage, slots, control, active_addr, space_offer,
                        handover, generation, offset, wr, held, calls>>
BY DEF IntoInnerDec, Types, LoadFrames, OnlyRd, RdMove, RdTo

(* A guard becomes an Arc. *)
LEMMA ReturnFullEffect ==
  ASSUME Types, NEW t \in Threads, ReturnFull(t)
  PROVE  /\ rd[t].pc = "return"
         /\ rd[t].full /\ rd[t].debt # NoDebt
         /\ RdGo(t, "inc")
         /\ UNCHANGED <<storage, cnt, slots, control, active_addr, space_offer,
                        handover, generation, offset, wr, held, calls, window>>
BY DEF ReturnFull, Types, LoadFrames, OnlyRd, RdGo, RdMove, RdTo

(* The caller has the guard. *)
LEMMA ReturnToCallerEffect ==
  ASSUME Types, NEW t \in Threads, ReturnToCaller(t)
  PROVE  /\ rd[t].pc = "return"
         /\ wr[t].pc = "idle"
         /\ Give([ptr |-> rd[t].ptr, debt |-> rd[t].debt])
         /\ window' = [window EXCEPT ![t] = {}]
         /\ RdIdle(t)
         /\ UNCHANGED <<storage, cnt, slots, control, active_addr, space_offer,
                        handover, generation, offset, wr, calls>>
BY DEF ReturnToCaller, Types, LoadFrames, Returning, NoLoad, OnlyRd, RdIdle,
   RdTo

(* A guard whose debt was paid releases its reference. *)
LEMMA DropDecEffect ==
  ASSUME Types, NEW t \in Threads, DropDec(t)
  PROVE  /\ rd[t].pc = "drop_dec"
         /\ Dec(rd[t].ptr)
         /\ RdIdle(t)
         /\ UNCHANGED <<storage, slots, control, active_addr, space_offer,
                        handover, generation, offset, wr, held, calls>>
BY DEF DropDec, Types, LoadFrames, NoLoad, OnlyRd, RdIdle, RdTo

(* A load begins. *)
LEMMA LoadEffect ==
  ASSUME Types, NEW t \in Threads, NEW s \in Storages, NEW op \in {"load",
         "load_full"}, Load(t, s, op)
  PROVE  /\ Call(t, op, s)
         /\ storage[s] # Dropped
         /\ LoadBegins(t, s, op = "load_full")
         /\ UNCHANGED <<storage, cnt, slots, control, active_addr, space_offer,
                        handover, generation, offset, wr, held>>
BY DEF Load, Types, LoadFrames, OnlyRd, LoadBegins, RdTo, StartLoad, NewLoad,
   NoLoad

(* A guard is turned into an Arc. *)
LEMMA IntoInnerEffect ==
  ASSUME Types, NEW t \in Threads, NEW h \in Handles, IntoInner(t, h)
  PROVE  /\ Call(t, "into_inner", NoStorage)
         /\ h.debt # NoDebt
         /\ Take(h)
         /\ RdTo(t, "inc", NoStorage, h.ptr, h.debt, 1, Null, TRUE)
         /\ UNCHANGED <<storage, cnt, slots, control, active_addr, space_offer,
                        handover, generation, offset, wr, window>>
BY DEF IntoInner, Types, LoadFrames, NoLoad, OnlyRd, RdTo

(* A guard or an Arc is dropped. *)
LEMMA DropEffect ==
  ASSUME Types, NEW t \in Threads, NEW h \in Handles, Drop(t, h)
  PROVE  /\ Take(h)
         /\ \/ /\ h.debt = NoDebt
               /\ Dec(h.ptr)
               /\ slots' = slots
               /\ rd' = rd
            \/ /\ h.debt # NoDebt
               /\ Paid(h.debt, h.ptr)
               /\ UNCHANGED <<cnt, window>>
               /\ rd' = rd
            \/ /\ h.debt # NoDebt
               /\ PaidBefore(h.debt, h.ptr)
               /\ UNCHANGED <<cnt, window>>
               /\ RdMove(t, "drop_dec", h.ptr, rd[t].debt)
         /\ UNCHANGED <<storage, control, active_addr, space_offer, handover,
                        generation, offset, wr, calls>>
BY DEF Drop, Types, LoadFrames, OnlyRd, RdMove, RdTo

(* A write begins with the exchange. *)
LEMMA SwapEffect ==
  ASSUME Types, NEW t \in Threads, NEW s \in Storages, NEW op \in {"swap",
         "store"}, Swap(t, s, op)
  PROVE  /\ Call(t, op, s)
         /\ storage[s] # Dropped
         /\ \E v \in Pool[s] : NewValue(s, v) /\ Publish(s, v)
         /\ WrBegins(t, "pre_pay", op, s, Null, Null, storage[s])
         /\ UNCHANGED <<slots, control, active_addr, space_offer, handover,
                        generation, offset, rd>>
BY DEF Swap, Types, WriteFrames, NoWrite, OnlyWr, WrBegins, WrTo

(* A storage ends. *)
LEMMA EndStorageEffect ==
  ASSUME Types, NEW t \in Threads, NEW s \in Storages,
         NEW op \in {"drop_storage", "unwrap_storage"}, EndStorage(t, s, op)
  PROVE  /\ Call(t, op, s)
         /\ storage[s] # Dropped
         /\ \A u \in Threads : rd[u].src # s /\ wr[u].dst # s
         /\ storage' = [storage EXCEPT ![s] = Dropped]
         /\ WrBegins(t, "pre_pay", op, s, Null, Null, storage[s])
         /\ UNCHANGED <<cnt, slots, control, active_addr, space_offer,
                        handover, generation, offset, rd, held, window>>
BY DEF EndStorage, Types, WriteFrames, NoWrite, OnlyWr, WrBegins, WrTo

(* compare_and_swap begins. *)
LEMMA CompareAndSwapEffect ==
  ASSUME Types, NEW t \in Threads, NEW s \in Storages, NEW p \in Pool[s],
         CompareAndSwap(t, s, p)
  PROVE  /\ Call(t, "compare_and_swap", s)
         /\ storage[s] # Dropped
         /\ LoadBegins(t, s, FALSE)
         /\ \E v \in Pool[s] :
              /\ NewValue(s, v)
              /\ WrBegins(t, "cas_load", "compare_and_swap", s, v, p, Null)
         /\ UNCHANGED <<storage, slots, control, active_addr, space_offer,
                        handover, generation, offset>>
BY DEF CompareAndSwap, Types, LoadFrames, WriteFrames, NoWrite, OnlyRd, OnlyWr,
   LoadBegins, RdTo, StartLoad, NewLoad, NoLoad, WrBegins, WrTo

(* The load of compare_and_swap has returned. *)
LEMMA CasLoadedEffect ==
  ASSUME Types, NEW t \in Threads, CasLoaded(t)
  PROVE  /\ wr[t].pc = "cas_load"
         /\ rd[t].pc = "return"
         /\ window' = [window EXCEPT ![t] = {}]
         /\ RdIdle(t)
         /\ \/ /\ rd[t].ptr # wr[t].current
               /\ Give([ptr |-> rd[t].ptr, debt |-> rd[t].debt])
               /\ WrGo(t, "drop_new")
            \/ /\ rd[t].ptr = wr[t].current
               /\ held' = held
               /\ WrCas(t, "cas", rd[t].ptr, rd[t].debt)
         /\ UNCHANGED <<storage, cnt, slots, control, active_addr, space_offer,
                        handover, generation, offset, calls>>
BY DEF CasLoaded, Types, LoadFrames, WriteFrames, Returning, NoLoad, OnlyRd,
   OnlyWr, RdIdle, RdTo, WrCas, WrTo, WrGo

(* new is dropped. *)
LEMMA DropNewEffect ==
  ASSUME Types, NEW t \in Threads, DropNew(t)
  PROVE  /\ wr[t].pc = "drop_new"
         /\ Dec(wr[t].new)
         /\ WrIdle(t)
         /\ UNCHANGED <<storage, slots, control, active_addr, space_offer,
                        handover, generation, offset, rd, held, calls>>
BY DEF DropNew, Types, WriteFrames, NoWrite, OnlyWr, WrIdle, WrBegins, WrTo

(* The exchange succeeds. *)
LEMMA CasExchangeEffect ==
  ASSUME Types, NEW t \in Threads, CasExchange(t)
  PROVE  /\ wr[t].pc = "cas"
         /\ storage[wr[t].dst] = wr[t].current
         /\ Publish(wr[t].dst, wr[t].new)
         /\ WrTo(t, "pre_pay", wr[t].op, wr[t].dst, Null, wr[t].current,
                 wr[t].old, wr[t].odebt, wr[t].node, wr[t].k, wr[t].observed, wr[t].repl, wr[t].their)
         /\ UNCHANGED <<cnt, slots, control, active_addr, space_offer,
                        handover, generation, offset, rd, held, calls>>
BY DEF CasExchange, Types, WriteFrames, OnlyWr, WrTo

(* The exchange fails. *)
LEMMA CasFailedEffect ==
  ASSUME Types, NEW t \in Threads, CasFailed(t)
  PROVE  /\ wr[t].pc = "cas"
         /\ calls' \in [Threads -> Nat]
         /\ \/ /\ wr[t].odebt = NoDebt
               /\ WrGo(t, "cas_dec")
            \/ /\ wr[t].odebt # NoDebt
               /\ WrGo(t, "cas_pay")
         /\ UNCHANGED <<storage, cnt, slots, control, active_addr, space_offer,
                        handover, generation, offset, rd, held, window>>
<1>1. wr' = [wr EXCEPT ![t].pc =
              IF wr[t].odebt = NoDebt THEN "cas_dec" ELSE "cas_pay"]
  BY DEF CasFailed
<1>2. \A p : wr' = [wr EXCEPT ![t].pc = p] => WrGo(t, p)
  BY DEF Types, WriteFrames, WrGo, WrCas, WrTo, OnlyWr
<1>3. calls' \in [Threads -> Nat]
  BY DEF CasFailed, Types
<1> QED BY <1>1, <1>2, <1>3 DEF CasFailed

(* The old guard returns its debt. *)
LEMMA CasPayEffect ==
  ASSUME Types, NEW t \in Threads, CasPay(t)
  PROVE  /\ wr[t].pc = "cas_pay"
         /\ \/ /\ Paid(wr[t].odebt, wr[t].old)
               /\ WrCas(t, "cas_retry", wr[t].old, NoDebt)
            \/ /\ PaidBefore(wr[t].odebt, wr[t].old)
               /\ WrCas(t, "cas_dec", wr[t].old, NoDebt)
         /\ UNCHANGED <<storage, cnt, control, active_addr, space_offer,
                        handover, generation, offset, rd, held, calls, window>>
BY DEF CasPay, Types, WriteFrames, OnlyWr, WrCas, WrTo

(* The old guard releases its reference. *)
LEMMA CasDecEffect ==
  ASSUME Types, NEW t \in Threads, CasDec(t)
  PROVE  /\ wr[t].pc = "cas_dec"
         /\ Dec(wr[t].old)
         /\ WrGo(t, "cas_retry")
         /\ UNCHANGED <<storage, slots, control, active_addr, space_offer,
                        handover, generation, offset, rd, held, calls>>
BY DEF CasDec, Types, WriteFrames, OnlyWr, WrGo, WrCas, WrTo

(* The loop of compare_and_swap turns. *)
LEMMA CasRetryEffect ==
  ASSUME Types, NEW t \in Threads, CasRetry(t)
  PROVE  /\ wr[t].pc = "cas_retry"
         /\ LoadBegins(t, wr[t].dst, FALSE)
         /\ WrCas(t, "cas_load", Null, wr[t].odebt)
         /\ UNCHANGED <<storage, cnt, slots, control, active_addr, space_offer,
                        handover, generation, offset, held, calls>>
BY DEF CasRetry, Types, LoadFrames, WriteFrames, OnlyRd, OnlyWr, LoadBegins,
   RdTo, StartLoad, NewLoad, NoLoad, WrCas, WrTo

(* One reference ahead. *)
LEMMA PrePayEffect ==
  ASSUME Types, NEW t \in Threads, PrePay(t)
  PROVE  /\ wr[t].pc = "pre_pay"
         /\ Inc(wr[t].old)
         /\ WrSlot(t, "help", N, wr[t].k)
         /\ UNCHANGED <<storage, slots, control, active_addr, space_offer,
                        handover, generation, offset, rd, held, calls, window>>
BY DEF PrePay, Types, WriteFrames, OnlyWr, WrSlot, WrTo

(* The control word is read. *)
LEMMA HelpEffect ==
  ASSUME Types, NEW t \in Threads, Help(t)
  PROVE  /\ wr[t].pc = "help"
         /\ \/ /\ IsGen(control[wr[t].node])
               /\ WrHelp(t, "help_addr", control[wr[t].node], wr[t].repl, wr[t].their)
            \/ /\ ~IsGen(control[wr[t].node])
               /\ WrHelped(t)
         /\ UNCHANGED <<storage, cnt, slots, control, active_addr, space_offer,
                        handover, generation, offset, rd, held, calls, window>>
BY DEF Help, Types, WriteFrames, HelpWith, HelpDone, OnlyWr, WrHelp, WrTo,
   WrHelped

(* The address is compared. *)
LEMMA HelpCheckAddrEffect ==
  ASSUME Types, NEW t \in Threads, HelpCheckAddr(t)
  PROVE  /\ wr[t].pc = "help_addr"
         /\ \/ /\ active_addr[wr[t].node] = wr[t].dst
               /\ LoadBegins(t, wr[t].dst, TRUE)
               /\ WrGo(t, "replacement")
            \/ /\ active_addr[wr[t].node] # wr[t].dst
               /\ UNCHANGED <<rd, window>>
               /\ WrGo(t, "help_recheck")
         /\ UNCHANGED <<storage, cnt, slots, control, active_addr, space_offer,
                        handover, generation, offset, held, calls>>
<1>1. StartLoad(t, wr[t].dst, TRUE) => LoadBegins(t, wr[t].dst, TRUE)
  BY DEF Types, LoadFrames, StartLoad, NewLoad, NoLoad, LoadBegins, RdTo, OnlyRd
<1>2. /\ wr' = [wr EXCEPT ![t].pc = "replacement"] => WrGo(t, "replacement")
      /\ wr' = [wr EXCEPT ![t].pc = "help_recheck"] => WrGo(t, "help_recheck")
  BY DEF Types, WriteFrames, WrGo, WrCas, WrTo, OnlyWr
<1> QED BY <1>1, <1>2 DEF HelpCheckAddr

(* The control word is read again. *)
LEMMA HelpRecheckEffect ==
  ASSUME Types, NEW t \in Threads, HelpRecheck(t)
  PROVE  /\ wr[t].pc = "help_recheck"
         /\ \/ /\ IsGen(control[wr[t].node])
               /\ WrHelp(t, "help_addr", control[wr[t].node], wr[t].repl, wr[t].their)
            \/ /\ WrHelped(t)
         /\ UNCHANGED <<storage, cnt, slots, control, active_addr, space_offer,
                        handover, generation, offset, rd, held, calls, window>>
BY DEF HelpRecheck, Types, WriteFrames, HelpWith, HelpDone, OnlyWr, WrHelp,
   WrTo, WrHelped

(* The replacement is loaded. *)
LEMMA HelpReplacementEffect ==
  ASSUME Types, NEW t \in Threads, HelpReplacement(t)
  PROVE  /\ wr[t].pc = "replacement"
         /\ rd[t].pc = "return"
         /\ ~(rd[t].full /\ rd[t].debt # NoDebt)
         /\ window' = [window EXCEPT ![t] = {}]
         /\ RdIdle(t)
         /\ WrHelp(t, "their_space", wr[t].observed, rd[t].ptr, wr[t].their)
         /\ UNCHANGED <<storage, cnt, slots, control, active_addr, space_offer,
                        handover, generation, offset, held, calls>>
BY DEF HelpReplacement, Types, LoadFrames, WriteFrames, Returning, NoLoad,
   OnlyRd, OnlyWr, RdIdle, RdTo, WrHelp, WrTo

(* The reader's envelope is read. *)
LEMMA HelpTheirSpaceEffect ==
  ASSUME Types, NEW t \in Threads, HelpTheirSpace(t)
  PROVE  /\ wr[t].pc = "their_space"
         /\ WrHelp(t, "fill", wr[t].observed, wr[t].repl, space_offer[wr[t].node])
         /\ UNCHANGED <<storage, cnt, slots, control, active_addr, space_offer,
                        handover, generation, offset, rd, held, calls, window>>
BY DEF HelpTheirSpace, Types, WriteFrames, OnlyWr, WrHelp, WrTo

(* The envelope is filled. *)
LEMMA HelpFillEffect ==
  ASSUME Types, NEW t \in Threads, HelpFill(t)
  PROVE  /\ wr[t].pc = "fill"
         /\ handover' = [handover EXCEPT ![space_offer[t]] = wr[t].repl]
         /\ WrGo(t, "help_cas")
         /\ UNCHANGED <<storage, cnt, slots, control, active_addr, space_offer,
                        generation, offset, rd, held, calls, window>>
BY DEF HelpFill, Types, WriteFrames, OnlyWr, WrGo, WrCas, WrTo

(* The hand-over, if the control word has not changed. *)
LEMMA HelpCasEffect ==
  ASSUME Types, NEW t \in Threads, HelpCas(t)
  PROVE  /\ wr[t].pc = "help_cas"
         /\ \/ /\ control[wr[t].node] = wr[t].observed
               /\ control' = [control EXCEPT ![wr[t].node] = Replacement(space_offer[t])]
               /\ WrGo(t, "switch")
            \/ /\ control[wr[t].node] # wr[t].observed
               /\ control' = control
               /\ WrHelp(t, "help_drop", control[wr[t].node], wr[t].repl, 1)
         /\ UNCHANGED <<storage, cnt, slots, active_addr, space_offer,
                        handover, generation, offset, rd, held, calls, window>>
BY DEF HelpCas, Types, WriteFrames, OnlyWr, WrGo, WrCas, WrTo, WrHelp

(* The reader's envelope is the writer's. *)
LEMMA HelpSwitchEffect ==
  ASSUME Types, NEW t \in Threads, HelpSwitch(t)
  PROVE  /\ wr[t].pc = "switch"
         /\ space_offer' = [space_offer EXCEPT ![t] = wr[t].their]
         /\ WrHelped(t)
         /\ UNCHANGED <<storage, cnt, slots, control, active_addr, handover,
                        generation, offset, rd, held, calls, window>>
BY DEF HelpSwitch, Types, WriteFrames, HelpDone, OnlyWr, WrHelped, WrTo

(* The replacement is dropped. *)
LEMMA HelpDropEffect ==
  ASSUME Types, NEW t \in Threads, HelpDrop(t)
  PROVE  /\ wr[t].pc = "help_drop"
         /\ Dec(wr[t].repl)
         /\ \/ /\ IsGen(wr[t].observed)
               /\ WrHelp(t, "help_addr", wr[t].observed, Null, wr[t].their)
            \/ /\ ~IsGen(wr[t].observed)
               /\ WrHelped(t)
         /\ UNCHANGED <<storage, slots, control, active_addr, space_offer,
                        handover, generation, offset, rd, held, calls>>
BY DEF HelpDrop, Types, WriteFrames, HelpWith, HelpDone, OnlyWr, WrHelp, WrTo,
   WrHelped

(* The next slot, node or the end of the list. *)
LEMMA SlotDoneLemma ==
  ASSUME Types, NEW t \in Threads, wr' = [wr EXCEPT ![t] = NextSlot(@)]
  PROVE  SlotDone(t)
<1>1. wr[t].k \in 1..HELPING /\ wr[t].node \in Threads /\ HELPING \in Nat
  BY DEF Types, WriteFrames, HELPING
<1>2. CASE wr[t].k < HELPING
  BY <1>2 DEF Types, WriteFrames, NextSlot, SlotDone, WrSlot, WrTo, OnlyWr
<1>3. CASE wr[t].k = HELPING /\ wr[t].node > 1
  BY <1>1, <1>3 DEF Types, WriteFrames, NextSlot, SlotDone, WrSlot, WrTo, OnlyWr
<1>4. CASE wr[t].k = HELPING /\ wr[t].node = 1
  BY <1>1, <1>4 DEF Types, WriteFrames, NextSlot, SlotDone, WrSlot, WrTo, OnlyWr
<1> QED BY <1>1, <1>2, <1>3, <1>4 DEF Threads

(* A debt is paid, or the next slot is looked at. *)
LEMMA PaySlotEffect ==
  ASSUME Types, NEW t \in Threads, PaySlot(t)
  PROVE  /\ wr[t].pc = "pay"
         /\ \/ /\ Paid(<<wr[t].node, wr[t].k>>, wr[t].old)
               /\ WrGo(t, "pay_inc")
            \/ /\ PaidBefore(<<wr[t].node, wr[t].k>>, wr[t].old)
               /\ SlotDone(t)
         /\ UNCHANGED <<storage, cnt, control, active_addr, space_offer,
                        handover, generation, offset, rd, held, calls, window>>
<1>1. wr' = [wr EXCEPT ![t] = NextSlot(@)] => SlotDone(t)
  BY SlotDoneLemma
<1>2. wr' = [wr EXCEPT ![t].pc = "pay_inc"] => WrGo(t, "pay_inc")
  BY DEF Types, WriteFrames, WrGo, WrCas, WrTo, OnlyWr
<1> QED BY <1>1, <1>2 DEF PaySlot

(* A reference for the next debt. *)
LEMMA PayIncEffect ==
  ASSUME Types, NEW t \in Threads, PayInc(t)
  PROVE  /\ wr[t].pc = "pay_inc"
         /\ Inc(wr[t].old)
         /\ SlotDone(t)
         /\ UNCHANGED <<storage, slots, control, active_addr, space_offer,
                        handover, generation, offset, rd, held, calls, window>>
BY SlotDoneLemma DEF PayInc

(* val is released. *)
LEMMA ReleaseValEffect ==
  ASSUME Types, NEW t \in Threads, ReleaseVal(t)
  PROVE  /\ wr[t].pc = "release"
         /\ Dec(wr[t].old)
         /\ \/ /\ wr[t].op \in {"swap", "unwrap_storage"}
               /\ Give(Owned(wr[t].old))
               /\ WrIdle(t)
            \/ /\ wr[t].op \in {"store", "drop_storage", "compare_and_swap"}
               /\ held' = held
               /\ WrGo(t, "drop_old")
         /\ UNCHANGED <<storage, slots, control, active_addr, space_offer,
                        handover, generation, offset, rd, calls>>
BY DEF ReleaseVal, Types, WriteFrames, NoWrite, OnlyWr, WrGo, WrCas, WrTo,
   WrIdle, WrBegins

(* The reference of the storage is released. *)
LEMMA DropOldEffect ==
  ASSUME Types, NEW t \in Threads, DropOld(t)
  PROVE  /\ wr[t].pc = "drop_old"
         /\ Dec(wr[t].old)
         /\ WrIdle(t)
         /\ \/ /\ wr[t].op # "compare_and_swap"
               /\ held' = held
            \/ /\ wr[t].op = "compare_and_swap"
               /\ Give([ptr |-> wr[t].old, debt |-> wr[t].odebt])
         /\ UNCHANGED <<storage, slots, control, active_addr, space_offer,
                        handover, generation, offset, rd, calls>>
BY DEF DropOld, Types, WriteFrames, NoWrite, OnlyWr, WrIdle, WrBegins, WrTo

(* get_debt looks at one fast slot: the types stay. *)
LEMMA ScanTypes ==
  ASSUME Control, NEW t \in Threads, Scan(t)
  PROVE  Types'
<1> DEFINE k == ((rd[t].i + offset[t]) % DEBT_SLOT_CNT) + 1
<1>1. k \in 1..DEBT_SLOT_CNT /\ k \in 0..DEBT_SLOT_CNT
  <2>1. rd[t].i \in Nat /\ offset[t] \in Nat /\ rd[t].i + offset[t] \in Nat
    BY FrameTypes DEF Control, Types
  <2> QED BY <2>1, SlotCountAssumption
<1>2. <<t, k>> \in SlotIds \cup {NoDebt}
  BY <1>1, Slots DEF FastSlots
<1> HIDE DEF k
<1>3. /\ "confirm" \in RdPc
      /\ "get_debt" \in RdPc
  BY DEF RdPc
<1>4. /\ rd \in [Threads -> LoadFrames] /\ rd[t] \in LoadFrames
      /\ rd[t].i \in 0..DEBT_SLOT_CNT /\ 0 \in 0..DEBT_SLOT_CNT /\ Null \in Ptrs
  BY FrameTypes, Constants DEF Control, Types
<1>5. [rd EXCEPT ![t].pc = "confirm", ![t].debt = <<t, k>>, ![t].i = 0]
        \in [Threads -> LoadFrames]
  BY <1>2, <1>3, <1>4, LoadFields
<1>6. rd[t].i + 1 < DEBT_SLOT_CNT => rd[t].i + 1 \in 0..DEBT_SLOT_CNT
  BY <1>4, SlotCountAssumption
<1>7. rd[t].i + 1 < DEBT_SLOT_CNT =>
        [rd EXCEPT ![t].i = @ + 1] \in [Threads -> LoadFrames]
  BY <1>4, <1>6, LoadFields
<1>8. [rd EXCEPT ![t].pc = "get_debt", ![t].i = 0, ![t].ptr = Null]
        \in [Threads -> LoadFrames]
  BY <1>3, <1>4, LoadFields
<1>9. rd' \in [Threads -> LoadFrames]
      /\ offset' \in [Threads -> 0..DEBT_SLOT_CNT]
      /\ slots' \in [SlotIds -> Ptrs \cup {NONE}]
  <2>1. CASE /\ slots' = [slots EXCEPT ![<<t, k>>] = rd[t].ptr]
             /\ offset' = [offset EXCEPT ![t] = k]
             /\ rd' = [rd EXCEPT ![t].pc = "confirm", ![t].debt = <<t, k>>, ![t].i = 0]
    BY <1>1, <1>5, <2>1, FrameTypes DEF Control, Types
  <2>2. CASE /\ rd[t].i + 1 < DEBT_SLOT_CNT
             /\ rd' = [rd EXCEPT ![t].i = @ + 1]
             /\ UNCHANGED <<slots, offset>>
    BY <1>7, <2>2 DEF Control, Types
  <2>3. CASE /\ rd' = [rd EXCEPT ![t].pc = "get_debt", ![t].i = 0, ![t].ptr = Null]
             /\ UNCHANGED <<slots, offset>>
    BY <1>8, <2>3 DEF Control, Types
  <2> QED BY <2>1, <2>2, <2>3 DEF Scan, k
<1> QED BY <1>9, ScanEffect DEF Control, Types

(* The second read of the fast path: the types stay. *)
LEMMA ConfirmFastTypes ==
  ASSUME Control, NEW t \in Threads, ConfirmFast(t)
  PROVE  Types'
<1>1. Types /\ rd \in [Threads -> LoadFrames] /\ wr \in [Threads -> WriteFrames]
  BY DEF Control, Types
<1>2. /\ "give_back" \in RdPc
      /\ "return" \in RdPc
  BY DEF RdPc, WrPc
<1>3. /\ (IF storage[rd[t].src] = rd[t].ptr THEN "return" ELSE "give_back") \in RdPc
  BY <1>2, FrameTypes, Constants, Slots DEF Control, Types
<1>4. [rd EXCEPT ![t].pc = IF storage[rd[t].src] = rd[t].ptr THEN "return" ELSE "give_back"]
        \in [Threads -> LoadFrames]
  BY <1>1, <1>2, <1>3, LoadFields
<1>5. rd' \in [Threads -> LoadFrames]
  BY <1>1, <1>4 DEF ConfirmFast
<1> QED BY <1>1, <1>5, ConfirmFastEffect DEF Types

(* The fast path pays back a debt that came too late: the types stay. *)
LEMMA GiveBackTypes ==
  ASSUME Control, NEW t \in Threads, GiveBack(t)
  PROVE  Types'
<1>1. Types /\ rd \in [Threads -> LoadFrames] /\ wr \in [Threads -> WriteFrames]
  BY DEF Control, Types
<1>2. /\ "get_debt" \in RdPc
      /\ "return" \in RdPc
  BY DEF RdPc, WrPc
<1>3. slots' \in [SlotIds -> Ptrs \cup {NONE}]
  BY <1>1, PaidTypes, GiveBackEffect DEF Types
<1>4. /\ Null \in Ptrs
      /\ NoDebt \in SlotIds \cup {NoDebt}
  BY <1>2, FrameTypes, Constants, Slots DEF Control, Types
<1>5. [rd EXCEPT ![t].pc = "get_debt", ![t].ptr = Null, ![t].debt = NoDebt]
        \in [Threads -> LoadFrames]
  BY <1>1, <1>2, <1>4, LoadFields
<1>6. /\ NoDebt \in SlotIds \cup {NoDebt}
  BY <1>2, FrameTypes, Constants, Slots DEF Control, Types
<1>7. [rd EXCEPT ![t].pc = "return", ![t].debt = NoDebt]
        \in [Threads -> LoadFrames]
  BY <1>1, <1>2, <1>6, LoadFields
<1>8. rd' \in [Threads -> LoadFrames]
  BY <1>1, <1>5, <1>7 DEF GiveBack
<1> QED BY <1>1, <1>3, <1>8, GiveBackEffect DEF Types

(* A load without a fast slot takes the helping slot: the types stay. *)
LEMMA GetDebtTypes ==
  ASSUME Control, NEW t \in Threads, GetDebt(t)
  PROVE  Types'
<1>1. Types /\ rd \in [Threads -> LoadFrames] /\ wr \in [Threads -> WriteFrames]
  BY DEF Control, Types
<1>2. /\ "control" \in RdPc
  BY DEF RdPc, WrPc
<1>3. active_addr' \in [Threads -> Storages \cup {NoStorage}]
  BY <1>1, Constants, FrameTypes, GetDebtEffect DEF Types
<1>4. generation' \in [Threads -> 0..(GenLimit - 1)]
  <2>1. /\ control[t] = IDLE /\ generation \in [Threads -> 0..(GenLimit - 1)]
        /\ generation' = [generation EXCEPT ![t] = NextGeneration(t)]
    BY <1>1, Own, GetDebtEffect DEF FollowOk, Announced, Types
  <2>2. NextGeneration(t) \in 0..(GenLimit - 1)
    BY <1>1, <2>1, NextGenerationTypes
  <2> QED BY <2>1, <2>2
<1>5. [rd EXCEPT ![t].pc = "control"]
        \in [Threads -> LoadFrames]
  BY <1>1, <1>2, LoadFields
<1>6. rd' \in [Threads -> LoadFrames]
  BY <1>1, <1>5 DEF GetDebt
<1> QED BY <1>1, <1>3, <1>4, <1>6, GetDebtEffect DEF Types

(* get_debt publishes its generation: the types stay. *)
LEMMA GetDebtControlTypes ==
  ASSUME Control, NEW t \in Threads, GetDebtControl(t)
  PROVE  Types'
<1>1. Types /\ rd \in [Threads -> LoadFrames] /\ wr \in [Threads -> WriteFrames]
  BY DEF Control, Types
<1>2. /\ "candidate" \in RdPc
  BY DEF RdPc, WrPc
<1>3. control' \in [Threads -> ControlWords]
  BY <1>1, Constants, FrameTypes, GetDebtControlEffect DEF Types
<1>4. [rd EXCEPT ![t].pc = "candidate"]
        \in [Threads -> LoadFrames]
  BY <1>1, <1>2, LoadFields
<1>5. rd' \in [Threads -> LoadFrames]
  BY <1>1, <1>4 DEF GetDebtControl
<1> QED BY <1>1, <1>3, <1>5, GetDebtControlEffect DEF Types

(* The fallback reads its candidate: the types stay. *)
LEMMA CandidateTypes ==
  ASSUME Control, NEW t \in Threads, Candidate(t)
  PROVE  Types'
<1>1. Types /\ rd \in [Threads -> LoadFrames] /\ wr \in [Threads -> WriteFrames]
  BY DEF Control, Types
<1>2. /\ "panicked" \in RdPc
      /\ "slot" \in RdPc
  BY DEF RdPc, WrPc
<1>3. rd[t].src \in Storages /\ storage[rd[t].src] # Dropped
  BY CandidateEffect, Own, NullAssumption
  DEF LoadOk, LiveOk, LoadingPc, Announced, NoStorage
<1>4. storage[rd[t].src] \in Ptrs
  BY <1>3 DEF Control, Types
<1>5. /\ storage[rd[t].src] \in Ptrs
      /\ (IF generation[t] = 0 THEN "panicked" ELSE "slot") \in RdPc
  BY <1>2, <1>4, FrameTypes, Constants, Slots DEF Control, Types, LoadShape,
     Live
<1>6. [rd EXCEPT ![t].ptr = storage[rd[t].src], ![t].pc = IF generation[t] = 0 THEN "panicked" ELSE "slot"]
        \in [Threads -> LoadFrames]
  BY <1>1, <1>2, <1>4, <1>5, LoadFields
<1>7. rd' \in [Threads -> LoadFrames]
  BY <1>1, <1>6 DEF Candidate
<1> QED BY <1>1, <1>7, CandidateEffect DEF Types

(* confirm fills the helping slot: the types stay. *)
LEMMA ConfirmSlotTypes ==
  ASSUME Control, NEW t \in Threads, ConfirmSlot(t)
  PROVE  Types'
<1>1. Types /\ rd \in [Threads -> LoadFrames] /\ wr \in [Threads -> WriteFrames]
  BY DEF Control, Types
<1>2. /\ "confirm_control" \in RdPc
  BY DEF RdPc, WrPc
<1>3. slots' \in [SlotIds -> Ptrs \cup {NONE}]
  BY <1>1, FrameTypes, ConfirmSlotEffect DEF Types
<1>4. /\ <<t, HELPING>> \in SlotIds \cup {NoDebt}
  BY <1>2, FrameTypes, Constants, Slots DEF Control, Types
<1>5. [rd EXCEPT ![t].pc = "confirm_control", ![t].debt = <<t, HELPING>>]
        \in [Threads -> LoadFrames]
  BY <1>1, <1>2, <1>4, LoadFields
<1>6. rd' \in [Threads -> LoadFrames]
  BY <1>1, <1>5 DEF ConfirmSlot
<1> QED BY <1>1, <1>3, <1>6, ConfirmSlotEffect DEF Types

(* confirm swaps its control word out: the types stay. *)
LEMMA ConfirmControlTypes ==
  ASSUME Control, NEW t \in Threads, ConfirmControl(t)
  PROVE  Types'
<1>1. "inc" \in RdPc /\ "take" \in RdPc
  BY DEF RdPc
<1>2. rd \in [Threads -> LoadFrames] /\ rd[t] \in LoadFrames
  BY DEF Control, Types
<1>3. [rd[t] EXCEPT !.pc = "inc"] \in LoadFrames
  BY <1>1, <1>2, LoadFrame
<1>4. control[t] # Gen(generation[t]) => control[t][2] \in Threads
  <2>1. \/ control[t] = Gen(generation[t])
        \/ \E e \in Threads : control[t] = Replacement(e)
    BY ConfirmControlEffect, Own DEF FollowOk, Announced
  <2> QED BY <2>1, Words
<1>5. control[t] # Gen(generation[t]) =>
        [rd[t] EXCEPT !.pc = "take", !.env = control[t][2]] \in LoadFrames
  BY <1>1, <1>2, <1>4, LoadFrame
<1>6. rd' \in [Threads -> LoadFrames]
  BY <1>2, <1>3, <1>5, LoadSet DEF ConfirmControl
<1>7. control' \in [Threads -> ControlWords]
  BY ConfirmControlEffect, Constants DEF Control, Types
<1> QED BY <1>6, <1>7, ConfirmControlEffect DEF Control, Types

(* confirm takes the value of its helper: the types stay. *)
LEMMA TakeHandoverTypes ==
  ASSUME Control, NEW t \in Threads, TakeHandover(t)
  PROVE  Types'
<1>1. Types /\ rd \in [Threads -> LoadFrames] /\ wr \in [Threads -> WriteFrames]
  BY DEF Control, Types
<1>2. /\ "unused_pay" \in RdPc
  BY DEF RdPc, WrPc
<1>3. space_offer' \in [Threads -> Threads]
  BY <1>1, Constants, FrameTypes, TakeHandoverEffect DEF Types
<1>4. /\ handover[rd[t].env] \in Ptrs
      /\ 1 \in Threads
  BY <1>2, FrameTypes, Constants, Slots DEF Control, Types
<1>5. [rd EXCEPT ![t].pc = "unused_pay", ![t].got = handover[rd[t].env], ![t].env = 1]
        \in [Threads -> LoadFrames]
  BY <1>1, <1>2, <1>4, LoadFields
<1>6. rd' \in [Threads -> LoadFrames]
  BY <1>1, <1>5 DEF TakeHandover
<1> QED BY <1>1, <1>3, <1>6, TakeHandoverEffect DEF Types

(* The helped load pays its unused debt: the types stay. *)
LEMMA UnusedPayTypes ==
  ASSUME Control, NEW t \in Threads, UnusedPay(t)
  PROVE  Types'
<1>1. Types /\ rd \in [Threads -> LoadFrames] /\ wr \in [Threads -> WriteFrames]
  BY DEF Control, Types
<1>2. /\ "return" \in RdPc
      /\ "unused_dec" \in RdPc
  BY DEF RdPc, WrPc
<1>3. slots' \in [SlotIds -> Ptrs \cup {NONE}]
  BY <1>1, PaidTypes, UnusedPayEffect DEF Types
<1>4. /\ rd[t].got \in Ptrs
      /\ Null \in Ptrs
      /\ NoDebt \in SlotIds \cup {NoDebt}
  BY <1>2, FrameTypes, Constants, Slots DEF Control, Types
<1>5. [rd EXCEPT ![t].pc = "return", ![t].ptr = rd[t].got, ![t].got = Null, ![t].debt = NoDebt]
        \in [Threads -> LoadFrames]
  BY <1>1, <1>2, <1>4, LoadFields
<1>6. [rd EXCEPT ![t].pc = "unused_dec"]
        \in [Threads -> LoadFrames]
  BY <1>1, <1>2, LoadFields
<1>7. rd' \in [Threads -> LoadFrames]
  BY <1>1, <1>5, <1>6 DEF UnusedPay, Helped
<1> QED BY <1>1, <1>3, <1>7, UnusedPayEffect DEF Types

(* The helped load drops what a writer paid it: the types stay. *)
LEMMA UnusedDecTypes ==
  ASSUME Control, NEW t \in Threads, UnusedDec(t)
  PROVE  Types'
<1>1. Types /\ rd \in [Threads -> LoadFrames] /\ wr \in [Threads -> WriteFrames]
  BY DEF Control, Types
<1>2. /\ "return" \in RdPc
  BY DEF RdPc, WrPc
<1>3. cnt' \in [Objects -> Int]
  BY <1>1, IncTypes, DecTypes, FrameTypes, UnusedDecEffect DEF Types
<1>4. /\ rd[t].got \in Ptrs
      /\ Null \in Ptrs
      /\ NoDebt \in SlotIds \cup {NoDebt}
  BY <1>2, FrameTypes, Constants, Slots DEF Control, Types
<1>5. [rd EXCEPT ![t].pc = "return", ![t].ptr = rd[t].got, ![t].got = Null, ![t].debt = NoDebt]
        \in [Threads -> LoadFrames]
  BY <1>1, <1>2, <1>4, LoadFields
<1>6. rd' \in [Threads -> LoadFrames]
  BY <1>1, <1>5 DEF UnusedDec, Helped
<1>7. window' \in [Threads -> SUBSET Ptrs]
  BY <1>1, DecTypes, FrameTypes, UnusedDecEffect DEF Types
<1> QED BY <1>1, <1>3, <1>6, <1>7, UnusedDecEffect DEF Types

(* into_inner counts the value: the types stay. *)
LEMMA IntoInnerIncTypes ==
  ASSUME Control, NEW t \in Threads, IntoInnerInc(t)
  PROVE  Types'
<1>1. Types /\ rd \in [Threads -> LoadFrames] /\ wr \in [Threads -> WriteFrames]
  BY DEF Control, Types
<1>2. /\ "inner_pay" \in RdPc
  BY DEF RdPc, WrPc
<1>3. cnt' \in [Objects -> Int]
  BY <1>1, IncTypes, DecTypes, FrameTypes, IntoInnerIncEffect DEF Types
<1>4. [rd EXCEPT ![t].pc = "inner_pay"]
        \in [Threads -> LoadFrames]
  BY <1>1, <1>2, LoadFields
<1>5. rd' \in [Threads -> LoadFrames]
  BY <1>1, <1>4 DEF IntoInnerInc
<1> QED BY <1>1, <1>3, <1>5, IntoInnerIncEffect DEF Types

(* into_inner pays its debt: the types stay. *)
LEMMA IntoInnerPayTypes ==
  ASSUME Control, NEW t \in Threads, IntoInnerPay(t)
  PROVE  Types'
<1>1. Types /\ rd \in [Threads -> LoadFrames] /\ wr \in [Threads -> WriteFrames]
  BY DEF Control, Types
<1>2. /\ "inner_dec" \in RdPc
      /\ "return" \in RdPc
  BY DEF RdPc, WrPc
<1>3. slots' \in [SlotIds -> Ptrs \cup {NONE}]
  BY <1>1, PaidTypes, IntoInnerPayEffect DEF Types
<1>4. /\ NoDebt \in SlotIds \cup {NoDebt}
  BY <1>2, FrameTypes, Constants, Slots DEF Control, Types
<1>5. [rd EXCEPT ![t].pc = "return", ![t].debt = NoDebt]
        \in [Threads -> LoadFrames]
  BY <1>1, <1>2, <1>4, LoadFields
<1>6. [rd EXCEPT ![t].pc = "inner_dec"]
        \in [Threads -> LoadFrames]
  BY <1>1, <1>2, LoadFields
<1>7. rd' \in [Threads -> LoadFrames]
  BY <1>1, <1>5, <1>6 DEF IntoInnerPay
<1> QED BY <1>1, <1>3, <1>7, IntoInnerPayEffect DEF Types

(* into_inner drops the count that a writer gave too: the types stay. *)
LEMMA IntoInnerDecTypes ==
  ASSUME Control, NEW t \in Threads, IntoInnerDec(t)
  PROVE  Types'
<1>1. Types /\ rd \in [Threads -> LoadFrames] /\ wr \in [Threads -> WriteFrames]
  BY DEF Control, Types
<1>2. /\ "return" \in RdPc
  BY DEF RdPc, WrPc
<1>3. cnt' \in [Objects -> Int]
  BY <1>1, IncTypes, DecTypes, FrameTypes, IntoInnerDecEffect DEF Types
<1>4. /\ NoDebt \in SlotIds \cup {NoDebt}
  BY <1>2, FrameTypes, Constants, Slots DEF Control, Types
<1>5. [rd EXCEPT ![t].pc = "return", ![t].debt = NoDebt]
        \in [Threads -> LoadFrames]
  BY <1>1, <1>2, <1>4, LoadFields
<1>6. rd' \in [Threads -> LoadFrames]
  BY <1>1, <1>5 DEF IntoInnerDec
<1>7. window' \in [Threads -> SUBSET Ptrs]
  BY <1>1, DecTypes, FrameTypes, IntoInnerDecEffect DEF Types
<1> QED BY <1>1, <1>3, <1>6, <1>7, IntoInnerDecEffect DEF Types

(* load_full returns: the types stay. *)
LEMMA ReturnFullTypes ==
  ASSUME Control, NEW t \in Threads, ReturnFull(t)
  PROVE  Types'
<1>1. Types /\ rd \in [Threads -> LoadFrames] /\ wr \in [Threads -> WriteFrames]
  BY DEF Control, Types
<1>2. /\ "inc" \in RdPc
  BY DEF RdPc, WrPc
<1>3. [rd EXCEPT ![t].pc = "inc"]
        \in [Threads -> LoadFrames]
  BY <1>1, <1>2, LoadFields
<1>4. rd' \in [Threads -> LoadFrames]
  BY <1>1, <1>3 DEF ReturnFull
<1> QED BY <1>1, <1>4, ReturnFullEffect DEF Types

(* A load returns to its caller: the types stay. *)
LEMMA ReturnToCallerTypes ==
  ASSUME Control, NEW t \in Threads, ReturnToCaller(t)
  PROVE  Types'
<1>1. Types /\ rd \in [Threads -> LoadFrames] /\ wr \in [Threads -> WriteFrames]
  BY DEF Control, Types
<1>2. rd' \in [Threads -> LoadFrames]
  BY <1>1, EmptyFrames, LoadSet DEF ReturnToCaller, Returning
<1>3. held' \in [Handles -> Nat]
  BY <1>1, GiveTypes, Handle, FrameTypes, ReturnToCallerEffect DEF Types
<1>4. window' \in [Threads -> SUBSET Ptrs]
  BY <1>1, ReturnToCallerEffect DEF Types
<1> QED BY <1>1, <1>2, <1>3, <1>4, ReturnToCallerEffect DEF Types

(* A dropped value is released: the types stay. *)
LEMMA DropDecTypes ==
  ASSUME Control, NEW t \in Threads, DropDec(t)
  PROVE  Types'
<1>1. Types /\ rd \in [Threads -> LoadFrames] /\ wr \in [Threads -> WriteFrames]
  BY DEF Control, Types
<1>2. cnt' \in [Objects -> Int]
  BY <1>1, IncTypes, DecTypes, FrameTypes, DropDecEffect DEF Types
<1>3. rd' \in [Threads -> LoadFrames]
  BY <1>1, EmptyFrames, LoadSet DEF DropDec
<1>4. window' \in [Threads -> SUBSET Ptrs]
  BY <1>1, DecTypes, FrameTypes, DropDecEffect DEF Types
<1> QED BY <1>1, <1>2, <1>3, <1>4, DropDecEffect DEF Types

(* A load begins: the types stay. *)
LEMMA LoadTypes ==
  ASSUME Control, NEW t \in Threads, NEW s \in Storages, NEW op \in {"load",
         "load_full"}, Load(t, s, op)
  PROVE  Types'
<1>1. Types /\ rd \in [Threads -> LoadFrames] /\ wr \in [Threads -> WriteFrames]
  BY DEF Control, Types
<1>2. StartLoad(t, s, op = "load_full") => 
        /\ rd' \in [Threads -> LoadFrames]
        /\ window' \in [Threads -> SUBSET Ptrs]
  BY <1>1, BeginTypes DEF Load
<1>3. rd' \in [Threads -> LoadFrames]
  BY <1>1, <1>2 DEF Load
<1>4. calls' \in [Threads -> Nat]
  BY CallTypes, <1>1 DEF Load
<1>5. window' \in [Threads -> SUBSET Ptrs]
  BY <1>1, <1>2 DEF Load, Types
<1> QED BY <1>1, <1>3, <1>4, <1>5, LoadEffect DEF Types

(* A caller makes its guard an owned value: the types stay. *)
LEMMA IntoInnerTypes ==
  ASSUME Control, NEW t \in Threads, NEW h \in Handles, held[h] > 0,
         IntoInner(t, h)
  PROVE  Types'
<1>1. Types /\ rd \in [Threads -> LoadFrames] /\ wr \in [Threads -> WriteFrames]
  BY DEF Control, Types
<1>2. /\ "inc" \in RdPc
  BY DEF RdPc, WrPc
<1>3. h.ptr \in Ptrs /\ h.debt \in SlotIds \cup {NoDebt}
  BY HandleFields
<1>4. [NoLoad EXCEPT !.pc = "inc", !.ptr = h.ptr, !.debt = h.debt, !.full = TRUE]
        \in LoadFrames
  BY <1>2, <1>3, EmptyFrames, LoadFrame
<1>5. rd' \in [Threads -> LoadFrames]
  BY <1>1, <1>4, LoadSet DEF IntoInner
<1>6. held' \in [Handles -> Nat]
  BY <1>1, TakeTypes DEF IntoInner
<1>7. calls' \in [Threads -> Nat]
  BY CallTypes, <1>1 DEF IntoInner
<1> QED BY <1>1, <1>5, <1>6, <1>7, IntoInnerEffect DEF Types

(* A caller drops a guard: the types stay. *)
LEMMA DropTypes ==
  ASSUME Control, NEW t \in Threads, NEW h \in Handles, held[h] > 0, Drop(t, h)
  PROVE  Types'
<1>1. Types /\ rd \in [Threads -> LoadFrames] /\ wr \in [Threads -> WriteFrames]
  BY DEF Control, Types
<1>2. /\ "drop_dec" \in RdPc
  BY DEF RdPc, WrPc
<1>3. cnt' \in [Objects -> Int]
  BY <1>1, IncTypes, DecTypes, FrameTypes, DropEffect, HandleFields DEF Types
<1>4. slots' \in [SlotIds -> Ptrs \cup {NONE}]
  BY <1>1, PaidTypes, DropEffect DEF Types
<1>5. /\ h.ptr \in Ptrs
  BY <1>2, FrameTypes, Constants, Slots, HandleFields DEF Control, Types
<1>6. [rd EXCEPT ![t].pc = "drop_dec", ![t].ptr = h.ptr]
        \in [Threads -> LoadFrames]
  BY <1>1, <1>2, <1>5, LoadFields
<1>7. rd' \in [Threads -> LoadFrames]
  BY <1>1, <1>6 DEF Drop
<1>8. held' \in [Handles -> Nat]
  BY <1>1, TakeTypes DEF Drop
<1>9. window' \in [Threads -> SUBSET Ptrs]
  BY <1>1, DecTypes, FrameTypes, DropEffect, HandleFields DEF Types
<1> QED BY <1>1, <1>3, <1>4, <1>7, <1>8, <1>9, DropEffect DEF Types

(* swap puts a value in: the types stay. *)
LEMMA SwapTypes ==
  ASSUME Control, NEW t \in Threads, NEW s \in Storages, NEW op \in {"swap",
         "store"}, Swap(t, s, op)
  PROVE  Types'
<1>1. Types /\ rd \in [Threads -> LoadFrames] /\ wr \in [Threads -> WriteFrames]
  BY DEF Control, Types
<1>2. /\ "pre_pay" \in WrPc
  BY DEF RdPc, WrPc
<1>3. storage' \in [Storages -> Ptrs \cup {Dropped}]
  BY <1>1, PublishTypes, NewValueTypes DEF Swap
<1>4. cnt' \in [Objects -> Int]
  BY <1>1, NewValueTypes DEF Swap
<1>5. storage[s] \in Ptrs /\ s \in Storages \cup {NoStorage} /\ op \in WriteOps \cup {"none"}
  BY <1>1 DEF Swap, Types, WriteOps
<1>6. [NoWrite EXCEPT !.pc = "pre_pay", !.op = op, !.dst = s, !.old = storage[s]]
        \in WriteFrames
  BY <1>2, <1>5, EmptyFrames, WriteFrame
<1>7. wr' \in [Threads -> WriteFrames]
  BY <1>1, <1>6, WriteSet DEF Swap
<1>8. held' \in [Handles -> Nat]
  BY <1>1, NewValueTypes DEF Swap
<1>9. calls' \in [Threads -> Nat]
  BY CallTypes, <1>1 DEF Swap
<1>10. window' \in [Threads -> SUBSET Ptrs]
  BY <1>1, PublishTypes, NewValueTypes DEF Swap
<1> QED BY <1>1, <1>3, <1>4, <1>7, <1>8, <1>9, <1>10, SwapEffect DEF Types

(* A storage is consumed or dropped: the types stay. *)
LEMMA EndStorageTypes ==
  ASSUME Control, NEW t \in Threads, NEW s \in Storages,
         NEW op \in {"drop_storage", "unwrap_storage"}, EndStorage(t, s, op)
  PROVE  Types'
<1>1. Types /\ rd \in [Threads -> LoadFrames] /\ wr \in [Threads -> WriteFrames]
  BY DEF Control, Types
<1>2. /\ "pre_pay" \in WrPc
  BY DEF RdPc, WrPc
<1>3. storage' \in [Storages -> Ptrs \cup {Dropped}]
  <2>1. storage' = [storage EXCEPT ![s] = Dropped]
    BY <1>1, EndStorageEffect
  <2> QED BY <1>1, <2>1 DEF Types
<1>4. storage[s] \in Ptrs /\ s \in Storages \cup {NoStorage} /\ op \in WriteOps \cup {"none"}
  BY <1>1 DEF EndStorage, Types, WriteOps
<1>5. [NoWrite EXCEPT !.pc = "pre_pay", !.op = op, !.dst = s, !.old = storage[s]]
        \in WriteFrames
  BY <1>2, <1>4, EmptyFrames, WriteFrame
<1>6. wr' \in [Threads -> WriteFrames]
  BY <1>1, <1>5, WriteSet DEF EndStorage
<1>7. calls' \in [Threads -> Nat]
  BY CallTypes, <1>1 DEF EndStorage
<1> QED BY <1>1, <1>3, <1>6, <1>7, EndStorageEffect DEF Types

(* compare_and_swap begins: the types stay. *)
LEMMA CompareAndSwapTypes ==
  ASSUME Control, NEW t \in Threads, NEW s \in Storages, NEW p \in Pool[s],
         CompareAndSwap(t, s, p)
  PROVE  Types'
<1>1. Types /\ rd \in [Threads -> LoadFrames] /\ wr \in [Threads -> WriteFrames]
  BY DEF Control, Types
<1>2. /\ "get_debt" \in RdPc
      /\ "scan" \in RdPc
      /\ "cas_load" \in WrPc
  BY DEF RdPc, WrPc
<1>3. cnt' \in [Objects -> Int]
  BY <1>1, NewValueTypes DEF CompareAndSwap
<1>4. StartLoad(t, s, FALSE) => 
        /\ rd' \in [Threads -> LoadFrames]
        /\ window' \in [Threads -> SUBSET Ptrs]
  BY <1>1, BeginTypes DEF CompareAndSwap
<1>5. rd' \in [Threads -> LoadFrames]
  BY <1>1, <1>4 DEF CompareAndSwap
<1>6. p \in Ptrs /\ s \in Storages \cup {NoStorage} /\ "compare_and_swap" \in WriteOps \cup {"none"}
  BY PoolAssumption DEF WriteOps
<1>7. ASSUME NEW v \in Ptrs
      PROVE  [NoWrite EXCEPT !.pc = "cas_load", !.dst = s, !.op = "compare_and_swap",
                !.new = v, !.current = p] \in WriteFrames
  BY <1>2, <1>6, EmptyFrames, WriteFrame
<1>8. \A v \in Pool[s] : v \in Ptrs
  BY PoolAssumption
<1>9. wr' \in [Threads -> WriteFrames]
  <2>1. PICK v \in Pool[s] : wr' = [wr EXCEPT ![t] = [NoWrite EXCEPT !.pc = "cas_load", !.dst = s,
                                     !.op = "compare_and_swap", !.new = v,
                                     !.current = p]]
    BY Zenon DEF CompareAndSwap
  <2> QED BY <1>1, <1>7, <1>8, <2>1, WriteSet
<1>10. held' \in [Handles -> Nat]
  BY <1>1, NewValueTypes DEF CompareAndSwap
<1>11. calls' \in [Threads -> Nat]
  BY CallTypes, <1>1 DEF CompareAndSwap
<1>12. window' \in [Threads -> SUBSET Ptrs]
  BY <1>1, <1>4 DEF CompareAndSwap, Types
<1> QED BY <1>1, <1>3, <1>5, <1>9, <1>10, <1>11, <1>12,
          CompareAndSwapEffect DEF Types

(* compare_and_swap has loaded: the types stay. *)
LEMMA CasLoadedTypes ==
  ASSUME Control, NEW t \in Threads, CasLoaded(t)
  PROVE  Types'
<1>1. Types /\ rd \in [Threads -> LoadFrames] /\ wr \in [Threads -> WriteFrames]
  BY DEF Control, Types
<1>2. /\ "cas" \in WrPc
      /\ "drop_new" \in WrPc
  BY DEF RdPc, WrPc
<1>3. rd' \in [Threads -> LoadFrames]
  BY <1>1, EmptyFrames, LoadSet DEF CasLoaded, Returning
<1>4. [wr EXCEPT ![t].pc = "drop_new"]
        \in [Threads -> WriteFrames]
  BY <1>1, <1>2, WriteFields
<1>5. /\ rd[t].ptr \in Ptrs
      /\ rd[t].debt \in SlotIds \cup {NoDebt}
  BY <1>2, FrameTypes, Constants, Slots DEF Control, Types
<1>6. [wr EXCEPT ![t].pc = "cas", ![t].old = rd[t].ptr, ![t].odebt = rd[t].debt]
        \in [Threads -> WriteFrames]
  <2> DEFINE f == [wr EXCEPT ![t].pc = "cas", ![t].old = rd[t].ptr]
  <2>1. f \in [Threads -> WriteFrames]
    BY <1>1, <1>2, <1>5, WriteFields
  <2> HIDE DEF f
  <2>2. [f EXCEPT ![t].odebt = rd[t].debt] \in [Threads -> WriteFrames]
    BY <2>1, <1>5, WriteFields
  <2> QED BY <2>2 DEF f
<1>7. wr' \in [Threads -> WriteFrames]
  BY <1>1, <1>4, <1>6 DEF CasLoaded, Returning
<1>8. held' \in [Handles -> Nat]
  BY <1>1, GiveTypes, Handle, FrameTypes, CasLoadedEffect DEF Types
<1>9. window' \in [Threads -> SUBSET Ptrs]
  BY <1>1, CasLoadedEffect DEF Types
<1> QED BY <1>1, <1>3, <1>7, <1>8, <1>9, CasLoadedEffect DEF Types

(* compare_and_swap drops the value it did not put in: the types stay. *)
LEMMA DropNewTypes ==
  ASSUME Control, NEW t \in Threads, DropNew(t)
  PROVE  Types'
<1>1. Types /\ rd \in [Threads -> LoadFrames] /\ wr \in [Threads -> WriteFrames]
  BY DEF Control, Types
<1>2. cnt' \in [Objects -> Int]
  BY <1>1, IncTypes, DecTypes, FrameTypes, DropNewEffect DEF Types
<1>3. wr' \in [Threads -> WriteFrames]
  BY <1>1, EmptyFrames, WriteSet DEF DropNew
<1>4. window' \in [Threads -> SUBSET Ptrs]
  BY <1>1, DecTypes, FrameTypes, DropNewEffect DEF Types
<1> QED BY <1>1, <1>2, <1>3, <1>4, DropNewEffect DEF Types

(* The exchange succeeds: the types stay. *)
LEMMA CasExchangeTypes ==
  ASSUME Control, NEW t \in Threads, CasExchange(t)
  PROVE  Types'
<1>1. Types /\ rd \in [Threads -> LoadFrames] /\ wr \in [Threads -> WriteFrames]
  BY DEF Control, Types
<1>2. /\ "pre_pay" \in WrPc
  BY DEF RdPc, WrPc
<1>3. storage' \in [Storages -> Ptrs \cup {Dropped}]
  BY <1>1, PublishTypes, FrameTypes, CasExchangeEffect, Own DEF WriteOk
<1>4. /\ Null \in Ptrs
  BY <1>2, FrameTypes, Constants, Slots DEF Control, Types
<1>5. [wr EXCEPT ![t].pc = "pre_pay", ![t].new = Null]
        \in [Threads -> WriteFrames]
  BY <1>1, <1>2, <1>4, WriteFields
<1>6. wr' \in [Threads -> WriteFrames]
  BY <1>1, <1>5 DEF CasExchange
<1>7. window' \in [Threads -> SUBSET Ptrs]
  BY <1>1, PublishTypes, FrameTypes, CasExchangeEffect, Own DEF WriteOk
<1> QED BY <1>1, <1>3, <1>6, <1>7, CasExchangeEffect DEF Types

(* The exchange fails: the types stay. *)
LEMMA CasFailedTypes ==
  ASSUME Control, NEW t \in Threads, CasFailed(t)
  PROVE  Types'
<1>1. Types /\ rd \in [Threads -> LoadFrames] /\ wr \in [Threads -> WriteFrames]
  BY DEF Control, Types
<1>2. /\ "cas_dec" \in WrPc
      /\ "cas_pay" \in WrPc
  BY DEF RdPc, WrPc
<1>3. /\ (IF wr[t].odebt = NoDebt THEN "cas_dec" ELSE "cas_pay") \in WrPc
  BY <1>2, FrameTypes, Constants, Slots DEF Control, Types
<1>4. [wr EXCEPT ![t].pc = IF wr[t].odebt = NoDebt THEN "cas_dec" ELSE "cas_pay"]
        \in [Threads -> WriteFrames]
  BY <1>1, <1>2, <1>3, WriteFields
<1>5. wr' \in [Threads -> WriteFrames]
  BY <1>1, <1>4 DEF CasFailed
<1>6. calls' \in [Threads -> Nat]
  BY CasFailedEffect, <1>1
<1> QED BY <1>1, <1>5, <1>6, CasFailedEffect DEF Types

(* The old guard pays its debt: the types stay. *)
LEMMA CasPayTypes ==
  ASSUME Control, NEW t \in Threads, CasPay(t)
  PROVE  Types'
<1>1. Types /\ rd \in [Threads -> LoadFrames] /\ wr \in [Threads -> WriteFrames]
  BY DEF Control, Types
<1>2. /\ "cas_dec" \in WrPc
      /\ "cas_retry" \in WrPc
  BY DEF RdPc, WrPc
<1>3. slots' \in [SlotIds -> Ptrs \cup {NONE}]
  BY <1>1, PaidTypes, CasPayEffect DEF Types
<1>4. /\ NoDebt \in SlotIds \cup {NoDebt}
  BY <1>2, FrameTypes, Constants, Slots DEF Control, Types
<1>5. [wr EXCEPT ![t].pc = "cas_retry", ![t].odebt = NoDebt]
        \in [Threads -> WriteFrames]
  BY <1>1, <1>2, <1>4, WriteFields
<1>6. /\ NoDebt \in SlotIds \cup {NoDebt}
  BY <1>2, FrameTypes, Constants, Slots DEF Control, Types
<1>7. [wr EXCEPT ![t].pc = "cas_dec", ![t].odebt = NoDebt]
        \in [Threads -> WriteFrames]
  BY <1>1, <1>2, <1>6, WriteFields
<1>8. wr' \in [Threads -> WriteFrames]
  BY <1>1, <1>5, <1>7 DEF CasPay
<1> QED BY <1>1, <1>3, <1>8, CasPayEffect DEF Types

(* The old guard drops its count: the types stay. *)
LEMMA CasDecTypes ==
  ASSUME Control, NEW t \in Threads, CasDec(t)
  PROVE  Types'
<1>1. Types /\ rd \in [Threads -> LoadFrames] /\ wr \in [Threads -> WriteFrames]
  BY DEF Control, Types
<1>2. /\ "cas_retry" \in WrPc
  BY DEF RdPc, WrPc
<1>3. cnt' \in [Objects -> Int]
  BY <1>1, IncTypes, DecTypes, FrameTypes, CasDecEffect DEF Types
<1>4. [wr EXCEPT ![t].pc = "cas_retry"]
        \in [Threads -> WriteFrames]
  BY <1>1, <1>2, WriteFields
<1>5. wr' \in [Threads -> WriteFrames]
  BY <1>1, <1>4 DEF CasDec
<1>6. window' \in [Threads -> SUBSET Ptrs]
  BY <1>1, DecTypes, FrameTypes, CasDecEffect DEF Types
<1> QED BY <1>1, <1>3, <1>5, <1>6, CasDecEffect DEF Types

(* compare_and_swap loads again: the types stay. *)
LEMMA CasRetryTypes ==
  ASSUME Control, NEW t \in Threads, CasRetry(t)
  PROVE  Types'
<1>1. Types /\ rd \in [Threads -> LoadFrames] /\ wr \in [Threads -> WriteFrames]
  BY DEF Control, Types
<1>2. /\ "get_debt" \in RdPc
      /\ "scan" \in RdPc
      /\ "cas_load" \in WrPc
  BY DEF RdPc, WrPc
<1>3. wr[t].dst \in Storages
  BY CasRetryEffect, Own DEF WriteOk
<1>4. storage[wr[t].dst] # Dropped
  BY CasRetryEffect, Own DEF WriteOk, LiveOk, CasPc
<1>5. StartLoad(t, wr[t].dst, FALSE) => 
        /\ rd' \in [Threads -> LoadFrames]
        /\ window' \in [Threads -> SUBSET Ptrs]
  BY <1>1, <1>3, <1>4, BeginTypes DEF CasRetry
<1>6. rd' \in [Threads -> LoadFrames]
  BY <1>1, <1>5 DEF CasRetry
<1>7. /\ Null \in Ptrs
  BY <1>2, FrameTypes, Constants, Slots DEF Control, Types
<1>8. [wr EXCEPT ![t].pc = "cas_load", ![t].old = Null]
        \in [Threads -> WriteFrames]
  BY <1>1, <1>2, <1>7, WriteFields
<1>9. wr' \in [Threads -> WriteFrames]
  BY <1>1, <1>8 DEF CasRetry
<1>10. window' \in [Threads -> SUBSET Ptrs]
  BY <1>1, <1>5 DEF CasRetry, Types
<1> QED BY <1>1, <1>6, <1>9, <1>10, CasRetryEffect DEF Types

(* pay_all counts the value before the walk: the types stay. *)
LEMMA PrePayTypes ==
  ASSUME Control, NEW t \in Threads, PrePay(t)
  PROVE  Types'
<1>1. Types /\ rd \in [Threads -> LoadFrames] /\ wr \in [Threads -> WriteFrames]
  BY DEF Control, Types
<1>2. /\ "help" \in WrPc
  BY DEF RdPc, WrPc
<1>3. cnt' \in [Objects -> Int]
  BY <1>1, IncTypes, DecTypes, FrameTypes, PrePayEffect DEF Types
<1>4. /\ N \in Threads
  BY <1>2, FrameTypes, Constants, Slots DEF Control, Types
<1>5. [wr EXCEPT ![t].pc = "help", ![t].node = N]
        \in [Threads -> WriteFrames]
  BY <1>1, <1>2, <1>4, WriteFields
<1>6. wr' \in [Threads -> WriteFrames]
  BY <1>1, <1>5 DEF PrePay
<1> QED BY <1>1, <1>3, <1>6, PrePayEffect DEF Types

(* pay_all reads the control word of a node: the types stay. *)
LEMMA HelpTypes ==
  ASSUME Control, NEW t \in Threads, Help(t)
  PROVE  Types'
<1>1. Types /\ rd \in [Threads -> LoadFrames] /\ wr \in [Threads -> WriteFrames]
  BY DEF Control, Types
<1>2. /\ "help_addr" \in WrPc
      /\ "pay" \in WrPc
  BY DEF RdPc, WrPc
<1>3. \A w \in WriteFrames : HelpDone(w) \in WriteFrames
  BY <1>2, Constants, WriteFrame DEF HelpDone
<1>4. \A w \in WriteFrames, c \in ControlWords : HelpWith(w, c) \in WriteFrames
  BY <1>2, <1>3, WriteFrame DEF HelpWith
<1>5. wr[t] \in WriteFrames /\ control[wr[t].node] \in ControlWords
      /\ wr[t].observed \in ControlWords
  BY FrameTypes DEF Control, Types
<1>6. wr' \in [Threads -> WriteFrames]
  BY <1>1, <1>3, <1>4, <1>5, WriteSet DEF Help
<1> QED BY <1>1, <1>6, HelpEffect DEF Types

(* help compares the address: the types stay. *)
LEMMA HelpCheckAddrTypes ==
  ASSUME Control, NEW t \in Threads, HelpCheckAddr(t)
  PROVE  Types'
<1>1. Types /\ rd \in [Threads -> LoadFrames] /\ wr \in [Threads -> WriteFrames]
  BY DEF Control, Types
<1>2. /\ "get_debt" \in RdPc
      /\ "scan" \in RdPc
      /\ "help_recheck" \in WrPc
      /\ "replacement" \in WrPc
  BY DEF RdPc, WrPc
<1>3. wr[t].dst \in Storages
  BY HelpCheckAddrEffect, Own DEF WriteOk
<1>4. active_addr[wr[t].node] = wr[t].dst => storage[wr[t].dst] # Dropped
  BY HelpCheckAddrEffect, Own DEF WriteOk, LiveOk, CasPc
<1>5. active_addr[wr[t].node] = wr[t].dst /\ StartLoad(t, wr[t].dst, TRUE) =>
        /\ rd' \in [Threads -> LoadFrames]
        /\ window' \in [Threads -> SUBSET Ptrs]
  BY <1>1, <1>3, <1>4, BeginTypes
<1>6. rd' \in [Threads -> LoadFrames]
  BY <1>1, <1>5 DEF HelpCheckAddr
<1>7. [wr EXCEPT ![t].pc = "replacement"]
        \in [Threads -> WriteFrames]
  BY <1>1, <1>2, WriteFields
<1>8. [wr EXCEPT ![t].pc = "help_recheck"]
        \in [Threads -> WriteFrames]
  BY <1>1, <1>2, WriteFields
<1>9. wr' \in [Threads -> WriteFrames]
  BY <1>1, <1>7, <1>8 DEF HelpCheckAddr
<1>10. window' \in [Threads -> SUBSET Ptrs]
  BY <1>1, <1>5 DEF HelpCheckAddr, Types
<1> QED BY <1>1, <1>6, <1>9, <1>10, HelpCheckAddrEffect DEF Types

(* help reads the control word again: the types stay. *)
LEMMA HelpRecheckTypes ==
  ASSUME Control, NEW t \in Threads, HelpRecheck(t)
  PROVE  Types'
<1>1. Types /\ rd \in [Threads -> LoadFrames] /\ wr \in [Threads -> WriteFrames]
  BY DEF Control, Types
<1>2. /\ "help_addr" \in WrPc
      /\ "pay" \in WrPc
  BY DEF RdPc, WrPc
<1>3. \A w \in WriteFrames : HelpDone(w) \in WriteFrames
  BY <1>2, Constants, WriteFrame DEF HelpDone
<1>4. \A w \in WriteFrames, c \in ControlWords : HelpWith(w, c) \in WriteFrames
  BY <1>2, <1>3, WriteFrame DEF HelpWith
<1>5. wr[t] \in WriteFrames /\ control[wr[t].node] \in ControlWords
      /\ wr[t].observed \in ControlWords
  BY FrameTypes DEF Control, Types
<1>6. wr' \in [Threads -> WriteFrames]
  BY <1>1, <1>3, <1>4, <1>5, WriteSet DEF HelpRecheck
<1> QED BY <1>1, <1>6, HelpRecheckEffect DEF Types

(* help has its replacement: the types stay. *)
LEMMA HelpReplacementTypes ==
  ASSUME Control, NEW t \in Threads, HelpReplacement(t)
  PROVE  Types'
<1>1. Types /\ rd \in [Threads -> LoadFrames] /\ wr \in [Threads -> WriteFrames]
  BY DEF Control, Types
<1>2. /\ "their_space" \in WrPc
  BY DEF RdPc, WrPc
<1>3. rd' \in [Threads -> LoadFrames]
  BY <1>1, EmptyFrames, LoadSet DEF HelpReplacement, Returning
<1>4. /\ rd[t].ptr \in Ptrs
  BY <1>2, FrameTypes, Constants, Slots DEF Control, Types
<1>5. [wr EXCEPT ![t].pc = "their_space", ![t].repl = rd[t].ptr]
        \in [Threads -> WriteFrames]
  BY <1>1, <1>2, <1>4, WriteFields
<1>6. wr' \in [Threads -> WriteFrames]
  BY <1>1, <1>5 DEF HelpReplacement, Returning
<1>7. window' \in [Threads -> SUBSET Ptrs]
  BY <1>1, HelpReplacementEffect DEF Types
<1> QED BY <1>1, <1>3, <1>6, <1>7, HelpReplacementEffect DEF Types

(* help reads the offered space: the types stay. *)
LEMMA HelpTheirSpaceTypes ==
  ASSUME Control, NEW t \in Threads, HelpTheirSpace(t)
  PROVE  Types'
<1>1. Types /\ rd \in [Threads -> LoadFrames] /\ wr \in [Threads -> WriteFrames]
  BY DEF Control, Types
<1>2. /\ "fill" \in WrPc
  BY DEF RdPc, WrPc
<1>3. /\ space_offer[wr[t].node] \in Threads
  BY <1>2, FrameTypes, Constants, Slots DEF Control, Types
<1>4. [wr EXCEPT ![t].pc = "fill", ![t].their = space_offer[wr[t].node]]
        \in [Threads -> WriteFrames]
  BY <1>1, <1>2, <1>3, WriteFields
<1>5. wr' \in [Threads -> WriteFrames]
  BY <1>1, <1>4 DEF HelpTheirSpace
<1> QED BY <1>1, <1>5, HelpTheirSpaceEffect DEF Types

(* help fills its own space: the types stay. *)
LEMMA HelpFillTypes ==
  ASSUME Control, NEW t \in Threads, HelpFill(t)
  PROVE  Types'
<1>1. Types /\ rd \in [Threads -> LoadFrames] /\ wr \in [Threads -> WriteFrames]
  BY DEF Control, Types
<1>2. /\ "help_cas" \in WrPc
  BY DEF RdPc, WrPc
<1>3. handover' \in [Threads -> Ptrs]
  BY <1>1, Constants, FrameTypes, HelpFillEffect DEF Types
<1>4. [wr EXCEPT ![t].pc = "help_cas"]
        \in [Threads -> WriteFrames]
  BY <1>1, <1>2, WriteFields
<1>5. wr' \in [Threads -> WriteFrames]
  BY <1>1, <1>4 DEF HelpFill
<1> QED BY <1>1, <1>3, <1>5, HelpFillEffect DEF Types

(* help exchanges the control word: the types stay. *)
LEMMA HelpCasTypes ==
  ASSUME Control, NEW t \in Threads, HelpCas(t)
  PROVE  Types'
<1>1. Types /\ rd \in [Threads -> LoadFrames] /\ wr \in [Threads -> WriteFrames]
  BY DEF Control, Types
<1>2. /\ "help_drop" \in WrPc
      /\ "switch" \in WrPc
  BY DEF RdPc, WrPc
<1>3. Replacement(space_offer[t]) \in ControlWords
      /\ control \in [Threads -> ControlWords]
  BY <1>1, Constants DEF Types
<1>4. control' \in [Threads -> ControlWords]
  BY <1>3, HelpCasEffect, <1>1, FrameTypes
<1>5. [wr EXCEPT ![t].pc = "switch"]
        \in [Threads -> WriteFrames]
  BY <1>1, <1>2, WriteFields
<1>6. /\ 1 \in Threads
      /\ control[wr[t].node] \in ControlWords
  BY <1>2, FrameTypes, Constants, Slots DEF Control, Types
<1>7. [wr EXCEPT ![t].pc = "help_drop", ![t].their = 1, ![t].observed = control[wr[t].node]]
        \in [Threads -> WriteFrames]
  BY <1>1, <1>2, <1>6, WriteFields
<1>8. wr' \in [Threads -> WriteFrames]
  BY <1>1, <1>5, <1>7 DEF HelpCas
<1> QED BY <1>1, <1>4, <1>8, HelpCasEffect DEF Types

(* help takes over the offered space: the types stay. *)
LEMMA HelpSwitchTypes ==
  ASSUME Control, NEW t \in Threads, HelpSwitch(t)
  PROVE  Types'
<1>1. Types /\ rd \in [Threads -> LoadFrames] /\ wr \in [Threads -> WriteFrames]
  BY DEF Control, Types
<1>2. /\ "pay" \in WrPc
  BY DEF RdPc, WrPc
<1>3. space_offer' \in [Threads -> Threads]
  BY <1>1, Constants, FrameTypes, HelpSwitchEffect DEF Types
<1>4. \A w \in WriteFrames : HelpDone(w) \in WriteFrames
  BY <1>2, Constants, WriteFrame DEF HelpDone
<1>5. wr' \in [Threads -> WriteFrames]
  BY <1>1, <1>4, WriteSet DEF HelpSwitch
<1> QED BY <1>1, <1>3, <1>5, HelpSwitchEffect DEF Types

(* help drops a replacement nobody took: the types stay. *)
LEMMA HelpDropTypes ==
  ASSUME Control, NEW t \in Threads, HelpDrop(t)
  PROVE  Types'
<1>1. Types /\ rd \in [Threads -> LoadFrames] /\ wr \in [Threads -> WriteFrames]
  BY DEF Control, Types
<1>2. /\ "help_addr" \in WrPc
      /\ "pay" \in WrPc
  BY DEF RdPc, WrPc
<1>3. cnt' \in [Objects -> Int]
  BY <1>1, IncTypes, DecTypes, FrameTypes, HelpDropEffect DEF Types
<1>4. \A w \in WriteFrames : HelpDone(w) \in WriteFrames
  BY <1>2, Constants, WriteFrame DEF HelpDone
<1>5. \A w \in WriteFrames, c \in ControlWords : HelpWith(w, c) \in WriteFrames
  BY <1>2, <1>4, WriteFrame DEF HelpWith
<1>6. wr[t] \in WriteFrames /\ control[wr[t].node] \in ControlWords
      /\ wr[t].observed \in ControlWords
  BY FrameTypes DEF Control, Types
<1>7. [wr[t] EXCEPT !.repl = Null] \in WriteFrames
  BY <1>6, Constants, WriteFrame
<1>8. wr' \in [Threads -> WriteFrames]
  BY <1>1, <1>4, <1>5, <1>6, <1>7, WriteSet DEF HelpDrop
<1>9. window' \in [Threads -> SUBSET Ptrs]
  BY <1>1, DecTypes, FrameTypes, HelpDropEffect DEF Types
<1> QED BY <1>1, <1>3, <1>8, <1>9, HelpDropEffect DEF Types

(* pay_all pays one slot: the types stay. *)
LEMMA PaySlotTypes ==
  ASSUME Control, NEW t \in Threads, PaySlot(t)
  PROVE  Types'
<1>1. Types /\ rd \in [Threads -> LoadFrames] /\ wr \in [Threads -> WriteFrames]
  BY DEF Control, Types
<1>2. /\ "help" \in WrPc
      /\ "pay" \in WrPc
      /\ "pay_inc" \in WrPc
      /\ "release" \in WrPc
  BY DEF RdPc, WrPc
<1>3. slots' \in [SlotIds -> Ptrs \cup {NONE}]
  BY <1>1, PaidTypes, PaySlotEffect DEF Types
<1>4. [wr EXCEPT ![t].pc = "pay_inc"]
        \in [Threads -> WriteFrames]
  BY <1>1, <1>2, WriteFields
<1>5. NextSlot(wr[t]) \in WriteFrames
  BY <1>2, <1>1, NextSlotTypes
<1>6. wr' \in [Threads -> WriteFrames]
  BY <1>1, <1>4, <1>5, WriteSet DEF PaySlot
<1> QED BY <1>1, <1>3, <1>6, PaySlotEffect DEF Types

(* pay_all counts for the next debt: the types stay. *)
LEMMA PayIncTypes ==
  ASSUME Control, NEW t \in Threads, PayInc(t)
  PROVE  Types'
<1>1. Types /\ rd \in [Threads -> LoadFrames] /\ wr \in [Threads -> WriteFrames]
  BY DEF Control, Types
<1>2. /\ "help" \in WrPc
      /\ "pay" \in WrPc
      /\ "release" \in WrPc
  BY DEF RdPc, WrPc
<1>3. cnt' \in [Objects -> Int]
  BY <1>1, IncTypes, DecTypes, FrameTypes, PayIncEffect DEF Types
<1>4. NextSlot(wr[t]) \in WriteFrames
  BY <1>2, <1>1, NextSlotTypes
<1>5. wr' \in [Threads -> WriteFrames]
  BY <1>1, <1>4, WriteSet DEF PayInc
<1> QED BY <1>1, <1>3, <1>5, PayIncEffect DEF Types

(* pay_all drops its last count: the types stay. *)
LEMMA ReleaseValTypes ==
  ASSUME Control, NEW t \in Threads, ReleaseVal(t)
  PROVE  Types'
<1>1. Types /\ rd \in [Threads -> LoadFrames] /\ wr \in [Threads -> WriteFrames]
  BY DEF Control, Types
<1>2. /\ "drop_old" \in WrPc
  BY DEF RdPc, WrPc
<1>3. cnt' \in [Objects -> Int]
  BY <1>1, IncTypes, DecTypes, FrameTypes, ReleaseValEffect DEF Types
<1>4. [wr EXCEPT ![t].pc = "drop_old"]
        \in [Threads -> WriteFrames]
  BY <1>1, <1>2, WriteFields
<1>5. wr' \in [Threads -> WriteFrames]
  BY <1>1, <1>4, EmptyFrames, WriteSet DEF ReleaseVal
<1>6. held' \in [Handles -> Nat]
  BY <1>1, GiveTypes, Handle, FrameTypes, ReleaseValEffect DEF Types
<1>7. window' \in [Threads -> SUBSET Ptrs]
  BY <1>1, DecTypes, FrameTypes, ReleaseValEffect DEF Types
<1> QED BY <1>1, <1>3, <1>5, <1>6, <1>7, ReleaseValEffect DEF Types

(* The writer drops the old value: the types stay. *)
LEMMA DropOldTypes ==
  ASSUME Control, NEW t \in Threads, DropOld(t)
  PROVE  Types'
<1>1. Types /\ rd \in [Threads -> LoadFrames] /\ wr \in [Threads -> WriteFrames]
  BY DEF Control, Types
<1>2. cnt' \in [Objects -> Int]
  BY <1>1, IncTypes, DecTypes, FrameTypes, DropOldEffect DEF Types
<1>3. wr' \in [Threads -> WriteFrames]
  BY <1>1, EmptyFrames, WriteSet DEF DropOld
<1>4. [ptr |-> wr[t].old, debt |-> wr[t].odebt] \in Handles
  BY <1>1, Handle, FrameTypes
<1>5. held' \in [Handles -> Nat]
  BY <1>1, <1>4, GiveTypes, DropOldEffect DEF Types
<1>6. window' \in [Threads -> SUBSET Ptrs]
  BY <1>1, DecTypes, FrameTypes, DropOldEffect DEF Types
<1> QED BY <1>1, <1>2, <1>3, <1>5, <1>6, DropOldEffect DEF Types

------------------------------------------------------------------------------
HIDE NAssumption
HIDE SlotCountAssumption
USE NullAssumption DEF NoStorage, nodeVars, localVars

(* A payment empties its own slot or none, and the slot is not on a any more. *)
LEMMA PaidSlots ==
  ASSUME Types, NEW x, NEW a, Paid(x, a) \/ PaidBefore(x, a)
  PROVE  /\ \A y \in SlotIds : slots'[y] = slots[y] \/ slots'[y] = NONE
         /\ \A y \in SlotIds : y # x => slots'[y] = slots[y]
         /\ x \in SlotIds /\ a \in Ptrs => slots'[x] # a
BY SentinelAssumption DEF Types, Paid, PaidBefore

(* A caller gets a guard of a fast slot or an owned value. *)
LEMMA GiveFast ==
  ASSUME Types, GuardsAreFast, NEW h \in Handles, Give(h),
         h.debt \in FastSlots \cup {NoDebt}
  PROVE  GuardsAreFast'
BY DEF Types, GuardsAreFast, Give

(* A caller gives a handle up. *)
LEMMA TakeFast ==
  ASSUME Types, GuardsAreFast, NEW h \in Handles, Take(h)
  PROVE  GuardsAreFast'
BY DEF Types, GuardsAreFast, Take

(* A value that is put in is no guard. *)
LEMMA NewValueFast ==
  ASSUME Types, GuardsAreFast, NEW s \in Storages, NEW v, NewValue(s, v)
  PROVE  GuardsAreFast'
<1>1. Owned(v) \in Handles
  BY NewValueTypes, Handle, Constants
<1> QED BY <1>1, TakeFast DEF NewValue, GuardsAreFast

(* A step of t that leaves its own frames in shape leaves all in shape. *)
LEMMA OwnOnly ==
  ASSUME Control, NEW t \in Threads, OnlyRd(t), OnlyWr(t),
         LoadOk(t, rd'[t]), WriteOk(wr'[t], rd'[t]), HelpOk(t, wr'[t])
  PROVE  LoadShape' /\ WriteShape' /\ HelpShape'
BY DEF Control, LoadShape, WriteShape, HelpShape, OnlyRd, OnlyWr

(* What is needed of a step when it leaves what the others see alone. *)
LEMMA LiveStep ==
  ASSUME Control, NEW t \in Threads, OnlyRd(t), OnlyWr(t),
         storage' = storage, active_addr' = active_addr,
         LiveOk(rd'[t], wr'[t], storage, active_addr)
  PROVE  Live'
BY DEF Control, Live, OnlyRd, OnlyWr

(* No storage ends. *)
LEMMA LiveStorages ==
  ASSUME Control, NEW t \in Threads, OnlyRd(t), OnlyWr(t),
         \A s \in Storages : storage'[s] = Dropped => storage[s] = Dropped,
         active_addr' = active_addr, rd'[t] = rd[t],
         LiveOk(rd[t], wr'[t], storage, active_addr),
         wr'[t].pc # "idle", wr'[t].dst \in Storages
  PROVE  Live'
<1> SUFFICES ASSUME NEW u \in Threads
             PROVE  LiveOk(rd'[u], wr'[u], storage', active_addr')
  BY DEF Live
<1>1. rd'[u] = rd[u] /\ LiveOk(rd[u], wr'[u], storage, active_addr)
  BY Own DEF OnlyRd, OnlyWr
<1>2. /\ rd[u].src \in Storages \cup {NoStorage}
      /\ wr'[u].pc # "idle" => wr'[u].dst \in Storages
      /\ wr'[u].op = "compare_and_swap" => wr'[u].dst \in Storages
  BY Own, FrameTypes DEF OnlyWr, WriteOk
<1> QED BY <1>1, <1>2 DEF LiveOk

(* A step of the owner that leaves the slots alone. *)
LEMMA OwnerStep ==
  ASSUME Control, NEW t \in Threads, OnlyRd(t), slots' = slots,
         OwnerOk(t, rd'[t], slots[<<t, HELPING>>])
  PROVE  HelpingSlotOwned'
BY DEF Control, HelpingSlotOwned, OnlyRd

(* A step that leaves the helping slots alone. *)
LEMMA OwnerFast ==
  ASSUME Control, NEW t \in Threads, OnlyRd(t),
         \A u \in Threads : slots'[<<u, HELPING>>] = slots[<<u, HELPING>>],
         OwnerOk(t, rd'[t], slots[<<t, HELPING>>])
  PROVE  HelpingSlotOwned'
BY DEF Control, HelpingSlotOwned, OnlyRd

(* A payment leaves a helping slot to its owner. *)
LEMMA OwnerPaid ==
  ASSUME Control, NEW t \in Threads, OnlyRd(t), NEW x, NEW a,
         Paid(x, a) \/ PaidBefore(x, a),
         OwnerOk(t, rd'[t], slots'[<<t, HELPING>>])
  PROVE  HelpingSlotOwned'
<1> SUFFICES ASSUME NEW u \in Threads, u # t
             PROVE  OwnerOk(u, rd'[u], slots'[<<u, HELPING>>])
  BY DEF HelpingSlotOwned
<1>1. rd'[u] = rd[u] /\ OwnerOk(u, rd[u], slots[<<u, HELPING>>]) /\ Types
  BY Own DEF OnlyRd
<1>2. OwnerOk(u, rd[u], NONE)
  BY DEF OwnerOk
<1>3. <<u, HELPING>> \in SlotIds
  BY Slots, Constants
<1>4. slots'[<<u, HELPING>>] = slots[<<u, HELPING>>] \/ slots'[<<u, HELPING>>] = NONE
  BY <1>1, <1>3, PaidSlots
<1> QED BY <1>1, <1>2, <1>4

(* A payment does not fill an empty helping slot. *)
LEMMA PaidNone ==
  ASSUME Control, NEW t \in Threads, NEW x, NEW a, Paid(x, a) \/ PaidBefore(x,
         a),
         slots[<<t, HELPING>>] = NONE
  PROVE  slots'[<<t, HELPING>>] = NONE
<1>1. Types /\ <<t, HELPING>> \in SlotIds
  BY Own, Slots, Constants
<1> QED BY <1>1, PaidSlots

(* After a payment for the load's own debt its helping slot is empty. *)
LEMMA PaidMine ==
  ASSUME Control, NEW t \in Threads,
         Paid(rd[t].debt, rd[t].ptr) \/ PaidBefore(rd[t].debt, rd[t].ptr)
  PROVE  slots'[<<t, HELPING>>] = NONE
<1>1. Types /\ <<t, HELPING>> \in SlotIds
      /\ OwnerOk(t, rd[t], slots[<<t, HELPING>>])
  BY Own, Slots, Constants
<1>2. CASE slots[<<t, HELPING>>] = NONE
  BY <1>2, PaidNone
<1>3. CASE slots[<<t, HELPING>>] # NONE
  <2>1. rd[t].debt = <<t, HELPING>> /\ slots[<<t, HELPING>>] = rd[t].ptr
    BY <1>1, <1>3 DEF OwnerOk
  <2> QED BY <1>1, <2>1 DEF Paid, PaidBefore, Types
<1> QED BY <1>2, <1>3

(* A step of a load that touches no control word. *)
LEMMA FollowStep ==
  ASSUME Control, NEW t \in Threads, OnlyRd(t), control' = control,
         generation' = generation, active_addr' = active_addr,
         FollowOk(rd'[t], control[t], generation[t], active_addr[t])
  PROVE  ControlFollows'
BY DEF Control, ControlFollows, OnlyRd

(* A load goes on. *)
GoesOn(t) ==
  /\ OnlyRd(t) /\ rd'[t].src = rd[t].src /\ rd'[t].full = rd[t].full
  /\ rd[t].pc \notin {"idle", "drop_dec"} /\ rd'[t].pc \notin {"idle", "drop_dec"}

(* A load that only goes on keeps the shapes of all frames, *)
LEMMA GoesOnShape ==
  ASSUME Control, NEW t \in Threads, GoesOn(t), wr' = wr, LoadOk(t, rd'[t])
  PROVE  LoadShape' /\ WriteShape' /\ HelpShape' /\ OnlyRd(t) /\ OnlyWr(t)
<1>1. WriteOk(wr[t], rd[t]) /\ HelpOk(t, wr[t])
  BY Own
<1>2. WriteOk(wr[t], rd'[t])
  BY <1>1 DEF WriteOk, GoesOn
<1>3. OnlyWr(t) /\ OnlyRd(t)
  BY DEF OnlyWr, GoesOn
<1> QED BY <1>1, <1>2, <1>3, OwnOnly

(* and the storages that are in use. *)
LEMMA GoesOnLive ==
  ASSUME Control, NEW t \in Threads, GoesOn(t), wr' = wr,
         storage' = storage, active_addr' = active_addr
  PROVE  Live'
<1>1. LiveOk(rd[t], wr[t], storage, active_addr)
  BY Own
<1>2. LiveOk(rd'[t], wr[t], storage, active_addr)
  BY <1>1 DEF LiveOk, GoesOn
<1>3. OnlyWr(t) /\ OnlyRd(t)
  BY DEF OnlyWr, GoesOn
<1> QED BY <1>2, <1>3, LiveStep

(* A write goes on, without a load. *)
WritesOn(t) ==
  /\ OnlyWr(t) /\ wr'[t].op = wr[t].op /\ wr'[t].dst = wr[t].dst
  /\ wr'[t].odebt = wr[t].odebt
  /\ wr[t].pc \notin {"idle", "cas_load", "replacement"}
  /\ wr'[t].pc \notin {"idle", "replacement"} \cup CasPc

(* The same for a write that only goes on. *)
LEMMA WritesOnShape ==
  ASSUME Control, NEW t \in Threads, WritesOn(t), rd' = rd, HelpOk(t, wr'[t])
  PROVE  LoadShape' /\ WriteShape' /\ HelpShape' /\ OnlyRd(t) /\ OnlyWr(t)
<1>1. LoadOk(t, rd[t]) /\ WriteOk(wr[t], rd[t])
  BY Own
<1>2. WriteOk(wr'[t], rd[t])
  BY <1>1 DEF WriteOk, WritesOn, CasPc
<1>3. OnlyRd(t) /\ OnlyWr(t)
  BY DEF OnlyRd, WritesOn
<1> QED BY <1>1, <1>2, <1>3, OwnOnly

(* A step that does not come to help_addr, nor leave a storage. *)
LEMMA WritesOnLive ==
  ASSUME Control, NEW t \in Threads, WritesOn(t), rd' = rd,
         storage' = storage, active_addr' = active_addr,
         wr'[t].pc \notin {"help_addr", "replacement"},
         wr'[t].pc \in {"their_space", "fill", "help_cas", "help_drop"} =>
           wr[t].pc \in {"their_space", "fill", "help_cas", "help_drop"}
  PROVE  Live'
<1>1. LiveOk(rd[t], wr[t], storage, active_addr)
  BY Own
<1>2. LiveOk(rd[t], wr'[t], storage, active_addr)
  BY <1>1 DEF LiveOk, WritesOn
<1>3. OnlyWr(t) /\ OnlyRd(t)
  BY DEF OnlyRd, WritesOn
<1> QED BY <1>2, <1>3, LiveStep

(* The load frame, the slots and the words are left alone. *)
LEMMA LoadsAlone ==
  ASSUME Control, rd' = rd, slots' = slots, control' = control,
         generation' = generation, active_addr' = active_addr
  PROVE  HelpingSlotOwned' /\ ControlFollows'
BY DEF Control, HelpingSlotOwned, ControlFollows

(* The guards of the callers stay when nobody gets one. *)
LEMMA GuardsAlone ==
  ASSUME Control, held' = held
  PROVE  GuardsAreFast'
BY DEF Control, GuardsAreFast

(* get_debt looks at one fast slot: Control stays. *)
LEMMA ScanKeeps ==
  ASSUME Control, NEW t \in Threads, Scan(t)
  PROVE  Control'
<1>1. Types /\ Types'
  BY Own, ScanTypes
<1>2. storage' = storage /\ active_addr' = active_addr /\ control' = control
      /\ generation' = generation /\ held' = held /\ wr' = wr
  BY <1>1, ScanEffect
<1>3. GoesOn(t)
  BY <1>1, ScanEffect DEF GoesOn, RdGo, RdMove, RdTo
<1>4. LoadOk(t, rd'[t])
  <2>1. LoadOk(t, rd[t]) /\ rd[t].pc = "scan"
    BY <1>1, Own, ScanEffect
  <2>2. ASSUME NEW k \in 1..DEBT_SLOT_CNT,
               RdMove(t, "confirm", rd[t].ptr, <<t, k>>)
        PROVE  LoadOk(t, rd'[t])
    BY <2>1, <2>2, Slots DEF LoadOk, LoadingPc, Announced, RdMove, RdTo
  <2>3. ASSUME RdGo(t, "scan") \/ RdMove(t, "get_debt", Null, rd[t].debt)
        PROVE  LoadOk(t, rd'[t])
    BY <2>1, <2>3 DEF LoadOk, LoadingPc, Announced, RdGo, RdMove, RdTo
  <2> QED BY <1>1, <2>1, <2>2, <2>3, ScanEffect DEF RdGo
<1>5. LoadShape' /\ WriteShape' /\ HelpShape' /\ OnlyRd(t) /\ OnlyWr(t)
  BY <1>2, <1>3, <1>4, GoesOnShape
<1>6. GuardsAreFast'
  BY <1>2, GuardsAlone
<1>7. Live'
  BY <1>2, <1>3, GoesOnLive
<1>8. HelpingSlotOwned'
  <2>1. \A u \in Threads : slots'[<<u, HELPING>>] = slots[<<u, HELPING>>]
    <3>1. ASSUME NEW k \in 1..DEBT_SLOT_CNT, slots' = [slots EXCEPT ![<<t, k>>] = rd[t].ptr]
          PROVE  \A u \in Threads : slots'[<<u, HELPING>>] = slots[<<u, HELPING>>]
      <4>1. <<t, k>> \in FastSlots /\ \A u \in Threads : <<t, k>> # <<u, HELPING>>
        BY <3>1, Slots
      <4> QED BY <1>1, <3>1, <4>1, Slots, Constants DEF Types
    <3> QED BY <1>1, <3>1, ScanEffect
  <2>2. slots[<<t, HELPING>>] = NONE
    BY <1>1, ScanEffect, Own DEF OwnerOk
  <2> QED BY <1>5, <2>1, <2>2, OwnerFast DEF OwnerOk
<1>9. ControlFollows'
  <2>1. FollowOk(rd'[t], control[t], generation[t], active_addr[t])
    BY ZenonT(30), <1>1, ScanEffect, Own DEF FollowOk, Announced, RdGo, RdMove,
       RdTo
  <2> QED BY <1>2, <1>5, <2>1, FollowStep
<1> QED BY <1>1, <1>5, <1>6, <1>7, <1>8, <1>9 DEF Control

(* The second read of the fast path: Control stays. *)
LEMMA ConfirmFastKeeps ==
  ASSUME Control, NEW t \in Threads, ConfirmFast(t)
  PROVE  Control'
<1>1. Types /\ Types'
  BY Own, ConfirmFastTypes
<1>2. storage' = storage /\ active_addr' = active_addr /\ slots' = slots
      /\ control' = control /\ generation' = generation /\ held' = held
         /\ wr' = wr
  BY <1>1, ConfirmFastEffect
<1>3. GoesOn(t)
  BY <1>1, ConfirmFastEffect DEF GoesOn, RdGo, RdMove, RdTo
<1>4. LoadOk(t, rd'[t])
  BY ZenonT(30), <1>1, ConfirmFastEffect, Own, Slots DEF LoadOk, LoadingPc,
     Announced, RdGo, RdMove, RdTo
<1>5. LoadShape' /\ WriteShape' /\ HelpShape' /\ OnlyRd(t) /\ OnlyWr(t)
  BY <1>2, <1>3, <1>4, GoesOnShape
<1>6. GuardsAreFast'
  BY <1>2, GuardsAlone
<1>7. Live'
  BY <1>2, <1>3, GoesOnLive
<1>8. HelpingSlotOwned'
  <2>1. OwnerOk(t, rd'[t], slots[<<t, HELPING>>])
    BY <1>1, ConfirmFastEffect, Own, Slots DEF OwnerOk, LoadOk, RdGo, RdMove,
       RdTo
  <2> QED BY <1>2, <1>5, <2>1, OwnerStep
<1>9. ControlFollows'
  <2>1. FollowOk(rd'[t], control[t], generation[t], active_addr[t])
    BY ZenonT(30), <1>1, ConfirmFastEffect, Own DEF FollowOk, Announced, RdGo,
       RdMove, RdTo
  <2> QED BY <1>2, <1>5, <2>1, FollowStep
<1> QED BY <1>1, <1>5, <1>6, <1>7, <1>8, <1>9 DEF Control

(* The fast path pays back a debt that came too late: Control stays. *)
LEMMA GiveBackKeeps ==
  ASSUME Control, NEW t \in Threads, GiveBack(t)
  PROVE  Control'
<1>1. Types /\ Types'
  BY Own, GiveBackTypes
<1>2. storage' = storage /\ active_addr' = active_addr /\ control' = control
      /\ generation' = generation /\ held' = held /\ wr' = wr
  BY <1>1, GiveBackEffect
<1>3. GoesOn(t)
  BY <1>1, GiveBackEffect DEF GoesOn, RdMove, RdTo
<1>4. LoadOk(t, rd'[t])
  BY ZenonT(30), <1>1, GiveBackEffect, Own, Slots DEF LoadOk, LoadingPc,
     Announced, RdMove, RdTo
<1>5. LoadShape' /\ WriteShape' /\ HelpShape' /\ OnlyRd(t) /\ OnlyWr(t)
  BY <1>2, <1>3, <1>4, GoesOnShape
<1>6. GuardsAreFast'
  BY <1>2, GuardsAlone
<1>7. Live'
  BY <1>2, <1>3, GoesOnLive
<1>8. HelpingSlotOwned'
  <2>1. Paid(rd[t].debt, rd[t].ptr) \/ PaidBefore(rd[t].debt, rd[t].ptr)
    BY <1>1, GiveBackEffect
  <2>2. slots[<<t, HELPING>>] = NONE
    BY <1>1, GiveBackEffect, Own DEF OwnerOk
  <2>3. slots'[<<t, HELPING>>] = NONE
    BY <2>1, <2>2, PaidNone
  <2> QED BY <1>5, <2>1, <2>3, OwnerPaid DEF OwnerOk
<1>9. ControlFollows'
  <2>1. FollowOk(rd'[t], control[t], generation[t], active_addr[t])
    BY ZenonT(30), <1>1, GiveBackEffect, Own DEF FollowOk, Announced, RdMove,
       RdTo
  <2> QED BY <1>2, <1>5, <2>1, FollowStep
<1> QED BY <1>1, <1>5, <1>6, <1>7, <1>8, <1>9 DEF Control

(* A load without a fast slot takes the helping slot: Control stays. *)
LEMMA GetDebtKeeps ==
  ASSUME Control, NEW t \in Threads, GetDebt(t)
  PROVE  Control'
<1>1. Types /\ Types'
  BY Own, GetDebtTypes
<1>2. storage' = storage /\ slots' = slots /\ control' = control
      /\ held' = held /\ wr' = wr
  BY <1>1, GetDebtEffect
<1>3. GoesOn(t)
  BY <1>1, GetDebtEffect DEF GoesOn, RdGo, RdMove, RdTo
<1>4. LoadOk(t, rd'[t])
  BY ZenonT(30), <1>1, GetDebtEffect, Own, Slots DEF LoadOk, LoadingPc,
     Announced, RdGo, RdMove, RdTo
<1>5. LoadShape' /\ WriteShape' /\ HelpShape' /\ OnlyRd(t) /\ OnlyWr(t)
  BY <1>2, <1>3, <1>4, GoesOnShape
<1>6. GuardsAreFast'
  BY <1>2, GuardsAlone
<1>7. Live'
  <2>1. storage[rd[t].src] # Dropped
  /\ active_addr' = [active_addr EXCEPT ![t] = rd[t].src]
    <3>1. rd[t].src \in Storages
      BY <1>1, Own, GetDebtEffect DEF LoadOk, LoadingPc
    <3> QED BY <1>1, <3>1, Own, GetDebtEffect DEF LiveOk
  <2>2. ASSUME NEW u \in Threads
        PROVE  LiveOk(rd'[u], wr'[u], storage', active_addr')
    <3>1. LiveOk(rd[u], wr[u], storage, active_addr) /\ wr[u].node \in Threads
      BY <1>1, Own, FrameTypes
    <3>2. rd'[u].src = rd[u].src
      BY <1>3 DEF GoesOn, OnlyRd
    <3>3. active_addr'[wr[u].node] = active_addr[wr[u].node] \/ active_addr'[wr[u].node] = rd[t].src
      BY <1>1, <2>1, <3>1 DEF Types
    <3> QED BY <1>2, <2>1, <3>1, <3>2, <3>3 DEF LiveOk
  <2> QED BY <2>2 DEF Live
<1>8. HelpingSlotOwned'
  <2>1. OwnerOk(t, rd'[t], slots[<<t, HELPING>>])
    BY <1>1, GetDebtEffect, Own, Slots DEF OwnerOk, LoadOk, RdGo, RdMove, RdTo
  <2> QED BY <1>2, <1>5, <2>1, OwnerStep
<1>9. ControlFollows'
  <2>1. /\ generation' = [generation EXCEPT ![t] = NextGeneration(t)]
        /\ active_addr' = [active_addr EXCEPT ![t] = rd[t].src]
        /\ rd[t].pc = "get_debt" /\ rd'[t].pc = "control" /\ rd'[t].src = rd[t].src
    BY <1>1, GetDebtEffect DEF RdGo, RdMove, RdTo
  <2>2. control[t] = IDLE
    BY <2>1, Own DEF FollowOk, Announced
  <2>3. FollowOk(rd'[t], control'[t], generation'[t], active_addr'[t])
    BY <1>1, <1>2, <2>1, <2>2 DEF FollowOk, Announced, Types
  <2>4. ASSUME NEW u \in Threads, u # t
        PROVE  FollowOk(rd'[u], control'[u], generation'[u], active_addr'[u])
    <3>1. /\ rd'[u] = rd[u] /\ control'[u] = control[u]
          /\ generation'[u] = generation[u] /\ active_addr'[u] = active_addr[u]
      BY <1>1, <1>2, <1>5, <2>1, <2>4 DEF OnlyRd, Types
    <3> QED BY <3>1, Own
  <2> QED BY <2>3, <2>4 DEF ControlFollows
<1> QED BY <1>1, <1>5, <1>6, <1>7, <1>8, <1>9 DEF Control

(* get_debt publishes its generation: Control stays. *)
LEMMA GetDebtControlKeeps ==
  ASSUME Control, NEW t \in Threads, GetDebtControl(t)
  PROVE  Control'
<1>1. Types /\ Types'
  BY Own, GetDebtControlTypes
<1>2. storage' = storage /\ active_addr' = active_addr /\ slots' = slots
      /\ generation' = generation /\ held' = held /\ wr' = wr
  BY <1>1, GetDebtControlEffect
<1>3. GoesOn(t)
  BY <1>1, GetDebtControlEffect DEF GoesOn, RdGo, RdMove, RdTo
<1>4. LoadOk(t, rd'[t])
  BY ZenonT(30), <1>1, GetDebtControlEffect, Own, Slots DEF LoadOk, LoadingPc,
     Announced, RdGo, RdMove, RdTo
<1>5. LoadShape' /\ WriteShape' /\ HelpShape' /\ OnlyRd(t) /\ OnlyWr(t)
  BY <1>2, <1>3, <1>4, GoesOnShape
<1>6. GuardsAreFast'
  BY <1>2, GuardsAlone
<1>7. Live'
  BY <1>2, <1>3, GoesOnLive
<1>8. HelpingSlotOwned'
  <2>1. OwnerOk(t, rd'[t], slots[<<t, HELPING>>])
    BY <1>1, GetDebtControlEffect, Own, Slots DEF OwnerOk, LoadOk, RdGo,
       RdMove, RdTo
  <2> QED BY <1>2, <1>5, <2>1, OwnerStep
<1>9. ControlFollows'
  <2>1. /\ control' = [control EXCEPT ![t] = Gen(generation[t])]
        /\ rd[t].pc = "control" /\ rd'[t].pc = "candidate" /\ rd'[t].src = rd[t].src
    BY <1>1, GetDebtControlEffect DEF RdGo, RdMove, RdTo
  <2>2. FollowOk(rd[t], control[t], generation[t], active_addr[t])
    BY Own
  <2>3. control'[t] = Gen(generation[t])
    BY <1>1, <2>1 DEF Types
  <2>4. FollowOk(rd'[t], control'[t], generation'[t], active_addr'[t])
    BY <1>1, <1>2, <2>1, <2>2, <2>3 DEF FollowOk, Announced
  <2>5. ASSUME NEW u \in Threads, u # t
        PROVE  FollowOk(rd'[u], control'[u], generation'[u], active_addr'[u])
    <3>1. /\ rd'[u] = rd[u] /\ control'[u] = control[u]
          /\ generation'[u] = generation[u] /\ active_addr'[u] = active_addr[u]
      BY <1>1, <1>2, <1>5, <2>1, <2>5 DEF OnlyRd, Types
    <3> QED BY <3>1, Own
  <2> QED BY <2>4, <2>5 DEF ControlFollows
<1> QED BY <1>1, <1>5, <1>6, <1>7, <1>8, <1>9 DEF Control

(* The fallback reads its candidate: Control stays. *)
LEMMA CandidateKeeps ==
  ASSUME Control, NEW t \in Threads, Candidate(t)
  PROVE  Control'
<1>1. Types /\ Types'
  BY Own, CandidateTypes
<1>2. storage' = storage /\ active_addr' = active_addr /\ slots' = slots
      /\ control' = control /\ generation' = generation /\ held' = held
         /\ wr' = wr
  BY <1>1, CandidateEffect
<1>3. GoesOn(t)
  BY <1>1, CandidateEffect DEF GoesOn, RdMove, RdTo
<1>4. LoadOk(t, rd'[t])
  BY ZenonT(30), <1>1, CandidateEffect, Own, Slots DEF LoadOk, LoadingPc,
     Announced, RdMove, RdTo
<1>5. LoadShape' /\ WriteShape' /\ HelpShape' /\ OnlyRd(t) /\ OnlyWr(t)
  BY <1>2, <1>3, <1>4, GoesOnShape
<1>6. GuardsAreFast'
  BY <1>2, GuardsAlone
<1>7. Live'
  BY <1>2, <1>3, GoesOnLive
<1>8. HelpingSlotOwned'
  <2>1. OwnerOk(t, rd'[t], slots[<<t, HELPING>>])
    BY <1>1, CandidateEffect, Own, Slots DEF OwnerOk, LoadOk, RdMove, RdTo
  <2> QED BY <1>2, <1>5, <2>1, OwnerStep
<1>9. ControlFollows'
  <2>1. /\ rd[t].pc = "candidate" /\ rd'[t].src = rd[t].src
        /\ \/ rd'[t].pc = "panicked" /\ generation[t] = 0
           \/ rd'[t].pc = "slot" /\ generation[t] # 0
    BY <1>1, CandidateEffect DEF RdMove, RdTo
  <2>2. FollowOk(rd[t], control[t], generation[t], active_addr[t])
    BY Own
  <2>3. FollowOk(rd'[t], control[t], generation[t], active_addr[t])
    BY <2>1, <2>2 DEF FollowOk, Announced
  <2> QED BY <1>2, <1>5, <2>3, FollowStep
<1> QED BY <1>1, <1>5, <1>6, <1>7, <1>8, <1>9 DEF Control

(* confirm fills the helping slot: Control stays. *)
LEMMA ConfirmSlotKeeps ==
  ASSUME Control, NEW t \in Threads, ConfirmSlot(t)
  PROVE  Control'
<1>1. Types /\ Types'
  BY Own, ConfirmSlotTypes
<1>2. storage' = storage /\ active_addr' = active_addr /\ control' = control
      /\ generation' = generation /\ held' = held /\ wr' = wr
  BY <1>1, ConfirmSlotEffect
<1>3. GoesOn(t)
  BY <1>1, ConfirmSlotEffect DEF GoesOn, RdMove, RdTo
<1>4. LoadOk(t, rd'[t])
  BY ZenonT(30), <1>1, ConfirmSlotEffect, Own, Slots DEF LoadOk, LoadingPc,
     Announced, RdMove, RdTo
<1>5. LoadShape' /\ WriteShape' /\ HelpShape' /\ OnlyRd(t) /\ OnlyWr(t)
  BY <1>2, <1>3, <1>4, GoesOnShape
<1>6. GuardsAreFast'
  BY <1>2, GuardsAlone
<1>7. Live'
  BY <1>2, <1>3, GoesOnLive
<1>8. HelpingSlotOwned'
  <2>1. /\ rd'[t].pc = "confirm_control" /\ rd'[t].debt = <<t, HELPING>>
        /\ rd'[t].ptr = rd[t].ptr
    BY <1>1, ConfirmSlotEffect DEF RdMove, RdTo
  <2>2. slots' = [slots EXCEPT ![<<t, HELPING>>] = rd[t].ptr]
    BY <1>1, ConfirmSlotEffect
  <2>3. ASSUME NEW u \in Threads, u # t
        PROVE  slots'[<<u, HELPING>>] = slots[<<u, HELPING>>] /\ rd'[u] = rd[u]
    <3>1. <<u, HELPING>> # <<t, HELPING>> /\ <<u, HELPING>> \in SlotIds
      BY <2>3, Slots, Constants
    <3> QED BY <1>1, <1>5, <2>2, <2>3, <3>1 DEF Types, OnlyRd
  <2>4. OwnerOk(t, rd'[t], slots'[<<t, HELPING>>])
    <3>1. slots'[<<t, HELPING>>] = rd[t].ptr
      BY <1>1, <2>2, Slots, Constants DEF Types
    <3> QED BY <2>1, <3>1 DEF OwnerOk
  <2> QED BY <2>3, <2>4, Own DEF HelpingSlotOwned
<1>9. ControlFollows'
  <2>1. FollowOk(rd'[t], control[t], generation[t], active_addr[t])
    BY ZenonT(30), <1>1, ConfirmSlotEffect, Own DEF FollowOk, Announced,
       RdMove, RdTo
  <2> QED BY <1>2, <1>5, <2>1, FollowStep
<1> QED BY <1>1, <1>5, <1>6, <1>7, <1>8, <1>9 DEF Control

(* confirm swaps its control word out: Control stays. *)
LEMMA ConfirmControlKeeps ==
  ASSUME Control, NEW t \in Threads, ConfirmControl(t)
  PROVE  Control'
<1>1. Types /\ Types'
  BY Own, ConfirmControlTypes
<1>2. storage' = storage /\ active_addr' = active_addr /\ slots' = slots
      /\ generation' = generation /\ held' = held /\ wr' = wr
  BY <1>1, ConfirmControlEffect
<1>3. GoesOn(t)
  BY <1>1, ConfirmControlEffect DEF GoesOn, RdGo, RdMove, RdTo
<1>4. LoadOk(t, rd'[t])
  BY ZenonT(30), <1>1, ConfirmControlEffect, Own, Slots DEF LoadOk, LoadingPc,
     Announced, RdGo, RdMove, RdTo
<1>5. LoadShape' /\ WriteShape' /\ HelpShape' /\ OnlyRd(t) /\ OnlyWr(t)
  BY <1>2, <1>3, <1>4, GoesOnShape
<1>6. GuardsAreFast'
  BY <1>2, GuardsAlone
<1>7. Live'
  BY <1>2, <1>3, GoesOnLive
<1>8. HelpingSlotOwned'
  <2>1. OwnerOk(t, rd'[t], slots[<<t, HELPING>>])
    BY <1>1, ConfirmControlEffect, Own, Slots DEF OwnerOk, LoadOk, RdGo,
       RdMove, RdTo
  <2> QED BY <1>2, <1>5, <2>1, OwnerStep
<1>9. ControlFollows'
  <2>1. /\ control' = [control EXCEPT ![t] = IDLE]
        /\ rd[t].pc = "confirm_control" /\ rd'[t].pc \in {"inc", "take"}
    BY <1>1, ConfirmControlEffect DEF RdGo, RdMove, RdTo
  <2>2. FollowOk(rd[t], control[t], generation[t], active_addr[t])
    BY Own
  <2>3. control'[t] = IDLE
    BY <1>1, <2>1 DEF Types
  <2>4. FollowOk(rd'[t], control'[t], generation'[t], active_addr'[t])
    BY <1>1, <1>2, <2>1, <2>2, <2>3 DEF FollowOk, Announced
  <2>5. ASSUME NEW u \in Threads, u # t
        PROVE  FollowOk(rd'[u], control'[u], generation'[u], active_addr'[u])
    <3>1. /\ rd'[u] = rd[u] /\ control'[u] = control[u]
          /\ generation'[u] = generation[u] /\ active_addr'[u] = active_addr[u]
      BY <1>1, <1>2, <1>5, <2>1, <2>5 DEF OnlyRd, Types
    <3> QED BY <3>1, Own
  <2> QED BY <2>4, <2>5 DEF ControlFollows
<1> QED BY <1>1, <1>5, <1>6, <1>7, <1>8, <1>9 DEF Control

(* confirm takes the value of its helper: Control stays. *)
LEMMA TakeHandoverKeeps ==
  ASSUME Control, NEW t \in Threads, TakeHandover(t)
  PROVE  Control'
<1>1. Types /\ Types'
  BY Own, TakeHandoverTypes
<1>2. storage' = storage /\ active_addr' = active_addr /\ slots' = slots
      /\ control' = control /\ generation' = generation /\ held' = held
         /\ wr' = wr
  BY <1>1, TakeHandoverEffect
<1>3. GoesOn(t)
  BY <1>1, TakeHandoverEffect DEF GoesOn, RdTo
<1>4. LoadOk(t, rd'[t])
  BY ZenonT(30), <1>1, TakeHandoverEffect, Own, Slots DEF LoadOk, LoadingPc,
     Announced, RdTo
<1>5. LoadShape' /\ WriteShape' /\ HelpShape' /\ OnlyRd(t) /\ OnlyWr(t)
  BY <1>2, <1>3, <1>4, GoesOnShape
<1>6. GuardsAreFast'
  BY <1>2, GuardsAlone
<1>7. Live'
  BY <1>2, <1>3, GoesOnLive
<1>8. HelpingSlotOwned'
  <2>1. OwnerOk(t, rd'[t], slots[<<t, HELPING>>])
    BY <1>1, TakeHandoverEffect, Own, Slots DEF OwnerOk, LoadOk, RdTo
  <2> QED BY <1>2, <1>5, <2>1, OwnerStep
<1>9. ControlFollows'
  <2>1. FollowOk(rd'[t], control[t], generation[t], active_addr[t])
    BY ZenonT(30), <1>1, TakeHandoverEffect, Own DEF FollowOk, Announced, RdTo
  <2> QED BY <1>2, <1>5, <2>1, FollowStep
<1> QED BY <1>1, <1>5, <1>6, <1>7, <1>8, <1>9 DEF Control

(* The helped load pays its unused debt: Control stays. *)
LEMMA UnusedPayKeeps ==
  ASSUME Control, NEW t \in Threads, UnusedPay(t)
  PROVE  Control'
<1>1. Types /\ Types'
  BY Own, UnusedPayTypes
<1>2. storage' = storage /\ active_addr' = active_addr /\ control' = control
      /\ generation' = generation /\ held' = held /\ wr' = wr
  BY <1>1, UnusedPayEffect
<1>3. GoesOn(t)
  BY <1>1, UnusedPayEffect DEF GoesOn, RdGo, RdMove, RdTo
<1>4. LoadOk(t, rd'[t])
  BY ZenonT(30), <1>1, UnusedPayEffect, Own, Slots DEF LoadOk, LoadingPc,
     Announced, RdGo, RdMove, RdTo
<1>5. LoadShape' /\ WriteShape' /\ HelpShape' /\ OnlyRd(t) /\ OnlyWr(t)
  BY <1>2, <1>3, <1>4, GoesOnShape
<1>6. GuardsAreFast'
  BY <1>2, GuardsAlone
<1>7. Live'
  BY <1>2, <1>3, GoesOnLive
<1>8. HelpingSlotOwned'
  <2>1. Paid(rd[t].debt, rd[t].ptr) \/ PaidBefore(rd[t].debt, rd[t].ptr)
    BY <1>1, UnusedPayEffect
  <2>2. slots'[<<t, HELPING>>] = NONE
    BY <2>1, PaidMine
  <2> QED BY <1>5, <2>1, <2>2, OwnerPaid DEF OwnerOk
<1>9. ControlFollows'
  <2>1. FollowOk(rd'[t], control[t], generation[t], active_addr[t])
    BY ZenonT(30), <1>1, UnusedPayEffect, Own DEF FollowOk, Announced, RdGo,
       RdMove, RdTo
  <2> QED BY <1>2, <1>5, <2>1, FollowStep
<1> QED BY <1>1, <1>5, <1>6, <1>7, <1>8, <1>9 DEF Control

(* The helped load drops what a writer paid it: Control stays. *)
LEMMA UnusedDecKeeps ==
  ASSUME Control, NEW t \in Threads, UnusedDec(t)
  PROVE  Control'
<1>1. Types /\ Types'
  BY Own, UnusedDecTypes
<1>2. storage' = storage /\ active_addr' = active_addr /\ slots' = slots
      /\ control' = control /\ generation' = generation /\ held' = held
         /\ wr' = wr
  BY <1>1, UnusedDecEffect
<1>3. GoesOn(t)
  BY <1>1, UnusedDecEffect DEF GoesOn, RdTo
<1>4. LoadOk(t, rd'[t])
  BY SMTT(30), <1>1, UnusedDecEffect, Own, Slots DEF LoadOk, LoadingPc,
     Announced, RdTo
<1>5. LoadShape' /\ WriteShape' /\ HelpShape' /\ OnlyRd(t) /\ OnlyWr(t)
  BY <1>2, <1>3, <1>4, GoesOnShape
<1>6. GuardsAreFast'
  BY <1>2, GuardsAlone
<1>7. Live'
  BY <1>2, <1>3, GoesOnLive
<1>8. HelpingSlotOwned'
  <2>1. OwnerOk(t, rd'[t], slots[<<t, HELPING>>])
    BY <1>1, UnusedDecEffect, Own, Slots DEF OwnerOk, LoadOk, RdTo
  <2> QED BY <1>2, <1>5, <2>1, OwnerStep
<1>9. ControlFollows'
  <2>1. FollowOk(rd'[t], control[t], generation[t], active_addr[t])
    BY ZenonT(30), <1>1, UnusedDecEffect, Own DEF FollowOk, Announced, RdTo
  <2> QED BY <1>2, <1>5, <2>1, FollowStep
<1> QED BY <1>1, <1>5, <1>6, <1>7, <1>8, <1>9 DEF Control

(* into_inner counts the value: Control stays. *)
LEMMA IntoInnerIncKeeps ==
  ASSUME Control, NEW t \in Threads, IntoInnerInc(t)
  PROVE  Control'
<1>1. Types /\ Types'
  BY Own, IntoInnerIncTypes
<1>2. storage' = storage /\ active_addr' = active_addr /\ slots' = slots
      /\ control' = control /\ generation' = generation /\ held' = held
         /\ wr' = wr
  BY <1>1, IntoInnerIncEffect
<1>3. GoesOn(t)
  BY <1>1, IntoInnerIncEffect DEF GoesOn, RdGo, RdMove, RdTo
<1>4. LoadOk(t, rd'[t])
  BY ZenonT(30), <1>1, IntoInnerIncEffect, Own, Slots DEF LoadOk, LoadingPc,
     Announced, RdGo, RdMove, RdTo
<1>5. LoadShape' /\ WriteShape' /\ HelpShape' /\ OnlyRd(t) /\ OnlyWr(t)
  BY <1>2, <1>3, <1>4, GoesOnShape
<1>6. GuardsAreFast'
  BY <1>2, GuardsAlone
<1>7. Live'
  BY <1>2, <1>3, GoesOnLive
<1>8. HelpingSlotOwned'
  <2>1. OwnerOk(t, rd'[t], slots[<<t, HELPING>>])
    BY <1>1, IntoInnerIncEffect, Own, Slots DEF OwnerOk, LoadOk, RdGo, RdMove,
       RdTo
  <2> QED BY <1>2, <1>5, <2>1, OwnerStep
<1>9. ControlFollows'
  <2>1. FollowOk(rd'[t], control[t], generation[t], active_addr[t])
    BY ZenonT(30), <1>1, IntoInnerIncEffect, Own DEF FollowOk, Announced, RdGo,
       RdMove, RdTo
  <2> QED BY <1>2, <1>5, <2>1, FollowStep
<1> QED BY <1>1, <1>5, <1>6, <1>7, <1>8, <1>9 DEF Control

(* into_inner pays its debt: Control stays. *)
LEMMA IntoInnerPayKeeps ==
  ASSUME Control, NEW t \in Threads, IntoInnerPay(t)
  PROVE  Control'
<1>1. Types /\ Types'
  BY Own, IntoInnerPayTypes
<1>2. storage' = storage /\ active_addr' = active_addr /\ control' = control
      /\ generation' = generation /\ held' = held /\ wr' = wr
  BY <1>1, IntoInnerPayEffect
<1>3. GoesOn(t)
  BY <1>1, IntoInnerPayEffect DEF GoesOn, RdGo, RdMove, RdTo
<1>4. LoadOk(t, rd'[t])
  BY ZenonT(30), <1>1, IntoInnerPayEffect, Own, Slots DEF LoadOk, LoadingPc,
     Announced, RdGo, RdMove, RdTo
<1>5. LoadShape' /\ WriteShape' /\ HelpShape' /\ OnlyRd(t) /\ OnlyWr(t)
  BY <1>2, <1>3, <1>4, GoesOnShape
<1>6. GuardsAreFast'
  BY <1>2, GuardsAlone
<1>7. Live'
  BY <1>2, <1>3, GoesOnLive
<1>8. HelpingSlotOwned'
  <2>1. Paid(rd[t].debt, rd[t].ptr) \/ PaidBefore(rd[t].debt, rd[t].ptr)
    BY <1>1, IntoInnerPayEffect
  <2>2. slots'[<<t, HELPING>>] = NONE
    BY <2>1, PaidMine
  <2> QED BY <1>5, <2>1, <2>2, OwnerPaid DEF OwnerOk
<1>9. ControlFollows'
  <2>1. FollowOk(rd'[t], control[t], generation[t], active_addr[t])
    BY ZenonT(30), <1>1, IntoInnerPayEffect, Own DEF FollowOk, Announced, RdGo,
       RdMove, RdTo
  <2> QED BY <1>2, <1>5, <2>1, FollowStep
<1> QED BY <1>1, <1>5, <1>6, <1>7, <1>8, <1>9 DEF Control

(* into_inner drops the count that a writer gave too: Control stays. *)
LEMMA IntoInnerDecKeeps ==
  ASSUME Control, NEW t \in Threads, IntoInnerDec(t)
  PROVE  Control'
<1>1. Types /\ Types'
  BY Own, IntoInnerDecTypes
<1>2. storage' = storage /\ active_addr' = active_addr /\ slots' = slots
      /\ control' = control /\ generation' = generation /\ held' = held
         /\ wr' = wr
  BY <1>1, IntoInnerDecEffect
<1>3. GoesOn(t)
  BY <1>1, IntoInnerDecEffect DEF GoesOn, RdMove, RdTo
<1>4. LoadOk(t, rd'[t])
  BY SMTT(30), <1>1, IntoInnerDecEffect, Own, Slots DEF LoadOk, LoadingPc,
     Announced, RdMove, RdTo
<1>5. LoadShape' /\ WriteShape' /\ HelpShape' /\ OnlyRd(t) /\ OnlyWr(t)
  BY <1>2, <1>3, <1>4, GoesOnShape
<1>6. GuardsAreFast'
  BY <1>2, GuardsAlone
<1>7. Live'
  BY <1>2, <1>3, GoesOnLive
<1>8. HelpingSlotOwned'
  <2>1. OwnerOk(t, rd'[t], slots[<<t, HELPING>>])
    BY <1>1, IntoInnerDecEffect, Own, Slots DEF OwnerOk, LoadOk, RdMove, RdTo
  <2> QED BY <1>2, <1>5, <2>1, OwnerStep
<1>9. ControlFollows'
  <2>1. FollowOk(rd'[t], control[t], generation[t], active_addr[t])
    BY ZenonT(30), <1>1, IntoInnerDecEffect, Own DEF FollowOk, Announced,
       RdMove, RdTo
  <2> QED BY <1>2, <1>5, <2>1, FollowStep
<1> QED BY <1>1, <1>5, <1>6, <1>7, <1>8, <1>9 DEF Control

(* load_full returns: Control stays. *)
LEMMA ReturnFullKeeps ==
  ASSUME Control, NEW t \in Threads, ReturnFull(t)
  PROVE  Control'
<1>1. Types /\ Types'
  BY Own, ReturnFullTypes
<1>2. storage' = storage /\ active_addr' = active_addr /\ slots' = slots
      /\ control' = control /\ generation' = generation /\ held' = held
         /\ wr' = wr
  BY <1>1, ReturnFullEffect
<1>3. GoesOn(t)
  BY <1>1, ReturnFullEffect DEF GoesOn, RdGo, RdMove, RdTo
<1>4. LoadOk(t, rd'[t])
  BY ZenonT(30), <1>1, ReturnFullEffect, Own, Slots DEF LoadOk, LoadingPc,
     Announced, RdGo, RdMove, RdTo
<1>5. LoadShape' /\ WriteShape' /\ HelpShape' /\ OnlyRd(t) /\ OnlyWr(t)
  BY <1>2, <1>3, <1>4, GoesOnShape
<1>6. GuardsAreFast'
  BY <1>2, GuardsAlone
<1>7. Live'
  BY <1>2, <1>3, GoesOnLive
<1>8. HelpingSlotOwned'
  <2>1. OwnerOk(t, rd'[t], slots[<<t, HELPING>>])
    BY <1>1, ReturnFullEffect, Own, Slots DEF OwnerOk, LoadOk, RdGo, RdMove,
       RdTo
  <2> QED BY <1>2, <1>5, <2>1, OwnerStep
<1>9. ControlFollows'
  <2>1. FollowOk(rd'[t], control[t], generation[t], active_addr[t])
    BY ZenonT(30), <1>1, ReturnFullEffect, Own DEF FollowOk, Announced, RdGo,
       RdMove, RdTo
  <2> QED BY <1>2, <1>5, <2>1, FollowStep
<1> QED BY <1>1, <1>5, <1>6, <1>7, <1>8, <1>9 DEF Control

(* A load returns to its caller: Control stays. *)
LEMMA ReturnToCallerKeeps ==
  ASSUME Control, NEW t \in Threads, ReturnToCaller(t)
  PROVE  Control'
<1>1. Types /\ Types'
  BY Own, ReturnToCallerTypes
<1>2. storage' = storage /\ active_addr' = active_addr /\ slots' = slots
      /\ control' = control /\ generation' = generation /\ wr' = wr
  BY <1>1, ReturnToCallerEffect
<1>3. OnlyRd(t) /\ OnlyWr(t)
  <2>1. OnlyRd(t)
    BY <1>1, <1>2, ReturnToCallerEffect DEF RdIdle, RdTo
  <2>2. OnlyWr(t)
    BY <1>2 DEF OnlyWr
  <2> QED BY <2>1, <2>2
<1>4. /\ rd[t].pc = "return" /\ wr[t].pc = "idle"
      /\ rd'[t].pc = "idle" /\ rd'[t].src = NoStorage /\ rd'[t].debt = NoDebt
  BY <1>1, ReturnToCallerEffect DEF RdIdle, RdTo, WriteOps
<1>5. LoadShape' /\ WriteShape' /\ HelpShape' /\ OnlyRd(t) /\ OnlyWr(t)
  <2>1. LoadOk(t, rd'[t])
    BY <1>4, Own, Slots DEF LoadOk, LoadingPc, Announced
  <2>2. WriteOk(wr'[t], rd'[t])
    BY <1>2, <1>4, Own, Slots DEF WriteOk, CasPc, WriteOps
  <2>3. HelpOk(t, wr'[t])
    BY <1>2, Own
  <2> QED BY <1>3, <2>1, <2>2, <2>3, OwnOnly
<1>6. GuardsAreFast'
  <2>1. [ptr |-> rd[t].ptr, debt |-> rd[t].debt] \in Handles
  /\ [ptr |-> rd[t].ptr, debt |-> rd[t].debt].debt = rd[t].debt
    BY <1>1, FrameTypes, Handle, HandleFields, Constants
  <2>2. rd[t].debt \in FastSlots \cup {NoDebt}
    BY <1>4, Own DEF LoadOk, WriteOk
  <2>3. held' = held \/ Give([ptr |-> rd[t].ptr, debt |-> rd[t].debt])
    BY <1>1, ReturnToCallerEffect
  <2>4. GuardsAreFast
    BY DEF Control
  <2> QED BY <1>1, <1>2, <2>1, <2>2, <2>3, <2>4, GiveFast, GuardsAlone
<1>7. Live'
  <2>1. LiveOk(rd[t], wr[t], storage, active_addr)
    BY <1>4, Own
  <2>2. LiveOk(rd'[t], wr'[t], storage, active_addr)
    BY <1>2, <1>4, <2>1 DEF LiveOk
  <2> QED BY <1>2, <1>3, <2>2, LiveStep
<1>8. HelpingSlotOwned'
  <2>1. slots[<<t, HELPING>>] = NONE
    BY <1>4, Own DEF OwnerOk
  <2> QED BY <1>2, <1>3, <2>1, OwnerStep DEF OwnerOk
<1>9. ControlFollows'
  <2>1. FollowOk(rd'[t], control[t], generation[t], active_addr[t])
    BY ZenonT(30), <1>4, Own DEF FollowOk, Announced, WriteOk
  <2> QED BY <1>2, <1>3, <2>1, FollowStep
<1> QED BY <1>1, <1>5, <1>6, <1>7, <1>8, <1>9 DEF Control

(* A dropped value is released: Control stays. *)
LEMMA DropDecKeeps ==
  ASSUME Control, NEW t \in Threads, DropDec(t)
  PROVE  Control'
<1>1. Types /\ Types'
  BY Own, DropDecTypes
<1>2. storage' = storage /\ active_addr' = active_addr /\ slots' = slots
      /\ control' = control /\ generation' = generation /\ held' = held
         /\ wr' = wr
  BY <1>1, DropDecEffect
<1>3. OnlyRd(t) /\ OnlyWr(t)
  <2>1. OnlyRd(t)
    BY <1>1, <1>2, DropDecEffect DEF RdIdle, RdTo
  <2>2. OnlyWr(t)
    BY <1>2 DEF OnlyWr
  <2> QED BY <2>1, <2>2
<1>4. /\ rd[t].pc = "drop_dec"
      /\ rd'[t].pc = "idle" /\ rd'[t].src = NoStorage /\ rd'[t].debt = NoDebt
  BY <1>1, DropDecEffect DEF RdIdle, RdTo, WriteOps
<1>5. LoadShape' /\ WriteShape' /\ HelpShape' /\ OnlyRd(t) /\ OnlyWr(t)
  <2>1. LoadOk(t, rd'[t])
    BY <1>4, Own, Slots DEF LoadOk, LoadingPc, Announced
  <2>2. WriteOk(wr'[t], rd'[t])
    BY <1>2, <1>4, Own, Slots DEF WriteOk, CasPc, WriteOps
  <2>3. HelpOk(t, wr'[t])
    BY <1>2, Own
  <2> QED BY <1>3, <2>1, <2>2, <2>3, OwnOnly
<1>6. GuardsAreFast'
  BY <1>2, GuardsAlone
<1>7. Live'
  <2>1. LiveOk(rd[t], wr[t], storage, active_addr)
    BY <1>4, Own
  <2>2. LiveOk(rd'[t], wr'[t], storage, active_addr)
    BY <1>2, <1>4, <2>1 DEF LiveOk
  <2> QED BY <1>2, <1>3, <2>2, LiveStep
<1>8. HelpingSlotOwned'
  <2>1. slots[<<t, HELPING>>] = NONE
    BY <1>4, Own DEF OwnerOk, WriteOk, LoadOk
  <2> QED BY <1>2, <1>3, <2>1, OwnerStep DEF OwnerOk
<1>9. ControlFollows'
  <2>1. FollowOk(rd'[t], control[t], generation[t], active_addr[t])
    BY ZenonT(30), <1>4, Own DEF FollowOk, Announced, WriteOk
  <2> QED BY <1>2, <1>3, <2>1, FollowStep
<1> QED BY <1>1, <1>5, <1>6, <1>7, <1>8, <1>9 DEF Control

(* A load begins: Control stays. *)
LEMMA LoadKeeps ==
  ASSUME Control, NEW t \in Threads, NEW s \in Storages, NEW op \in {"load",
         "load_full"}, Load(t, s, op),
         rd[t].pc = "idle", wr[t].pc = "idle"
  PROVE  Control'
<1>1. Types /\ Types'
  BY Own, LoadTypes
<1>2. storage' = storage /\ active_addr' = active_addr /\ slots' = slots
      /\ control' = control /\ generation' = generation /\ held' = held
         /\ wr' = wr
  BY <1>1, LoadEffect
<1>3. OnlyRd(t) /\ OnlyWr(t)
  <2>1. OnlyRd(t)
    BY <1>1, <1>2, LoadEffect DEF LoadBegins, RdTo
  <2>2. OnlyWr(t)
    BY <1>2 DEF OnlyWr
  <2> QED BY <2>1, <2>2
<1>4. /\ rd'[t].pc \in {"scan", "get_debt"} /\ rd'[t].src = s
        /\ rd'[t].debt = NoDebt /\ rd'[t].full = (op = "load_full")
      /\ storage[s] # Dropped
  BY <1>1, LoadEffect DEF LoadBegins, RdTo, WriteOps
<1>5. LoadShape' /\ WriteShape' /\ HelpShape' /\ OnlyRd(t) /\ OnlyWr(t)
  <2>1. LoadOk(t, rd'[t])
    BY <1>4, Own, Slots DEF LoadOk, LoadingPc, Announced
  <2>2. WriteOk(wr'[t], rd'[t])
    BY <1>2, <1>4, Own, Slots DEF WriteOk, CasPc, WriteOps
  <2>3. HelpOk(t, wr'[t])
    BY <1>2, Own
  <2> QED BY <1>3, <2>1, <2>2, <2>3, OwnOnly
<1>6. GuardsAreFast'
  BY <1>2, GuardsAlone
<1>7. Live'
  <2>1. LiveOk(rd[t], wr[t], storage, active_addr)
    BY <1>4, Own
  <2>2. LiveOk(rd'[t], wr'[t], storage, active_addr)
    BY <1>2, <1>4, <2>1 DEF LiveOk
  <2> QED BY <1>2, <1>3, <2>2, LiveStep
<1>8. HelpingSlotOwned'
  <2>1. slots[<<t, HELPING>>] = NONE
    BY <1>4, Own DEF OwnerOk, WriteOk, LoadOk
  <2> QED BY <1>2, <1>3, <2>1, OwnerStep DEF OwnerOk
<1>9. ControlFollows'
  <2>1. FollowOk(rd'[t], control[t], generation[t], active_addr[t])
    BY ZenonT(30), <1>4, Own DEF FollowOk, Announced, WriteOk
  <2> QED BY <1>2, <1>3, <2>1, FollowStep
<1> QED BY <1>1, <1>5, <1>6, <1>7, <1>8, <1>9 DEF Control

(* A caller makes its guard an owned value: Control stays. *)
LEMMA IntoInnerKeeps ==
  ASSUME Control, NEW t \in Threads, NEW h \in Handles, held[h] > 0,
         IntoInner(t, h),
         rd[t].pc = "idle", wr[t].pc = "idle"
  PROVE  Control'
<1>1. Types /\ Types'
  BY Own, IntoInnerTypes
<1>2. storage' = storage /\ active_addr' = active_addr /\ slots' = slots
      /\ control' = control /\ generation' = generation /\ wr' = wr
  BY <1>1, IntoInnerEffect
<1>3. OnlyRd(t) /\ OnlyWr(t)
  <2>1. OnlyRd(t)
    BY <1>1, <1>2, IntoInnerEffect DEF RdTo
  <2>2. OnlyWr(t)
    BY <1>2 DEF OnlyWr
  <2> QED BY <2>1, <2>2
<1>4. /\ rd'[t].pc = "inc" /\ rd'[t].src = NoStorage /\ rd'[t].debt = h.debt
      /\ h.debt # NoDebt
  BY <1>1, IntoInnerEffect DEF RdTo, WriteOps
<1>5. LoadShape' /\ WriteShape' /\ HelpShape' /\ OnlyRd(t) /\ OnlyWr(t)
  <2>1. LoadOk(t, rd'[t])
    BY <1>4, Own, Slots DEF LoadOk, LoadingPc, Announced, Control, GuardsAreFast
  <2>2. WriteOk(wr'[t], rd'[t])
    BY <1>2, <1>4, Own, Slots DEF WriteOk, CasPc, WriteOps
  <2>3. HelpOk(t, wr'[t])
    BY <1>2, Own
  <2> QED BY <1>3, <2>1, <2>2, <2>3, OwnOnly
<1>6. GuardsAreFast'
  BY <1>1, TakeFast, IntoInnerEffect DEF Control
<1>7. Live'
  <2>1. LiveOk(rd[t], wr[t], storage, active_addr)
    BY <1>4, Own
  <2>2. LiveOk(rd'[t], wr'[t], storage, active_addr)
    BY <1>2, <1>4, <2>1 DEF LiveOk
  <2> QED BY <1>2, <1>3, <2>2, LiveStep
<1>8. HelpingSlotOwned'
  <2>1. slots[<<t, HELPING>>] = NONE
    BY <1>4, Own DEF OwnerOk, WriteOk, LoadOk
  <2> QED BY <1>2, <1>3, <2>1, OwnerStep DEF OwnerOk
<1>9. ControlFollows'
  <2>1. FollowOk(rd'[t], control[t], generation[t], active_addr[t])
    BY ZenonT(30), <1>4, Own DEF FollowOk, Announced, WriteOk
  <2> QED BY <1>2, <1>3, <2>1, FollowStep
<1> QED BY <1>1, <1>5, <1>6, <1>7, <1>8, <1>9 DEF Control

(* A caller drops a guard: Control stays. *)
LEMMA DropKeeps ==
  ASSUME Control, NEW t \in Threads, NEW h \in Handles, held[h] > 0, Drop(t, h),
         rd[t].pc = "idle", wr[t].pc = "idle"
  PROVE  Control'
<1>1. Types /\ Types'
  BY Own, DropTypes
<1>2. storage' = storage /\ active_addr' = active_addr /\ control' = control
      /\ generation' = generation /\ wr' = wr
  BY <1>1, DropEffect
<1>3. OnlyRd(t) /\ OnlyWr(t)
  <2>1. OnlyRd(t)
    BY <1>1, <1>2, DropEffect DEF RdMove, RdTo, OnlyRd
  <2>2. OnlyWr(t)
    BY <1>2 DEF OnlyWr
  <2> QED BY <2>1, <2>2
<1>4. /\ \/ rd'[t] = rd[t]
         \/ rd'[t].pc = "drop_dec" /\ rd'[t].src = rd[t].src /\ rd'[t].debt = rd[t].debt
  BY <1>1, DropEffect DEF RdMove, RdTo, WriteOps
<1>5. LoadShape' /\ WriteShape' /\ HelpShape' /\ OnlyRd(t) /\ OnlyWr(t)
  <2>1. LoadOk(t, rd'[t])
    BY <1>4, Own, Slots DEF LoadOk, LoadingPc, Announced
  <2>2. WriteOk(wr'[t], rd'[t])
    BY <1>2, <1>4, Own, Slots DEF WriteOk, CasPc, WriteOps
  <2>3. HelpOk(t, wr'[t])
    BY <1>2, Own
  <2> QED BY <1>3, <2>1, <2>2, <2>3, OwnOnly
<1>6. GuardsAreFast'
  BY <1>1, TakeFast, DropEffect DEF Control
<1>7. Live'
  <2>1. LiveOk(rd[t], wr[t], storage, active_addr)
    BY <1>4, Own
  <2>2. LiveOk(rd'[t], wr'[t], storage, active_addr)
    BY <1>2, <1>4, <2>1 DEF LiveOk
  <2> QED BY <1>2, <1>3, <2>2, LiveStep
<1>8. HelpingSlotOwned'
  <2>1. slots[<<t, HELPING>>] = NONE
    BY Own DEF OwnerOk
  <2>2. CASE slots' = slots
    BY <1>3, <2>1, <2>2, OwnerStep DEF OwnerOk
  <2>3. CASE Paid(h.debt, h.ptr) \/ PaidBefore(h.debt, h.ptr)
    <3>1. slots'[<<t, HELPING>>] = NONE
      BY <2>1, <2>3, PaidNone
    <3> QED BY <1>3, <2>3, <3>1, OwnerPaid DEF OwnerOk
  <2> QED BY <1>1, <2>2, <2>3, DropEffect
<1>9. ControlFollows'
  <2>1. FollowOk(rd'[t], control[t], generation[t], active_addr[t])
    BY ZenonT(30), <1>4, Own DEF FollowOk, Announced, WriteOk
  <2> QED BY <1>2, <1>3, <2>1, FollowStep
<1> QED BY <1>1, <1>5, <1>6, <1>7, <1>8, <1>9 DEF Control

(* swap puts a value in: Control stays. *)
LEMMA SwapKeeps ==
  ASSUME Control, NEW t \in Threads, NEW s \in Storages, NEW op \in {"swap",
         "store"}, Swap(t, s, op),
         rd[t].pc = "idle", wr[t].pc = "idle"
  PROVE  Control'
<1>1. Types /\ Types'
  BY Own, SwapTypes
<1>2. active_addr' = active_addr /\ slots' = slots /\ control' = control
      /\ generation' = generation /\ rd' = rd
  BY <1>1, SwapEffect
<1>3. OnlyRd(t) /\ OnlyWr(t)
  <2>1. OnlyRd(t)
    BY <1>2 DEF OnlyRd
  <2>2. OnlyWr(t)
    BY <1>1, <1>2, SwapEffect DEF WrBegins, WrTo
  <2> QED BY <2>1, <2>2
<1>4. /\ wr'[t].pc = "pre_pay" /\ wr'[t].op = op /\ wr'[t].dst = s
        /\ wr'[t].odebt = NoDebt /\ wr'[t].observed = IDLE
      /\ storage[s] # Dropped
      /\ op \in {"swap", "store"}
  BY <1>1, SwapEffect DEF WrBegins, WrTo, WriteOps
<1>5. LoadShape' /\ WriteShape' /\ HelpShape' /\ OnlyRd(t) /\ OnlyWr(t)
  <2>1. LoadOk(t, rd'[t])
    BY <1>2, Own
  <2>2. WriteOk(wr'[t], rd'[t])
    BY <1>2, <1>4, Own, Slots DEF WriteOk, CasPc, WriteOps
  <2>3. HelpOk(t, wr'[t])
    BY <1>4, Own DEF HelpOk, HelpPc
  <2> QED BY <1>3, <2>1, <2>2, <2>3, OwnOnly
<1>6. GuardsAreFast'
  BY NewValueFast DEF Swap, Control
<1>7. Live'
  <2>1. \A z \in Storages : storage'[z] = Dropped => storage[z] = Dropped
    <3>1. PICK v \in Pool[s] : storage' = [storage EXCEPT ![s] = v]
      BY <1>1, SwapEffect DEF Publish
    <3>2. v \in Ptrs
      BY <3>1, PoolAssumption
    <3> QED BY <1>1, <3>1, <3>2, SentinelAssumption DEF Types
  <2>2. LiveOk(rd[t], wr[t], storage, active_addr)
    BY Own
  <2>3. LiveOk(rd[t], wr'[t], storage, active_addr) /\ wr'[t].pc # "idle" /\ wr'[t].dst \in Storages
    BY <1>4, <2>2 DEF LiveOk
  <2>4. rd'[t] = rd[t]
    BY <1>2
  <2> QED BY <1>2, <1>3, <2>1, <2>3, <2>4, LiveStorages
<1>8. HelpingSlotOwned' /\ ControlFollows'
  BY <1>2, LoadsAlone
<1> QED BY <1>1, <1>5, <1>6, <1>7, <1>8 DEF Control

(* A storage is consumed or dropped: Control stays. *)
LEMMA EndStorageKeeps ==
  ASSUME Control, NEW t \in Threads, NEW s \in Storages,
         NEW op \in {"drop_storage", "unwrap_storage"}, EndStorage(t, s, op),
         rd[t].pc = "idle", wr[t].pc = "idle"
  PROVE  Control'
<1>1. Types /\ Types'
  BY Own, EndStorageTypes
<1>2. active_addr' = active_addr /\ slots' = slots /\ control' = control
      /\ generation' = generation /\ held' = held /\ rd' = rd
  BY <1>1, EndStorageEffect
<1>3. OnlyRd(t) /\ OnlyWr(t)
  <2>1. OnlyRd(t)
    BY <1>2 DEF OnlyRd
  <2>2. OnlyWr(t)
    BY <1>1, <1>2, EndStorageEffect DEF WrBegins, WrTo
  <2> QED BY <2>1, <2>2
<1>4. /\ wr'[t].pc = "pre_pay" /\ wr'[t].op = op /\ wr'[t].dst = s
        /\ wr'[t].odebt = NoDebt /\ wr'[t].observed = IDLE
      /\ op \in {"drop_storage", "unwrap_storage"}
  BY <1>1, EndStorageEffect DEF WrBegins, WrTo, WriteOps
<1>5. LoadShape' /\ WriteShape' /\ HelpShape' /\ OnlyRd(t) /\ OnlyWr(t)
  <2>1. LoadOk(t, rd'[t])
    BY <1>2, Own
  <2>2. WriteOk(wr'[t], rd'[t])
    BY <1>2, <1>4, Own, Slots DEF WriteOk, CasPc, WriteOps
  <2>3. HelpOk(t, wr'[t])
    BY <1>4, Own DEF HelpOk, HelpPc
  <2> QED BY <1>3, <2>1, <2>2, <2>3, OwnOnly
<1>6. GuardsAreFast'
  BY <1>2, GuardsAlone
<1>7. Live'
  <2>1. /\ storage' = [storage EXCEPT ![s] = Dropped]
        /\ \A u \in Threads : rd[u].src # s /\ wr[u].dst # s
    BY <1>1, EndStorageEffect
  <2>2. \A z \in Storages : z # s => storage'[z] = storage[z]
    BY <1>1, <2>1 DEF Types
  <2>3. ASSUME NEW u \in Threads
        PROVE  LiveOk(rd'[u], wr'[u], storage', active_addr')
    <3>1. LiveOk(rd[u], wr[u], storage, active_addr)
      BY Own
    <3>2. /\ rd[u].src \in Storages \cup {NoStorage}
          /\ wr[u].dst \in Storages \/ (wr[u].pc = "idle" /\ wr[u].op = "none")
      <4>1. WriteOk(wr[u], rd[u])
        BY Own
      <4>2. rd[u].src \in Storages \cup {NoStorage}
        BY <1>1, FrameTypes
      <4> QED BY <4>1, <4>2 DEF WriteOk
    <3>3. CASE u = t
      BY <1>2, <1>4, <2>1, <2>2, <3>1, <3>2, <3>3 DEF LiveOk
    <3>4. CASE u # t
      <4>1. wr'[u] = wr[u]
        BY <1>3, <3>4 DEF OnlyWr
      <4> QED BY <1>2, <2>1, <2>2, <3>1, <3>2, <4>1 DEF LiveOk
    <3> QED BY <3>3, <3>4
  <2> QED BY <2>3 DEF Live
<1>8. HelpingSlotOwned' /\ ControlFollows'
  BY <1>2, LoadsAlone
<1> QED BY <1>1, <1>5, <1>6, <1>7, <1>8 DEF Control

(* compare_and_swap begins: Control stays. *)
LEMMA CompareAndSwapKeeps ==
  ASSUME Control, NEW t \in Threads, NEW s \in Storages, NEW p \in Pool[s],
         CompareAndSwap(t, s, p),
         rd[t].pc = "idle", wr[t].pc = "idle"
  PROVE  Control'
<1>1. Types /\ Types'
  BY Own, CompareAndSwapTypes
<1>2. storage' = storage /\ active_addr' = active_addr /\ slots' = slots
      /\ control' = control /\ generation' = generation
  BY <1>1, CompareAndSwapEffect
<1>3. OnlyRd(t) /\ OnlyWr(t)
  <2>1. OnlyRd(t)
    BY <1>1, <1>2, CompareAndSwapEffect DEF LoadBegins, RdTo
  <2>2. OnlyWr(t)
    BY <1>1, <1>2, CompareAndSwapEffect DEF WrBegins, WrTo
  <2> QED BY <2>1, <2>2
<1>4. /\ storage[s] # Dropped
      /\ rd'[t].pc \in {"scan", "get_debt"} /\ rd'[t].src = s
        /\ rd'[t].debt = NoDebt /\ rd'[t].full = FALSE
      /\ wr'[t].pc = "cas_load" /\ wr'[t].op = "compare_and_swap" /\ wr'[t].dst = s
        /\ wr'[t].odebt = NoDebt /\ wr'[t].observed = IDLE
  BY <1>1, CompareAndSwapEffect DEF LoadBegins, RdTo, WrBegins, WrTo, WriteOps
<1>5. LoadShape' /\ WriteShape' /\ HelpShape' /\ OnlyRd(t) /\ OnlyWr(t)
  <2>1. LoadOk(t, rd'[t])
    BY <1>4, Own, Slots DEF LoadOk, LoadingPc, Announced
  <2>2. WriteOk(wr'[t], rd'[t])
    BY <1>2, <1>4, Own, Slots DEF WriteOk, CasPc, WriteOps
  <2>3. HelpOk(t, wr'[t])
    BY <1>4, Own DEF HelpOk, HelpPc
  <2> QED BY <1>3, <2>1, <2>2, <2>3, OwnOnly
<1>6. GuardsAreFast'
  BY NewValueFast DEF CompareAndSwap, Control
<1>7. Live'
  <2>1. LiveOk(rd[t], wr[t], storage, active_addr)
    BY <1>4, Own
  <2>2. LiveOk(rd'[t], wr'[t], storage, active_addr)
    BY <1>2, <1>4, <2>1 DEF LiveOk
  <2> QED BY <1>2, <1>3, <2>2, LiveStep
<1>8. HelpingSlotOwned'
  <2>1. slots[<<t, HELPING>>] = NONE
    BY <1>4, Own DEF OwnerOk, WriteOk, LoadOk
  <2> QED BY <1>2, <1>3, <2>1, OwnerStep DEF OwnerOk
<1>9. ControlFollows'
  <2>1. FollowOk(rd'[t], control[t], generation[t], active_addr[t])
    BY ZenonT(30), <1>4, Own DEF FollowOk, Announced, WriteOk
  <2> QED BY <1>2, <1>3, <2>1, FollowStep
<1> QED BY <1>1, <1>5, <1>6, <1>7, <1>8, <1>9 DEF Control

(* compare_and_swap has loaded: Control stays. *)
LEMMA CasLoadedKeeps ==
  ASSUME Control, NEW t \in Threads, CasLoaded(t)
  PROVE  Control'
<1>1. Types /\ Types'
  BY Own, CasLoadedTypes
<1>2. storage' = storage /\ active_addr' = active_addr /\ slots' = slots
      /\ control' = control /\ generation' = generation
  BY <1>1, CasLoadedEffect
<1>3. OnlyRd(t) /\ OnlyWr(t)
  <2>1. OnlyRd(t)
    BY <1>1, <1>2, CasLoadedEffect DEF RdIdle, RdTo
  <2>2. OnlyWr(t)
    BY <1>1, <1>2, CasLoadedEffect DEF WrCas, WrTo, WrGo
  <2> QED BY <2>1, <2>2
<1>4. /\ wr[t].pc = "cas_load" /\ rd[t].pc = "return"
      /\ rd'[t].pc = "idle" /\ rd'[t].src = NoStorage /\ rd'[t].debt = NoDebt
      /\ wr'[t].op = wr[t].op /\ wr'[t].dst = wr[t].dst
         /\ wr'[t].node = wr[t].node /\ wr'[t].observed = wr[t].observed
            /\ wr'[t].current = wr[t].current
      /\ \/ wr'[t].pc = "drop_new" /\ wr'[t].odebt = wr[t].odebt
         \/ /\ wr'[t].pc = "cas" /\ wr'[t].old = wr'[t].current
            /\ wr'[t].odebt = rd[t].debt
  <2>1. wr[t].pc = "cas_load" /\ rd[t].pc = "return" /\ RdIdle(t)
    BY <1>1, CasLoadedEffect
  <2>2. rd'[t].pc = "idle" /\ rd'[t].src = NoStorage /\ rd'[t].debt = NoDebt
    BY <2>1 DEF RdIdle, RdTo
  <2>3. CASE WrGo(t, "drop_new")
    BY <2>1, <2>2, <2>3 DEF WrGo, WrCas, WrTo
  <2>4. CASE rd[t].ptr = wr[t].current /\ WrCas(t, "cas", rd[t].ptr, rd[t].debt)
    BY <2>1, <2>2, <2>4 DEF WrCas, WrTo
  <2> QED BY <1>1, <2>3, <2>4, CasLoadedEffect
<1>5. LoadShape' /\ WriteShape' /\ HelpShape' /\ OnlyRd(t) /\ OnlyWr(t)
  <2>1. LoadOk(t, rd'[t])
    BY <1>4, Own, Slots DEF LoadOk, LoadingPc, Announced
  <2>2. WriteOk(wr'[t], rd'[t])
    BY <1>2, <1>4, Own, Slots DEF WriteOk, CasPc, WriteOps, LoadOk
  <2>3. HelpOk(t, wr'[t])
    BY <1>4, Own DEF HelpOk, HelpPc
  <2> QED BY <1>3, <2>1, <2>2, <2>3, OwnOnly
<1>6. GuardsAreFast'
  <2>1. [ptr |-> rd[t].ptr, debt |-> rd[t].debt] \in Handles
  /\ [ptr |-> rd[t].ptr, debt |-> rd[t].debt].debt = rd[t].debt
    BY <1>1, FrameTypes, Handle, HandleFields, Constants
  <2>2. rd[t].debt \in FastSlots \cup {NoDebt}
    BY <1>4, Own DEF LoadOk, WriteOk
  <2>3. held' = held \/ Give([ptr |-> rd[t].ptr, debt |-> rd[t].debt])
    BY <1>1, CasLoadedEffect
  <2>4. GuardsAreFast
    BY DEF Control
  <2> QED BY <1>1, <1>2, <2>1, <2>2, <2>3, <2>4, GiveFast, GuardsAlone
<1>7. Live'
  <2>1. LiveOk(rd[t], wr[t], storage, active_addr) /\ wr[t].op = "compare_and_swap"
    BY <1>4, Own DEF WriteOk, CasPc
  <2>2. LiveOk(rd'[t], wr'[t], storage, active_addr)
    BY <1>2, <1>4, <2>1 DEF LiveOk
  <2> QED BY <1>2, <1>3, <2>2, LiveStep
<1>8. HelpingSlotOwned'
  <2>1. slots[<<t, HELPING>>] = NONE
    BY <1>4, Own DEF OwnerOk
  <2> QED BY <1>2, <1>3, <2>1, OwnerStep DEF OwnerOk
<1>9. ControlFollows'
  <2>1. FollowOk(rd'[t], control[t], generation[t], active_addr[t])
    BY ZenonT(30), <1>4, Own DEF FollowOk, Announced, WriteOk
  <2> QED BY <1>2, <1>3, <2>1, FollowStep
<1> QED BY <1>1, <1>5, <1>6, <1>7, <1>8, <1>9 DEF Control

(* compare_and_swap drops the value it did not put in: Control stays. *)
LEMMA DropNewKeeps ==
  ASSUME Control, NEW t \in Threads, DropNew(t)
  PROVE  Control'
<1>1. Types /\ Types'
  BY Own, DropNewTypes
<1>2. storage' = storage /\ active_addr' = active_addr /\ slots' = slots
      /\ control' = control /\ generation' = generation /\ held' = held
         /\ rd' = rd
  BY <1>1, DropNewEffect
<1>3. OnlyRd(t) /\ OnlyWr(t)
  <2>1. OnlyRd(t)
    BY <1>2 DEF OnlyRd
  <2>2. OnlyWr(t)
    BY <1>1, <1>2, DropNewEffect DEF WrIdle, WrBegins, WrTo
  <2> QED BY <2>1, <2>2
<1>4. /\ wr[t].pc = "drop_new"
      /\ wr'[t].pc = "idle" /\ wr'[t].op = "none" /\ wr'[t].dst = NoStorage
        /\ wr'[t].odebt = NoDebt /\ wr'[t].observed = IDLE
  BY <1>1, DropNewEffect DEF WrIdle, WrBegins, WrTo, WriteOps
<1>5. LoadShape' /\ WriteShape' /\ HelpShape' /\ OnlyRd(t) /\ OnlyWr(t)
  <2>1. LoadOk(t, rd'[t])
    BY <1>2, Own
  <2>2. WriteOk(wr'[t], rd'[t])
    BY <1>2, <1>4, Own, Slots DEF WriteOk, CasPc, WriteOps
  <2>3. HelpOk(t, wr'[t])
    BY <1>4, Own DEF HelpOk, HelpPc
  <2> QED BY <1>3, <2>1, <2>2, <2>3, OwnOnly
<1>6. GuardsAreFast'
  BY <1>2, GuardsAlone
<1>7. Live'
  <2>1. LiveOk(rd[t], wr[t], storage, active_addr)
    BY <1>4, Own
  <2>2. LiveOk(rd'[t], wr'[t], storage, active_addr)
    BY <1>2, <1>4, <2>1 DEF LiveOk
  <2> QED BY <1>2, <1>3, <2>2, LiveStep
<1>8. HelpingSlotOwned' /\ ControlFollows'
  BY <1>2, LoadsAlone
<1> QED BY <1>1, <1>5, <1>6, <1>7, <1>8 DEF Control

(* The exchange succeeds: Control stays. *)
LEMMA CasExchangeKeeps ==
  ASSUME Control, NEW t \in Threads, CasExchange(t)
  PROVE  Control'
<1>1. Types /\ Types'
  BY Own, CasExchangeTypes
<1>2. active_addr' = active_addr /\ slots' = slots /\ control' = control
      /\ generation' = generation /\ held' = held /\ rd' = rd
  BY <1>1, CasExchangeEffect
<1>3. WritesOn(t)
  BY <1>1, CasExchangeEffect DEF WritesOn, CasPc, WrTo
<1>4. HelpOk(t, wr'[t])
  <2>1. HelpOk(t, wr[t]) /\ wr[t].pc = "cas"
    BY <1>1, CasExchangeEffect, Own
  <2>2. wr'[t].pc = "pre_pay" /\ wr'[t].observed = wr[t].observed
    BY <1>1, CasExchangeEffect DEF WrTo
  <2> QED BY <2>1, <2>2 DEF HelpOk, HelpPc
<1>5. LoadShape' /\ WriteShape' /\ HelpShape' /\ OnlyRd(t) /\ OnlyWr(t)
  BY <1>2, <1>3, <1>4, WritesOnShape
<1>6. GuardsAreFast'
  BY <1>2, GuardsAlone
<1>7. Live'
  <2>1. \A s \in Storages : storage'[s] = Dropped => storage[s] = Dropped
    <3>1. /\ storage' = [storage EXCEPT ![wr[t].dst] = wr[t].new]
          /\ wr[t].new \in Ptrs
      BY <1>1, CasExchangeEffect, FrameTypes DEF Publish
    <3> QED BY <1>1, <3>1, SentinelAssumption DEF Types
  <2>2. LiveOk(rd[t], wr[t], storage, active_addr)
    BY Own
  <2>3. /\ wr'[t].pc = "pre_pay" /\ wr'[t].op = wr[t].op
        /\ wr'[t].dst = wr[t].dst /\ wr[t].dst \in Storages
    BY <1>1, CasExchangeEffect, Own DEF WrTo, WriteOk
  <2>4. LiveOk(rd[t], wr'[t], storage, active_addr)
    BY <2>2, <2>3 DEF LiveOk
  <2>5. rd'[t] = rd[t]
    BY <1>2
  <2> QED BY <1>2, <1>5, <2>1, <2>3, <2>4, <2>5, LiveStorages
<1>8. HelpingSlotOwned' /\ ControlFollows'
  BY <1>2, LoadsAlone
<1> QED BY <1>1, <1>5, <1>6, <1>7, <1>8 DEF Control

(* The exchange fails: Control stays. *)
LEMMA CasFailedKeeps ==
  ASSUME Control, NEW t \in Threads, CasFailed(t)
  PROVE  Control'
<1>1. Types /\ Types'
  BY Own, CasFailedTypes
<1>2. storage' = storage /\ active_addr' = active_addr /\ slots' = slots
      /\ control' = control /\ generation' = generation /\ held' = held
         /\ rd' = rd
  BY <1>1, CasFailedEffect
<1>3. OnlyRd(t) /\ OnlyWr(t)
  <2>1. OnlyRd(t)
    BY <1>2 DEF OnlyRd
  <2>2. OnlyWr(t)
    BY <1>1, <1>2, CasFailedEffect DEF WrGo, WrCas, WrTo
  <2> QED BY <2>1, <2>2
<1>4. /\ wr[t].pc = "cas"
      /\ wr'[t].op = wr[t].op /\ wr'[t].dst = wr[t].dst
         /\ wr'[t].odebt = wr[t].odebt /\ wr'[t].observed = wr[t].observed
      /\ \/ wr[t].odebt = NoDebt /\ wr'[t].pc = "cas_dec"
         \/ wr[t].odebt # NoDebt /\ wr'[t].pc = "cas_pay"
  <2>1. wr[t].pc = "cas"
    BY <1>1, CasFailedEffect
  <2>2. CASE wr[t].odebt = NoDebt /\ WrGo(t, "cas_dec")
    BY <2>1, <2>2 DEF WrGo, WrCas, WrTo
  <2>3. CASE wr[t].odebt # NoDebt /\ WrGo(t, "cas_pay")
    BY <2>1, <2>3 DEF WrGo, WrCas, WrTo
  <2> QED BY <1>1, <2>2, <2>3, CasFailedEffect
<1>5. LoadShape' /\ WriteShape' /\ HelpShape' /\ OnlyRd(t) /\ OnlyWr(t)
  <2>1. LoadOk(t, rd'[t])
    BY <1>2, Own
  <2>2. WriteOk(wr'[t], rd'[t])
    BY <1>2, <1>4, Own, Slots DEF WriteOk, CasPc, WriteOps
  <2>3. HelpOk(t, wr'[t])
    BY <1>4, Own DEF HelpOk, HelpPc
  <2> QED BY <1>3, <2>1, <2>2, <2>3, OwnOnly
<1>6. GuardsAreFast'
  BY <1>2, GuardsAlone
<1>7. Live'
  <2>1. LiveOk(rd[t], wr[t], storage, active_addr) /\ wr[t].op = "compare_and_swap"
    BY <1>4, Own DEF WriteOk, CasPc
  <2>2. LiveOk(rd'[t], wr'[t], storage, active_addr)
    BY <1>2, <1>4, <2>1 DEF LiveOk
  <2> QED BY <1>2, <1>3, <2>2, LiveStep
<1>8. HelpingSlotOwned' /\ ControlFollows'
  BY <1>2, LoadsAlone
<1> QED BY <1>1, <1>5, <1>6, <1>7, <1>8 DEF Control

(* The old guard pays its debt: Control stays. *)
LEMMA CasPayKeeps ==
  ASSUME Control, NEW t \in Threads, CasPay(t)
  PROVE  Control'
<1>1. Types /\ Types'
  BY Own, CasPayTypes
<1>2. storage' = storage /\ active_addr' = active_addr /\ control' = control
      /\ generation' = generation /\ held' = held /\ rd' = rd
  BY <1>1, CasPayEffect
<1>3. OnlyRd(t) /\ OnlyWr(t)
  <2>1. OnlyRd(t)
    BY <1>2 DEF OnlyRd
  <2>2. OnlyWr(t)
    BY <1>1, <1>2, CasPayEffect DEF WrCas, WrTo
  <2> QED BY <2>1, <2>2
<1>4. /\ wr[t].pc = "cas_pay"
      /\ wr'[t].op = wr[t].op /\ wr'[t].dst = wr[t].dst
         /\ wr'[t].observed = wr[t].observed
      /\ wr'[t].pc \in {"cas_retry", "cas_dec"} /\ wr'[t].odebt = NoDebt
  BY <1>1, CasPayEffect DEF WrCas, WrTo, WriteOps
<1>5. LoadShape' /\ WriteShape' /\ HelpShape' /\ OnlyRd(t) /\ OnlyWr(t)
  <2>1. LoadOk(t, rd'[t])
    BY <1>2, Own
  <2>2. WriteOk(wr'[t], rd'[t])
    BY <1>2, <1>4, Own, Slots DEF WriteOk, CasPc, WriteOps
  <2>3. HelpOk(t, wr'[t])
    BY <1>4, Own DEF HelpOk, HelpPc
  <2> QED BY <1>3, <2>1, <2>2, <2>3, OwnOnly
<1>6. GuardsAreFast'
  BY <1>2, GuardsAlone
<1>7. Live'
  <2>1. LiveOk(rd[t], wr[t], storage, active_addr) /\ wr[t].op = "compare_and_swap"
    BY <1>4, Own DEF WriteOk, CasPc
  <2>2. LiveOk(rd'[t], wr'[t], storage, active_addr)
    BY <1>2, <1>4, <2>1 DEF LiveOk
  <2> QED BY <1>2, <1>3, <2>2, LiveStep
<1>8. HelpingSlotOwned'
  <2>1. Paid(wr[t].odebt, wr[t].old) \/ PaidBefore(wr[t].odebt, wr[t].old)
    BY <1>1, CasPayEffect
  <2>2. slots[<<t, HELPING>>] = NONE
    BY <1>1, CasPayEffect, Own DEF OwnerOk, WriteOk
  <2>3. slots'[<<t, HELPING>>] = NONE
    BY <2>1, <2>2, PaidNone
  <2> QED BY <1>5, <2>1, <2>3, OwnerPaid DEF OwnerOk
<1>9. ControlFollows'
  BY <1>2 DEF Control, ControlFollows
<1> QED BY <1>1, <1>5, <1>6, <1>7, <1>8, <1>9 DEF Control

(* The old guard drops its count: Control stays. *)
LEMMA CasDecKeeps ==
  ASSUME Control, NEW t \in Threads, CasDec(t)
  PROVE  Control'
<1>1. Types /\ Types'
  BY Own, CasDecTypes
<1>2. storage' = storage /\ active_addr' = active_addr /\ slots' = slots
      /\ control' = control /\ generation' = generation /\ held' = held
         /\ rd' = rd
  BY <1>1, CasDecEffect
<1>3. OnlyRd(t) /\ OnlyWr(t)
  <2>1. OnlyRd(t)
    BY <1>2 DEF OnlyRd
  <2>2. OnlyWr(t)
    BY <1>1, <1>2, CasDecEffect DEF WrGo, WrCas, WrTo
  <2> QED BY <2>1, <2>2
<1>4. /\ wr[t].pc = "cas_dec"
      /\ wr'[t].op = wr[t].op /\ wr'[t].dst = wr[t].dst
         /\ wr'[t].odebt = wr[t].odebt /\ wr'[t].observed = wr[t].observed
      /\ wr'[t].pc = "cas_retry"
  BY <1>1, CasDecEffect DEF WrGo, WrCas, WrTo, WriteOps
<1>5. LoadShape' /\ WriteShape' /\ HelpShape' /\ OnlyRd(t) /\ OnlyWr(t)
  <2>1. LoadOk(t, rd'[t])
    BY <1>2, Own
  <2>2. WriteOk(wr'[t], rd'[t])
    BY <1>2, <1>4, Own, Slots DEF WriteOk, CasPc, WriteOps
  <2>3. HelpOk(t, wr'[t])
    BY <1>4, Own DEF HelpOk, HelpPc
  <2> QED BY <1>3, <2>1, <2>2, <2>3, OwnOnly
<1>6. GuardsAreFast'
  BY <1>2, GuardsAlone
<1>7. Live'
  <2>1. LiveOk(rd[t], wr[t], storage, active_addr) /\ wr[t].op = "compare_and_swap"
    BY <1>4, Own DEF WriteOk, CasPc
  <2>2. LiveOk(rd'[t], wr'[t], storage, active_addr)
    BY <1>2, <1>4, <2>1 DEF LiveOk
  <2> QED BY <1>2, <1>3, <2>2, LiveStep
<1>8. HelpingSlotOwned' /\ ControlFollows'
  BY <1>2, LoadsAlone
<1> QED BY <1>1, <1>5, <1>6, <1>7, <1>8 DEF Control

(* compare_and_swap loads again: Control stays. *)
LEMMA CasRetryKeeps ==
  ASSUME Control, NEW t \in Threads, CasRetry(t)
  PROVE  Control'
<1>1. Types /\ Types'
  BY Own, CasRetryTypes
<1>2. storage' = storage /\ active_addr' = active_addr /\ slots' = slots
      /\ control' = control /\ generation' = generation /\ held' = held
  BY <1>1, CasRetryEffect
<1>3. OnlyRd(t) /\ OnlyWr(t)
  <2>1. OnlyRd(t)
    BY <1>1, <1>2, CasRetryEffect DEF LoadBegins, RdTo
  <2>2. OnlyWr(t)
    BY <1>1, <1>2, CasRetryEffect DEF WrCas, WrTo
  <2> QED BY <2>1, <2>2
<1>4. /\ wr[t].pc = "cas_retry"
      /\ wr'[t].op = wr[t].op /\ wr'[t].dst = wr[t].dst
         /\ wr'[t].odebt = wr[t].odebt /\ wr'[t].observed = wr[t].observed
      /\ wr'[t].pc = "cas_load"
      /\ rd'[t].pc \in {"scan", "get_debt"} /\ rd'[t].src = wr[t].dst
        /\ rd'[t].debt = NoDebt /\ rd'[t].full = FALSE
  BY <1>1, CasRetryEffect DEF LoadBegins, RdTo, WrCas, WrTo, WriteOps
<1>5. LoadShape' /\ WriteShape' /\ HelpShape' /\ OnlyRd(t) /\ OnlyWr(t)
  <2>1. LoadOk(t, rd'[t])
    BY <1>4, Own, Slots DEF LoadOk, LoadingPc, Announced, WriteOk
  <2>2. WriteOk(wr'[t], rd'[t])
    BY <1>2, <1>4, Own, Slots DEF WriteOk, CasPc, WriteOps
  <2>3. HelpOk(t, wr'[t])
    BY <1>4, Own DEF HelpOk, HelpPc
  <2> QED BY <1>3, <2>1, <2>2, <2>3, OwnOnly
<1>6. GuardsAreFast'
  BY <1>2, GuardsAlone
<1>7. Live'
  <2>1. LiveOk(rd[t], wr[t], storage, active_addr) /\ wr[t].op = "compare_and_swap"
    BY <1>4, Own DEF WriteOk, CasPc
  <2>2. LiveOk(rd'[t], wr'[t], storage, active_addr)
    BY <1>2, <1>4, <2>1 DEF LiveOk
  <2> QED BY <1>2, <1>3, <2>2, LiveStep
<1>8. HelpingSlotOwned'
  <2>1. slots[<<t, HELPING>>] = NONE
    BY <1>4, Own DEF OwnerOk, WriteOk, LoadOk
  <2> QED BY <1>2, <1>3, <2>1, OwnerStep DEF OwnerOk
<1>9. ControlFollows'
  <2>1. FollowOk(rd'[t], control[t], generation[t], active_addr[t])
    BY ZenonT(30), <1>4, Own DEF FollowOk, Announced, WriteOk
  <2> QED BY <1>2, <1>3, <2>1, FollowStep
<1> QED BY <1>1, <1>5, <1>6, <1>7, <1>8, <1>9 DEF Control

(* pay_all counts the value before the walk: Control stays. *)
LEMMA PrePayKeeps ==
  ASSUME Control, NEW t \in Threads, PrePay(t)
  PROVE  Control'
<1>1. Types /\ Types'
  BY Own, PrePayTypes
<1>2. storage' = storage /\ active_addr' = active_addr /\ slots' = slots
      /\ control' = control /\ generation' = generation /\ held' = held
         /\ rd' = rd
  BY <1>1, PrePayEffect
<1>3. WritesOn(t)
  BY <1>1, PrePayEffect DEF WritesOn, CasPc, WrSlot, WrTo
<1>4. HelpOk(t, wr'[t])
  BY ZenonT(30), <1>1, PrePayEffect, Own DEF HelpOk, HelpPc, WrSlot, WrTo
<1>5. LoadShape' /\ WriteShape' /\ HelpShape' /\ OnlyRd(t) /\ OnlyWr(t)
  BY <1>2, <1>3, <1>4, WritesOnShape
<1>6. GuardsAreFast'
  BY <1>2, GuardsAlone
<1>7. Live'
  <2>1. /\ wr'[t].pc \notin {"help_addr", "replacement"}
        /\ wr'[t].pc \in {"their_space", "fill", "help_cas", "help_drop"} =>
             wr[t].pc \in {"their_space", "fill", "help_cas", "help_drop"}
    BY <1>1, PrePayEffect DEF WrSlot, WrTo
  <2> QED BY <1>2, <1>3, <2>1, WritesOnLive
<1>8. HelpingSlotOwned' /\ ControlFollows'
  BY <1>2, LoadsAlone
<1> QED BY <1>1, <1>5, <1>6, <1>7, <1>8 DEF Control

(* pay_all reads the control word of a node: Control stays. *)
LEMMA HelpKeeps ==
  ASSUME Control, NEW t \in Threads, Help(t)
  PROVE  Control'
<1>1. Types /\ Types'
  BY Own, HelpTypes
<1>2. storage' = storage /\ active_addr' = active_addr /\ slots' = slots
      /\ control' = control /\ generation' = generation /\ held' = held
         /\ rd' = rd
  BY <1>1, HelpEffect
<1>3. WritesOn(t)
  BY <1>1, HelpEffect DEF WritesOn, CasPc, WrHelp, WrTo, WrHelped
<1>4. HelpOk(t, wr'[t])
  <2>1. wr[t].pc = "help" /\ HelpOk(t, wr[t])
    BY <1>1, HelpEffect, Own
  <2>2. CASE /\ IsGen(control[wr[t].node])
             /\ WrHelp(t, "help_addr", control[wr[t].node], wr[t].repl, wr[t].their)
    <3>1. wr[t].node # t
      <4>1. rd[t].pc = "idle" /\ FollowOk(rd[t], control[t], generation[t], active_addr[t])
        BY <2>1, Own DEF WriteOk
      <4>2. control[t] = IDLE
        BY <4>1 DEF FollowOk, Announced
      <4> QED BY <2>2, <4>2, Words
    <3> QED BY <2>2, <3>1 DEF HelpOk, HelpPc, WrHelp, WrTo
  <2>3. CASE WrHelped(t)
    BY <2>3 DEF HelpOk, HelpPc, WrHelped, WrTo
  <2> QED BY <1>1, <2>2, <2>3, HelpEffect
<1>5. LoadShape' /\ WriteShape' /\ HelpShape' /\ OnlyRd(t) /\ OnlyWr(t)
  BY <1>2, <1>3, <1>4, WritesOnShape
<1>6. GuardsAreFast'
  BY <1>2, GuardsAlone
<1>7. Live'
  <2>1. LiveOk(rd[t], wr[t], storage, active_addr)
    BY Own
  <2>2. CASE WrHelped(t)
    <3>1. wr'[t].pc = "pay"
      BY <2>2 DEF WrHelped, WrTo
    <3> QED BY <1>2, <1>3, <3>1, WritesOnLive
  <2>3. CASE /\ IsGen(control[wr[t].node])
             /\ WrHelp(t, "help_addr", control[wr[t].node], wr[t].repl, wr[t].their)
    <3>1. wr'[t].pc = "help_addr" /\ wr'[t].dst = wr[t].dst /\ wr'[t].node = wr[t].node
          /\ wr'[t].op = wr[t].op /\ wr[t].node \in Threads
      BY <1>1, <2>3, FrameTypes DEF WrHelp, WrTo
    <3>2. active_addr[wr[t].node] = wr[t].dst => storage[wr[t].dst] # Dropped
      <4>1. FollowOk(rd[wr[t].node], control[wr[t].node], generation[wr[t].node],
                     active_addr[wr[t].node])
        BY <3>1, Own
      <4>2. rd[wr[t].node].pc \in Announced
        BY <2>3, <4>1, Words DEF FollowOk
      <4>3. active_addr[wr[t].node] = rd[wr[t].node].src
        BY <4>1, <4>2 DEF FollowOk
      <4>4. /\ LoadOk(wr[t].node, rd[wr[t].node])
            /\ LiveOk(rd[wr[t].node], wr[wr[t].node], storage, active_addr)
        BY <3>1, Own
      <4>5. rd[wr[t].node].src \in Storages
        BY <4>2, <4>4 DEF LoadOk, LoadingPc
      <4> QED BY <4>3, <4>4, <4>5 DEF LiveOk
    <3>3. LiveOk(rd[t], wr'[t], storage, active_addr)
      BY <2>1, <3>1, <3>2 DEF LiveOk
    <3> QED BY <1>2, <1>5, <3>3, LiveStep
  <2> QED BY <1>1, <2>2, <2>3, HelpEffect
<1>8. HelpingSlotOwned' /\ ControlFollows'
  BY <1>2, LoadsAlone
<1> QED BY <1>1, <1>5, <1>6, <1>7, <1>8 DEF Control

(* help compares the address: Control stays. *)
LEMMA HelpCheckAddrKeeps ==
  ASSUME Control, NEW t \in Threads, HelpCheckAddr(t)
  PROVE  Control'
<1>1. Types /\ Types'
  BY Own, HelpCheckAddrTypes
<1>2. storage' = storage /\ active_addr' = active_addr /\ slots' = slots
      /\ control' = control /\ generation' = generation /\ held' = held
  BY <1>1, HelpCheckAddrEffect
<1>3. OnlyRd(t) /\ OnlyWr(t)
  <2>1. OnlyRd(t)
    BY <1>1, <1>2, HelpCheckAddrEffect DEF LoadBegins, RdTo, OnlyRd
  <2>2. OnlyWr(t)
    BY <1>1, <1>2, HelpCheckAddrEffect DEF WrGo, WrCas, WrTo
  <2> QED BY <2>1, <2>2
<1>4. /\ wr[t].pc = "help_addr"
      /\ wr'[t].op = wr[t].op /\ wr'[t].dst = wr[t].dst
         /\ wr'[t].odebt = wr[t].odebt /\ wr'[t].node = wr[t].node
            /\ wr'[t].observed = wr[t].observed
      /\ \/ /\ active_addr[wr[t].node] = wr[t].dst /\ wr'[t].pc = "replacement"
            /\ rd'[t].pc \in {"scan", "get_debt"} /\ rd'[t].src = wr[t].dst
              /\ rd'[t].debt = NoDebt /\ rd'[t].full = TRUE
         \/ wr'[t].pc = "help_recheck" /\ rd'[t] = rd[t]
  <2>1. wr[t].pc = "help_addr"
    BY <1>1, HelpCheckAddrEffect
  <2>2. CASE /\ active_addr[wr[t].node] = wr[t].dst
             /\ LoadBegins(t, wr[t].dst, TRUE) /\ WrGo(t, "replacement")
    BY <2>1, <2>2 DEF LoadBegins, RdTo, WrGo, WrCas, WrTo
  <2>3. CASE rd' = rd /\ WrGo(t, "help_recheck")
    BY <2>1, <2>3 DEF WrGo, WrCas, WrTo
  <2> QED BY <1>1, <2>2, <2>3, HelpCheckAddrEffect
<1>5. LoadShape' /\ WriteShape' /\ HelpShape' /\ OnlyRd(t) /\ OnlyWr(t)
  <2>1. LoadOk(t, rd'[t])
    <3>1. wr[t].dst \in Storages
      BY <1>4, Own DEF WriteOk
    <3>2. LoadOk(t, rd[t])
      BY Own
    <3> QED BY <1>4, <3>1, <3>2 DEF LoadOk, LoadingPc, Announced
  <2>2. WriteOk(wr'[t], rd'[t])
    BY <1>2, <1>4, Own, Slots DEF WriteOk, CasPc, WriteOps
  <2>3. HelpOk(t, wr'[t])
    BY <1>4, Own DEF HelpOk, HelpPc
  <2> QED BY <1>3, <2>1, <2>2, <2>3, OwnOnly
<1>6. GuardsAreFast'
  BY <1>2, GuardsAlone
<1>7. Live'
  <2>1. LiveOk(rd[t], wr[t], storage, active_addr)
    BY <1>4, Own
  <2>2. LiveOk(rd'[t], wr'[t], storage, active_addr)
    BY <1>2, <1>4, <2>1 DEF LiveOk
  <2> QED BY <1>2, <1>3, <2>2, LiveStep
<1>8. HelpingSlotOwned'
  <2>1. slots[<<t, HELPING>>] = NONE
    BY <1>4, Own DEF OwnerOk, WriteOk, LoadOk
  <2> QED BY <1>2, <1>3, <2>1, OwnerStep DEF OwnerOk
<1>9. ControlFollows'
  <2>1. FollowOk(rd'[t], control[t], generation[t], active_addr[t])
    BY ZenonT(30), <1>4, Own DEF FollowOk, Announced, WriteOk
  <2> QED BY <1>2, <1>3, <2>1, FollowStep
<1> QED BY <1>1, <1>5, <1>6, <1>7, <1>8, <1>9 DEF Control

(* help reads the control word again: Control stays. *)
LEMMA HelpRecheckKeeps ==
  ASSUME Control, NEW t \in Threads, HelpRecheck(t)
  PROVE  Control'
<1>1. Types /\ Types'
  BY Own, HelpRecheckTypes
<1>2. storage' = storage /\ active_addr' = active_addr /\ slots' = slots
      /\ control' = control /\ generation' = generation /\ held' = held
         /\ rd' = rd
  BY <1>1, HelpRecheckEffect
<1>3. WritesOn(t)
  BY <1>1, HelpRecheckEffect DEF WritesOn, CasPc, WrHelp, WrTo, WrHelped
<1>4. HelpOk(t, wr'[t])
  BY ZenonT(30), <1>1, HelpRecheckEffect, Own DEF HelpOk, HelpPc, WrHelp, WrTo,
     WrHelped
<1>5. LoadShape' /\ WriteShape' /\ HelpShape' /\ OnlyRd(t) /\ OnlyWr(t)
  BY <1>2, <1>3, <1>4, WritesOnShape
<1>6. GuardsAreFast'
  BY <1>2, GuardsAlone
<1>7. Live'
  <2>1. LiveOk(rd[t], wr[t], storage, active_addr)
    BY Own
  <2>2. CASE WrHelped(t)
    <3>1. wr'[t].pc = "pay"
      BY <2>2 DEF WrHelped, WrTo
    <3> QED BY <1>2, <1>3, <3>1, WritesOnLive
  <2>3. CASE /\ IsGen(control[wr[t].node])
             /\ WrHelp(t, "help_addr", control[wr[t].node], wr[t].repl, wr[t].their)
    <3>1. wr'[t].pc = "help_addr" /\ wr'[t].dst = wr[t].dst /\ wr'[t].node = wr[t].node
          /\ wr'[t].op = wr[t].op /\ wr[t].node \in Threads
      BY <1>1, <2>3, FrameTypes DEF WrHelp, WrTo
    <3>2. active_addr[wr[t].node] = wr[t].dst => storage[wr[t].dst] # Dropped
      <4>1. FollowOk(rd[wr[t].node], control[wr[t].node], generation[wr[t].node],
                     active_addr[wr[t].node])
        BY <3>1, Own
      <4>2. rd[wr[t].node].pc \in Announced
        BY <2>3, <4>1, Words DEF FollowOk
      <4>3. active_addr[wr[t].node] = rd[wr[t].node].src
        BY <4>1, <4>2 DEF FollowOk
      <4>4. /\ LoadOk(wr[t].node, rd[wr[t].node])
            /\ LiveOk(rd[wr[t].node], wr[wr[t].node], storage, active_addr)
        BY <3>1, Own
      <4>5. rd[wr[t].node].src \in Storages
        BY <4>2, <4>4 DEF LoadOk, LoadingPc
      <4> QED BY <4>3, <4>4, <4>5 DEF LiveOk
    <3>3. LiveOk(rd[t], wr'[t], storage, active_addr)
      BY <2>1, <3>1, <3>2 DEF LiveOk
    <3> QED BY <1>2, <1>5, <3>3, LiveStep
  <2> QED BY <1>1, <2>2, <2>3, HelpRecheckEffect
<1>8. HelpingSlotOwned' /\ ControlFollows'
  BY <1>2, LoadsAlone
<1> QED BY <1>1, <1>5, <1>6, <1>7, <1>8 DEF Control

(* help has its replacement: Control stays. *)
LEMMA HelpReplacementKeeps ==
  ASSUME Control, NEW t \in Threads, HelpReplacement(t)
  PROVE  Control'
<1>1. Types /\ Types'
  BY Own, HelpReplacementTypes
<1>2. storage' = storage /\ active_addr' = active_addr /\ slots' = slots
      /\ control' = control /\ generation' = generation /\ held' = held
  BY <1>1, HelpReplacementEffect
<1>3. OnlyRd(t) /\ OnlyWr(t)
  <2>1. OnlyRd(t)
    BY <1>1, <1>2, HelpReplacementEffect DEF RdIdle, RdTo
  <2>2. OnlyWr(t)
    BY <1>1, <1>2, HelpReplacementEffect DEF WrHelp, WrTo
  <2> QED BY <2>1, <2>2
<1>4. /\ wr[t].pc = "replacement"
      /\ rd[t].pc = "return"
      /\ rd'[t].pc = "idle" /\ rd'[t].src = NoStorage /\ rd'[t].debt = NoDebt
      /\ wr'[t].op = wr[t].op /\ wr'[t].dst = wr[t].dst
         /\ wr'[t].odebt = wr[t].odebt /\ wr'[t].node = wr[t].node
            /\ wr'[t].observed = wr[t].observed
      /\ wr'[t].pc = "their_space"
  BY <1>1, HelpReplacementEffect DEF RdIdle, RdTo, WrHelp, WrTo, WriteOps
<1>5. LoadShape' /\ WriteShape' /\ HelpShape' /\ OnlyRd(t) /\ OnlyWr(t)
  <2>1. LoadOk(t, rd'[t])
    BY <1>4, Own, Slots DEF LoadOk, LoadingPc, Announced
  <2>2. WriteOk(wr'[t], rd'[t])
    BY <1>2, <1>4, Own, Slots DEF WriteOk, CasPc, WriteOps
  <2>3. HelpOk(t, wr'[t])
    BY <1>4, Own DEF HelpOk, HelpPc
  <2> QED BY <1>3, <2>1, <2>2, <2>3, OwnOnly
<1>6. GuardsAreFast'
  BY <1>2, GuardsAlone
<1>7. Live'
  <2>1. LiveOk(rd[t], wr[t], storage, active_addr)
    BY <1>4, Own
  <2>2. LiveOk(rd'[t], wr'[t], storage, active_addr)
    BY <1>2, <1>4, <2>1 DEF LiveOk
  <2> QED BY <1>2, <1>3, <2>2, LiveStep
<1>8. HelpingSlotOwned'
  <2>1. slots[<<t, HELPING>>] = NONE
    BY <1>4, Own DEF OwnerOk
  <2> QED BY <1>2, <1>3, <2>1, OwnerStep DEF OwnerOk
<1>9. ControlFollows'
  <2>1. FollowOk(rd'[t], control[t], generation[t], active_addr[t])
    BY ZenonT(30), <1>4, Own DEF FollowOk, Announced, WriteOk
  <2> QED BY <1>2, <1>3, <2>1, FollowStep
<1> QED BY <1>1, <1>5, <1>6, <1>7, <1>8, <1>9 DEF Control

(* help reads the offered space: Control stays. *)
LEMMA HelpTheirSpaceKeeps ==
  ASSUME Control, NEW t \in Threads, HelpTheirSpace(t)
  PROVE  Control'
<1>1. Types /\ Types'
  BY Own, HelpTheirSpaceTypes
<1>2. storage' = storage /\ active_addr' = active_addr /\ slots' = slots
      /\ control' = control /\ generation' = generation /\ held' = held
         /\ rd' = rd
  BY <1>1, HelpTheirSpaceEffect
<1>3. WritesOn(t)
  BY <1>1, HelpTheirSpaceEffect DEF WritesOn, CasPc, WrHelp, WrTo
<1>4. HelpOk(t, wr'[t])
  BY ZenonT(30), <1>1, HelpTheirSpaceEffect, Own DEF HelpOk, HelpPc, WrHelp,
     WrTo
<1>5. LoadShape' /\ WriteShape' /\ HelpShape' /\ OnlyRd(t) /\ OnlyWr(t)
  BY <1>2, <1>3, <1>4, WritesOnShape
<1>6. GuardsAreFast'
  BY <1>2, GuardsAlone
<1>7. Live'
  <2>1. /\ wr'[t].pc \notin {"help_addr", "replacement"}
        /\ wr'[t].pc \in {"their_space", "fill", "help_cas", "help_drop"} =>
             wr[t].pc \in {"their_space", "fill", "help_cas", "help_drop"}
    BY <1>1, HelpTheirSpaceEffect DEF WrHelp, WrTo
  <2> QED BY <1>2, <1>3, <2>1, WritesOnLive
<1>8. HelpingSlotOwned' /\ ControlFollows'
  BY <1>2, LoadsAlone
<1> QED BY <1>1, <1>5, <1>6, <1>7, <1>8 DEF Control

(* help fills its own space: Control stays. *)
LEMMA HelpFillKeeps ==
  ASSUME Control, NEW t \in Threads, HelpFill(t)
  PROVE  Control'
<1>1. Types /\ Types'
  BY Own, HelpFillTypes
<1>2. storage' = storage /\ active_addr' = active_addr /\ slots' = slots
      /\ control' = control /\ generation' = generation /\ held' = held
         /\ rd' = rd
  BY <1>1, HelpFillEffect
<1>3. WritesOn(t)
  BY <1>1, HelpFillEffect DEF WritesOn, CasPc, WrGo, WrCas, WrTo
<1>4. HelpOk(t, wr'[t])
  BY ZenonT(30), <1>1, HelpFillEffect, Own DEF HelpOk, HelpPc, WrGo, WrCas, WrTo
<1>5. LoadShape' /\ WriteShape' /\ HelpShape' /\ OnlyRd(t) /\ OnlyWr(t)
  BY <1>2, <1>3, <1>4, WritesOnShape
<1>6. GuardsAreFast'
  BY <1>2, GuardsAlone
<1>7. Live'
  <2>1. /\ wr'[t].pc \notin {"help_addr", "replacement"}
        /\ wr'[t].pc \in {"their_space", "fill", "help_cas", "help_drop"} =>
             wr[t].pc \in {"their_space", "fill", "help_cas", "help_drop"}
    BY <1>1, HelpFillEffect DEF WrGo, WrCas, WrTo
  <2> QED BY <1>2, <1>3, <2>1, WritesOnLive
<1>8. HelpingSlotOwned' /\ ControlFollows'
  BY <1>2, LoadsAlone
<1> QED BY <1>1, <1>5, <1>6, <1>7, <1>8 DEF Control

(* help exchanges the control word: Control stays. *)
LEMMA HelpCasKeeps ==
  ASSUME Control, NEW t \in Threads, HelpCas(t)
  PROVE  Control'
<1>1. Types /\ Types'
  BY Own, HelpCasTypes
<1>2. storage' = storage /\ active_addr' = active_addr /\ slots' = slots
      /\ generation' = generation /\ held' = held /\ rd' = rd
  BY <1>1, HelpCasEffect
<1>3. WritesOn(t)
  BY <1>1, HelpCasEffect DEF WritesOn, CasPc, WrGo, WrCas, WrTo, WrHelp
<1>4. HelpOk(t, wr'[t])
  BY ZenonT(30), <1>1, HelpCasEffect, Own DEF HelpOk, HelpPc, WrGo, WrCas,
     WrTo, WrHelp
<1>5. LoadShape' /\ WriteShape' /\ HelpShape' /\ OnlyRd(t) /\ OnlyWr(t)
  BY <1>2, <1>3, <1>4, WritesOnShape
<1>6. GuardsAreFast'
  BY <1>2, GuardsAlone
<1>7. Live'
  <2>1. /\ wr'[t].pc \notin {"help_addr", "replacement"}
        /\ wr'[t].pc \in {"their_space", "fill", "help_cas", "help_drop"} =>
             wr[t].pc \in {"their_space", "fill", "help_cas", "help_drop"}
    BY <1>1, HelpCasEffect DEF WrGo, WrCas, WrTo, WrHelp
  <2> QED BY <1>2, <1>3, <2>1, WritesOnLive
<1>8. HelpingSlotOwned'
  BY <1>2 DEF Control, HelpingSlotOwned
<1>9. ControlFollows'
  <2> DEFINE n == wr[t].node
  <2>1. n \in Threads /\ wr[t].pc = "help_cas" /\ IsGen(wr[t].observed)
        /\ space_offer[t] \in Threads
    BY <1>1, HelpCasEffect, FrameTypes, Own DEF HelpOk, HelpPc, Types
  <2>2. ASSUME NEW u \in Threads
        PROVE  FollowOk(rd'[u], control'[u], generation'[u], active_addr'[u])
    <3>1. FollowOk(rd[u], control[u], generation[u], active_addr[u])
      BY Own
    <3>2. \/ control'[u] = control[u]
          \/ IsGen(control[u]) /\ control'[u] = Replacement(space_offer[t])
      BY <1>1, <2>1, HelpCasEffect DEF Types
    <3>3. CASE IsGen(control[u]) /\ control'[u] = Replacement(space_offer[t])
      <4>1. rd[u].pc \in Announced
        BY <3>1, <3>3, Words DEF FollowOk
      <4> QED BY <1>2, <2>1, <3>1, <3>3, <4>1 DEF FollowOk
    <3> QED BY <1>2, <3>1, <3>2, <3>3
  <2> QED BY <2>2 DEF ControlFollows
<1> QED BY <1>1, <1>5, <1>6, <1>7, <1>8, <1>9 DEF Control

(* help takes over the offered space: Control stays. *)
LEMMA HelpSwitchKeeps ==
  ASSUME Control, NEW t \in Threads, HelpSwitch(t)
  PROVE  Control'
<1>1. Types /\ Types'
  BY Own, HelpSwitchTypes
<1>2. storage' = storage /\ active_addr' = active_addr /\ slots' = slots
      /\ control' = control /\ generation' = generation /\ held' = held
         /\ rd' = rd
  BY <1>1, HelpSwitchEffect
<1>3. WritesOn(t)
  BY <1>1, HelpSwitchEffect DEF WritesOn, CasPc, WrHelped, WrTo
<1>4. HelpOk(t, wr'[t])
  BY SMTT(30), <1>1, HelpSwitchEffect, Own DEF HelpOk, HelpPc, WrHelped, WrTo
<1>5. LoadShape' /\ WriteShape' /\ HelpShape' /\ OnlyRd(t) /\ OnlyWr(t)
  BY <1>2, <1>3, <1>4, WritesOnShape
<1>6. GuardsAreFast'
  BY <1>2, GuardsAlone
<1>7. Live'
  <2>1. /\ wr'[t].pc \notin {"help_addr", "replacement"}
        /\ wr'[t].pc \in {"their_space", "fill", "help_cas", "help_drop"} =>
             wr[t].pc \in {"their_space", "fill", "help_cas", "help_drop"}
    BY <1>1, HelpSwitchEffect DEF WrHelped, WrTo
  <2> QED BY <1>2, <1>3, <2>1, WritesOnLive
<1>8. HelpingSlotOwned' /\ ControlFollows'
  BY <1>2, LoadsAlone
<1> QED BY <1>1, <1>5, <1>6, <1>7, <1>8 DEF Control

(* help drops a replacement nobody took: Control stays. *)
LEMMA HelpDropKeeps ==
  ASSUME Control, NEW t \in Threads, HelpDrop(t)
  PROVE  Control'
<1>1. Types /\ Types'
  BY Own, HelpDropTypes
<1>2. storage' = storage /\ active_addr' = active_addr /\ slots' = slots
      /\ control' = control /\ generation' = generation /\ held' = held
         /\ rd' = rd
  BY <1>1, HelpDropEffect
<1>3. WritesOn(t)
  BY <1>1, HelpDropEffect DEF WritesOn, CasPc, WrHelp, WrTo, WrHelped
<1>4. HelpOk(t, wr'[t])
  <2>1. wr[t].pc = "help_drop" /\ wr[t].node # t
    BY <1>1, HelpDropEffect, Own DEF HelpOk
  <2>2. CASE IsGen(wr[t].observed) /\ WrHelp(t, "help_addr", wr[t].observed, Null, wr[t].their)
    BY <2>1, <2>2 DEF HelpOk, HelpPc, WrHelp, WrTo
  <2>3. CASE WrHelped(t)
    BY <2>3 DEF HelpOk, HelpPc, WrHelped, WrTo
  <2> QED BY <1>1, <2>2, <2>3, HelpDropEffect
<1>5. LoadShape' /\ WriteShape' /\ HelpShape' /\ OnlyRd(t) /\ OnlyWr(t)
  BY <1>2, <1>3, <1>4, WritesOnShape
<1>6. GuardsAreFast'
  BY <1>2, GuardsAlone
<1>7. Live'
  <2>1. LiveOk(rd[t], wr[t], storage, active_addr) /\ wr[t].pc = "help_drop"
    BY <1>1, Own, HelpDropEffect
  <2>2. CASE WrHelped(t)
    <3>1. wr'[t].pc = "pay"
      BY <2>2 DEF WrHelped, WrTo
    <3> QED BY <1>2, <1>3, <3>1, WritesOnLive
  <2>3. CASE WrHelp(t, "help_addr", wr[t].observed, Null, wr[t].their)
    <3>1. wr'[t].pc = "help_addr" /\ wr'[t].dst = wr[t].dst /\ wr'[t].node = wr[t].node
          /\ wr'[t].op = wr[t].op
      BY <2>3 DEF WrHelp, WrTo
    <3>2. LiveOk(rd[t], wr'[t], storage, active_addr)
      BY <2>1, <3>1 DEF LiveOk
    <3> QED BY <1>2, <1>5, <3>2, LiveStep
  <2> QED BY <1>1, <2>2, <2>3, HelpDropEffect
<1>8. HelpingSlotOwned' /\ ControlFollows'
  BY <1>2, LoadsAlone
<1> QED BY <1>1, <1>5, <1>6, <1>7, <1>8 DEF Control

(* pay_all pays one slot: Control stays. *)
LEMMA PaySlotKeeps ==
  ASSUME Control, NEW t \in Threads, PaySlot(t)
  PROVE  Control'
<1>1. Types /\ Types'
  BY Own, PaySlotTypes
<1>2. storage' = storage /\ active_addr' = active_addr /\ control' = control
      /\ generation' = generation /\ held' = held /\ rd' = rd
  BY <1>1, PaySlotEffect
<1>3. WritesOn(t)
  BY <1>1, PaySlotEffect DEF WritesOn, CasPc, SlotDone, WrSlot, WrTo, WrGo,
     WrCas
<1>4. HelpOk(t, wr'[t])
  BY ZenonT(30), <1>1, PaySlotEffect, Own DEF HelpOk, HelpPc, SlotDone, WrSlot,
     WrTo, WrGo, WrCas
<1>5. LoadShape' /\ WriteShape' /\ HelpShape' /\ OnlyRd(t) /\ OnlyWr(t)
  BY <1>2, <1>3, <1>4, WritesOnShape
<1>6. GuardsAreFast'
  BY <1>2, GuardsAlone
<1>7. Live'
  <2>1. /\ wr'[t].pc \notin {"help_addr", "replacement"}
        /\ wr'[t].pc \in {"their_space", "fill", "help_cas", "help_drop"} =>
             wr[t].pc \in {"their_space", "fill", "help_cas", "help_drop"}
    BY <1>1, PaySlotEffect DEF SlotDone, WrSlot, WrTo, WrGo, WrCas
  <2> QED BY <1>2, <1>3, <2>1, WritesOnLive
<1>8. HelpingSlotOwned'
  <2>1. Paid(<<wr[t].node, wr[t].k>>, wr[t].old) \/ PaidBefore(<<wr[t].node, wr[t].k>>, wr[t].old)
    BY <1>1, PaySlotEffect
  <2>2. slots[<<t, HELPING>>] = NONE
    BY <1>1, PaySlotEffect, Own DEF OwnerOk, WriteOk
  <2>3. slots'[<<t, HELPING>>] = NONE
    BY <2>1, <2>2, PaidNone
  <2> QED BY <1>5, <2>1, <2>3, OwnerPaid DEF OwnerOk
<1>9. ControlFollows'
  BY <1>2 DEF Control, ControlFollows
<1> QED BY <1>1, <1>5, <1>6, <1>7, <1>8, <1>9 DEF Control

(* pay_all counts for the next debt: Control stays. *)
LEMMA PayIncKeeps ==
  ASSUME Control, NEW t \in Threads, PayInc(t)
  PROVE  Control'
<1>1. Types /\ Types'
  BY Own, PayIncTypes
<1>2. storage' = storage /\ active_addr' = active_addr /\ slots' = slots
      /\ control' = control /\ generation' = generation /\ held' = held
         /\ rd' = rd
  BY <1>1, PayIncEffect
<1>3. WritesOn(t)
  BY <1>1, PayIncEffect DEF WritesOn, CasPc, SlotDone, WrSlot, WrTo
<1>4. HelpOk(t, wr'[t])
  BY ZenonT(30), <1>1, PayIncEffect, Own DEF HelpOk, HelpPc, SlotDone, WrSlot,
     WrTo
<1>5. LoadShape' /\ WriteShape' /\ HelpShape' /\ OnlyRd(t) /\ OnlyWr(t)
  BY <1>2, <1>3, <1>4, WritesOnShape
<1>6. GuardsAreFast'
  BY <1>2, GuardsAlone
<1>7. Live'
  <2>1. /\ wr'[t].pc \notin {"help_addr", "replacement"}
        /\ wr'[t].pc \in {"their_space", "fill", "help_cas", "help_drop"} =>
             wr[t].pc \in {"their_space", "fill", "help_cas", "help_drop"}
    BY <1>1, PayIncEffect DEF SlotDone, WrSlot, WrTo
  <2> QED BY <1>2, <1>3, <2>1, WritesOnLive
<1>8. HelpingSlotOwned' /\ ControlFollows'
  BY <1>2, LoadsAlone
<1> QED BY <1>1, <1>5, <1>6, <1>7, <1>8 DEF Control

(* pay_all drops its last count: Control stays. *)
LEMMA ReleaseValKeeps ==
  ASSUME Control, NEW t \in Threads, ReleaseVal(t)
  PROVE  Control'
<1>1. Types /\ Types'
  BY Own, ReleaseValTypes
<1>2. storage' = storage /\ active_addr' = active_addr /\ slots' = slots
      /\ control' = control /\ generation' = generation /\ rd' = rd
  BY <1>1, ReleaseValEffect
<1>3. OnlyRd(t) /\ OnlyWr(t)
  <2>1. OnlyRd(t)
    BY <1>2 DEF OnlyRd
  <2>2. OnlyWr(t)
    BY <1>1, <1>2, ReleaseValEffect DEF WrGo, WrCas, WrTo, WrIdle, WrBegins
  <2> QED BY <2>1, <2>2
<1>4. /\ wr[t].pc = "release"
      /\ \/ wr'[t].pc = "drop_old" /\ wr'[t].op = wr[t].op
            /\ wr'[t].dst = wr[t].dst /\ wr'[t].odebt = wr[t].odebt
            /\ wr'[t].observed = wr[t].observed
         \/ wr'[t].pc = "idle" /\ wr'[t].op = "none" /\ wr'[t].dst = NoStorage
              /\ wr'[t].odebt = NoDebt /\ wr'[t].observed = IDLE
  <2>1. wr[t].pc = "release"
    BY <1>1, ReleaseValEffect
  <2>2. CASE WrIdle(t)
    BY <2>1, <2>2 DEF WrIdle, WrBegins, WrTo
  <2>3. CASE WrGo(t, "drop_old")
    BY <2>1, <2>3 DEF WrGo, WrCas, WrTo
  <2> QED BY <1>1, <2>2, <2>3, ReleaseValEffect
<1>5. LoadShape' /\ WriteShape' /\ HelpShape' /\ OnlyRd(t) /\ OnlyWr(t)
  <2>1. LoadOk(t, rd'[t])
    BY <1>2, Own
  <2>2. WriteOk(wr'[t], rd'[t])
    BY <1>2, <1>4, Own, Slots DEF WriteOk, CasPc, WriteOps
  <2>3. HelpOk(t, wr'[t])
    BY <1>4, Own DEF HelpOk, HelpPc
  <2> QED BY <1>3, <2>1, <2>2, <2>3, OwnOnly
<1>6. GuardsAreFast'
  <2>1. Owned(wr[t].old) \in Handles /\ Owned(wr[t].old).debt = NoDebt
    BY <1>1, FrameTypes, Handle DEF Owned
  <2>2. NoDebt \in FastSlots \cup {NoDebt}
    OBVIOUS
  <2>3. held' = held \/ Give(Owned(wr[t].old))
    BY <1>1, ReleaseValEffect
  <2>4. GuardsAreFast
    BY DEF Control
  <2> QED BY <1>1, <1>2, <2>1, <2>2, <2>3, <2>4, GiveFast, GuardsAlone
<1>7. Live'
  <2>1. LiveOk(rd[t], wr[t], storage, active_addr)
    BY <1>4, Own
  <2>2. LiveOk(rd'[t], wr'[t], storage, active_addr)
    BY <1>2, <1>4, <2>1 DEF LiveOk
  <2> QED BY <1>2, <1>3, <2>2, LiveStep
<1>8. HelpingSlotOwned' /\ ControlFollows'
  BY <1>2, LoadsAlone
<1> QED BY <1>1, <1>5, <1>6, <1>7, <1>8 DEF Control

(* The writer drops the old value: Control stays. *)
LEMMA DropOldKeeps ==
  ASSUME Control, NEW t \in Threads, DropOld(t)
  PROVE  Control'
<1>1. Types /\ Types'
  BY Own, DropOldTypes
<1>2. storage' = storage /\ active_addr' = active_addr /\ slots' = slots
      /\ control' = control /\ generation' = generation /\ rd' = rd
  BY <1>1, DropOldEffect
<1>3. OnlyRd(t) /\ OnlyWr(t)
  <2>1. OnlyRd(t)
    BY <1>2 DEF OnlyRd
  <2>2. OnlyWr(t)
    BY <1>1, <1>2, DropOldEffect DEF WrIdle, WrBegins, WrTo
  <2> QED BY <2>1, <2>2
<1>4. /\ wr[t].pc = "drop_old"
      /\ wr'[t].pc = "idle" /\ wr'[t].op = "none" /\ wr'[t].dst = NoStorage
        /\ wr'[t].odebt = NoDebt /\ wr'[t].observed = IDLE
  BY <1>1, DropOldEffect DEF WrIdle, WrBegins, WrTo, WriteOps
<1>5. LoadShape' /\ WriteShape' /\ HelpShape' /\ OnlyRd(t) /\ OnlyWr(t)
  <2>1. LoadOk(t, rd'[t])
    BY <1>2, Own
  <2>2. WriteOk(wr'[t], rd'[t])
    BY <1>2, <1>4, Own, Slots DEF WriteOk, CasPc, WriteOps
  <2>3. HelpOk(t, wr'[t])
    BY <1>4, Own DEF HelpOk, HelpPc
  <2> QED BY <1>3, <2>1, <2>2, <2>3, OwnOnly
<1>6. GuardsAreFast'
  <2>1. [ptr |-> wr[t].old, debt |-> wr[t].odebt] \in Handles
  /\ [ptr |-> wr[t].old, debt |-> wr[t].odebt].debt = wr[t].odebt
    BY <1>1, FrameTypes, Handle, HandleFields, Constants
  <2>2. wr[t].odebt \in FastSlots \cup {NoDebt}
    BY <1>4, Own DEF LoadOk, WriteOk
  <2>3. held' = held \/ Give([ptr |-> wr[t].old, debt |-> wr[t].odebt])
    BY <1>1, DropOldEffect
  <2>4. GuardsAreFast
    BY DEF Control
  <2> QED BY <1>1, <1>2, <2>1, <2>2, <2>3, <2>4, GiveFast, GuardsAlone
<1>7. Live'
  <2>1. LiveOk(rd[t], wr[t], storage, active_addr)
    BY <1>4, Own
  <2>2. LiveOk(rd'[t], wr'[t], storage, active_addr)
    BY <1>2, <1>4, <2>1 DEF LiveOk
  <2> QED BY <1>2, <1>3, <2>2, LiveStep
<1>8. HelpingSlotOwned' /\ ControlFollows'
  BY <1>2, LoadsAlone
<1> QED BY <1>1, <1>5, <1>6, <1>7, <1>8 DEF Control

(* A clone is an Arc of its own. *)
LEMMA CloneKeeps ==
  ASSUME Control, NEW t \in Threads, NEW h \in Handles, Clone(t, h)
  PROVE  Control'
<1>1. Types /\ UNCHANGED <<storage, slots, nodeVars, localVars, rd, wr, window>>
  BY Own DEF Clone
<1>2. h.ptr \in Ptrs /\ Owned(h.ptr) \in Handles /\ Owned(h.ptr).debt = NoDebt
  BY Handle, HandleFields DEF Owned
<1>3. Types'
  <2>1. cnt' \in [Objects -> Int]
    BY <1>1, <1>2, IncTypes DEF Clone
  <2>2. held' \in [Handles -> Nat]
    BY <1>1, <1>2, GiveTypes DEF Clone
  <2>3. calls' \in [Threads -> Nat]
    BY <1>1, CallTypes DEF Clone
  <2> QED BY <1>1, <2>1, <2>2, <2>3 DEF Types
<1>4. GuardsAreFast'
  BY <1>1, <1>2, GiveFast DEF Clone, Control
<1>5. LoadShape' /\ WriteShape' /\ HelpShape' /\ Live'
  BY <1>1 DEF Control, LoadShape, WriteShape, HelpShape, Live
<1>6. HelpingSlotOwned' /\ ControlFollows'
  BY <1>1, LoadsAlone
<1> QED BY <1>3, <1>4, <1>5, <1>6 DEF Control

(* The thread that takes over the node counts its generations from zero. *)
LEMMA ThreadRestartKeeps ==
  ASSUME Control, NEW t \in Threads, ThreadRestart(t),
         rd[t].pc = "idle", wr[t].pc = "idle"
  PROVE  Control'
<1>1. Types /\ UNCHANGED <<storage, cnt, slots, nodeVars, rd, wr, held, window>>
  BY Own DEF ThreadRestart
<1>2. Types'
  <2>1. generation' \in [Threads -> 0..(GenLimit - 1)]
    BY <1>1, GenLimitAssumption DEF ThreadRestart, Types
  <2>2. offset' \in [Threads -> 0..DEBT_SLOT_CNT]
    BY <1>1, Constants DEF ThreadRestart, Types
  <2>3. calls' \in [Threads -> Nat]
    BY <1>1, CallTypes DEF ThreadRestart
  <2> QED BY <1>1, <2>1, <2>2, <2>3 DEF Types
<1>3. LoadShape' /\ WriteShape' /\ HelpShape' /\ Live' /\ GuardsAreFast'
  BY <1>1 DEF Control, LoadShape, WriteShape, HelpShape, Live, GuardsAreFast
<1>4. HelpingSlotOwned'
  BY <1>1 DEF Control, HelpingSlotOwned
<1>5. ControlFollows'
  <2>1. generation' = [generation EXCEPT ![t] = 0]
    BY DEF ThreadRestart
  <2>2. ASSUME NEW u \in Threads
        PROVE  FollowOk(rd'[u], control'[u], generation'[u], active_addr'[u])
    <3>1. FollowOk(rd[u], control[u], generation[u], active_addr[u])
      BY Own
    <3>2. CASE u = t
      BY <1>1, <3>1, <3>2 DEF FollowOk, Announced
    <3>3. CASE u # t
      <4>1. generation'[u] = generation[u]
        BY <1>1, <2>1, <3>3 DEF Types
      <4> QED BY <1>1, <3>1, <4>1
    <3> QED BY <3>2, <3>3
  <2> QED BY <2>2 DEF ControlFollows
<1> QED BY <1>2, <1>3, <1>4, <1>5 DEF Control

(* Control holds at the start. *)
LEMMA ControlInit ==
  ASSUME Init
  PROVE  Control
<1>1. /\ IsFiniteSet(Storages)
      /\ \A a \in Objects : Cardinality({s \in Storages : Initial[s] = a}) \in Nat
  <2>1. ASSUME NEW a \in Objects
        PROVE  Cardinality({s \in Storages : Initial[s] = a}) \in Nat
    <3>1. {s \in Storages : Initial[s] = a} \subseteq Storages
      OBVIOUS
    <3> QED BY <3>1, StoragesAssumption, FS_Subset, FS_CardinalityType
  <2> QED BY <2>1, StoragesAssumption
<1>2. Types
  <2>1. storage \in [Storages -> Ptrs \cup {Dropped}] /\ cnt \in [Objects -> Int]
    BY <1>1, InitialAssumption DEF Init
  <2>2. rd \in [Threads -> LoadFrames] /\ wr \in [Threads -> WriteFrames]
    BY EmptyFrames DEF Init
  <2>3. /\ slots \in [SlotIds -> Ptrs \cup {NONE}]
        /\ control \in [Threads -> ControlWords]
        /\ active_addr \in [Threads -> Storages \cup {NoStorage}]
        /\ space_offer \in [Threads -> Threads]
        /\ handover \in [Threads -> Ptrs]
    BY Constants DEF Init
  <2>4. /\ generation \in [Threads -> 0..(GenLimit - 1)]
        /\ offset \in [Threads -> 0..DEBT_SLOT_CNT]
        /\ held \in [Handles -> Nat] /\ calls \in [Threads -> Nat]
        /\ window \in [Threads -> SUBSET Ptrs]
    BY Constants, GenLimitAssumption DEF Init
  <2> QED BY <2>1, <2>2, <2>3, <2>4 DEF Types
<1>3. \A t \in Threads : rd[t] = NoLoad /\ wr[t] = NoWrite
  BY DEF Init
<1>4. /\ NoLoad.pc = "idle" /\ NoLoad.src = NoStorage /\ NoLoad.debt = NoDebt
      /\ NoWrite.pc = "idle" /\ NoWrite.op = "none" /\ NoWrite.dst = NoStorage
      /\ NoWrite.odebt = NoDebt /\ NoWrite.observed = IDLE
  BY DEF NoLoad, NoWrite
<1>5. \A t \in Threads : LoadOk(t, NoLoad) /\ HelpOk(t, NoWrite)
  BY <1>4 DEF LoadOk, LoadingPc, Announced, HelpOk, HelpPc
<1>6. WriteOk(NoWrite, NoLoad)
  BY <1>4 DEF WriteOk, CasPc
<1>7. LoadShape /\ WriteShape /\ HelpShape
  BY <1>3, <1>5, <1>6 DEF LoadShape, WriteShape, HelpShape
<1>8. GuardsAreFast
  BY DEF Init, GuardsAreFast
<1>9. Live
  BY <1>3, <1>4 DEF Live, LiveOk
<1>10. HelpingSlotOwned
  BY Slots, Constants DEF Init, HelpingSlotOwned, OwnerOk
<1>11. ControlFollows
  <2>1. \A t \in Threads : control[t] = IDLE
    BY DEF Init
  <2> QED BY <1>3, <1>4, <2>1 DEF ControlFollows, FollowOk, Announced
<1> QED BY <1>2, <1>7, <1>8, <1>9, <1>10, <1>11 DEF Control

(* A stuttering step. *)
LEMMA ControlStutter ==
  ASSUME Control, UNCHANGED vars
  PROVE  Control'
<1>1. Types'
  BY DEF vars, Control, Types
<1>2. LoadShape' /\ WriteShape' /\ HelpShape' /\ Live' /\ GuardsAreFast'
  BY DEF vars, Control, LoadShape, WriteShape, HelpShape, Live, GuardsAreFast
<1>3. HelpingSlotOwned' /\ ControlFollows'
  BY DEF vars, Control, HelpingSlotOwned, ControlFollows
<1> QED BY <1>1, <1>2, <1>3 DEF Control

(* Every step keeps Control. *)
LEMMA ControlNext ==
  ASSUME Control, [Next]_vars
  PROVE  Control'
<1>1. ASSUME NEW t \in Threads, LoadStep(t)
      PROVE  Control'
BY <1>1, ScanKeeps, ConfirmFastKeeps, GiveBackKeeps, GetDebtKeeps,
     GetDebtControlKeeps, CandidateKeeps, ConfirmSlotKeeps,
     ConfirmControlKeeps, TakeHandoverKeeps, UnusedPayKeeps, UnusedDecKeeps,
     IntoInnerIncKeeps, IntoInnerPayKeeps, IntoInnerDecKeeps, ReturnFullKeeps,
     ReturnToCallerKeeps, DropDecKeeps DEF LoadStep
<1>2. ASSUME NEW t \in Threads, WriteStep(t)
      PROVE  Control'
BY <1>2, CasLoadedKeeps, DropNewKeeps, CasExchangeKeeps, CasFailedKeeps,
     CasPayKeeps, CasDecKeeps, CasRetryKeeps, PrePayKeeps, HelpKeeps,
     HelpCheckAddrKeeps, HelpRecheckKeeps, HelpReplacementKeeps,
     HelpTheirSpaceKeeps, HelpFillKeeps, HelpCasKeeps, HelpSwitchKeeps,
     HelpDropKeeps, PaySlotKeeps, PayIncKeeps, ReleaseValKeeps, DropOldKeeps
     DEF WriteStep
<1>3. ASSUME NEW t \in Threads, StartCall(t)
      PROVE  Control'
  <2>1. rd[t].pc = "idle" /\ wr[t].pc = "idle"
    BY <1>3 DEF StartCall
  <2>2. CASE \E s \in Storages, op \in {"load", "load_full"} : Load(t, s, op)
    BY <2>1, <2>2, LoadKeeps
  <2>3. CASE \E s \in Storages, op \in {"swap", "store"} : Swap(t, s, op)
    BY <2>1, <2>3, SwapKeeps
  <2>4. CASE \E s \in Storages, op \in {"drop_storage", "unwrap_storage"} :
               EndStorage(t, s, op)
    BY <2>1, <2>4, EndStorageKeeps
  <2>5. CASE \E s \in Storages : \E p \in Pool[s] : CompareAndSwap(t, s, p)
    BY <2>1, <2>5, CompareAndSwapKeeps
  <2>6. CASE \E h \in Handles : held[h] > 0 /\ IntoInner(t, h)
    BY <2>1, <2>6, IntoInnerKeeps
  <2>7. CASE \E h \in Handles : held[h] > 0 /\ Clone(t, h)
    BY <2>1, <2>7, CloneKeeps
  <2>8. CASE \E h \in Handles : held[h] > 0 /\ Drop(t, h)
    BY <2>1, <2>8, DropKeeps
  <2>9. CASE ThreadRestart(t)
    BY <2>1, <2>9, ThreadRestartKeeps
  <2> QED BY <1>3, <2>2, <2>3, <2>4, <2>5, <2>6, <2>7, <2>8, <2>9 DEF StartCall
<1>4. ASSUME UNCHANGED vars
      PROVE  Control'
  BY <1>4, ControlStutter
<1> QED BY <1>1, <1>2, <1>3, <1>4 DEF Next, AllDone

(* Where each thread is in its load or write says which debts, words and
   storages    it has: Control holds at every instant, with any number of
   threads, slots,    storages and generations. *)
THEOREM ControlHolds == Spec => []Control
<1>1. Init => Control
  BY ControlInit
<1>2. Control /\ [Next]_vars => Control'
  BY ControlNext
<1> QED BY <1>1, <1>2, PTL DEF Spec

(* No load finds its helping slot in use (HelpingSlotFree): the assertion of the
   fallback's get_debt and its swap of the slot are right for every history. *)
THEOREM HelpingSlotFreeHolds == Spec => []HelpingSlotFree
<1>1. Control => HelpingSlotFree
  <2> SUFFICES ASSUME Control, NEW t \in Threads, rd[t].pc = "slot"
               PROVE  slots[<<t, HELPING>>] = NONE
    BY DEF HelpingSlotFree
  <2> QED BY Own DEF OwnerOk
<1> QED BY <1>1, ControlHolds, PTL

------------------------------------------------------------------------------
(* The generation has wrapped, and the load is about to end in panic. *)
WrappedOk(r, g) == g = 0 /\ r.pc \in {"control", "candidate", "panicked"}

(* No generation that the write w has seen is one that the reader r of the node
   is about to publish. *)
PastOk(w, r, g) ==
  w.pc \in HelpPc \cup {"help_drop"} /\ IsGen(w.observed) =>
    /\ r.pc = "control" => w.observed # Gen(g)
    /\ Recycle \/ WrappedOk(r, g) \/ \E h \in 1..g : w.observed = Gen(h)
ObservedPast ==
  \A u \in Threads :
    PastOk(wr[u], rd[wr[u].node], generation[wr[u].node])

(* What help has read is current while the generation is. *)
CurrentOk(w, c, addr, space) ==
  c = w.observed =>
    /\ w.pc \in {"replacement", "their_space", "fill", "help_cas"} => addr = w.dst
    /\ w.pc \in {"fill", "help_cas"} => w.their = space
HelpCurrent ==
  \A u \in Threads :
    CurrentOk(wr[u], control[wr[u].node], active_addr[wr[u].node],
              space_offer[wr[u].node])

(* The envelope about to be handed over holds the replacement. *)
EnvelopeFilled ==
  \A u \in Threads : wr[u].pc = "help_cas" => handover[space_offer[u]] = wr[u].repl

(* The envelope that a thread is entitled to write next. *)
OwnEnvelope(c, r, w, space) ==
  IF IsReplacement(c) THEN c[2]
  ELSE IF r.pc = "take" THEN r.env
  ELSE IF w.pc = "switch" THEN w.their ELSE space
Envelope(t) == OwnEnvelope(control[t], rd[t], wr[t], space_offer[t])

EnvelopeExclusive ==
  \A t, u \in Threads : Envelope(t) = Envelope(u) => t = u

Protocol == ObservedPast /\ HelpCurrent /\ EnvelopeFilled /\ EnvelopeExclusive

(* The parts of Protocol that are about one write. *)
LEMMA Seen ==
  ASSUME Protocol, NEW u \in Threads
  PROVE  /\ PastOk(wr[u], rd[wr[u].node], generation[wr[u].node])
         /\ CurrentOk(wr[u], control[wr[u].node], active_addr[wr[u].node],
                      space_offer[wr[u].node])
         /\ wr[u].pc = "help_cas" => handover[space_offer[u]] = wr[u].repl
         /\ \A t \in Threads : Envelope(t) = Envelope(u) => t = u
BY DEF Protocol, ObservedPast, HelpCurrent, EnvelopeFilled, EnvelopeExclusive

(* A step of t keeps ObservedPast when what t has seen is past, and t as a reader
   publishes nothing that was seen. *)
LEMMA PastStep ==
  ASSUME Control, Protocol, NEW t \in Threads, OnlyRd(t), OnlyWr(t),
         \A u \in Threads : u # t => generation'[u] = generation[u],
         \/ wr'[t] = wr[t]
         \/ PastOk(wr'[t], rd'[wr'[t].node], generation'[wr'[t].node]),
         \A u \in Threads :
           u # t /\ wr[u].node = t /\ PastOk(wr[u], rd[t], generation[t]) =>
             PastOk(wr[u], rd'[t], generation'[t])
  PROVE  ObservedPast'
<1> SUFFICES ASSUME NEW u \in Threads
             PROVE  PastOk(wr'[u], rd'[wr'[u].node], generation'[wr'[u].node])
  BY DEF ObservedPast
<1>1. /\ PastOk(wr[u], rd[wr[u].node], generation[wr[u].node])
      /\ wr[u].node \in Threads /\ HelpOk(u, wr[u])
  BY Own, Seen, FrameTypes
<1>2. CASE u = t /\ wr'[t] = wr[t]
  <2>1. CASE wr[t].node = t
    BY <1>1, <1>2, <2>1 DEF HelpOk, PastOk
  <2>2. CASE wr[t].node # t
    <3>1. rd'[wr[t].node] = rd[wr[t].node]
    /\ generation'[wr[t].node] = generation[wr[t].node]
      BY <1>1, <1>2, <2>2 DEF OnlyRd
    <3> QED BY <1>1, <1>2, <3>1
  <2> QED BY <2>1, <2>2
<1>3. CASE u # t
  <2>1. wr'[u] = wr[u]
    BY <1>3 DEF OnlyWr
  <2>2. CASE wr[u].node = t
    BY <1>1, <1>3, <2>1, <2>2
  <2>3. CASE wr[u].node # t
    <3>1. rd'[wr[u].node] = rd[wr[u].node]
    /\ generation'[wr[u].node] = generation[wr[u].node]
      BY <1>1, <2>3 DEF OnlyRd
    <3> QED BY <1>1, <2>1, <3>1
  <2> QED BY <2>2, <2>3
<1> QED BY <1>2, <1>3

(* The same for HelpCurrent, when t changes the words of its own node only. *)
LEMMA CurrentStep ==
  ASSUME Control, Protocol, NEW t \in Threads, OnlyWr(t),
         \A u \in Threads : u # t =>
           /\ control'[u] = control[u] /\ active_addr'[u] = active_addr[u]
           /\ space_offer'[u] = space_offer[u],
         \/ wr'[t] = wr[t]
         \/ CurrentOk(wr'[t], control'[wr'[t].node], active_addr'[wr'[t].node],
                      space_offer'[wr'[t].node]),
         \A u \in Threads :
           /\ u # t /\ wr[u].node = t
           /\ CurrentOk(wr[u], control[t], active_addr[t], space_offer[t])
           => CurrentOk(wr[u], control'[t], active_addr'[t], space_offer'[t])
  PROVE  HelpCurrent'
<1> SUFFICES ASSUME NEW u \in Threads
             PROVE  CurrentOk(wr'[u], control'[wr'[u].node],
                              active_addr'[wr'[u].node], space_offer'[wr'[u].node])
  BY DEF HelpCurrent
<1>1. /\ CurrentOk(wr[u], control[wr[u].node], active_addr[wr[u].node],
                   space_offer[wr[u].node])
      /\ wr[u].node \in Threads /\ HelpOk(u, wr[u])
  BY Own, Seen, FrameTypes
<1>2. CASE u = t /\ wr'[t] = wr[t]
  <2>1. CASE wr[t].node = t
    BY <1>1, <1>2, <2>1 DEF HelpOk, HelpPc, CurrentOk
  <2>2. CASE wr[t].node # t
    BY <1>1, <1>2, <2>2
  <2> QED BY <2>1, <2>2
<1>3. CASE u # t
  <2>1. wr'[u] = wr[u]
    BY <1>3 DEF OnlyWr
  <2>2. CASE wr[u].node = t
    BY <1>1, <1>3, <2>1, <2>2
  <2>3. CASE wr[u].node # t
    BY <1>1, <2>1, <2>3
  <2> QED BY <2>2, <2>3
<1> QED BY <1>2, <1>3

(* The envelopes stay where they are. *)
LEMMA EnvelopeStep ==
  ASSUME Protocol, NEW t \in Threads, OnlyRd(t), OnlyWr(t),
         \A u \in Threads : u # t =>
           control'[u] = control[u] /\ space_offer'[u] = space_offer[u],
         OwnEnvelope(control'[t], rd'[t], wr'[t], space_offer'[t]) = Envelope(t)
  PROVE  EnvelopeExclusive'
<1>1. \A u \in Threads :
        OwnEnvelope(control'[u], rd'[u], wr'[u], space_offer'[u]) = Envelope(u)
  BY DEF OnlyRd, OnlyWr, Envelope
<1>2. \A u, v \in Threads : Envelope(u) = Envelope(v) => u = v
  BY DEF Protocol, EnvelopeExclusive
<1> QED BY <1>1, <1>2 DEF EnvelopeExclusive, Envelope

(* A step that neither publishes a generation nor helps. *)
Aside(t) ==
  /\ OnlyRd(t) /\ OnlyWr(t)
  /\ \/ rd'[t] = rd[t]
     \/ /\ rd[t].pc \notin {"control", "candidate", "panicked", "take"}
        /\ rd'[t].pc \notin {"control", "take"}
  /\ \/ wr'[t] = wr[t]
     \/ /\ wr[t].pc # "switch"
        /\ wr'[t].pc \notin HelpPc \cup {"help_drop"}
  /\ control' = control /\ active_addr' = active_addr
  /\ space_offer' = space_offer /\ handover' = handover
  /\ generation' = generation

(* A step that is aside of the protocol keeps it. *)
LEMMA AsideProtocol ==
  ASSUME Control, Protocol, NEW t \in Threads, Aside(t)
  PROVE  Protocol'
<1>0. OnlyRd(t) /\ OnlyWr(t) /\ wr[t].node \in Threads
  BY Own, FrameTypes DEF Aside
<1>1. ObservedPast'
  <2>1. \A u \in Threads : u # t => generation'[u] = generation[u]
    BY DEF Aside
  <2>2. \/ wr'[t] = wr[t]
        \/ PastOk(wr'[t], rd'[wr'[t].node], generation'[wr'[t].node])
    BY DEF Aside, PastOk
  <2>3. ASSUME NEW u \in Threads, PastOk(wr[u], rd[t], generation[t])
        PROVE  PastOk(wr[u], rd'[t], generation'[t])
    BY <2>3 DEF Aside, PastOk, WrappedOk
  <2> QED BY <1>0, <2>1, <2>2, <2>3, PastStep
<1>2. HelpCurrent'
  <2>1. \/ wr'[t] = wr[t]
        \/ CurrentOk(wr'[t], control'[wr'[t].node], active_addr'[wr'[t].node],
                     space_offer'[wr'[t].node])
    BY DEF Aside, CurrentOk, HelpPc
  <2>2. control' = control /\ active_addr' = active_addr
  /\ space_offer' = space_offer
    BY DEF Aside
  <2> QED BY <1>0, <2>1, <2>2, CurrentStep
<1>3. EnvelopeFilled'
  <2>1. wr'[t].pc = "help_cas" => wr'[t] = wr[t]
    BY DEF Aside, HelpPc
  <2>2. space_offer' = space_offer /\ handover' = handover
    BY DEF Aside
  <2> QED BY <1>0, <2>1, <2>2 DEF OnlyWr, EnvelopeFilled, Protocol
<1>4. EnvelopeExclusive'
  <2>1. control' = control /\ space_offer' = space_offer
    BY DEF Aside
  <2>2. OwnEnvelope(control[t], rd'[t], wr'[t], space_offer[t]) = Envelope(t)
    BY DEF Aside, OwnEnvelope, Envelope, HelpPc
  <2> QED BY <1>0, <2>1, <2>2, EnvelopeStep
<1> QED BY <1>1, <1>2, <1>3, <1>4 DEF Protocol

------------------------------------------------------------------------------

(* get_debt looks at one fast slot: this is aside of the protocol. *)
LEMMA ScanAside ==
  ASSUME Control, NEW t \in Threads, Scan(t)
  PROVE  Aside(t)
<1>1. Types
  BY Own
<1>2. control' = control /\ active_addr' = active_addr
      /\ space_offer' = space_offer
      /\ handover' = handover /\ generation' = generation /\ wr' = wr
  BY <1>1, ScanEffect
<1>3. OnlyRd(t)
  BY <1>1, <1>2, ScanEffect DEF RdGo, RdMove, RdTo
<1>4. OnlyWr(t)
  BY <1>2 DEF OnlyWr
<1>5. \/ rd'[t] = rd[t]
      \/ /\ rd[t].pc \notin {"control", "candidate", "panicked", "take"}
         /\ rd'[t].pc \notin {"control", "take"}
  BY <1>1, ScanEffect DEF RdGo, RdMove, RdTo
<1> QED BY <1>2, <1>3, <1>4, <1>5 DEF Aside

(* The second read of the fast path: this is aside of the protocol. *)
LEMMA ConfirmFastAside ==
  ASSUME Control, NEW t \in Threads, ConfirmFast(t)
  PROVE  Aside(t)
<1>1. Types
  BY Own
<1>2. control' = control /\ active_addr' = active_addr
      /\ space_offer' = space_offer
      /\ handover' = handover /\ generation' = generation /\ wr' = wr
  BY <1>1, ConfirmFastEffect
<1>3. OnlyRd(t)
  BY <1>1, <1>2, ConfirmFastEffect DEF RdGo, RdMove, RdTo
<1>4. OnlyWr(t)
  BY <1>2 DEF OnlyWr
<1>5. \/ rd'[t] = rd[t]
      \/ /\ rd[t].pc \notin {"control", "candidate", "panicked", "take"}
         /\ rd'[t].pc \notin {"control", "take"}
  BY <1>1, ConfirmFastEffect DEF RdGo, RdMove, RdTo
<1> QED BY <1>2, <1>3, <1>4, <1>5 DEF Aside

(* The fast path pays back a debt that came too late: this is aside of the
   protocol. *)
LEMMA GiveBackAside ==
  ASSUME Control, NEW t \in Threads, GiveBack(t)
  PROVE  Aside(t)
<1>1. Types
  BY Own
<1>2. control' = control /\ active_addr' = active_addr
      /\ space_offer' = space_offer
      /\ handover' = handover /\ generation' = generation /\ wr' = wr
  BY <1>1, GiveBackEffect
<1>3. OnlyRd(t)
  BY <1>1, <1>2, GiveBackEffect DEF RdMove, RdTo
<1>4. OnlyWr(t)
  BY <1>2 DEF OnlyWr
<1>5. \/ rd'[t] = rd[t]
      \/ /\ rd[t].pc \notin {"control", "candidate", "panicked", "take"}
         /\ rd'[t].pc \notin {"control", "take"}
  BY <1>1, GiveBackEffect DEF RdMove, RdTo
<1> QED BY <1>2, <1>3, <1>4, <1>5 DEF Aside

(* confirm fills the helping slot: this is aside of the protocol. *)
LEMMA ConfirmSlotAside ==
  ASSUME Control, NEW t \in Threads, ConfirmSlot(t)
  PROVE  Aside(t)
<1>1. Types
  BY Own
<1>2. control' = control /\ active_addr' = active_addr
      /\ space_offer' = space_offer
      /\ handover' = handover /\ generation' = generation /\ wr' = wr
  BY <1>1, ConfirmSlotEffect
<1>3. OnlyRd(t)
  BY <1>1, <1>2, ConfirmSlotEffect DEF RdMove, RdTo
<1>4. OnlyWr(t)
  BY <1>2 DEF OnlyWr
<1>5. \/ rd'[t] = rd[t]
      \/ /\ rd[t].pc \notin {"control", "candidate", "panicked", "take"}
         /\ rd'[t].pc \notin {"control", "take"}
  BY <1>1, ConfirmSlotEffect DEF RdMove, RdTo
<1> QED BY <1>2, <1>3, <1>4, <1>5 DEF Aside

(* The helped load pays its unused debt: this is aside of the protocol. *)
LEMMA UnusedPayAside ==
  ASSUME Control, NEW t \in Threads, UnusedPay(t)
  PROVE  Aside(t)
<1>1. Types
  BY Own
<1>2. control' = control /\ active_addr' = active_addr
      /\ space_offer' = space_offer
      /\ handover' = handover /\ generation' = generation /\ wr' = wr
  BY <1>1, UnusedPayEffect
<1>3. OnlyRd(t)
  BY <1>1, <1>2, UnusedPayEffect DEF RdGo, RdMove, RdTo
<1>4. OnlyWr(t)
  BY <1>2 DEF OnlyWr
<1>5. \/ rd'[t] = rd[t]
      \/ /\ rd[t].pc \notin {"control", "candidate", "panicked", "take"}
         /\ rd'[t].pc \notin {"control", "take"}
  BY <1>1, UnusedPayEffect DEF RdGo, RdMove, RdTo
<1> QED BY <1>2, <1>3, <1>4, <1>5 DEF Aside

(* The helped load drops what a writer paid it: this is aside of the protocol.
   *)
LEMMA UnusedDecAside ==
  ASSUME Control, NEW t \in Threads, UnusedDec(t)
  PROVE  Aside(t)
<1>1. Types
  BY Own
<1>2. control' = control /\ active_addr' = active_addr
      /\ space_offer' = space_offer
      /\ handover' = handover /\ generation' = generation /\ wr' = wr
  BY <1>1, UnusedDecEffect
<1>3. OnlyRd(t)
  BY <1>1, <1>2, UnusedDecEffect DEF RdTo
<1>4. OnlyWr(t)
  BY <1>2 DEF OnlyWr
<1>5. \/ rd'[t] = rd[t]
      \/ /\ rd[t].pc \notin {"control", "candidate", "panicked", "take"}
         /\ rd'[t].pc \notin {"control", "take"}
  BY <1>1, UnusedDecEffect DEF RdTo
<1> QED BY <1>2, <1>3, <1>4, <1>5 DEF Aside

(* into_inner counts the value: this is aside of the protocol. *)
LEMMA IntoInnerIncAside ==
  ASSUME Control, NEW t \in Threads, IntoInnerInc(t)
  PROVE  Aside(t)
<1>1. Types
  BY Own
<1>2. control' = control /\ active_addr' = active_addr
      /\ space_offer' = space_offer
      /\ handover' = handover /\ generation' = generation /\ wr' = wr
  BY <1>1, IntoInnerIncEffect
<1>3. OnlyRd(t)
  BY <1>1, <1>2, IntoInnerIncEffect DEF RdGo, RdMove, RdTo
<1>4. OnlyWr(t)
  BY <1>2 DEF OnlyWr
<1>5. \/ rd'[t] = rd[t]
      \/ /\ rd[t].pc \notin {"control", "candidate", "panicked", "take"}
         /\ rd'[t].pc \notin {"control", "take"}
  BY <1>1, IntoInnerIncEffect DEF RdGo, RdMove, RdTo
<1> QED BY <1>2, <1>3, <1>4, <1>5 DEF Aside

(* into_inner pays its debt: this is aside of the protocol. *)
LEMMA IntoInnerPayAside ==
  ASSUME Control, NEW t \in Threads, IntoInnerPay(t)
  PROVE  Aside(t)
<1>1. Types
  BY Own
<1>2. control' = control /\ active_addr' = active_addr
      /\ space_offer' = space_offer
      /\ handover' = handover /\ generation' = generation /\ wr' = wr
  BY <1>1, IntoInnerPayEffect
<1>3. OnlyRd(t)
  BY <1>1, <1>2, IntoInnerPayEffect DEF RdGo, RdMove, RdTo
<1>4. OnlyWr(t)
  BY <1>2 DEF OnlyWr
<1>5. \/ rd'[t] = rd[t]
      \/ /\ rd[t].pc \notin {"control", "candidate", "panicked", "take"}
         /\ rd'[t].pc \notin {"control", "take"}
  BY <1>1, IntoInnerPayEffect DEF RdGo, RdMove, RdTo
<1> QED BY <1>2, <1>3, <1>4, <1>5 DEF Aside

(* into_inner drops the count that a writer gave too: this is aside of the
   protocol. *)
LEMMA IntoInnerDecAside ==
  ASSUME Control, NEW t \in Threads, IntoInnerDec(t)
  PROVE  Aside(t)
<1>1. Types
  BY Own
<1>2. control' = control /\ active_addr' = active_addr
      /\ space_offer' = space_offer
      /\ handover' = handover /\ generation' = generation /\ wr' = wr
  BY <1>1, IntoInnerDecEffect
<1>3. OnlyRd(t)
  BY <1>1, <1>2, IntoInnerDecEffect DEF RdMove, RdTo
<1>4. OnlyWr(t)
  BY <1>2 DEF OnlyWr
<1>5. \/ rd'[t] = rd[t]
      \/ /\ rd[t].pc \notin {"control", "candidate", "panicked", "take"}
         /\ rd'[t].pc \notin {"control", "take"}
  BY <1>1, IntoInnerDecEffect DEF RdMove, RdTo
<1> QED BY <1>2, <1>3, <1>4, <1>5 DEF Aside

(* load_full returns: this is aside of the protocol. *)
LEMMA ReturnFullAside ==
  ASSUME Control, NEW t \in Threads, ReturnFull(t)
  PROVE  Aside(t)
<1>1. Types
  BY Own
<1>2. control' = control /\ active_addr' = active_addr
      /\ space_offer' = space_offer
      /\ handover' = handover /\ generation' = generation /\ wr' = wr
  BY <1>1, ReturnFullEffect
<1>3. OnlyRd(t)
  BY <1>1, <1>2, ReturnFullEffect DEF RdGo, RdMove, RdTo
<1>4. OnlyWr(t)
  BY <1>2 DEF OnlyWr
<1>5. \/ rd'[t] = rd[t]
      \/ /\ rd[t].pc \notin {"control", "candidate", "panicked", "take"}
         /\ rd'[t].pc \notin {"control", "take"}
  BY <1>1, ReturnFullEffect DEF RdGo, RdMove, RdTo
<1> QED BY <1>2, <1>3, <1>4, <1>5 DEF Aside

(* A load returns to its caller: this is aside of the protocol. *)
LEMMA ReturnToCallerAside ==
  ASSUME Control, NEW t \in Threads, ReturnToCaller(t)
  PROVE  Aside(t)
<1>1. Types
  BY Own
<1>2. control' = control /\ active_addr' = active_addr
      /\ space_offer' = space_offer
      /\ handover' = handover /\ generation' = generation /\ wr' = wr
  BY <1>1, ReturnToCallerEffect
<1>3. OnlyRd(t)
  BY <1>1, <1>2, ReturnToCallerEffect DEF RdIdle, RdTo
<1>4. OnlyWr(t)
  BY <1>2 DEF OnlyWr
<1>5. \/ rd'[t] = rd[t]
      \/ /\ rd[t].pc \notin {"control", "candidate", "panicked", "take"}
         /\ rd'[t].pc \notin {"control", "take"}
  BY <1>1, ReturnToCallerEffect DEF RdIdle, RdTo
<1> QED BY <1>2, <1>3, <1>4, <1>5 DEF Aside

(* A dropped value is released: this is aside of the protocol. *)
LEMMA DropDecAside ==
  ASSUME Control, NEW t \in Threads, DropDec(t)
  PROVE  Aside(t)
<1>1. Types
  BY Own
<1>2. control' = control /\ active_addr' = active_addr
      /\ space_offer' = space_offer
      /\ handover' = handover /\ generation' = generation /\ wr' = wr
  BY <1>1, DropDecEffect
<1>3. OnlyRd(t)
  BY <1>1, <1>2, DropDecEffect DEF RdIdle, RdTo
<1>4. OnlyWr(t)
  BY <1>2 DEF OnlyWr
<1>5. \/ rd'[t] = rd[t]
      \/ /\ rd[t].pc \notin {"control", "candidate", "panicked", "take"}
         /\ rd'[t].pc \notin {"control", "take"}
  BY <1>1, DropDecEffect DEF RdIdle, RdTo
<1> QED BY <1>2, <1>3, <1>4, <1>5 DEF Aside

(* A load begins: this is aside of the protocol. *)
LEMMA LoadAside ==
  ASSUME Control, NEW t \in Threads, NEW s \in Storages, NEW op \in {"load",
         "load_full"}, Load(t, s, op),
         rd[t].pc = "idle", wr[t].pc = "idle"
  PROVE  Aside(t)
<1>1. Types
  BY Own
<1>2. control' = control /\ active_addr' = active_addr
      /\ space_offer' = space_offer
      /\ handover' = handover /\ generation' = generation /\ wr' = wr
  BY <1>1, LoadEffect
<1>3. OnlyRd(t)
  BY <1>1, <1>2, LoadEffect DEF LoadBegins, RdTo
<1>4. OnlyWr(t)
  BY <1>2 DEF OnlyWr
<1>5. \/ rd'[t] = rd[t]
      \/ /\ rd[t].pc \notin {"control", "candidate", "panicked", "take"}
         /\ rd'[t].pc \notin {"control", "take"}
  BY <1>1, LoadEffect DEF LoadBegins, RdTo
<1> QED BY <1>2, <1>3, <1>4, <1>5 DEF Aside

(* A caller makes its guard an owned value: this is aside of the protocol. *)
LEMMA IntoInnerAside ==
  ASSUME Control, NEW t \in Threads, NEW h \in Handles, held[h] > 0,
         IntoInner(t, h),
         rd[t].pc = "idle", wr[t].pc = "idle"
  PROVE  Aside(t)
<1>1. Types
  BY Own
<1>2. control' = control /\ active_addr' = active_addr
      /\ space_offer' = space_offer
      /\ handover' = handover /\ generation' = generation /\ wr' = wr
  BY <1>1, IntoInnerEffect
<1>3. OnlyRd(t)
  BY <1>1, <1>2, IntoInnerEffect DEF RdTo
<1>4. OnlyWr(t)
  BY <1>2 DEF OnlyWr
<1>5. \/ rd'[t] = rd[t]
      \/ /\ rd[t].pc \notin {"control", "candidate", "panicked", "take"}
         /\ rd'[t].pc \notin {"control", "take"}
  BY <1>1, IntoInnerEffect DEF RdTo
<1> QED BY <1>2, <1>3, <1>4, <1>5 DEF Aside

(* A caller drops a guard: this is aside of the protocol. *)
LEMMA DropAside ==
  ASSUME Control, NEW t \in Threads, NEW h \in Handles, held[h] > 0, Drop(t, h),
         rd[t].pc = "idle", wr[t].pc = "idle"
  PROVE  Aside(t)
<1>1. Types
  BY Own
<1>2. control' = control /\ active_addr' = active_addr
      /\ space_offer' = space_offer
      /\ handover' = handover /\ generation' = generation /\ wr' = wr
  BY <1>1, DropEffect
<1>3. OnlyRd(t)
  BY <1>1, <1>2, DropEffect DEF RdMove, RdTo, OnlyRd
<1>4. OnlyWr(t)
  BY <1>2 DEF OnlyWr
<1>5. \/ rd'[t] = rd[t]
      \/ /\ rd[t].pc \notin {"control", "candidate", "panicked", "take"}
         /\ rd'[t].pc \notin {"control", "take"}
  BY <1>1, DropEffect DEF RdMove, RdTo
<1> QED BY <1>2, <1>3, <1>4, <1>5 DEF Aside

(* swap puts a value in: this is aside of the protocol. *)
LEMMA SwapAside ==
  ASSUME Control, NEW t \in Threads, NEW s \in Storages, NEW op \in {"swap",
         "store"}, Swap(t, s, op),
         rd[t].pc = "idle", wr[t].pc = "idle"
  PROVE  Aside(t)
<1>1. Types
  BY Own
<1>2. control' = control /\ active_addr' = active_addr
      /\ space_offer' = space_offer
      /\ handover' = handover /\ generation' = generation /\ rd' = rd
  BY <1>1, SwapEffect
<1>3. OnlyRd(t)
  BY <1>2 DEF OnlyRd
<1>4. OnlyWr(t)
  BY <1>1, <1>2, SwapEffect DEF WrBegins, WrTo
<1>6. wr[t].pc # "switch" /\ wr'[t].pc \notin HelpPc \cup {"help_drop"}
  BY <1>1, SwapEffect DEF HelpPc, WrBegins, WrTo
<1> QED BY <1>2, <1>3, <1>4, <1>6 DEF Aside

(* A storage is consumed or dropped: this is aside of the protocol. *)
LEMMA EndStorageAside ==
  ASSUME Control, NEW t \in Threads, NEW s \in Storages,
         NEW op \in {"drop_storage", "unwrap_storage"}, EndStorage(t, s, op),
         rd[t].pc = "idle", wr[t].pc = "idle"
  PROVE  Aside(t)
<1>1. Types
  BY Own
<1>2. control' = control /\ active_addr' = active_addr
      /\ space_offer' = space_offer
      /\ handover' = handover /\ generation' = generation /\ rd' = rd
  BY <1>1, EndStorageEffect
<1>3. OnlyRd(t)
  BY <1>2 DEF OnlyRd
<1>4. OnlyWr(t)
  BY <1>1, <1>2, EndStorageEffect DEF WrBegins, WrTo
<1>6. wr[t].pc # "switch" /\ wr'[t].pc \notin HelpPc \cup {"help_drop"}
  BY <1>1, EndStorageEffect DEF HelpPc, WrBegins, WrTo
<1> QED BY <1>2, <1>3, <1>4, <1>6 DEF Aside

(* compare_and_swap begins: this is aside of the protocol. *)
LEMMA CompareAndSwapAside ==
  ASSUME Control, NEW t \in Threads, NEW s \in Storages, NEW p \in Pool[s],
         CompareAndSwap(t, s, p),
         rd[t].pc = "idle", wr[t].pc = "idle"
  PROVE  Aside(t)
<1>1. Types
  BY Own
<1>2. control' = control /\ active_addr' = active_addr
      /\ space_offer' = space_offer
      /\ handover' = handover /\ generation' = generation
  BY <1>1, CompareAndSwapEffect
<1>3. OnlyRd(t)
  BY <1>1, <1>2, CompareAndSwapEffect DEF LoadBegins, RdTo
<1>4. OnlyWr(t)
  BY <1>1, <1>2, CompareAndSwapEffect DEF WrBegins, WrTo
<1>5. \/ rd'[t] = rd[t]
      \/ /\ rd[t].pc \notin {"control", "candidate", "panicked", "take"}
         /\ rd'[t].pc \notin {"control", "take"}
  BY <1>1, CompareAndSwapEffect DEF LoadBegins, RdTo
<1>6. wr[t].pc # "switch" /\ wr'[t].pc \notin HelpPc \cup {"help_drop"}
  BY <1>1, CompareAndSwapEffect DEF HelpPc, WrBegins, WrTo
<1> QED BY <1>2, <1>3, <1>4, <1>5, <1>6 DEF Aside

(* compare_and_swap has loaded: this is aside of the protocol. *)
LEMMA CasLoadedAside ==
  ASSUME Control, NEW t \in Threads, CasLoaded(t)
  PROVE  Aside(t)
<1>1. Types
  BY Own
<1>2. control' = control /\ active_addr' = active_addr
      /\ space_offer' = space_offer
      /\ handover' = handover /\ generation' = generation
  BY <1>1, CasLoadedEffect
<1>3. OnlyRd(t)
  BY <1>1, <1>2, CasLoadedEffect DEF RdIdle, RdTo
<1>4. OnlyWr(t)
  BY <1>1, <1>2, CasLoadedEffect DEF WrCas, WrTo, WrGo
<1>5. \/ rd'[t] = rd[t]
      \/ /\ rd[t].pc \notin {"control", "candidate", "panicked", "take"}
         /\ rd'[t].pc \notin {"control", "take"}
  BY <1>1, CasLoadedEffect DEF RdIdle, RdTo
<1>6. wr[t].pc # "switch" /\ wr'[t].pc \notin HelpPc \cup {"help_drop"}
  BY <1>1, CasLoadedEffect DEF HelpPc, WrCas, WrTo, WrGo
<1> QED BY <1>2, <1>3, <1>4, <1>5, <1>6 DEF Aside

(* compare_and_swap drops the value it did not put in: this is aside of the
   protocol. *)
LEMMA DropNewAside ==
  ASSUME Control, NEW t \in Threads, DropNew(t)
  PROVE  Aside(t)
<1>1. Types
  BY Own
<1>2. control' = control /\ active_addr' = active_addr
      /\ space_offer' = space_offer
      /\ handover' = handover /\ generation' = generation /\ rd' = rd
  BY <1>1, DropNewEffect
<1>3. OnlyRd(t)
  BY <1>2 DEF OnlyRd
<1>4. OnlyWr(t)
  BY <1>1, <1>2, DropNewEffect DEF WrIdle, WrBegins, WrTo
<1>6. wr[t].pc # "switch" /\ wr'[t].pc \notin HelpPc \cup {"help_drop"}
  BY <1>1, DropNewEffect DEF HelpPc, WrIdle, WrBegins, WrTo
<1> QED BY <1>2, <1>3, <1>4, <1>6 DEF Aside

(* The exchange succeeds: this is aside of the protocol. *)
LEMMA CasExchangeAside ==
  ASSUME Control, NEW t \in Threads, CasExchange(t)
  PROVE  Aside(t)
<1>1. Types
  BY Own
<1>2. control' = control /\ active_addr' = active_addr
      /\ space_offer' = space_offer
      /\ handover' = handover /\ generation' = generation /\ rd' = rd
  BY <1>1, CasExchangeEffect
<1>3. OnlyRd(t)
  BY <1>2 DEF OnlyRd
<1>4. OnlyWr(t)
  BY <1>1, <1>2, CasExchangeEffect DEF WrTo
<1>6. wr[t].pc # "switch" /\ wr'[t].pc \notin HelpPc \cup {"help_drop"}
  BY <1>1, CasExchangeEffect DEF HelpPc, WrTo
<1> QED BY <1>2, <1>3, <1>4, <1>6 DEF Aside

(* The exchange fails: this is aside of the protocol. *)
LEMMA CasFailedAside ==
  ASSUME Control, NEW t \in Threads, CasFailed(t)
  PROVE  Aside(t)
<1>1. Types
  BY Own
<1>2. control' = control /\ active_addr' = active_addr
      /\ space_offer' = space_offer
      /\ handover' = handover /\ generation' = generation /\ rd' = rd
  BY <1>1, CasFailedEffect
<1>3. OnlyRd(t)
  BY <1>2 DEF OnlyRd
<1>4. OnlyWr(t)
  BY <1>1, <1>2, CasFailedEffect DEF WrGo, WrCas, WrTo
<1>6. wr[t].pc # "switch" /\ wr'[t].pc \notin HelpPc \cup {"help_drop"}
  BY <1>1, CasFailedEffect DEF HelpPc, WrGo, WrCas, WrTo
<1> QED BY <1>2, <1>3, <1>4, <1>6 DEF Aside

(* The old guard pays its debt: this is aside of the protocol. *)
LEMMA CasPayAside ==
  ASSUME Control, NEW t \in Threads, CasPay(t)
  PROVE  Aside(t)
<1>1. Types
  BY Own
<1>2. control' = control /\ active_addr' = active_addr
      /\ space_offer' = space_offer
      /\ handover' = handover /\ generation' = generation /\ rd' = rd
  BY <1>1, CasPayEffect
<1>3. OnlyRd(t)
  BY <1>2 DEF OnlyRd
<1>4. OnlyWr(t)
  BY <1>1, <1>2, CasPayEffect DEF WrCas, WrTo
<1>6. wr[t].pc # "switch" /\ wr'[t].pc \notin HelpPc \cup {"help_drop"}
  BY <1>1, CasPayEffect DEF HelpPc, WrCas, WrTo
<1> QED BY <1>2, <1>3, <1>4, <1>6 DEF Aside

(* The old guard drops its count: this is aside of the protocol. *)
LEMMA CasDecAside ==
  ASSUME Control, NEW t \in Threads, CasDec(t)
  PROVE  Aside(t)
<1>1. Types
  BY Own
<1>2. control' = control /\ active_addr' = active_addr
      /\ space_offer' = space_offer
      /\ handover' = handover /\ generation' = generation /\ rd' = rd
  BY <1>1, CasDecEffect
<1>3. OnlyRd(t)
  BY <1>2 DEF OnlyRd
<1>4. OnlyWr(t)
  BY <1>1, <1>2, CasDecEffect DEF WrGo, WrCas, WrTo
<1>6. wr[t].pc # "switch" /\ wr'[t].pc \notin HelpPc \cup {"help_drop"}
  BY <1>1, CasDecEffect DEF HelpPc, WrGo, WrCas, WrTo
<1> QED BY <1>2, <1>3, <1>4, <1>6 DEF Aside

(* compare_and_swap loads again: this is aside of the protocol. *)
LEMMA CasRetryAside ==
  ASSUME Control, NEW t \in Threads, CasRetry(t)
  PROVE  Aside(t)
<1>1. Types
  BY Own
<1>2. control' = control /\ active_addr' = active_addr
      /\ space_offer' = space_offer
      /\ handover' = handover /\ generation' = generation
  BY <1>1, CasRetryEffect
<1>3. OnlyRd(t)
  BY <1>1, <1>2, CasRetryEffect DEF LoadBegins, RdTo
<1>4. OnlyWr(t)
  BY <1>1, <1>2, CasRetryEffect DEF WrCas, WrTo
<1>5. \/ rd'[t] = rd[t]
      \/ /\ rd[t].pc \notin {"control", "candidate", "panicked", "take"}
         /\ rd'[t].pc \notin {"control", "take"}
  BY <1>1, CasRetryEffect, Own DEF LoadBegins, RdTo, WriteOk
<1>6. wr[t].pc # "switch" /\ wr'[t].pc \notin HelpPc \cup {"help_drop"}
  BY <1>1, CasRetryEffect DEF HelpPc, WrCas, WrTo
<1> QED BY <1>2, <1>3, <1>4, <1>5, <1>6 DEF Aside

(* pay_all counts the value before the walk: this is aside of the protocol. *)
LEMMA PrePayAside ==
  ASSUME Control, NEW t \in Threads, PrePay(t)
  PROVE  Aside(t)
<1>1. Types
  BY Own
<1>2. control' = control /\ active_addr' = active_addr
      /\ space_offer' = space_offer
      /\ handover' = handover /\ generation' = generation /\ rd' = rd
  BY <1>1, PrePayEffect
<1>3. OnlyRd(t)
  BY <1>2 DEF OnlyRd
<1>4. OnlyWr(t)
  BY <1>1, <1>2, PrePayEffect DEF WrSlot, WrTo
<1>6. wr[t].pc # "switch" /\ wr'[t].pc \notin HelpPc \cup {"help_drop"}
  BY <1>1, PrePayEffect DEF HelpPc, WrSlot, WrTo
<1> QED BY <1>2, <1>3, <1>4, <1>6 DEF Aside

(* pay_all pays one slot: this is aside of the protocol. *)
LEMMA PaySlotAside ==
  ASSUME Control, NEW t \in Threads, PaySlot(t)
  PROVE  Aside(t)
<1>1. Types
  BY Own
<1>2. control' = control /\ active_addr' = active_addr
      /\ space_offer' = space_offer
      /\ handover' = handover /\ generation' = generation /\ rd' = rd
  BY <1>1, PaySlotEffect
<1>3. OnlyRd(t)
  BY <1>2 DEF OnlyRd
<1>4. OnlyWr(t)
  BY <1>1, <1>2, PaySlotEffect DEF SlotDone, WrSlot, WrTo, WrGo, WrCas
<1>6. wr[t].pc # "switch" /\ wr'[t].pc \notin HelpPc \cup {"help_drop"}
  BY <1>1, PaySlotEffect DEF HelpPc, SlotDone, WrSlot, WrTo, WrGo, WrCas
<1> QED BY <1>2, <1>3, <1>4, <1>6 DEF Aside

(* pay_all counts for the next debt: this is aside of the protocol. *)
LEMMA PayIncAside ==
  ASSUME Control, NEW t \in Threads, PayInc(t)
  PROVE  Aside(t)
<1>1. Types
  BY Own
<1>2. control' = control /\ active_addr' = active_addr
      /\ space_offer' = space_offer
      /\ handover' = handover /\ generation' = generation /\ rd' = rd
  BY <1>1, PayIncEffect
<1>3. OnlyRd(t)
  BY <1>2 DEF OnlyRd
<1>4. OnlyWr(t)
  BY <1>1, <1>2, PayIncEffect DEF SlotDone, WrSlot, WrTo
<1>6. wr[t].pc # "switch" /\ wr'[t].pc \notin HelpPc \cup {"help_drop"}
  BY <1>1, PayIncEffect DEF HelpPc, SlotDone, WrSlot, WrTo
<1> QED BY <1>2, <1>3, <1>4, <1>6 DEF Aside

(* pay_all drops its last count: this is aside of the protocol. *)
LEMMA ReleaseValAside ==
  ASSUME Control, NEW t \in Threads, ReleaseVal(t)
  PROVE  Aside(t)
<1>1. Types
  BY Own
<1>2. control' = control /\ active_addr' = active_addr
      /\ space_offer' = space_offer
      /\ handover' = handover /\ generation' = generation /\ rd' = rd
  BY <1>1, ReleaseValEffect
<1>3. OnlyRd(t)
  BY <1>2 DEF OnlyRd
<1>4. OnlyWr(t)
  BY <1>1, <1>2, ReleaseValEffect DEF WrGo, WrCas, WrTo, WrIdle, WrBegins
<1>6. wr[t].pc # "switch" /\ wr'[t].pc \notin HelpPc \cup {"help_drop"}
  BY <1>1, ReleaseValEffect DEF HelpPc, WrGo, WrCas, WrTo, WrIdle, WrBegins
<1> QED BY <1>2, <1>3, <1>4, <1>6 DEF Aside

(* The writer drops the old value: this is aside of the protocol. *)
LEMMA DropOldAside ==
  ASSUME Control, NEW t \in Threads, DropOld(t)
  PROVE  Aside(t)
<1>1. Types
  BY Own
<1>2. control' = control /\ active_addr' = active_addr
      /\ space_offer' = space_offer
      /\ handover' = handover /\ generation' = generation /\ rd' = rd
  BY <1>1, DropOldEffect
<1>3. OnlyRd(t)
  BY <1>2 DEF OnlyRd
<1>4. OnlyWr(t)
  BY <1>1, <1>2, DropOldEffect DEF WrIdle, WrBegins, WrTo
<1>6. wr[t].pc # "switch" /\ wr'[t].pc \notin HelpPc \cup {"help_drop"}
  BY <1>1, DropOldEffect DEF HelpPc, WrIdle, WrBegins, WrTo
<1> QED BY <1>2, <1>3, <1>4, <1>6 DEF Aside

------------------------------------------------------------------------------
(* A step of help that only reads the words of the node. *)
LEMMA HelpReads ==
  ASSUME Control, Protocol, NEW t \in Threads, OnlyRd(t), OnlyWr(t),
         \/ rd'[t] = rd[t]
         \/ /\ rd[t].pc \notin {"control", "candidate", "panicked", "take"}
            /\ rd'[t].pc \notin {"control", "take"},
         control' = control, active_addr' = active_addr,
         space_offer' = space_offer, handover' = handover,
         generation' = generation,
         PastOk(wr'[t], rd'[wr'[t].node], generation[wr'[t].node]),
         CurrentOk(wr'[t], control[wr'[t].node], active_addr[wr'[t].node],
                   space_offer[wr'[t].node]),
         wr[t].pc # "switch", wr'[t].pc \notin {"switch", "help_cas"}
  PROVE  Protocol'
<1>1. ObservedPast'
  <2>1. ASSUME NEW u \in Threads, PastOk(wr[u], rd[t], generation[t])
        PROVE  PastOk(wr[u], rd'[t], generation'[t])
    BY <2>1 DEF PastOk, WrappedOk
  <2> QED BY <2>1, PastStep
<1>2. HelpCurrent'
  BY CurrentStep
<1>3. EnvelopeFilled'
  BY DEF OnlyWr, EnvelopeFilled, Protocol
<1>4. EnvelopeExclusive'
  <2>1. OwnEnvelope(control[t], rd'[t], wr'[t], space_offer[t]) = Envelope(t)
    BY DEF OwnEnvelope, Envelope
  <2> QED BY <2>1, EnvelopeStep
<1> QED BY <1>1, <1>2, <1>3, <1>4 DEF Protocol

(* A generation that is in the control word is no future one. *)
LEMMA GenerationPast ==
  ASSUME Control, NEW w, w.node \in Threads, IsGen(control[w.node]),
         w.observed = control[w.node]
  PROVE  PastOk(w, rd[w.node], generation[w.node])
<1> DEFINE n == w.node
<1>1. /\ FollowOk(rd[n], control[n], generation[n], active_addr[n])
      /\ generation[n] \in 0..(GenLimit - 1)
  BY Own DEF Types
<1>2. rd[n].pc \in Announced /\ control[n] = Gen(generation[n])
  BY <1>1, Words DEF FollowOk
<1>3. CASE generation[n] = 0
  <2>1. rd[n].pc \in {"candidate", "panicked"}
    BY <1>1, <1>2, <1>3 DEF FollowOk, Announced
  <2> QED BY <1>3, <2>1 DEF PastOk, WrappedOk
<1>4. CASE generation[n] # 0
  <2>1. generation[n] \in 1..generation[n] /\ rd[n].pc # "control"
    BY <1>1, <1>2, <1>4, GenLimitAssumption DEF Announced
  <2> QED BY <1>2, <2>1 DEF PastOk
<1> QED BY <1>3, <1>4

(* What thread t has with it in help. *)
LEMMA InHelp ==
  ASSUME Control, NEW t \in Threads, wr[t].pc \in HelpPc \cup {"help",
         "help_drop"}
  PROVE  /\ wr[t].pc # "replacement" => rd[t].pc = "idle" /\ control[t] = IDLE
         /\ wr[t].pc # "help" => wr[t].node # t
         /\ wr[t].node \in Threads
<1>1. /\ WriteOk(wr[t], rd[t]) /\ HelpOk(t, wr[t])
      /\ FollowOk(rd[t], control[t], generation[t], active_addr[t])
      /\ wr[t].node \in Threads
  BY Own, FrameTypes
<1>2. wr[t].pc # "replacement" => rd[t].pc = "idle"
  BY <1>1 DEF WriteOk, HelpPc
<1>3. wr[t].pc # "replacement" => control[t] = IDLE
  BY <1>1, <1>2 DEF FollowOk, Announced
<1> QED BY <1>1, <1>2, <1>3 DEF HelpOk

(* pay_all reads the control word of a node: Protocol stays. *)
LEMMA HelpProtocol ==
  ASSUME Control, Protocol, NEW t \in Threads, Help(t)
  PROVE  Protocol'
<1>1. /\ rd' = rd /\ control' = control /\ active_addr' = active_addr
      /\ space_offer' = space_offer /\ handover' = handover
      /\ generation' = generation /\ wr[t].pc = "help"
  BY Own, HelpEffect
<1>2. OnlyRd(t) /\ OnlyWr(t) /\ wr[t].node \in Threads
  BY <1>1, Own, HelpEffect, FrameTypes DEF OnlyRd, WrHelp, WrHelped, WrTo
<1>3. CASE WrHelped(t)
  <2>1. wr'[t].pc = "pay"
    BY <1>3 DEF WrHelped, WrTo
  <2>2. Aside(t)
    BY <1>1, <1>2, <2>1 DEF Aside, HelpPc
  <2> QED BY <2>2, AsideProtocol
<1>4. CASE /\ IsGen(control[wr[t].node])
           /\ WrHelp(t, "help_addr", control[wr[t].node], wr[t].repl, wr[t].their)
  <2>1. /\ wr'[t].pc = "help_addr" /\ wr'[t].node = wr[t].node
        /\ wr'[t].observed = control[wr[t].node]
    BY <1>4 DEF WrHelp, WrTo
  <2>2. PastOk(wr'[t], rd[wr'[t].node], generation[wr'[t].node])
    BY <1>2, <1>4, <2>1, GenerationPast
  <2>3. CurrentOk(wr'[t], control[wr'[t].node], active_addr[wr'[t].node],
                  space_offer[wr'[t].node])
    BY <2>1 DEF CurrentOk
  <2> QED BY <1>1, <1>2, <2>1, <2>2, <2>3, HelpReads
<1> QED BY <1>3, <1>4, Own, HelpEffect

(* help reads the control word again: Protocol stays. *)
LEMMA HelpRecheckProtocol ==
  ASSUME Control, Protocol, NEW t \in Threads, HelpRecheck(t)
  PROVE  Protocol'
<1>1. /\ rd' = rd /\ control' = control /\ active_addr' = active_addr
      /\ space_offer' = space_offer /\ handover' = handover
      /\ generation' = generation /\ wr[t].pc = "help_recheck"
  BY Own, HelpRecheckEffect
<1>2. OnlyRd(t) /\ OnlyWr(t) /\ wr[t].node \in Threads
  BY <1>1, Own, HelpRecheckEffect, FrameTypes DEF OnlyRd, WrHelp, WrHelped, WrTo
<1>3. CASE WrHelped(t)
  <2>1. wr'[t].pc = "pay"
    BY <1>3 DEF WrHelped, WrTo
  <2>2. Aside(t)
    BY <1>1, <1>2, <2>1 DEF Aside, HelpPc
  <2> QED BY <2>2, AsideProtocol
<1>4. CASE /\ IsGen(control[wr[t].node])
           /\ WrHelp(t, "help_addr", control[wr[t].node], wr[t].repl, wr[t].their)
  <2>1. /\ wr'[t].pc = "help_addr" /\ wr'[t].node = wr[t].node
        /\ wr'[t].observed = control[wr[t].node]
    BY <1>4 DEF WrHelp, WrTo
  <2>2. PastOk(wr'[t], rd[wr'[t].node], generation[wr'[t].node])
    BY <1>2, <1>4, <2>1, GenerationPast
  <2>3. CurrentOk(wr'[t], control[wr'[t].node], active_addr[wr'[t].node],
                  space_offer[wr'[t].node])
    BY <2>1 DEF CurrentOk
  <2> QED BY <1>1, <1>2, <2>1, <2>2, <2>3, HelpReads
<1> QED BY <1>3, <1>4, Own, HelpRecheckEffect

(* help drops a replacement nobody took: Protocol stays. *)
LEMMA HelpDropProtocol ==
  ASSUME Control, Protocol, NEW t \in Threads, HelpDrop(t)
  PROVE  Protocol'
<1>1. /\ rd' = rd /\ control' = control /\ active_addr' = active_addr
      /\ space_offer' = space_offer /\ handover' = handover
      /\ generation' = generation /\ wr[t].pc = "help_drop"
  BY Own, HelpDropEffect
<1>2. OnlyRd(t) /\ OnlyWr(t) /\ wr[t].node \in Threads
  BY <1>1, Own, HelpDropEffect, FrameTypes DEF OnlyRd, WrHelp, WrHelped, WrTo
<1>3. CASE WrHelped(t)
  <2>1. wr'[t].pc = "pay"
    BY <1>3 DEF WrHelped, WrTo
  <2>2. Aside(t)
    BY <1>1, <1>2, <2>1 DEF Aside, HelpPc
  <2> QED BY <2>2, AsideProtocol
<1>4. CASE WrHelp(t, "help_addr", wr[t].observed, Null, wr[t].their)
  <2>1. /\ wr'[t].pc = "help_addr" /\ wr'[t].node = wr[t].node
        /\ wr'[t].observed = wr[t].observed
    BY <1>4 DEF WrHelp, WrTo
  <2>2. PastOk(wr'[t], rd[wr'[t].node], generation[wr'[t].node])
    <3>1. PastOk(wr[t], rd[wr[t].node], generation[wr[t].node])
      BY Seen
    <3> QED BY <1>1, <2>1, <3>1 DEF PastOk
  <2>3. CurrentOk(wr'[t], control[wr'[t].node], active_addr[wr'[t].node],
                  space_offer[wr'[t].node])
    BY <2>1 DEF CurrentOk
  <2> QED BY <1>1, <1>2, <2>1, <2>2, <2>3, HelpReads
<1> QED BY <1>3, <1>4, Own, HelpDropEffect

(* help compares the address: Protocol stays. *)
LEMMA HelpCheckAddrProtocol ==
  ASSUME Control, Protocol, NEW t \in Threads, HelpCheckAddr(t)
  PROVE  Protocol'
<1>1. /\ control' = control /\ active_addr' = active_addr
      /\ space_offer' = space_offer /\ handover' = handover
      /\ generation' = generation /\ wr[t].pc = "help_addr"
  BY Own, HelpCheckAddrEffect
<1>2. /\ rd[t].pc = "idle" /\ wr[t].node # t /\ wr[t].node \in Threads
      /\ PastOk(wr[t], rd[wr[t].node], generation[wr[t].node])
  BY <1>1, InHelp, Seen DEF HelpPc
<1>3. OnlyRd(t) /\ OnlyWr(t)
  <2>1. OnlyRd(t)
    BY Own, HelpCheckAddrEffect DEF OnlyRd, LoadBegins, RdTo
  <2>2. OnlyWr(t)
    BY Own, HelpCheckAddrEffect DEF WrGo, WrCas, WrTo
  <2> QED BY <2>1, <2>2
<1>4. /\ wr'[t].pc \in {"replacement", "help_recheck"}
      /\ wr'[t].node = wr[t].node /\ wr'[t].observed = wr[t].observed
      /\ wr'[t].dst = wr[t].dst
      /\ wr'[t].pc = "replacement" => active_addr[wr[t].node] = wr[t].dst
  BY Own, HelpCheckAddrEffect DEF WrGo, WrCas, WrTo
<1>5. rd'[t] = rd[t] \/ rd'[t].pc \in {"scan", "get_debt"}
  BY Own, HelpCheckAddrEffect DEF LoadBegins, RdTo
<1>6. rd'[wr[t].node] = rd[wr[t].node]
  BY <1>2, <1>3 DEF OnlyRd
<1>7. PastOk(wr'[t], rd'[wr'[t].node], generation[wr'[t].node])
  BY <1>1, <1>2, <1>4, <1>6 DEF PastOk, HelpPc
<1>8. CurrentOk(wr'[t], control[wr'[t].node], active_addr[wr'[t].node],
                space_offer[wr'[t].node])
  BY <1>4 DEF CurrentOk
<1> QED BY <1>1, <1>2, <1>3, <1>4, <1>5, <1>7, <1>8, HelpReads

(* help has its replacement: Protocol stays. *)
LEMMA HelpReplacementProtocol ==
  ASSUME Control, Protocol, NEW t \in Threads, HelpReplacement(t)
  PROVE  Protocol'
<1>1. /\ control' = control /\ active_addr' = active_addr
      /\ space_offer' = space_offer /\ handover' = handover
      /\ generation' = generation /\ wr[t].pc = "replacement"
      /\ rd[t].pc = "return"
  BY Own, HelpReplacementEffect
<1>2. /\ wr[t].node # t /\ wr[t].node \in Threads
      /\ PastOk(wr[t], rd[wr[t].node], generation[wr[t].node])
      /\ CurrentOk(wr[t], control[wr[t].node], active_addr[wr[t].node],
                   space_offer[wr[t].node])
  BY <1>1, InHelp, Seen DEF HelpPc
<1>3. OnlyRd(t) /\ OnlyWr(t)
  <2>1. OnlyRd(t)
    BY Own, HelpReplacementEffect DEF RdIdle, RdTo
  <2>2. OnlyWr(t)
    BY Own, HelpReplacementEffect DEF WrHelp, WrTo
  <2> QED BY <2>1, <2>2
<1>4. /\ wr'[t].pc = "their_space"
      /\ wr'[t].node = wr[t].node /\ wr'[t].observed = wr[t].observed
      /\ wr'[t].dst = wr[t].dst
  BY Own, HelpReplacementEffect DEF WrHelp, WrTo
<1>5. rd'[t].pc = "idle"
  BY Own, HelpReplacementEffect DEF RdIdle, RdTo
<1>6. rd'[wr[t].node] = rd[wr[t].node]
  BY <1>2, <1>3 DEF OnlyRd
<1>7. PastOk(wr'[t], rd'[wr'[t].node], generation[wr'[t].node])
  BY <1>1, <1>2, <1>4, <1>6 DEF PastOk, HelpPc
<1>8. CurrentOk(wr'[t], control[wr'[t].node], active_addr[wr'[t].node],
                space_offer[wr'[t].node])
  BY <1>1, <1>2, <1>4 DEF CurrentOk
<1> QED BY <1>1, <1>2, <1>3, <1>4, <1>5, <1>7, <1>8, HelpReads

(* help reads the offered space: Protocol stays. *)
LEMMA HelpTheirSpaceProtocol ==
  ASSUME Control, Protocol, NEW t \in Threads, HelpTheirSpace(t)
  PROVE  Protocol'
<1>1. /\ control' = control /\ active_addr' = active_addr
      /\ space_offer' = space_offer /\ handover' = handover /\ rd' = rd
      /\ generation' = generation /\ wr[t].pc = "their_space"
  BY Own, HelpTheirSpaceEffect
<1>2. /\ PastOk(wr[t], rd[wr[t].node], generation[wr[t].node])
      /\ CurrentOk(wr[t], control[wr[t].node], active_addr[wr[t].node],
                   space_offer[wr[t].node])
  BY <1>1, Seen
<1>3. OnlyRd(t) /\ OnlyWr(t)
  BY <1>1, Own, HelpTheirSpaceEffect DEF OnlyRd, WrHelp, WrTo
<1>4. /\ wr'[t].pc = "fill" /\ wr'[t].their = space_offer[wr[t].node]
      /\ wr'[t].node = wr[t].node /\ wr'[t].observed = wr[t].observed
      /\ wr'[t].dst = wr[t].dst
  BY Own, HelpTheirSpaceEffect DEF WrHelp, WrTo
<1>5. PastOk(wr'[t], rd[wr'[t].node], generation[wr'[t].node])
  BY <1>1, <1>2, <1>4 DEF PastOk, HelpPc
<1>6. CurrentOk(wr'[t], control[wr'[t].node], active_addr[wr'[t].node],
                space_offer[wr'[t].node])
  BY <1>1, <1>2, <1>4 DEF CurrentOk
<1> QED BY <1>1, <1>3, <1>4, <1>5, <1>6, HelpReads

(* Nobody else can hand over or take the envelope that is being filled. *)
LEMMA HelpFillProtocol ==
  ASSUME Control, Protocol, NEW t \in Threads, HelpFill(t)
  PROVE  Protocol'
<1>1. /\ control' = control /\ active_addr' = active_addr
      /\ space_offer' = space_offer /\ rd' = rd
      /\ generation' = generation /\ wr[t].pc = "fill"
      /\ handover' = [handover EXCEPT ![space_offer[t]] = wr[t].repl]
  BY Own, HelpFillEffect
<1>2. /\ PastOk(wr[t], rd[wr[t].node], generation[wr[t].node])
      /\ CurrentOk(wr[t], control[wr[t].node], active_addr[wr[t].node],
                   space_offer[wr[t].node])
  BY <1>1, Seen
<1>3. OnlyRd(t) /\ OnlyWr(t)
  BY <1>1, Own, HelpFillEffect DEF OnlyRd, WrGo, WrCas, WrTo
<1>4. /\ wr'[t].pc = "help_cas" /\ wr'[t].their = wr[t].their
      /\ wr'[t].node = wr[t].node /\ wr'[t].observed = wr[t].observed
      /\ wr'[t].dst = wr[t].dst /\ wr'[t].repl = wr[t].repl
  BY Own, HelpFillEffect DEF WrGo, WrCas, WrTo
<1>5. PastOk(wr'[t], rd[wr'[t].node], generation[wr'[t].node])
  BY <1>1, <1>2, <1>4 DEF PastOk, HelpPc
<1>6. CurrentOk(wr'[t], control[wr'[t].node], active_addr[wr'[t].node],
                space_offer[wr'[t].node])
  BY <1>1, <1>2, <1>4 DEF CurrentOk
<1>7. ObservedPast'
  BY <1>1, <1>3, <1>5, PastStep
<1>8. HelpCurrent'
  BY <1>1, <1>3, <1>6, CurrentStep
<1>9. EnvelopeFilled'
  <2>1. ASSUME NEW u \in Threads, u # t, wr[u].pc = "help_cas"
        PROVE  space_offer[u] # space_offer[t]
    <3>1. Envelope(t) = space_offer[t] /\ Envelope(u) = space_offer[u]
      <4>1. control[t] = IDLE /\ rd[t].pc = "idle" /\ control[u] = IDLE /\ rd[u].pc = "idle"
        BY <1>1, <2>1, InHelp DEF HelpPc
      <4> QED BY <1>1, <2>1, <4>1, Words DEF Envelope, OwnEnvelope
    <3> QED BY <2>1, <3>1, Seen
  <2>2. /\ \A u \in Threads : space_offer[u] \in Threads
        /\ handover \in [Threads -> Ptrs]
    BY Own DEF Types
  <2>3. ASSUME NEW u \in Threads, wr'[u].pc = "help_cas"
        PROVE  handover'[space_offer'[u]] = wr'[u].repl
    <3>1. CASE u = t
      BY <1>1, <1>4, <2>2, <3>1
    <3>2. CASE u # t
      <4>1. wr'[u] = wr[u] /\ handover[space_offer[u]] = wr[u].repl
        BY <1>3, <2>3, <3>2, Seen DEF OnlyWr
      <4>2. space_offer[u] # space_offer[t]
        BY <2>1, <2>3, <3>2, <4>1
      <4> QED BY <1>1, <2>2, <4>1, <4>2
    <3> QED BY <3>1, <3>2
  <2> QED BY <2>3 DEF EnvelopeFilled
<1>10. EnvelopeExclusive'
  <2>1. OwnEnvelope(control[t], rd[t], wr'[t], space_offer[t]) = Envelope(t)
    BY <1>1, <1>4 DEF OwnEnvelope, Envelope
  <2> QED BY <1>1, <1>3, <2>1, EnvelopeStep
<1> QED BY <1>7, <1>8, <1>9, <1>10 DEF Protocol

------------------------------------------------------------------------------
(* The hand-over exchanges two envelopes: the writer's goes to the reader, and
   the reader's to the writer. *)
LEMMA HelpCasProtocol ==
  ASSUME Control, Protocol, NEW t \in Threads, HelpCas(t)
  PROVE  Protocol'
<1> DEFINE n == wr[t].node
<1>1. /\ active_addr' = active_addr /\ rd' = rd /\ handover' = handover
      /\ space_offer' = space_offer /\ generation' = generation
      /\ wr[t].pc = "help_cas"
  BY Own, HelpCasEffect
<1>2. /\ rd[t].pc = "idle" /\ control[t] = IDLE /\ n # t /\ n \in Threads
      /\ PastOk(wr[t], rd[n], generation[n])
      /\ CurrentOk(wr[t], control[n], active_addr[n], space_offer[n])
      /\ IsGen(wr[t].observed)
  BY <1>1, InHelp, Seen, Own DEF HelpPc, HelpOk
<1>3. OnlyRd(t) /\ OnlyWr(t)
  BY <1>1, Own, HelpCasEffect DEF OnlyRd, WrGo, WrCas, WrHelp, WrTo
<1>4. CASE /\ control[n] # wr[t].observed /\ control' = control
           /\ WrHelp(t, "help_drop", control[n], wr[t].repl, 1)
  <2>1. /\ wr'[t].pc = "help_drop" /\ wr'[t].node = n /\ wr'[t].observed = control[n]
    BY <1>4 DEF WrHelp, WrTo
  <2>2. PastOk(wr'[t], rd[wr'[t].node], generation[wr'[t].node])
    <3>1. CASE IsGen(control[n])
      BY <1>2, <2>1, <3>1, GenerationPast
    <3>2. CASE ~IsGen(control[n])
      BY <2>1, <3>2 DEF PastOk
    <3> QED BY <3>1, <3>2
  <2>3. CurrentOk(wr'[t], control[wr'[t].node], active_addr[wr'[t].node],
                  space_offer[wr'[t].node])
    BY <2>1 DEF CurrentOk
  <2> QED BY <1>1, <1>3, <1>4, <2>1, <2>2, <2>3, HelpReads
<1>5. CASE /\ control[n] = wr[t].observed
           /\ control' = [control EXCEPT ![n] = Replacement(space_offer[t])]
           /\ WrGo(t, "switch")
  <2>1. /\ wr'[t].pc = "switch" /\ wr'[t].node = n /\ wr'[t].observed = wr[t].observed
        /\ wr'[t].their = space_offer[n]
    BY <1>1, <1>2, <1>5 DEF WrGo, WrCas, WrTo, CurrentOk
  <2>2. /\ control'[n] = Replacement(space_offer[t])
        /\ \A u \in Threads : u # n => control'[u] = control[u]
    BY <1>2, <1>5, Own DEF Types
  <2>3. ObservedPast'
    <3>1. PastOk(wr'[t], rd[wr'[t].node], generation[wr'[t].node])
      BY <1>1, <1>2, <2>1 DEF PastOk, HelpPc
    <3> QED BY <1>1, <1>3, <3>1, PastStep
  <2>4. HelpCurrent'
    <3> SUFFICES ASSUME NEW u \in Threads
                 PROVE  CurrentOk(wr'[u], control'[wr'[u].node],
                                  active_addr'[wr'[u].node], space_offer'[wr'[u].node])
      BY DEF HelpCurrent
    <3>1. CASE u = t
      BY <2>1, <3>1 DEF CurrentOk
    <3>2. CASE u # t
      <4>1. /\ wr'[u] = wr[u] /\ wr[u].node \in Threads /\ HelpOk(u, wr[u])
            /\ CurrentOk(wr[u], control[wr[u].node], active_addr[wr[u].node],
                         space_offer[wr[u].node])
        BY <1>3, <3>2, Own, Seen, FrameTypes DEF OnlyWr
      <4>2. CASE wr[u].node = n
        <5>1. wr[u].pc \in HelpPc => control'[n] # wr[u].observed
          BY <2>2, <4>1, Words DEF HelpOk
        <5> QED BY <4>1, <4>2, <5>1 DEF CurrentOk, HelpPc
      <4>3. CASE wr[u].node # n
        BY <1>1, <2>2, <4>1, <4>3
      <4> QED BY <4>2, <4>3
    <3> QED BY <3>1, <3>2
  <2>5. EnvelopeFilled'
    BY <1>1, <1>3, <2>1 DEF OnlyWr, EnvelopeFilled, Protocol
  <2>6. EnvelopeExclusive'
    <3>1. Envelope(t) = space_offer[t] /\ Envelope(n) = space_offer[n]
      <4>1. Envelope(t) = space_offer[t]
        BY <1>1, <1>2, Words DEF Envelope, OwnEnvelope
      <4>2. /\ FollowOk(rd[n], control[n], generation[n], active_addr[n])
            /\ WriteOk(wr[n], rd[n])
        BY <1>2, Own
      <4>3. ~IsReplacement(control[n]) /\ rd[n].pc \in Announced
        <5>1. control[n] # IDLE
          BY <1>2, <1>5, Words
        <5>2. rd[n].pc \in Announced
          BY <4>2, <5>1 DEF FollowOk
        <5> QED BY <1>2, <1>5, <4>2, <5>2, Words DEF FollowOk
      <4>4. rd[n].pc # "take" /\ wr[n].pc # "switch"
        BY <4>2, <4>3 DEF WriteOk, Announced
      <4> QED BY <4>1, <4>3, <4>4 DEF Envelope, OwnEnvelope
    <3>2. OwnEnvelope(control'[t], rd'[t], wr'[t], space_offer'[t]) = space_offer[n]
      BY <1>1, <1>2, <2>1, <2>2, Words DEF OwnEnvelope
    <3>3. OwnEnvelope(control'[n], rd'[n], wr'[n], space_offer'[n]) = space_offer[t]
      BY <2>2, Words DEF OwnEnvelope
    <3>4. ASSUME NEW u \in Threads, u # t, u # n
          PROVE  OwnEnvelope(control'[u], rd'[u], wr'[u], space_offer'[u]) = Envelope(u)
      <4>1. control'[u] = control[u] /\ wr'[u] = wr[u]
        BY <1>3, <2>2, <3>4 DEF OnlyWr
      <4> QED BY <1>1, <4>1 DEF Envelope
    <3> DEFINE E(u) == OwnEnvelope(control'[u], rd'[u], wr'[u], space_offer'[u])
    <3>5. \A u \in Threads :
            E(u) = IF u = t THEN Envelope(n) ELSE IF u = n THEN Envelope(t) ELSE Envelope(u)
      BY <1>2, <3>1, <3>2, <3>3, <3>4
    <3>6. \A u, v \in Threads : Envelope(u) = Envelope(v) => u = v
      BY DEF Protocol, EnvelopeExclusive
    <3> HIDE DEF E
    <3>7. \A u, v \in Threads : E(u) = E(v) => u = v
      BY <1>2, <3>5, <3>6
    <3> QED BY <3>7 DEF E, EnvelopeExclusive, Envelope
  <2> QED BY <2>3, <2>4, <2>5, <2>6 DEF Protocol
<1> QED BY <1>4, <1>5, Own, HelpCasEffect

(* The envelope offered by a thread whose control word holds no generation is
   nothing that a writer relies on. *)
LEMMA OfferUnseen ==
  ASSUME Control, Protocol, NEW t \in Threads, ~IsGen(control[t])
  PROVE  \A u \in Threads : wr[u].node = t =>
           \A addr, space : CurrentOk(wr[u], control[t], addr, space)
<1> SUFFICES ASSUME NEW u \in Threads, wr[u].node = t, NEW addr, NEW space
             PROVE  CurrentOk(wr[u], control[t], addr, space)
  OBVIOUS
<1>1. HelpOk(u, wr[u])
  BY Own
<1> QED BY <1>1 DEF HelpOk, HelpPc, CurrentOk

(* help takes over the offered space: Protocol stays. *)
LEMMA HelpSwitchProtocol ==
  ASSUME Control, Protocol, NEW t \in Threads, HelpSwitch(t)
  PROVE  Protocol'
<1>1. /\ active_addr' = active_addr /\ rd' = rd /\ handover' = handover
      /\ control' = control /\ generation' = generation
      /\ wr[t].pc = "switch" /\ space_offer' = [space_offer EXCEPT ![t] = wr[t].their]
      /\ wr'[t].pc = "pay"
  BY Own, HelpSwitchEffect DEF WrHelped, WrTo
<1>2. rd[t].pc = "idle" /\ control[t] = IDLE
  BY <1>1, InHelp DEF HelpPc
<1>3. OnlyRd(t) /\ OnlyWr(t)
  BY <1>1, Own, HelpSwitchEffect DEF OnlyRd, WrHelped, WrTo
<1>4. /\ space_offer'[t] = wr[t].their
      /\ \A u \in Threads : u # t => space_offer'[u] = space_offer[u]
  BY <1>1, Own DEF Types
<1>5. ObservedPast'
  <2>1. PastOk(wr'[t], rd'[wr'[t].node], generation'[wr'[t].node])
    BY <1>1 DEF PastOk, HelpPc
  <2> QED BY <1>1, <1>3, <2>1, PastStep
<1>6. HelpCurrent'
  <2>1. CurrentOk(wr'[t], control'[wr'[t].node], active_addr'[wr'[t].node],
                  space_offer'[wr'[t].node])
    BY <1>1 DEF CurrentOk
  <2>2. \A u \in Threads : wr[u].node = t =>
          CurrentOk(wr[u], control'[t], active_addr'[t], space_offer'[t])
    BY <1>1, <1>2, OfferUnseen, Words
  <2> QED BY <1>1, <1>3, <1>4, <2>1, <2>2, CurrentStep
<1>7. EnvelopeFilled'
  BY <1>1, <1>3, <1>4 DEF OnlyWr, EnvelopeFilled, Protocol
<1>8. EnvelopeExclusive'
  <2>1. OwnEnvelope(control'[t], rd'[t], wr'[t], space_offer'[t]) = Envelope(t)
    BY <1>1, <1>2, <1>4, Words DEF OwnEnvelope, Envelope
  <2> QED BY <1>1, <1>3, <1>4, <2>1, EnvelopeStep
<1> QED BY <1>5, <1>6, <1>7, <1>8 DEF Protocol

(* confirm takes the value of its helper: Protocol stays. *)
LEMMA TakeHandoverProtocol ==
  ASSUME Control, Protocol, NEW t \in Threads, TakeHandover(t)
  PROVE  Protocol'
<1>1. /\ active_addr' = active_addr /\ wr' = wr /\ handover' = handover
      /\ control' = control /\ generation' = generation
      /\ rd[t].pc = "take" /\ space_offer' = [space_offer EXCEPT ![t] = rd[t].env]
      /\ rd'[t].pc = "unused_pay"
  BY Own, TakeHandoverEffect DEF RdTo
<1>2. control[t] = IDLE /\ wr[t].pc \in {"idle", "cas_load", "replacement"}
  BY <1>1, Own DEF FollowOk, Announced, WriteOk
<1>3. OnlyRd(t) /\ OnlyWr(t)
  BY <1>1, Own, TakeHandoverEffect DEF OnlyWr, RdTo
<1>4. /\ space_offer'[t] = rd[t].env
      /\ \A u \in Threads : u # t => space_offer'[u] = space_offer[u]
  BY <1>1, Own DEF Types
<1>5. ObservedPast'
  <2>1. ASSUME NEW u \in Threads, PastOk(wr[u], rd[t], generation[t])
        PROVE  PastOk(wr[u], rd'[t], generation'[t])
    BY <1>1, <2>1 DEF PastOk, WrappedOk
  <2> QED BY <1>1, <1>3, <2>1, PastStep
<1>6. HelpCurrent'
  <2>1. \A u \in Threads : wr[u].node = t =>
          CurrentOk(wr[u], control'[t], active_addr'[t], space_offer'[t])
    BY <1>1, <1>2, OfferUnseen, Words
  <2> QED BY <1>1, <1>3, <1>4, <2>1, CurrentStep
<1>7. EnvelopeFilled'
  BY <1>1, <1>2, <1>4 DEF EnvelopeFilled, Protocol
<1>8. EnvelopeExclusive'
  <2>1. OwnEnvelope(control'[t], rd'[t], wr'[t], space_offer'[t]) = Envelope(t)
    BY <1>1, <1>2, <1>4, Words DEF OwnEnvelope, Envelope
  <2> QED BY <1>1, <1>3, <1>4, <2>1, EnvelopeStep
<1> QED BY <1>5, <1>6, <1>7, <1>8 DEF Protocol

(* The fallback reads its candidate: Protocol stays. *)
LEMMA CandidateProtocol ==
  ASSUME Control, Protocol, NEW t \in Threads, Candidate(t)
  PROVE  Protocol'
<1>1. /\ active_addr' = active_addr /\ wr' = wr /\ handover' = handover
      /\ control' = control /\ generation' = generation
      /\ space_offer' = space_offer /\ rd[t].pc = "candidate"
  BY Own, CandidateEffect
<1>2. \/ rd'[t].pc = "panicked" /\ generation[t] = 0
      \/ rd'[t].pc = "slot" /\ generation[t] # 0
  BY Own, CandidateEffect DEF RdMove, RdTo
<1>3. OnlyRd(t) /\ OnlyWr(t)
  BY <1>1, Own, CandidateEffect DEF OnlyWr, RdMove, RdTo
<1>4. ObservedPast'
  <2>1. ASSUME NEW u \in Threads, PastOk(wr[u], rd[t], generation[t])
        PROVE  PastOk(wr[u], rd'[t], generation'[t])
    BY <1>1, <1>2, <2>1 DEF PastOk, WrappedOk
  <2> QED BY <1>1, <1>3, <2>1, PastStep
<1>5. HelpCurrent'
  BY <1>1, <1>3, CurrentStep
<1>6. EnvelopeFilled'
  BY <1>1 DEF EnvelopeFilled, Protocol
<1>7. EnvelopeExclusive'
  <2>1. OwnEnvelope(control'[t], rd'[t], wr'[t], space_offer'[t]) = Envelope(t)
    BY <1>1, <1>2 DEF OwnEnvelope, Envelope
  <2> QED BY <1>1, <1>3, <2>1, EnvelopeStep
<1> QED BY <1>4, <1>5, <1>6, <1>7 DEF Protocol

(* The generation that is taken has never been seen, or nobody has it any more. *)
LEMMA GetDebtProtocol ==
  ASSUME Control, Protocol, NEW t \in Threads, GetDebt(t)
  PROVE  Protocol'
<1>1. /\ active_addr' = [active_addr EXCEPT ![t] = rd[t].src]
      /\ generation' = [generation EXCEPT ![t] = NextGeneration(t)]
      /\ wr' = wr /\ handover' = handover /\ control' = control
      /\ space_offer' = space_offer /\ rd[t].pc = "get_debt"
      /\ rd'[t].pc = "control"
  BY Own, GetDebtEffect DEF RdGo, RdMove, RdTo
<1>2. control[t] = IDLE /\ Types
  BY <1>1, Own DEF FollowOk, Announced
<1>3. OnlyRd(t) /\ OnlyWr(t)
  BY <1>1, Own, GetDebtEffect DEF OnlyWr, RdGo, RdMove, RdTo
<1>4. /\ generation'[t] = NextGeneration(t)
         /\ generation[t] \in 0..(GenLimit - 1)
      /\ \A u \in Threads : u # t =>
           generation'[u] = generation[u] /\ active_addr'[u] = active_addr[u]
  BY <1>1, <1>2 DEF Types
<1>5. ObservedPast'
  <2>1. ASSUME NEW u \in Threads, wr[u].node = t, PastOk(wr[u], rd[t], generation[t]),
               wr[u].pc \in HelpPc \cup {"help_drop"}, IsGen(wr[u].observed)
        PROVE  /\ wr[u].observed # Gen(generation'[t])
               /\ \/ Recycle \/ WrappedOk(rd'[t], generation'[t])
                  \/ \E h \in 1..generation'[t] : wr[u].observed = Gen(h)
    <3>1. CASE Recycle
      <4>1. wr[u].observed \in InCirculation(t)
        BY <2>1 DEF InCirculation
      <4> QED BY <1>2, <1>4, <3>1, <4>1, FreshGeneration
    <3>2. CASE ~Recycle
      <4>1. PICK h \in 1..generation[t] : wr[u].observed = Gen(h)
        BY <1>1, <2>1, <3>2 DEF PastOk, WrappedOk
      <4>2. generation'[t] = (generation[t] + 1) % GenLimit
        BY <1>4, <3>2 DEF NextGeneration
      <4>3. generation'[t] = 0 \/ generation'[t] = generation[t] + 1
        BY <1>4, <4>2, GenLimitAssumption
      <4>4. h \in 1..(generation[t] + 1) /\ h # 0 /\ h # generation[t] + 1
        BY <1>4, <4>1
      <4> QED BY <1>1, <4>1, <4>3, <4>4, Words DEF WrappedOk
    <3> QED BY <3>1, <3>2
  <2>2. \A u \in Threads :
          u # t /\ wr[u].node = t /\ PastOk(wr[u], rd[t], generation[t]) =>
             PastOk(wr[u], rd'[t], generation'[t])
    BY <2>1 DEF PastOk
  <2> QED BY <1>1, <1>3, <1>4, <2>2, PastStep
<1>6. HelpCurrent'
  <2>1. \A u \in Threads : wr[u].node = t =>
          CurrentOk(wr[u], control'[t], active_addr'[t], space_offer'[t])
    BY <1>1, <1>2, OfferUnseen, Words
  <2> QED BY <1>1, <1>3, <1>4, <2>1, CurrentStep
<1>7. EnvelopeFilled'
  BY <1>1 DEF EnvelopeFilled, Protocol
<1>8. EnvelopeExclusive'
  <2>1. OwnEnvelope(control'[t], rd'[t], wr'[t], space_offer'[t]) = Envelope(t)
    BY <1>1 DEF OwnEnvelope, Envelope
  <2> QED BY <1>1, <1>3, <2>1, EnvelopeStep
<1> QED BY <1>5, <1>6, <1>7, <1>8 DEF Protocol

(* get_debt publishes its generation: Protocol stays. *)
LEMMA GetDebtControlProtocol ==
  ASSUME Control, Protocol, NEW t \in Threads, GetDebtControl(t)
  PROVE  Protocol'
<1>1. /\ control' = [control EXCEPT ![t] = Gen(generation[t])]
      /\ generation' = generation /\ active_addr' = active_addr
      /\ wr' = wr /\ handover' = handover /\ space_offer' = space_offer
      /\ rd[t].pc = "control" /\ rd'[t].pc = "candidate"
  BY Own, GetDebtControlEffect DEF RdGo, RdMove, RdTo
<1>2. control[t] = IDLE /\ Types
  BY <1>1, Own DEF FollowOk, Announced
<1>3. OnlyRd(t) /\ OnlyWr(t)
  BY <1>1, Own, GetDebtControlEffect DEF OnlyWr, RdGo, RdMove, RdTo
<1>4. /\ control'[t] = Gen(generation[t])
      /\ \A u \in Threads : u # t => control'[u] = control[u]
  BY <1>1, <1>2 DEF Types
<1>5. ObservedPast'
  <2>1. ASSUME NEW u \in Threads, PastOk(wr[u], rd[t], generation[t])
        PROVE  PastOk(wr[u], rd'[t], generation'[t])
    BY <1>1, <2>1 DEF PastOk, WrappedOk
  <2> QED BY <1>1, <1>3, <2>1, PastStep
<1>6. HelpCurrent'
  <2>1. ASSUME NEW u \in Threads, wr[u].node = t
        PROVE  CurrentOk(wr[u], control'[t], active_addr'[t], space_offer'[t])
    <3>1. PastOk(wr[u], rd[t], generation[t]) /\ HelpOk(u, wr[u])
      BY <2>1, Seen, Own
    <3>2. wr[u].pc \in HelpPc => wr[u].observed # Gen(generation[t])
      BY <1>1, <3>1 DEF PastOk, HelpOk
    <3> QED BY <1>4, <3>2 DEF CurrentOk, HelpPc
  <2> QED BY <1>1, <1>3, <1>4, <2>1, CurrentStep
<1>7. EnvelopeFilled'
  BY <1>1 DEF EnvelopeFilled, Protocol
<1>8. EnvelopeExclusive'
  <2>1. OwnEnvelope(control'[t], rd'[t], wr'[t], space_offer'[t]) = Envelope(t)
    BY <1>1, <1>2, <1>4, Words DEF OwnEnvelope, Envelope
  <2> QED BY <1>1, <1>3, <1>4, <2>1, EnvelopeStep
<1> QED BY <1>5, <1>6, <1>7, <1>8 DEF Protocol

(* confirm swaps its control word out: Protocol stays. *)
LEMMA ConfirmControlProtocol ==
  ASSUME Control, Protocol, NEW t \in Threads, ConfirmControl(t)
  PROVE  Protocol'
<1>1. /\ control' = [control EXCEPT ![t] = IDLE]
      /\ generation' = generation /\ active_addr' = active_addr
      /\ wr' = wr /\ handover' = handover /\ space_offer' = space_offer
      /\ rd[t].pc = "confirm_control"
  BY Own, ConfirmControlEffect
<1>2. \/ control[t] = Gen(generation[t]) /\ rd'[t].pc = "inc"
      \/ /\ control[t] # Gen(generation[t])
         /\ rd'[t].pc = "take" /\ rd'[t].env = control[t][2]
  BY Own, ConfirmControlEffect DEF RdGo, RdMove, RdTo
<1>3. OnlyRd(t) /\ OnlyWr(t)
  BY <1>1, Own, ConfirmControlEffect DEF OnlyWr, RdGo, RdMove, RdTo
<1>4. /\ control'[t] = IDLE
      /\ \A u \in Threads : u # t => control'[u] = control[u]
  BY <1>1, Own DEF Types
<1>5. ObservedPast'
  <2>1. ASSUME NEW u \in Threads, PastOk(wr[u], rd[t], generation[t])
        PROVE  PastOk(wr[u], rd'[t], generation'[t])
    BY <1>1, <1>2, <2>1 DEF PastOk, WrappedOk
  <2> QED BY <1>1, <1>3, <2>1, PastStep
<1>6. HelpCurrent'
  <2>1. ASSUME NEW u \in Threads, wr[u].node = t
        PROVE  CurrentOk(wr[u], control'[t], active_addr'[t], space_offer'[t])
    <3>1. HelpOk(u, wr[u])
      BY Own
    <3>2. wr[u].pc \in HelpPc => wr[u].observed # IDLE
      BY <3>1, Words DEF HelpOk
    <3> QED BY <1>4, <3>2 DEF CurrentOk, HelpPc
  <2> QED BY <1>1, <1>3, <1>4, <2>1, CurrentStep
<1>7. EnvelopeFilled'
  BY <1>1 DEF EnvelopeFilled, Protocol
<1>8. EnvelopeExclusive'
  <2>1. FollowOk(rd[t], control[t], generation[t], active_addr[t])
    BY Own
  <2>2. \/ control[t] = Gen(generation[t])
        \/ IsReplacement(control[t])
    BY <1>1, <2>1, Words DEF FollowOk, Announced
  <2>3. OwnEnvelope(control'[t], rd'[t], wr'[t], space_offer'[t]) = Envelope(t)
    BY <1>1, <1>2, <1>4, <2>2, Words DEF OwnEnvelope, Envelope
  <2> QED BY <1>1, <1>3, <1>4, <2>3, EnvelopeStep
<1> QED BY <1>5, <1>6, <1>7, <1>8 DEF Protocol

(* A thread ends and its node gets another owner: Protocol stays. *)
LEMMA ThreadRestartProtocol ==
  ASSUME Control, Protocol, NEW t \in Threads, ThreadRestart(t),
         rd[t].pc = "idle", wr[t].pc = "idle"
  PROVE  Protocol'
<1>1. /\ generation' = [generation EXCEPT ![t] = 0]
      /\ UNCHANGED <<nodeVars, rd, wr>>
      /\ \A u \in Threads : wr[u].pc \in PayAllPc => wr[u].node # t
  BY DEF ThreadRestart
<1>2. OnlyRd(t) /\ OnlyWr(t)
  BY <1>1 DEF OnlyRd, OnlyWr
<1>3. \A u \in Threads : u # t => generation'[u] = generation[u]
  BY <1>1, Own DEF Types
<1>4. ObservedPast'
  <2>1. \A u \in Threads : wr[u].node = t => PastOk(wr[u], rd'[t], generation'[t])
    BY <1>1 DEF PastOk, HelpPc, PayAllPc
  <2> QED BY <1>1, <1>2, <1>3, <2>1, PastStep
<1>5. HelpCurrent' /\ EnvelopeFilled' /\ EnvelopeExclusive'
  BY <1>1 DEF Protocol, HelpCurrent, EnvelopeFilled, EnvelopeExclusive, Envelope
<1> QED BY <1>4, <1>5 DEF Protocol

(* A stuttering step, and one that only callers see. *)
LEMMA ProtocolStutter ==
  ASSUME Protocol, UNCHANGED <<nodeVars, generation, rd, wr>>
  PROVE  Protocol'
BY DEF Protocol, ObservedPast, HelpCurrent, EnvelopeFilled, EnvelopeExclusive,
   Envelope

(* A caller clones what it owns: Protocol stays. *)
LEMMA CloneProtocol ==
  ASSUME Control, Protocol, NEW t \in Threads, NEW h \in Handles, Clone(t, h)
  PROVE  Protocol'
BY ProtocolStutter DEF Clone

(* The protocol begins with every node idle. *)
LEMMA ProtocolInit ==
  ASSUME Init
  PROVE  Protocol
<1>1. \A t \in Threads : /\ rd[t].pc = "idle" /\ wr[t].pc = "idle"
                         /\ control[t] = IDLE /\ space_offer[t] = t
  BY DEF Init, NoLoad, NoWrite
<1>2. ObservedPast /\ HelpCurrent
  BY <1>1 DEF ObservedPast, HelpCurrent, PastOk, CurrentOk, HelpPc
<1>3. EnvelopeFilled
  BY <1>1 DEF EnvelopeFilled
<1>4. \A t \in Threads : Envelope(t) = t
  BY <1>1, Words DEF Envelope, OwnEnvelope
<1> QED BY <1>2, <1>3, <1>4 DEF Protocol, EnvelopeExclusive

------------------------------------------------------------------------------
(* Every step keeps Protocol. *)
LEMMA ProtocolNext ==
  ASSUME Control, Protocol, [Next]_vars
  PROVE  Protocol'
<1>1. ASSUME NEW t \in Threads, LoadStep(t)
      PROVE  Protocol'
  BY <1>1, ScanAside, ConfirmFastAside, GiveBackAside, GetDebtProtocol,
     GetDebtControlProtocol,
     CandidateProtocol, ConfirmSlotAside, ConfirmControlProtocol,
     TakeHandoverProtocol,
     UnusedPayAside, UnusedDecAside, IntoInnerIncAside, IntoInnerPayAside,
     IntoInnerDecAside, ReturnFullAside, ReturnToCallerAside, DropDecAside,
     AsideProtocol DEF LoadStep
<1>2. ASSUME NEW t \in Threads, WriteStep(t)
      PROVE  Protocol'
  BY <1>2, CasLoadedAside, DropNewAside, CasExchangeAside, CasFailedAside,
     CasPayAside,
     CasDecAside, CasRetryAside, PrePayAside, HelpProtocol,
     HelpCheckAddrProtocol, HelpRecheckProtocol,
     HelpReplacementProtocol, HelpTheirSpaceProtocol, HelpFillProtocol,
     HelpCasProtocol,
     HelpSwitchProtocol, HelpDropProtocol, PaySlotAside, PayIncAside,
     ReleaseValAside, DropOldAside, AsideProtocol
     DEF WriteStep
<1>3. ASSUME NEW t \in Threads, StartCall(t)
      PROVE  Protocol'
  <2>1. rd[t].pc = "idle" /\ wr[t].pc = "idle"
    BY <1>3 DEF StartCall
  <2>2. CASE \E s \in Storages, op \in {"load", "load_full"} : Load(t, s, op)
    BY <2>1, <2>2, LoadAside, AsideProtocol
  <2>3. CASE \E s \in Storages, op \in {"swap", "store"} : Swap(t, s, op)
    BY <2>1, <2>3, SwapAside, AsideProtocol
  <2>4. CASE \E s \in Storages, op \in {"drop_storage", "unwrap_storage"} :
               EndStorage(t, s, op)
    BY <2>1, <2>4, EndStorageAside, AsideProtocol
  <2>5. CASE \E s \in Storages : \E p \in Pool[s] : CompareAndSwap(t, s, p)
    BY <2>1, <2>5, CompareAndSwapAside, AsideProtocol
  <2>6. CASE \E h \in Handles : held[h] > 0 /\ IntoInner(t, h)
    BY <2>1, <2>6, IntoInnerAside, AsideProtocol
  <2>7. CASE \E h \in Handles : held[h] > 0 /\ Clone(t, h)
    BY <2>1, <2>7, CloneProtocol
  <2>8. CASE \E h \in Handles : held[h] > 0 /\ Drop(t, h)
    BY <2>1, <2>8, DropAside, AsideProtocol
  <2>9. CASE ThreadRestart(t)
    BY <2>1, <2>9, ThreadRestartProtocol
  <2> QED BY <1>3, <2>2, <2>3, <2>4, <2>5, <2>6, <2>7, <2>8, <2>9 DEF StartCall
<1>4. ASSUME UNCHANGED vars
      PROVE  Protocol'
  BY <1>4, ProtocolStutter DEF vars
<1> QED BY <1>1, <1>2, <1>3, <1>4 DEF Next, AllDone

(* Control and the protocol of help hold in every state. *)
THEOREM ProtocolHolds == Spec => [](Control /\ Protocol)
<1>1. Init => Control /\ Protocol
  BY ControlInit, ProtocolInit
<1>2. Control /\ Protocol /\ [Next]_vars => Control' /\ Protocol'
  BY ControlNext, ProtocolNext
<1> QED BY <1>1, <1>2, PTL DEF Spec
==============================================================================
