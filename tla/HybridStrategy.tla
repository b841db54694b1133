--------------------------- MODULE HybridStrategy ---------------------------
(***************************************************************************)
(* The default strategy of arc-swap: loads through fast debt slots and     *)
(* through the helping slot, writers that pay all the debts on the value   *)
(* they have removed, and the guards and Arcs that the callers hold.       *)
(* Sources: src/src/strategy/hybrid.rs, src/src/debt/{mod,fast,helping}.rs *)
(* and the operations of ArcSwapAny and Guard in src/src/lib.rs.           *)
(*                                                                         *)
(* A thread has two frames: rd, for a load (and for what is done with the  *)
(* guard it returns), and wr, for a write; a write uses rd for the loads   *)
(* that it makes itself.  A step is one access to shared memory with the   *)
(* thread-local work around it.  Memory is sequentially consistent, which  *)
(* is what the SeqCst accesses of the code ask for.                        *)
(*                                                                         *)
(* Objects are addresses with a reference count; an address whose count is *)
(* zero is free and may be allocated again.  Thread t owns node t from the *)
(* start: see NodeList for how nodes are claimed and released.             *)
(***************************************************************************)
EXTENDS Integers, Sequences, FiniteSets

CONSTANTS
  N,              \* the number of threads
  DEBT_SLOT_CNT,  \* fast debt slots of a node
  UseFast,        \* Config::USE_FAST
  GenLimit,       \* the number of generations before the counter wraps
  Recycle,        \* use a generation again once nobody has a copy of it
  Storages,       \* the ArcSwap instances
  Objects,        \* the addresses of reference counted objects
  Null,           \* the null pointer (None of an Option<Arc>)
  Pool,           \* Pool[s]: the pointers that a value of storage s may have
  Initial,        \* Initial[s]: the value storage s is created with
  Script,         \* Script[t][i]: what the i-th call of thread t may be; the
                  \* bound on its calls is the length of the sequence
  Droppers,       \* the threads that drop guards and Arcs
  FairThreads     \* the threads that are sure to be scheduled again

Threads == 1..N
Ptrs == Objects \cup {Null}
HELPING == DEBT_SLOT_CNT + 1
SlotIds == Threads \X (1..HELPING)
NONE == "NONE"           \* Debt::NONE, the content of an empty slot
NoDebt == <<0, 0>>       \* HybridProtection::debt is None
NoStorage == Null        \* an address word that is still 0
Dropped == "dropped"     \* a storage that was dropped or unwrapped

(* The calls of the API: on a storage, or on a guard or an Arc; and the end of
   the thread, whose node goes to another one. *)
ApiCalls ==
  {"load", "load_full", "swap", "store", "compare_and_swap", "drop_storage",
   "unwrap_storage"} \X Storages
  \cup {"into_inner", "clone", "restart"} \X {NoStorage}

ASSUME NAssumption == N \in Nat \ {0}
ASSUME SlotCountAssumption == DEBT_SLOT_CNT \in Nat \ {0}
ASSUME GenLimitAssumption == GenLimit \in Nat \ {0}
ASSUME RecycleAssumption == Recycle \in BOOLEAN /\ (Recycle => GenLimit > N + 1)
ASSUME StoragesAssumption == IsFiniteSet(Storages)
ASSUME NullAssumption == Null \notin Objects \cup Storages
ASSUME SentinelAssumption == NONE \notin Ptrs /\ Dropped \notin Ptrs
ASSUME PoolAssumption == Pool \in [Storages -> SUBSET Ptrs]
ASSUME InitialAssumption ==
  Initial \in [Storages -> Ptrs] /\ \A s \in Storages : Initial[s] \in Pool[s]
ASSUME ScriptAssumption == Script \in [Threads -> Seq(SUBSET ApiCalls)]

VARIABLES
  storage,      \* ArcSwapAny::ptr of every instance
  cnt,          \* the strong counts
  slots,        \* the debt slots; <<n, HELPING>> is the helping slot of node n
  control, active_addr, space_offer, handover,   \* helping::Slots, per node
  generation,   \* helping::Local, per thread
  offset,       \* fast::Local, per thread
  rd,           \* the load frames
  wr,           \* the write frames
  held,         \* how many of each kind of guard or Arc the callers hold
  calls,        \* how many calls every thread has made
  window        \* history: what the storage has held since the load began

nodeVars == <<control, active_addr, space_offer, handover>>
localVars == <<generation, offset>>
vars == <<storage, cnt, slots, nodeVars, localVars, rd, wr, held, calls, window>>

-----------------------------------------------------------------------------
(* A guard (or, without a debt, an Arc or an unprotected guard). *)
Handles == [ptr : Ptrs, debt : SlotIds \cup {NoDebt}]
Owned(p) == [ptr |-> p, debt |-> NoDebt]

IDLE == <<"IDLE", 0>>
Gen(g) == <<"GEN_TAG", g>>
Replacement(e) == <<"REPLACEMENT_TAG", e>>
IsGen(c) == c[1] = "GEN_TAG"
IsReplacement(c) == c[1] = "REPLACEMENT_TAG"
ControlWords ==
  {IDLE} \cup {Gen(g) : g \in 0..(GenLimit - 1)} \cup {Replacement(e) : e \in Threads}

RdPc == {"idle", "scan", "confirm", "give_back", "get_debt", "control",
         "candidate", "slot", "confirm_control", "take", "unused_pay",
         "unused_dec", "inc", "inner_pay", "inner_dec", "drop_dec", "return",
         "panicked"}

WrPc == {"idle", "pre_pay", "help", "help_addr", "help_recheck", "replacement",
         "their_space", "fill", "help_cas", "switch", "help_drop", "pay",
         "pay_inc", "release", "drop_old", "cas_load", "cas", "cas_pay",
         "cas_dec", "cas_retry", "drop_new"}

(* Between the prepayment and the end of the list: the writer has a
   reservation on the node it has got to. *)
PayAllPc == {"help", "help_addr", "help_recheck", "replacement", "their_space",
             "fill", "help_cas", "switch", "help_drop", "pay", "pay_inc"}

WriteOps == {"swap", "store", "compare_and_swap", "drop_storage", "unwrap_storage"}

(* src: the storage; ptr, debt: the HybridProtection (or the candidate); i:
   how many fast slots were tried; env, got: the envelope of a hand-over and
   what was in it; full: the caller turns the guard into an Arc. *)
LoadFrames ==
  [pc : RdPc, src : Storages \cup {NoStorage}, ptr : Ptrs,
   debt : SlotIds \cup {NoDebt}, i : 0..DEBT_SLOT_CNT, env : Threads,
   got : Ptrs, full : BOOLEAN]
NoLoad == [pc |-> "idle", src |-> NoStorage, ptr |-> Null, debt |-> NoDebt,
           i |-> 0, env |-> 1, got |-> Null, full |-> FALSE]

(* op: the call; dst: the storage; new, current: its arguments; old: what was
   in the storage; odebt: the debt of compare_and_swap's old guard; node, k:
   the debt slot reached by pay_all; observed, repl, their: locals of help. *)
WriteFrames ==
  [pc : WrPc, op : WriteOps \cup {"none"}, dst : Storages \cup {NoStorage},
   new : Ptrs, current : Ptrs, old : Ptrs, odebt : SlotIds \cup {NoDebt},
   node : Threads, k : 1..HELPING, observed : ControlWords, repl : Ptrs,
   their : Threads]
NoWrite == [pc |-> "idle", op |-> "none", dst |-> NoStorage, new |-> Null,
            current |-> Null, old |-> Null, odebt |-> NoDebt, node |-> 1,
            k |-> 1, observed |-> IDLE, repl |-> Null, their |-> 1]

Init ==
  /\ storage = Initial
  /\ cnt = [a \in Objects |-> Cardinality({s \in Storages : Initial[s] = a})]
  /\ slots = [x \in SlotIds |-> NONE]
  /\ control = [n \in Threads |-> IDLE]
  /\ active_addr = [n \in Threads |-> NoStorage]
  /\ space_offer = [n \in Threads |-> n]
  /\ handover = [n \in Threads |-> Null]
  /\ generation = [t \in Threads |-> 0]
  /\ offset = [t \in Threads |-> 0]
  /\ rd = [t \in Threads |-> NoLoad]
  /\ wr = [t \in Threads |-> NoWrite]
  /\ held = [h \in Handles |-> 0]
  /\ calls = [t \in Threads |-> 0]
  /\ window = [t \in Threads |-> {}]

-----------------------------------------------------------------------------
(* RefCnt::inc and RefCnt::dec; the null pointer has no count. *)
Inc(a) ==
  cnt' = IF a = Null THEN cnt ELSE [cnt EXCEPT ![a] = @ + 1]

(* Dropping the last reference frees the object; its address now stands for
   nothing that any load could return. *)
Dec(a) ==
  /\ cnt' = IF a = Null THEN cnt ELSE [cnt EXCEPT ![a] = @ - 1]
  /\ window' = IF a # Null /\ cnt[a] = 1
               THEN [t \in Threads |-> window[t] \ {a}] ELSE window

(* The owner of h gets rid of it, or gets one. *)
Give(h) == held' = [held EXCEPT ![h] = @ + 1]
Take(h) == held' = [held EXCEPT ![h] = @ - 1]

(* A value for storage s that the caller owns: newly allocated, or one of its
   Arcs. *)
NewValue(s, v) ==
  /\ v \in Pool[s]
  /\ \/ v = Null /\ UNCHANGED <<cnt, held>>
     \/ v # Null /\ cnt[v] = 0 /\ cnt' = [cnt EXCEPT ![v] = 1] /\ UNCHANGED held
     \/ v # Null /\ held[Owned(v)] > 0 /\ Take(Owned(v)) /\ UNCHANGED cnt

(* The storage holds v from now on, which the loads under way may return. *)
Publish(s, v) ==
  /\ storage' = [storage EXCEPT ![s] = v]
  /\ window' = [t \in Threads |->
                  IF rd[t].src = s THEN window[t] \cup {v} ELSE window[t]]

MayCall(t) == calls[t] < Len(Script[t])

Call(t, op, s) ==
  /\ MayCall(t) /\ <<op, s>> \in Script[t][calls[t] + 1]
  /\ calls' = [calls EXCEPT ![t] = @ + 1]


-----------------------------------------------------------------------------
(* HybridStrategy::load. *)

(* A frame that begins to load from s: the first read of attempt, or
   fallback at once. *)
NewLoad(s, full) ==
  [NoLoad EXCEPT !.pc = IF UseFast THEN "scan" ELSE "get_debt",
                 !.src = s, !.full = full,
                 !.ptr = IF UseFast THEN storage[s] ELSE Null]

StartLoad(t, s, full) ==
  /\ rd' = [rd EXCEPT ![t] = NewLoad(s, full)]
  /\ window' = [window EXCEPT ![t] = {storage[s]}]

Load(t, s, op) ==
  /\ Call(t, op, s)
  /\ storage[s] # Dropped
  /\ StartLoad(t, s, op = "load_full")
  /\ UNCHANGED <<storage, cnt, slots, nodeVars, localVars, wr, held>>

(* A mutant of Scan: wait until a slot is free. *)
ScanWaiting(t) ==
  LET k == ((rd[t].i + offset[t]) % DEBT_SLOT_CNT) + 1 IN
  /\ rd[t].pc = "scan"
  /\ \/ /\ slots[<<t, k>>] = NONE
        /\ slots' = [slots EXCEPT ![<<t, k>>] = rd[t].ptr]
        /\ rd' = [rd EXCEPT ![t].pc = "confirm", ![t].debt = <<t, k>>, ![t].i = 0]
     \/ /\ slots[<<t, k>>] # NONE
        /\ rd' = [rd EXCEPT ![t].i = (@ + 1) % DEBT_SLOT_CNT]
        /\ UNCHANGED slots
  /\ UNCHANGED <<storage, cnt, nodeVars, localVars, wr, held, calls, window>>

(* fast::Slots::get_debt, one slot: only the owner makes a slot non-empty, so
   the check and the swap are one step. *)
Scan(t) ==
  LET k == ((rd[t].i + offset[t]) % DEBT_SLOT_CNT) + 1 IN
  /\ rd[t].pc = "scan"
  /\ \/ /\ slots[<<t, k>>] = NONE
        /\ slots' = [slots EXCEPT ![<<t, k>>] = rd[t].ptr]
        /\ offset' = [offset EXCEPT ![t] = k]
        /\ rd' = [rd EXCEPT ![t].pc = "confirm", ![t].debt = <<t, k>>, ![t].i = 0]
     \/ /\ slots[<<t, k>>] # NONE
        /\ \/ /\ rd[t].i + 1 < DEBT_SLOT_CNT
              /\ rd' = [rd EXCEPT ![t].i = @ + 1]
           \/ /\ rd[t].i + 1 >= DEBT_SLOT_CNT
              /\ rd' = [rd EXCEPT ![t].pc = "get_debt", ![t].i = 0, ![t].ptr = Null]
        /\ UNCHANGED <<slots, offset>>
  /\ UNCHANGED <<storage, cnt, nodeVars, generation, wr, held, calls, window>>

(* A mutant of ConfirmFast: no second read. *)
ConfirmFastUnchecked(t) ==
  /\ rd[t].pc = "confirm"
  /\ rd' = [rd EXCEPT ![t].pc = "return"]
  /\ UNCHANGED <<storage, cnt, slots, nodeVars, localVars, wr, held, calls, window>>

(* The second read of attempt: the debt protects what is still stored. *)
ConfirmFast(t) ==
  /\ rd[t].pc = "confirm"
  /\ rd' = [rd EXCEPT ![t].pc =
              IF storage[rd[t].src] = rd[t].ptr THEN "return" ELSE "give_back"]
  /\ UNCHANGED <<storage, cnt, slots, nodeVars, localVars, wr, held, calls, window>>

(* Debt::pay: x still holds a, and is emptied; or somebody has paid before. *)
Paid(x, a) == slots[x] = a /\ slots' = [slots EXCEPT ![x] = NONE]
PaidBefore(x, a) == slots[x] # a /\ UNCHANGED slots

(* The storage has changed: return the debt and go to fallback, or, when a
   writer has paid it, use the pointer. *)
GiveBack(t) ==
  /\ rd[t].pc = "give_back"
  /\ \/ /\ Paid(rd[t].debt, rd[t].ptr)
        /\ rd' = [rd EXCEPT ![t].pc = "get_debt", ![t].ptr = Null, ![t].debt = NoDebt]
     \/ /\ PaidBefore(rd[t].debt, rd[t].ptr)
        /\ rd' = [rd EXCEPT ![t].pc = "return", ![t].debt = NoDebt]
  /\ UNCHANGED <<storage, cnt, nodeVars, localVars, wr, held, calls, window>>

(* The counter that get_debt increments.  Generations are only compared for
   equality with copies of the control word, so one that is nowhere to be
   found may stand for a new one: with Recycle the number of loads is not
   bounded by GenLimit. *)
InCirculation(t) ==
  {control[t]} \cup {wr[u].observed : u \in {x \in Threads : wr[x].node = t}}

NextGeneration(t) ==
  IF Recycle THEN CHOOSE g \in 1..(GenLimit - 1) : Gen(g) \notin InCirculation(t)
  ELSE (generation[t] + 1) % GenLimit

(* fallback: helping::Slots::get_debt in two steps, through new_helping. *)
GetDebt(t) ==
  /\ rd[t].pc = "get_debt"
  /\ generation' = [generation EXCEPT ![t] = NextGeneration(t)]
  /\ active_addr' = [active_addr EXCEPT ![t] = rd[t].src]
  /\ rd' = [rd EXCEPT ![t].pc = "control"]
  /\ UNCHANGED <<storage, cnt, slots, control, space_offer, handover, offset,
                 wr, held, calls, window>>

GetDebtControl(t) ==
  /\ rd[t].pc = "control"
  /\ control' = [control EXCEPT ![t] = Gen(generation[t])]
  /\ rd' = [rd EXCEPT ![t].pc = "candidate"]
  /\ UNCHANGED <<storage, cnt, slots, active_addr, space_offer, handover,
                 localVars, wr, held, calls, window>>

(* The candidate is loaded.  When the generation has just wrapped, new_helping
   has taken the node away from the thread, and the expect in confirm_helping
   ends the call. *)
Candidate(t) ==
  /\ rd[t].pc = "candidate"
  /\ rd' = [rd EXCEPT ![t].ptr = storage[rd[t].src],
                      ![t].pc = IF generation[t] = 0 THEN "panicked" ELSE "slot"]
  /\ UNCHANGED <<storage, cnt, slots, nodeVars, localVars, wr, held, calls, window>>

(* helping::Slots::confirm: the debt, the control word, the hand-over. *)
ConfirmSlot(t) ==
  /\ rd[t].pc = "slot"
  /\ slots' = [slots EXCEPT ![<<t, HELPING>>] = rd[t].ptr]
  /\ rd' = [rd EXCEPT ![t].pc = "confirm_control", ![t].debt = <<t, HELPING>>]
  /\ UNCHANGED <<storage, cnt, nodeVars, localVars, wr, held, calls, window>>

(* A mutant of ConfirmControl: a hand-over is ignored, the candidate used. *)
ConfirmControlIgnoringHelp(t) ==
  /\ rd[t].pc = "confirm_control"
  /\ control' = [control EXCEPT ![t] = IDLE]
  /\ rd' = [rd EXCEPT ![t].pc = "inc"]
  /\ UNCHANGED <<storage, cnt, slots, active_addr, space_offer, handover,
                 localVars, wr, held, calls, window>>

(* Ok: fallback turns the debt into an Arc (into_inner).  Err: a hand-over. *)
ConfirmControl(t) ==
  /\ rd[t].pc = "confirm_control"
  /\ control' = [control EXCEPT ![t] = IDLE]
  /\ rd' = [rd EXCEPT ![t] =
              IF control[t] = Gen(generation[t]) THEN [@ EXCEPT !.pc = "inc"]
              ELSE [@ EXCEPT !.pc = "take", !.env = control[t][2]]]
  /\ UNCHANGED <<storage, cnt, slots, active_addr, space_offer, handover,
                 localVars, wr, held, calls, window>>

TakeHandover(t) ==
  /\ rd[t].pc = "take"
  /\ space_offer' = [space_offer EXCEPT ![t] = rd[t].env]
  /\ rd' = [rd EXCEPT ![t].pc = "unused_pay", ![t].got = handover[rd[t].env],
                      ![t].env = 1]
  /\ UNCHANGED <<storage, cnt, slots, control, active_addr, handover, localVars,
                 wr, held, calls, window>>

(* The replacement is ours, with its reference. *)
Helped(t) ==
  rd' = [rd EXCEPT ![t].pc = "return", ![t].ptr = rd[t].got,
                   ![t].got = Null, ![t].debt = NoDebt]

(* Mutants of UnusedPay: the debt stays in the slot; or a debt that was paid
   by a writer is forgotten, with its reference. *)
UnusedPayNever(t) ==
  /\ rd[t].pc = "unused_pay"
  /\ Helped(t)
  /\ UNCHANGED <<storage, cnt, slots, nodeVars, localVars, wr, held, calls, window>>

UnusedPayForgetting(t) ==
  /\ rd[t].pc = "unused_pay"
  /\ Paid(rd[t].debt, rd[t].ptr) \/ PaidBefore(rd[t].debt, rd[t].ptr)
  /\ Helped(t)
  /\ UNCHANGED <<storage, cnt, nodeVars, localVars, wr, held, calls, window>>

(* The debt on the candidate is unused: pay it back, or release the reference
   it was paid with. *)
UnusedPay(t) ==
  /\ rd[t].pc = "unused_pay"
  /\ \/ Paid(rd[t].debt, rd[t].ptr) /\ Helped(t)
     \/ /\ PaidBefore(rd[t].debt, rd[t].ptr)
        /\ rd' = [rd EXCEPT ![t].pc = "unused_dec"]
  /\ UNCHANGED <<storage, cnt, nodeVars, localVars, wr, held, calls, window>>

UnusedDec(t) ==
  /\ rd[t].pc = "unused_dec"
  /\ Dec(rd[t].ptr)
  /\ Helped(t)
  /\ UNCHANGED <<storage, slots, nodeVars, localVars, wr, held, calls>>

(* HybridProtection::into_inner with a debt: take a reference, then pay the
   debt, and drop the reference again if somebody has paid before. *)
IntoInnerInc(t) ==
  /\ rd[t].pc = "inc"
  /\ Inc(rd[t].ptr)
  /\ rd' = [rd EXCEPT ![t].pc = "inner_pay"]
  /\ UNCHANGED <<storage, slots, nodeVars, localVars, wr, held, calls, window>>

IntoInnerPay(t) ==
  /\ rd[t].pc = "inner_pay"
  /\ \/ /\ Paid(rd[t].debt, rd[t].ptr)
        /\ rd' = [rd EXCEPT ![t].pc = "return", ![t].debt = NoDebt]
     \/ /\ PaidBefore(rd[t].debt, rd[t].ptr)
        /\ rd' = [rd EXCEPT ![t].pc = "inner_dec"]
  /\ UNCHANGED <<storage, cnt, nodeVars, localVars, wr, held, calls, window>>

IntoInnerDec(t) ==
  /\ rd[t].pc = "inner_dec"
  /\ Dec(rd[t].ptr)
  /\ rd' = [rd EXCEPT ![t].pc = "return", ![t].debt = NoDebt]
  /\ UNCHANGED <<storage, slots, nodeVars, localVars, wr, held, calls>>

(* The guard is there.  load_full, and a writer's own load of a replacement,
   make an Arc of it first. *)
ReturnFull(t) ==
  /\ rd[t].pc = "return"
  /\ rd[t].full /\ rd[t].debt # NoDebt
  /\ rd' = [rd EXCEPT ![t].pc = "inc"]
  /\ UNCHANGED <<storage, cnt, slots, nodeVars, localVars, wr, held, calls, window>>

Returning(t) ==
  /\ rd[t].pc = "return"
  /\ ~(rd[t].full /\ rd[t].debt # NoDebt)
  /\ rd' = [rd EXCEPT ![t] = NoLoad]
  /\ window' = [window EXCEPT ![t] = {}]

ReturnToCaller(t) ==
  /\ wr[t].pc = "idle"
  /\ Returning(t)
  /\ Give([ptr |-> rd[t].ptr, debt |-> rd[t].debt])
  /\ UNCHANGED <<storage, cnt, slots, nodeVars, localVars, wr, calls>>

-----------------------------------------------------------------------------
(* What the callers do with their guards and Arcs. *)

(* Guard::into_inner; a guard without a debt is an Arc already. *)
IntoInner(t, h) ==
  /\ Call(t, "into_inner", NoStorage)
  /\ h.debt # NoDebt
  /\ Take(h)
  /\ rd' = [rd EXCEPT ![t] = [NoLoad EXCEPT !.pc = "inc", !.ptr = h.ptr,
                                            !.debt = h.debt, !.full = TRUE]]
  /\ UNCHANGED <<storage, cnt, slots, nodeVars, localVars, wr, window>>

(* Arc::clone through a guard or an Arc. *)
Clone(t, h) ==
  /\ Call(t, "clone", NoStorage)
  /\ Inc(h.ptr)
  /\ Give(Owned(h.ptr))
  /\ UNCHANGED <<storage, slots, nodeVars, localVars, rd, wr, window>>

(* A mutant of Drop: every guard releases a reference, paid or not. *)
DropTwice(t, h) ==
  /\ t \in Droppers
  /\ Take(h)
  /\ Dec(h.ptr)
  /\ \/ h.debt = NoDebt /\ UNCHANGED slots
     \/ h.debt # NoDebt /\ (Paid(h.debt, h.ptr) \/ PaidBefore(h.debt, h.ptr))
  /\ UNCHANGED <<storage, nodeVars, localVars, rd, wr, calls>>

(* Drop of a guard or an Arc, by whatever thread holds it now (there are not
   more of these than calls that return one). *)
Drop(t, h) ==
  /\ t \in Droppers
  /\ Take(h)
  /\ \/ /\ h.debt = NoDebt
        /\ Dec(h.ptr)
        /\ UNCHANGED <<slots, rd>>
     \/ /\ h.debt # NoDebt
        /\ \/ Paid(h.debt, h.ptr) /\ UNCHANGED rd
           \/ /\ PaidBefore(h.debt, h.ptr)
              /\ rd' = [rd EXCEPT ![t].pc = "drop_dec", ![t].ptr = h.ptr]
        /\ UNCHANGED <<cnt, window>>
  /\ UNCHANGED <<storage, nodeVars, localVars, wr, calls>>

DropDec(t) ==
  /\ rd[t].pc = "drop_dec"
  /\ Dec(rd[t].ptr)
  /\ rd' = [rd EXCEPT ![t] = NoLoad]
  /\ UNCHANGED <<storage, slots, nodeVars, localVars, wr, held, calls>>

-----------------------------------------------------------------------------
(* The writers: an exchange, then wait_for_readers. *)

(* ArcSwapAny::swap and store. *)
Swap(t, s, op) ==
  /\ Call(t, op, s)
  /\ storage[s] # Dropped
  /\ \E v \in Pool[s] :
       /\ NewValue(s, v)
       /\ Publish(s, v)
  /\ wr' = [wr EXCEPT ![t] = [NoWrite EXCEPT !.pc = "pre_pay", !.op = op,
                                             !.dst = s, !.old = storage[s]]]
  /\ UNCHANGED <<slots, nodeVars, localVars, rd>>

(* Drop of an ArcSwapAny and ArcSwapAny::into_inner: nobody else uses it. *)
EndStorage(t, s, op) ==
  /\ Call(t, op, s)
  /\ storage[s] # Dropped
  /\ \A u \in Threads : rd[u].src # s /\ wr[u].dst # s
  /\ storage' = [storage EXCEPT ![s] = Dropped]
  /\ wr' = [wr EXCEPT ![t] = [NoWrite EXCEPT !.pc = "pre_pay", !.op = op,
                                             !.dst = s, !.old = storage[s]]]
  /\ UNCHANGED <<cnt, slots, nodeVars, localVars, rd, held, window>>

(* compare_and_swap(current, new): a loop of a load and an exchange. *)
CompareAndSwap(t, s, current) ==
  /\ Call(t, "compare_and_swap", s)
  /\ storage[s] # Dropped
  /\ \E v \in Pool[s] :
       /\ NewValue(s, v)
       /\ wr' = [wr EXCEPT ![t] = [NoWrite EXCEPT !.pc = "cas_load", !.dst = s,
                                     !.op = "compare_and_swap", !.new = v,
                                     !.current = current]]
  /\ StartLoad(t, s, FALSE)
  /\ UNCHANGED <<storage, slots, nodeVars, localVars>>

(* old is something else: it is returned, and new dropped. *)
CasLoaded(t) ==
  /\ wr[t].pc = "cas_load"
  /\ Returning(t)
  /\ \/ /\ rd[t].ptr # wr[t].current
        /\ Give([ptr |-> rd[t].ptr, debt |-> rd[t].debt])
        /\ wr' = [wr EXCEPT ![t].pc = "drop_new"]
     \/ /\ rd[t].ptr = wr[t].current
        /\ wr' = [wr EXCEPT ![t].pc = "cas", ![t].old = rd[t].ptr,
                            ![t].odebt = rd[t].debt]
        /\ UNCHANGED held
  /\ UNCHANGED <<storage, cnt, slots, nodeVars, localVars, calls>>

DropNew(t) ==
  /\ wr[t].pc = "drop_new"
  /\ Dec(wr[t].new)
  /\ wr' = [wr EXCEPT ![t] = NoWrite]
  /\ UNCHANGED <<storage, slots, nodeVars, localVars, rd, held, calls>>

CasExchange(t) ==
  /\ wr[t].pc = "cas"
  /\ storage[wr[t].dst] = wr[t].current
  /\ Publish(wr[t].dst, wr[t].new)
  /\ wr' = [wr EXCEPT ![t].pc = "pre_pay", ![t].new = Null]
  /\ UNCHANGED <<cnt, slots, nodeVars, localVars, rd, held, calls>>

(* compare_exchange_weak fails: the value has changed, or for no reason (as
   often as the bound on calls allows). *)
CasFailed(t) ==
  /\ wr[t].pc = "cas"
  /\ \/ storage[wr[t].dst] # wr[t].current /\ UNCHANGED calls
     \/ /\ storage[wr[t].dst] = wr[t].current
        /\ MayCall(t)
        /\ calls' = [calls EXCEPT ![t] = @ + 1]
  /\ wr' = [wr EXCEPT ![t].pc = IF wr[t].odebt = NoDebt THEN "cas_dec" ELSE "cas_pay"]
  /\ UNCHANGED <<storage, cnt, slots, nodeVars, localVars, rd, held, window>>

(* The old guard is dropped at the end of the loop's body. *)
CasPay(t) ==
  /\ wr[t].pc = "cas_pay"
  /\ \/ /\ Paid(wr[t].odebt, wr[t].old)
        /\ wr' = [wr EXCEPT ![t].pc = "cas_retry", ![t].odebt = NoDebt]
     \/ /\ PaidBefore(wr[t].odebt, wr[t].old)
        /\ wr' = [wr EXCEPT ![t].pc = "cas_dec", ![t].odebt = NoDebt]
  /\ UNCHANGED <<storage, cnt, nodeVars, localVars, rd, held, calls, window>>

CasDec(t) ==
  /\ wr[t].pc = "cas_dec"
  /\ Dec(wr[t].old)
  /\ wr' = [wr EXCEPT ![t].pc = "cas_retry"]
  /\ UNCHANGED <<storage, slots, nodeVars, localVars, rd, held, calls>>

CasRetry(t) ==
  /\ wr[t].pc = "cas_retry"
  /\ StartLoad(t, wr[t].dst, FALSE)
  /\ wr' = [wr EXCEPT ![t].pc = "cas_load", ![t].old = Null]
  /\ UNCHANGED <<storage, cnt, slots, nodeVars, localVars, held, calls>>

-----------------------------------------------------------------------------
(* Debt::pay_all. *)

(* A mutant of PrePay: the debts are not paid. *)
PrePayOnly(t) ==
  /\ wr[t].pc = "pre_pay"
  /\ Inc(wr[t].old)
  /\ wr' = [wr EXCEPT ![t].pc = "release"]
  /\ UNCHANGED <<storage, slots, nodeVars, localVars, rd, held, calls, window>>

(* One reference ahead of the next debt; the list is traversed from its head. *)
PrePay(t) ==
  /\ wr[t].pc = "pre_pay"
  /\ Inc(wr[t].old)
  /\ wr' = [wr EXCEPT ![t].pc = "help", ![t].node = N]
  /\ UNCHANGED <<storage, slots, nodeVars, localVars, rd, held, calls, window>>

(* help is done with this node: its slots are next. *)
HelpDone(w) == [w EXCEPT !.pc = "pay", !.k = 1, !.observed = IDLE,
                         !.repl = Null, !.their = 1]

(* The loop of help, at a control word c just read. *)
HelpWith(w, c) ==
  IF IsGen(c) THEN [w EXCEPT !.pc = "help_addr", !.observed = c] ELSE HelpDone(w)

(* A mutant of Help: wait for the reader to leave. *)
HelpWaiting(t) ==
  /\ wr[t].pc = "help"
  /\ wr' = [wr EXCEPT ![t] = IF IsGen(control[wr[t].node]) THEN @ ELSE HelpDone(@)]
  /\ UNCHANGED <<storage, cnt, slots, nodeVars, localVars, rd, held, calls, window>>

Help(t) ==
  /\ wr[t].pc = "help"
  /\ wr' = [wr EXCEPT ![t] = HelpWith(@, control[wr[t].node])]
  /\ UNCHANGED <<storage, cnt, slots, nodeVars, localVars, rd, held, calls, window>>

(* The reader wants this storage: load a replacement for it. *)
HelpCheckAddr(t) ==
  /\ wr[t].pc = "help_addr"
  /\ \/ /\ active_addr[wr[t].node] = wr[t].dst
        /\ wr' = [wr EXCEPT ![t].pc = "replacement"]
        /\ StartLoad(t, wr[t].dst, TRUE)
     \/ /\ active_addr[wr[t].node] # wr[t].dst
        /\ wr' = [wr EXCEPT ![t].pc = "help_recheck"]
        /\ UNCHANGED <<rd, window>>
  /\ UNCHANGED <<storage, cnt, slots, nodeVars, localVars, held, calls>>

HelpRecheck(t) ==
  /\ wr[t].pc = "help_recheck"
  /\ wr' = [wr EXCEPT ![t] =
              IF control[wr[t].node] = @.observed THEN HelpDone(@)
              ELSE HelpWith(@, control[wr[t].node])]
  /\ UNCHANGED <<storage, cnt, slots, nodeVars, localVars, rd, held, calls, window>>

HelpReplacement(t) ==
  /\ wr[t].pc = "replacement"
  /\ Returning(t)
  /\ wr' = [wr EXCEPT ![t].pc = "their_space", ![t].repl = rd[t].ptr]
  /\ UNCHANGED <<storage, cnt, slots, nodeVars, localVars, held, calls>>

HelpTheirSpace(t) ==
  /\ wr[t].pc = "their_space"
  /\ wr' = [wr EXCEPT ![t].pc = "fill", ![t].their = space_offer[wr[t].node]]
  /\ UNCHANGED <<storage, cnt, slots, nodeVars, localVars, rd, held, calls, window>>

HelpFill(t) ==
  /\ wr[t].pc = "fill"
  /\ handover' = [handover EXCEPT ![space_offer[t]] = wr[t].repl]
  /\ wr' = [wr EXCEPT ![t].pc = "help_cas"]
  /\ UNCHANGED <<storage, cnt, slots, control, active_addr, space_offer,
                 localVars, rd, held, calls, window>>

HelpCas(t) ==
  /\ wr[t].pc = "help_cas"
  /\ \/ /\ control[wr[t].node] = wr[t].observed
        /\ control' = [control EXCEPT ![wr[t].node] = Replacement(space_offer[t])]
        /\ wr' = [wr EXCEPT ![t].pc = "switch"]
     \/ /\ control[wr[t].node] # wr[t].observed
        /\ wr' = [wr EXCEPT ![t].pc = "help_drop", ![t].their = 1,
                            ![t].observed = control[wr[t].node]]
        /\ UNCHANGED control
  /\ UNCHANGED <<storage, cnt, slots, active_addr, space_offer, handover,
                 localVars, rd, held, calls, window>>

(* A mutant of HelpSwitch: the writer keeps the envelope it has handed over. *)
HelpSwitchKeepingMine(t) ==
  /\ wr[t].pc = "switch"
  /\ wr' = [wr EXCEPT ![t] = HelpDone(@)]
  /\ UNCHANGED <<storage, cnt, slots, nodeVars, localVars, rd, held, calls, window>>

(* Handed over, with its reference; the reader's envelope is mine. *)
HelpSwitch(t) ==
  /\ wr[t].pc = "switch"
  /\ space_offer' = [space_offer EXCEPT ![t] = wr[t].their]
  /\ wr' = [wr EXCEPT ![t] = HelpDone(@)]
  /\ UNCHANGED <<storage, cnt, slots, control, active_addr, handover, localVars,
                 rd, held, calls, window>>

(* A mutant of HelpDrop: the replacement is leaked. *)
HelpDropLeaking(t) ==
  /\ wr[t].pc = "help_drop"
  /\ wr' = [wr EXCEPT ![t] = HelpWith([@ EXCEPT !.repl = Null], @.observed)]
  /\ UNCHANGED <<storage, cnt, slots, nodeVars, localVars, rd, held, calls, window>>

(* Not handed over: the replacement is dropped before the next turn. *)
HelpDrop(t) ==
  /\ wr[t].pc = "help_drop"
  /\ Dec(wr[t].repl)
  /\ wr' = [wr EXCEPT ![t] = HelpWith([@ EXCEPT !.repl = Null], @.observed)]
  /\ UNCHANGED <<storage, slots, nodeVars, localVars, rd, held, calls>>

(* The next slot of the node, the next node, or the end of the list. *)
NextSlot(w) ==
  IF w.k < HELPING THEN [w EXCEPT !.pc = "pay", !.k = @ + 1]
  ELSE IF w.node > 1 THEN [w EXCEPT !.pc = "help", !.node = @ - 1, !.k = 1]
  ELSE [w EXCEPT !.pc = "release", !.node = 1, !.k = 1]

(* A mutant of PaySlot: no reference for the next debt. *)
PaySlotOnce(t) ==
  LET x == <<wr[t].node, wr[t].k>> IN
  /\ wr[t].pc = "pay"
  /\ Paid(x, wr[t].old) \/ PaidBefore(x, wr[t].old)
  /\ wr' = [wr EXCEPT ![t] = NextSlot(@)]
  /\ UNCHANGED <<storage, cnt, nodeVars, localVars, rd, held, calls, window>>

PaySlot(t) ==
  LET x == <<wr[t].node, wr[t].k>> IN
  /\ wr[t].pc = "pay"
  /\ \/ Paid(x, wr[t].old) /\ wr' = [wr EXCEPT ![t].pc = "pay_inc"]
     \/ PaidBefore(x, wr[t].old) /\ wr' = [wr EXCEPT ![t] = NextSlot(@)]
  /\ UNCHANGED <<storage, cnt, nodeVars, localVars, rd, held, calls, window>>

PayInc(t) ==
  /\ wr[t].pc = "pay_inc"
  /\ Inc(wr[t].old)
  /\ wr' = [wr EXCEPT ![t] = NextSlot(@)]
  /\ UNCHANGED <<storage, slots, nodeVars, localVars, rd, held, calls, window>>

(* val goes out of scope; what happens to the reference that was in the
   storage depends on the operation. *)
ReleaseVal(t) ==
  /\ wr[t].pc = "release"
  /\ Dec(wr[t].old)
  /\ \/ /\ wr[t].op \in {"swap", "unwrap_storage"}
        /\ Give(Owned(wr[t].old))
        /\ wr' = [wr EXCEPT ![t] = NoWrite]
     \/ /\ wr[t].op \in {"store", "drop_storage", "compare_and_swap"}
        /\ wr' = [wr EXCEPT ![t].pc = "drop_old"]
        /\ UNCHANGED held
  /\ UNCHANGED <<storage, slots, nodeVars, localVars, rd, calls>>

(* compare_and_swap has a second reference, or a debt, in its guard. *)
DropOld(t) ==
  /\ wr[t].pc = "drop_old"
  /\ Dec(wr[t].old)
  /\ \/ wr[t].op # "compare_and_swap" /\ UNCHANGED held
     \/ /\ wr[t].op = "compare_and_swap"
        /\ Give([ptr |-> wr[t].old, debt |-> wr[t].odebt])
  /\ wr' = [wr EXCEPT ![t] = NoWrite]
  /\ UNCHANGED <<storage, slots, nodeVars, localVars, rd, calls>>

-----------------------------------------------------------------------------
(* A mutant of ThreadRestart: the node has no cooldown. *)
ThreadRestartAtOnce(t) ==
  /\ Call(t, "restart", NoStorage)
  /\ generation' = [generation EXCEPT ![t] = 0]
  /\ offset' = [offset EXCEPT ![t] = 0]
  /\ UNCHANGED <<storage, cnt, slots, nodeVars, rd, wr, held, window>>

(* The thread ends outside of any call and another takes over its node.  The
   new thread finds the slots as they are, with the debts of guards that were
   sent elsewhere, and counts its generations from zero.  The cooldown of the
   node is over by then: no writer that was on it is still there (NodeList). *)
ThreadRestart(t) ==
  /\ Call(t, "restart", NoStorage)
  /\ \A u \in Threads : wr[u].pc \in PayAllPc => wr[u].node # t
  /\ generation' = [generation EXCEPT ![t] = 0]
  /\ offset' = [offset EXCEPT ![t] = 0]
  /\ UNCHANGED <<storage, cnt, slots, nodeVars, rd, wr, held, window>>

-----------------------------------------------------------------------------
(* The next step of thread t inside a call. *)
LoadStep(t) ==
  \/ Scan(t) \/ ConfirmFast(t) \/ GiveBack(t)
  \/ GetDebt(t) \/ GetDebtControl(t) \/ Candidate(t) \/ ConfirmSlot(t)
  \/ ConfirmControl(t) \/ TakeHandover(t) \/ UnusedPay(t) \/ UnusedDec(t)
  \/ IntoInnerInc(t) \/ IntoInnerPay(t) \/ IntoInnerDec(t)
  \/ ReturnFull(t) \/ ReturnToCaller(t) \/ DropDec(t)

WriteStep(t) ==
  \/ CasLoaded(t) \/ DropNew(t) \/ CasExchange(t) \/ CasFailed(t)
  \/ CasPay(t) \/ CasDec(t) \/ CasRetry(t)
  \/ PrePay(t) \/ Help(t) \/ HelpCheckAddr(t) \/ HelpRecheck(t)
  \/ HelpReplacement(t) \/ HelpTheirSpace(t) \/ HelpFill(t) \/ HelpCas(t)
  \/ HelpSwitch(t) \/ HelpDrop(t) \/ PaySlot(t) \/ PayInc(t)
  \/ ReleaseVal(t) \/ DropOld(t)

(* A new call of thread t. *)
StartCall(t) ==
  /\ rd[t].pc = "idle" /\ wr[t].pc = "idle"
  /\ \/ \E s \in Storages :
          \/ \E op \in {"load", "load_full"} : Load(t, s, op)
          \/ \E op \in {"swap", "store"} : Swap(t, s, op)
          \/ \E op \in {"drop_storage", "unwrap_storage"} : EndStorage(t, s, op)
          \/ \E p \in Pool[s] : CompareAndSwap(t, s, p)
     \/ \E h \in {x \in Handles : held[x] > 0} :
          IntoInner(t, h) \/ Clone(t, h) \/ Drop(t, h)
     \/ ThreadRestart(t)

(* All the calls have ended: the threads may do nothing more. *)
AllDone ==
  /\ \A t \in Threads :
       \/ rd[t].pc = "panicked"
       \/ rd[t].pc = "idle" /\ wr[t].pc = "idle"
  /\ UNCHANGED vars

Next ==
  \/ \E t \in Threads : StartCall(t) \/ LoadStep(t) \/ WriteStep(t)
  \/ AllDone

Spec == Init /\ [][Next]_vars

(* The threads in FairThreads are sure to go on inside their calls; the others
   may stop anywhere for good.  No call has to be made, no guard dropped. *)
FairSpec ==
  Spec /\ \A t \in FairThreads : WF_vars(LoadStep(t) \/ WriteStep(t))

-----------------------------------------------------------------------------
(* The types of the variables. *)
TypeOK ==
  /\ storage \in [Storages -> Ptrs \cup {Dropped}]
  /\ cnt \in [Objects -> Nat]
  /\ slots \in [SlotIds -> Ptrs \cup {NONE}]
  /\ control \in [Threads -> ControlWords]
  /\ active_addr \in [Threads -> Storages \cup {NoStorage}]
  /\ space_offer \in [Threads -> Threads]
  /\ handover \in [Threads -> Ptrs]
  /\ generation \in [Threads -> 0..(GenLimit - 1)]
  /\ offset \in [Threads -> 0..DEBT_SLOT_CNT]
  /\ rd \in [Threads -> LoadFrames]
  /\ wr \in [Threads -> WriteFrames]
  /\ held \in [Handles -> Nat]
  /\ calls \in [Threads -> Nat]
  /\ window \in [Threads -> SUBSET Ptrs]

-----------------------------------------------------------------------------
(* References, and what stands for them. *)

(* The references to a that the load frame of t is responsible for: the guard
   or candidate, the extra one of into_inner, the replacement it was handed. *)
HasGuard(t, a) ==
  rd[t].ptr = a /\ rd[t].pc \in {"confirm", "give_back", "confirm_control", "take",
    "unused_pay", "unused_dec", "inc", "inner_pay", "inner_dec", "drop_dec",
    "return"}
HasInner(t, a) == rd[t].ptr = a /\ rd[t].pc \in {"inner_pay", "inner_dec"}
HasGot(t, a) ==
  \/ rd[t].pc = "take" /\ handover[rd[t].env] = a
  \/ rd[t].pc \in {"unused_pay", "unused_dec"} /\ rd[t].got = a

(* The references to a of the write frame of t: what came out of the storage,
   the prepaid val, the replacement, compare_and_swap's old guard and its new. *)
HasOld(t, a) ==
  wr[t].old = a /\ wr[t].pc \in PayAllPc \cup {"pre_pay", "release", "drop_old"}
HasVal(t, a) ==
  wr[t].old = a /\ wr[t].pc \in (PayAllPc \ {"pay_inc"}) \cup {"release"}
HasRepl(t, a) ==
  wr[t].repl = a /\ wr[t].pc \in {"their_space", "fill", "help_cas", "help_drop"}
HasOldGuard(t, a) ==
  /\ wr[t].old = a /\ wr[t].op = "compare_and_swap"
  /\ wr[t].pc \notin {"cas_load", "cas_retry", "drop_new"}
HasNew(t, a) ==
  wr[t].new = a /\ wr[t].pc \in {"cas_load", "cas", "cas_pay", "cas_dec",
                                "cas_retry", "drop_new"}

(* A hand-over of a that node n has not taken yet. *)
Waiting(n, a) == IsReplacement(control[n]) /\ handover[control[n][2]] = a

(* The callers' guards on a and Arcs of it, numbered. *)
Holdings(a) ==
  UNION {{d} \X (1..held[[ptr |-> a, debt |-> d]]) : d \in SlotIds \cup {NoDebt}}

(* The references to a that the storages, the callers' guards and Arcs, the
   calls under way and the hand-overs not yet taken stand for. *)
References(a) ==
  Cardinality({s \in Storages : storage[s] = a})
  + Cardinality(Holdings(a))
  + Cardinality({n \in Threads : Waiting(n, a)})
  + Cardinality({t \in Threads : HasGuard(t, a)})
  + Cardinality({t \in Threads : HasInner(t, a)})
  + Cardinality({t \in Threads : HasGot(t, a)})
  + Cardinality({t \in Threads : HasOld(t, a)})
  + Cardinality({t \in Threads : HasVal(t, a)})
  + Cardinality({t \in Threads : HasRepl(t, a)})
  + Cardinality({t \in Threads : HasOldGuard(t, a)})
  + Cardinality({t \in Threads : HasNew(t, a)})

(* The reference counting is exact at every instant: the count of an object,
   with one more for every debt slot that names it, is the number of
   references in existence.  A payment, a guard dropped by another thread, a
   hand-over that fails or a debt paid twice would unbalance it for good:
   too low frees what is in use, too high leaks. *)
Accounting ==
  \A a \in Objects :
    cnt[a] + Cardinality({x \in SlotIds : slots[x] = a}) = References(a)

(* The pointers that somebody may follow now: what is stored, what callers
   hold, and the pointers that the next step of a call counts or returns. *)
InUse ==
  {storage[s] : s \in {x \in Storages : storage[x] # Dropped}}
  \cup {h.ptr : h \in {x \in Handles : held[x] > 0}}
  \cup {rd[t].ptr : t \in {u \in Threads : rd[u].pc \in
          {"return", "inc", "inner_pay", "inner_dec", "drop_dec", "unused_dec"}}}
  \cup {rd[t].got : t \in {u \in Threads : rd[u].pc \in {"unused_pay", "unused_dec"}}}
  \cup {wr[t].old : t \in {u \in Threads : wr[u].pc \in
          PayAllPc \cup {"pre_pay", "release", "drop_old", "cas", "cas_pay", "cas_dec"}}}
  \cup {wr[t].repl : t \in {u \in Threads : wr[u].pc \in
          {"their_space", "fill", "help_cas", "help_drop"}}}
  \cup {handover[control[n][2]] : n \in {m \in Threads : IsReplacement(control[m])}}

(* Nothing that can be followed has been freed: a debt protects a value that a
   writer has already removed until that writer has paid it. *)
NoUseAfterFree == \A p \in InUse : p = Null \/ cnt[p] > 0

(* A load returns what its storage held at some time between its beginning and
   its end, and that object has not been freed since (linearizability: the
   writes are single exchanges). *)
LoadLinearizable ==
  \A t \in Threads :
    rd[t].pc = "return" /\ rd[t].src # NoStorage => rd[t].ptr \in window[t]

(* The helping slot is empty when a load wants it, "debug_assert_eq!(Debt::NONE,
   prev)" of confirm: fallback never leaves a debt there, even when the debt
   was paid or replaced by others, and the loads inside of writes come back to
   the same slot. *)
HelpingSlotFree ==
  \A t \in Threads : rd[t].pc = "slot" => slots[<<t, HELPING>>] = NONE

(* A load needs no other thread to go on: it ends although the others may stop
   anywhere, in the middle of a write or of helping it ("Readers are
   wait-free"). *)
LoadFinishes ==
  \A t \in FairThreads : rd[t].pc # "idle" ~> rd[t].pc = "idle"

(* A write ends although the readers may stop anywhere, with a generation in
   their control word or a debt in a slot ("it needs to be able to resolve the
   situation on its own"). *)
WriteFinishes ==
  \A t \in FairThreads : wr[t].pc # "idle" ~> wr[t].pc = "idle"

(* No call ends by "LocalNode::with ensures it is set": the thread has a node
   from the beginning of a load to its end. *)
NodeStaysSet == \A t \in Threads : rd[t].pc # "panicked"

-----------------------------------------------------------------------------
(* This module implements HelpingSlots: the replacement is loaded by a whole
   load, possibly helped itself, and confirm is split by the debt slot. *)

ReaderPcOf(r) ==
  CASE r.pc = "control" -> "swap_control"
    [] r.pc \in {"candidate", "slot", "confirm_control"} -> "confirm"
    [] r.pc = "take" -> "take_handover"
    [] OTHER -> "idle"

HelperPcOf(w) ==
  CASE w.pc = "help_addr" -> "check_addr"
    [] w.pc = "help_recheck" -> "recheck"
    [] w.pc \in {"replacement", "their_space", "fill", "switch"} -> w.pc
    [] w.pc = "help_cas" -> "cas"
    [] w.pc = "help_drop" /\ IsGen(w.observed) -> "check_addr"
    [] OTHER -> "idle"

Helping(t) == HelperPcOf(wr[t]) # "idle"

HS == INSTANCE HelpingSlots WITH
  Nodes <- Threads,
  Values <- Ptrs,
  Loadable <- Pool,
  Zero <- Null,
  MaxGenerations <- GenLimit - 1,
  FairNodes <- {},
  reader <- [t \in Threads |-> ReaderPcOf(rd[t])],
  envelope <- [t \in Threads |-> IF rd[t].pc = "take" THEN rd[t].env ELSE t],
  helper <- [t \in Threads |-> HelperPcOf(wr[t])],
  who <- [t \in Threads |-> IF Helping(t) THEN wr[t].node ELSE t],
  target <- [t \in Threads |-> IF Helping(t) THEN wr[t].dst ELSE Null],
  observed <- [t \in Threads |-> IF Helping(t) THEN wr[t].observed ELSE IDLE],
  replacement <- [t \in Threads |->
    IF wr[t].pc \in {"their_space", "fill", "help_cas", "switch"}
    THEN wr[t].repl ELSE Null],
  their_space <- [t \in Threads |->
    IF wr[t].pc \in {"fill", "help_cas", "switch"} THEN wr[t].their ELSE t]

(* Every step of the loads and writes is a step of the hand-over protocol, or
   none: what is proved of HelpingSlots (no envelope has two owners, no
   hand-over from another storage) holds of the strategy. *)
ImplementsHelpingSlots == HS!Spec
=============================================================================
