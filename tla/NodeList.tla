------------------------------ MODULE NodeList ------------------------------
(***************************************************************************)
(* The list of debt nodes of src/src/debt/list.rs: how a thread claims a   *)
(* node before its first load, gives it up when it ends, and how writers   *)
(* reserve the nodes they are looking at, so that a node rests in          *)
(* "cooldown" before it changes hands.                                     *)
(*                                                                         *)
(* A step is one access to LIST_HEAD, in_use or active_writers.  What is   *)
(* in the slots of a node is the business of HybridStrategy; a call is a   *)
(* load, or a write that runs Debt::pay_all over the list.                 *)
(***************************************************************************)
EXTENDS Integers, FiniteSets

CONSTANTS
  Threads,      \* threads; one that has ended may stand for a new one
  MaxNodes,     \* bound: how many nodes are ever allocated
  FairThreads   \* the threads that are sure to be scheduled again

ASSUME ThreadsAssumption == IsFiniteSet(Threads)
ASSUME MaxNodesAssumption == MaxNodes \in Nat
ASSUME FairThreadsAssumption == FairThreads \subseteq Threads

VARIABLES
  LIST_HEAD,        \* the newest node of the list
  next,             \* Node::next
  in_use,           \* Node::in_use
  active_writers,   \* Node::active_writers
  created,          \* how many nodes were allocated; a node is a number
  tls,              \* whether THREAD_HEAD of a thread is still there
  node,             \* LocalNode::node of a thread
  inner,            \* the node of a LocalNode made during another one's call
  pc,               \* where the thread is
  cur,              \* get, start_cooldown: the node they are at
  at,               \* pay_all: the node the traversal is at
  present,          \* history: the writers that have been on a node since
                    \* before it was put into cooldown
  stale,            \* history: the threads whose check_cooldown has looked at
                    \* a node before its present cooldown
  due               \* history: the nodes that a pay_all has still to visit

nodeVars == <<in_use, active_writers>>
listVars == <<LIST_HEAD, next, created>>
history == <<present, stale, due>>
vars == <<listVars, nodeVars, tls, node, inner, pc, cur, at, history>>

Nil == 0
Nodes == 1..MaxNodes
NODE_UNUSED == "unused"
NODE_USED == "used"
NODE_COOLDOWN == "cooldown"

GetPc == {"check", "writers", "uncool", "claim", "alloc", "push"}
Pc == GetPc \cup {"out", "call", "reserve", "visit", "unwind", "cd_reserve",
                  "cd_swap", "cd_release"}

Init ==
  /\ LIST_HEAD = Nil
  /\ next = [n \in Nodes |-> Nil]
  /\ in_use = [n \in Nodes |-> NODE_USED]
  /\ active_writers = [n \in Nodes |-> 0]
  /\ created = 0
  /\ tls = [t \in Threads |-> TRUE]
  /\ node = [t \in Threads |-> Nil]
  /\ inner = [t \in Threads |-> Nil]
  /\ pc = [t \in Threads |-> "out"]
  /\ cur = [t \in Threads |-> Nil]
  /\ at = [t \in Threads |-> Nil]
  /\ present = [n \in Nodes |-> {}]
  /\ stale = {}
  /\ due = [t \in Threads |-> {}]

-----------------------------------------------------------------------------
(* Node::get. *)

(* Node::traverse reaches node n, or the end of the list, in get. *)
GetAt(t, n) ==
  /\ cur' = [cur EXCEPT ![t] = n]
  /\ pc' = [pc EXCEPT ![t] = IF n = Nil THEN "alloc" ELSE "check"]

(* The node is claimed: the LocalNode has it and the call begins. *)
Claimed(t, n) ==
  /\ \/ at[t] = Nil /\ node' = [node EXCEPT ![t] = n] /\ UNCHANGED inner
     \/ at[t] # Nil /\ inner' = [inner EXCEPT ![t] = n] /\ UNCHANGED node
  /\ cur' = [cur EXCEPT ![t] = Nil]
  /\ pc' = [pc EXCEPT ![t] = "call"]

(* LocalNode::with, at the beginning of a load or of pay_all: a new node is
   needed if there is none.  Without thread local storage there is none. *)
With(t) ==
  /\ pc[t] = "out"
  /\ \/ /\ node[t] # Nil
        /\ pc' = [pc EXCEPT ![t] = "call"]
        /\ UNCHANGED cur
     \/ /\ node[t] = Nil
        /\ GetAt(t, LIST_HEAD)
  /\ UNCHANGED <<listVars, nodeVars, tls, node, inner, at, history>>

(* check_cooldown, in three steps. *)
CheckCooldown(t) ==
  /\ pc[t] = "check"
  /\ pc' = [pc EXCEPT ![t] =
              IF in_use[cur[t]] = NODE_COOLDOWN THEN "writers" ELSE "claim"]
  /\ UNCHANGED <<listVars, nodeVars, tls, node, inner, cur, at, history>>

(* A mutant of CheckWriters: the writers are not looked at. *)
CheckWritersNever(t) ==
  /\ pc[t] = "writers"
  /\ pc' = [pc EXCEPT ![t] = "uncool"]
  /\ UNCHANGED <<listVars, nodeVars, tls, node, inner, cur, at, history>>

CheckWriters(t) ==
  /\ pc[t] = "writers"
  /\ pc' = [pc EXCEPT ![t] =
              IF active_writers[cur[t]] = 0 THEN "uncool" ELSE "claim"]
  /\ stale' = IF active_writers[cur[t]] = 0 THEN stale ELSE stale \ {t}
  /\ UNCHANGED <<listVars, nodeVars, tls, node, inner, cur, at, present, due>>

(* A mutant of EndCooldown: a store in place of the compare-exchange. *)
EndCooldownByStore(t) ==
  /\ pc[t] = "uncool"
  /\ in_use' = [in_use EXCEPT ![cur[t]] = NODE_UNUSED]
  /\ pc' = [pc EXCEPT ![t] = "claim"]
  /\ stale' = stale \ {t}
  /\ UNCHANGED <<listVars, active_writers, tls, node, inner, cur, at, present,
                 due>>

EndCooldown(t) ==
  /\ pc[t] = "uncool"
  /\ in_use' = IF in_use[cur[t]] = NODE_COOLDOWN
               THEN [in_use EXCEPT ![cur[t]] = NODE_UNUSED] ELSE in_use
  /\ pc' = [pc EXCEPT ![t] = "claim"]
  /\ stale' = stale \ {t}
  /\ UNCHANGED <<listVars, active_writers, tls, node, inner, cur, at, present,
                 due>>

(* The compare-exchange of get. *)
Claim(t) ==
  /\ pc[t] = "claim"
  /\ \/ /\ in_use[cur[t]] = NODE_UNUSED
        /\ in_use' = [in_use EXCEPT ![cur[t]] = NODE_USED]
        /\ Claimed(t, cur[t])
     \/ /\ in_use[cur[t]] # NODE_UNUSED
        /\ GetAt(t, next[cur[t]])
        /\ UNCHANGED <<in_use, node, inner>>
  /\ UNCHANGED <<listVars, active_writers, tls, at, history>>

(* A new node (its default is NODE_USED) and the first read of LIST_HEAD. *)
Allocate(t) ==
  /\ pc[t] = "alloc"
  /\ created < MaxNodes
  /\ created' = created + 1
  /\ next' = [next EXCEPT ![created + 1] = LIST_HEAD]
  /\ cur' = [cur EXCEPT ![t] = created + 1]
  /\ pc' = [pc EXCEPT ![t] = "push"]
  /\ UNCHANGED <<LIST_HEAD, nodeVars, tls, node, inner, at, history>>

(* Mutants of Push: a store in place of the compare-exchange; and a failure
   after which next is not refreshed. *)
PushByStore(t) ==
  /\ pc[t] = "push"
  /\ LIST_HEAD' = cur[t]
  /\ Claimed(t, cur[t])
  /\ UNCHANGED <<next, created, nodeVars, tls, at, history>>

PushOnceRead(t) ==
  /\ pc[t] = "push"
  /\ LIST_HEAD = next[cur[t]]
  /\ LIST_HEAD' = cur[t]
  /\ Claimed(t, cur[t])
  /\ UNCHANGED <<next, created, nodeVars, tls, at, history>>

(* The compare-exchange on LIST_HEAD; a failure brings its new value.  (One
   that fails for no reason changes nothing.) *)
Push(t) ==
  /\ pc[t] = "push"
  /\ \/ /\ LIST_HEAD = next[cur[t]]
        /\ LIST_HEAD' = cur[t]
        /\ Claimed(t, cur[t])
        /\ UNCHANGED next
     \/ /\ LIST_HEAD # next[cur[t]]
        /\ next' = [next EXCEPT ![cur[t]] = LIST_HEAD]
        /\ UNCHANGED <<LIST_HEAD, node, inner, cur, pc>>
  /\ UNCHANGED <<created, nodeVars, tls, at, history>>

-----------------------------------------------------------------------------
(* The call, and its end. *)

(* A LocalNode made for one call goes into cooldown after it. *)
AfterCall(t) == IF tls[t] THEN "out" ELSE "cd_reserve"

(* A load has ended.  (So has one for a replacement, in pay_all.) *)
EndCall(t) ==
  /\ pc[t] = "call"
  /\ pc' = [pc EXCEPT ![t] = AfterCall(t)]
  /\ UNCHANGED <<listVars, nodeVars, tls, node, inner, cur, at, history>>

(* Debt::pay_all starts at the head of the list. *)
PayAll(t) ==
  /\ pc[t] = "call" /\ at[t] = Nil
  /\ at' = [at EXCEPT ![t] = LIST_HEAD]
  /\ pc' = [pc EXCEPT ![t] = "reserve"]
  /\ due' = [due EXCEPT ![t] = {n \in 1..created : \A u \in Threads :
                                   ~(pc[u] = "push" /\ cur[u] = n)}]
  /\ UNCHANGED <<listVars, nodeVars, tls, node, inner, cur, present, stale>>

ReserveWriter(t) ==
  /\ pc[t] = "reserve"
  /\ active_writers' = [active_writers EXCEPT ![at[t]] = @ + 1]
  /\ pc' = [pc EXCEPT ![t] = "visit"]
  /\ UNCHANGED <<listVars, in_use, tls, node, inner, cur, at, history>>

(* help loads a replacement: LocalNode::with once more, which needs another
   node when there is no thread local storage. *)
Replacement(t) ==
  /\ pc[t] = "visit" /\ ~tls[t]
  /\ GetAt(t, LIST_HEAD)
  /\ UNCHANGED <<listVars, nodeVars, tls, node, inner, at, history>>

(* The reservation of node n by t ends. *)
Release(t, n) ==
  /\ active_writers' = [active_writers EXCEPT ![n] = @ - 1]
  /\ present' = [present EXCEPT ![n] = @ \ {t}]

(* The node is done with. *)
Leave(t) ==
  /\ pc[t] = "visit"
  /\ Release(t, at[t])
  /\ at' = [at EXCEPT ![t] = next[at[t]]]
  /\ due' = [due EXCEPT ![t] = @ \ {at[t]}]
  /\ pc' = [pc EXCEPT ![t] =
              IF next[at[t]] = Nil THEN AfterCall(t) ELSE "reserve"]
  /\ UNCHANGED <<listVars, in_use, tls, node, inner, cur, stale>>

(* new_helping has used up the generations, in a load or in the load of a
   replacement: the node goes into cooldown and the call ends in a panic. *)
Discard(t) ==
  /\ pc[t] \in {"call", "visit"} /\ tls[t]
  /\ pc' = [pc EXCEPT ![t] = "cd_reserve"]
  /\ UNCHANGED <<listVars, nodeVars, tls, node, inner, cur, at, history>>

(* A mutant of Unwind: the reservation is not released by the panic. *)
UnwindLeaking(t) ==
  /\ pc[t] = "unwind"
  /\ at' = [at EXCEPT ![t] = Nil]
  /\ due' = [due EXCEPT ![t] = {}]
  /\ present' = [n \in Nodes |-> present[n] \ {t}]
  /\ pc' = [pc EXCEPT ![t] = "out"]
  /\ UNCHANGED <<listVars, nodeVars, tls, node, inner, cur, stale>>

(* The panic passes through pay_all. *)
Unwind(t) ==
  /\ pc[t] = "unwind"
  /\ Release(t, at[t])
  /\ at' = [at EXCEPT ![t] = Nil]
  /\ due' = [due EXCEPT ![t] = {}]
  /\ pc' = [pc EXCEPT ![t] = "out"]
  /\ UNCHANGED <<listVars, in_use, tls, node, inner, cur, stale>>

(* pay_all of u has a reservation on n. *)
Reserved(u, n) == at[u] = n /\ pc[u] # "reserve"

-----------------------------------------------------------------------------
(* start_cooldown: a reservation around the change of in_use. *)

(* A mutant of CooldownReserve: the reservation is only released. *)
CooldownNotReserved(t) ==
  /\ pc[t] = "cd_reserve"
  /\ cur' = [cur EXCEPT ![t] = IF inner[t] # Nil THEN inner[t] ELSE node[t]]
  /\ pc' = [pc EXCEPT ![t] = "cd_swap"]
  /\ UNCHANGED <<listVars, nodeVars, tls, node, inner, at, history>>

CooldownReserve(t) ==
  /\ pc[t] = "cd_reserve"
  /\ cur' = [cur EXCEPT ![t] = IF inner[t] # Nil THEN inner[t] ELSE node[t]]
  /\ active_writers' = [active_writers EXCEPT ![cur'[t]] = @ + 1]
  /\ pc' = [pc EXCEPT ![t] = "cd_swap"]
  /\ UNCHANGED <<listVars, in_use, tls, node, inner, at, history>>

CooldownSwap(t) ==
  /\ pc[t] = "cd_swap"
  /\ in_use' = [in_use EXCEPT ![cur[t]] = NODE_COOLDOWN]
  /\ \/ inner[t] # Nil /\ inner' = [inner EXCEPT ![t] = Nil] /\ UNCHANGED node
     \/ inner[t] = Nil /\ node' = [node EXCEPT ![t] = Nil] /\ UNCHANGED inner
  /\ present' = [present EXCEPT ![cur[t]] =
                   {u \in Threads : Reserved(u, cur[t])}]
  /\ stale' = stale \cup {u \in Threads : pc[u] \in {"writers", "uncool"}
                                          /\ cur[u] = cur[t]}
  /\ pc' = [pc EXCEPT ![t] = "cd_release"]
  /\ UNCHANGED <<listVars, active_writers, tls, cur, at, due>>

CooldownRelease(t) ==
  /\ pc[t] = "cd_release"
  /\ active_writers' = [active_writers EXCEPT ![cur[t]] = @ - 1]
  /\ cur' = [cur EXCEPT ![t] = Nil]
  /\ pc' = [pc EXCEPT ![t] = IF at[t] = Nil THEN "out"
                             ELSE IF tls[t] THEN "unwind" ELSE "visit"]
  /\ UNCHANGED <<listVars, in_use, tls, node, inner, at, history>>

(* The thread ends: THREAD_HEAD is dropped, with its node if it has one.
   Destructors that run after it may still use an ArcSwap. *)
ThreadExit(t) ==
  /\ pc[t] = "out" /\ tls[t]
  /\ tls' = [tls EXCEPT ![t] = FALSE]
  /\ pc' = [pc EXCEPT ![t] = IF node[t] = Nil THEN "out" ELSE "cd_reserve"]
  /\ UNCHANGED <<listVars, nodeVars, node, inner, cur, at, history>>

(* Another thread takes its place. *)
ThreadStart(t) ==
  /\ pc[t] = "out" /\ ~tls[t]
  /\ tls' = [tls EXCEPT ![t] = TRUE]
  /\ UNCHANGED <<listVars, nodeVars, node, inner, pc, cur, at, history>>

-----------------------------------------------------------------------------
GetStep(t) ==
  \/ CheckCooldown(t) \/ CheckWriters(t) \/ EndCooldown(t) \/ Claim(t)
  \/ Allocate(t) \/ Push(t)

CallStep(t) ==
  \/ EndCall(t) \/ PayAll(t) \/ ReserveWriter(t) \/ Replacement(t) \/ Leave(t)
  \/ Discard(t) \/ Unwind(t)

CooldownStep(t) == CooldownReserve(t) \/ CooldownSwap(t) \/ CooldownRelease(t)

(* Every thread waits for a node that the bound does not let it have. *)
AtBound ==
  /\ created = MaxNodes /\ \A t \in Threads : pc[t] = "alloc"
  /\ UNCHANGED vars

Next ==
  \/ \E t \in Threads :
       \/ With(t) \/ GetStep(t) \/ CallStep(t) \/ CooldownStep(t)
       \/ ThreadExit(t) \/ ThreadStart(t)
  \/ AtBound

Spec == Init /\ [][Next]_vars

(* A thread of FairThreads goes on inside Node::get; the others may stop
   anywhere. *)
FairSpec == Spec /\ \A t \in FairThreads : WF_vars(GetStep(t))

-----------------------------------------------------------------------------
(* The types of the variables. *)
TypeOK ==
  /\ LIST_HEAD \in Nodes \cup {Nil}
  /\ next \in [Nodes -> Nodes \cup {Nil}]
  /\ in_use \in [Nodes -> {NODE_UNUSED, NODE_USED, NODE_COOLDOWN}]
  /\ active_writers \in [Nodes -> Nat]
  /\ created \in 0..MaxNodes
  /\ tls \in [Threads -> BOOLEAN]
  /\ node \in [Threads -> Nodes \cup {Nil}]
  /\ inner \in [Threads -> Nodes \cup {Nil}]
  /\ pc \in [Threads -> Pc]
  /\ cur \in [Threads -> Nodes \cup {Nil}]
  /\ at \in [Threads -> Nodes \cup {Nil}]
  /\ present \in [Nodes -> SUBSET Threads]
  /\ stale \subseteq Threads
  /\ due \in [Threads -> SUBSET Nodes]

(* What node t has at x: in its LocalNode, in a nested one, or on the way into
   the list. *)
Places == {"node", "inner", "push"}
Has(t, x, n) ==
  \/ x = "node" /\ node[t] = n
  \/ x = "inner" /\ inner[t] = n
  \/ x = "push" /\ pc[t] = "push" /\ cur[t] = n

(* A node has one owner, and is NODE_USED as long as it has one: claims,
   cooldowns and the ends of cooldowns by any number of threads never hand it
   to two ("We claim a unique control over the generation and the right to
   write to slots"). *)
ExclusiveOwner ==
  \A n \in Nodes, t, u \in Threads, x, y \in Places :
    Has(t, x, n) =>
      /\ in_use[n] = NODE_USED
      /\ Has(u, y, n) => u = t /\ y = x

(* pay_all has visited every node that was in the list when it began, although
   others were pushing theirs. *)
NoNodeMissed == \A t \in Threads : at[t] = Nil => due[t] = {}

(* Who has a reservation of node n: a pay_all, or start_cooldown. *)
Visitors(n) == {t \in Threads : Reserved(t, n)}
Coolers(n) == {t \in Threads : pc[t] \in {"cd_swap", "cd_release"} /\ cur[t] = n}

(* The reservations of a node are counted exactly, through nested claims,
   cooldowns and panics: one too many would keep the node in cooldown for
   good, one too few would end the cooldown under a writer. *)
ReservationsCounted ==
  \A n \in Nodes :
    active_writers[n] = Cardinality(Visitors(n)) + Cardinality(Coolers(n))

(* A node leaves cooldown only when the writers that were on it when the
   cooldown began are gone ("let it in there until there are no writers
   messing with that node any more"). *)
CooldownDrains ==
  [][\A n \in Nodes :
       in_use[n] = NODE_COOLDOWN /\ in_use'[n] # NODE_COOLDOWN =>
         present[n] = {}]_vars

(* The same, as far as the code does it: the thread that ends the cooldown has
   found the node in an earlier one, or the writers are gone. *)
CooldownDrainsUnlessStale ==
  [][\A n \in Nodes :
       in_use[n] = NODE_COOLDOWN /\ in_use'[n] # NODE_COOLDOWN =>
         \/ present[n] = {}
         \/ \E t \in stale :
              pc[t] = "uncool" /\ cur[t] = n /\ pc'[t] # pc[t]]_vars

(* A thread that wants a node gets one, although others may stop anywhere:
   get waits for nobody, and the loop around LIST_HEAD fails only because
   another node was added. *)
GetFinishes ==
  \A t \in FairThreads :
    pc[t] \in GetPc ~>
      pc[t] \notin GetPc \/ (pc[t] = "alloc" /\ created = MaxNodes)
=============================================================================
