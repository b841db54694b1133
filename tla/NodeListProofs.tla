--------------------------- MODULE NodeListProofs ---------------------------
(***************************************************************************)
(* The list of debt nodes, for any number of threads and nodes.            *)
(*                                                                         *)
(* A node has at most one owner: a node that somebody has is NODE_USED, so *)
(* a claim or the end of a cooldown, which need it NODE_UNUSED or          *)
(* NODE_COOLDOWN, can only touch a node that nobody has; and the swap that *)
(* puts a node into cooldown is made by its owner, who gives it up by it.  *)
(*                                                                         *)
(* Its reservations are counted exactly: a step moves one thread, and      *)
(* changes the counts by the reservations that this thread has more or     *)
(* less.  So a cooldown that is ended by a thread that has seen it from    *)
(* its beginning has no writers left to wait for.                          *)
(*                                                                         *)
(* pay_all misses no node: what it has still to visit can be reached from  *)
(* where it is, since nodes are only added, and only at the head.          *)
(***************************************************************************)
EXTENDS NodeList, CardinalityLemmas, TLAPS

(* The types of the variables that matter to ownership. *)
Types ==
  /\ LIST_HEAD \in Nodes \cup {Nil}
  /\ next \in [Nodes -> Nodes \cup {Nil}]
  /\ in_use \in [Nodes -> {NODE_UNUSED, NODE_USED, NODE_COOLDOWN}]
  /\ created \in 0..MaxNodes
  /\ node \in [Threads -> Nodes \cup {Nil}]
  /\ inner \in [Threads -> Nodes \cup {Nil}]
  /\ pc \in [Threads -> Pc]
  /\ cur \in [Threads -> Nodes \cup {Nil}]
  /\ at \in [Threads -> Nodes \cup {Nil}]

(* Node::get and pay_all are at a node, not beyond the end of the list. *)
Cursors ==
  \A t \in Threads :
    /\ pc[t] \in {"check", "writers", "uncool", "claim", "push"} =>
         cur[t] \in Nodes
    /\ pc[t] \in {"reserve", "visit", "unwind"} => at[t] \in Nodes

(* A thread has a node, or looks for one in the list, only if there is one. *)
HeadSet ==
  LIST_HEAD = Nil =>
    \A t \in Threads :
      /\ node[t] = Nil
      /\ pc[t] \notin {"check", "writers", "uncool", "claim", "call"}

(* start_cooldown works on the innermost node of the thread. *)
CooledIsOwn ==
  \A t \in Threads : pc[t] = "cd_swap" =>
    cur[t] = IF inner[t] # Nil THEN inner[t] ELSE node[t]

(* What is not allocated yet is as Node::default leaves it, and nobody's. *)
FreshNodes ==
  \A n \in Nodes : n > created =>
    /\ in_use[n] = NODE_USED
    /\ \A t \in Threads, x \in Places : ~Has(t, x, n)

OwnerInv ==
  /\ Types
  /\ Cursors
  /\ HeadSet
  /\ CooledIsOwn
  /\ FreshNodes
  /\ ExclusiveOwner

-----------------------------------------------------------------------------
USE MaxNodesAssumption
USE DEF Nil, Nodes, NODE_UNUSED, NODE_USED, NODE_COOLDOWN, GetPc, Pc, Places,
        listVars, nodeVars, history

(* An empty list has no owners. *)
LEMMA InitEstablishesOwnerInv == Init => OwnerInv
BY DEF Init, OwnerInv, Types, Cursors, HeadSet, CooledIsOwn, FreshNodes,
       ExclusiveOwner, Has

(* A call that finds its node changes nothing; one that needs a node begins at
   the head of the list, if there is a list. *)
LEMMA WithStep ==
  ASSUME OwnerInv, NEW t \in Threads, With(t)
  PROVE  OwnerInv'
<1> USE DEF OwnerInv, With, GetAt
<1>1. Types'
  BY DEF Types
<1>2. Cursors'
  BY DEF Types, Cursors
<1>3. HeadSet'
  BY DEF Types, HeadSet
<1>4. CooledIsOwn'
  BY DEF Types, CooledIsOwn
<1>5. FreshNodes'
  BY DEF Types, FreshNodes, Has
<1>6. ExclusiveOwner'
  BY DEF Types, ExclusiveOwner, Has
<1> QED BY <1>1, <1>2, <1>3, <1>4, <1>5, <1>6

(* check_cooldown only looks at in_use. *)
LEMMA CheckCooldownStep ==
  ASSUME OwnerInv, NEW t \in Threads, CheckCooldown(t)
  PROVE  OwnerInv'
<1> USE DEF OwnerInv, CheckCooldown
<1>1. Types'
  BY DEF Types
<1>2. Cursors'
  BY DEF Types, Cursors
<1>3. HeadSet'
  BY DEF Types, HeadSet
<1>4. CooledIsOwn'
  BY DEF Types, CooledIsOwn
<1>5. FreshNodes'
  BY DEF Types, FreshNodes, Has
<1>6. ExclusiveOwner'
  BY DEF Types, ExclusiveOwner, Has
<1> QED BY <1>1, <1>2, <1>3, <1>4, <1>5, <1>6

(* It only looks at active_writers. *)
LEMMA CheckWritersStep ==
  ASSUME OwnerInv, NEW t \in Threads, CheckWriters(t)
  PROVE  OwnerInv'
<1> USE DEF OwnerInv, CheckWriters
<1>1. Types'
  BY DEF Types
<1>2. Cursors'
  BY DEF Types, Cursors
<1>3. HeadSet'
  BY DEF Types, HeadSet
<1>4. CooledIsOwn'
  BY DEF Types, CooledIsOwn
<1>5. FreshNodes'
  BY DEF Types, FreshNodes, Has
<1>6. ExclusiveOwner'
  BY DEF Types, ExclusiveOwner, Has
<1> QED BY <1>1, <1>2, <1>3, <1>4, <1>5, <1>6

(* Only a node that nobody has is in cooldown. *)
LEMMA EndCooldownStep ==
  ASSUME OwnerInv, NEW t \in Threads, EndCooldown(t)
  PROVE  OwnerInv'
<1> USE DEF OwnerInv, EndCooldown
<1>1. Types'
  BY DEF Types
<1>2. Cursors'
  BY DEF Types, Cursors
<1>3. HeadSet'
  BY DEF Types, HeadSet
<1>4. CooledIsOwn'
  BY DEF Types, CooledIsOwn
<1>5. FreshNodes'
  BY DEF Types, FreshNodes, Has
<1>6. ExclusiveOwner'
  BY DEF Types, ExclusiveOwner, Has
<1> QED BY <1>1, <1>2, <1>3, <1>4, <1>5, <1>6

(* Only a node that nobody has is NODE_UNUSED: the thread is its one owner. *)
LEMMA ClaimStep ==
  ASSUME OwnerInv, NEW t \in Threads, Claim(t)
  PROVE  OwnerInv'
<1> USE DEF OwnerInv, Claim, GetAt, Claimed
<1>1. Types'
  <2>1. CASE in_use[cur[t]] = NODE_UNUSED
    BY <2>1 DEF Types, Cursors
  <2>2. CASE in_use[cur[t]] # NODE_UNUSED
    <3>1. next[cur[t]] \in Nodes \cup {Nil}
      BY DEF Types, Cursors
    <3> QED BY <2>2, <3>1 DEF Types
  <2> QED BY <2>1, <2>2
<1>2. Cursors'
  BY DEF Types, Cursors
<1>3. HeadSet'
  BY DEF Types, HeadSet
<1>4. CooledIsOwn'
  BY DEF Types, CooledIsOwn
<1>5. FreshNodes'
  BY DEF Types, FreshNodes, Has
<1>6. ExclusiveOwner'
  BY DEF Types, ExclusiveOwner, Has
<1> QED BY <1>1, <1>2, <1>3, <1>4, <1>5, <1>6

(* The new node is beyond all that were allocated. *)
LEMMA AllocateStep ==
  ASSUME OwnerInv, NEW t \in Threads, Allocate(t)
  PROVE  OwnerInv'
<1> USE DEF OwnerInv, Allocate
<1>1. Types'
  BY DEF Types
<1>2. Cursors'
  BY DEF Types, Cursors
<1>3. HeadSet'
  BY DEF Types, HeadSet
<1>4. CooledIsOwn'
  BY DEF Types, CooledIsOwn
<1>5. FreshNodes'
  BY DEF Types, FreshNodes, Has
<1>6. ExclusiveOwner'
  BY DEF Types, FreshNodes, ExclusiveOwner, Has
<1> QED BY <1>1, <1>2, <1>3, <1>4, <1>5, <1>6

(* The node goes into the list and the LocalNode, or stays on the way. *)
LEMMA PushStep ==
  ASSUME OwnerInv, NEW t \in Threads, Push(t)
  PROVE  OwnerInv'
<1> USE DEF OwnerInv, Push, Claimed
<1>1. Types'
  BY DEF Types, Cursors
<1>2. Cursors'
  BY DEF Types, Cursors
<1>3. HeadSet'
  BY DEF Types, Cursors, HeadSet
<1>4. CooledIsOwn'
  BY DEF Types, CooledIsOwn
<1>5. FreshNodes'
  BY DEF Types, FreshNodes, Has
<1>6. ExclusiveOwner'
  BY DEF Types, ExclusiveOwner, Has
<1> QED BY <1>1, <1>2, <1>3, <1>4, <1>5, <1>6

(* The end of a load changes no owner. *)
LEMMA EndCallStep ==
  ASSUME OwnerInv, NEW t \in Threads, EndCall(t)
  PROVE  OwnerInv'
<1> USE DEF OwnerInv, EndCall, AfterCall
<1>1. Types'
  BY DEF Types
<1>2. Cursors'
  BY DEF Types, Cursors
<1>3. HeadSet'
  BY DEF Types, HeadSet
<1>4. CooledIsOwn'
  BY DEF Types, CooledIsOwn
<1>5. FreshNodes'
  BY DEF Types, FreshNodes, Has
<1>6. ExclusiveOwner'
  BY DEF Types, ExclusiveOwner, Has
<1> QED BY <1>1, <1>2, <1>3, <1>4, <1>5, <1>6

(* The thread has a node, so there is a list to go through. *)
LEMMA PayAllStep ==
  ASSUME OwnerInv, NEW t \in Threads, PayAll(t)
  PROVE  OwnerInv'
<1> USE DEF OwnerInv, PayAll
<1>1. Types'
  BY DEF Types
<1>2. Cursors'
  BY DEF Types, Cursors, HeadSet
<1>3. HeadSet'
  BY DEF Types, HeadSet
<1>4. CooledIsOwn'
  BY DEF Types, CooledIsOwn
<1>5. FreshNodes'
  BY DEF Types, FreshNodes, Has
<1>6. ExclusiveOwner'
  BY DEF Types, ExclusiveOwner, Has
<1> QED BY <1>1, <1>2, <1>3, <1>4, <1>5, <1>6

(* A reservation is not ownership. *)
LEMMA ReserveWriterStep ==
  ASSUME OwnerInv, NEW t \in Threads, ReserveWriter(t)
  PROVE  OwnerInv'
<1> USE DEF OwnerInv, ReserveWriter
<1>1. Types'
  BY DEF Types
<1>2. Cursors'
  BY DEF Types, Cursors
<1>3. HeadSet'
  BY DEF Types, HeadSet
<1>4. CooledIsOwn'
  BY DEF Types, CooledIsOwn
<1>5. FreshNodes'
  BY DEF Types, FreshNodes, Has
<1>6. ExclusiveOwner'
  BY DEF Types, ExclusiveOwner, Has
<1> QED BY <1>1, <1>2, <1>3, <1>4, <1>5, <1>6

(* The nested call begins at the head of the list. *)
LEMMA ReplacementStep ==
  ASSUME OwnerInv, NEW t \in Threads, Replacement(t)
  PROVE  OwnerInv'
<1> USE DEF OwnerInv, Replacement, GetAt
<1>1. Types'
  BY DEF Types
<1>2. Cursors'
  BY DEF Types, Cursors
<1>3. HeadSet'
  BY DEF Types, HeadSet
<1>4. CooledIsOwn'
  BY DEF Types, CooledIsOwn
<1>5. FreshNodes'
  BY DEF Types, FreshNodes, Has
<1>6. ExclusiveOwner'
  BY DEF Types, ExclusiveOwner, Has
<1> QED BY <1>1, <1>2, <1>3, <1>4, <1>5, <1>6

(* pay_all goes on to the next node, which changes no owner. *)
LEMMA LeaveStep ==
  ASSUME OwnerInv, NEW t \in Threads, Leave(t)
  PROVE  OwnerInv'
<1> USE DEF OwnerInv, Leave, Release, AfterCall
<1>1. Types'
  BY DEF Types, Cursors
<1>2. Cursors'
  BY DEF Types, Cursors
<1>3. HeadSet'
  BY DEF Types, HeadSet
<1>4. CooledIsOwn'
  BY DEF Types, CooledIsOwn
<1>5. FreshNodes'
  BY DEF Types, FreshNodes, Has
<1>6. ExclusiveOwner'
  BY DEF Types, ExclusiveOwner, Has
<1> QED BY <1>1, <1>2, <1>3, <1>4, <1>5, <1>6

(* The node is not given up yet. *)
LEMMA DiscardStep ==
  ASSUME OwnerInv, NEW t \in Threads, Discard(t)
  PROVE  OwnerInv'
<1> USE DEF OwnerInv, Discard
<1>1. Types'
  BY DEF Types
<1>2. Cursors'
  BY DEF Types, Cursors
<1>3. HeadSet'
  BY DEF Types, HeadSet
<1>4. CooledIsOwn'
  BY DEF Types, CooledIsOwn
<1>5. FreshNodes'
  BY DEF Types, FreshNodes, Has
<1>6. ExclusiveOwner'
  BY DEF Types, ExclusiveOwner, Has
<1> QED BY <1>1, <1>2, <1>3, <1>4, <1>5, <1>6

(* The panic only releases the reservation. *)
LEMMA UnwindStep ==
  ASSUME OwnerInv, NEW t \in Threads, Unwind(t)
  PROVE  OwnerInv'
<1> USE DEF OwnerInv, Unwind, Release
<1>1. Types'
  BY DEF Types
<1>2. Cursors'
  BY DEF Types, Cursors
<1>3. HeadSet'
  BY DEF Types, HeadSet
<1>4. CooledIsOwn'
  BY DEF Types, CooledIsOwn
<1>5. FreshNodes'
  BY DEF Types, FreshNodes, Has
<1>6. ExclusiveOwner'
  BY DEF Types, ExclusiveOwner, Has
<1> QED BY <1>1, <1>2, <1>3, <1>4, <1>5, <1>6

(* The node to be given up is chosen. *)
LEMMA CooldownReserveStep ==
  ASSUME OwnerInv, NEW t \in Threads, CooldownReserve(t)
  PROVE  OwnerInv'
<1> USE DEF OwnerInv, CooldownReserve
<1>1. Types'
  BY DEF Types
<1>2. Cursors'
  BY DEF Types, Cursors
<1>3. HeadSet'
  BY DEF Types, HeadSet
<1>4. CooledIsOwn'
  BY DEF Types, CooledIsOwn
<1>5. FreshNodes'
  BY DEF Types, FreshNodes, Has
<1>6. ExclusiveOwner'
  BY DEF Types, ExclusiveOwner, Has
<1> QED BY <1>1, <1>2, <1>3, <1>4, <1>5, <1>6

(* The thread, the one owner, gives the node up by the swap itself. *)
LEMMA CooldownSwapStep ==
  ASSUME OwnerInv, NEW t \in Threads, CooldownSwap(t)
  PROVE  OwnerInv'
<1> USE DEF OwnerInv, CooldownSwap
<1>1. Types'
  BY DEF Types
<1>2. Cursors'
  BY DEF Types, Cursors
<1>3. HeadSet'
  BY DEF Types, HeadSet
<1>4. CooledIsOwn'
  BY DEF Types, CooledIsOwn
<1>5. FreshNodes'
  BY DEF Types, CooledIsOwn, FreshNodes, Has
<1>6. ExclusiveOwner'
  BY DEF Types, CooledIsOwn, ExclusiveOwner, Has
<1> QED BY <1>1, <1>2, <1>3, <1>4, <1>5, <1>6

(* The node is not the thread's any more. *)
LEMMA CooldownReleaseStep ==
  ASSUME OwnerInv, NEW t \in Threads, CooldownRelease(t)
  PROVE  OwnerInv'
<1> USE DEF OwnerInv, CooldownRelease
<1>1. Types'
  BY DEF Types
<1>2. Cursors'
  BY DEF Types, Cursors
<1>3. HeadSet'
  BY DEF Types, HeadSet
<1>4. CooledIsOwn'
  BY DEF Types, CooledIsOwn
<1>5. FreshNodes'
  BY DEF Types, FreshNodes, Has
<1>6. ExclusiveOwner'
  BY DEF Types, ExclusiveOwner, Has
<1> QED BY <1>1, <1>2, <1>3, <1>4, <1>5, <1>6

(* THREAD_HEAD goes away, its node not yet. *)
LEMMA ThreadExitStep ==
  ASSUME OwnerInv, NEW t \in Threads, ThreadExit(t)
  PROVE  OwnerInv'
<1> USE DEF OwnerInv, ThreadExit
<1>1. Types'
  BY DEF Types
<1>2. Cursors'
  BY DEF Types, Cursors
<1>3. HeadSet'
  BY DEF Types, HeadSet
<1>4. CooledIsOwn'
  BY DEF Types, CooledIsOwn
<1>5. FreshNodes'
  BY DEF Types, FreshNodes, Has
<1>6. ExclusiveOwner'
  BY DEF Types, ExclusiveOwner, Has
<1> QED BY <1>1, <1>2, <1>3, <1>4, <1>5, <1>6

(* A new thread has no node. *)
LEMMA ThreadStartStep ==
  ASSUME OwnerInv, NEW t \in Threads, ThreadStart(t)
  PROVE  OwnerInv'
<1> USE DEF OwnerInv, ThreadStart
<1>1. Types'
  BY DEF Types
<1>2. Cursors'
  BY DEF Types, Cursors
<1>3. HeadSet'
  BY DEF Types, HeadSet
<1>4. CooledIsOwn'
  BY DEF Types, CooledIsOwn
<1>5. FreshNodes'
  BY DEF Types, FreshNodes, Has
<1>6. ExclusiveOwner'
  BY DEF Types, ExclusiveOwner, Has
<1> QED BY <1>1, <1>2, <1>3, <1>4, <1>5, <1>6

-----------------------------------------------------------------------------
(* The inductive invariant holds in every state. *)
THEOREM OwnerInvariance == Spec => []OwnerInv
<1>1. Init => OwnerInv
  BY InitEstablishesOwnerInv
<1>2. OwnerInv /\ [Next]_vars => OwnerInv'
  <2> SUFFICES ASSUME OwnerInv, [Next]_vars PROVE OwnerInv'
    OBVIOUS
  <2>1. CASE AtBound \/ UNCHANGED vars
    BY <2>1 DEF AtBound, vars, OwnerInv, Types, Cursors, HeadSet, CooledIsOwn,
                FreshNodes, ExclusiveOwner, Has
  <2>2. CASE \E t \in Threads : With(t) \/ ThreadExit(t) \/ ThreadStart(t)
    BY <2>2, WithStep, ThreadExitStep, ThreadStartStep
  <2>3. CASE \E t \in Threads : GetStep(t)
    BY <2>3, CheckCooldownStep, CheckWritersStep, EndCooldownStep, ClaimStep,
       AllocateStep, PushStep
    DEF GetStep
  <2>4. CASE \E t \in Threads : CallStep(t)
    BY <2>4, EndCallStep, PayAllStep, ReserveWriterStep, ReplacementStep,
       LeaveStep, DiscardStep, UnwindStep
    DEF CallStep
  <2>5. CASE \E t \in Threads : CooldownStep(t)
    BY <2>5, CooldownReserveStep, CooldownSwapStep, CooldownReleaseStep
    DEF CooldownStep
  <2> QED BY <2>1, <2>2, <2>3, <2>4, <2>5 DEF Next
<1> QED BY <1>1, <1>2, PTL DEF Spec

(* Node::get gives a node to one thread at a time, and a node that a thread has
   is NODE_USED, whatever the interleaving of claims, cooldowns, thread exits
   and panics. *)
THEOREM NodesNeverShared == Spec => []ExclusiveOwner
<1>1. OwnerInv => ExclusiveOwner
  BY DEF OwnerInv
<1> QED BY <1>1, OwnerInvariance, PTL

-----------------------------------------------------------------------------
(* The reservations. *)

(* The steps of a thread. *)
Step(t) ==
  \/ With(t) \/ GetStep(t) \/ CallStep(t) \/ CooldownStep(t)
  \/ ThreadExit(t) \/ ThreadStart(t)

(* The types of the other variables; that a count is never negative is for
   the invariant to show. *)
CountTypes ==
  /\ active_writers \in [Nodes -> Int]
  /\ present \in [Nodes -> SUBSET Threads]
  /\ stale \subseteq Threads
  /\ due \in [Threads -> SUBSET Nodes]

Flags == tls \in [Threads -> BOOLEAN]

(* The writers that a cooldown waits for have a reservation. *)
PresentReserved == \A n \in Nodes : present[n] \subseteq Visitors(n)

(* A thread about to end a cooldown it has seen from its beginning has found
   the node without writers; those that came later do not matter. *)
NotStale ==
  \A t \in Threads :
    pc[t] = "uncool" /\ t \notin stale /\ in_use[cur[t]] = NODE_COOLDOWN =>
      present[cur[t]] = {}

CountInv ==
  /\ CountTypes
  /\ Flags
  /\ ReservationsCounted
  /\ PresentReserved
  /\ NotStale

(* How often t is counted among the reservations of n. *)
Own(t, n) ==
  (IF Reserved(t, n) THEN 1 ELSE 0)
    + (IF pc[t] \in {"cd_swap", "cd_release"} /\ cur[t] = n THEN 1 ELSE 0)

(* A step of t moves t alone, and changes every count by what t has more or
   less than before. *)
Tallied(t) ==
  /\ \A u \in Threads \ {t} :
       pc'[u] = pc[u] /\ cur'[u] = cur[u] /\ at'[u] = at[u]
  /\ \A n \in Nodes :
       active_writers'[n] + Own(t, n) = active_writers[n] + Own(t, n)'

(* Visitors and coolers are as many as there are threads, at the most. *)
LEMMA ReserversFinite ==
  \A n \in Nodes :
    /\ IsFiniteSet(Visitors(n)) /\ Cardinality(Visitors(n)) \in Nat
    /\ IsFiniteSet(Coolers(n)) /\ Cardinality(Coolers(n)) \in Nat
BY ThreadsAssumption, PartOfFinite DEF Visitors, Coolers

(* Such a step keeps the counts exact. *)
LEMMA TalliedIsCounted ==
  ASSUME CountTypes, CountTypes', ReservationsCounted, NEW t \in Threads,
         Tallied(t)
  PROVE  ReservationsCounted'
<1> SUFFICES ASSUME NEW n \in Nodes
             PROVE  active_writers'[n] = Cardinality(Visitors(n)')
                                           + Cardinality(Coolers(n)')
  BY DEF ReservationsCounted
<1>1. Visitors(n) \ {t} = Visitors(n)' \ {t}
  BY DEF Tallied, Visitors, Reserved
<1>2. Coolers(n) \ {t} = Coolers(n)' \ {t}
  BY DEF Tallied, Coolers
<1>3. /\ Cardinality(Visitors(n)) \in Nat /\ Cardinality(Visitors(n)') \in Nat
      /\ Cardinality(Visitors(n)') + (IF t \in Visitors(n) THEN 1 ELSE 0)
           = Cardinality(Visitors(n)) + (IF t \in Visitors(n)' THEN 1 ELSE 0)
  BY <1>1, ReserversFinite, OneElement
<1>4. /\ Cardinality(Coolers(n)) \in Nat /\ Cardinality(Coolers(n)') \in Nat
      /\ Cardinality(Coolers(n)') + (IF t \in Coolers(n) THEN 1 ELSE 0)
           = Cardinality(Coolers(n)) + (IF t \in Coolers(n)' THEN 1 ELSE 0)
  BY <1>2, ReserversFinite, OneElement
<1>5. /\ Own(t, n) = (IF t \in Visitors(n) THEN 1 ELSE 0)
                       + (IF t \in Coolers(n) THEN 1 ELSE 0)
      /\ Own(t, n)' = (IF t \in Visitors(n)' THEN 1 ELSE 0)
                        + (IF t \in Coolers(n)' THEN 1 ELSE 0)
  BY DEF Own, Visitors, Coolers
<1>6. active_writers[n] = Cardinality(Visitors(n)) + Cardinality(Coolers(n))
  BY DEF ReservationsCounted
<1>7. active_writers'[n] \in Int /\ active_writers[n] \in Int
  BY DEF CountTypes
<1>8. active_writers'[n] + Own(t, n) = active_writers[n] + Own(t, n)'
  BY DEF Tallied
<1> QED BY <1>3, <1>4, <1>5, <1>6, <1>7, <1>8

(* A counter that is incremented or decremented is still a counter. *)
LEMMA Adjusted ==
  ASSUME NEW f \in [Nodes -> Int], NEW x
  PROVE  /\ [f EXCEPT ![x] = @ + 1] \in [Nodes -> Int]
         /\ [f EXCEPT ![x] = @ - 1] \in [Nodes -> Int]
<1> HIDE DEF Nodes
<1>1. \A n \in Nodes : f[n] + 1 \in Int /\ f[n] - 1 \in Int
  OBVIOUS
<1>2. [f EXCEPT ![x] = @ + 1] \in [Nodes -> Int]
  BY <1>1
<1>3. [f EXCEPT ![x] = @ - 1] \in [Nodes -> Int]
  BY <1>1
<1> QED BY <1>2, <1>3

(* The types are kept. *)
LEMMA CountTypesStep ==
  ASSUME OwnerInv, CountTypes, Flags, NEW t \in Threads, Step(t)
  PROVE  CountTypes' /\ Flags'
<1>1. CASE UNCHANGED <<active_writers, present, stale, due, tls>>
  <2>1. CountTypes'
    BY <1>1 DEF CountTypes
  <2>2. Flags'
    BY <1>1 DEF Flags
  <2> QED BY <2>1, <2>2
<1>2. CASE CheckWriters(t)
  <2>1. CountTypes'
    BY <1>2 DEF CheckWriters, OwnerInv, Types, CountTypes
  <2>2. Flags'
    BY <1>2 DEF CheckWriters, Flags
  <2> QED BY <2>1, <2>2
<1>3. CASE EndCooldown(t)
  <2>1. CountTypes'
    BY <1>3 DEF EndCooldown, OwnerInv, Types, CountTypes
  <2>2. Flags'
    BY <1>3 DEF EndCooldown, Flags
  <2> QED BY <2>1, <2>2
<1>4. CASE PayAll(t)
  <2>1. CountTypes'
    BY <1>4 DEF PayAll, OwnerInv, Types, CountTypes
  <2>2. Flags'
    BY <1>4 DEF PayAll, Flags
  <2> QED BY <2>1, <2>2
<1>5. CASE ReserveWriter(t)
  <2>1. active_writers' \in [Nodes -> Int]
    BY <1>5, Adjusted DEF ReserveWriter, CountTypes
  <2>2. present' \in [Nodes -> SUBSET Threads] /\ stale' \subseteq Threads
    BY <1>5 DEF ReserveWriter, CountTypes
  <2>3. due' \in [Threads -> SUBSET Nodes]
    BY <1>5 DEF ReserveWriter, CountTypes
  <2>4. Flags'
    BY <1>5 DEF ReserveWriter, Flags
  <2> QED BY <2>1, <2>2, <2>3, <2>4 DEF CountTypes
<1>6. CASE Leave(t)
  <2>1. active_writers' \in [Nodes -> Int]
    BY <1>6, Adjusted DEF Leave, Release, AfterCall, CountTypes
  <2>2. present' \in [Nodes -> SUBSET Threads] /\ stale' \subseteq Threads
    BY <1>6 DEF Leave, Release, AfterCall, CountTypes
  <2>3. due' \in [Threads -> SUBSET Nodes]
    BY <1>6 DEF Leave, Release, AfterCall, CountTypes
  <2>4. Flags'
    BY <1>6 DEF Leave, Release, AfterCall, Flags
  <2> QED BY <2>1, <2>2, <2>3, <2>4 DEF CountTypes
<1>7. CASE Unwind(t)
  <2>1. active_writers' \in [Nodes -> Int]
    BY <1>7, Adjusted DEF Unwind, Release, CountTypes
  <2>2. present' \in [Nodes -> SUBSET Threads] /\ stale' \subseteq Threads
    BY <1>7 DEF Unwind, Release, CountTypes
  <2>3. due' \in [Threads -> SUBSET Nodes]
    BY <1>7 DEF Unwind, Release, CountTypes
  <2>4. Flags'
    BY <1>7 DEF Unwind, Release, Flags
  <2> QED BY <2>1, <2>2, <2>3, <2>4 DEF CountTypes
<1>8. CASE CooldownReserve(t)
  <2>1. active_writers' \in [Nodes -> Int]
    BY <1>8, Adjusted DEF CooldownReserve, CountTypes
  <2>2. present' \in [Nodes -> SUBSET Threads] /\ stale' \subseteq Threads
    BY <1>8 DEF CooldownReserve, CountTypes
  <2>3. due' \in [Threads -> SUBSET Nodes]
    BY <1>8 DEF CooldownReserve, CountTypes
  <2>4. Flags'
    BY <1>8 DEF CooldownReserve, Flags
  <2> QED BY <2>1, <2>2, <2>3, <2>4 DEF CountTypes
<1>9. CASE CooldownSwap(t)
  <2>1. CountTypes'
    BY <1>9 DEF CooldownSwap, OwnerInv, Types, CountTypes
  <2>2. Flags'
    BY <1>9 DEF CooldownSwap, Flags
  <2> QED BY <2>1, <2>2
<1>10. CASE CooldownRelease(t)
  <2>1. active_writers' \in [Nodes -> Int]
    BY <1>10, Adjusted DEF CooldownRelease, CountTypes
  <2>2. present' \in [Nodes -> SUBSET Threads] /\ stale' \subseteq Threads
    BY <1>10 DEF CooldownRelease, CountTypes
  <2>3. due' \in [Threads -> SUBSET Nodes]
    BY <1>10 DEF CooldownRelease, CountTypes
  <2>4. Flags'
    BY <1>10 DEF CooldownRelease, Flags
  <2> QED BY <2>1, <2>2, <2>3, <2>4 DEF CountTypes
<1>11. CASE ThreadExit(t)
  <2>1. CountTypes'
    BY <1>11 DEF ThreadExit, OwnerInv, Types, CountTypes
  <2>2. Flags'
    BY <1>11 DEF ThreadExit, Flags
  <2> QED BY <2>1, <2>2
<1>12. CASE ThreadStart(t)
  <2>1. CountTypes'
    BY <1>12 DEF ThreadStart, OwnerInv, Types, CountTypes
  <2>2. Flags'
    BY <1>12 DEF ThreadStart, Flags
  <2> QED BY <2>1, <2>2
<1>13. CASE \/ With(t) \/ CheckCooldown(t) \/ Claim(t) \/ Allocate(t) \/ Push(t)
           \/ EndCall(t) \/ Replacement(t) \/ Discard(t)
  BY <1>1, <1>13 DEF With, CheckCooldown, Claim, Allocate, Push, EndCall,
     Replacement, Discard
<1> QED
  BY <1>2, <1>3, <1>4, <1>5, <1>6, <1>7, <1>8, <1>9, <1>10, <1>11, <1>12, <1>13
  DEF Step, GetStep, CallStep, CooldownStep

(* Every step takes as many reservations as it counts. *)
LEMMA StepTallies ==
  ASSUME OwnerInv, CountTypes, NEW t \in Threads, Step(t)
  PROVE  Tallied(t)
<1>1. CASE With(t)
  BY <1>1 DEF With, GetAt, OwnerInv, Types, Tallied, Own, Reserved
<1>2. CASE CheckCooldown(t)
  BY <1>2 DEF CheckCooldown, OwnerInv, Types, Tallied, Own, Reserved
<1>3. CASE CheckWriters(t)
  BY <1>3 DEF CheckWriters, OwnerInv, Types, Tallied, Own, Reserved
<1>4. CASE EndCooldown(t)
  BY <1>4 DEF EndCooldown, OwnerInv, Types, Tallied, Own, Reserved
<1>5. CASE Claim(t)
  BY <1>5 DEF Claim, GetAt, Claimed, OwnerInv, Types, Tallied, Own, Reserved
<1>6. CASE Allocate(t)
  BY <1>6 DEF Allocate, OwnerInv, Types, Tallied, Own, Reserved
<1>7. CASE Push(t)
  BY <1>7 DEF Push, Claimed, OwnerInv, Types, Tallied, Own, Reserved
<1>8. CASE EndCall(t)
  BY <1>8 DEF EndCall, AfterCall, OwnerInv, Types, Tallied, Own, Reserved
<1>9. CASE PayAll(t)
  BY <1>9 DEF PayAll, OwnerInv, Types, Tallied, Own, Reserved
<1>10. CASE ReserveWriter(t)
  BY <1>10 DEF ReserveWriter, OwnerInv, Types, CountTypes, Tallied, Own,
     Reserved
<1>11. CASE Replacement(t)
  BY <1>11 DEF Replacement, GetAt, OwnerInv, Types, Tallied, Own, Reserved
<1>12. CASE Leave(t)
  BY <1>12 DEF Leave, Release, AfterCall, OwnerInv, Types, CountTypes, Tallied,
     Own, Reserved
<1>13. CASE Discard(t)
  BY <1>13 DEF Discard, OwnerInv, Types, Tallied, Own, Reserved
<1>14. CASE Unwind(t)
  BY <1>14 DEF Unwind, Release, OwnerInv, Types, CountTypes, Tallied, Own,
     Reserved
<1>15. CASE CooldownReserve(t)
  BY <1>15 DEF CooldownReserve, OwnerInv, Types, CountTypes, Tallied, Own,
     Reserved
<1>16. CASE CooldownSwap(t)
  BY <1>16 DEF CooldownSwap, OwnerInv, Types, Tallied, Own, Reserved
<1>17. CASE CooldownRelease(t)
  BY <1>17 DEF CooldownRelease, OwnerInv, Types, CountTypes, Tallied, Own,
     Reserved
<1>18. CASE ThreadExit(t)
  BY <1>18 DEF ThreadExit, OwnerInv, Types, Tallied, Own, Reserved
<1>19. CASE ThreadStart(t)
  BY <1>19 DEF ThreadStart, OwnerInv, Types, Tallied, Own, Reserved
<1> QED
  BY <1>1, <1>2, <1>3, <1>4, <1>5, <1>6, <1>7, <1>8, <1>9, <1>10, <1>11, <1>12,
     <1>13, <1>14, <1>15, <1>16, <1>17, <1>18, <1>19
  DEF Step, GetStep, CallStep, CooldownStep

(* The writers a cooldown waits for are forgotten with their reservation. *)
LEMMA PresentReservedStep ==
  ASSUME OwnerInv, CountTypes, PresentReserved, NEW t \in Threads, Step(t)
  PROVE  PresentReserved'
<1>1. CASE With(t)
  BY <1>1 DEF With, GetAt, OwnerInv, Types, PresentReserved, Visitors, Reserved
<1>2. CASE CheckCooldown(t)
  BY <1>2 DEF CheckCooldown, OwnerInv, Types, PresentReserved, Visitors,
     Reserved
<1>3. CASE CheckWriters(t)
  BY <1>3 DEF CheckWriters, OwnerInv, Types, PresentReserved, Visitors,
     Reserved
<1>4. CASE EndCooldown(t)
  BY <1>4 DEF EndCooldown, OwnerInv, Types, PresentReserved, Visitors, Reserved
<1>5. CASE Claim(t)
  BY <1>5 DEF Claim, GetAt, Claimed, OwnerInv, Types, PresentReserved,
     Visitors, Reserved
<1>6. CASE Allocate(t)
  BY <1>6 DEF Allocate, OwnerInv, Types, PresentReserved, Visitors, Reserved
<1>7. CASE Push(t)
  BY <1>7 DEF Push, Claimed, OwnerInv, Types, PresentReserved, Visitors,
     Reserved
<1>8. CASE EndCall(t)
  BY <1>8 DEF EndCall, AfterCall, OwnerInv, Types, PresentReserved, Visitors,
     Reserved
<1>9. CASE PayAll(t)
  BY <1>9 DEF PayAll, OwnerInv, Types, PresentReserved, Visitors, Reserved
<1>10. CASE ReserveWriter(t)
  BY <1>10 DEF ReserveWriter, OwnerInv, Types, PresentReserved, Visitors,
     Reserved
<1>11. CASE Replacement(t)
  BY <1>11 DEF Replacement, GetAt, OwnerInv, Types, PresentReserved, Visitors,
     Reserved
<1>12. CASE Leave(t)
  BY <1>12 DEF Leave, Release, AfterCall, OwnerInv, Types, CountTypes,
     PresentReserved, Visitors, Reserved
<1>13. CASE Discard(t)
  BY <1>13 DEF Discard, OwnerInv, Types, PresentReserved, Visitors, Reserved
<1>14. CASE Unwind(t)
  BY <1>14 DEF Unwind, Release, OwnerInv, Types, CountTypes, PresentReserved,
     Visitors, Reserved
<1>15. CASE CooldownReserve(t)
  BY <1>15 DEF CooldownReserve, OwnerInv, Types, PresentReserved, Visitors,
     Reserved
<1>16. CASE CooldownSwap(t)
  BY <1>16 DEF CooldownSwap, OwnerInv, Types, PresentReserved, Visitors,
     Reserved
<1>17. CASE CooldownRelease(t)
  BY <1>17 DEF CooldownRelease, OwnerInv, Types, PresentReserved, Visitors,
     Reserved
<1>18. CASE ThreadExit(t)
  BY <1>18 DEF ThreadExit, OwnerInv, Types, PresentReserved, Visitors, Reserved
<1>19. CASE ThreadStart(t)
  BY <1>19 DEF ThreadStart, OwnerInv, Types, PresentReserved, Visitors,
     Reserved
<1> QED
  BY <1>1, <1>2, <1>3, <1>4, <1>5, <1>6, <1>7, <1>8, <1>9, <1>10, <1>11, <1>12,
     <1>13, <1>14, <1>15, <1>16, <1>17, <1>18, <1>19
  DEF Step, GetStep, CallStep, CooldownStep

(* A thread that finds no writers finds none of those the cooldown waits for.
   *)
LEMMA NotStaleStep ==
  ASSUME OwnerInv, CountTypes, ReservationsCounted, PresentReserved, NotStale,
         NEW t \in Threads, Step(t)
  PROVE  NotStale'
<1>1. CASE With(t)
  BY <1>1 DEF With, GetAt, OwnerInv, Types, NotStale
<1>2. CASE CheckCooldown(t)
  BY <1>2 DEF CheckCooldown, OwnerInv, Types, NotStale
<1>3. CASE CheckWriters(t)
  <2>1. CASE active_writers[cur[t]] = 0
    <3>1. cur[t] \in Nodes
      BY <1>3 DEF CheckWriters, OwnerInv, Cursors
    <3>2. Cardinality(Visitors(cur[t])) = 0
      BY <2>1, <3>1, ReserversFinite DEF ReservationsCounted
    <3>3. Visitors(cur[t]) \in SUBSET Threads
      BY DEF Visitors
    <3>4. Visitors(cur[t]) = {}
      BY <3>2, <3>3, ThreadsAssumption, PartOfFinite
    <3>5. present[cur[t]] = {}
      BY <3>1, <3>4 DEF PresentReserved
    <3> QED
      BY <1>3, <2>1, <3>5 DEF CheckWriters, OwnerInv, Types, NotStale
  <2>2. CASE active_writers[cur[t]] # 0
    BY <1>3, <2>2 DEF CheckWriters, OwnerInv, Types, NotStale
  <2> QED BY <2>1, <2>2
<1>4. CASE EndCooldown(t)
  BY <1>4 DEF EndCooldown, OwnerInv, Types, NotStale
<1>5. CASE Claim(t)
  <2>1. CASE in_use[cur[t]] = NODE_UNUSED
    <3>1. /\ pc[t] = "claim" /\ pc' = [pc EXCEPT ![t] = "call"]
          /\ cur' = [cur EXCEPT ![t] = Nil]
          /\ in_use' = [in_use EXCEPT ![cur[t]] = NODE_USED]
          /\ UNCHANGED <<present, stale>>
      BY <1>5, <2>1 DEF Claim, Claimed
    <3>2. \A u \in Threads : pc'[u] = "uncool" =>
            /\ u # t /\ pc[u] = "uncool" /\ cur'[u] = cur[u] /\ cur[u] \in Nodes
      BY <3>1 DEF OwnerInv, Types, Cursors
    <3>3. \A n \in Nodes :
            in_use'[n] = NODE_COOLDOWN => in_use[n] = NODE_COOLDOWN
      BY <3>1 DEF OwnerInv, Types
    <3> QED BY <3>1, <3>2, <3>3 DEF NotStale
  <2>2. CASE in_use[cur[t]] # NODE_UNUSED
    BY <1>5, <2>2 DEF Claim, GetAt, OwnerInv, Types, NotStale
  <2> QED BY <2>1, <2>2
<1>6. CASE Allocate(t)
  BY <1>6 DEF Allocate, OwnerInv, Types, NotStale
<1>7. CASE Push(t)
  BY <1>7 DEF Push, Claimed, OwnerInv, Types, Cursors, NotStale
<1>8. CASE EndCall(t)
  BY <1>8 DEF EndCall, AfterCall, OwnerInv, Types, NotStale
<1>9. CASE PayAll(t)
  BY <1>9 DEF PayAll, OwnerInv, Types, NotStale
<1>10. CASE ReserveWriter(t)
  BY <1>10 DEF ReserveWriter, OwnerInv, Types, NotStale
<1>11. CASE Replacement(t)
  BY <1>11 DEF Replacement, GetAt, OwnerInv, Types, NotStale
<1>12. CASE Leave(t)
  BY <1>12 DEF Leave, Release, AfterCall, OwnerInv, Types, NotStale
<1>13. CASE Discard(t)
  BY <1>13 DEF Discard, OwnerInv, Types, NotStale
<1>14. CASE Unwind(t)
  BY <1>14 DEF Unwind, Release, OwnerInv, Types, NotStale
<1>15. CASE CooldownReserve(t)
  BY <1>15 DEF CooldownReserve, OwnerInv, Types, NotStale
<1>16. CASE CooldownSwap(t)
  BY <1>16 DEF CooldownSwap, OwnerInv, Types, NotStale
<1>17. CASE CooldownRelease(t)
  BY <1>17 DEF CooldownRelease, OwnerInv, Types, NotStale
<1>18. CASE ThreadExit(t)
  BY <1>18 DEF ThreadExit, OwnerInv, Types, NotStale
<1>19. CASE ThreadStart(t)
  BY <1>19 DEF ThreadStart, OwnerInv, Types, NotStale
<1> QED
  BY <1>1, <1>2, <1>3, <1>4, <1>5, <1>6, <1>7, <1>8, <1>9, <1>10, <1>11, <1>12,
     <1>13, <1>14, <1>15, <1>16, <1>17, <1>18, <1>19
  DEF Step, GetStep, CallStep, CooldownStep

(* A cooldown is ended only by a thread at the compare-exchange of
   check_cooldown, for the node it is at. *)
LEMMA WhoEndsCooldown ==
  ASSUME OwnerInv, NEW t \in Threads, Step(t), NEW n \in Nodes,
         in_use[n] = NODE_COOLDOWN, in_use'[n] # NODE_COOLDOWN
  PROVE  pc[t] = "uncool" /\ cur[t] = n /\ pc'[t] # pc[t]
<1>1. CASE EndCooldown(t)
  BY <1>1 DEF EndCooldown, OwnerInv, Types
<1>2. CASE Claim(t) \/ CooldownSwap(t)
  BY <1>2 DEF Claim, CooldownSwap, OwnerInv, Types
<1>3. CASE in_use' = in_use
  BY <1>3
<1>4. EndCooldown(t) \/ Claim(t) \/ CooldownSwap(t) \/ in_use' = in_use
  BY DEF Step, With, GetStep, CheckCooldown, CheckWriters, Allocate, Push,
         CallStep, EndCall, PayAll, ReserveWriter, Replacement, Leave, Discard,
         Unwind, CooldownStep, CooldownReserve, CooldownRelease, ThreadExit,
         ThreadStart
<1> QED BY <1>1, <1>2, <1>3, <1>4

(* A step is the step of some thread, or changes nothing. *)
LEMMA StepOfSomeone ==
  ASSUME [Next]_vars
  PROVE  (\E t \in Threads : Step(t)) \/ UNCHANGED vars
BY DEF Next, Step, AtBound

(* The inductive invariant of the reservations. *)
THEOREM CountInvariance == Spec => []CountInv
<1>1. Init => CountInv
  <2> SUFFICES ASSUME Init PROVE CountInv
    OBVIOUS
  <2>1. CountTypes /\ Flags
    BY DEF Init, CountTypes, Flags
  <2>2. \A n \in Nodes :
          Visitors(n) = {} /\ Coolers(n) = {} /\ active_writers[n] = 0
    BY DEF Init, Visitors, Reserved, Coolers
  <2>3. ReservationsCounted
    BY <2>2, FS_EmptySet DEF ReservationsCounted
  <2>4. PresentReserved /\ NotStale
    BY DEF Init, PresentReserved, NotStale
  <2> QED BY <2>1, <2>3, <2>4 DEF CountInv
<1>2. OwnerInv /\ CountInv /\ [Next]_vars => CountInv'
  <2> SUFFICES ASSUME OwnerInv, CountInv, [Next]_vars PROVE CountInv'
    OBVIOUS
  <2>1. CASE UNCHANGED vars
    BY <2>1 DEF vars, CountInv, CountTypes, Flags, ReservationsCounted,
       Visitors,
                Coolers, Reserved, PresentReserved, NotStale
  <2>2. CASE \E t \in Threads : Step(t)
    <3>1. PICK t \in Threads : Step(t)
      BY <2>2
    <3>2. CountTypes' /\ Flags'
      BY <3>1, CountTypesStep DEF CountInv
    <3>3. ReservationsCounted'
      BY <3>1, <3>2, StepTallies, TalliedIsCounted DEF CountInv
    <3>4. PresentReserved' /\ NotStale'
      BY <3>1, PresentReservedStep, NotStaleStep DEF CountInv
    <3> QED BY <3>2, <3>3, <3>4 DEF CountInv
  <2> QED BY <2>1, <2>2, StepOfSomeone
<1> QED BY <1>1, <1>2, OwnerInvariance, PTL DEF Spec

(* active_writers of a node is the number of the reservations there are, at
   every moment of any number of pay_alls, cooldowns, nested calls and panics
   (WriterReservation, in debt/list.rs). *)
THEOREM ReservationsExact == Spec => []ReservationsCounted
<1>1. CountInv => ReservationsCounted
  BY DEF CountInv
<1> QED BY <1>1, CountInvariance, PTL

(* The variables have their types; that active_writers, an unsigned number that
   is decremented, never wraps around is a consequence of the exact count. *)
THEOREM TypeCorrect == Spec => []TypeOK
<1>1. OwnerInv /\ CountInv => TypeOK
  <2> SUFFICES ASSUME OwnerInv, CountInv PROVE TypeOK
    OBVIOUS
  <2>1. \A n \in Nodes : active_writers[n] \in Nat
    BY ReserversFinite DEF CountInv, ReservationsCounted
  <2>2. active_writers \in [Nodes -> Nat]
    BY <2>1 DEF CountInv, CountTypes
  <2>3. tls \in [Threads -> BOOLEAN]
    BY DEF CountInv, Flags
  <2> QED BY <2>2, <2>3 DEF TypeOK, OwnerInv, Types, CountInv, CountTypes
<1> QED BY <1>1, OwnerInvariance, CountInvariance, PTL

(* A cooldown ends when the writers that were on the node at its beginning are
   gone, unless the thread that ends it has looked at the node before
   (check_cooldown, in debt/list.rs). *)
THEOREM CooldownEndsDrained == Spec => CooldownDrainsUnlessStale
<1> DEFINE Drained(n) ==
      in_use[n] = NODE_COOLDOWN /\ in_use'[n] # NODE_COOLDOWN =>
         \/ present[n] = {}
         \/ \E t \in stale :
              pc[t] = "uncool" /\ cur[t] = n /\ pc'[t] # pc[t]
<1>1. OwnerInv /\ CountInv /\ [Next]_vars => [\A n \in Nodes : Drained(n)]_vars
  <2> SUFFICES ASSUME OwnerInv, CountInv, [Next]_vars, NEW n \in Nodes,
                      in_use[n] = NODE_COOLDOWN, in_use'[n] # NODE_COOLDOWN
               PROVE  Drained(n)
    OBVIOUS
  <2>1. PICK t \in Threads : Step(t)
    BY StepOfSomeone DEF vars
  <2>2. pc[t] = "uncool" /\ cur[t] = n /\ pc'[t] # pc[t]
    BY <2>1, WhoEndsCooldown
  <2>3. CASE t \in stale
    BY <2>2, <2>3
  <2>4. CASE t \notin stale
    BY <2>2, <2>4 DEF CountInv, NotStale
  <2> QED BY <2>3, <2>4
<1> QED
  BY <1>1, OwnerInvariance, CountInvariance, PTL
  DEF Spec, CooldownDrainsUnlessStale

-----------------------------------------------------------------------------
(* The traversal of the list. *)

(* The nodes that are in the list: allocated, and not on the way into it. *)
InList ==
  {n \in 1..created : \A u \in Threads : ~(pc[u] = "push" /\ cur[u] = n)}

(* R says which nodes there are from a node of the list on.  A recursive
   definition would not say that it is defined, so that it exists is part of
   the invariant. *)
Linked(R) ==
  \A n \in InList :
    /\ next[n] \in InList \cup {Nil}
    /\ R[n] = {n} \cup (IF next[n] = Nil THEN {} ELSE R[next[n]])

(* All nodes of the list can be reached from its head. *)
FromHead(R) ==
  /\ LIST_HEAD \in InList \cup {Nil}
  /\ InList = IF LIST_HEAD = Nil THEN {} ELSE R[LIST_HEAD]

(* What a pay_all has still to visit lies ahead of it. *)
Ahead(R) ==
  \A t \in Threads :
    /\ at[t] \in InList \cup {Nil}
    /\ due[t] \subseteq IF at[t] = Nil THEN {} ELSE R[at[t]]

ListInv ==
  \E R \in [Nodes -> SUBSET Nodes] : Linked(R) /\ FromHead(R) /\ Ahead(R)

(* A step that touches neither the list nor a traversal. *)
ListUntouched ==
  /\ UNCHANGED <<LIST_HEAD, at, due>>
  /\ InList' = InList
  /\ \A n \in InList : next'[n] = next[n]

LEMMA ListUntouchedStep ==
  ASSUME ListInv, ListUntouched
  PROVE  ListInv'
<1>1. PICK R \in [Nodes -> SUBSET Nodes] : Linked(R) /\ FromHead(R) /\ Ahead(R)
  BY DEF ListInv
<1>2. Linked(R)' /\ FromHead(R)' /\ Ahead(R)'
  BY <1>1 DEF Linked, FromHead, Ahead, ListUntouched
<1> QED BY <1>2 DEF ListInv

(* Most steps do not. *)
LEMMA OthersLeaveList ==
  ASSUME OwnerInv, NEW t \in Threads, Step(t), ~Push(t), ~PayAll(t), ~Leave(t),
         ~Unwind(t)
  PROVE  ListUntouched
<1>1. CASE With(t)
  <2>1. /\ UNCHANGED <<LIST_HEAD, next, created, at, due>>
        /\ \E x, y : /\ cur' = [cur EXCEPT ![t] = x]
                     /\ pc' = [pc EXCEPT ![t] = y] /\ y # "push"
        /\ pc[t] # "push"
    BY <1>1 DEF With, GetAt, OwnerInv, Types
  <2> QED BY <2>1 DEF OwnerInv, Types, ListUntouched, InList
<1>2. CASE CheckCooldown(t)
  BY <1>2 DEF CheckCooldown, OwnerInv, Types, ListUntouched, InList
<1>3. CASE CheckWriters(t)
  BY <1>3 DEF CheckWriters, OwnerInv, Types, ListUntouched, InList
<1>4. CASE EndCooldown(t)
  BY <1>4 DEF EndCooldown, OwnerInv, Types, ListUntouched, InList
<1>5. CASE Claim(t)
  <2>1. /\ UNCHANGED <<LIST_HEAD, next, created, at, due>>
        /\ \E x, y : /\ cur' = [cur EXCEPT ![t] = x]
                     /\ pc' = [pc EXCEPT ![t] = y] /\ y # "push"
        /\ pc[t] # "push"
    BY <1>5 DEF Claim, GetAt, Claimed, OwnerInv, Types
  <2> QED BY <2>1 DEF OwnerInv, Types, ListUntouched, InList
<1>6. CASE EndCall(t)
  BY <1>6 DEF EndCall, AfterCall, OwnerInv, Types, ListUntouched, InList
<1>7. CASE ReserveWriter(t)
  BY <1>7 DEF ReserveWriter, OwnerInv, Types, ListUntouched, InList
<1>8. CASE Replacement(t)
  BY <1>8 DEF Replacement, GetAt, OwnerInv, Types, ListUntouched, InList
<1>9. CASE Discard(t)
  BY <1>9 DEF Discard, OwnerInv, Types, ListUntouched, InList
<1>10. CASE CooldownReserve(t)
  BY <1>10 DEF CooldownReserve, OwnerInv, Types, ListUntouched, InList
<1>11. CASE CooldownSwap(t)
  BY <1>11 DEF CooldownSwap, OwnerInv, Types, ListUntouched, InList
<1>12. CASE CooldownRelease(t)
  BY <1>12 DEF CooldownRelease, OwnerInv, Types, ListUntouched, InList
<1>13. CASE ThreadExit(t)
  BY <1>13 DEF ThreadExit, OwnerInv, Types, ListUntouched, InList
<1>14. CASE ThreadStart(t)
  BY <1>14 DEF ThreadStart, OwnerInv, Types, ListUntouched, InList
<1>15. CASE Allocate(t)
  <2>1. /\ UNCHANGED <<LIST_HEAD, at, due>>
        /\ created \in Nat /\ created' = created + 1
        /\ pc[t] # "push"
        /\ pc'[t] = "push" /\ cur'[t] = created + 1
        /\ \A u \in Threads \ {t} : pc'[u] = pc[u] /\ cur'[u] = cur[u]
    BY <1>15 DEF Allocate, OwnerInv, Types
  <2>2. InList' = InList
    BY <2>1 DEF InList
  <2>3. \A n \in InList : next'[n] = next[n] /\ n \in Nodes
    BY <1>15 DEF InList, Allocate, OwnerInv, Types
  <2> QED BY <2>1, <2>2, <2>3 DEF ListUntouched
<1> QED
  BY <1>1, <1>2, <1>3, <1>4, <1>5, <1>6, <1>7, <1>8, <1>9, <1>10, <1>11, <1>12,
     <1>13, <1>14, <1>15
  DEF Step, GetStep, CallStep, CooldownStep

(* A node that is pushed becomes the head, from which the former list can be
   reached as before; a failed push changes a node outside the list. *)
LEMMA PushKeepsList ==
  ASSUME OwnerInv, ListInv, NEW t \in Threads, Push(t)
  PROVE  ListInv'
<1> DEFINE m == cur[t]
<1>1. PICK R \in [Nodes -> SUBSET Nodes] : Linked(R) /\ FromHead(R) /\ Ahead(R)
  BY DEF ListInv
<1>2. m \in Nodes /\ m \notin InList /\ InList \subseteq Nodes
  BY DEF Push, OwnerInv, Types, Cursors, InList
<1>3. CASE LIST_HEAD # next[m]
  <2>1. /\ UNCHANGED <<LIST_HEAD, at, due, created, pc, cur>>
        /\ next' = [next EXCEPT ![m] = LIST_HEAD]
    BY <1>3 DEF Push
  <2>2. InList' = InList
    BY <2>1 DEF InList
  <2>3. \A n \in InList : next'[n] = next[n]
    BY <1>2, <2>1 DEF OwnerInv, Types
  <2> QED BY <2>1, <2>2, <2>3, ListUntouchedStep DEF ListUntouched
<1>4. CASE LIST_HEAD = next[m]
  <2>1. /\ UNCHANGED <<next, at, due, created>>
        /\ LIST_HEAD' = m
        /\ pc[t] = "push" /\ pc'[t] # "push"
        /\ \A u \in Threads \ {t} : pc'[u] = pc[u] /\ cur'[u] = cur[u]
    BY <1>4 DEF Push, Claimed, OwnerInv, Types
  <2>2. /\ m \in 1..created
        /\ \A u \in Threads \ {t} : ~(pc[u] = "push" /\ cur[u] = m)
    BY <1>2, <2>1 DEF OwnerInv, Types, FreshNodes, ExclusiveOwner, Has
  <2>3. InList' = InList \cup {m}
    BY <2>1, <2>2 DEF InList
  <2>4. PICK S \in [Nodes -> SUBSET Nodes] :
          S = [R EXCEPT ![m] = {m} \cup InList]
    BY <1>1, <1>2
  <2>5. S[m] = {m} \cup InList /\ \A n \in InList : S[n] = R[n]
    BY <1>1, <1>2, <2>4
  <2>6. /\ next'[m] = LIST_HEAD /\ m # Nil
        /\ LIST_HEAD \in InList \cup {Nil}
        /\ InList = IF LIST_HEAD = Nil THEN {} ELSE R[LIST_HEAD]
    BY <1>1, <1>2, <1>4, <2>1 DEF FromHead
  <2> HIDE DEF m
  <2>7. Linked(S)'
    <3>1. \A n \in InList :
            /\ next'[n] \in InList \cup {Nil}
            /\ S[n] = {n} \cup (IF next'[n] = Nil THEN {} ELSE S[next'[n]])
      BY <1>1, <2>1, <2>5 DEF Linked
    <3>2. /\ next'[m] \in InList \cup {Nil}
          /\ S[m] = {m} \cup (IF next'[m] = Nil THEN {} ELSE S[next'[m]])
      BY <2>5, <2>6
    <3> QED BY <2>3, <3>1, <3>2 DEF Linked
  <2>8. FromHead(S)'
    BY <2>1, <2>3, <2>5, <2>6 DEF FromHead
  <2>9. Ahead(S)'
    BY <1>1, <2>1, <2>3, <2>5 DEF Ahead
  <2> QED BY <2>7, <2>8, <2>9 DEF ListInv
<1> QED BY <1>3, <1>4

(* pay_all begins at the head, with the whole list before it. *)
LEMMA PayAllKeepsList ==
  ASSUME OwnerInv, CountTypes, ListInv, NEW t \in Threads, PayAll(t)
  PROVE  ListInv'
<1>1. PICK R \in [Nodes -> SUBSET Nodes] : Linked(R) /\ FromHead(R) /\ Ahead(R)
  BY DEF ListInv
<1>2. UNCHANGED <<LIST_HEAD, next>> /\ InList' = InList
  BY DEF PayAll, OwnerInv, Types, InList
<1>3. Linked(R)' /\ FromHead(R)'
  BY <1>1, <1>2 DEF Linked, FromHead
<1>4. due' = [due EXCEPT ![t] = InList] /\ at' = [at EXCEPT ![t] = LIST_HEAD]
  BY DEF PayAll, InList
<1>5. Ahead(R)'
  BY <1>1, <1>2, <1>4 DEF Ahead, FromHead, OwnerInv, Types, CountTypes
<1> QED BY <1>3, <1>5 DEF ListInv

(* Beyond a node lies what was reached from it, but for the node itself. *)
LEMMA LeaveKeepsList ==
  ASSUME OwnerInv, CountTypes, ListInv, NEW t \in Threads, Leave(t)
  PROVE  ListInv'
<1>1. PICK R \in [Nodes -> SUBSET Nodes] : Linked(R) /\ FromHead(R) /\ Ahead(R)
  BY DEF ListInv
<1>2. UNCHANGED <<LIST_HEAD, next>> /\ InList' = InList
  BY DEF Leave, AfterCall, OwnerInv, Types, InList
<1>3. Linked(R)' /\ FromHead(R)'
  BY <1>1, <1>2 DEF Linked, FromHead
<1>4. /\ due' = [due EXCEPT ![t] = @ \ {at[t]}]
      /\ at' = [at EXCEPT ![t] = next[at[t]]]
      /\ at[t] \in Nodes
  BY DEF Leave, OwnerInv, Cursors
<1>5. /\ next[at[t]] \in InList \cup {Nil}
      /\ due[t] \ {at[t]} \subseteq
           IF next[at[t]] = Nil THEN {} ELSE R[next[at[t]]]
  BY <1>1, <1>4 DEF Ahead, Linked
<1>6. Ahead(R)'
  BY <1>1, <1>2, <1>4, <1>5 DEF Ahead, OwnerInv, Types, CountTypes
<1> QED BY <1>3, <1>6 DEF ListInv

(* The panic ends the traversal. *)
LEMMA UnwindKeepsList ==
  ASSUME OwnerInv, CountTypes, ListInv, NEW t \in Threads, Unwind(t)
  PROVE  ListInv'
<1>1. PICK R \in [Nodes -> SUBSET Nodes] : Linked(R) /\ FromHead(R) /\ Ahead(R)
  BY DEF ListInv
<1>2. UNCHANGED <<LIST_HEAD, next>> /\ InList' = InList
  BY DEF Unwind, OwnerInv, Types, InList
<1>3. Linked(R)' /\ FromHead(R)'
  BY <1>1, <1>2 DEF Linked, FromHead
<1>4. due' = [due EXCEPT ![t] = {}] /\ at' = [at EXCEPT ![t] = Nil]
  BY DEF Unwind
<1>5. Ahead(R)'
  BY <1>1, <1>2, <1>4 DEF Ahead, OwnerInv, Types, CountTypes
<1> QED BY <1>3, <1>5 DEF ListInv

(* The inductive invariant of the list. *)
THEOREM ListInvariance == Spec => []ListInv
<1>1. Init => ListInv
  <2> SUFFICES ASSUME Init PROVE ListInv
    OBVIOUS
  <2> DEFINE R == [n \in Nodes |-> {}]
  <2>1. InList = {}
    BY DEF Init, InList
  <2>2. Linked(R) /\ FromHead(R) /\ Ahead(R)
    BY <2>1 DEF Init, Linked, FromHead, Ahead
  <2> QED BY <2>2 DEF ListInv
<1>2. OwnerInv /\ CountInv /\ ListInv /\ [Next]_vars => ListInv'
  <2> SUFFICES ASSUME OwnerInv, CountInv, ListInv, [Next]_vars PROVE ListInv'
    OBVIOUS
  <2>1. CASE UNCHANGED vars
    <3>1. ListUntouched
      BY <2>1 DEF vars, ListUntouched, InList
    <3> QED BY <3>1, ListUntouchedStep
  <2>2. CASE \E t \in Threads : Step(t)
    <3>1. PICK t \in Threads : Step(t)
      BY <2>2
    <3>2. CountTypes
      BY DEF CountInv
    <3> QED
      BY <3>1, <3>2, PushKeepsList, PayAllKeepsList, LeaveKeepsList,
         UnwindKeepsList, OthersLeaveList, ListUntouchedStep
  <2> QED BY <2>1, <2>2, StepOfSomeone
<1> QED BY <1>1, <1>2, OwnerInvariance, CountInvariance, PTL DEF Spec

(* A pay_all that has come to the end of the list has visited every node that
   was in the list when it began, although others push nodes meanwhile and
   nodes change hands (Node::traverse and Debt::pay_all). *)
THEOREM EveryNodeVisited == Spec => []NoNodeMissed
<1>1. ListInv => NoNodeMissed
  BY DEF ListInv, Ahead, NoNodeMissed
<1> QED BY <1>1, ListInvariance, PTL
=============================================================================
