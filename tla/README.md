# A verification of arc-swap

arc-swap is a library of atomic storages for reference counted pointers
(`ArcSwapAny<T, S>`: an `AtomicPtr` that owns one reference). A reader must
not be able to see the pointer, lose the processor, and increment the count of
an object that a writer has freed meanwhile. The default strategy solves this
with *debts*: a reader writes the pointer it uses into a slot that belongs to
its thread, and a writer that has removed a pointer from a storage visits every
slot and pays the debts on it by incrementing the count in the readers' place.
Nothing blocks. The correctness of the library is the correctness of this
lock-free protocol under every interleaving, and that is what is modelled here.

Paths are relative to the repository, with its crate under `src/`.

## Inventory

| part | state | operations | interacts with |
|---|---|---|---|
| helping slots, `src/src/debt/helping.rs` | per node: `control` word (IDLE, generation, or hand-over), `slot`, `active_addr`, `space_offer`, `handover`; per thread: `generation` | `get_debt`, `confirm` by the owner; `help` by writers; `init` | `help` loads a replacement with a whole load of the strategy, which may use the helper's own slots |
| fast slots, `src/src/debt/fast.rs` | 8 debt slots per node; per thread a rotating `offset` | `get_debt` | emptied by guards on any thread and by `pay_all` |
| debts, `src/src/debt/mod.rs` | the content of all the slots | `Debt::pay`, `Debt::pay_all` | reference counts, node list, `help` |
| node list, `src/src/debt/list.rs` | `LIST_HEAD`, `Node::{next, in_use, active_writers}`, thread-local `LocalNode` | `get`, `traverse`, `start_cooldown`, `check_cooldown`, `reserve_writer`, `LocalNode::with`, thread exit | all loads and writes run inside `LocalNode::with` |
| hybrid strategy, `src/src/strategy/hybrid.rs` | `HybridProtection` (pointer and optional debt) | `attempt`, `fallback`, `drop`, `into_inner`; `load`, `wait_for_readers`, `compare_and_swap` | everything above |
| `ArcSwapAny`, `Guard`, `src/src/lib.rs` | the `AtomicPtr` | `new`, `load`, `load_full`, `swap`, `store`, `compare_and_swap`, `rcu`, `into_inner`, `drop` | the strategy |
| `Cache`, `MapCache`, `src/src/cache.rs` | a cached value | `new`, `clone`, `map`, `load` with `revalidate` | `ArcSwapAny` |
| `RwLock` strategy, `src/src/strategy/rw_lock.rs` | a lock beside the storage, and whether it is poisoned | the strategy traits | `ArcSwapAny`, destructors |
| strategy traits, `src/src/strategy/mod.rs` | none | `load`, `compare_and_swap`, `wait_for_readers` | between `ArcSwapAny` and its strategy |
| `RefCnt`, `AsRaw`, weak pointers, `src/src/ref_cnt.rs`, `src/src/weak.rs`, `src/src/as_raw.rs` | the strong and the weak counts | `inc`, `dec`, `into_ptr`, `from_ptr`, `as_ptr`, `as_raw` | everything |
| access traits, `src/src/access.rs` | the guards inside of a guard | a load through the wrappers | `ArcSwapAny` |
| serde, docs, tests, benchmarks | none | | |

What is hard, and what makes each part correct:

- **Helping.** A reader and any number of writers meet on one control word. The
  writer reads the control word, the address, the reader's envelope, and loads a
  value, and only then exchanges the control word: everything it read may be
  stale. The two envelopes are exchanged by three separate writes of two
  threads. Correct means: a helped reader gets a value of the storage it loads
  from and of this load, every node keeps exactly one envelope, and both sides
  finish whatever the other does.
- **Debts.** A debt is created by one thread and may be removed by the guard's
  owner (another thread) or by several writers at once, each with its own idea
  of whose reference it stands for. Correct means: the counts are exact at every
  instant, nothing in use is freed, and a load returns what its storage held
  during the load.
- **Nodes.** Nodes are recycled. A node whose owner has gone must not be taken
  while a writer is inside `help` on it. Correct means: one owner at a time, no
  node in the list is skipped by a writer, exact reservations, and a cooldown
  that lasts until the writers are gone.
- **Ownership.** Every operation moves references between the storage, guards,
  caches and the caller, with two ways out of `compare_and_swap` and a panic as
  a third; addresses are compared where objects are meant. Correct means: the
  counts are exact, a pointer leads to the object it was made for, and a
  comparison of addresses decides what a comparison of objects would.
- **Numbers.** The generation wraps, in steps of 4, after 2^30 loads on 32 bits.

The hazards are listed one by one in `PROJECT.json`, each at its line, with the
properties that watch it.

## Modules

| module | models | lines to read beside it |
|---|---|---|
| `HelpingSlots` | the hand-over protocol alone | `helping.rs` |
| `HelpingSlotsProofs` | its safety, for all parameters | |
| `HybridStrategy` | loads, writes, guards and counts on top of the slots | `hybrid.rs`, `debt/mod.rs`, `fast.rs`, `helping.rs`, `lib.rs` |
| `HybridControl`, `HybridStrategyProofs` | its memory safety, for all parameters | |
| `HybridLinearizable` | the linearizability of its loads and its implementation of `HelpingSlots`, for all parameters | |
| `NodeList` | ownership of nodes, cooldown, the traversal | `list.rs` |
| `NodeListProofs` | its safety, for all parameters | |
| `Strategy` | what `ArcSwapAny` relies on, whatever the strategy | `strategy/mod.rs`, `lib.rs` |
| `RwLockStrategy` | the `RwLock` strategy, and the clients `rcu` and `Cache` | `rw_lock.rs`, `cache.rs`, `lib.rs` |
| `RwLockStrategyProofs` | its safety and its implementation of `Strategy`, for all parameters | |
| `RefCnt` | the pointer types: conversions and counts (operators only) | `ref_cnt.rs`, `weak.rs` |
| `ArcSwapAny` | the public interface over `RefCnt`: storage, guards, accesses, caches | `lib.rs`, `access.rs`, `cache.rs`, `as_raw.rs` |
| `ArcSwapAnyProofs` | its safety, for all parameters | |
| `CardinalityLemmas` | two facts on the size of finite sets that the counting arguments share | |
| `MC...` | the instances for TLC | |

A step of every module is one access to memory that another thread may touch,
with the thread-local computation around it. Where two accesses are one step
the comment says why nobody can come between them to any effect.

**Memory model.** The modules are sequentially consistent, except for the
relaxed read of `Cache::revalidate` in `RwLockStrategy`. The accesses that
the argument in the source rests on are `SeqCst`, and the rest acquire/release
on words for which one location is enough. What a weaker
ordering could do is not covered.

### HelpingSlots

The variables have the names of the fields. A control word is a pair of a tag
and a payload, which stands for the two low bits and the rest. `reader[n]` says
where the owner of node n is in `get_debt` and `confirm`, `helper[n]` where it
is in `help`, with `who`, `target`, `observed`, `replacement` and `their_space`
the locals. `GetDebtAddr`, `GetDebtControl` are `get_debt`; `Confirm`,
`TakeHandover` are `confirm`; `HelpStart` to `HelpSwitch` are the loop of
`help`, one step per load, store or compare-exchange. The owner of a node
may itself be loading (a replacement) while it helps. The replacement is any
member of `Loadable[storage]`: which one is the concern of `HybridStrategy`.
`ChangeOwner` lets another thread take over a node that is not in a load: what
is in the node stays, the generations start again at 0. See *When a node
changes hands*.

### HybridStrategy

Each thread has a load frame `rd[t]` and a write frame `wr[t]` (a write makes
loads itself: replacements, and the old value of `compare_and_swap`).

- `Load`, `Scan`, `ConfirmFast`, `GiveBack`: `attempt`, with `fast::get_debt`
  slot by slot.
- `GetDebt`, `GetDebtControl`, `Candidate`, `ConfirmSlot`, `ConfirmControl`,
  `TakeHandover`, `UnusedPay`, `UnusedDec`, `IntoInner...`: `fallback`.
- `Swap`, `EndStorage`, `CompareAndSwap`, `Cas...`: the API's writes, with
  `PrePay`, `Help...`, `PaySlot`, `PayInc`, `ReleaseVal` for `pay_all`.
- `IntoInner`, `Clone`, `Drop`: what callers, on any thread, do with guards and
  Arcs. `held` counts the guards and Arcs of each kind that exist.

Objects are addresses with a count (`cnt`); an address with count 0 is free and
may be allocated again, so reuse of addresses (ABA) is part of every run. `Null`
is the pointer of a `None`. `window[t]` is history: what the storage has held
since the load of t began, without what has been freed since.

`Script` bounds the calls of every thread and says which calls they may be;
each is chosen freely among them, as are the values written and the guards
used. `Pool` says which pointers a storage may hold. `Recycle` lets a generation
stand for a new one once no copy of the old one is left, because generations are
only compared with copies of the control word. Node t belongs to thread t, or to
the thread that has come after it (`ThreadRestart`): the guards of the old one
live on, their debts stay in the slots, and the new one counts from zero.

The module **implements HelpingSlots** under the mapping at its end
(`ImplementsHelpingSlots`).

### When a node changes hands

`NodeList` has the ownership of nodes, `HelpingSlots` and `HybridStrategy` have
what is in them. They meet in one condition. `ChangeOwner` and `ThreadRestart`
are guarded by it: no writer that is on the node when its owner leaves is still
there when the next one comes. That is the purpose of the cooldown. With it,
everything checked and proved of the hand-over holds across changes of owner;
without it (the mutants `ChangeOwnerAtOnce`, `ThreadRestartAtOnce`) a helper
takes a generation of the new owner for the one it has seen of the old, and hands
over a value of another storage. Whether the code keeps the condition is a
question to `NodeList`: it does (`CooldownDrainsUnlessStale`) but for the one
schedule of `node_cooldown`. So the consequence of that finding would be
a wrong hand-over, if in addition the new owner's generation is the observed one.
No single run goes through both modules; the guard is an assumption there and a
checked property here.

### NodeList

Nodes are numbered in the order of their allocation. `node[t]` is the node of
the thread's `LocalNode`; `inner[t]` is the node of a second `LocalNode`, which
exists when `with` is called without thread local storage from inside another
`with` (the load of a replacement by `help`). `With`, `CheckCooldown`,
`CheckWriters`, `EndCooldown`, `Claim`, `Allocate`, `Push` are `with` and `get`;
`PayAll`, `ReserveWriter`, `Replacement`, `Leave` the traversal of a writer;
`Discard` is the `new_helping` whose generation wraps; `CooldownReserve`,
`CooldownSwap`, `CooldownRelease` are `start_cooldown`, from `Discard`, from the
end of a thread or from the end of a temporary `LocalNode`; `Unwind` is what a
panic does to a traversal. `present`, `stale` and `due` are history.

### RwLockStrategy

The call of a thread is in `pc`, `op` and the locals `cur`, `new`, `old`.
`ReadLock` to `ReadUnlock` are `load`, `Swap` and `WaitForReaders` are `swap`,
`CasLock` to `CasUnlock` `compare_and_swap`; `RcuClosure` and `RcuCompare` are
the loop of `rcu` around it, `Revalidate` and `CacheFill` are
`Cache::revalidate`. The lock is not what makes the pointer atomic (`swap`
exchanges it before it takes the lock) but what separates the exchange from the
drop. Objects carry a number, to which the closure of `rcu` adds one. A
freed address may be given out again; new addresses are given out in order,
since they cannot be told apart. `order` is the modification order of the
pointer, and the relaxed read of `revalidate` may return any element of it that
is not older than `seen`, what the thread has read or written before.

A destructor may panic where the code runs one under the lock: the value that
`compare_and_swap` did not store. `CasUnwind`, `CasUnlock` and `DropCur` are the
way of the panic out of `compare_and_swap` and `rcu`; the lock is `poisoned` from
then on. A later `load` panics in its `expect`; a later `swap` does too, but
after the exchange, and the old value is never released (`leaked` counts these
references);
`compare_and_swap` has no `expect` and goes on as before.

### Strategy

The contract between `ArcSwapAny` and a strategy that protects its readers by
waiting for them: between reading the pointer and protecting it, a load relies on
the reference of the storage; so whoever takes a pointer out may not use that
reference until no load is left that has read it. `RwLockStrategy` implements it
(`ImplementsStrategy`), with the lock as the means: in a load the window is closed
by the read lock, in a failed `compare_and_swap` by the write lock; a writer waits
in `wait_for_readers`, or has the lock already. `HybridStrategy` does not: its
writers do not wait for a reader that has read a pointer and not put its
debt down, and the reader checks again. There the promise to the caller is
`NoUseAfterFree` and `LoadLinearizable`.

### RefCnt and ArcSwapAny

`RefCnt` has no variables. A smart pointer is a type (`Arc`, which stands for `Rc`
and the pinned ones, `Option`, `Weak`) and an address, or what stands for none;
`as_ptr` and `from_ptr` are the conversions to and from the stored word, with
`None` and an unattached `Weak` as null; `inc` and `dec` work on a heap with the
strong and the weak count of every address.

`ArcSwapAny` is the interface in the eyes of a program: each operation is one step,
which is what the modules of the strategies are about, and the state is
who has what. `held` are the smart pointers, guards and raw pointers of the
program; a guard keeps the list of wrappers it came through (`DirectDeref`,
`MapGuard`, `DynGuard`). What their `Deref` gives is borrowed from the guard, which
the compiler checks (`access.rs` has no unsafe code), and depends on the
object alone: it is left out. `cache` are the caches. The allocator uses an address
again as soon as both counts are 0. Every holder remembers, as a history, the
number of the object it was made for; a new object gets the least number that
nobody remembers (`IsNew`), and there are enough of them. `last` says what the last comparison of
addresses decided and what a comparison of objects would have.

## Runs

Passing:

- **helping** (`HelpingSlots.cfg`): two nodes, each of which may be the reader
  and the helper of the other, two storages, two loads each. A storage holds
  only its own name, so a value from the wrong storage shows. Two loads are
  needed for a helper of the first to come late into the second; more
  generations repeat this. Checks the control word, the exclusive
  envelopes, the right hand-over, and that the owner of n1 finishes both its
  loads and its helping although n2 may stop anywhere.
- **hybrid_guards**: one thread loads, `compare_and_swap`s, and converts, clones
  and drops guards, the other swaps and stores and drops guards too; one fast
  slot, so that the second guard goes through the fallback. Three objects: the
  stored one, a new one, and a third that meets the first reallocated. The first
  thread may also end between its loads, with its guards in other hands.
- **hybrid_helping**: a reader without fast slots, and two writers of the same
  storage that help it and, loading replacements, each other.
- **hybrid_storages**: two storages, one of which may hold None, that are loaded
  from, stored to, dropped and unwrapped; the reader's node changes hands between
  its two loads, so that a helper of the first may meet the second with the same
  generation. Also checks the implementation of `HelpingSlots`.
- **hybrid_progress**: thread 2 loads and stores, thread 1 loads and may stop
  anywhere for good, its generation in the control word or its debt in a slot. Two
  fast slots each, and three calls: the third load goes through the fallback.
- **node_list**: two threads, three nodes: one claims while the other leaves, and
  each is a writer at times. Threads end, start again, panic and use the list
  after their thread local storage has gone. A thread that needs a node gets one,
  or is the one to allocate it, although the other may stop anywhere. (Three
  threads on two nodes are in `node_cooldown`.)
- **rw_lock**: one thread creates a cache, writes or loads through it again, and
  loads or drops it; the other stores, runs `rcu` and loads. Six addresses are as
  many as two threads, one of them with a cache, can have in use at once, so
  that nobody waits for memory. Two publications of the other thread
  are what it takes to bring an address back into the storage. Any destructor
  under the lock may panic.
- **arc_swap_any**: two addresses, two places for pointers and guards, two caches;
  the storage itself, a projection of it (of an `ArcSwapOption` or of a `Weak` too)
  and a projection of a boxed access to the object of an `Arc` behind a reference. Two addresses are enough for one object to die and another to
  take its address while a third party remembers the first; calls are not bounded,
  the state space is finite because numbers of objects are used again once nobody
  remembers them.

Every property of these runs has a mutant of the code, defined next to the
action it changes and listed in `PROJECT.json`, that TLC finds out by it.

Four runs show a statement of the repository that the code does not keep; they
are expected to end in a counterexample:

- **hybrid_reuse**, `LoadLinearizable`. Two storages whose objects come from one
  allocator. A load of A reads p; A is changed and p freed; p is allocated again
  and stored in B; the load writes its debt on p; a writer of B removes p and
  pays that debt. The load finds A changed and its debt paid, and returns p,
  which A has not held since the load began. `hybrid.rs` takes a paid debt as a
  proof that the pointer was still good for *this* storage.
- **hybrid_wrap**, `NodeStaysSet`. When the generation wraps, `new_helping`
  clears the `LocalNode`, and the `expect` in `confirm_helping` of the same load
  panics. The model wraps after two loads; the code after 2^30 or 2^62.
- **hybrid_mutual_help**, `WriteFinishes`. Two writers of one storage with their
  fast slots occupied each find the other's generation, load a replacement
  through the fallback, and by it invalidate the other's compare-exchange; in
  lock-step this goes on for ever, under weak fairness of both. "Writers are
  lock-free" (`strategy/mod.rs`) does not cover this schedule.
- **node_cooldown**, `CooldownDrains`. A thread in `check_cooldown` has seen the
  cooldown and no writers, and is delayed. The node is freed, claimed, visited
  by a writer and put into cooldown again; the delayed compare-exchange ends that
  second cooldown under the writer. `CooldownDrainsUnlessStale`, checked by
  `node_list`, says that this is the only way it can happen.

### Bounds

`MaxGenerations`, `GenLimit`: loads of a node through its helping slot (in
`hybrid_guards` and `hybrid_progress` generations are recycled, in the others
the limit is out of reach but in `hybrid_wrap`, where it is the subject).
`Script`: calls of each thread. `DEBT_SLOT_CNT` is 1, in `hybrid_progress` 2,
instead of 8: slots are independent words, and the order in which a thread tries
them matters only for speed. The theorems hold for any number of slots. `MaxNodes`: nodes allocated; a thread that would need another one waits
(`AtBound`). Symmetry is used only in runs without liveness, over threads that
no constant tells apart, or over the objects other than the initial one.
Deadlock is checked everywhere: the only states without a successor are named
(`Elsewhere`, `AllDone`, `AtBound`, `Quiet`). In `arc_swap_any` places, caches and
addresses are symmetric.

### Fairness

`FairSpec` gives weak fairness to the steps of the threads in `FairThreads`
(`FairNodes`) inside a call, and nothing else: no call has to be made, no guard
dropped, and the other threads may stop at any step.
(In `rw_lock` every thread is fair: with a lock nobody can do without the
others.) That is what an operating
system gives a thread that is not starved; the code has no lock that would need
more. The progress properties are therefore statements of independence from the
other threads. In the bounded instances a retry caused by somebody else's
progress can happen only a bounded number of times, which separates
lock-freedom from livelock: the mutual help of two writers is found because
neither of them has to complete anything for the other to retry.

## Proofs

The modules with theorems are checked by TLAPS. Every property of safety of
`HelpingSlots`, `HybridStrategy`, `NodeList`, `RwLockStrategy` and `ArcSwapAny` that
a run checks is also a theorem.

**HelpingSlots**, for any sets of nodes, storages and values, and any number of
generations; assumed are the typing of `Loadable`, that 0 is not the address of
a storage, and that the bound is a number. `TypeCorrect`,
`ControlDiscipline`, `EnvelopesNeverShared` and `HandoversMatch` follow from one
inductive invariant, `IInv`. The three properties are not inductive: that the
compare-exchange of `help` hands over the right value in an envelope of its own
depends on what the helper read several steps before. The strengthening says
that the compare-exchange is a valid optimistic check: `ObservedPast` (the
generation seen is one the reader has chosen, and a reader that is about to
publish has chosen a later one), `AddrCurrent` and `SpaceCurrent` (as long as
the control word is still the one observed, the address and the envelope read
since are current), `EnvelopeFilled`, and `HelperNotReading`. One lemma per
action. Generations do not wrap in this module: a wrap takes the node away
from its owner, and is seen in `NodeList` and in `hybrid_wrap`. `ChangeOwner` is
part of the specification that is proved: `IInv` survives it since
`ObservedPast` speaks only of helpers that are on a node, and there are none.

**HybridStrategy**, for any number of threads, fast slots and generations, any
finite set of storages, any objects, any calls, with `Recycle` or without.
Assumed are the typing of the constants and that `NONE` and `Dropped` are not
pointers (the code's `NONE` is 0b11, which no aligned address is). Four layers,
each an invariant of its own with one lemma per action:

- `Control` (in `HybridControl`) is inductive alone. Where a thread is in its load
  and its write says which debts it has and whose slots they are in, that the
  storage it works on is still there, and what its control word may be. What a
  helping slot holds is the debt of its own node's load; that is `HelpingSlotFree`.
- `Protocol`, on top of it: the hand-over of `HelpingSlots` again, but with real
  loads in the place of its abstract values, with a helper that loads through its
  own node while it helps, and with a generation that wraps (`ObservedPast` then
  says that the load is the one that ends in a panic) or is used again.
  `EnvelopeExclusive` is what the counting needs: a hand-over that is
  waiting is not overwritten.
- `Ledger`: `Accounting` part by part. A step moves one thread; what it
  takes from the count, the debts, a storage, a caller or an envelope is what it
  has more after it (`Even`), and the sums over all threads follow
  from one lemma on cardinalities.
- `Memory`, independent of `Ledger`. The balance does not keep anything alive: a
  debt is on the side of the count, and an object with a debt and no count would be
  in balance with a guard on it. So `DebtsOwed` says that each debt has a
  debtor, who has a guard on that pointer, and `DebtsCovered` that a debt
  which its load has confirmed is on a pointer that is in a storage, or that a
  writer has taken out and whose walk has not passed the slot yet (`WillPay`). A
  debt that is not confirmed may be on freed memory, as in the code: the load
  gives it back, or finds it paid. The step that makes the argument is the second
  read of the fast path, and for the fallback the exchange of the control word:
  `CandidateCovered` says that the candidate of a load nobody has helped is still
  stored, or that the writer that took it out has yet to come to this node, or is
  about to help with this very control word.

`TypeOK` (no count is negative) and `NoUseAfterFree` come out of the last two by
counting: debts on an object have different debtors, so there are not
more of them than guards; and if one is confirmed, the storage or the
writer that covers it has a reference without a debt, so the count is
positive. A pointer in use without a debt is a reference without a debt itself.
Neither `Protocol` nor `Memory` restricts the allocator: an address that is used
again, even for another storage while an unconfirmed debt is on it, is
covered by the theorems. That case is why `LoadLinearizable` fails in
`hybrid_reuse`, and the theorems show that it costs a wrong value and never
memory safety.

`LoadLinearizable` (in `HybridLinearizable`) needs one hypothesis more, `Apart`: no
object may be in two storages. Without it `hybrid_reuse` is the counterexample, so
the theorem and the finding together say how far the property goes. Addresses that
come back into the same storage are not excluded. `Witnessed` says, for each place
from which a load can still get its result, that the pointer there is in the
`window` of the load:

- what is stored in the load's storage (`StoredSeen`);
- a pointer that is confirmed, the candidate of a load nobody has helped, and a
  replacement that waits in an envelope or has been taken from it (`ConfirmedSeen`);
- a replacement that a helper is still loading or carrying, if the control word is
  the one it has seen: the helper's load began after the reader's, so what it
  sees the reader has seen (`HelpSeen`);
- the first read of the fast path (`FirstSeen`). Nothing protects it, and its
  object may have been freed. Then the object is `Gone`: no storage has it, no
  writer has taken it out, no confirmed debt is on it. So nobody pays the debt that
  the load puts on it, until it is stored again; by `Apart` and `Origin` that can
  only be in the load's own storage, and then it is in the window again.

`Freed` gets from `Ledger` and `Memory` that an object without references is `Gone`
and in none of the other places; that is why a free, which takes the object out of
all windows, hurts nobody. `Harmless` collects what a step must respect, and every
action has a lemma that it does.

`HybridImplementsHelpingSlots` (in the same module, with the same invariant) is the
refinement step by step: most steps are none of `HelpingSlots`; the others are
matched one by one, `GetDebt` with `GetDebtAddr`, `Help` with `HelpStart`,
`ThreadRestart` with `ChangeOwner`, and so on. Three hypotheses. `~Recycle`: the
generations are the code's, `HelpingSlots` counts them. `Unwrapped`: none of them
wraps; the bound of `HelpingSlots` stops before, and what a wrap does is the
subject of `hybrid_wrap`. `Apart`: `HelpingSlots` hands over only what the storage
of the reader may hold (`Loadable`). That the helper's load has returned such a
value is not a fact about the step but about the whole load: it is in the load's
window (`Witnessed`), and a window has only what the storage may hold (`SeenOf`, a
part of `Origin`). In `hybrid_reuse` it is not so.

**NodeList**, for any finite set of threads and any number of nodes, in three
layers, each of which uses those below:

- `OwnerInv`, for `NodesNeverShared`: it adds the cursors of the traversals, that
  an unallocated node is nobody's, and that `start_cooldown` works on the node the
  thread is going to give up. It holds in spite of `node_cooldown`: a cooldown
  that ends early frees a node nobody owns.
- `CountInv`, for `ReservationsExact`, `TypeCorrect` and `CooldownEndsDrained`.
  A step moves one thread and changes each `active_writers` by what that thread
  has more or less (`Tallied`); the sum over all threads follows from one lemma
  on cardinalities. `PresentReserved` says that the writers a cooldown waits for
  still have their reservations, so that a count of 0 means that they are gone;
  `NotStale` that this conclusion stays true until the compare-exchange, unless
  the cooldown that was seen has ended. That exception is the finding of
  `node_cooldown`, and the theorem shows that there is no other.
- `ListInv`, for `EveryNodeVisited`: every node in the list can be reached from
  `LIST_HEAD`, and what a traversal has still to visit can be reached from its
  cursor, since nodes are only ever put before the head. Which nodes can be
  reached is a function that exists (`Linked`), not a recursive definition.

**RwLockStrategy**, for any finite set of threads, any number of addresses and
any calls; from the bottom up:

- `Control`: where a thread is says which of its pointers are
  set and what it has of the lock; the lock excludes. One lemma per step.
- `Memory`: `CountsExact` and `SafeToCount`. Neither of the two is inductive
  without the other, nor without `Protected`: a pointer about to be counted is
  still in the storage, or in the hands of a writer that waits for the lock which
  the counting thread has; and `Fresh`: nobody knows a value that is not yet stored.
- The history on top of it: what has a reference is not allocated again,
  so the address that `rcu` finds unchanged is the object its closure was given
  (`RcuCounts`), and the cached address is at its latest place in the
  modification order (`CacheIsCurrent`).
- `RwLockIsStrategy`: the initial states and every step map to `Strategy`. The
  steps that matter are the ones that end the wait of a writer; by `Control` no
  load is between its read and its increment then.

**ArcSwapAny**, for any finite sets of addresses, places and caches and any
accesses; assumed is that what stands for no object is not an address. `RoundTrip`
is about the conversions alone: `from_ptr` undoes `as_ptr` for every pointer type.
`Memory` keeps books: both counts of each address are the numbers of those who
refer to it (`Balanced`), each of whom leads to the object he was made for
(`AllSound`), and different addresses have different objects. `CountsExact`,
`TypeCorrect`, `GuardsKeepObjects` and `StoredIsLoaded` are parts of it. That whoever
is in the books has a positive count is why his address is not given out
again, and so the addresses of two holders are equal if and only if their
objects are (`SameObject`): `CasIsExact` and `CacheIsExact`. A raw pointer is in no
books, and of it the theorem says nothing, as the property.

The inductive invariants were checked by TLC on the instances of the runs before
they were proved.

Only model-checked:

- Progress (`ReaderFinishes`, `HelperFinishes`, `LoadFinishes`, `GetFinishes`,
  `CallsFinish`, `WriteFinishes`): the prover has no rules for fairness.

## Not modelled

- Weak memory orderings (see above).
- `NodeList` and the slots in one state space: see *When a node changes hands*.
- In `RwLockStrategy`, a store of an `Arc` that the caller has already: `NoLostUpdate`
  and `CacheReturnsSeen` tell values apart by when they were stored. Such stores are
  part of `HybridStrategy` and of `ArcSwapAny`.
- `Option<Option<_>>`, which the documentation of `ArcSwapAny` lists as a known bug.
- serde support, `Debug` and `Display`: a load, or a new, around a formatter. The
  experimental `#[thread_local]` variant of `LocalNode`, which never runs the drop
  of a `LocalNode`. Documentation, tests and benchmarks.
- A destructor that uses the storage it is run by: under the write lock of the
  `RwLock` strategy it waits for itself.
- The increment of a strong count at its limit: `Arc` aborts there.
