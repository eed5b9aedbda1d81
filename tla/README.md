# Verification of moodycamel::ConcurrentQueue

TLA+ models of `src/concurrentqueue.h`, `src/lightweightsemaphore.h` and
`src/blockingconcurrentqueue.h`, the TLC configurations that check them on small
instances, and TLAPS proofs of what matters most for instances of every size.

## The system

A `ConcurrentQueue` is a set of sub-queues, one per producer. An explicit
producer belongs to a `ProducerToken`, an implicit one to a thread. One thread
enqueues into a sub-queue and any number dequeue from it. A sub-queue is a
sequence of blocks of `BLOCK_SIZE` elements; a block index maps an element's
index to its block. Blocks come from an initial pool, a lock-free free list or
the heap. `BlockingConcurrentQueue` adds a semaphore that counts the elements.

| Part of the system | Lines | Module |
| --- | --- | --- |
| index arithmetic | `circular_less_than` 496-503, masks and signed division 2040-2046 | `CircularIndex` |
| counters and claim protocol of a sub-queue | `ProducerBase` 1727-1791, `dequeue` 1983-2032, `dequeue_bulk` 2276-2298 | `ProducerBase`, promise: `SubQueue` |
| explicit producer and its blocks | `Block` 1588-1713, `ExplicitProducer` 1798-2443 | `ExplicitProducer` |
| free list | 1466-1579 | `FreeList` |
| semaphore | `lightweightsemaphore.h` 280-437 | `LightweightSemaphore`, promise: `CountingSemaphore` |
| implicit producer and its blocks | `Block` 1588-1713, `ImplicitProducer` 2450-3061 | `ImplicitProducer` |
| producer list, recycling, `ProducerToken` | 671-738, 914-927, 3250-3316 | `ProducerList` |
| implicit producer hash, thread exit | 583-648, 3323-3377, 3413-3601 | `ImplicitProducerHash`, on `ProducerList` |
| consumers, their tokens and rotation | 745-778, 1153-1345, 1421-1459 | `ConcurrentQueue`, on `ProducerList` |
| blocking queue | `blockingconcurrentqueue.h` 132-553 | `BlockingConcurrentQueue`, on `ConcurrentQueue` and `CountingSemaphore` |
| block pool, constructors' capacity arithmetic | 512-527, 833-875, 3068-3143 | `BlockPool` |
| move and swap of queues, memory statistics, debug locks, C API | | not modelled, see the end |

(Line numbers are of `src/concurrentqueue.h` unless another file is named.)

## How the models read

One action is one access to memory that another thread can see, together with
the private computation around it. Each thread has a program counter (`pc`, or
the field `pc` of its call record) and the code's local variables.

Counters are kept as unbounded integers and wrapped wherever the code compares,
masks or divides them (`CircularIndex`). Wrapping commutes with the additions
the code makes, so nothing is lost, and a position identifies an element.
Configurations start just below the wrap to make it happen.

Interleavings of atomic accesses are sequentially consistent, with one
exception: the relaxed loads of the counters in `ProducerBase`, and of
`headIndex` in the two producers, may return any earlier value. The release
and acquire fences that order the other accesses are taken to work.

Operators marked *Variant* in a comment are small faults put into one
definition. They serve to show that each property would notice such a fault;
the specifications do not use them.

### CircularIndex

Pure operators, parameterised by `HalfRange` = 2^(w-1) and `BLOCK_SIZE`.

### ProducerBase and SubQueue

`dequeue(x)` performs the same accesses as `dequeue_bulk` with `max = 1`, and
explicit and implicit producers run the same protocol, so one module covers
all four. A call reads `tailIndex` and `dequeueOvercommit` (`LoadTail`,
`LoadOvercommit`), compares with `dequeueOptimisticCount` (`CheckAvailable`),
increments it (`IncrementOptimistic`), reads `tailIndex` again (`RecheckTail`),
gives back what is not there (`GiveBack`) and claims the rest (`ClaimHead`).
The producer is `PublishTail`. The history variables `won` and `lost` record
what became of each unit of `dequeueOptimisticCount`, called a ticket.

`SubQueue` is the promise: elements leave in the order they were enqueued, each
to one call, none before it was enqueued.

### ExplicitProducer

State: the ring (`tailBlock`, `blockNext`, `emptyFlags`), the elements living in
the blocks, all block index headers ever allocated (consumers may still use an
old one), the producer's private `slotsUsed` and `indexFront`, the producer's
call `enq` and each consumer's call `deq[c]`.

`enqueue` is `EnqueueInBlock`, `EnqueueReuse` or `EnqueueInject`, then
`WriteEntry`, `StoreFront`, `Construct` and `StoreTail`, with `Construct`
before `WriteEntry` when the constructor may throw, as in the code.
`enqueue_bulk` is `EnqueueBulk`, one `BulkReuse` or `BulkInject` per round of
the two loops, `BulkReset`, and the same last steps; `BulkNoRoom` and
`BulkNoBlock` are its early returns and `ConstructThrows` the exception
handler. Failures that change nothing are not actions.

A consumer starts with `Claim`, which is `SubQueue`'s `Take`: that the counters
implement it is proved in `ProducerBaseProofs`. It then reads the index pointer,
the front, the base and the block in four steps, takes its elements and sets
the flags, block by block. Flags are set and tested a block at a time: the
producer only asks whether all of them are set, and only it clears them. A
block above `EXPLICIT_BLOCK_EMPTY_COUNTER_THRESHOLD` counts the same events.

`requisition_block` returns any block not in the ring, or null where memory can
fail or the caller may not allocate. What `~ExplicitProducer` would destroy is
the operator `DestroyedIn`, evaluated in every quiet state.

### ImplicitProducer

State: the blocks (`blockNext`, the counter `dequeued`, the elements living in
them), `free` for everything the pool and the heap can supply, all index
entries and all index headers ever allocated, and the calls `enq` and `deq[c]`.
A larger index holds the entries of its predecessor and as many new ones, so
`headers[k].index` maps slots to entries and entries are kept apart.

`enqueue` is `enqueue_bulk` of one element but for one thing: a constructor that
may throw runs before the new block enters the index. Either is `Enqueue`; per
block `NewIndexPublished` where the index is full, `InsertKey`, `InsertTail`
(`insert_block_index_entry`), `TakeBlock` and `StoreValue`; then `Construct` and
`StoreTail`. `NoRoom`, `NoBlock`, `ConstructThrows` and `BulkThrows` are the
failures; `UndoBlock`, once per block, and `Undone` take a bulk call back.

A consumer claims as above, loads the index, its tail and the key there in three
steps, finds the block, takes its elements and adds to the block's counter
(`SetEmpty`). If that fills the counter, it clears the entry (`ClearEntry`) and
returns the block (`FreeBlock`). What `~ImplicitProducer` would return to the
pool is `ReturnedByDestructor`, evaluated in every quiet state.

With `FirstIndex > 0` the producer starts as one that has enqueued that many
elements, each dequeued before the next.

### FreeList

Every atomic access of `add`, `try_get` and `add_knowing_refcount_is_zero`.
A thread may add any node that is in use outside the list (`out`).

### LightweightSemaphore and CountingSemaphore

`wait(t)` is `waitMany(1, t)` and `tryWait()` is `tryWaitMany(1)`, access for
access. The operating system's semaphore is a counter; `signal(n)` posts one at
a time. `WaitCanFail` lets the wait without a timeout fail, as the wrappers'
return values allow.

`CountingSemaphore` is the promise: permits that are released can be acquired,
once, and nothing else can.

### ProducerList

Whoever needs a producer makes a request: `RecycleOrCreate` starts the walk of
`recycle_or_create_producer`, `RecycleOne` looks at one producer and takes it if
it is inactive and of the right kind, `CreateProducer` and `PushProducer` make a
new one, `CreateFails` is a failed allocation. A token is its request.
`ConstructToken`, `MoveToken`, `SwapTokens` and `DestroyToken` are its members,
and `DestroyQueue` with `DestroyProducer` the walk of `~ConcurrentQueue`.

The module has no specification of its own. `ImplicitProducerHash` adds the
threads, `ConcurrentQueue` the consumers.

### ImplicitProducerHash

State: all hash tables ever allocated, oldest first (a table's `prev` is the one
before it), the count, the resizing lock, each thread's call, and for
`ThreadExitNotifier` the mutex and each thread's listeners.

`get_or_add_implicit_producer` is `GetOrAdd` (the search through the tables,
newest first), `ReAdd` when the id was found in an older one; otherwise
`CountUp`, `TryResize`, `Resize` or `ResizeFails` or `GiveUp`, `Unlock`,
`Reload`, then `AskForProducer`, `SearchProducer`, `NoProducer` or `Subscribe`,
and `Insert`, with `Uncount` when it took over the slot of a dead thread. A
thread that exits is `Exit`, `Bury` (its slot in every table becomes
`invalid2`), `MarkInactive` and `Gone`; afterwards a thread with the same id may
call again, as ids are reused. `DestroyImplicit` is `~ImplicitProducer`, which
unsubscribes a producer that is still active.

Allocations fail in two places: a table and a producer.

### ConcurrentQueue

Sub-queues are reduced to their counters and the claim protocol, whose full form
is `ProducerBase`. The code's four dequeueing calls are four values of `kind`:
`StartScoring`, `ScoreTail` and `ScoreHead` compute the scores of
`try_dequeue`; `StartWalk` and `WalkTheOthers` go through the list; with a
consumer token `StartToken`, `LoadTail`, `LoadProdCount` and `Rotate` follow
`update_current_producer_after_rotation`, `GoRound` goes round the list and
`RotateEveryone` advances `globalExplicitConsumerOffset` when the quota is
reached. `Check`, `Increment`, `Recheck`, `GiveBack` and `Claim` are the claim,
and `SubReturns` says what each kind of call does with its result.

### BlockingConcurrentQueue

`EnqueueInner` and `Signal` are an enqueueing call: first the element, then the
permits. `Acquire` takes permits and begins an inner call, `Collect` adds up
what inner calls return and begins another until there are as many elements as
permits. `ClaimThrows` is an assignment of the element type that throws: the
element is gone and the call ends. The semaphore is `CountingSemaphore`, which
`LightweightSemaphoreProofs` shows `LightweightSemaphore` to implement.

### BlockPool

Who has each block: the preallocated array (`initialBlockPoolIndex`), the free
list, a producer, or a consumer on its way to return it. `CheckPool`,
`TakeFromPool`, `TryFreeList` and `CreateBlock` are `requisition_block`, with the
relaxed check and the `fetch_add` as separate steps; `ReuseBlock` is an explicit
producer going round its ring, `Finish` and `Release` an implicit one's block
returning to the free list. `BeginDestroying`, `DestroyProducer` and
`DestroyFreeList` are the destructors. The sizes come from
`BlocksForMinCapacity`, `BlocksForCapacity` and `ceil_to_pow_2`, transcribed, and
the capacity that a user of the other constructor passes from the formula in
`src/README.md`.

The free list is a set, justified by `FreeList`. One consumer per producer
completes elements in order: with several, a slow dequeue keeps its block from
being used again. There the documentation takes its promise back (`src/README.md`
329-333): "there's always a possibility that under contention `try_enqueue` will
fail even if the queue is correctly pre-sized for the desired number of elements".
`PreallocationSuffices` is therefore about the constructors' formulas, and says
nothing of queues with contending consumers.

`BlockInOnePlace` compares owners and not the sets they hold: two producers with
exactly the same blocks would violate it.

## What TLC checks

| Run | Instance | Distinct states | What it shows |
| --- | --- | --- | --- |
| `producer_base` | 3 consumers, 5-bit indices starting at 30, 2 elements, 3 tickets | 1 016 058 | no overtaking of the tail, `SubQueue` implemented, `TicketInvariant` |
| `explicit_producer` | 2 consumers, blocks of 2, index of 2 slots, indices starting at 28, up to 8 elements, bulk calls of 3 and 5 | 293 570 | every element findable, consumers read their own, blocks reused only when free, destructor exact, emptied blocks reusable |
| `explicit_producer_failures` | 2 consumers, throwing constructors, failing allocations, callers that may not allocate, up to 5 elements | 184 235 | elements stay findable and the index front follows the tail, except for what the findings below are about |
| `implicit_producer` | 2 consumers, blocks of 2, index of 2 slots, indices starting at 30, up to 6 elements, bulk calls of 3 | 303 049 | every element findable, consumers read their own |
| `implicit_producer_failures` | 2 consumers, throwing constructors, failing allocations, callers that may not allocate, a limit of 4 elements, up to 5 elements | 1 573 733 | the same; each block returned to the pool once, by its last user; the destructor returns exactly the blocks still out; failed calls leak nothing and leave the index usable; the limit holds |
| `free_list` | 2 nodes, 3 threads, 7 calls | 729 390 | a node is in one place, linked by one thread, never lost; next pointers are right when used; calls return |
| `semaphore` | 3 threads, 3 calls, 1 spin, counts 1 and 2 | 130 308 | `waitMany` acquires, `CountingSemaphore` implemented, `SemaphoreInvariant`; nobody sleeps beside a permit; timed-out calls return |
| `implicit_hash` | 2 threads whose ids collide, 2 tokens, a first table of 1 slot, 2 producers, failing allocations, 4 calls and token steps | 502 049 | a producer has one owner; a thread keeps its producer; a slot stays free, so probing ends; the destructor leaves no listener or token behind; calls return |
| `blocking_queue` | 2 tokens with 2 and 1 elements, 2 consumers making all four kinds of call, a quota of 2, throwing assignments | 240 971 | permits and elements match throughout; no inner call misses a producer; whoever holds a permit gets an element |
| `block_pool` | a producer of each kind, blocks of 2, capacities 2 and 4, both constructors, recycling and not, up to 5 elements each | 883 752 | no block lost or in two places up to the end of the destructor; the pool index stays near the end; the preallocated blocks suffice |

Two more runs, `explicit_bulk_fails` and `blocking_throws`, end in a
counterexample; see the findings.

In `LightweightSemaphore` the local variable `oldCount` is set to zero where the
code no longer reads it (`Load`), so that states do not differ in dead values.

`PermitFindsElement` is the least obvious. A consumer that loses its ticket used
the overcommit it read before its `fetch_add`, so two consumers calling
`try_dequeue` for ever can miss the same element for ever. In the blocking queue
the callers that spin hold permits, and there are never more of them than
elements (`ElementsCovered`), which excludes it. It is what makes the loops
`while (!inner.try_dequeue(item))` end. `ElementsCovered` counts the permits that
an exception strands apart (`stranded`): it says that nothing else is lost. What
the exception itself loses is the subject of the run `blocking_throws`.

`FreeSlotRemains` is what the comment "Not an infinite loop because at least one
slot is free in the hash table" says of each probing loop.

### Bounds

`MaxEnqueued`, `MaxTickets` and `MaxCalls` bound a behaviour's length; threads
then have nothing left to call, which is why deadlock is not checked. Three
consumers are the fewest with which one consumer's overcommit is given back
while a second has read the old value and a third the new one. Blocks of two
elements have an inside and a boundary; an index of two slots wraps after two
blocks and grows at the third, and eight elements are four blocks, so an index
is filled, wrapped, grown and filled again. The implicit instance starts with
the tail of its index in slot 0, so that the circle has turned when the index
grows, and wraps its indices after two elements. Two nodes and three threads in
the free list let two threads disagree about a node while the third removes and
re-adds it, with the other node as the stale next pointer.

A hash table of one slot is too small for the first caller, so every instance
resizes, with both threads racing for the lock, and colliding ids make the
threads probe past each other's slots and past tombstones. With two producers
for two threads and two tokens, producers are recycled. Two consumers and three
elements in two sub-queues let a consumer's overcommit hide another's element,
and a quota of 2 rotates tokens in the middle of a bulk call. With two producers
`try_dequeue` scores them all: its cut-off after three that are not empty leaves
producers out only if there are four. The instance with four tokens of one
element each, one consumer calling `try_dequeue` and one `try_dequeue_bulk` for
two, no exceptions, `Spec` and symmetric tokens has 13 903 375 states, too many
for a run; TLC found `NoProducerSkipped` and `ElementsCovered` to hold in it.
Likewise two threads cannot decrement `implicitProducerHashCount` twice for one
thread counted once; for three see `CountCoversTable` in the findings. Four
preallocated blocks for two elements run out and are followed by the free list
and the heap.

The index width is small in the instances and arbitrary in the proofs. The free
list's reference count has room for as many references as there are threads and
the list's own, as its 31 bits have in the code.

### Fairness

Liveness is checked under weak fairness of each thread's steps inside a call
(`FairSpec`): the scheduler runs every thread that can run. Making a call is
never fair, so a behaviour may stop calling; `CallsReturn` and
`TimedOutReturns` therefore speak of calls that were made. A timed wait times
out eventually; a wait without timeout is served only by posts. In
`ImplicitProducerHash` a thread inside a call or on its way out keeps taking
steps, and in `BlockingConcurrentQueue` a consumer that holds permits does
(`ConsumerStep`); producers need not: an element is visible before its permit.

## What TLAPS proves

`ProducerBaseProofs`, for any set of consumers, any width, any block size and
any bounds with `MaxTickets + MaxEnqueued < HalfRange`: fewer than half the
index range passes by while the protocol is watched. The comment on `index_t`
(`concurrentqueue.h` 333-341) warns of a race beyond that:

* `TicketInvariantHolds`: the invariant below holds in every reachable state;
* `HeadNeverPassesTailHolds`: `headIndex` never passes `tailIndex`;
* `TypeCorrect`, `EffectiveCountExactHolds` (with no call in progress, the
  effective dequeue count is `headIndex`) and `OvercommitPrecedesTicketHolds`
  (the overcommit that a caller subtracts counts earlier tickets only);
* `SubQueueImplemented`: every step is a step of `SubQueue` or changes nothing
  that `SubQueue` sees.

`headIndex <= tailIndex` is far from inductive: a consumer that found its
tickets covered may be overtaken, by others that won or lost, before it claims.
`TicketInvariant` says where each ticket is: won, lost, or undecided in the
hands of one caller (`TicketsPartitioned`); that `dequeueOvercommit` counts the
lost ones and `headIndex` the won ones already claimed (`CountersCountTickets`);
and that a won ticket `t` lies below `tailIndex` plus the number of tickets lost
before it (`WonTicketsCovered`). The largest won ticket then leaves room for all
of them below the tail. What a caller knows at its second look at the tail is
enough to extend this to its own tickets, because the overcommit it subtracts
counts tickets before its own only.

`LightweightSemaphoreProofs`, for any finite set of threads and any counts:

* `SemaphoreInvariantHolds`, `SemaphoreTypeCorrect`, `WaitersAccountedHolds`:
  the threads that have decremented the count and not been served are as many
  as the count is below zero plus the posts made and still to be made;
* `WaitManyAcquiresHolds`: `waitMany` acquires at least one and at most `max`
  permits, assuming that the operating system's wait does not fail and
  `max > 0`;
* `CountingImplemented`: the semaphore implements `CountingSemaphore`.

`ImplicitProducerHashProofs`, for any sets of threads and tokens, any hash
function, table sizes and bounds, whether or not memory can fail:

* `NothingDanglesAlways`: no thread will notify, and no token names, a producer
  that the queue's destructor destroyed;
* `DestructionInvariantAlways`: the inductive invariant behind it.

The assumption is `~ExitDuringDestroy`: no thread exits while the destructor
runs (see the notes below). The destructor unsubscribes only producers that are
active and clears only the token that a producer names, so the proof has to show
that there are no others to worry about. A producer becomes inactive, and may be
recycled by another thread, before its old listener is gone; the invariant says
that this happens only while the exiting thread holds the notifier's mutex
(`Listeners`), that a thread about to subscribe shares its producer with at most
such an exiting thread (`Subscribers`), that tokens and their producers name
each other (`TokenOwners`), and that the destructor meets no call in progress
(`Undisturbed`). The type invariants of the three proved modules are part of
their inductive invariants.

Model-checked only: `ExplicitProducer`, `ImplicitProducer`, `FreeList`,
`ConcurrentQueue` with `BlockingConcurrentQueue`, and `BlockPool` (whose
`ceil_to_pow_2` uses bit operations that this prover does not know); and all
liveness, which it does not handle.

## Findings

Two runs end in a counterexample to what a comment or the documentation says.

* `explicit_bulk_fails`. A failed bulk enqueue forgets that the blocks it
  linked into the ring occupy index slots once they are reused. The index is
  then overwritten while full and elements become unreachable: consumers
  read the wrong block.
* `blocking_throws`. A bulk dequeue holds permits for several elements. If the
  element's assignment throws in one inner call, the exception leaves the loop
  and the permits not yet used are lost: an element stays in the inner queue
  that no permit stands for, and `size_approx` is wrong for good. The
  documentation promises a consistent state (`src/README.md` 355-356).

The other disagreements are outside the bounds of the passing runs. Each is
reproduced by changing the named configuration and checking the named property
alone:

| Configuration | Changes | Property | What happens |
| --- | --- | --- | --- |
| `ExplicitProducer.cfg` | `FirstIndex = 0`, `MayThrow = TRUE`, `BulkCounts = {}`, `DequeueCounts = {1}`, `MaxEnqueued = 4` | `DestructorDestroysTheLive` | A constructor that throws at a block boundary leaves a block that counts as full: it is never reused, and the destructor destroys elements in it that do not exist (1950). |
| `ExplicitProducer.cfg` | `FirstIndex = 0`, `MAX_SUBQUEUE_SIZE = 4`, `BulkCounts = {}`, `DequeueCounts = {1}` | `SizeWithinLimit` | The limit is not compared when a block is reused, so a block injected while a consumer was slow raises it (1904). |
| `ExplicitProducer.cfg` | one consumer, five blocks, `FirstIndex = 0`, `MAX_SUBQUEUE_SIZE = 6`, `BulkCounts = {6}`, `DequeueCounts = {2}`, `MaxEnqueued = 11` | `FrontFollowsTail` | The fallback set after a bulk enqueue reused blocks and grew the index is too large by the number of reused blocks (2141). |
| `ImplicitProducer.cfg` | `FirstIndex = 0`, `BulkCounts = {}`, `DequeueCounts = {0, 1}`, `MaxEnqueued = 4` | `BlockReleasedOnce` | `try_dequeue_bulk` with `max = 0` claims nothing, yet calls `set_many_empty` with a count of zero; if another consumer has just emptied that block, both return it (2886). |
| `LightweightSemaphore.cfg` | `WaitCanFail = TRUE`, `MaxCalls = 4`, `SPECIFICATION Spec` | `WaitManyAcquires` | `waitMany` without a timeout returns zero if the operating system's wait fails (`lightweightsemaphore.h` 345). |
| `ImplicitProducerHash.cfg` | three threads, `Tokens = {}`, `MaxProducers = 3`, `MaxTokenSteps = 0`, `MemoryCanFail = FALSE`, `INITIAL_IMPLICIT_PRODUCER_HASH_SIZE = 4`, `MaxCalls = 5`, `SPECIFICATION Spec` | `CountCoversTable` | A thread that was copied from an older table leaves two tombstones when it exits, one in each table, and was counted once. Two newcomers, one still inserting into the old table, each take one over and each decrement the count: fewer slots are counted than are in use, although "every subsequent table implicitly reserves space for all previous tables" (3448-3450). A free slot remained in every instance checked. |
| `ImplicitProducerHash.cfg` | `ExitDuringDestroy = TRUE`, `SPECIFICATION Spec` | `NothingDangles` | The exiting thread marks its producer inactive before it has done with its listeners, and `~ImplicitProducer` unsubscribes only active ones (2466-2473): it does not wait for the mutex and destroys the listener that the exiting thread still reads. The comment "race with ~ThreadExitNotifier" (609) shows that exits during destruction were considered. |

A failed implicit bulk enqueue that went once around an index without live
blocks leaves the key of a withdrawn block in the tail slot. That is harmless,
as `EveryElementFindable` shows: nothing is looked up before the next insertion.

## Not modelled

* Moving and swapping queues (`swap_internal`, `reown_producers`,
  `swap_implicit_producer_hashes`): not thread-safe by contract, so there are no
  interleavings, and the work is in patching pointers into the two objects,
  which the models do not have. Moving consumer tokens exchanges private fields.
* `try_dequeue_from_producer` and its bulk form: one claim on one sub-queue,
  which `ProducerBase` covers.
* Implicit producers in `ConcurrentQueue`: a consumer treats both kinds alike,
  and the list that it walks holds both.
* Memory statistics, debug locks, C API: debug code and wrappers without
  state.
* The three operating systems' semaphores: system calls, modelled by their
  results.
* Allocation alignment, and weak memory beyond stale loads of the counters.

The models meet at interfaces (`SubQueue`, `CountingSemaphore`, the set of free
blocks) and are not composed into one: the product of claim protocol, block
lookup, pool and hash is beyond TLC. That `ConcurrentQueue`'s shortened claim
agrees with `ProducerBase` is by construction and not proved.
