# NodesDetector: a TLA+ verification project

NodesDetector pings the nodes of a network. The part that works is one process,
the *pinger*: a main thread that runs a libev loop on a raw ICMP socket, fed
with tasks by other threads through a lock-free queue. This directory holds TLA+
models of that process and of the queue, the TLC configurations that check them
on small instances, and proofs, checked by TLAPS, of what holds for instances of
every size. Paths below are relative to `src/`; `concurrentqueue.h` is
`common/src/common/concurrentqueue.h` and `pinger.cc` is
`pinger/src/pinger/pinger.cc`.

## 1. Inventory

| Component | State it keeps | Operations | Where |
|---|---|---|---|
| Pinger | watchers of the loop, event descriptor, raw socket, ICMP id, sequence number, task queue | `Start`, `SendRequest`, `PostTask`, `Wait`, `Stop`, and the callbacks `HandleSend`, `HandleRecv`, `Shutdown` | `pinger.cc`, `pinger.h`, `main.cc` |
| Icmp | none but the id | `PackIcmpPacket`, `ParseIcmpPakcet`, `CheckSum`, `TimeDiff` | `icmp.cc`, `icmp.h` |
| Task queue: sub-queue of an implicit producer | four counters, blocks of 32 slots, a circular block index | `enqueue`, `dequeue`, bulk forms, destructor | `concurrentqueue.h:2344-2944` |
| Task queue: sub-queue of a token | the same counters, a ring of blocks, a circular index | `enqueue`, `dequeue`, bulk forms, destructor | `concurrentqueue.h:1698-2337` |
| Task queue: pool of blocks | initial pool, free list with reference counts | `requisition_block`, `add`, `try_get` | `concurrentqueue.h:1354-1466`, `2951-3020` |
| Task queue: producers | list of producers, hash tables from thread id to producer, tokens | `recycle_or_create_producer`, `add_producer`, `get_or_add_implicit_producer` | `concurrentqueue.h:3133-3444`, `567-629` |
| Task queue: front | global rotation offset, consumer tokens | `try_dequeue` and `try_dequeue_bulk`, each plain, with a token and from one producer, `size_approx` | `concurrentqueue.h:1040-1346` |
| Options, Server, dispatcher, script, protocol file, tests | none that the pinger uses | | see section 7 |

**How they interact.** `main` calls `Start` (event descriptor, raw socket, three
watchers; each step has an early return), then `SendRequest` and `Wait`, which is
`ev_run`. Any thread may call `PostTask` (an `enqueue`) and `Stop` (a `write` to
the event descriptor) at any moment. The loop calls `HandleSend` whenever the
socket can be written: it takes up to 300 tasks with `try_dequeue` and hands each
to `sendto`. It calls `HandleRecv` for each datagram, and `Shutdown` when the
event descriptor becomes readable. The queue finds the calling thread's producer
in a hash table, the producer finds a block through its block index and gets new
blocks from the initial pool and the free list, to which consumers return them. A
consumer goes over the list of producers and tries their sub-queues in turn.

**What is hard.**

* Pinger: stops before, during and after the loop; callbacks that were already
  pending when the loop was told to end; a queue that wakes nobody; partial
  failures of `Start`; datagrams of other processes; three uninitialised or
  miscomputed values.
* Queue: everything is lock-free. Consumers over-draw tickets, several at a time,
  and give back those for which nothing was left; loads are relaxed, so what a
  consumer knows may be old; blocks are reused while slow threads still look at
  them (ABA); the block index and the hash tables grow under their readers;
  allocations, constructors and assignments fail half-way through a bulk and have
  to be undone step by step; indices wrap; a consumer that finds all sub-queues
  empty has looked at each at another moment; a destructor has to tell from the
  indices alone which blocks it owns.

**What makes each part correct** is said by the properties of section 4. The
hazards they answer to are listed, each at its line, in `PROJECT.json`.

## 2. Modules

| Module | Models | State and actions against the code |
|---|---|---|
| `Icmp` | the arithmetic of `icmp.cc` | operators on 16-bit words: `Pack` with both passes of `CheckSum`, `TimeDiff` with its `int16_t`, `ParseIcmpPakcet` with its length tests |
| `IcmpExchange` | one echo exchange | `SendIcmp` packs, the host verifies and echoes behind an IP header of any length, `HandleRecv` parses; the clock moves in between |
| `Pinger` | the pinger process | one action for each system call or queue access of the main thread, those of `Start` included; `Stop`, `PostTask`, the network and the kernel's buffers interleave anywhere. Extends `Icmp` for the verdict on a datagram |
| `DequeueClaim` | the tickets of a sub-queue, in the form of `dequeue_bulk` (`dequeue` asks for one) | for each consumer `Draw` (the three relaxed loads and the `fetch_add` of as many tickets as elements seem to be there), then `TakeAll`, or `GiveBack` of some or all tickets and `TakeRest`; `Enqueue` publishes one or several elements |
| `IndexArithmetic` | indices that wrap around | blocks, slots, `circular_less_than` and the distance in blocks, on `index_t` |
| `SubQueue` | an implicit producer's sub-queue with its memory | extends `DequeueClaim`. The producer's actions follow `enqueue`, `enqueue_bulk`, `insert_block_index_entry`, `new_block_index` and the failure paths of both, which take back blocks and entries one by one; the consumer's follow `get_block_index_index_for_index` and the rest of `dequeue` and `dequeue_bulk`, block by block, one shared access at a time, with an assignment that throws anywhere in a range. What the destructor would destroy and return is a function of the state |
| `ExplicitQueue` | a token's sub-queue with its memory | extends `DequeueClaim`; `enqueue` and `enqueue_bulk` step by step (blocks taken from ahead in the ring, blocks inserted, `new_block_index`, undoing), `dequeue` and `dequeue_bulk` one shared access at a time; the destructor's walks are functions of the state |
| `Fifo` | abstract: what one sub-queue promises. The elements of a bulk arrive together, a consumer claims one or several in order and receives those, or, when an assignment throws, the first of them | implemented by `SubQueue` and `ExplicitQueue` |
| `FreeList` | `requisition_block`: the initial pool, then the lock-free free list | one action for each atomic access of `try_get_block_from_initial_pool`, `add`, `try_get` and `add_knowing_refcount_is_zero` |
| `FreePool` | abstract: a pool of blocks | implemented by `FreeList`; `SubQueue` and `ExplicitQueue` use the pool in this form |
| `ProducerHash` | `get_or_add_implicit_producer` | look-up through all tables, counting in, the resize flag, growth, insertion, waiting |
| `ProducerList` | the producers of a queue and the tokens that own them | `recycle_or_create_producer` and `add_producer` one shared access at a time, the life of a `ProducerToken` (construction, move, swap, destruction), and `~ConcurrentQueue` as far as tokens notice it |
| `TryDequeue` | the front of the queue | one action for each load of the list, the counts and the rotation offset: the scan for the fullest of up to three producers with its racing size estimates, the pass over all, bulk and not, the placing and rotation of consumer tokens. A sub-queue is its length; its `dequeue` is one step that yields any number up to what is there and was asked for, nothing included (see below). The list only grows at its head (`ProducerList`'s `ListOnlyGrows`) |
| `PingerProofs`, `DequeueClaimProofs`, `SubQueueProofs`, `ExplicitQueueProofs`, `FreeListProofs`, `ProducerHashProofs`, `ProducerListProofs`, `TryDequeueProofs` | | the theorems of section 6 |
| `MC...` | | instances for TLC |

Definitions whose names end in `_Something` and are commented *mutant* are
deliberate bugs. They are part of no specification; each shows that some property
of section 4 would notice that bug.

**Atomicity and memory model.** An action contains at most one access to shared
memory that another thread can also write. Accesses are sequentially consistent
with two exceptions. The relaxed loads that feed the ticket protocol
(`concurrentqueue.h:2478-2484`, `2698-2708`, `1888-1922`, `2166-2182`, and the
producer's look at the head, 1806, 2020, 2416 and 2577) return *any* earlier value of their counter, each its own.
A token's producer may miss flags that consumers have set (1791, 2002), which it
reads one by one. Other relaxed accesses of the queue are modelled as if they
were ordered; the model does not show the fences to be sufficient.

In two places accesses are merged. `ExplicitQueue` stores key and block of an index
entry in one action (`SetEntry`; 1867 and 1868 are two stores), since no consumer
looks at the entry before `front` is stored. `TryDequeue` makes a call of a
sub-queue's `dequeue` one step.

**The sub-queues inside `TryDequeue`.** What `dequeue` of a sub-queue promises is
`Fifo`'s `Claim`: elements it yields were there, in order, and are nobody else's.
`Fifo` promises nothing of a call that yields nothing. By the tickets it may
leave although elements are there: another consumer's failed ticket is not given
back yet (2485, 2538), or the tail it loaded is old (`DequeueClaim`). So in
`TryDequeue` each call of `dequeue` may yield any number of elements, and what is
claimed of `try_dequeue` is what the comments claim: each producer "appeared
empty at the time [it was] checked", not that it was.

**The queue inside `Pinger`.** There the queue is one sequence per posting thread
and `try_dequeue` takes the first task of any non-empty one. That is `Fifo` per
producer. Only the main thread dequeues, so a failed `try_dequeue` may be taken
to happen when it starts; that a relaxed load may make it miss a task for a
moment is left out, the next callback finds it.

## 3. Undefined behaviour in the pinger

Three values are nondeterministic because the code leaves them uninitialised:
the 64-bit number `Stop` writes (`pinger.cc:83`), the address length given to
`recvfrom` (`pinger.cc:118`), and the address when `inet_pton` fails
(`pinger.cc:164-167`, its result is not looked at). Each is modelled by all the
outcomes the kernel can make of it. The first is what `pinger_true_stop` is
about; the other two decide only which address is logged with a reply (one the
task was not sent to, in the worst case), and no run asks about it.

## 4. Runs

| Run | Question | Bounds |
|---|---|---|
| `icmp_exchange` | Does a packed request carry a checksum the host accepts, does parsing stay inside the datagram, is our own reply always accepted? | boundary values of times, ids, sequence numbers, task ids and lengths |
| `icmp_cost` (violated) | Is the logged cost the elapsed time? No: the borrow adds 1000 where it should add 1000000. | the same |
| `pinger` | Is any task lost, duplicated or overtaken between `PostTask` and `sendto`? How many requests leave after the loop was told to end? Can the loop end by itself? Are accepted replies for tasks that were sent? Does a value in the event descriptor end the loop, are posted tasks tried? How many requests may leave while a datagram waits to be received? | two threads, three tasks, batches of 1, two stops, an event counter that refuses 2 |
| `pinger_true_stop` (violated) | Does the loop end when `Stop` returned true? No: the uninitialised value may be zero. | two tasks, one stop |
| `sub_queue` | Is an index ever handed out before its element is published, does the assertion on tickets hold, is an element ever left out of reach? Is the sub-queue a bounded FIFO, do consumers find the right block, is memory overwritten in use, is a block lost, would the destructor destroy and return exactly what is left? | one producer, which enqueues singly and three at a time, two consumers that take one or two; five elements in three blocks of two slots, four tickets, a block index that grows from two to four entries, indices modulo 16 that start at 12 |
| `explicit_queue` | Is a token's sub-queue a FIFO, does a consumer find each element through the newest index, is a block reused while somebody is still in it, is the ring whole for the destructor's walk? | one producer, two consumers that take one or two; five elements in three blocks of two slots, three tickets, bulks of up to three, fresh or after 12 elements of 16, a block index that grows from two to four entries |
| `explicit_partial_bulk` (violated) | The same when an `enqueue_bulk` may fail after it injected a block. No: the entry of a block in use is overwritten. | one consumer, fresh |
| `explicit_throw` (violated) | Does the destructor destroy what is left and nothing else? No: not after the constructor of a block's first element threw. | one consumer |
| `free_list` | ABA, blocks in two places, lost blocks, reference counts, lock-freedom, and do initial pool and free list together implement `FreePool`? | three threads, two blocks, both in the initial pool at first |
| `producer_hash` | Does every thread keep one producer, does probing end, are failures undone, do waiting threads get out? | three threads, two of which collide in every table, tables of 2, 4 and 8 |
| `producer_list` | Can two tokens own one producer, can a producer drop out of the consumers' sight, does a token outlive its queue? | three tokens, one thread with an implicit producer, three producers |
| `try_dequeue` | May a call come back with less than it was asked for without having checked each producer and found it to appear empty? Is a token ever placed by a count of zero producers? Does rotation let the only token ask every producer again and again? | two consumers, one of them with a token, each with any of its forms of the call, two producers of up to two elements, two elements asked for at a time, a quota of two |

Why the bounds are enough: each bound is the smallest at which the mechanism is
exercised *and* a bug in it shows. Two consumers make one fail or wait inside a
block while the other passes it (for any number of them the ticket protocol is
proved, section 6), and when they ask for two elements, one of two tickets can be
given back, or a range can span two blocks. A bulk of three elements in blocks of
two starts in one block and needs one or two more, of which one may be refused.
Five elements in blocks of two make the tail enter a third
block while a slow consumer is in the first, the index wrap around 16, and the
block index both reuse an entry and grow; `MaxSubqueueSize` is reached. Two
blocks and three threads make the ABA pattern (pop A, pop B, push A) possible
under a third thread's exchange, and one of three threads find the initial pool
used up after it had seen a block there. Three threads and a first table of two slots
make two of them meet at the resize flag and the third wait or use an old table.
Three tokens make two of them race for the producer that the third dropped, and
a swapped or moved token meet a recycled one. Two producers make a scan find one
empty while the other is filled behind its back. They do not reach the end of
the scan at three producers that are not empty (1048); that branch is covered by
the proof of `ShortMeansAllChecked` only. Three tasks are one more than two
batches of 1, so that in `pinger` sending could hold up a datagram for longer
than the two batches `RepliesNotHeldUp` allows; larger batches would need five
tasks and more, and are covered by its proof.
The mutants in `PROJECT.json` are the evidence: each of those bugs is found
within these bounds. Bounds that only cap a counter (`MaxTickets`, `MaxTail`,
`MaxStops`, `MaxHeaders`, `MaxProducers`) are guards of the actions they cap.
`MaxHeaders` and `MaxProducers` at their limit behave as a failed allocation,
which the code handles (in `ProducerList` an allocation may also fail before).

The type invariants of `FreeList`, `SubQueue`, `ExplicitQueue` and `TryDequeue`
are stated for readers, and all but that of `TryDequeue` are proved; no run repeats
them. Those of `Pinger` and `ProducerList`, which bound counters, are checked.

Deadlock is switched off where a behaviour really ends: `Pinger` (the loop has
returned), `IcmpExchange` (the exchange is over), `SubQueue` and `ExplicitQueue`
(all elements and tickets are used up), `ProducerList` (a token that is left has
no queue any more). Symmetry is used only in runs without
temporal liveness properties and over sets whose members the configuration
treats alike.

**The ring and failed bulks.** `ExplicitQueue` has a switch, `PartialBulk`. When
it is off, an `enqueue_bulk` can fail or throw only before it has taken a block;
`explicit_queue` shows that the rest then works, constructors that throw in
`enqueue` included. When it is on, it may fail at any point, as the code allows.
`explicit_partial_bulk` shows the consequence: `enqueue_bulk` gets one block of
the two it needs and fails; the block stays in the ring, empty, while
`pr_blockIndexSlotsUsed` is back at zero. The next `enqueue` reuses it without
counting it. A second bulk of two more blocks then believes that an index of two
entries has room, and its second block overwrites the entry of the first, whose
elements are still queued. `explicit_throw` needs one call: the block's flags are
cleared before the constructor runs, and a block without flags and without
elements looks full to the destructor.

## 5. Fairness

* `pinger`: the main thread is scheduled again and again, and the send
  buffer of the socket empties. Nothing is assumed of the threads that post or
  stop, nor of the network. Libev invokes every pending callback before it polls
  again, so no fairness among the watchers is needed.
* `free_list`: lock-freedom is stated without fairness: *if* steps go on, calls
  complete.
* `producer_hash`: a thread inside a call is scheduled again and again. While
  allocations fail for ever a waiting thread may find the lock taken by one
  failing caller after another; the property excludes only that.
* `try_dequeue`: each consumer is scheduled again and again and calls again when a
  call has returned, as the event loop does. Nothing is assumed of the producers,
  nor of the forms that name a producer.

`NoProducerLeftAside` says that a producer is asked again and again, not that it
yields: two consumers can each draw a ticket by an overcommit older than the
other's give-back and both leave one element where it is, any number of times.
It is stated for exactly one token, used in one form, because the code gives no
more. `try_dequeue` with a token tests the quota for equality
(1116) and `try_dequeue_bulk` adds several at a time, so a bulk that came back
short may step over it for the single form. And where two tokens use up their
quotas in step each advances *both* by one producer: with two producers each is
back where it was.

## 6. Proofs

`PingerProofs` holds for any set of threads and tasks, any scripts, batch size,
buffer sizes and foreign datagrams. Six invariants are proved, `TypeOK` first and
the others with it: `Delivered`, whose inductive form
needs no strengthening once the request in hand is part of it; `LateBounded`,
strengthened by what is left of the batch while the callback runs after
`ev_break`; `RepliesNotHeldUp`, strengthened by the room that the pending
callbacks leave (`RecvOK`: one batch when the receive callback is pending beside
the send callback, two when the latter has begun or run, none when only the send
callback is pending, because then the poll found no datagram);
`ReturnsOnlyIfStopped`, strengthened by "a positive event counter
or a finished loop implies that some `Stop` returned true, and the stop watcher
is active if the descriptor is open"; `AcceptedWasSent`, strengthened by what
the inbox may hold.

`DequeueClaimProofs` holds for any number of consumers, elements and tickets, for
bulks of any size and for arbitrarily old relaxed loads. Tickets come in ranges,
which are taken, given back, or split into a part taken and a part given back.
The inductive invariant `IInv` says that every
ticket drawn is taken, failed or in exactly one consumer's hands; that
`headIndex` and `dequeueOvercommit` count the taken and the failed ones; that an
approved ticket, less the failed tickets *below* it, is smaller than the tail;
and that what a consumer believes of `dequeueOvercommit` are failures of tickets
below its own. The last two are the heart of the argument: the code compares
`myDequeueCount - overcommit` with the tail although `overcommit` was read before
the ticket was drawn, and it is only because the number is old that it cannot
count failures of later tickets. (Mutant `GiveBack_ReloadsOvercommit` reads it
later, and breaks the assertion.) For a range it is enough to look at its last
approved ticket: the number of failures below a ticket grows no faster than the
ticket (`BelowMonotone`). `HeadNeverPassesTail` then follows by counting
(`Counting`): the greatest approved ticket bounds the approved ones.

`SubQueueProofs` and `ExplicitQueueProofs` show that each sub-queue with its
memory implements the ticket protocol (`UsesTickets`: every step is one of its
actions or leaves its variables alone, for which the producer only has to keep
`bulk.count` a natural number). So the three properties hold there as well, for
any blocks, sizes of the block index and bulks, in `ExplicitQueue` also where a
failed bulk has left ring and index in disorder (`PartialBulk`).

`SubQueueProofs` goes on to the whole memory of an implicit producer's
sub-queue, for any blocks, block sizes, index sizes, bulks and consumers, and any
position at which the indices start, with every failure `enqueue` and
`enqueue_bulk` have. Indices and keys wrap around, so the proof numbers blocks
without bound: block k holds elements First(k) on. The invariant (`MInv`) names,
for a state, a window lo..hi of block numbers that the newest array of the block
index stands for, an offset for each array ever allocated, and the home of each
number, and says
* of the index (`MemoryInv`): the entry at place (offset + k) of the ring has
  key Key(k), and the home of k as its value while anything of k is to be moved
  out or counted; an older array is a frozen ring of the same entries, so that a
  consumer with an old array, an old tail and a newer key still computes the
  right place (`WalksOK`). This is where the capacities must divide the number of
  keys: two numbers in one window never have one key, and a distance between
  keys is the distance between places;
* of the blocks: the place of each one (pool, home of a number, in the producer's
  hands, taken back, about to be freed by a consumer), one at a time, so that two
  numbers never share a home; and its counter is the number of elements of its
  block that are moved out and counted (`DoneSet`), which is why exactly one
  consumer completes it;
* of the slots (`SlotsOK`): which elements exist and where each of them lies.

From it follow what consumers compute (`FindsEntries`), that nothing in use is
overwritten (`NeverOverwrites`), that blocks and elements are all accounted for
at rest (`LosesNoBlock`, `DestructionIsComplete`), the limit (`StaysWithinLimit`:
the head may be stale in the comparison, but only too small, which errs on the
safe side), and step by step the refinement of `Fifo` (`IsFifo`): a claim,
a move and the last `set_empty` are its steps, all others stutter.

`ExplicitQueueProofs` first proves of the ring that it is whole (`RingIsWhole`),
bulks that fail half-way included. That the blocks in use form one cycle is said
without induction: following `next` never leaves them, and no part of
them has that property (`OneRing`). Inserting a block keeps it; and a walk of as
many steps as there are blocks meets one twice, closes there, and so has met all.

The rest of a token's sub-queue is proved where `PartialBulk` is `FALSE`, and the
theorems say so: `explicit_partial_bulk` shows that it is false otherwise. Any
blocks, block sizes, index sizes, bulks and consumers are covered, a queue that
is new or long in use, constructors that throw in `enqueue`, and assignments that
throw. Blocks are numbered without bound, as in `SubQueueProofs`. The invariant
(`MInv`) names the oldest block number `lo` that has not been used again, the
`home` of each number, an offset for each array of the index, and the blocks that
are `dead`, and says
* of the ring (`RingOK`): the homes of lo..Top follow one another along `next`,
  no two numbers have one home, and what follows `tailBlock` is the home of `lo`
  or a dead block. Dead are the blocks whose first constructor threw: they have
  no flags and no elements, so nothing ever takes them again, which is also why
  they do no harm to anything but the destructor (`explicit_throw`);
* of the flags (`FlagsOK`): the flags of a block in use are the slots of its
  elements that are dequeued and flagged (`DoneSet`). So a block all of whose
  flags are set is the oldest, and everything up to its end is done;
* of the index (`IndexOK`): the last `slotsUsed` entries up to `front` have the
  keys of the last block numbers, and from `lo` on their homes. An entry is only
  overwritten for a number that is below `lo` by then: a reused block gives up
  its own entry, and for an inserted one there is room. An old array is frozen
  where it matters (`Frozen`), so a consumer may keep it (`WalksOK`);
* of the slots (`SlotsOK`), as in `SubQueueProofs`.

From it follow that each element claimed or to be claimed is found in the newest
index (`EachFound`), that no element is constructed over another one or in a slot
some consumer is still busy with (`NothingOverwritten`), and the refinement of
`Fifo` (`IsFifo`). The invariant needs no knowledge of `MAX_SUBQUEUE_SIZE`: that
the queue is not too long for its index follows from how entries are counted.

`TryDequeueProofs` proves `CountCoversList` and `ShortMeansAllChecked` for any
consumers, tokens, producers, lengths and quotas, and whatever the sub-queues
yield. The invariant `Sound` follows a consumer from its load of
`producerListTail` to its load of `producerCount`: a list that was not empty stays
so, and a producer is counted before it is linked. `Scan` says of each call what
it has behind it: on the way along the list all producers above `ptr` have been
checked and appeared empty (`Above`), once sizes are taken only as long as every
one was estimated at none; on the way around the ring the stretch from the
token's producer to `ptr` (`Passed`). A producer that yields some, but not all,
becomes the token's, and the stretch starts again there. The list may be loaded
again in the course of a call (1065, 1122, 1183), and is then longer: what is new on it
need not have been checked, but is passed on the way to the rest. A step of one
consumer leaves what another knows alone (`Bystander`), except the sizes it is
about to read. A token always stands within the list it was placed on, and the
list only grows. What a call yields is not among the assumptions: that less than
was wanted makes a producer count as one that appeared empty is the definition
of the property, and what is proved is that none is left out.

`ProducerListProofs` holds for any tokens, threads and number of producers.
`OneOwner` is inductive together with `Sound`: every pointer leads to a producer
that was created (so that a fresh one is nobody's), a token outside a call has
none, and `producerCount` plus the callers that are about to count is the number
of producers created, which bounds `producerCount` in `TypeOK`. The heart is one
step: whoever wins the exchange on `inactive` finds the producer nobody's,
because an inactive one has no owner.

`ListSound` adds the list (`Listed`, the smallest set that contains the tail and,
with a producer, its next one): a producer that is being added is not listed and
its creator's alone, all others that anybody points to are listed, and
`producerCount` is the number of the listed ones and those about to be pushed.
No induction over the list is needed: a store to
the `next` of an unlisted producer does not change the smallest closed set, and a
push adds exactly one producer to it. `ListOnlyGrows` follows, and `NoDangling`
from `BackPointers`: a token's producer points back to it until the destructor
has run, and every producer a token has is listed, so the walk finds it.

`FreeListProofs` holds for any number of threads below the flag's value and any
blocks. The invariant fixes the reference count of a node by where the node is:
with an owner it is the number of threads that hold a reference, on the list one
more, in nobody's hands the flag as well, and *somebody* still has a reference
then, who will put the node on the list (`RefExact`, `Places`). A thread that
holds a reference keeps the node it read from being pushed again, so its `next`
cannot change while it is the head: that is `NextKept`, which gives `NextStable`,
the ABA question. That the list has no cycle (`Acyclic`) is said without
induction, of the smallest closed set again: nothing on the list precedes the
head, and no two nodes on it have the same next. `ImplementsPool` maps each
step to one of `FreePool` or to a stutter: a block changes hands at the
exchange of the pool counter, at the decrement that ends a successful pop, and
at the first step of `add`.

`ProducerHashProofs` holds for any number of threads, any hash values and any size
of the first table. A thread's entry is found because no slot is ever emptied and
only the thread itself writes its entries (`Entries`: from its hash to its entry
no slot is empty). `SlotFree` was not to be had from the count alone: a thread
that found room inserts much later, when others have come in. `Bounded` says
that among the threads in a table, or counted and on their way to one, no more
than m were counted in as the m-th or before; so when somebody finds room in a
table with its number, all who may still come to it were counted below it.
`CountExact` follows from `Exact`, which counts the threads between their
increment and their decrement too.

From the assumptions on constants only: bounds are natural numbers, scripts are
sequences of tasks, foreign datagrams are datagrams, `SHOULD_BE_ON_FREELIST`
(2^31) is greater than the number of threads and one, the initial pool has each
block once, the threads of `FreeList` and `ProducerHash` and the blocks of
`ExplicitQueue` are finitely many, a null pointer is no block, and the
block index of either sub-queue starts with a capacity that doubles and divides
the number of block positions (`CapacityAssumption`: the code takes powers of two
for both). In `ExplicitQueue` the first capacity is even, as the constructor sets
`pr_blockIndexSize` to half of it and `new_block_index` doubles that.

Only model-checked: liveness; the modules `Icmp` and `IcmpExchange`, whose
interest is in 16-bit arithmetic on concrete data, folded over a datagram; of
`TryDequeue`, the ranges in `TypeOK`, since `Cycle` is a product folded over the
producers. Liveness, `ENABLED` and induction over data are out of the
prover's reach.

## 7. Not modelled

* Construction, move and swap of a whole queue: documented as not thread-safe,
  and straight sequences of assignments. What its destruction does is modelled
  where it matters: to tokens in `ProducerList`, to elements and blocks in
  `SubQueue` and `ExplicitQueue`. (Blocks are freed by their owner or by the free
  list's destructor; which of the two is what `DestroysAll` and `RingWhole` say.)
* `size_approx` of a queue, a sum of estimates that promises nothing, and the
  memory statistics, which are compiled out.
* The wrap-around of the ticket counters: they are naturals in `DequeueClaim`.
  Where the code makes one an index of a slot or a block it does wrap.
* The listeners for exiting threads (`concurrentqueue.h:3446` on) are compiled
  out: `MOODYCAMEL_CPP11_THREAD_LOCAL_SUPPORTED` is commented out at line 202.
  Hence an implicit producer is never inactive and never reused.
* The fences: see the memory model in section 2.
* `HandleTimeout` (`pinger.cc:155`) is not registered with the loop.
* Options are getters. `Server` and the dispatcher are unfinished (`Wait` and
  `Stop` have no body, `server.cpp` ends inside a declaration). The script finds
  a pinger with `ps` and ends it with `kill`, and never looks inside it. The protocol file, tests and
  build files keep no state the pinger uses.

## 8. Plan

Done, in this order: `Icmp`, `IcmpExchange`, `Pinger`, `DequeueClaim`,
`FreeList`, `SubQueue`, `ProducerHash`, `ProducerList`, `ExplicitQueue`; theorems
on `Pinger`, `DequeueClaim` and `ProducerList`. Then `TryDequeue`; bulks, with
ranges of tickets and their proofs; destructors; the initial pool; theorems on
the sub-queues' use of tickets and on `TryDequeue`. Then all safety properties of
`FreeList`, with its refinement of `FreePool`, of `ProducerHash` and of
`ProducerList`.

Last, the memory of `SubQueue` with its refinement of `Fifo`, the ring of
`ExplicitQueue`, its memory with its refinement of `Fifo`, `ShortMeansAllChecked` of
`TryDequeue`, and `RepliesNotHeldUp` of `Pinger`.
