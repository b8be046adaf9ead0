# A TLA+ verification of lf_ring

This directory holds TLA+ models of the library's concurrent components, the
TLC configurations that check them on small instances, and TLAPS proofs that
hold for every instance. Paths such as `ring_writer.hpp:98` are relative to the
repository's `include/lf_ring/` or `src/`.

## The system

lf_ring is a set of queues and slots in a memory-mapped file, shared by threads
or processes. Every structure is a `ControlBlock` of 64-bit atomics followed by
data bytes.

| part | source | what it is | here |
|---|---|---|---|
| record layout | `ring_layout.hpp` | header, `align_up`, control block | `RingLayout`, `RingCells` |
| producer side | `ring_writer.hpp` | `detail::try_push`: reserve by CAS, write, publish in order | `RingWriter` |
| `SharedRingBuffer` | `shared_ring_buffer.cpp` | MPSC byte ring | `SharedRingBuffer` |
| `SharedRingBufferMPMC` | `shared_ring_buffer_mpmc.cpp` | the same producers, consumers that claim by CAS | `SharedRingBufferMPMC` |
| `SharedRingBufferSPSC` | `shared_ring_buffer_spsc.cpp` | byte ring for one producer and one consumer, with `claim` after a crash | `SharedRingBufferSPSC` |
| `SPSCQueue<T, N>` | `spsc_queue.hpp` | fixed slots, with `claim` after a crash | `SPSCQueue` |
| `SharedLatest<T>` | `shared_latest.hpp`, `futex.hpp` | seqlock for the latest value, heartbeat, recovery, futex notification | `SharedLatest` |
| mapping | `shared_memory_mapping.cpp` | create, open and check the file | `Mapping` |
| IPC adapters | `ipc_adapter.hpp` | publishers, and subscribers with a polling thread, over the above | `PollThread`, `SpscTopic`, `LatestSubscriber` |
| typed messages | `typed_message.hpp` | codecs, writer and reader over a byte ring | `TypedMessage` |

## The modules

```
RingLayout            align_up, record sizes, 64-bit subtraction
  RingCells           words of a ring, positions, padding, multi-word stores
    RingCellLemmas      arithmetic of cursors and of ring words
    RingWriter        detail::try_push, any number of producers, and WriterInv
      RingWriterProofs  every step of a producer keeps WriterInv
      SharedRingBuffer        + the one consumer of the MPSC ring
        SharedRingBufferInv     its inductive invariant RingInv
        SharedRingBufferProofs  the consumer, the theorems, the refinement
      SharedRingBufferMPMC    + any number of consumers, and ClaimInv
        SharedRingBufferMPMCProofs
    SharedRingBufferSPSC    with its inductive invariant RingInv
      SharedRingBufferSPSCProofs
  Mapping             create_mapping and open_mapping, several processes
SPSCQueue             the queue of fixed slots
SharedLatest          the slot, and the invariants of recovery, seqlock and death
PollThread            start, stop and the timed wait of a subscriber
SpscTopic             Mapping + PollThread + publishers: a queue topic, end to end
  SpscTopicProofs       the mapping, the thread and the deliveries
LatestSubscriber      SharedLatest + PollThread: a topic of latest values
  LatestProofs          the slot and its subscriber
TypedMessage          codecs and the reader's reused buffer
ValueProofs           SPSCQueue, and what a typed pop returns
Fifo                  what a ring promises: a bounded queue
MC*                   model values and symmetry sets for TLC, where they are needed
```

### How code becomes actions

* One action is one access to a shared atomic, in program order; the local
  computation up to the next access belongs to the action. Plain stores into
  memory that only the storing thread may touch are grouped by statement, and
  `RegionsDisjoint` (for the SPSC ring a part of `RingSafe`), `NoSharedSlot` and
  `CopiesUndisturbed` say that nobody else does touch it; all are proved.
  `SPSCQueue` and `SharedLatest`, whose values are small and where a half-made
  copy is the point, copy word by word. The byte rings copy a
  record in one step. For the MPMC ring that is exact only up to an overrun:
  after one, a consumer could also see half a record, which the model leaves out.
  What an MPMC consumer may read as a header before its claim is `HeadersAt`;
  payload bytes read as a header have any size of `Sizes`, wrap flag or not.
* A program counter per thread (`ppc`, `cpc`, ...) names the next statement;
  the other per-thread variables are the locals of the call, under the names the
  code gives them.
* Byte offsets are counted in 8-byte words, which is exact: `create_mapping`
  rounds the capacity up to `kAlignment`, records are multiples of it and the
  cursors start at 0. Payload sizes stay in bytes and go through `align_up`.
* A message is identified by its producer and number, which stand for `type` and
  for the payload bytes. A payload word is that identity and an index, so a
  payload that is torn, misplaced or overwritten is visible.
* Cursors are natural numbers. They count bytes ever transferred and are assumed
  to stay below 2^64. Differences of two cursors that were loaded at different
  moments do wrap around: `Sub64`.
* `compare_exchange_weak` may fail although the values agree.
* A death is a step of its own: the process takes no further step and the file
  stays as it is. Where the library has a recovery (`claim`), a new process runs
  it.
* The topics build on what the rings were shown to be: a `try_push` or `try_pop`
  of `SpscTopic` and `TypedMessage` is one step on a queue. Their file, threads
  and buffers are not abstracted.
* History variables (`log`, `popped`, `sent`, `deaths`, `resets`, ...) record
  what happened and guard nothing except the named bounds.

Every load and store is sequentially consistent in the models. That this is
enough for the rings is an argument from the code and is not checked: each
cursor that hands memory over is stored with release and loaded with acquire,
and the relaxed loads are of cursors that only the loading thread writes, or of
values that a successful CAS confirms. `SharedLatest` is the exception, where a copy follows a *release*
store; the constant `StoresReorder` lets the copy's stores become visible before
it. `Mapping` has the other one: the header's fields are plain stores, which a
compiler may reorder (`HeaderReorders`). The runs and proofs take them in program
order, which is what g++ 12 emits for x86-64 at -O0, -O2 and -O3.

### State and actions, module by module

**RingWriter** (`ring_writer.hpp`). Control block: `head_reserve`,
`head_publish`, `tail_reserve`, `tail_publish`, `sequence`, and `ring`, the
words. Per producer the locals of `try_push`. Actions: `PushCall` (past the two
early returns), `PushLoadHead`, `PushLoadTail` (with the space test),
`PushReject`, `PushReserve` and `PushRetry` (the CAS), `PushWriteHeader` (wrap
record and header), `PushWritePayload`, `PushTakeTurn` (the spin on
`tail_publish`, and the sequence number), `PushPublish`, `PushCrash`.

**SharedRingBuffer** adds `try_pop`: `PopLoadTail`, `PopSkip`, `PopRead`,
`PopStoreHead`, `PopStoreReserve`. `PopRead` includes the two `return false` for
a malformed record; `HeadIsARecord` shows that they are never taken.

**SharedRingBufferMPMC** adds consumers that load `tail_publish` and
`head_reserve`, read the header of a record they do not own yet, claim it by
CAS, copy, wait for their turn and store `head_publish`. `overrun` records that
a claim went past the tail its consumer had loaded, see the finding below.
`mpmc_two` stops at the first such step (`UpToOverrun`), and its invariants other
than `ClaimsTile` are stated up to it; `mpmc_returns` and
`mpmc_overrun` go on.

**SharedRingBufferSPSC** and **SPSCQueue** have two processes, each of which may
die at any statement and be replaced; `Claim` is the producer's way back, `Open`
the consumer's.

**SharedLatest** has writers (`claim` with its three outcomes, `write`,
`write_and_notify`) and readers that loop over `notify_counter`, one of the two
`try_read` overloads and `wait_for_update`. `steady_clock` is the variable
`now`. `Launch` says how disciplined those who start writers are: one after the
other, several after a death, or at any time.

**Mapping** has the file (whether it exists, its size, the fields of `Header` and
the five cursors) and, per process, the next statement of `create_mapping` or
`open_mapping`. Creating: `CreateFile` (`O_EXCL`), `Truncate`, `MapAndClear`,
`StoreHeader` (one field a step, `flags` last), `StoreControl` (one cursor a
step, again 0). Opening: `OpenFile`, `OpenStat`, `OpenCheck` (magic, version,
flags), `OpenOffsets` (capacity and offsets inside the file; with `Exact` the
comparison of `SPSCQueue` as well). `CallFails` is a failed system call and `Gone`
a death; either leaves the file as it is, and the process may come back.

**PollThread** is what the three subscribers have in common: `Start`, the four
steps of `stop` (`StopCall`, `StopStore` under `mutex_`, `StopNotify`, `StopJoin`),
and the poller's look at `running_`, its lock, its sleep and its timeout. The
mutex is no variable: the poller holds it exactly while it is `"blocking"`.

**SpscTopic** composes the two. Publishers claim (`ClaimCall`: the look at the path
and the `open` are two steps) and publish; the subscriber's process opens, starts,
stops, is destroyed or dies; `PollLoop` pops, calls back and drains once more
after the loop. The model is that of `SpscByteSubscriber`, whose buffer keeps the
tail of a longer message (`Received`); with sizes that are all the same it is that
of `SpscSubscriber`.

**LatestSubscriber** composes `SharedLatest` and `PollThread`: the polling thread
is a reader of the status kind that loads `seq` once more after `try_read` has
returned (`PollResult`), and the publishers are the writers.

**TypedMessage** has the ring as a queue of type and payload, and the reader's
`buffer_`. A value is a sequence of elements of `sizeof(T)` bytes, and a byte
knows which message, element and place it came from; `Encode` lays the elements
out and `Decode` cuts a payload up again.

**Fifo** is the abstract promise: `Send` appends, `Receive` takes the next one,
at most `Bound` in between. The rings implement it under the mapping of `log`
and `popped` to the messages sent and received (`ImplementsFifo`).

## What is checked

Passing runs:

| run | instance | shows |
|---|---|---|
| `mpsc_safety` | 2 producers, each may die; capacity 6 words; records of 2, 3 and 7 words | `RingInv`, `HeadIsARecord`, `PoppedIntact`, `ImplementsFifo` |
| `mpsc_liveness` | 2 producers that retry; capacity 7, records of 3 and 5 words | `PushReturns`, `PublishedIsPopped`, `RetriesSucceed` |
| `spscq_crash` | 2 slots of 2 words, 6 values, 2 deaths | `NoSharedSlot`, `CommittedSurvives`, `QueueInv`, `ImplementsFifo`, `PublishedIsPopped` |
| `spsc_crash` | capacity 7; records of 2, 5 and 8 words; 1 death of each process | `RingSafe` (cursors, regions, headers and popped records), `GapsAreDeaths`, `ImplementsFifo`, `PublishedIsPopped`, `RetriesSucceed` |
| `mpmc_two` | 1 producer, 2 consumers that may die; capacity 6 | `ClaimInv`, `ClaimsTile`, `ClaimsAreRecords`, `CopiesUndisturbed`, `PoppedIntact` |
| `mpmc_returns` | 1 producer, 2 consumers, overruns included | `PopReturns` |
| `latest_recovery` | 2 processes racing to recover | `RecoveryIsExclusive` |
| `latest_notify` | 1 writer, 2 readers, no timeouts, reordered stores | `UpdateIsRead` |
| `latest_topic` | 1 writer that may die and recover, 1 subscriber, values of 2 words | `ReaderSafe` (`SnapshotIsCurrent` with types), `DeathIsSeen`, `SkippedIsShown`, `DeathShows` |
| `spsc_topic` | 1 publisher and 1 subscriber, each of which may die or fail once; 2 starts; 3 messages of 2, 1 and 2 words; 2 slots | `TopicInv`, `HeaderIsWhole`, `StoppedIsJoined`, `DeliveredInOrder`, `StopDelivers`, `CursorsOnlyGrow`, `FinishedFileOpens`, `StopReturns`, `PublishedIsDelivered` |
| `typed_messages` | 3 messages, raw and typed, of every kind and of 0 to 6 bytes | `ValueComesFirst`, `ExactUnlessLonger` |

Some of these hold under a condition that is part of the property, because the
code promises no more:

* `ClaimsAreRecords`, `CopiesUndisturbed`, `PoppedIntact` and the second half of
  `ClaimInv` of the MPMC ring: as long as no claim overran.
* `SnapshotIsCurrent`: no recovery reset `seq` during the call. Without the
  condition the snapshot can be torn (`MCSharedLatest_torn` below). The run also
  has `StoresReorder = FALSE`; see `MCSharedLatest_weak` below.
* `DeathIsSeen`: the dead writer had completed a write, so the heartbeat is not 0
  (`MCSharedLatest_firstwrite` below shows the other case).
* `RecoveryIsExclusive`: two processes recover from the same death at once only
  when one has been at it for the threshold. Processes start to claim only when
  the others are dead or recovering (`Launch = "race"`).
* `SkippedIsShown`: `seq` did not move between `try_read` and `raw_sequence`, and no
  recovery has started the numbers again (`MCLatestSubscriber_missed` below).
* `DeathShows`: a death in the middle of a write reaches the death callback; after
  one between two writes only `is_writer_alive` tells
  (`MCLatestSubscriber_silent`).
* `TopicInv`, `CursorsOnlyGrow`, `DeliveredInOrder` and `StopDelivers`: publishers
  are started one after the other (`Supervised`), as a single-producer queue asks
  of its users (`MCSpscTopic_two` shows the other case).
* `FinishedFileOpens`: the creator got as far as the last field of the header
  (`MCSpscTopic_half`).
* `RetriesSucceed`, of the MPSC and of the SPSC ring: a caller whose every push
  outgrows the ring (`OutgrowsRing`) is refused for ever. Such a record is no larger
  than the ring, but it does not fit between the tail and the end of the ring, and
  the padding counts against the capacity: padding plus record exceed it although
  the ring is drained. The tail then moves only when a push of another size
  succeeds. Both instances contain the case, and without the exception the
  property fails in them (`MCSharedRingBuffer_refusal` and
  `SharedRingBufferSPSC_refusal` below). The MPMC ring has the same `try_push`.
* `ExactUnlessLonger`: no longer message was popped before through the same
  reader (`TypedMessage_stale`).

Every property has a mutant: a plausible bug in one mapped definition (an
operator named `Definition_WhatIsWrong`, just before the definition) under
which TLC finds the property violated.

### The bounds and why they are enough

* Capacities of 4 to 7 words with records of 2 and 3 words bring the tail to
  every kind of place: a record that fits exactly, one that needs a wrap record,
  a remainder too short for a header, a full and an empty ring. The runs of
  `RetriesSucceed` have records of 5 words in a ring of 7, which at some tails fit
  behind their padding and at others outgrow the ring. A size that exceeds the
  ring exercises the early return.
* `MaxPush` gives enough messages to go round the ring at least once, so words
  are reused while other calls are under way.
* Two producers (or two consumers) are enough for the races of the code: every
  comparison is between one thread and the value the others left behind. The
  proofs, which are for any number, confirm it for the safety properties.
* Values of two words are the smallest that can be torn.
* `MaxTime` leaves room for a heartbeat to become older than the threshold;
  `SpinCheck` and `MaxRetries` shrink the 64 and the retry limit of the code to
  1 or 2.
* One publisher that may come back and one subscriber are every pair of processes
  of a topic that work at the same time. Three messages fill the two slots, go past
  them and leave a longer message before a shorter one. Two starts are enough for
  a thread that was not joined to meet the next `start`. With two supervised
  publishers `TopicInv` holds as well (503,930 states), and the proof is for any
  number.
* Typed messages: lengths of 0, and of both sides of a multiple of the element
  size, after shorter and longer ones.
* `MaxCursor` (MPMC) stops consumers after an overrun, when their cursors run
  away from the tail.
* `U64` stands for 2^64. All that matters is that it exceeds every cursor.

### Fairness

* Weak fairness of a thread inside a call: the operating system schedules it.
  Nothing makes a caller call, except in the properties that say so: the
  `while (!try_push(...)) yield` loops of the tests are `RetryingSpec`.
* Strong fairness of a producer's CAS (`ProducerReserves`): a CAS that could
  succeed time and again does not fail spuriously for ever. This is an assumption
  about the hardware's `compare_exchange_weak`. Competition cannot starve a
  producer in these instances because `MaxPush` bounds it; the CAS loop is not
  wait-free, and nothing here shows that a producer survives unbounded
  competition. The MPMC consumer's CAS gets no strong fairness: `PopReturns` is
  about one round of the loop.
* A process that died takes no step. In `SPSCQueue` and `SharedRingBufferSPSC` a
  supervisor restarts the dead process (weak fairness covers `Claim` and
  `Open`), which is the scenario `claim` is written for.
* `mutex_` of a subscriber is taken by the poller for a moment in every round;
  `StopStore` gets strong fairness, for a mutex that is free time and again goes to
  the owner some day. The C++ standard promises no fair mutex; pthread's gives
  this in practice, because the poller sleeps or works between two rounds.
* The timeout of a poller's wait is *not* fair in `SpscTopic`: `StopReturns` holds
  by the notification alone. `PublishedIsDelivered`, where nothing but the timeout
  wakes the poller, assumes it in the property. `LatestSubscriber`, which is woken
  by nothing else either, has it in `LatestSpec`, together with the clock.
* `StopReturns` is for the finitely many messages of the instance. A publisher that
  refills the queue whenever the poller looks keeps it in the drain loop
  (`ipc_adapter.hpp:331`), which does not look at `running_`.
* The futex wait has *no* fair timeout: `UpdateIsRead` shows that notification
  alone suffices.

TLC's deadlock check says little here. In the MPSC and SPSC byte rings the
consumer's poll is always a step, so it cannot fail; in the other models the
system comes to rest at a bound (every value pushed and popped, `MaxCursor`, the
clock) and the runs say `CHECK_DEADLOCK FALSE`. That nobody waits for ever is what
the liveness properties are for.

## Where code and documentation disagree

In one run TLC finds a sentence of the repository violated; `PROJECT.json` quotes
it.

| run | property | what happens |
|---|---|---|
| `mpmc_overrun` | `PoppedOnce` | `tail_publish` is loaded before `head_reserve`. When another consumer moves the head past the loaded tail, `tail - head` wraps around, all size tests pass and the consumer claims words that are not published. A message can be popped twice. |

The following were obtained with TLC in the same way. They are not among the
project's runs; the configurations are kept so that they can be repeated with
`tlc -config <cfg> <module>`.

| configuration | property | what happens, against which sentence |
|---|---|---|
| `MCSharedLatest_torn` | `NoTornRead` | A recovery resets `seq` to 0, the value it had before the first write. A reader that loaded 0 then and copies across the recovery accepts a mixture; shared_latest.hpp:42 "Readers never see torn payloads". |
| `SharedRingBufferSPSC_refusal` | `EmptyIsNotFull` | A message that fits is refused by an *empty* ring when padding plus record exceed the capacity, and however often it is retried; ipc_adapter.hpp:376 "Returns false if the ring buffer is full". |
| `MCSharedRingBuffer_refusal` | `EveryRetrySucceeds` | The same in the MPSC ring, and so in the MPMC ring: capacity 6, push and pop 2 words, then 5 words are refused for ever, since 4 + 5 > 6 (ring_writer.hpp:62). No sentence of the repository denies it; a `while (!try_push(...))` loop, as the tests have for records of one size, does not end here. |
| `MCSharedRingBuffer_crash` | `SurvivorsReturn` | A producer that dies between its CAS and its publication leaves all later producers spinning; README.md:6 "MPSC lock-free ring buffer". |
| `MCSharedRingBufferMPMC_crash` | `SurvivorsReturn` | The same for a consumer that dies after its claim; README.md:7 "MPMC lock-free ring buffer". |
| `SPSCQueue_size` | `ProducerRecovers` | A queue whose slots do not add up to a multiple of 8 bytes can be created but neither opened nor claimed; spsc_queue.hpp:65 "resuming from an existing one". |
| `MCSharedLatest_weak` | `NoTornRead` | The odd `seq` is a release store, which does not order the copy behind it; shared_latest.hpp:42 "Readers never see torn payloads". |
| `MCSharedLatest_takeover` | `SoleWriter` | `claim` resumes the slot of a live writer that is between two writes; shared_latest.hpp:70 "the caller is the sole writer". |
| `MCSharedLatest_slow` | `LiveIsNotDead` | The heartbeat is as old as the last write, so a writer that paused is reported dead during its next write; shared_latest.hpp:44-45. |
| `MCSharedLatest_firstwrite` | `EveryDeathIsSeen` | A death in the very first write leaves the heartbeat 0, which never counts as old; README.md:118 "readers get `kWriterDead`". |
| `MCLatestSubscriber_missed` | `EveryNewValueIsShown` | A write between `try_read` and `raw_sequence` makes the subscriber remember the new number with the old value, and it never shows the new one; ipc_adapter.hpp:127-128 "Invokes a user callback whenever a new value is read". |
| `MCLatestSubscriber_silent` | `DeathIsTold` | A writer that dies between two writes leaves an even `seq`, and `try_read` goes on to succeed; ipc_adapter.hpp:129 "invokes a death callback when the writer dies". |
| `MCSpscTopic_half` | `EveryFileOpens` | A creator that dies before `flags` is stored leaves a file that `claim` finds and cannot open, until somebody deletes it; spsc_queue.hpp:65 "creating the file or resuming from an existing one". |
| `TypedMessage_stale` | `RoundTrip` | A string that follows a longer message comes back longer than it was pushed, because `try_pop` of the rings never shrinks a vector and the reader hands the whole of it to `decode` (`SpscByteSubscriber` gives it to its callback in the same way); tests/test_typed_message.cpp:93 expects the value that was pushed. |

Two more show what an assumption is for. `MCSpscTopic_two` starts two publishers at
once: one opens the file when its header is finished and publishes, and the other,
which is creating it, stores 0 over the cursor (`CursorsOnlyGrow`).
`MCSpscTopic_reordered` lets the header's fields be stored in any order: a process
that opens the file finds `flags` and not yet the capacity (`HeaderIsWhole`).

`MCSharedLatest_seqlock` passes: `SharedLatest` on its own, with a reader of both
kinds, keeps its types, the inductive invariants `SeqlockInv` (with
`SnapshotIsCurrent`) and `DeathInv`, `DeathIsSeen`, and `ReadsNeverGoBack`: a read
never returns an older value than the one before it. (With `StoresReorder` it does.)
`MCSharedRingBufferMPMC_alone` (two producers, one consumer) passes: without a
second consumer nothing overruns and the MPMC ring implements `Fifo`.

## What is proved

Every safety property that a run checks is also a theorem, with the exceptions
named at the end. The theorems are for every set of producers, consumers, writers
and readers, capacity, set of payload sizes, number of pushes and of deaths. The
assumptions are those of the modules: the capacity holds at least a header
(`SPSCQueue`: one slot), a value has at least one word, sizes, bounds and `U64`
are natural numbers, those who may die are among the processes, and `try_read`
looks at the heartbeat at least once before its retries run out (every 64 of 1024
in the code). TLC evaluates them in the runs. A theorem that needs more says
so in its statement: `LoneConsumer`, `Supervised`, `Launch` or `StoresReorder`. The
proofs are about the models, so about sequentially consistent memory and cursors
below 2^64.

**MPSC ring.** `TypeCorrect`, `ReservationsTile`, `RingInvariant`,
`CursorsOrdered`, `DeliveredIntact`, `HeaderFound`, `NoDataRace`, `RecordFits`,
`NoPushLost`, `DeadBlock` and `RefinesFifo` (the ring implements `Fifo` with a bound
of `Capacity \div HeaderWords` messages).

None of the properties is inductive. That the consumer finds a header depends on
what producers stored; that the store is still there depends on the other
producers staying in their reservations; that those do not reach back into
unread records depends on the space test, which used an old `head_publish`; and
that test is sound because the head only grows, which depends on the consumer
finding headers. `RingInv` closes the circle with one conjunct per link. All but
the last are about `try_push` and make up `WriterInv` of `RingWriter`:

* `Reservations`: the calls between their CAS and their publication tile
  `tail_publish .. tail_reserve` without gap or overlap, dead producers included.
* `Layout`: the published records follow one another from cursor 0 to
  `tail_publish`, padded as `Padding` says.
* `Snapshots`: the `head` of a call is not newer than `head_publish`, and the
  room computed from it is there.
* `Writing`: the words a call has stored so far are in the ring.
* `Unread`: the words of published records that were not given back are in the
  ring.
* `Consumer`: `head_publish` is at the oldest unread record, or at the padding in
  front of it; the locals of `try_pop` agree; what was popped is intact.

`RingCellLemmas` says that two cursors less than a ring apart have different
words (`PosInjective`), that a record padded by `try_push` lies in one piece
(`RecordSpan`), and what a multi-word store leaves alone (`StoreMisses`).
`RingWriterProofs` shows that every step of a producer keeps `WriterInv`, and that
a consumer keeps it that only moves `head_publish` forward and not past
`tail_publish`. It knows nothing else of consumers, and serves both rings.

`DeliveredIntact` compares what is popped with what was published. `NoPushLost`
compares it with the calls of `try_push` that returned true: each is popped once or
still in the ring word for word, nothing else is, and the calls of one producer keep
their order (`EachPushOnce`). It rests on a second invariant, `Accepted`, which ties
the log to what each producer was told. `DeadBlock` is the price of publishing in
turn: from the death of a producer that holds a reservation on, `tail_publish` never
passes it, so nothing reserved behind it is ever read.

**MPMC ring** (`SharedRingBufferMPMCProofs`). `ClaimInvariant`, `TilesAlways`,
`OnlyRecordsClaimed`, `NobodyDisturbs`, `PoppedInOrder`, `NoPushLost`, `DeadBlock`
and `FifoUntilOverrun`, for any number of producers and consumers;
`LoneNeverOverruns`, `LonePopsOnce` and `LoneRefinesFifo` for one consumer. `ClaimInv` has a part that survives an overrun (the reservations
and the claims tile; a snapshot is old; no claim is empty) and one that holds up to
it, `Delivering`:

* `WriterInv`, which says where the records are;
* `HeadIsABoundary`: `head_reserve` is the start of a record, of its padding, or the
  end of the log, so a header read *at* it is a header;
* `ConsumerOf`: if the CAS of a consumer can still succeed, `head_reserve` has not
  moved since the header was read, and the words in between are one record or one
  stretch of padding; what was claimed stays so, because the words are given back
  only in turn;
* `Given`: the records popped are those behind `head_publish`.

The header is read before the claim, so what it holds is not known when it is read;
that is why `ConsumerOf` speaks of it under the condition that the CAS succeeds.
A lone consumer cannot overrun because nobody moves `head_reserve` between its two
loads (`InOrder`). So `PoppedOnce`, which `mpmc_overrun` refutes for two consumers,
is a theorem for one. `DeadBlock` needs no such condition and covers both ends:
`head_publish` never passes the claim of a consumer that died with one either.

**SPSC byte ring** (`SharedRingBufferSPSCProofs`). `RingInvariant`,
`SafeAcrossDeaths`, `GapsCountDeaths` and `RefinesFifo`, for any number of deaths of
both processes at any statement. Padding is published on its own here, and a death
may separate it from the record behind it, so the ring is described by edges:
`Edge(k)`, where the k-th record ends, and `Front(k)`, where the next one begins, are
the same or have padding up to the end of the ring in between (`Layout`). `Unread`,
`Reading` and `Writing` say what the words hold and what either process knows of
them. After a death `tail_reserve` and `head_reserve` may be ahead for ever;
nothing depends on them, since both calls start from the `publish` cursors.
`Numbers` counts what deaths cost: a number taken and not in the log belongs to the
record being published or to a producer that died.

**SPSCQueue** (`ValueProofs`). `TypeCorrect`, `QueueInvariant`, `CommittedSurvivesDeath`,
`CopiesApart` and `RefinesFifo`, deaths and restarts of both processes included.
`QueueInv` ties the two cursors to the number of values pushed and popped, and
says that the slots between them hold whole values.

**Queue topics** (`SpscTopicProofs`), for any number of publishers, capacity,
messages, slots, faults and starts, with header stores in order
(`~HeaderReorders`). `HeaderWhole` needs nothing else: whoever has the file open
has read a finished header. `TopicInvHolds`, `StopJoins`, `StopDrains`,
`DeliveryInOrder` and `CursorsGrow` are for supervised publishers.

`HeaderIsWhole` is about processes past their tests, and says nothing of the
header that the next one will load. `MappingInv` adds what makes the tests
sufficient: at most one process is between `O_EXCL` and the last field, the
stored fields are a prefix of `Fields`, and a process past the look at `flags`,
which comes last, finds none missing. `TopicInv` adds three groups of facts, each
needed by the next:

* `CreationInv`: as long as a creator may still store zeros, the cursors are all
  zero, because nobody else can be past `claim`. So no cursor goes back.
* `ThreadInv`: which of the owner's and the poller's statements go together; there
  is a thread from `start` to the end of `stop`, and it is past the loop only when
  `running_` is cleared.
* `DeliveryInv`: what was popped was delivered, is in hand, or was lost in a death;
  the front of the buffer is the message in hand; and when the thread has ended,
  the head has reached what was published before `stop`.

The proof has one lemma per group and action. The only fact about data is what
`Received` does to a buffer (its front is the message, whatever was there).

**Latest values** (`LatestProofs`), the slot on its own and with its subscriber.

* `OneRecovery`: if processes claim only when the others are dead or recovering
  (`Launch # "any"`), two recover at once only when one has been at it for the
  threshold. `RecoveryInv` adds that as long as a recovery is the one a claim began
  with, nobody writes, and that the heartbeat is not older than the clock of a claim
  whose CAS has succeeded; a second CAS needs a heartbeat that is too old by then.
* `DeathSeenBySlot` and `DeathSeenByTopic`: no assumption on `Launch` or
  `StoresReorder`. `DeathInv` says that when nobody writes the heartbeat is not
  later than the last death, and that a call that began late enough after it has
  the first look at the heartbeat still ahead of it (`DeadFor`).
* `WholeSnapshots`, `PollsForward`, `LatestInvariant`, `SubscriberReadsWhole` and
  `SkipsOnlyShown`:
  writers follow one another (`Launch = "one"`) and stores are seen in order
  (`~StoresReorder`); without either they are false, see above. `SeqlockInv`
  says that `seq` is odd from the first word of a write to the last (`WriterAt`),
  that an even one means one whole value (`WritersInv`), and that what a reader has
  copied so far belongs to the `seq` it started from, as long as that is still the
  slot's and there was no recovery (`ReaderAt`). The value is one whose write was
  complete, and not older than the last complete one when the call began. So
  successive reads of a reader never go back (`PollsForward`). `LatestInv` adds `PollingInv`, when
  the thread is inside `try_read`, and `MemoryInv`: `last_seq` is never ahead of
  `seq`, so a number the subscriber remembers cannot come up again for another
  value.
* `LatestStopJoins`: as for the queue topics.

`WritersInv` says in particular that before the file exists every writer is down and
`seq` is 0. TLC never needed that; the proof did, because `write` of a writer
without a file would have been a step.

**Typed messages** (`ValueProofs`), for any sizes of `T`, lengths and number
of messages: `ValueFirst` and `Exact`. `TypedInv` says of every message in the ring
that a typed one carries the encoding of its value, that the buffer is as long as
the longest payload popped so far, and that its front is the last payload. The
steps rest on lemmas about `Encode` and `Decode`: element `k` of what is decoded is
element `k` of what was encoded, also when more bytes follow, and the lengths
agree exactly when no more do.

`PushedOnce` and `DeadKeepPlace`, which `NoPushLost` and `DeadBlock` state, hold as
well on the instances of `mpsc_safety` and `mpmc_two` and on those with a producer or
a consumer that dies (`MCSharedRingBuffer_crash.cfg`,
`MCSharedRingBufferMPMC_crash.cfg`); no run lists them.

TLC checks the inductive invariants `RingInv` of the MPSC ring, `ClaimInv`,
`QueueInv` and `TopicInv` as well (`mpsc_safety`, `mpmc_two`, `spscq_crash`,
`spsc_topic`). The others, `RingInv` of the SPSC ring, `RecoveryInv` and
`LatestInv`, hold on the instances of `spsc_crash`, `latest_recovery` and
`latest_topic`; the runs check the properties they imply.

**Only model-checked:**

* All liveness properties: `PushReturns`, `PopReturns`, `PublishedIsPopped`,
  `RetriesSucceed`, `UpdateIsRead`, `DeathShows`, `FinishedFileOpens`, `StopReturns`
  and `PublishedIsDelivered`. Fairness is about `ENABLED`, which the prover does not
  handle.
* That the MPMC ring overruns, and the violated sentences above: a counterexample is
  TLC's to find.

## What is not modelled

* `approx_size`, `size`, `empty`, `try_read_once` and the accessors: they change
  nothing. (`size()` called by a third thread can wrap around; it is listed as a
  hazard.) `is_writer_alive` and `raw_sequence` occur where a subscriber uses them.
* `topic_path` and `default_shm_dir`, which compute a path. (`topic_path` maps a
  slash and an underscore to the same character, so the topics `a/b` and `a_b`
  share a file.)
* 2^64 wrap-around of cursors; 2^32 wrap-around of the futex word between a
  snapshot and a wait.
* Creation of a file is one step of the rings and of `SharedLatest`; store by store
  it is modelled in `Mapping`, for the queues of `SpscTopic`.
* A `stop` from inside a callback and two threads that call `stop`: one thread owns a
  subscriber in the model.
* Callbacks that throw, and `std::bad_alloc`.
* The benchmarks (`bench/`), which call the library, take times and print; the
  tests and the build. There is no state of the system in them to model.
