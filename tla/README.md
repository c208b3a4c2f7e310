# Formal model of channels-shm

`channels-shm` is a Django Channels layer whose workers, all on one machine, talk
through one file in `/dev/shm`.  Every worker maps the file and runs the native
code of `crates/_channels_shm_native` on it; no server stands between them.  What
can go wrong is therefore what goes wrong with lock-free shared memory: two
processes between each other's loads and stores, a process killed between two of
its own, a reset under running calls.

This directory holds TLA+ modules of that code, TLC configurations that check them
on small instances, and theorems about them that TLAPS has checked for every value
of the constants.  Paths below are relative to the repository.

## 1. Inventory

| Component | State it keeps | Operations | What makes it correct |
|---|---|---|---|
| **Ring** of a channel, hot path (`crates/…/ring.rs`, `layout.rs`) | `enqueue_pos`, `dequeue_pos`, `generation`; per slot `seq`, owner record (pid, ticket, start time), expiry, name, length, overflow offset, inline bytes | `try_enqueue`, `try_dequeue`, `recover_slot` / `repair_slot_to`, `pid_dead` | bounded FIFO; one call inside a slot; intact messages; none skipped; a page has one holder |
| **Ring**, maintenance (`ring.rs` `compact`, `reset`, `init`; `index.rs` `compact`, `flush`) | the same, plus a compaction mark per slot; the global flock | compact under the flock, run by each watchdog; reset under the flock; init when a ring is created | a dead process blocks nobody for ever; repair loses no accepted message; a call that raced a flush retracts |
| **Slab allocator** (`slab.rs`) | per size class a free list and a spinlock; one bump pointer | `alloc`, `free` under the spinlock; `alloc_cold`, `free_cold`, `reset` under the flock | a block has one owner; lists stay whole; nothing is lost; "out of memory" is true; every call returns |
| **Channel index** (`index.rs`, `channel/manager.py`) | slots with a version word, hash, name, ring offset | lookup without a lock; create and repair under the flock; flush | a lookup gives the channel's own ring; a channel has one ring; a dead writer costs no slot |
| **Groups** (`index.rs`, `member.rs`, `group/manager.py`) | group slots with version, count, active; arrays of members with a join time | `add`, `discard`, `get_members`, flush | a snapshot has every steady member and no stranger; the count covers the members |
| **Layout** (`layout.rs`, `region.rs`, `metrics.rs`) | none: field offsets, areas, size classes | `compute_offsets`; the accessors' demands | no two fields share a byte, every access is aligned and inside |
| **Opening the region** (`shm/region.py`, `shm/lock.py`, `layer.py` `_do_initialize`, `lib.rs` `shm_init`) | the file the name leads to, its header, the flock of the file | open, judge, unlink, build, register, close | "ready" means complete; nobody's region is rebuilt under it; all meet in one; everybody gets there |
| **Wakeup registry and sockets** (`shm/wakeup.py`, `layer.py` `_wakeup_*`, `lib.rs` `registry_*`) | registered prefixes and socket paths; eventfd; datagram sockets | register, wake one, wake all, mark dead | a live process stays registered; who watches a ring is told |
| **Receive pump and watchdog** (`pump.py`) | watched channels, bounded buffers | `_on_wakeup`, `drain_rings`, `_watchdog_loop` | no wakeup is lost; what is in a watched ring is fetched |
| **Channel layer** (`layer.py`) | caches, closed flag | `send`, `receive`, `group_send`, `flush`, `close` | composes the above |
| Serializer, validator, metrics, logging, `inspect`, benches, example | none that another component reads | conversions, observation | not modelled: nothing concurrent |

How they interact.  `send` looks the ring up in the index (creating it under the
flock if it is missing), calls `try_enqueue`, and wakes the receiving process
through the registry.  The pump of the receiver calls `try_dequeue` until the ring
is empty and fills the buffer `receive` waits on.  `try_enqueue` and `try_dequeue`
allocate and release overflow pages in the slab.  The watchdog of every process
runs `compact` on each tick, holding the flock; `flush` resets every ring, then the
indexes, then the slab, also holding the flock.  **The hot path never takes the
flock**: whatever compact and flush do, they do beside running calls.

The hard behaviours, with the line where each bites, are the `hazards` of
`PROJECT.json`: interleavings inside `try_enqueue` / `try_dequeue`; the owner record
written in three stores; a process killed in any window of a call, a repair, a
creation, a join or a build; a lookup beside a writer it does not exclude; a
compaction or a flush beside a live call; locks of two kinds that do not exclude each
other; a decision taken under a lock and carried out after it; wakeups that are
coalesced, lost or sent too early; full rings, buffers, sockets and pools.

## 2. Modules

| Module | Models | Built on |
|---|---|---|
| `TicketQueue` | the promise of a ring: a bounded FIFO queue of tickets | |
| `Ring` | `try_enqueue`, `try_dequeue`, `recover_slot`, `repair_slot_to`, `pid_dead`; one action per access to shared memory | implements `TicketQueue` |
| `RingRecovery` | `Ring` + crashes + `Ring::compact` as the watchdog runs it | `Ring` |
| `RingFlush` | `Ring` + `Ring::reset`, `index::flush`, `Ring::init` by the next send | `Ring` |
| `Slab` | `slab.rs`, one action per access to the pool; crashes; `reset` | |
| `ChannelIndex` | `channel_index_lookup`, `channel_index_create`, `flush`, as `ChannelManager` calls them; deaths of a flock holder | |
| `Groups` | `group_index_*`, `group_member*`, `flush`, as `GroupManager` calls them; expiry; deaths | |
| `Layout` | `layout.rs`, `region.rs`: fields, tables, areas, what an access demands; no state | |
| `ShmInit` | opening, judging, unlinking and building the region; registration; kills | `Layout` |
| `Wakeup` | `send`, `group_send`, `receive`, `flush` and `close` of the layer over rings that are queues; registry, sockets, pump, watchdog; kills | |
| `RingProofs`, `RingRecoveryProofs`, `RingFlushProofs`, `SlabProofs`, `ShmInitProofs`, `ChannelIndexProofs`, `GroupsProofs`, `WakeupProofs` | the theorems of section 5 | |
| `MCRing`, `MCRingRecovery`, `MCRingFlush`, `MCSlab`, `MCChannelIndex`, `MCGroups`, `MCShmInit`, `MCWakeup` | values for TLC: start times, crash windows, size classes, hashes, configurations, owners, symmetry | |

The modules abstract each other at their borders: `Ring` takes pages from a set,
and `Slab` is what stands behind the set; `ChannelIndex` and `Groups` take rings and
arrays from a set in the same way; the ring of `Wakeup` is a queue, which is what
`TicketQueue` promises of `Ring`; the region of all of them is the one `ShmInit` builds
and `Layout` lays out.

### Correspondence with the code: the ring

* **A process** runs one call at a time, as the synchronous native calls do.
  `pc[p]` is the access to shared memory it makes next: labels `e_*` are
  `try_enqueue`, with `x_*` its exhausted-slab branch and `c_*` the clearing of the
  record; `d_*` are `try_dequeue`, with `f_*` its fenced branch, `t_*` its expiry
  branch and `y_*` the clearing; `r_*` are the repair, `k_*` are compact.  The
  branches behind a failed fence are the actions of `Fenced(p)`: only a flush leads
  to them, so `RingFlush` adds them to the next-state relation and `Ring` alone does
  not have them.
  `loc[p]` holds the locals that survive an access (`pos`, the sampled `gen`, the
  observed `seq`, the repair's target, the page).
* **A slot** is a record of the words the protocol uses.  `body` stands for expiry,
  name, length and inline bytes.  These are several stores in the code and one
  action here; `SlotExclusive` (nobody else is inside the slot meanwhile) is what
  entitles the model to that, and it is checked by the same runs.  The owner record
  is not abstracted: pid, ticket and start time are three actions.
* **A page** is an overflow block: `ovf` of a slot, or `pg` in a call's locals, or
  an element of `free`.  Pages are of one size class and the slab is a set; its
  lists, locks and bump pointer are in `Slab`.
* **Expiry** is a choice: a message of `Mortal` may have expired when it is looked
  at (`DeqExpiry`).  Time only decides that branch.
* **`PidDead(v, start)`** is `pid_dead`: `v` does not exist, or the recorded start
  time is not the one the kernel reports for it.  `StartTime` is in clock ticks,
  which several processes may share.
* **`FirstTicket`, `FirstStart`** start the ring after some full rounds:
  `seq = FirstTicket + i`, record cleared, start time left over from the last owner
  (only pid and ticket are ever cleared).  `FirstTicket = Capacity` is a ring one
  round old; `Init` with zeros is `Ring::init`.
* **History** (`log`, `base`): `log[n]` is what became of the n-th ticket.  No guard
  reads it.  It is what the abstract queue sees.
* **Memory** is sequentially consistent.  The code publishes with release stores,
  reads with acquire loads and claims with AcqRel compare-and-swaps; reorderings of
  its relaxed accesses are not modelled.

`RingRecovery` adds `Crash(p)`, which stops a process at a label of `CrashPcs`, and
`Compact(p)`: flock, frontier, one scan of the slots with the two-pass mark, the
repair steps of `Ring` with the target `CompactTicket` or `NextTicket` computes.
Three constants narrow *when* a run lets things happen, and each names a gap found
in the code (section 4): `CrashPcs` (where), `Recorded` (the owner record of the
slot is settled at the crash), `Quiet` (compact meets no live call inside the slot
it looks at; compact runs seconds apart, a call takes microseconds, but nothing
enforces it).  The theorems hold without any of them.

`RingFlush` adds the flock holder's steps: generation, positions, then each slot's
`seq`, record and payload, then index, then slab; and the re-creation of the ring
by the next send in the block the wiped slab hands out first.

### Correspondence with the code: the other components

* **Slab.**  Offsets and sizes are in words.  `head`, `link` and `lock` are the words of
  the pool, `list` is what the calls have built, as history: `ListIntact` compares
  them.  `alloc` and `free` go through `lock`; a cold call takes the flock instead
  and goes the same way, as `alloc_cold` and `free_cold` do.  The constant
  `Exclusive` keeps apart what the code does not: two classes at the bump pointer
  ("grow"), a cold call beside a hot one ("cold"), `reset` beside any call ("flush").
  The passing run has all three; each opens a gap of section 4.
* **Channel index.**  A lookup is six actions, one per load another process can
  disturb; a creation is one action per store.  What a flock holder only reads is one
  action, because nobody else writes it.  `hash` and the length are one value
  (`Hash`), names of equal hash included.  `since` is the count of flushes, deaths
  and repairs when a lookup began; the model reads it only in properties.
* **Groups.**  The same for group slots, with their five fields (`Fields`), and for
  member entries; the name of a member is written and read in two halves, so that
  reads of a name being written are torn.  `since[g, c]` is the ghost truth of
  membership: the join time, `Out`, or `Unsure` while a call (or a dead one) is at it.
  `must` and `may` follow, for each running `get_members`, who has to be in the answer
  and who may be.  `MemberWild` is the read of an emptied slot, whose offset 0 is the
  region's header: anything may come out.
* **Layout.**  Offsets and widths are the constants of `layout.rs`, in bytes.
  `Aligned` and `InBounds` are the debug assertions of `region.rs`.
* **ShmInit.**  A file has a size, a header and, for each part `shm_init` writes, the
  configuration it was written for; writing a part voids what lies under it
  (`Built`), which is how tables that overlap would show.  `fd` is the file a process
  has open, which the name need no longer lead to.  `Found` is what the name leads to
  before anybody starts.  `Staggered` lets one process start at a time.
* **Wakeup.**  A process is one thread with its event loop: `pc` is `loop` between two
  callbacks, and a call runs from there to there, interleaved with other processes
  only.  `op` holds the locals of the call.  `evfd` and `sock` are the readable
  descriptors; those of a process that never receives are not kept.  `reg` slots are
  written in two stores (`Torn`).  `ReuseSlots` lets a slot that was given up be taken
  again.  `missed` is history: rings whose sender died before it woke anybody.
* **Left out**: the version word of a registry slot, which nobody reads;
  `_group_slot_cache`, which is written and never read; `get_or_create_ring`'s second
  look at `existed`, which cannot be true under the flock it holds; probes of orphan
  sockets; capacity and `non_local` of a channel slot, which no reader uses.

## 3. Runs

Every run is exhaustive within its bounds.

| Run | Instance | Checks |
|---|---|---|
| `ring_large` | 2 senders, 1 receiver, inline and overflow messages, **one** page | `TypeOK`, `SlotExclusive`, `DeliveredIntact`, `NoneSkipped`, `NoPageLeak`, refinement `ImplementsQueue`. One page makes the slab run out, so tombstones occur. |
| `ring_repair` | 2 senders, 1 receiver with **different start times**, so a live owner may be taken for dead and repaired; overflow messages that may expire, one page | `NoDoubleFree` |
| `recovery_safety` | two crashes at any label up to the last stores of the record; recovery by the hot path and compact; overflow messages | `DeliveredIntact`, `AcceptedNotSkipped` |
| `recovery_live` | 2 senders, 2 receivers (one process is both), messages that may expire; a crash while the record is settled, perhaps of the flock holder | `SlotExclusive`; liveness: `ReadyTaken`, `DrainedAccepts` |
| `flush_fence` | one send, one flush at any moment, receives, one re-creation, a page that may expire | `FTypeOK`, `FenceUntilInit` (action property) |
| `slab` | 3 processes, blocks of 1 and 2 words, a pool of 4, five calls, requests too large, one crash, resets | `TypeOK`, `OneOwner`, `ListIntact`, `NothingLost`, `FullMeansFull`; liveness: `CallsReturn` |
| `channel_index` | 3 processes, 3 channels of one hash, 2 slots, 3 rings, three calls, a flush, two deaths | `TypeOK`, `LookupExact`, `OneRing`, `RealRings`, `FullIsFull` |
| `groups` | 2 processes, 2 groups, 3 channels, 2 slots, arrays of 2, three adds, discards or flushes beside one snapshot, a clock that ticks once, one death | `TypeOK`, `MembersReached`, `OnlyMembers`, `CountCovers`, `GroupsApart` |
| `shm_init` | 3 processes of 2 configurations, 4 files, any file at first, two kills | `TypeOK`, `MagicComplete`, `LiveIntact`, `LiveTogether`, `RegionLaidOut`; liveness: `StartsFinish` |
| `wakeup` | 2 processes, a channel for everybody and one with an owner, rings and buffers of one message, sockets of two datagrams, three sends or flushes, both may die or close, one watchdog | `TypeOK`, `LiveRegistered`, `NoLostWakeup`; liveness: `Drained` |
| `slab_grow`, `shm_double_start` | each opens one gap | expected violations, section 4 |

*Bounds of the ring runs*: a ring of two slots, the smallest `Ring::init` accepts and
the one in which every call meets its neighbours' previous round; `MaxSends` two or
three, so the ring wraps, and a full round is published, consumed and reused (one
send in `flush_fence`: the race is between that send, a receive and the flush);
`SpinBound` one or two (`SEQ_AHEAD_SPIN_BOUND` is 64; the bound only limits how often
a late producer looks again).  Two senders and one or two receivers are every
pairwise race the code has: producer/producer on `enqueue_pos`, consumer/consumer on
`dequeue_pos`, producer/consumer over a slot, repairer/repairer on `RECOVERING`.  The
theorems lift the bounds for the properties they cover.

*Bounds of the others.*  `slab`: two classes are one that shares the bump pointer with
another; with four words the larger class runs out while the smaller still fits, and
five calls fill, free and refill a list beside a third process.  `channel_index`: a
slot less than there are channels, so the index fills; three calls are a creation and
two calls racing it; two deaths are a writer's and its repairer's.  `groups`: three
calls are, for one snapshot, a join, a departure and a join, or a group given up and
created again; three channels for two places are one to keep, one to come and go, and
one too many.  `shm_init`: a third
process with another configuration is what makes the others' region be unlinked; four
files are one found and one for each rebuild.  `wakeup`: with one message a ring is
full and empty in turn, three sends fill ring, buffer and socket.

`ring_large` and the recovery runs set `StartTime` to `SameTick`: all processes of the
ring, present and past, have the same start time in clock ticks.  That is a real
situation (a supervisor forking its workers at once) and the one in which the owner
record is never misread; `ring_repair` is the other one, and checks what is left
there.

`NoPageLeak` is checked without crashes only: a crash between taking a page and
storing it leaks it, as the comments of `ring.rs` accept.

*Deadlock* is checked in `ring_large` and `ring_repair`: a receiver can always
poll.  Elsewhere it is off, because the system may really stop: the last process may
be dead or closed, the calls of the bound are made, and after a flush that no send
follows nobody has a ring to call.

*Symmetry* permutes what the configuration does not tell apart: senders, receivers
(not in `RingRecovery`, where one receiver is the keeper) and pages; processes, names
and blocks in `channel_index` and `groups`; the liveness runs use none.

*Fairness* (`RFairSpec`): a live process inside a call goes on (`WF` of
`Continue(p)`): the operating system schedules it and no step of the calls blocks.
The watchdog of a live receiver drains the ring and runs compact again and again
(`SF` of `Poll` and `CompactStart`): `pump.py:244-292` compacts on every tick and
drains when no wakeup has for two intervals; both compete for the process with its
other calls, hence strong fairness.  Nobody is assumed to send.  In `Slab`, `ShmInit`
and `Wakeup` a live process that is inside a call goes on (`WF` of `Step` or `Run`): it
is scheduled, and the waits are the modelled ones (spinlock, flock), which the kernel
or another process ends.  In `Wakeup` the event loop also serves a readable
descriptor, a sleep that ended, the interval of the watchdog and a `receive()` whose
buffer has something.  Nobody has to begin a call, to close or to die.

## 4. Where the code does not do what it says

Two have a run with a TLC counterexample; `PROJECT.json` `findings` quotes the text.

1. `slab_grow` – two size classes that grow at once read the same bump pointer
   (`slab.rs:152`), because each holds its own spinlock only, and return one block
   twice.
2. `shm_double_start` – two processes that start at once both find no region and both
   build (`layer.py:358-387`): the flock is released between the judgement and the
   building, which does not judge again.

The others were found with the same modules.  Their properties or constants are in
the modules; the last column says how to see them: the changes to a configuration, and
the one property to check with it (the liveness ones without symmetry).

| Where | What | How |
|---|---|---|
| `ring.rs:193` | Between the stores of pid and start time the record names the new owner with the old start time.  If these differ, another process takes the live owner for dead and recycles its slot. | `RingRepair.cfg`: `SlotExclusive` |
| `ring.rs:193` | The pid is stored before the ticket.  A producer dies in between in a slot whose `ticket` is from before the flush; `recover_slot` puts the slot at that ticket plus `capacity`, which in the first round is "ready" for the last slot: a message nobody wrote is delivered. | `RecoverySafety.cfg`, `Keepers = {}`, `MaxCrashes = 1`, `FirstTicket = 0`: `DeliveredIntact` |
| `ring.rs:356` | The expiry branch gives the slot back before it takes the overflow page out of it, and may take and free the page of the next message. | `RingLarge.cfg` with `Mortal = {big}`, two pages: `DeliveredIntact` |
| `ring.rs:264` | A producer dies between publishing and clearing its pid; the slot is recovered and the accepted message lost. | `RecoverySafety.cfg`, `CrashPcs <- Published`: `AcceptedNotSkipped` |
| `ring.rs:335` | A consumer dies between claim and record and the ring then drains: compact never acts and every send finds the ring full. | `RecoveryLive.cfg`, `CrashPcs <- D1`, `Recorded = FALSE`: `DrainedAccepts` |
| `ring.rs:70` | `Ring::init` sets the generation back to 0: a call from before the flush passes the fence of the ring created after it. | `FlushFence.cfg`, `MaxSends = 2`: `FenceCatches` |
| `ring.rs:583` | compact reads `seq` and then the pid; a publication in between makes a live slot look stuck, and the mark that should confirm it may be of another round. | `RecoverySafety.cfg`, `Quiet = FALSE`: `DeliveredIntact` |
| `ring.rs:599` | The comment calls `enq - deq <= cap` "an invariant of CAS-claim admission"; tickets given back as tombstones let producers run further ahead. | a trace of `ring_large` |
| `ring.rs:4` | "Only a compact repair racing an in-flight producer can push a slot's seq past the producer's ticket"; a load of `enqueue_pos` that is a round old is enough. | a trace of `ring_large` |
| `ring.rs:151` | A producer dies between claim and record in a ring that is not full: the messages after it wait until further sends fill the round. | `RecoveryLive.cfg`, `CrashPcs <- E1`, `Recorded = FALSE`, `Capacity` and `FirstTicket` 3: `ReadyTaken` |
| `slab.rs:207` | A cold call beside a hot one of the same class: both pop one block, or a push is lost. | `Slab.cfg`, `Exclusive <- ColdBeside`: `OneOwner`, `ListIntact` |
| `slab.rs:239` | `reset` beside a call: the spinlock is taken from under its holder. | `Slab.cfg`, `Exclusive <- FlushBeside`: `LockHeld` |
| `index.rs:77` | "Seqlock write protocol keeps lockless lookup safe": a repair begins with the odd version it found, so a lookup that met the dead writer does not notice. | `ChannelIndex.cfg`, no flush: `LookupSafeBesideRepair` |
| `index.rs:161` | A lookup skips a group whose version is odd, and every join or departure makes it odd for a moment: a `group_send` at that moment reaches nobody. `group/manager.py:111` says "lock-free (the index lookup is seqlock-safe". | `Groups.cfg`, `MaxCrashes = 0`: `NobodyMissed` |
| `index.rs:174` | The array offset is read after the version was checked: a slot that changed hands in between gives the members of another group. | the same: `SnapshotOfGroup` |
| `member.rs:115` | "member reads are atomic" (`group/manager.py:112`); the 128 bytes of a name are not. | the same: `WholeNames` |
| `member.rs:58` | Entries swept for age stay in the count, so a group without members stays active. | the same: `EmptyIsInactive` |
| `layer.py:343` | The pool is taken to be as large as the process's own `shm_size` says, which `validate_config` does not compare: a process that joins a smaller region lets the slab allocate beyond what is mapped. | `ShmInit.cfg`, `Wish <- OtherSize`: `LiveIntact` |
| `layer.py:680` | "no TOCTOU window" (`layer.py:659`): the slot of a dead process may belong to a new one when it is marked. | `Wakeup.cfg`, `ReuseSlots = TRUE`, `Procs = {p1, p2, p3}`, `MaxProcesses = 3`, `Mortal = {p2}`: `LiveRegistered` |
| `layer.py:1052` | `group_send` wakes an owner after the first of its channels; what it then puts in the ring for the second wakes nobody if the owner was quick. | `Wakeup.cfg`, `Owner <- Owner3`, `Members <- TwoOfOne`, `Channels = {own, own2}`: `NoLostWakeup` |

## 5. Proofs

TLAPS checks the following for **every** number of processes, slots, pages and
messages, with `Senders` and `Receivers` free to overlap, and any number of sends,
crashes or flushes; for `Layout`, for every configuration; for `ShmInit`, for any
number of processes and files, any contents found and any number of kills; for
`ChannelIndex`, for any number of processes, names, hashes, slots, rings, calls,
flushes and deaths; for `Groups`, for any number of processes, groups, channels, slots,
arrays, calls, ticks and deaths; for `Wakeup`, for any number of processes, channels and
registry slots, rings, buffers and sockets of any size, and any number of sends, flushes
and deaths; for `Slab`, for any number of processes, size classes, calls and deaths and
a pool of any size.  The assumptions on the constants are `CapacityAssumption` (what
`Ring::init` demands),
`ConstantAssumption` and the typing assumptions of the extending modules;
`ShmAssumption`, that there is a file to open and that a process is told to build a
region its tables and a first slab word fit in; `IndexAssumption`, which types the
constants of the channel index, and `GroupsAssumption` and `WakeupAssumption`, which do
for the groups and the wakeups; `ClassesAssumption`, that the size classes ascend (the
crate asserts it when it is compiled), and `PoolAssumption`, which types the pool.
Seventeen theorems have hypotheses besides.  Each excludes a situation in which the
property is false, as section 4 shows, in which it does not speak, or, for a second
crash beside compact, in which TLC alone has looked:

* `SameStart`: every start time, of the processes and left in the slots, is the same
  number of ticks, so no live owner is taken for dead (section 4,
  first row).  `SameTick` gives the constants such values in the passing runs.
* `CrashesRecorded`: `SameStart`, every producer has recorded itself and its ticket
  before it can die (`Recorded`), and processes die only at labels where they hold the
  ticket they recorded or hold nothing (`CrashPcs \subseteq Inside`).  What happens
  otherwise are the rows on `ring.rs:193`, `:151`, `:264` and `:335`.
* `RepairsFound`: nobody runs compact, or compact finds the ring quiet
  (`Quiet`) and one process dies at most.  Beside live calls a mark may be of
  another round (`ring.rs:583`); beside a second death too, where `recovery_safety`
  finds no harm within its bounds.
  `RecoveryLive.cfg` has both hypotheses.
* `Due`: no message expires in the ring, or no message needs an overflow page
  (`ring.rs:356`).  `ring_large` is the first case, `recovery_live` the second.
* `KeptApart`: what the slab leaves to luck does not happen (section 4): a reset beside
  a call, a call under the flock beside one under a spinlock, two classes at the bump
  pointer.  `Slab.cfg` has it; `SlabGrow.cfg` is what happens without its last part.
* `~ReuseSlots`: a slot of the registry that was given up is not taken again
  (`layer.py:680`).  `Wakeup.cfg` has it.
* `Fits`, and a finite set of processes: the registry has a slot for every process; the
  code only logs a warning when it is full, and nobody wakes who is not in it.
* `OneEachOwner`: the group has one channel of a process at most (`layer.py:1052`).
  `Wakeup.cfg` has it.
* `Staggered`: one process at a time is between opening and registration.  The run
  `shm_double_start` is what happens without it.
* `OneSize`: processes that `validate_config` lets into one region ask for one
  `shm_size`, which it does not compare (`layer.py:343`).  `ShmInit.cfg` has it.

| Theorem | Says |
|---|---|
| `RingProofs!TypeCorrect` | `Spec => []TypeOK` |
| `RingProofs!PagesNotDoublyFreed` | `Spec => []NoDoubleFree` |
| `RingRecoveryProofs!RecoveryTypeCorrect` | `RSpec => []RTypeOK` |
| `RingRecoveryProofs!RecoveryKeepsPages` | `RSpec => []NoDoubleFree`, for crashes anywhere and compact beside live calls (`Quiet` either way) |
| `RingRecoveryProofs!RecoveryExclusive` | `CrashesRecorded /\ RepairsFound => (RSpec => []SlotExclusive)`: no repair lets a second call into a slot |
| `RingRecoveryProofs!RecoveryAccepted` | `CrashesRecorded /\ RepairsFound => (RSpec => []AcceptedNotSkipped)`: no repair gives up a ticket whose send was accepted |
| `RingRecoveryProofs!RecoveryIntact` | `CrashesRecorded /\ RepairsFound /\ Due => (RSpec => []DeliveredIntact)`: no crash and no repair mixes messages |
| `RingFlushProofs!FlushTypeCorrect` | `FSpec => []FTypeOK`, flushes and re-creations included |
| `RingFlushProofs!FenceHolds` | `FSpec => FenceUntilInit`, for any number of flushes and re-creations; after a re-creation the fence does fail (section 4) |
| `RingProofs!SlotsExclusive` | `SameStart => (Spec => []SlotExclusive)` |
| `RingProofs!NothingSkipped` | `SameStart => (Spec => []NoneSkipped)` |
| `RingProofs!MessagesIntact` | `SameStart /\ Due => (Spec => []DeliveredIntact)` |
| `RingProofs!PagesNotLost` | `SameStart /\ Due => (Spec => []NoPageLeak)` |
| `RingProofs!RingIsQueue` | `SameStart /\ Due => (Spec => ImplementsQueue)`: initial states map to initial states, each access to shared memory is one step of `TicketQueue` or a stutter |
| `ShmInitProofs!StructuresAreWellLaid` | in every structure the fields share no byte, are aligned and inside |
| `ShmInitProofs!LayoutAlwaysSound` | `HasLimits(c) => LayoutSound(c)`: disjoint, aligned areas, and legal accesses to every field of every slot |
| `ShmInitProofs!StartTypeCorrect` | `Spec => []TypeOK` of `ShmInit` |
| `ShmInitProofs!ReadyIsLaidOut` | `Spec => []RegionLaidOut`, for any interleaving of starts (`Staggered` either way) |
| `ShmInitProofs!ReadyIsComplete` | `Staggered => (Spec => []MagicComplete)`, with kills anywhere |
| `ShmInitProofs!AlikeMeet` | `Staggered => (Spec => []LiveTogether)` |
| `ShmInitProofs!LiveStayIntact` | `Staggered /\ OneSize /\ IsFiniteSet(Procs) => (Spec => []LiveIntact)`; the property itself asks a registry slot for every process of the configuration (`Roomy`) |
| `ChannelIndexProofs!IndexTypeCorrect` | `Spec => []TypeOK` of `ChannelIndex` |
| `ChannelIndexProofs!LookupsAreExact` | `Spec => []LookupExact`, beside any creations, with any names of one hash |
| `ChannelIndexProofs!ChannelHasOneRing` | `Spec => []OneRing`, with creators killed anywhere |
| `ChannelIndexProofs!SlotsLeadToRings` | `Spec => []RealRings`, during a flush too |
| `ChannelIndexProofs!FullIndexIsFull` | `Spec => []FullIsFull` |
| `GroupsProofs!GroupTypeCorrect` | `Spec => []TypeOK` of `Groups` |
| `GroupsProofs!ActiveGroupsApart` | `Spec => []GroupsApart`, with processes killed anywhere |
| `GroupsProofs!CountIsEnough` | `Spec => []CountCovers` |
| `GroupsProofs!SnapshotOnlyMembers` | `Spec => []OnlyMembers` |
| `GroupsProofs!SnapshotReachesMembers` | `Spec => []MembersReached` |
| `WakeupProofs!WakeupTypeCorrect` | `Spec => []TypeOK` of `Wakeup` |
| `WakeupProofs!LiveStayRegistered` | `~ReuseSlots /\ IsFiniteSet(Procs) => (Spec => []LiveRegistered)`; the property itself asks `Fits` |
| `WakeupProofs!WakeupsNotLost` | `~ReuseSlots /\ IsFiniteSet(Procs) /\ Fits /\ OneEachOwner => (Spec => []NoLostWakeup)`, with processes killed anywhere |
| `SlabProofs!SlabTypeCorrect` | `Spec => []TypeOK` of `Slab`, whatever `Exclusive` allows |
| `SlabProofs!BlocksHaveOneOwner` | `KeptApart => (Spec => []OneOwner)`, with deaths anywhere |
| `SlabProofs!FreeListsAreWhole` | `KeptApart => (Spec => []ListIntact)` |
| `SlabProofs!PoolIsAccountedFor` | `KeptApart => (Spec => []NothingLost)` |
| `SlabProofs!OutOfMemoryIsTrue` | `KeptApart => (Spec => []FullMeansFull)` |

**The token argument.**  A page is a token: in the slab, in one slot, or in one
call's hands.  `NoDoubleFree` says tokens are not copied.  It is not inductive: a
call at `d_claim` with no page would compare `None` with the `None` of an empty slot,
"win", and free nothing; a call that enters `e_body` with a page left in its locals
would carry one that is not its own.  `KnownPages` excludes both: at the claiming and
freeing labels the call has a page, before allocation it has none.  The induction is
`IInv == WordsOK /\ KnownPages /\ NoDoubleFree /\ HistoryOK`.  Most steps are calm
(`CalmStep`): they move no page.  Five move one: allocation, `EnqOverflow`, the
compare-and-swap of `ClaimOverflow`, `FreePage`, and a crash, which takes the token
away.  The compare-and-swap is what makes it work whoever else is in the slot, which
is why the theorem needs neither `SlotExclusive` nor a right verdict of `PidDead`.

Types need the same strengthening: `FreePage` puts `loc[p].pg` in `free`, so
`free \subseteq Pages` is `KnownPages` again.  `Kept` states both halves of a step
separately, because a flush keeps `WordsOK /\ KnownPages` and breaks `NoDoubleFree`
(it wipes the slab under a call that carries a page).

**The fence argument.**  `Counts`: since a call sampled the generation, and unless the
ring was created again meanwhile, the generation has moved exactly as often as a flush
has begun.  Both counters move together in `FlushBegin`, a sample sets both
differences to zero, and `InitGen`, which sets the generation back, takes every
earlier sample out of the statement.  `Steady` says what a step may do to the sample:
end or restart the call, take it, or keep it.  `PastFence` says `EnqFence` and
`DeqFence` are the only ways past.

**The order argument.**  `SlotExclusive` speaks of two calls and one slot, and no step
can be shown to keep it without knowing why the second call is not let in.  The
reason is the slot's `seq`.  `Ordered` says it in parts: `Entries` – the fate of a
ticket fixes its slot's `seq` (`claimed`: the ticket; `ready`, `taken`: one more; ended:
at least a round more), and which side of the consumer position it may be on;
`Rounds` – every slot's `seq` is empty for a ticket of that slot at most a round ahead,
or ready for one that was taken; `Calls` – a call inside a slot owns the entry its
locals name, whose fate goes with its label, and a call about to compare-and-swap a
position has read a `seq` that still stands if the position does;
`Alone` – no two calls own one entry.  Two calls inside one slot would own two
tickets of that slot, both unfinished, which want `seq` to have two values.
`Sound` keeps the repair and the fenced branches out: with `SameStart` the verdict
of `pid_dead` on a process of the ring is always "alive".  `Entries` gives
`NoneSkipped` directly.

**The contents argument.**  `Contents` follows one message: in the call that holds it,
in the body and the page of the slot from `e_ovf` on, in the slot while the entry is
`ready` (`ReadyOK`), and in the consumer's locals.  A step elsewhere cannot disturb it:
a write to the slot needs a call inside it (`SlotsExclusive`), a write to the page
needs its token (`NoDoubleFree`), and a page leaves a slot only through the call
that owns it, which is where `Due` enters.  The same for the page alone is `Ledger`:
a slot has a page only while a ready entry, or a call between its store and its claim,
uses it (`Used`), so `e_ovf` never writes over one, and `PagesNotLost` follows.  The
expiry branch gives the slot up before it has taken the page, hence `Due` again.
`Stutters` and `QueueStep` then read each access as a step of `TicketQueue`; the two compare-and-swaps on the positions are
`Take` and `Receive` or `Skip`.

**The crash argument.**  `Ordered` is `Lined` and `Firm`.  `Firm` says that the
consumer position does not pass a ticket somebody holds, and a repair takes just this
away: the entry of a crashed call stays unfinished and the ring goes on.  `Lined` is
what is left, so crashes and repairs have to keep that, and the hot path has to keep it
without `Firm`.
A crash changes no shared memory; what matters is that the slot says afterwards whose
it was.  `Records` says so in five parts.  `Signed`: a record that names a living
process names the slot that process is inside.  `GivenUp`: a slot whose recorded owner
is dead, or that is being repaired, is that of an entry no call will finish
(`Orphan`), with the recorded ticket, and nobody is about to clear the record.
`VictimOK`: a process whose slot is claimed for repair was dead when it was judged,
and stays so.  `MendOK`: what the repair has read still stands.  `OneMender`: one
repair to a slot, by the compare-and-swap on `RECOVERING`.  To keep this, each step of
a call is put in one of a few kinds by what it does to the record of its slot:
elsewhere (`Away`), entering, working inside, leaving, clearing, electing a repairer,
repairing, ending the repair; `EnqueueKind`, `DequeueKind` and `RepairKind` sort the
steps, and a lemma for each kind (`EnterRecords` and the others) does the rest.
`RepairLined` is the point of it: `r_seq` moves a slot on only from under an orphan.
Compact is another matter, since it repairs what `GivenUp` does not speak of: a slot
whose word is a round behind the frontier.  With `Quiet` such a slot is that of a dead
owner (`BehindDead`), because an open entry has somebody inside or such an owner
(`AllTended`).  It is marked on one visit and repaired on the next, and `Watch` shows
that there is no next: with one crash, whoever meets the marked slot has repaired it.
`RecoveryIntact` needs little more.  A repair writes no message, and the page it takes
is that of an entry given up (`Given`); a send that has repaired a slot and is back in
its loop still has its message (`Asks`).

**The slab argument.**  A pile is a place for blocks: the callers, the hands of one call,
the free list of one class, what died with a process.  `Heap` says of the piles that
their blocks lie below the bump pointer, share no word and leave none out.  A step that
moves blocks from one pile to another keeps it (`Moved`), whatever it moves; only the
store of the bump pointer (`Made`) and the end of a reset (`Nothing`) are different.
What is left is that a step does move the blocks it means to: `Knows` says what a call
has read and is still true, such as that at `pop` its locals are the first two blocks
of the list, and `Alone` why nobody else makes it false: calls in the pool at one time
are in different classes.  The links of a list lie in its blocks, and a call that
writes a link writes into a block that is its own (`Own`), so no chain is cut.

**The layout argument.**  Fields are compared pair by pair, which is a finite matter.
The areas are not: their borders are products of a limit and a slot size.
`LayoutAlwaysSound` first shows that the borders are multiples of eight and ascend,
then that any two areas have a border between them, and `TableLegal` that slot `i` of
a table ends where slot `i + 1` begins, which is at or before the end of the table.

**The start argument.**  `ReadyIsLaidOut` needs `Configured`: a header with the magic
has a configuration, and so has the file of a builder that is past the first part of
`Order`.  The configuration is written first and may be overwritten by another
builder's but never taken away (a kill and `ftruncate` leave it), so the argument
needs no lock.  `LayoutAlwaysSound` does the rest.
`ReadyIsComplete` does need to know who builds where.  `Orderly` says so: a
builder has written the parts before its place in `Order` for its own configuration
and the header has no current version while it does; at most one process is
starting; the file of a builder has a size.  A kill leaves a file whose `version`
is not there yet, so the next start judges it unfit and begins again.  That parts
written at one place leave the others as they were is `AreasApart`, from the layout
argument.  `AlikeMeet` adds where the live processes are (`Settled`): whoever has
joined has joined a region of its own configuration, and a name is taken away only by
one who found a region of another there, which `Alike` excludes for the file a live
process is in.
`LiveStayIntact` adds the sizes and the registry.  A ready region is as large as its
configuration says (`Sized`), and who is past opening has mapped all of it
(`MapsAll`); both rest on nobody truncating a ready file, which is `Orderly`.  Only
processes of its configuration are in its registry (`Rolls`), so where there is a slot
for each of them one is free for the next (`FreeSlot`, by counting), and only its owner
gives a slot back (`Enrolled`).  Where there is none the property does not hold and
does not speak: a process that found the registry full goes on without a slot, also
when one becomes free.

**The index argument.**  The writers are simple, because the flock admits one
(`Holders`): `Work` says of it which slots it has scanned, repaired or wiped, which
stores of the new entry are done, and that nobody else knows its ring.  `Entries`
relates the slots to the rings and to each other, half-written ones included: a dead
writer may leave one, and flush follows its offset.  `FullIsFull` is what a scan
that ended without a slot has passed.
The reader excludes nobody.  `Reading` says what it knows all the same while no
flush, death or repair has been counted since it began: a slot whose version it has
read as even is complete, and a complete slot does not change (`Seen`); an entry
that was there when it began lies at its slot or ahead (`Expects`).  Both are kept by
every step of another process because every such step is `Gentle`: the counters only
grow, and if none does, complete entries stay, used slots stay used and rings keep
their owner.  A lookup that a death or a repair did meet may be wrong (section 4).

**The group argument.**  Again one process writes, and `Work` says how far it has come:
what a creator has stored of its slot and that its array is nobody else's, that a
joiner past `a_entry` has its entry in the array and has not counted it, that every
slot a flush has passed is empty.  `Index` and `Rolls` are about the slots and arrays
themselves.  A slot is `Held` when its entry is complete, and odd at most for the
count; two slots never lead to one array, not even half-written or flushed ones,
since a slot keeps its old array until it is written over.  An array lists a channel
once, and `Covered` relates its entries to the count, with one to spare for the step between the two.
`Home` is what the reader needs: each member has its entry, with its own time, in
the slot of its group, until its departure, its expiry or a flush is at work on it.
The reader's side is `Calmly`, what it knows while no slot changes hands, and
`Expects`: a member that it has to give has a home, and the reader has it still
before it (`Ahead`) or has it in `out`.  Another's step cannot take a home away
without taking the channel out of `must`, so a home that moves (a re-join stores a
new time, or a new entry) is one that is owed to nobody meanwhile.

**The wakeup argument.**  `TInv` ties the label of a call to its locals: which scan it is
in, for whom, and that a ring holds only its own channels.  `RInv` is about the
registry.  A path that has been written never changes while no slot is taken twice
(`Listed`), so what a scan has found stays true however late it is used: an entry
still names who it named, and a slot that is to be marked dead is that of a process
that is gone, or that closes itself (`Knows`).  A process that registers finds a slot
because the others hold one each (`RoomToRegister`, by counting).
`WInv` says of each pump and each channel it watches: if the ring has a message and
the pump is not about to drain it, then there is something to read, or a sender died
on the way, or one is `Owing`: it has put a message in that ring and has the pump
still before it (`Comes`): ahead in the registry, or among the entries found, or is
itself that pump.  Each step of the sender keeps it: a look at a slot moves the pump
from ahead to found, a datagram from found to something to read, which a full socket
is already.  A pump empties its descriptors before the rings, so a wakeup that comes
while it drains is read later; and it leaves a ring only when it is empty.  `Served`
is why the second channel of a process in one group is excluded.

**Only model-checked.**  What holds under fairness: `ReadyTaken`, `DrainedAccepts`,
`CallsReturn`, `StartsFinish` and `Drained`; the provers here do not reach liveness and
`ENABLED`.  Every other property of a passing run is a theorem.  `AcceptedNotSkipped`
and `DeliveredIntact` beside crashes are proved under `CrashesRecorded` and
`RepairsFound`; `recovery_safety` checks them beyond that, for crashes before the
record is complete and for two crashes beside compact, from the third ticket on
(`FirstTicket` is 2; with 0 the second row on `ring.rs:193` shows).

## 6. Not modelled, and the plan

Not modelled: weak memory (every module is sequentially consistent; for the seqlocks
of the indexes this is the stronger assumption); the contents, names and sizes of
messages; a block of the flushed pool that is reused for something else than the same
ring while an old call still runs in it; `alloc_cold`'s 0, which `get_or_create_ring`
does not check (`channel/manager.py:125`), so that a ring is written over the header;
`pid_dead`'s answers where `/proc` cannot be read (`layout.rs:247`); the fate of a
`receive()` that waits across a flush (`pump.py:229`); several sends or receives of one
process at once; the sweep of orphan sockets; wrap-around of the 64-bit tickets and
versions (out of reach of any run of the program).

What is left: a layer whose rings are those of `Ring` in blocks of `Slab`, for the
block that is reused under an old call; and a proof of `AcceptedNotSkipped` without
`Recorded`.  That needs an invariant for slots whose record names nobody, or a ticket
of an earlier round, which only compact repairs.
