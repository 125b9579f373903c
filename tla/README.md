# mlxnicd in TLA+

A model of [mlxnicd](../src/README.md), a user-space driver for the ConnectX-5
over VFIO, with TLC runs and TLAPS proofs. Paths below are relative to the
repository; `mlx5.c` is `src/src/mlx5.c`.

Contents: [inventory](#the-system), [modules](#modules-and-code),
[runs](#runs), [fairness](#fairness), [proofs](#proofs),
[findings](#where-code-and-documents-disagree),
[what is left out](#what-is-not-modelled), [plan](#plan).

## The system

The driver is one C library and a command line tool. There are no interrupts
and no driver threads: the device writes DMA memory, the driver polls it. One
thread may use each queue. Everything that runs concurrently with the driver is
the device's send and receive engines, its firmware, other processes of the
command line tool and the other end of the wire.

| Component | State | Operations | Talks to | What is hard | Correct means |
|---|---|---|---|---|---|
| Completion queue (`mlx5_cq_res`) | CQE ring, `cons_index`, doorbell record | `mlx5_poll_cq_once_mode`, `mlx5_poll_cq`, `mlx5_cq_update_consumer` | device writes, TX and RX queues poll | no shared producer index: a CQE is new if its owner bit has the parity of the lap; 32-bit wrap; overrun | each CQE seen once, in order |
| Transmit queue (`mlx5_sq_res`) | WQE ring, `prod_index`, `cons_index`, doorbell | `mlxnicd_tx_burst_q`, `mlxnicd_tx_flush_q`, `mlx5_sq_prepare_send_raw`, `mlx5_sq_ring_send`, `mlx5_sq_reclaim_cqe` | its CQ, the device | a completion per batch only; 32-bit index rebuilt from 16 bits; a frame refused in the middle of a batch; device that stops answering | no WQE overwritten before it is executed; flush waits for everything |
| Receive queue (`mlx5_rq_res`) | WQE ring, buffer pages, `prod_index`, `rx_outstanding` | `mlxnicd_rx_burst_q`, `mlxnicd_rx_release_q`, `mlx5_rq_post_buffers` | its CQ, the device, the caller who holds buffers | release by number only; error CQEs; page allocation that fails half-way | a buffer the caller holds is not posted |
| Command interface (`mlx5_cmd_ctx`) | one descriptor, mailboxes, token | `mlx5_cmd_exec` | firmware | timeout and late answer; delivery status; token wrap | the result is about this command |
| Device life cycle (`mlxnicd_dev`, `mlx5_test_runtime`) | configuration, started flag, firmware objects, DMA mappings at fixed addresses, VFIO descriptors, saved registers, `last_error` | open, configure, start, stop, close; some forty commands | command interface, VFIO | any command failing, untruly or not; cleanup of a half-done opening or start; addresses nobody compares | memory outlives the objects that use it; nothing is forgotten; calls reach live queues only; addresses never overlap |
| Binding to vfio-pci (`vfio.c`) | driver link in sysfs, record of the original driver | `vfio_bind`, `vfio_restore` | kernel, other processes | no lock; killed between two system calls; ignored write | the way back is never lost |
| raw-bench (`sample.c`) | window, slot table, counters | `sample_raw_bench` | TX and RX queues, the peer | replies lost, doubled, reordered, on any queue | each reply counted once; the run ends |
| raw-echo (`sample.c`) | count of answers | `sample_raw_echo` | TX and RX queue, raw-bench | its end and timeout race raw-bench and its own send queue | raw-bench fails only if an answer is really dropped |
| raw-bench and raw-flood with workers (`sample.c`) | a range and a window per thread, stop and start flags | `sample_raw_bench_parallel`, `sample_raw_flood` | one queue pair each, the DPDK peer | threads that fail to start, stop each other or wait for each other; RSS | no thread outlives the device; each frame sent once; success means done; the run ends |
| raw-loop, tx-test, rx-wait | counters | loops over the API | TX and RX queues | | (not modelled) |
| Debug wrappers, PCI inspection, command line, examples | none | print | command interface, sysfs | | (not modelled) |

`PROJECT.json` has the same list with sources and status, and under `hazards`
the places in the code that tests hardly reach, each with the properties that
watch it.

## Modules and code

| Module | Models | Extends |
|---|---|---|
| `CompletionQueue` | `mlx5_poll_cq_once_mode`, `mlx5_cq_update_consumer`, the device's CQE writes | |
| `CompletionFifo` | what a CQ promises: a bounded FIFO that breaks when it overflows | |
| `MCCompletionQueue` | a CQ alone with any device and any poller (`CqSpec`), and its refinement mapping `Queued` to the FIFO | `CompletionQueue` |
| `TxQueue` | `mlxnicd_tx_burst_q`, `mlxnicd_tx_flush_q` and all they call, the send engine | `CompletionQueue` |
| `RxQueue` | `mlxnicd_rx_burst_q`, `mlxnicd_rx_release_q` and all they call, the receive engine | `CompletionQueue` |
| `CmdQueue` | `mlx5_cmd_exec`, the firmware | |
| `AddressLayout` | every IOVA and length the driver maps, by queue and page count | |
| `Device` | `mlxnicd_dev_*`, `mlx5_test_runtime_cleanup`, `mlx5_cmd_ctx_open`/`close`, `vfio_device_open`/`close`, `vfio_dma_map`, the guards of the data path | `AddressLayout` |
| `MCDevice` | fault budget, page counts and view for TLC | `Device` |
| `VfioBinding` | `vfio_bind`, `vfio_restore`, as processes | |
| `BenchWindow` | `sample_raw_bench` composed with `sample_raw_echo`, and the network | |
| `Workers` | `sample_raw_bench_parallel`, `sample_raw_flood`, their workers, the loop of the DPDK peer | |
| `RingArithmetic` | lemmas on `%` and `\div`, and induction over the naturals | |
| `ControlPathProofs` | the theorems about `CmdQueue` and `VfioBinding` | both |
| `*Proofs` | the theorems about each of the others | the module of that name |

Conventions. Variables keep the names of the C fields where they are unique.
An index of a ring is kept *unwrapped*, as the number of entries since the queue
was created; the C value is that number modulo `IdxMod` (2^32) or `CtrMod`
(2^16), and every operator that reads it the way the code does goes through the
truncation. `TxQueue`'s `cons_index` is an exception: the code computes it from
hardware bits, so it is kept as the code has it. A definition `Foo_Something`
with a comment that begins "Mutant:" is a plausible mistake in the code behind
`Foo`; nothing uses it in the specification, it is substituted for `Foo` to see
a property fail.

**TxQueue.** `TxBurst(n, b)` enters the call with `n` packets of which the
`b`-th is the first with an unsupported length. Each turn of the loop is a step:
`BurstPost` (prepare, doorbell), `BurstBadFrame`, `BurstRingFails`,
`BurstReclaims` and `BurstPollFails` (ring full), `BurstDone`. The device runs
between turns and not inside one: until the doorbell it cannot see what a turn
writes, and it does not read the CQ's doorbell record except to decide whether
it is full, which a turn with a poll changes once. `HwSend` executes the next
WQE and completes it if it asks for that, `HwError` completes in error.

**RxQueue.** Each poll is a step. `held` is what the caller has and does not
exist in the code: that is the point of the module. The caller is assumed to
give up its oldest packets when it releases some, which is the only reading of
the API that can work, since the call gets a number.

**CmdQueue.** `ExecStart` is `mlx5_cmd_exec` up to the doorbell, `ExecDone` and
`ExecTimeout` its two ends. The firmware reads the descriptor and answers at any
time later, also after the timeout.

**Device.** The order of creation and destruction is data: `StartSteps(c)` and
`CleanupOrder(n)` are sequences of records that say which object is created,
which others its command names, which flags its function tests, which memory it
maps. A firmware command has two outcomes, what `mlx5_cmd_exec` returned and
what the firmware did; `CmdQueue` justifies that they may differ. Each one that
is not honest costs one of `MaxFaults`. Before the commands comes `OpenOrder`,
the descriptors and mappings `vfio_device_open` and `mlx5_cmd_ctx_open` acquire
one by one; it may fail at each (`OpenFails`), also before the registers that
closing will restore were read (`cmdq_saved`). Regions are mapped at the
addresses `AddressLayout` gives them, and a mapping fails if it meets another, as
`VFIO_IOMMU_MAP_DMA` does; firmware pages are a number, `fw_page_count`, and the
span it makes. The firmware's own rule, that a command
naming an object it does not have is refused and that an object in use is not
destroyed, is external.

**VfioBinding.** One step per system call, any number of processes, `Kill`
between any two steps.

**BenchWindow.** One turn of the send loop is `Fill` followed by `Poll` or
`PollNothing`; a window of 1 has `SendOne` and `AwaitOne` as the code has a loop
of its own for it. Replies are sequence numbers; time is abstracted to whether a
frame is a reply at all. raw-echo is the other process: `Echo` receives, answers
and releases, `EchoTimeout` and `EchoFails` end it, and `EchoClose` destroys its
send queue with the answers (`posted`) its device has not sent. A timeout that
comes while an answer is still under way costs a fault; one that comes when
nothing more can come does not. Frames that are no replies (`OtherFrame`), of
which the local copies of promiscuous reception are the usual ones, cost no fault
and have a bound of their own.

**Workers.** The main thread creates a thread for each queue and joins them; a
worker's turn is a batch (`BenchSend`) and a poll (`BenchReceive`,
`BenchReceiveNothing`, or `BenchGiveUp` after 10^8 idle polls), or `FloodSend`
and in the end `FloodFlush`. `rss` is fixed for each flow when the run begins and
need not agree with the thread that sends it. The totals the main thread compares
are added up by `SumTo`, a recursive function. The peer is the loop of
`dpdk_macswap.c`: it answers a frame (`PeerGets`), or frees it when its send
queue is full (`PeerDrops`, a fault). Local copies and other frames that are no
replies (`OtherFrame`) are no fault. Each starts the count of idle polls again, so
that an endless stream of them would keep a worker from ever giving up: `RunEnds`
needs their bound, `MaxOthers`; the invariants are proved without one.

## Runs

States are distinct states. All runs use two workers and take between a second
and about two and a half minutes.

| Run | Bounds | Shows |
|---|---|---|
| `completion_queue` | 2 CQEs, indices modulo 8, 18 completions | `PollExact`: the owner bit tells new from old, over two wraps of the index (nine laps); `CqInv`; the ring implements `CompletionFifo` |
| `tx_queue` | ring of 4 WQEBBs, 2 CQEs, 3-bit counter, 4-bit index, 24 WQEBBs sent, bursts of up to 3, bad frames and device errors | `RingBounds`, `WqeIntact`, `OverrunNeedsSmallCq`, `FlushMeansExecuted`, `CallsReturn`, and the inductive `TxInv` |
| `rx_queue` | ring of 4, 2 posted, 2 CQEs, 11 packets, bursts of up to 3, error CQEs, page allocation failures | `HeldNotPosted`, `HeldDistinct`, `PostedHavePages`, and the inductive `RxInv` |
| `cmd_queue` | 2-bit token, 7 commands, timeouts and delivery errors | `OneAtATime`, `TokenCycle`, `OkMeansExecuted`, `FailIsFinal`, `ExecReturns`, and the inductive `CmdInv` |
| `device` | 1 queue with 2 faults or 2 queues with 1, data path calls, 4096 or 4097 firmware pages at each request | `CallsReachLiveQueues`, `HeldBuffersMapped`, `DmaOutlivesObject`, `ClosedLeavesNothing`, `LeftOnlyIfLost`, `StopReportsFailure`, `StartFailsOnlyOnFault`, `DeviceTypeOK` |
| `vfio_binding` | 2 processes | `Recoverable`, `RestoreWorks`, and the inductive `VfioInv` |
| `bench_window` | 4 frames, window up to 3, 1 or 2 queues, with and without timeout, raw-echo with the same count or one more, 1 fault, 1 frame that is no reply | `BenchAccounting`, `EachReplyOnce`, `FailsOnlyIfUnpolled`, `EndsOrStalls` |
| `workers` | 3 frames, 1 or 2 workers, windows of 1, 2 and 4, batches of 2, every steering of the replies, 2 faults, 1 frame that is no reply | `NoThreadOutlivesDevice`, `EachFrameOnce`, `OkMeansDone`, `AggregateWindow`, `FailsOnlyIfSteered`, `RunEnds` |
| `tx_return_count`, `tx_flush_overrun`, `echo_close`, `cmd_zero` | small | fail, see [below](#where-code-and-documents-disagree) |

Why the bounds are enough. What matters in a ring is the order of four indices
and how many times each has wrapped. The runs wrap the ring, the 16-bit counter
and the 32-bit index at least once each (24 WQEBBs are six turns of the ring,
three of the counter and one and a half of the index), and the sizes keep the
code's proportions: the ring smaller than the counter's range, the counter
smaller than the index, the CQ of `rx_queue` as small as the posted buffers so
that it can fill. In `tx_queue` the CQ has as many CQEs as the ring has packets,
the smallest that must not overrun; in `tx_flush_overrun` it has half of that,
as in the code. For everything but liveness the proofs remove the question. In
the run of `Device`, two queues distinguish "the queue" from "all queues", and
two faults are one in the start and one in the cleanup it causes, or two in one
cleanup; the second fault is allowed with one queue only, to keep the run short.
The page counts are the last that fits below the TX CQs and the first that does
not; two requests of the former already exceed the room. `DeviceView` leaves
`last_error` out of a state while start, stop or close is under way: they end
with an assignment to it and no guard or property reads it before, so that
states that differ in it only have the same futures. For `BenchWindow`, 4 frames
with a window of 2 or 3 use a slot twice, raw-echo's count is reached before or
not at all, and one fault is enough for each of the ways a run can go wrong. For
`Workers`, 3 frames divide unevenly between 2 workers, the windows are below, at
and above the number of queues, and two faults are a failing call and a lost or
doubled reply.

Deadlock is checked except where the system may stop: the benchmarks end, the
number of commands is bounded, and a recovered function needs nothing more.

## Fairness

- `TxQueue`, `CmdQueue`: `WF(Driver)`, the thread inside a call keeps running.
  Its loops are bounded in time (`mlx5_poll_cq` by milliseconds, `mlx5_cmd_exec`
  by a count of polls), so a poll that finds nothing eventually fails. Nothing is
  assumed of the device or the firmware: `CallsReturn` and `ExecReturns` hold if
  they are dead.
- `VfioBinding`: `WF(Continue(p))`, a started process runs to its end, and while
  the operator is recovering, vfio-restore is run again and again. Faults and
  kills stop when recovery begins; without that nothing could be promised.
- `BenchWindow`: `WF(Run)`, raw-bench's one thread keeps running; `WF(Answer)`,
  so does raw-echo while it is open; `WF(Transmit)`, a device sends what was
  posted until it is closed. Loss and duplication are not fair, nor is raw-echo's
  timeout or its closing.
- `Workers`: `WF` for the main thread and for each worker, which the kernel
  schedules, and for the peer, which answers what is not lost. An idle worker
  counts its polls and gives up at a fixed number of them, so that fairness of the
  worker includes `BenchGiveUp`; it does not include any failure.
- `Device`, `RxQueue`, `CompletionQueue`: no liveness is stated.

## Proofs

Every theorem holds for all values of the constants that satisfy the `ASSUME`s:
for the code's 8192 WQEBBs, 2048 CQEs, 2^16 and 2^32, and for any other sizes
with the same divisibility.

- `CompletionQueueProofs`. `CqInv` is kept by every poll, every write of the
  doorbell record and every CQE the device writes, and implies `PollExact`; the
  lemmas are about single actions, so that the queues that poll a CQ can cite
  them, and `CqInvariant` and `PollsExact` put them together for a CQ alone. The
  strengthening is `CqOwnership`: over a whole turn from the consumer on, the
  owner bit of a slot matches the lap of a position exactly if the position was
  written. The assumption is that two laps divide the index range (2 * 2048
  divides 2^32), without which the parity would break at the wrap.
  `RingImplementsFifo`: the ring implements `CompletionFifo`, step by step. The
  mapping `Queued` is the function from 1 to the number of unread CQEs that gives
  the completion at each position the owner bits make readable: a device write
  appends to it, a poll takes its head, an overrun breaks it, the doorbell record
  does not show.
- `TxQueueProofs`. `ReclaimExact`: rebuilding the consumer index from 16 bits is
  exact if the completed WQE is less than 2^16 positions ahead, which a ring
  smaller than that guarantees. `TxInvariant`: `TxInv` is inductive. It adds to
  the properties that every index is on a WQE boundary (`WholeWqes`) and that the
  CQEs still to be polled name different WQEs between the consumer and the device
  (`PendingCqes`), which is what makes the 16 bits unambiguous and bounds the
  number of CQEs by the number of WQEs. From it: `WqesIntact`,
  `RingStaysBounded`, `NoOverrunIfCqFits`, `TxPollsExact`, and `FlushIsSound`
  for the action property.
- `RxQueueProofs`. `RxInvariant`: `RxInv` is inductive. A pending CQE has its own
  number as position (`PendingInOrder`), the i-th held packet is no older than
  the i-th packet not released (`HeldInOrder`), and the producer never gets more
  than a ring ahead of the released packets (`RxOrder`). Error CQEs only widen
  the gap between the two, and WQEs of failed releases are bounded because a page
  is missing only on the first turn. From it: `HeldBuffersSafe`,
  `HeldBuffersDiffer`, `PostedPagesMapped`, `NoRxOverrunIfCqFits`.
- `ControlPathProofs`, for what a device goes through before its queues work.
  *Commands.* `CmdInvariant`: until the first timeout, descriptor, doorbell and
  firmware are in one of four phases. From it: `OneCommandAtATime`,
  `TokensCycle`, `OkIsExecuted`, `FailuresAreFinal`.
  *Binding.* `VfioInvariant` for any set of processes: one that is past its write
  of the record may rely on it even if another has truncated it since, because
  that other one is then about to write. From it: `RecordSurvives`.
- `DeviceProofs`, for every number of queues, configuration and number of faults.
  *Orders.* A start walks along `StartOrder`, a cleanup along `CleanupOrders`;
  both are put together by `FlattenSeq` from parts, one of which repeats a piece
  for every queue. The first lemmas say, by induction over the parts, what these
  sequences contain, that nothing is in them twice, and what comes `Before` what.
  `SetInduction` makes this possible: induction with a set in place of the
  predicate that the provers could not instantiate.
  *Invariant.* `DeviceInvariant`: `DeviceInv` is inductive. While a start goes on,
  every step before the current one has left what it should (`Taken`): without
  this nothing is known about a queue that some later step relies on. While a
  cleanup goes on, what it has `Passed` is gone from the firmware, or a command
  about it failed or lied; what it has not passed still has its memory. What the
  handles of the driver know is what was created and not passed, so that the
  cleanup's tests of them are exact. The other parts describe a closed device, an
  opening (by its position in `OpenOrder`) and a running one.
  *From it*: `DeviceTypeCorrect`, `LetInToLiveQueues`, `HeldBuffersStayMapped`,
  `MemoryOutlivesObject`, `ClosingLeavesNothing`, and for the account of a
  cleanup `CleanupDestroysAll` and `CleanupReportsFailure`. `StartNeedsNoLuck`
  adds `InvQuiet`: if no fault was spent and the pages have not run into the TX
  CQs, everything a command or a test needs was made by an earlier step
  (`InTime`), and everything it maps is free. It is the only theorem that uses
  `LayoutAssumption`, that there are at most 8 queues, since beyond that the
  addresses of two queues' rings would meet; the code's limit is 8.
  *Addresses.* `LayoutDisjoint`: no two regions the driver maps for itself
  overlap, for all 8 queues. Each object has a block of addresses
  (`RegionInBlock`), each kind of object an area (`BlockInArea`); areas are apart,
  blocks of one kind are apart by their step, and so are regions in a block.
  `FirmwarePagesFit`: firmware pages meet none of them up to `FwRoom` = 4096, and
  `OnlyTxCqsMeetPages`: beyond that they meet TX CQs and nothing else, so that the
  exception in `StartFailsOnlyOnFault` is the only clash there is.
- `WorkersProofs`, for every count, number of queues, window, batch, burst, hash
  of the flows and number of faults. The programs decide by totals, so the first
  lemmas are about `SumTo`: one element changed, a constant added, differences
  that telescope, and that a sum equal to one of larger elements has the same
  elements. `WorkersInvariant`: `WorkersInv` is inductive. `InvSent`: a frame
  below a worker's `seq_next` was given to the device once unless a failure has
  stopped the run, one above it was not, and only frames once given are on the
  wire. `InvEnded`: a worker that ended without a failure has its share of
  replies (raw-bench) or has sent its range and flushed it (raw-flood).
  `InvWindow`: frames under way plus replies counted are no more than frames sent
  plus faults, and no worker is more than its window ahead of its replies.
  `InvQuiet`: without faults and with every reply steered to its sender, each
  worker's own account balances and an idle one still has a reply to come. From
  it: `NoThreadOutlives`; `FramesOnce`, with the ranges shown to be disjoint and to
  cover all frames for any division; `SuccessMeansDone`, where each worker has at
  least its share of replies and has sent at most its share of frames, so that
  equal totals leave no slack; `WindowAggregates`; `SteeringOrSuccess`.
- `BenchWindowProofs`, for every count, window, number of queues, burst and number
  of faults. `BenchInvariant`: `BenchInv` is inductive.
  *Window.* `Books` says of every frame what the table and the counters know: sent
  and not in the table means counted once, in the table or not sent means not
  counted. Without this, `EachReplyOnce` is not inductive: it does not say why a
  reply found in a slot was not counted before. Filling keeps the books because
  the frames of a batch are fewer than a turn of the table and each found its slot
  free (`BooksFill`), a reply because a frame in the table is in its own slot
  only (`BooksFrame`); a burst is one frame after the other, by induction over it
  (`BurstRuns`, `BooksBurst`). If the table is empty there is a frame to send, so
  that a poll never waits for nothing.
  *Delivery.* In a run without faults every frame raw-bench waits for is on the
  wire, in raw-echo's send queue, in a receive queue or was dropped, and raw-echo
  has answered what is not on the wire. So raw-echo never times out (`NeverQuiet`),
  and a poll that gives up was owed an answer that raw-echo closed its device on,
  having reached its count with it (`GivesUp`).
  *From it*: `BenchBooksBalance`, `BenchCountsOnce`, `BenchFailsOnlyIfUnpolled`.
- `RingArithmetic` holds the facts about `%` and `\div` by a symbolic modulus that
  the provers do not have: uniqueness of quotient and remainder, shifts by a
  turn, distinct residues within a turn, parity of laps; and `SetInduction`.

Only model-checked: liveness (`CallsReturn`, `ExecReturns`, `RestoreWorks`,
`EndsOrStalls`, `RunEnds`), since the prover does not reason about fairness and
`ENABLED`. Every invariant and every action property of a passing run is proved,
and so is the refinement.

## Where code and documents disagree

Each is a run that TLC must refute.

- `tx_return_count`. `mlxnicd_tx_burst_q` "returns number of packets actually
  posted" (`include/mlxnicd.h:64`). If a frame in the middle of a batch has an
  unsupported length, the frames before it stay in the ring behind `prod_index`;
  the call does not count them, and the doorbell of the next call sends them.
- `tx_flush_overrun`. `mlxnicd_tx_flush_q` waits "until all submitted TX WQEs on
  one queue have completed" (`include/mlxnicd.h:71`). The CQ is not polled while
  the ring has room and is half as large as the ring has packets; bursts of one
  packet fill it. The device then loses completions, and the flush fails
  although everything was sent. `NoOverrunIfCqFits` shows that a CQ with a CQE
  for every packet would do. That an overrun puts the CQ in error is the
  device's documented behaviour and external here.
- `echo_close`. raw-echo is described as waiting for its TX completions, packet by
  packet (`README.md:322`, `docs/agent-handoff.md:1211`), but nothing in
  `sample_raw_echo` does; after its last answer it closes the device, and answers
  it counted are lost with the send queue. If raw-bench has the same `--count`, as
  in the README's example, it waits for them and fails, although nothing went
  wrong (`CountedAnswersArrive`). `FailsOnlyIfUnpolled` shows the rest: with an
  answer to spare, or if none is dropped, no such run fails.
- `cmd_zero`. `mlx5_cmd_exec` is documented to return -1 on transport failure
  (`README.md:567`); it prints the delivery status and returns 0. With
  `DeliveryErrors` FALSE in `CmdZero.cfg` TLC refutes `ZeroMeansExecuted` another
  way: after a timeout the next command reuses the descriptor the firmware still
  owns, and the late answer to the first ends the wait for the second with 0.

Some more behaviours are stated inside passing properties rather than as
violations. Each property names its exception exactly, and fails without it.

- `EndsOrStalls` spells out when raw-bench polls for ever after a lost reply.
- `Recoverable`: a record whose write was lost, which `vfio_bind` does not notice,
  leaves no way back.
- `FailsOnlyIfUnpolled`: a window of 1 with several queues polls queue 0 only, and
  without a timeout does not wait at all.
- `RxInv`: an overrun of the RX CQ needs a CQ smaller than the buffers posted, and
  the code's is (2048 CQEs, up to 4096 buffers).
- `DmaOutlivesObject`: memory is unmapped after a destroy that failed.
- `LeftOnlyIfLost`: a UAR, PD or memory key numbered 0 is taken for absent.
- `FailsOnlyIfSteered`: a worker counts every reply on its queue. If replies are
  steered to another queue than the frames were sent from, the worker there may
  reach its share and end with frames of its own unsent, while the other polls
  10^8 times and fails the run, even if each queue gets as many replies as its
  worker sends frames.
- `AggregateWindow`: with fewer frames in `--window` than queues, the limit is one
  frame for each queue.
- `StartFailsOnlyOnFault`: `MLX5_MAX_FW_PAGES` is 8192, but from the 4097th on the
  firmware's pages lie where the first TX CQ is mapped, and a start that transmits
  fails.
- `ClosedLeavesNothing` says that the command queue registers do not point at
  freed memory, and not that they are as they were: if the opening fails after
  BAR0 was mapped and before they were read, closing writes zeros to them
  (`mlx5.c:511`).

## What is not modelled

- Contents: frames, headers, WQE segments, mailbox layout, signatures, RSS keys,
  flow match criteria. No property depends on them.
- The firmware and the device beyond what the driver relies on.
- `vfio_probe`, which opens, prints and closes, and the bus master bit.
- What several threads do inside the calls at the same time. The queues share
  `last_error` only, which no caller reads while its workers run; `TxQueue` and
  `RxQueue` are one queue each, and `Workers` has the calls as steps.
- `Device` ends each start's account when the context closes: what the firmware
  keeps of an earlier start is not carried over to the next.
- raw-loop, tx-test, rx-wait and the other samples: one thread, a counter, and the
  calls `TxQueue` and `RxQueue` have, one after another.
- Printing, parsing of options, PCI inspection, debug wrappers (which open the
  context, send one command and close it), the example program, the setup of the
  DPDK peer, the Python peer: no state of their own.

## Plan

Done, in this order: completion queue, transmit queue and its proofs, receive
queue and its proofs, command interface and its proofs, device life cycle,
binding, benchmark window; then opening the context, the address layout and its
proofs, raw-echo, and the parallel workers; then the proofs for the device life
cycle, the refinement of the FIFO by the completion ring, and the proofs for the
parallel workers and for the benchmark window. What could follow: several starts
of a device in one account, and `last_error` under concurrent calls.
