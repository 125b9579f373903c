------------------------------- MODULE RxQueue -------------------------------
(***************************************************************************)
(* The receive side of one queue pair: the receive queue (struct           *)
(* mlx5_rq_res) with its packet buffers, its completion queue, the API     *)
(* calls mlxnicd_rx_burst_q and mlxnicd_rx_release_q, and the device that  *)
(* fills posted buffers.                                                   *)
(*                                                                         *)
(* Slot s of the ring always posts buffer page s.  rx_burst_q hands the    *)
(* caller pointers into those pages; rx_release_q gives back a number of   *)
(* packets, not their addresses, and posts that many WQEs at the producer  *)
(* index.  That a page the caller still reads is not posted again is left  *)
(* to arithmetic, which is what this module is about.                      *)
(*                                                                         *)
(* The queue starts as mlxnicd_dev_start leaves it, with PostCount buffers *)
(* posted.  Calls are entered on a started device with a valid queue.      *)
(***************************************************************************)
EXTENDS CompletionQueue, Sequences

CONSTANTS
  RqSize,       \* MLX5_RQ_WQE_COUNT: WQEs and buffer pages, 4096 in the code
  CtrMod,       \* 2^16: the range of the WQE counter of a CQE
  PostCount,    \* config.rx_post_count
  MaxBurst,     \* bound: largest nb_pkts of a call
  MaxRx,        \* bound: packets the device receives
  RxErrors,     \* may the device complete a receive in error?
  AllocFails    \* may the allocation or mapping of a buffer page fail?

(***************************************************************************)
(* mlxnicd_dev_configure keeps rx_post_count within the ring, and replaces *)
(* zero; the ring divides the 16-bit counter range and is smaller.         *)
(***************************************************************************)
ASSUME RxAssumption ==
  /\ RqSize \in Nat \ {0}
  /\ CtrMod \in Nat \ {0}
  /\ RqSize < CtrMod
  /\ CtrMod % RqSize = 0
  /\ PostCount \in 1..RqSize
  /\ MaxBurst \in Nat
  /\ MaxRx \in Nat
  /\ RxErrors \in BOOLEAN
  /\ AllocFails \in BOOLEAN

VARIABLES
  pages,        \* slots whose rx_pages[slot] is allocated and mapped
  prod,         \* prod_index, unwrapped
  db,           \* the producer position in the doorbell record
  hw,           \* the device's position: every WQE before it is consumed
  outstanding,  \* dev->rx_outstanding[q]
  held,         \* positions of the packets the caller has, oldest first
  pc,           \* where the calling thread is
  nb_pkts,      \* argument of the current rx_burst_q
  wait,         \* its timeout_ms is not 0
  received,     \* its local count
  released,     \* history: packets released
  leaked,       \* history: error CQEs consumed; their buffers never return
  surplus       \* history: WQEs written by releases that failed half-way

rqvars == <<pages, prod, db>>
callvars == <<pc, nb_pkts, wait, received>>
history == <<released, leaked, surplus>>
vars == <<cqvars, rqvars, hw, outstanding, held, callvars, history>>

RqSlots == 0..(RqSize - 1)

Slot(p) == p % RqSize

\* pkt.slot: where the driver finds the packet, from 16 bits of its position.
PktSlot(p) == (p % CtrMod) % RqSize

Init ==
  /\ CqInit
  /\ pages = {Slot(p) : p \in 0..(PostCount - 1)}
  /\ prod = PostCount
  /\ db = PostCount
  /\ hw = 0
  /\ outstanding = 0
  /\ held = <<>>
  /\ pc = "idle"
  /\ nb_pkts = 0
  /\ wait = FALSE
  /\ received = 0
  /\ released = 0
  /\ leaked = 0
  /\ surplus = 0

-------------------------------------------------------------------------------
(***************************************************************************)
(* mlxnicd_rx_burst_q.  The first poll blocks up to timeout_ms if that is  *)
(* not 0 and publishes the consumer index; the others do neither.          *)
(***************************************************************************)
RxBurst(n, w) ==
  /\ pc = "idle"
  /\ pc' = "burst"
  /\ nb_pkts' = n
  /\ wait' = w
  /\ received' = 0
  /\ UNCHANGED <<cqvars, rqvars, hw, outstanding, held, history>>

Blocking == received = 0 /\ wait

\* A good CQE: the packet in the slot its 16-bit counter names.
RxPollPacket ==
  /\ pc = "burst"
  /\ received < nb_pkts
  /\ CqReady
  /\ CqHead.op # "err"
  /\ PktSlot(CqHead.pos) \in pages
  /\ PollCqe(Blocking)
  /\ held' = Append(held, CqHead.pos)
  /\ received' = received + 1
  /\ UNCHANGED <<rqvars, hw, outstanding, pc, nb_pkts, wait, history>>

\* Mutant: the packets of the burst are not counted as outstanding.
BurstReturns_Uncounted ==
  /\ pc' = "idle"
  /\ received' = 0
  /\ UNCHANGED <<rqvars, hw, outstanding, held, nb_pkts, wait>>

(***************************************************************************)
(* The end of a burst: only if it received something are the consumer      *)
(* index published and the packets counted as outstanding.                 *)
(***************************************************************************)
BurstReturns ==
  /\ pc' = "idle"
  /\ received' = 0
  /\ outstanding' = outstanding + received
  /\ UNCHANGED <<rqvars, hw, held, nb_pkts, wait>>

\* The ring is empty, or stayed empty until the timeout.
RxPollEmpty ==
  /\ pc = "burst"
  /\ received < nb_pkts
  /\ ~CqReady
  /\ IF received > 0 THEN CqUpdateConsumer ELSE UNCHANGED cqvars
  /\ BurstReturns
  /\ UNCHANGED history

(***************************************************************************)
(* An error CQE, or one for a slot without a page, ends the burst.  It is  *)
(* consumed, its buffer is counted nowhere, and without a packet and       *)
(* without waiting the consumer index stays unpublished.                   *)
(***************************************************************************)
RxPollError ==
  /\ pc = "burst"
  /\ received < nb_pkts
  /\ CqReady
  /\ CqHead.op = "err" \/ PktSlot(CqHead.pos) \notin pages
  /\ PollCqe(Blocking \/ received > 0)
  /\ leaked' = leaked + 1
  /\ BurstReturns
  /\ UNCHANGED <<released, surplus>>

RxBurstFull ==
  /\ pc = "burst"
  /\ received = nb_pkts
  /\ IF received > 0 THEN CqUpdateConsumer ELSE UNCHANGED cqvars
  /\ BurstReturns
  /\ UNCHANGED history

-------------------------------------------------------------------------------
\* Mutant: no page is allocated for the last WQE.
WriteWqes_PageMissing(k) ==
  /\ pages' = pages \union {Slot(p) : p \in prod..(prod + k - 2)}
  /\ prod' = prod + k

\* Mutant: the loop takes one turn too many.
WriteWqes_OneMore(k) ==
  /\ pages' = pages \union {Slot(p) : p \in prod..(prod + k)}
  /\ prod' = prod + k + 1

(***************************************************************************)
(* mlx5_rq_post_buffers, k turns of its loop: a page is allocated for a    *)
(* slot that has none, the WQE is written, prod_index advances.            *)
(***************************************************************************)
WriteWqes(k) ==
  /\ pages' = pages \union {Slot(p) : p \in prod..(prod + k - 1)}
  /\ prod' = prod + k

\* Mutant: a release is not limited to what is outstanding.
RxRelease_Unlimited(n) ==
  /\ pc = "idle"
  /\ WriteWqes(n)
  /\ db' = prod'
  /\ outstanding' = IF n <= outstanding THEN outstanding - n ELSE 0
  /\ held' = SubSeq(held, n + 1, Len(held))
  /\ released' = released + n
  /\ UNCHANGED <<cqvars, hw, callvars, leaked, surplus>>

(***************************************************************************)
(* mlxnicd_rx_release_q(n).  More than outstanding is refused and changes  *)
(* nothing.  The caller gives up the pointers to its n oldest packets.     *)
(***************************************************************************)
RxRelease(n) ==
  /\ pc = "idle"
  /\ n <= outstanding
  /\ WriteWqes(n)
  /\ db' = prod'
  /\ outstanding' = outstanding - n
  /\ held' = SubSeq(held, n + 1, Len(held))
  /\ released' = released + n
  /\ UNCHANGED <<cqvars, hw, callvars, leaked, surplus>>

(***************************************************************************)
(* The allocation of a page fails after k WQEs: prod_index has advanced,   *)
(* the doorbell record has not, and no packet is released.                 *)
(***************************************************************************)
RxReleaseFails(n, k) ==
  /\ pc = "idle"
  /\ AllocFails
  /\ n <= outstanding
  /\ k < n
  /\ Slot(prod + k) \notin pages
  /\ WriteWqes(k)
  /\ surplus' = surplus + k
  /\ UNCHANGED <<cqvars, db, hw, outstanding, held, callvars, released, leaked>>

-------------------------------------------------------------------------------
(***************************************************************************)
(* The device (external) fills the next posted buffer and completes it.  A *)
(* packet that finds no posted buffer is dropped and changes nothing here. *)
(***************************************************************************)
HwPosted == hw % CtrMod # db % CtrMod

HwReceive(op) ==
  /\ HwPosted
  /\ hw < MaxRx
  /\ hw' = hw + 1
  /\ HwWriteCqe(op, hw)
  /\ UNCHANGED <<rqvars, outstanding, held, callvars, history>>

HwReceiveOps == {"ok"} \union (IF RxErrors THEN {"err"} ELSE {})

Driver ==
  \/ RxPollPacket
  \/ RxPollEmpty
  \/ RxPollError
  \/ RxBurstFull

Next ==
  \/ \E n \in 0..MaxBurst, w \in BOOLEAN : RxBurst(n, w)
  \/ Driver
  \/ \E n \in 0..RqSize : RxRelease(n)
  \/ \E n \in 1..RqSize : \E k \in 0..(n - 1) : RxReleaseFails(n, k)
  \/ \E op \in HwReceiveOps : HwReceive(op)

Spec == Init /\ [][Next]_vars

-------------------------------------------------------------------------------
TypeOK ==
  /\ CqTypeOK
  /\ pages \subseteq RqSlots
  /\ prod \in Nat
  /\ db \in Nat
  /\ hw \in Nat
  /\ outstanding \in Nat
  /\ held \in Seq(Nat)
  /\ pc \in {"idle", "burst"}
  /\ nb_pkts \in Nat
  /\ wait \in BOOLEAN
  /\ received \in 0..nb_pkts
  /\ released \in Nat
  /\ leaked \in Nat
  /\ surplus \in Nat

(***************************************************************************)
(* "RX packets point into driver-owned buffers until mlxnicd_rx_release":  *)
(* no buffer the caller holds is one the device may write, now or after    *)
(* the next doorbell.  rx_release_q only counts, so this needs the counts  *)
(* to agree with the ring across error CQEs, partly filled rings and       *)
(* releases that failed half-way.                                          *)
(***************************************************************************)
HeldNotPosted ==
  \A i \in 1..Len(held) : \A p \in hw..(prod - 1) : PktSlot(held[i]) # Slot(p)

(***************************************************************************)
(* Two packets the caller holds never share a buffer.                      *)
(***************************************************************************)
HeldDistinct ==
  \A i, j \in 1..Len(held) : i # j => PktSlot(held[i]) # PktSlot(held[j])

(***************************************************************************)
(* The device is never told of a WQE without a mapped page behind it, so   *)
(* the "unallocated buffer slot" branches of the poll are unreachable, and *)
(* the ring is never posted beyond its size.                               *)
(***************************************************************************)
PostedHavePages ==
  /\ \A p \in hw..(prod - 1) : Slot(p) \in pages
  /\ prod - hw <= RqSize

(***************************************************************************)
(* rx_outstanding counts the packets of returned bursts that are not       *)
(* released, and every CQE consumed is accounted for: released, held, or   *)
(* lost with its buffer to an error CQE.                                   *)
(***************************************************************************)
RxAccounting ==
  /\ Len(held) = outstanding + received
  /\ cqci = released + Len(held) + leaked
  /\ prod = PostCount + released + surplus

(***************************************************************************)
(* The receive CQ overflows only if more buffers were posted than it has   *)
(* CQEs: rx_post_count <= MLX5_CQ_CQE_COUNT is what keeps it safe, unless  *)
(* failed releases left surplus WQEs.                                      *)
(***************************************************************************)
RxOverrunNeedsSmallCq == cqdead => CqSize < PostCount + surplus

-------------------------------------------------------------------------------
(***************************************************************************)
(* The inductive invariant.                                                *)
(***************************************************************************)
CqeAt(p) == cqring[p % CqSize]

RxOrder ==
  /\ cqpi <= hw
  /\ ~cqdead => hw = cqpi
  /\ hw <= db
  /\ db <= prod
  /\ prod <= released + RqSize
  /\ released + outstanding <= cqdbr
  /\ pc = "idle" => received = 0

\* A pending CQE names the WQE of its own number.
PendingInOrder == \A p \in cqci..(cqpi - 1) : CqeAt(p).pos = p

\* The i-th held packet is not older than the i-th not yet released.
HeldInOrder ==
  /\ \A i \in 1..Len(held) : released + (i - 1) <= held[i] /\ held[i] < cqci
  /\ \A i, j \in 1..Len(held) : i < j => held[i] < held[j]

AllPostedHavePages == \A p \in 0..(prod - 1) : Slot(p) \in pages

(***************************************************************************)
(* The state of a receive queue that every step keeps.                     *)
(***************************************************************************)
RxInv ==
  /\ TypeOK
  /\ CqInv
  /\ RxOrder
  /\ RxAccounting
  /\ PendingInOrder
  /\ HeldInOrder
  /\ AllPostedHavePages
  /\ RxOverrunNeedsSmallCq

===============================================================================
