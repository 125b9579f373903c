------------------------------- MODULE TxQueue -------------------------------
(***************************************************************************)
(* The transmit side of one queue pair: the send queue (struct             *)
(* mlx5_sq_res), its completion queue, the API calls mlxnicd_tx_burst_q    *)
(* and mlxnicd_tx_flush_q, and the device that executes send WQEs.         *)
(*                                                                         *)
(* The driver writes WQEs into a ring, publishes the producer index        *)
(* through the doorbell record and rings the doorbell.  It asks for a      *)
(* completion only on the last WQE of each batch, touches the CQ only when *)
(* the ring has no room, and recovers the position of the completed WQE    *)
(* from 16 bits of it.  One thread calls the API of one queue; the device  *)
(* runs concurrently.  The calls are entered on a started device with a    *)
(* valid queue: what they answer otherwise is in Device.                   *)
(*                                                                         *)
(* Positions count WQEBBs since the queue was created.  prod_index and     *)
(* cons_index are uint32_t in the code: prod_index only grows, so it is    *)
(* prod % IdxMod; cons_index is computed from hardware bits and is kept    *)
(* here as the code keeps it, in 0..IdxMod-1.                              *)
(***************************************************************************)
EXTENDS CompletionQueue

CONSTANTS
  SqSize,     \* MLX5_SQ_WQE_COUNT: WQEBBs in the send ring, 8192 in the code
  CtrMod,     \* 2^16: the range of the WQE counter of a CQE and of the DBR
  MaxBurst,   \* bound: largest nb_pkts of a call
  MaxProd,    \* bound: WQEBBs prepared over a behaviour
  BadFrames,  \* may a caller pass a frame of unsupported length?
  TxErrors    \* may the device complete a WQE in error?

(***************************************************************************)
(* The ring holds whole WQEs, is smaller than what 16 bits can count, and  *)
(* the 16-bit range divides the 32-bit one.                                *)
(***************************************************************************)
ASSUME TxAssumption ==
  /\ SqSize \in Nat \ {0}
  /\ SqSize % 2 = 0
  /\ CtrMod \in Nat \ {0}
  /\ SqSize < CtrMod
  /\ IdxMod % CtrMod = 0
  /\ MaxBurst \in Nat
  /\ MaxProd \in Nat
  /\ BadFrames \in BOOLEAN
  /\ TxErrors \in BOOLEAN

VARIABLES
  wqe,          \* sq_page: the WQE whose first WQEBB is in each slot
  prod,         \* prod_index, unwrapped
  cons_index,   \* cons_index, a uint32_t
  db,           \* the producer position last published with a doorbell
  hw,           \* the device's position: every WQE before it is executed
  hwerr,        \* the device completed a WQE in error: the SQ flushes
  uar_in_bar,   \* the UAR's doorbell lies inside BAR0 (fixed at start)
  pc,           \* where the calling thread is
  nb_pkts,      \* argument of the current call
  bad,          \* index of its first frame of bad length, nb_pkts + 1 if none
  sent,         \* tx_burst_q's local count, its return value at the end
  ret,          \* "ok" or "fail" of the last flush
  reported      \* history: packets all tx_burst_q calls reported as posted

sqvars == <<wqe, prod, cons_index, db>>
callvars == <<pc, nb_pkts, bad, sent, ret, reported>>
vars == <<cqvars, sqvars, hw, hwerr, uar_in_bar, callvars>>

\* A full-inline SEND of 60 to 98 bytes always takes two WQEBBs.
WqeBbs == 2

SqSlots == 0..(SqSize - 1)

(***************************************************************************)
(* The fields of a WQE the device acts on: the low bits of its own         *)
(* position in the control segment, and the request for a completion.      *)
(***************************************************************************)
Wqe == [idx : 0..(CtrMod - 1), signal : BOOLEAN]

Init ==
  /\ CqInit
  /\ wqe = [s \in SqSlots |-> [idx |-> 0, signal |-> FALSE]]
  /\ prod = 0
  /\ cons_index = 0
  /\ db = 0
  /\ hw = 0
  /\ hwerr = FALSE
  /\ uar_in_bar \in BOOLEAN
  /\ pc = "idle"
  /\ nb_pkts = 0
  /\ bad = 1
  /\ sent = 0
  /\ ret = "ok"
  /\ reported = 0

-------------------------------------------------------------------------------
(***************************************************************************)
(* Arithmetic on the indices, as the C types do it.                        *)
(***************************************************************************)

\* used_wqebbs = prod_index - cons_index, in uint32_t.
UsedWqebbs == (prod - cons_index) % IdxMod

\* Mutant: room for one packet more than there is.
AvailablePkts_OffByOne == (SqSize - UsedWqebbs) \div WqeBbs + 1

AvailablePkts == (SqSize - UsedWqebbs) \div WqeBbs

\* The 16 bits of a completed WQE's position that its CQE carries.
WqeCounter(cqe) == cqe.pos % CtrMod

\* Mutant: no new generation when the 16-bit counter has wrapped.
Reclaim_NoWrap(cons, counter) ==
  ((cons - (cons % CtrMod)) + counter + WqeBbs) % IdxMod

(***************************************************************************)
(* mlx5_sq_reclaim_cqe: keep the high bits of cons_index, take the low     *)
(* ones from the CQE, add one generation if that went backwards, and step  *)
(* past the WQE.                                                           *)
(***************************************************************************)
Reclaim(cons, counter) ==
  LET completed == (cons - (cons % CtrMod)) + counter
      forward == IF completed < cons THEN (completed + CtrMod) % IdxMod
                                     ELSE completed
  IN  (forward + WqeBbs) % IdxMod

(***************************************************************************)
(* mlx5_sq_prepare_send_raw for k frames in a row: a WQE in every second   *)
(* slot from the producer on.  The completion is requested on frame last,  *)
(* counted from 1; last = 0 requests none.                                 *)
(***************************************************************************)
Prepare(k, last) ==
  /\ wqe' = [s \in SqSlots |->
               LET off == (s - prod) % SqSize
               IN  IF off % WqeBbs = 0 /\ off < WqeBbs * k
                   THEN [idx |-> (prod + off) % CtrMod,
                         signal |-> off \div WqeBbs + 1 = last]
                   ELSE wqe[s]]
  /\ prod' = prod + WqeBbs * k

-------------------------------------------------------------------------------
(***************************************************************************)
(* mlxnicd_tx_burst_q.  bad is the first frame whose length is outside     *)
(* 60..98; later frames of the call are never looked at.                   *)
(***************************************************************************)
TxBurst(n, b) ==
  /\ pc = "idle"
  /\ b = n + 1 \/ BadFrames
  /\ prod + WqeBbs * n <= MaxProd
  /\ pc' = "burst"
  /\ nb_pkts' = n
  /\ bad' = b
  /\ sent' = 0
  /\ UNCHANGED <<cqvars, sqvars, hw, hwerr, uar_in_bar, ret, reported>>

\* return sent
BurstReturns(count) ==
  /\ pc' = "idle"
  /\ sent' = count
  /\ reported' = reported + count
  /\ UNCHANGED <<nb_pkts, bad, ret>>

\* nb_pkts - sent, cut to the room in the ring.
Batch ==
  IF nb_pkts - sent > AvailablePkts THEN AvailablePkts ELSE nb_pkts - sent

(***************************************************************************)
(* One turn of the loop with room in the ring: the whole batch is          *)
(* prepared, then mlx5_sq_ring_send publishes the producer index and rings *)
(* the doorbell.                                                           *)
(***************************************************************************)
BurstPost ==
  /\ pc = "burst"
  /\ sent < nb_pkts
  /\ AvailablePkts > 0
  /\ bad > sent + Batch
  /\ uar_in_bar
  /\ Prepare(Batch, Batch)
  /\ db' = prod'
  /\ sent' = sent + Batch
  /\ UNCHANGED <<cqvars, cons_index, hw, hwerr, uar_in_bar,
                 pc, nb_pkts, bad, ret, reported>>

(***************************************************************************)
(* A frame of the batch has a bad length: the frames before it stay        *)
(* prepared, without a doorbell and without a completion request, and the  *)
(* call returns what earlier batches posted.                               *)
(***************************************************************************)
BurstBadFrame ==
  /\ pc = "burst"
  /\ sent < nb_pkts
  /\ AvailablePkts > 0
  /\ bad <= sent + Batch
  /\ Prepare(bad - sent - 1, 0)
  /\ BurstReturns(sent)
  /\ UNCHANGED <<cqvars, cons_index, db, hw, hwerr, uar_in_bar>>

(***************************************************************************)
(* mlx5_sq_ring_send refuses a UAR beyond BAR0 after the batch was         *)
(* prepared.                                                               *)
(***************************************************************************)
BurstRingFails ==
  /\ pc = "burst"
  /\ sent < nb_pkts
  /\ AvailablePkts > 0
  /\ bad > sent + Batch
  /\ ~uar_in_bar
  /\ Prepare(Batch, Batch)
  /\ BurstReturns(sent)
  /\ UNCHANGED <<cqvars, cons_index, db, hw, hwerr, uar_in_bar>>

\* Mutant: the reclaiming poll does not publish the consumer index.
PollReclaims_Unpublished ==
  /\ CqReady
  /\ CqHead.op # "err"
  /\ cons_index' = Reclaim(cons_index, WqeCounter(CqHead))
  /\ PollCqe(FALSE)
  /\ UNCHANGED <<wqe, prod, db>>

(***************************************************************************)
(* mlx5_sq_poll_tx_cq(wait) found a good CQE: consume it, publish the      *)
(* consumer index, reclaim.  The error CQE is consumed too but reclaims    *)
(* nothing; a poll that finds nothing for a second gives up.               *)
(***************************************************************************)
PollReclaims ==
  /\ CqReady
  /\ CqHead.op # "err"
  /\ cons_index' = Reclaim(cons_index, WqeCounter(CqHead))
  /\ PollCqe(TRUE)
  /\ UNCHANGED <<wqe, prod, db>>

PollFails ==
  /\ \/ CqReady /\ CqHead.op = "err" /\ PollCqe(TRUE)
     \/ ~CqReady /\ UNCHANGED cqvars
  /\ UNCHANGED sqvars

BurstReclaims ==
  /\ pc = "burst"
  /\ sent < nb_pkts
  /\ AvailablePkts = 0
  /\ PollReclaims
  /\ UNCHANGED <<hw, hwerr, uar_in_bar, callvars>>

\* Mutant: a poll that found nothing is tried again for ever.
BurstPollFails_Retries ==
  /\ pc = "burst"
  /\ sent < nb_pkts
  /\ AvailablePkts = 0
  /\ PollFails
  /\ UNCHANGED <<hw, hwerr, uar_in_bar, callvars>>

\* An index difference beyond the ring is refused at once.
BurstPollFails ==
  /\ pc = "burst"
  /\ sent < nb_pkts
  /\ \/ UsedWqebbs > SqSize /\ UNCHANGED <<cqvars, sqvars>>
     \/ AvailablePkts = 0 /\ PollFails
  /\ BurstReturns(sent)
  /\ UNCHANGED <<hw, hwerr, uar_in_bar>>

BurstDone ==
  /\ pc = "burst"
  /\ sent = nb_pkts
  /\ BurstReturns(sent)
  /\ UNCHANGED <<cqvars, sqvars, hw, hwerr, uar_in_bar>>

(***************************************************************************)
(* mlxnicd_tx_flush_q: poll until cons_index reaches prod_index.           *)
(***************************************************************************)
TxFlush ==
  /\ pc = "idle"
  /\ pc' = "flush"
  /\ UNCHANGED <<cqvars, sqvars, hw, hwerr, uar_in_bar,
                 nb_pkts, bad, sent, ret, reported>>

FlushReturns(r) ==
  /\ pc' = "idle"
  /\ ret' = r
  /\ UNCHANGED <<nb_pkts, bad, sent, reported>>

FlushReclaims ==
  /\ pc = "flush"
  /\ cons_index # prod % IdxMod
  /\ PollReclaims
  /\ UNCHANGED <<hw, hwerr, uar_in_bar, callvars>>

\* Mutant: the result of the poll is not looked at.
FlushPollFails_Ignored ==
  /\ pc = "flush"
  /\ cons_index # prod % IdxMod
  /\ PollFails
  /\ FlushReturns("ok")
  /\ UNCHANGED <<hw, hwerr, uar_in_bar>>

FlushPollFails ==
  /\ pc = "flush"
  /\ cons_index # prod % IdxMod
  /\ PollFails
  /\ FlushReturns("fail")
  /\ UNCHANGED <<hw, hwerr, uar_in_bar>>

FlushDone ==
  /\ pc = "flush"
  /\ cons_index = prod % IdxMod
  /\ FlushReturns("ok")
  /\ UNCHANGED <<cqvars, sqvars, hw, hwerr, uar_in_bar>>

Driver ==
  \/ BurstPost
  \/ BurstBadFrame
  \/ BurstRingFails
  \/ BurstReclaims
  \/ BurstPollFails
  \/ BurstDone
  \/ FlushReclaims
  \/ FlushPollFails
  \/ FlushDone

-------------------------------------------------------------------------------
(***************************************************************************)
(* The device (external).  It sees 16 bits of the producer index, executes *)
(* WQEs in order and completes the signalled ones.  After a WQE completes  *)
(* in error the SQ is in error and flushes the rest, with an error CQE for *)
(* every WQE.                                                              *)
(***************************************************************************)
HwPending == hw % CtrMod # db % CtrMod

HwSend ==
  /\ HwPending
  /\ ~hwerr
  /\ hw' = hw + WqeBbs
  /\ IF wqe[hw % SqSize].signal
     THEN HwWriteCqe("ok", hw)
     ELSE UNCHANGED cqvars
  /\ UNCHANGED <<sqvars, hwerr, uar_in_bar, callvars>>

HwError ==
  /\ HwPending
  /\ TxErrors
  /\ hwerr' = TRUE
  /\ hw' = hw + WqeBbs
  /\ HwWriteCqe("err", hw)
  /\ UNCHANGED <<sqvars, uar_in_bar, callvars>>

Device == HwSend \/ HwError

Next ==
  \/ \E n \in 0..MaxBurst : \E b \in 1..(n + 1) : TxBurst(n, b)
  \/ TxFlush
  \/ Driver
  \/ Device

Spec == Init /\ [][Next]_vars

(***************************************************************************)
(* The calling thread is never stopped for good inside a call: each of its *)
(* waits ends after a second at the latest.  The device owes nothing.      *)
(***************************************************************************)
FairSpec == Spec /\ WF_vars(Driver)

-------------------------------------------------------------------------------
TypeOK ==
  /\ CqTypeOK
  /\ wqe \in [SqSlots -> Wqe]
  /\ prod \in Nat
  /\ cons_index \in 0..(IdxMod - 1)
  /\ db \in Nat
  /\ hw \in Nat
  /\ hwerr \in BOOLEAN
  /\ uar_in_bar \in BOOLEAN
  /\ pc \in {"idle", "burst", "flush"}
  /\ nb_pkts \in Nat
  /\ bad \in (sent + 1)..(nb_pkts + 1)
  /\ sent \in 0..nb_pkts
  /\ ret \in {"ok", "fail"}
  /\ reported \in Nat

\* The position cons_index stands for.
ConsPos == prod - UsedWqebbs

(***************************************************************************)
(* cons_index, rebuilt from 16 hardware bits, never runs ahead of what the *)
(* device has executed, and the ring is never overcommitted: the branch    *)
(* used_wqebbs > MLX5_SQ_WQE_COUNT of tx_burst_q is unreachable.           *)
(***************************************************************************)
RingBounds ==
  /\ 0 <= ConsPos
  /\ ConsPos <= hw
  /\ hw <= db
  /\ db <= prod
  /\ UsedWqebbs <= SqSize

(***************************************************************************)
(* The device finds, at every position from its own up to the producer,    *)
(* the WQE the driver wrote for that position: preparing a later frame     *)
(* never overwrites one that is not executed yet.                          *)
(***************************************************************************)
WqeIntact ==
  \A p \in hw..(prod - 1) :
    p % WqeBbs = 0 => wqe[p % SqSize].idx = p % CtrMod

(***************************************************************************)
(* "Wait until all submitted TX WQEs on one queue have completed": when    *)
(* mlxnicd_tx_flush_q returns 0 the device has executed every WQE that was *)
(* ever prepared, and there is nothing it was not told of.                 *)
(***************************************************************************)
FlushMeansExecuted ==
  [][pc = "flush" /\ pc' = "idle" /\ ret' = "ok" => hw' = prod']_vars

(***************************************************************************)
(* The completion queue overflows only if it has fewer CQEs than the send  *)
(* ring has WQEs: with a CQE per packet in the worst case, and the CQ not  *)
(* polled until the ring is full, CqSize >= SqSize / 2 is needed.          *)
(***************************************************************************)
OverrunNeedsSmallCq == cqdead => WqeBbs * CqSize < SqSize

(***************************************************************************)
(* mlxnicd_tx_flush_q gives up only when something is left to complete or  *)
(* the device reported an error.                                           *)
(***************************************************************************)
FlushFailsOnlyIfUnfinished ==
  [][pc = "flush" /\ pc' = "idle" /\ ret' = "fail" => hw # prod \/ hwerr]_vars

(***************************************************************************)
(* "Returns number of packets actually posted": between calls, the packets *)
(* the device was told of are the packets the calls reported.              *)
(***************************************************************************)
ReturnCountsPosted == pc = "idle" => db = WqeBbs * reported

(***************************************************************************)
(* Every call returns, whatever the device does or fails to do.            *)
(***************************************************************************)
CallsReturn == pc # "idle" ~> pc = "idle"

-------------------------------------------------------------------------------
(***************************************************************************)
(* The inductive invariant behind the safety properties.                   *)
(***************************************************************************)

\* The CQE the device wrote as its p-th.
CqeAt(p) == cqring[p % CqSize]

\* Every index stands on a WQE boundary.
WholeWqes ==
  /\ prod % WqeBbs = 0
  /\ db % WqeBbs = 0
  /\ hw % WqeBbs = 0
  /\ ConsPos % WqeBbs = 0

(***************************************************************************)
(* The CQEs still to be polled name different WQEs, in order, all executed *)
(* and none reclaimed: there is one WQE at least for each of them.         *)
(***************************************************************************)
PendingCqes ==
  /\ ConsPos + WqeBbs * (cqpi - cqci) <= hw
  /\ \A p \in cqci..(cqpi - 1) :
       /\ CqeAt(p).pos % WqeBbs = 0
       /\ ConsPos + WqeBbs * (p - cqci) <= CqeAt(p).pos
       /\ CqeAt(p).pos + WqeBbs * (cqpi - p) <= hw
  /\ \A p, q \in cqci..(cqpi - 1) :
       p < q => CqeAt(p).pos + WqeBbs * (q - p) <= CqeAt(q).pos

(***************************************************************************)
(* The state of a transmit queue that every step keeps.                    *)
(***************************************************************************)
TxInv ==
  /\ TypeOK
  /\ CqInv
  /\ cqdbr = cqci
  /\ RingBounds
  /\ WholeWqes
  /\ WqeIntact
  /\ PendingCqes
  /\ OverrunNeedsSmallCq

===============================================================================
