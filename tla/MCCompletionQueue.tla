-------------------------- MODULE MCCompletionQueue --------------------------
(***************************************************************************)
(* The completion queue on its own: a device that completes anything at    *)
(* any time, a driver that polls with and without publishing the consumer  *)
(* index and publishes it whenever it likes.  With two positions a CQE     *)
(* read from the wrong slot can be told apart.                             *)
(***************************************************************************)
EXTENDS CompletionQueue, Sequences

CONSTANTS
  MaxCqes,     \* bound: CQEs the device writes
  Positions    \* the WQE positions a CQE may carry

ASSUME PositionsAssumption == Positions \subseteq Nat

DeviceCompletes(op, pos) ==
  /\ cqpi < MaxCqes
  /\ HwWriteCqe(op, pos)

CqNext ==
  \/ \E op \in {"ok", "err"}, pos \in Positions : DeviceCompletes(op, pos)
  \/ \E update \in BOOLEAN : PollCqe(update)
  \/ CqUpdateConsumer

CqSpec == CqInit /\ [][CqNext]_cqvars

(***************************************************************************)
(* The ring read through the owner bits is the abstract queue: from the    *)
(* consumer on, all CQEs that carry the owner bit of their lap, up to the  *)
(* first that does not.                                                    *)
(***************************************************************************)
Readable(ring, p) == ring[p % CqSize].owner = (p \div CqSize) % 2

Pending(ring, ci) ==
  CHOOSE n \in 0..CqSize :
    \A k \in 0..n : k < CqSize => (Readable(ring, ci + k) <=> k < n)

Completion(e) == [op |-> e.op, pos |-> e.pos]

Queued(ring, ci) ==
  [k \in 1..Pending(ring, ci) |-> Completion(ring[(ci + k - 1) % CqSize])]

Fifo ==
  INSTANCE CompletionFifo
    WITH Depth <- CqSize,
         Completions <- [op : {"ok", "err"}, pos : Positions],
         fifo <- Queued(cqring, cqci),
         broken <- cqdead

(***************************************************************************)
(* The polled ring implements the abstract queue: mlx5_poll_cq_once_mode   *)
(* returns the device's completions in order, each once, and loses one     *)
(* only by breaking the queue.                                             *)
(***************************************************************************)
ImplementsFifo == Fifo!FifoSpec
===============================================================================
