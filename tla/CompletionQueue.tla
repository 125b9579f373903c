--------------------------- MODULE CompletionQueue ---------------------------
(***************************************************************************)
(* One mlx5 completion queue (struct mlx5_cq_res): a ring of CQEs in DMA   *)
(* memory that the device writes and the driver polls.  There is no shared *)
(* producer index: the driver decides that a CQE is new by comparing the   *)
(* owner bit of the slot at its consumer index with the parity of the lap  *)
(* it is on.  The driver gives slots back only through the doorbell record *)
(* (DBR), which some paths update per CQE and some once per burst.         *)
(*                                                                         *)
(* TxQueue and RxQueue extend this module and drive the same actions; on   *)
(* its own it has a specification with a device that completes anything    *)
(* and a driver that polls in every mode the code has.                     *)
(*                                                                         *)
(* Counters are natural numbers counting CQEs since the queue was created. *)
(* The C counter cons_index is a uint32_t: it is cqci % IdxMod, and every  *)
(* use of it below goes through that truncation.                           *)
(***************************************************************************)
EXTENDS Integers

CONSTANTS
  CqSize,   \* MLX5_CQ_CQE_COUNT, 2048 in the code
  IdxMod    \* 2^32: the range of the driver's uint32_t indices

(***************************************************************************)
(* A lap pair divides the index range, so the parity of the lap survives   *)
(* the wrap of cons_index (2^32 is a multiple of 2 * 2048).                *)
(***************************************************************************)
ASSUME CqAssumption ==
  /\ CqSize \in Nat \ {0}
  /\ IdxMod \in Nat \ {0}
  /\ IdxMod % (2 * CqSize) = 0

VARIABLES
  cqring,   \* cq_page: the CQE in every slot, written by the device
  cqpi,     \* the device's count of CQEs written
  cqci,     \* the driver's count of CQEs consumed (cons_index, unwrapped)
  cqdbr,    \* dbr_page: the consumer count last published to the device
  cqdead    \* the device found the ring full: CQ error, no CQE ever after

cqvars == <<cqring, cqpi, cqci, cqdbr, cqdead>>

CqSlots == 0..(CqSize - 1)

(***************************************************************************)
(* What a CQE says.  "none" is the 0xff pattern the driver fills the ring  *)
(* with (opcode 15, owner 1); "err" is REQ_ERR or RESP_ERR.  pos is the    *)
(* absolute position of the completed WQE; the wire carries 16 bits of it, *)
(* and a queue reads it only through its WqeCounter operator.              *)
(***************************************************************************)
CqeOps == {"none", "ok", "err"}

Cqe == [owner : {0, 1}, op : CqeOps, pos : Nat]

(***************************************************************************)
(* mlx5_ctx_create_cq: 0xff everywhere, so every owner bit is 1 while the  *)
(* first lap expects 0.                                                    *)
(***************************************************************************)
CqInit ==
  /\ cqring = [s \in CqSlots |-> [owner |-> 1, op |-> "none", pos |-> 0]]
  /\ cqpi = 0
  /\ cqci = 0
  /\ cqdbr = 0
  /\ cqdead = FALSE

-------------------------------------------------------------------------------
(***************************************************************************)
(* The driver's side.                                                      *)
(***************************************************************************)

\* Mutant: the index is kept within the ring and forgets its lap.
ConsIndex_NoLap == cqci % CqSize

ConsIndex == cqci % IdxMod

CqHead == cqring[ConsIndex % CqSize]

\* Mutant: the owner bit is compared with the first lap's on every lap.
ExpectedOwner_FirstLap == 0

ExpectedOwner == (ConsIndex \div CqSize) % 2

\* owner == expected_owner: the poll finds a CQE.
CqReady == CqHead.owner = ExpectedOwner

(***************************************************************************)
(* mlx5_poll_cq_once_mode when a CQE is there: the consumer index moves    *)
(* past it, an error CQE included, and is published if the mode says so.   *)
(***************************************************************************)
PollCqe(update) ==
  /\ CqReady
  /\ cqci' = cqci + 1
  /\ cqdbr' = IF update THEN cqci + 1 ELSE cqdbr
  /\ UNCHANGED <<cqring, cqpi, cqdead>>

\* Mutant: the DBR is written one past the consumer index.
CqUpdateConsumer_Ahead ==
  /\ cqdbr' = cqci + 1
  /\ UNCHANGED <<cqring, cqpi, cqci, cqdead>>

(***************************************************************************)
(* mlx5_cq_update_consumer on its own, as rx_burst calls it per burst.     *)
(***************************************************************************)
CqUpdateConsumer ==
  /\ cqdbr' = cqci
  /\ UNCHANGED <<cqring, cqpi, cqci, cqdead>>

-------------------------------------------------------------------------------
(***************************************************************************)
(* The device's side (external).  A CQE carries the parity of the lap the  *)
(* device is on.  The CQ is created without the overrun-ignore bit: with   *)
(* CqSize CQEs not yet given back it goes to error and loses this and      *)
(* every later completion.                                                 *)
(***************************************************************************)
CqFull == cqpi - cqdbr >= CqSize

HwWriteCqe(op, pos) ==
  IF cqdead \/ CqFull
  THEN /\ cqdead' = TRUE
       /\ UNCHANGED <<cqring, cqpi, cqci, cqdbr>>
  ELSE /\ cqring' = [cqring EXCEPT ![cqpi % CqSize] =
                       [owner |-> (cqpi \div CqSize) % 2, op |-> op, pos |-> pos]]
       /\ cqpi' = cqpi + 1
       /\ UNCHANGED <<cqci, cqdbr, cqdead>>

-------------------------------------------------------------------------------
CqTypeOK ==
  /\ cqring \in [CqSlots -> Cqe]
  /\ cqpi \in Nat
  /\ cqci \in Nat
  /\ cqdbr \in Nat
  /\ cqdead \in BOOLEAN

(***************************************************************************)
(* The driver never passes the device, and the device never laps what the  *)
(* driver has given back.                                                  *)
(***************************************************************************)
CqOrder ==
  /\ cqdbr <= cqci
  /\ cqci <= cqpi
  /\ cqpi <= cqdbr + CqSize

(***************************************************************************)
(* Over one turn of the ring from the consumer on, the owner bit tells     *)
(* exactly the CQEs that were written from those that were not.            *)
(***************************************************************************)
CqOwnership ==
  \A p \in cqci..(cqci + CqSize - 1) :
    (cqring[p % CqSize].owner = (p \div CqSize) % 2) <=> p < cqpi

CqInv == CqTypeOK /\ CqOrder /\ CqOwnership

(***************************************************************************)
(* mlx5_poll_cq_once_mode finds a CQE exactly when the device has written  *)
(* one that was not consumed: no stale CQE of an earlier lap is taken for  *)
(* a new one, and none that was written is missed, across the wrap of the  *)
(* ring and of the 32-bit index.                                           *)
(***************************************************************************)
PollExact == CqReady <=> cqci < cqpi

===============================================================================
