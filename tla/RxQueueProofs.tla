---------------------------- MODULE RxQueueProofs ----------------------------
(***************************************************************************)
(* RxInv is an inductive invariant of RxQueue, for every ring size, number *)
(* of posted buffers, width of the counters and bound, with error          *)
(* completions and failing allocations or without.  That rx_release_q may  *)
(* count packets instead of naming them follows.                           *)
(***************************************************************************)
EXTENDS RxQueue, CompletionQueueProofs, SequenceTheorems

(***************************************************************************)
(* The types the arithmetic below needs, in one place.                     *)
(***************************************************************************)
LEMMA RxTypes ==
  ASSUME RxInv
  PROVE  /\ prod \in Nat /\ db \in Nat /\ hw \in Nat /\ outstanding \in Nat
         /\ cqpi \in Nat /\ cqci \in Nat /\ cqdbr \in Nat
         /\ released \in Nat /\ leaked \in Nat /\ surplus \in Nat
         /\ received \in Nat /\ nb_pkts \in Nat /\ received <= nb_pkts
         /\ held \in Seq(Nat) /\ Len(held) \in Nat
         /\ \A i \in 1..Len(held) : held[i] \in Nat
         /\ RqSize \in Nat \ {0} /\ CqSize \in Nat \ {0} /\ PostCount \in Nat
         /\ PostCount <= RqSize
BY CqAssumption, RxAssumption DEF RxInv, TypeOK, CqTypeOK

(***************************************************************************)
(* The order of the counters that RxInv implies.                           *)
(***************************************************************************)
LEMMA RxCounters ==
  ASSUME RxInv
  PROVE  /\ cqdbr <= cqci /\ cqci <= cqpi /\ cqpi <= hw /\ hw <= db /\ db <= prod
         /\ prod <= released + RqSize /\ released + outstanding <= cqdbr
         /\ Len(held) = outstanding + received
         /\ cqci = released + Len(held) + leaked
         /\ prod = PostCount + released + surplus
BY DEF RxInv, RxOrder, RxAccounting, CqInv, CqOrder

LEMMA RxInitInv == Init => RxInv
<1> SUFFICES ASSUME Init PROVE RxInv
  OBVIOUS
<1>1. CqInv  BY CqInitInv DEF Init
<1>2. pages = {Slot(p) : p \in 0..(PostCount - 1)}  BY DEF Init
<1>3. pages \subseteq RqSlots
  <2>1. \A p \in 0..(PostCount - 1) : Slot(p) \in RqSlots
    BY DivMod, RxAssumption DEF Slot, RqSlots
  <2>  QED  BY <1>2, <2>1
<1>4. TypeOK
  <2>1. PostCount \in Nat /\ 0 \in 0..0 /\ <<>> \in Seq(Nat)  BY RxAssumption
  <2>  QED  BY <1>1, <1>3, <2>1 DEF Init, TypeOK, CqInv
<1>5. RxOrder /\ RxAccounting /\ RxOverrunNeedsSmallCq
  BY RxAssumption DEF Init, CqInit, RxOrder, RxAccounting, RxOverrunNeedsSmallCq
<1>6. PendingInOrder /\ HeldInOrder
  BY DEF Init, CqInit, PendingInOrder, HeldInOrder
<1>7. AllPostedHavePages
  BY <1>2 DEF Init, AllPostedHavePages
<1>  QED  BY <1>1, <1>4, <1>5, <1>6, <1>7 DEF RxInv

(***************************************************************************)
(* Consuming a CQE leaves the pending ones after it in order.              *)
(***************************************************************************)
LEMMA PollKeepsOrder ==
  ASSUME RxInv, NEW update \in BOOLEAN, PollCqe(update)
  PROVE  /\ CqInv' /\ PendingInOrder'
         /\ cqci < cqpi /\ CqHead = CqeAt(cqci) /\ CqHead.pos = cqci
<1>1. CqInv'  BY PollCqeInv DEF RxInv
<1>2. cqci < cqpi  BY CqPollExact DEF RxInv, PollExact, PollCqe
<1>3. CqHead = CqeAt(cqci)  BY CqHeadUnwrapped DEF RxInv, CqInv, CqeAt
<1>4. CqHead.pos = cqci
  <2>1. cqci \in cqci..(cqpi - 1)  BY <1>2, RxTypes
  <2>  QED  BY <1>3, <2>1 DEF RxInv, PendingInOrder
<1>5. PendingInOrder'
  <2>1. cqring' = cqring /\ cqpi' = cqpi /\ cqci' = cqci + 1  BY DEF PollCqe
  <2>2. \A p \in (cqci + 1)..(cqpi - 1) : p \in cqci..(cqpi - 1)  BY RxTypes
  <2>  QED  BY <2>1, <2>2 DEF RxInv, PendingInOrder, CqeAt
<1>  QED  BY <1>1, <1>2, <1>3, <1>4, <1>5

(***************************************************************************)
(* The packet of a good CQE joins the held ones: its buffer is younger     *)
(* than theirs and its position not below its place among the unreleased.  *)
(***************************************************************************)
LEMMA RxPollPacketInv ==
  ASSUME RxInv, RxPollPacket
  PROVE  RxInv'
<1>0. /\ prod \in Nat /\ db \in Nat /\ hw \in Nat /\ outstanding \in Nat
      /\ cqpi \in Nat /\ cqci \in Nat /\ cqdbr \in Nat
      /\ released \in Nat /\ leaked \in Nat /\ surplus \in Nat
      /\ received \in Nat /\ nb_pkts \in Nat
      /\ held \in Seq(Nat) /\ Len(held) \in Nat
      /\ \A i \in 1..Len(held) : held[i] \in Nat
      /\ cqdbr <= cqci /\ cqci <= cqpi /\ cqpi <= hw
      /\ released + outstanding <= cqdbr
      /\ Len(held) = outstanding + received
      /\ cqci = released + Len(held) + leaked
      /\ prod = PostCount + released + surplus
  BY RxTypes, RxCounters
<1>1. Blocking \in BOOLEAN  BY DEF Blocking, RxInv, TypeOK
<1>2. /\ CqInv' /\ PendingInOrder' /\ cqci < cqpi /\ CqHead.pos = cqci
  BY <1>1, PollKeepsOrder DEF RxPollPacket
<1>3. /\ held' = Append(held, cqci) /\ received' = received + 1
      /\ received < nb_pkts /\ pc = "burst"
      /\ cqci' = cqci + 1 /\ cqdbr' \in {cqdbr, cqci + 1}
      /\ UNCHANGED <<cqring, cqpi, cqdead>>
      /\ UNCHANGED <<pages, prod, db, hw, outstanding, pc, nb_pkts, wait>>
      /\ UNCHANGED <<released, leaked, surplus>>
  BY <1>2 DEF RxPollPacket, PollCqe, rqvars, history
<1>4. /\ Len(held') = Len(held) + 1 /\ held' \in Seq(Nat)
      /\ held'[Len(held) + 1] = cqci
      /\ \A i \in 1..Len(held) : held'[i] = held[i]
  BY <1>3, <1>0
<1>5. TypeOK'
  BY <1>2, <1>3, <1>4, <1>0 DEF RxInv, TypeOK, CqInv
<1>6. RxOrder' /\ RxAccounting' /\ RxOverrunNeedsSmallCq' /\ AllPostedHavePages'
  <2>1. released + outstanding <= cqdbr'  BY <1>0, <1>3
  <2>2. RxOrder'  BY <1>3, <2>1 DEF RxInv, RxOrder
  <2>3. RxAccounting'
    <3>1. Len(held') = outstanding + (received + 1)  BY <1>0, <1>4
    <3>2. cqci + 1 = released + Len(held') + leaked  BY <1>0, <1>4
    <3>  QED  BY <1>0, <1>3, <3>1, <3>2 DEF RxAccounting
  <2>  QED
    BY <1>3, <2>2, <2>3 DEF RxInv, RxOverrunNeedsSmallCq, AllPostedHavePages
<1>7. HeldInOrder'
  <2>1. \A i \in 1..Len(held) : /\ released + (i - 1) <= held[i] /\ held[i] < cqci
                                /\ held[i] \in Nat
    BY <1>0 DEF RxInv, HeldInOrder
  <2>2. \A i, j \in 1..Len(held) : i < j => held[i] < held[j]
    BY DEF RxInv, HeldInOrder
  <2>3. ASSUME NEW i \in 1..(Len(held) + 1)
        PROVE  released + (i - 1) <= held'[i] /\ held'[i] < cqci + 1
    <3>0. released \in Nat /\ leaked \in Nat /\ cqci \in Nat /\ Len(held) \in Nat
          /\ cqci = released + Len(held) + leaked
      BY <1>0
    <3>1. CASE i = Len(held) + 1
      BY ONLY <1>4, <3>0, <3>1
    <3>2. CASE i \in 1..Len(held)
      <4>1. held'[i] = held[i]  BY ONLY <1>4, <3>2
      <4>2. /\ released + (i - 1) <= held[i] /\ held[i] < cqci
            /\ held[i] \in Nat
        BY ONLY <2>1, <3>2
      <4>  QED  BY ONLY <3>0, <4>1, <4>2
    <3>  QED  BY ONLY <3>0, <3>1, <3>2, <2>3
  <2>4. ASSUME NEW i \in 1..(Len(held) + 1), NEW j \in 1..(Len(held) + 1), i < j
        PROVE  held'[i] < held'[j]
    <3>1. i \in 1..Len(held)  BY <2>4, <1>0
    <3>2. CASE j = Len(held) + 1
      BY <1>4, <2>1, <3>1, <3>2
    <3>3. CASE j \in 1..Len(held)
      BY <1>4, <2>2, <2>4, <3>1, <3>3
    <3>  QED  BY <3>2, <3>3, <1>0
  <2>  QED  BY <1>3, <1>4, <2>3, <2>4 DEF HeldInOrder
<1>  QED  BY <1>2, <1>5, <1>6, <1>7 DEF RxInv

(***************************************************************************)
(* A burst that ends moves its packets to rx_outstanding; the consumer     *)
(* index it publishes covers them.                                         *)
(***************************************************************************)
LEMMA BurstReturnsInv ==
  ASSUME RxInv, BurstReturns, CqInv', PendingInOrder',
         UNCHANGED <<cqpi, cqdead, released, surplus>>,
         \/ cqci' = cqci /\ leaked' = leaked
         \/ cqci' = cqci + 1 /\ leaked' = leaked + 1,
         cqdbr <= cqdbr', received > 0 => cqdbr' = cqci'
  PROVE  RxInv'
<1>0. /\ prod \in Nat /\ db \in Nat /\ hw \in Nat /\ outstanding \in Nat
      /\ cqpi \in Nat /\ cqci \in Nat /\ cqdbr \in Nat
      /\ released \in Nat /\ leaked \in Nat /\ surplus \in Nat
      /\ received \in Nat /\ nb_pkts \in Nat
      /\ held \in Seq(Nat) /\ Len(held) \in Nat
      /\ \A i \in 1..Len(held) : held[i] \in Nat
      /\ cqdbr <= cqci /\ cqci <= cqpi /\ cqpi <= hw
      /\ released + outstanding <= cqdbr
      /\ Len(held) = outstanding + received
      /\ cqci = released + Len(held) + leaked
      /\ prod = PostCount + released + surplus
  BY RxTypes, RxCounters
<1>1. /\ pc' = "idle" /\ received' = 0 /\ outstanding' = outstanding + received
      /\ UNCHANGED <<pages, prod, db, hw, held, nb_pkts, wait>>
  BY DEF BurstReturns, rqvars
<1>2. TypeOK'
  BY <1>1, <1>0 DEF RxInv, TypeOK, CqInv
<1>3. /\ cqdbr' \in Nat /\ cqci' \in Nat /\ leaked' \in Nat /\ cqdbr' <= cqci'
  BY <1>2 DEF TypeOK, CqTypeOK, CqInv, CqOrder
<1>4. RxAccounting' /\ RxOverrunNeedsSmallCq' /\ AllPostedHavePages'
  <2>1. RxAccounting'  BY <1>0, <1>1 DEF RxAccounting
  <2>  QED
    BY <1>1, <2>1 DEF RxInv, RxOverrunNeedsSmallCq, AllPostedHavePages
<1>5. RxOrder'
  <2>1. released + (outstanding + received) <= cqdbr'
    BY <1>3, <1>0
  <2>  QED  BY <1>1, <2>1 DEF RxInv, RxOrder
<1>6. HeldInOrder'
  <2>1. cqci <= cqci'  BY <1>3, <1>0
  <2>2. \A i \in 1..Len(held) : held[i] \in Nat  BY <1>0
  <2>3. \A i \in 1..Len(held) : held[i] < cqci => held[i] < cqci'
    BY <1>3, <2>1, <2>2, <1>0
  <2>  QED  BY <1>1, <2>3 DEF RxInv, HeldInOrder
<1>  QED  BY <1>2, <1>4, <1>5, <1>6 DEF RxInv

(***************************************************************************)
(* Writing k receive WQEs, k at most a turn of the ring, puts a page       *)
(* behind each of them.                                                    *)
(***************************************************************************)
LEMMA WriteWqesPages ==
  ASSUME RxInv, NEW k \in 0..RqSize, WriteWqes(k)
  PROVE  /\ pages' \subseteq RqSlots /\ pages \subseteq pages'
         /\ prod' = prod + k /\ AllPostedHavePages'
<1>0. prod \in Nat /\ RqSize \in Nat \ {0}  BY RxTypes
<1>1. /\ pages' = pages \union {Slot(p) : p \in prod..(prod + k - 1)}
      /\ prod' = prod + k
  BY DEF WriteWqes
<1>2. \A p \in prod..(prod + k - 1) : Slot(p) \in RqSlots
  BY <1>0, DivMod DEF Slot, RqSlots
<1>3. pages \subseteq RqSlots  BY DEF RxInv, TypeOK
<1>4. AllPostedHavePages'
  <2>1. ASSUME NEW p \in 0..(prod + k - 1) PROVE Slot(p) \in pages'
    <3>1. CASE p \in 0..(prod - 1)
      BY <1>1, <3>1 DEF RxInv, AllPostedHavePages
    <3>2. CASE p \in prod..(prod + k - 1)
      BY <1>1, <3>2
    <3>  QED  BY <1>0, <3>1, <3>2
  <2>2. prod' = prod + k  BY <1>1
  <2>3. \A p \in 0..(prod' - 1) : p \in 0..(prod + k - 1)  BY <1>0, <2>2
  <2>  QED  BY <2>1, <2>3 DEF AllPostedHavePages, Slot
<1>  QED  BY <1>1, <1>2, <1>3, <1>4

(***************************************************************************)
(* Releasing the n oldest packets shifts the rest down by n places.        *)
(***************************************************************************)
LEMMA RxReleaseInv ==
  ASSUME RxInv, NEW n \in 0..RqSize, RxRelease(n)
  PROVE  RxInv'
<1>0. /\ prod \in Nat /\ db \in Nat /\ hw \in Nat /\ outstanding \in Nat
      /\ cqci \in Nat /\ cqdbr \in Nat
      /\ released \in Nat /\ leaked \in Nat /\ surplus \in Nat
      /\ received \in Nat /\ PostCount \in Nat /\ RqSize \in Nat
      /\ held \in Seq(Nat) /\ Len(held) \in Nat
      /\ hw <= db /\ db <= prod /\ prod <= released + RqSize
      /\ released + outstanding <= cqdbr
      /\ Len(held) = outstanding + received
      /\ cqci = released + Len(held) + leaked
      /\ prod = PostCount + released + surplus
  BY RxTypes, RxCounters
<1>1. /\ n <= outstanding /\ WriteWqes(n)
      /\ db' = prod' /\ outstanding' = outstanding - n
      /\ held' = SubSeq(held, n + 1, Len(held))
      /\ released' = released + n
      /\ UNCHANGED <<cqring, cqpi, cqci, cqdbr, cqdead, hw>>
      /\ UNCHANGED <<pc, nb_pkts, wait, received, leaked, surplus>>
  BY DEF RxRelease, cqvars, callvars
<1>2. /\ pages' \subseteq RqSlots /\ prod' = prod + n /\ AllPostedHavePages'
  BY <1>1, WriteWqesPages
<1>3. /\ held' \in Seq(Nat) /\ Len(held') = Len(held) - n
      /\ \A i \in 1..(Len(held) - n) : held'[i] = held[i + n]
  <2> DEFINE len == Len(held)
             rest == SubSeq(held, n + 1, len)
  <2>1. len \in Nat /\ n + 1 \in Int /\ len \in Int /\ n <= len  BY <1>0, <1>1
  <2>2. \A i \in (n + 1)..len : held[i] \in Nat  BY <1>0
  <2>3. /\ rest \in Seq(Nat)
        /\ Len(rest) = IF n + 1 <= len THEN len - (n + 1) + 1 ELSE 0
        /\ \A i \in 1..(len - (n + 1) + 1) : rest[i] = held[(n + 1) + i - 1]
    <3> HIDE DEF len
    <3>  QED  BY ONLY <2>1, <2>2, SubSeqProperties
  <2>4. held' = rest  BY <1>1
  <2> HIDE DEF len, rest
  <2>5. Len(rest) = len - n /\ len - (n + 1) + 1 = len - n  BY <2>1, <2>3
  <2>6. \A i \in 1..(len - n) : rest[i] = held[i + n]
    <3> TAKE i \in 1..(len - n)
    <3>1. (n + 1) + i - 1 = i + n  BY <2>1
    <3>  QED  BY <2>3, <2>5, <3>1
  <2>  QED  BY <2>3, <2>4, <2>5, <2>6 DEF len
<1>4. TypeOK'
  <2>1. outstanding - n \in Nat /\ released + n \in Nat /\ prod + n \in Nat
    BY <1>0, <1>1
  <2>  QED  BY <1>1, <1>2, <1>3, <2>1 DEF RxInv, TypeOK, CqTypeOK
<1>5. CqInv' /\ PendingInOrder' /\ RxOverrunNeedsSmallCq'
  BY <1>1 DEF RxInv, CqInv, CqTypeOK, CqOrder, CqOwnership, PendingInOrder, CqeAt,
     RxOverrunNeedsSmallCq
<1>6. RxOrder'
  <2>1. /\ hw <= prod + n /\ prod + n <= prod + n
        /\ prod + n <= (released + n) + RqSize
        /\ (released + n) + (outstanding - n) <= cqdbr
    BY <1>0, <1>1
  <2>  QED  BY <1>1, <1>2, <2>1 DEF RxInv, RxOrder
<1>7. RxAccounting'
  <2>1. /\ Len(held') = (outstanding - n) + received
        /\ cqci = (released + n) + Len(held') + leaked
        /\ prod + n = PostCount + (released + n) + surplus
    <3>1. Len(held') = Len(held) - n  BY <1>3
    <3>  QED  BY ONLY <1>0, <3>1, n \in 0..RqSize
  <2>  QED  BY <1>1, <1>2, <2>1 DEF RxAccounting
<1>8. HeldInOrder'
  <2>1. ASSUME NEW i \in 1..(Len(held) - n)
        PROVE  /\ i + n \in 1..Len(held)
               /\ (released + n) + (i - 1) = released + ((i + n) - 1)
    BY <1>0
  <2>2. ASSUME NEW i \in 1..(Len(held) - n)
        PROVE  (released + n) + (i - 1) <= held'[i] /\ held'[i] < cqci
    BY <1>3, <2>1 DEF RxInv, HeldInOrder
  <2>3. ASSUME NEW i \in 1..(Len(held) - n), NEW j \in 1..(Len(held) - n), i < j
        PROVE  held'[i] < held'[j]
    <3>1. i + n < j + n  BY <2>3
    <3>  QED  BY <1>3, <2>1, <3>1 DEF RxInv, HeldInOrder
  <2>  QED  BY <1>1, <1>3, <2>2, <2>3 DEF HeldInOrder
<1>  QED  BY <1>2, <1>4, <1>5, <1>6, <1>7, <1>8 DEF RxInv

(***************************************************************************)
(* A release can fail only on the first lap, where slots have no page yet: *)
(* the WQEs it leaves behind never reach a buffer in use.                  *)
(***************************************************************************)
LEMMA RxReleaseFailsInv ==
  ASSUME RxInv, NEW n \in 1..RqSize, NEW k \in 0..(n - 1), RxReleaseFails(n, k)
  PROVE  RxInv'
<1>0. /\ prod \in Nat /\ db \in Nat /\ hw \in Nat /\ PostCount \in Nat
      /\ released \in Nat /\ surplus \in Nat /\ CqSize \in Nat
      /\ RqSize \in Nat \ {0}
      /\ hw <= db /\ db <= prod /\ prod <= released + RqSize
      /\ prod = PostCount + released + surplus
  BY RxTypes, RxCounters
<1>1. /\ Slot(prod + k) \notin pages /\ WriteWqes(k)
      /\ surplus' = surplus + k
      /\ UNCHANGED <<cqring, cqpi, cqci, cqdbr, cqdead, db, hw>>
      /\ UNCHANGED <<outstanding, held, pc, nb_pkts, wait, received, released, leaked>>
  BY DEF RxReleaseFails, cqvars, callvars
<1>2. /\ pages' \subseteq RqSlots /\ prod' = prod + k /\ AllPostedHavePages'
  <2>1. k \in 0..RqSize  BY <1>0
  <2>  QED  BY <1>1, <2>1, WriteWqesPages
<1>3. prod + k < RqSize
  <2> SUFFICES ASSUME ~(prod + k < RqSize) PROVE FALSE
    OBVIOUS
  <2> DEFINE p == prod + k - RqSize
  <2>1. p \in 0..(prod - 1) /\ p \in Int /\ p + RqSize = prod + k
    BY <1>0
  <2>2. Slot(p) \in pages  BY <2>1 DEF RxInv, AllPostedHavePages
  <2> HIDE DEF p
  <2>3. (p + RqSize) % RqSize = p % RqSize
    BY ONLY <1>0, <2>1, ModTurn
  <2>  QED  BY <1>1, <2>1, <2>2, <2>3 DEF Slot
<1>4. TypeOK'
  <2>1. prod + k \in Nat /\ surplus + k \in Nat  BY <1>0
  <2>  QED  BY <1>1, <1>2, <2>1 DEF RxInv, TypeOK, CqTypeOK
<1>5. CqInv' /\ PendingInOrder' /\ HeldInOrder'
  BY <1>1 DEF RxInv, CqInv, CqTypeOK, CqOrder, CqOwnership, PendingInOrder, CqeAt,
     HeldInOrder
<1>6. RxOrder'
  <2>1. db <= prod + k /\ prod + k <= released + RqSize  BY <1>0, <1>3
  <2>  QED  BY <1>1, <1>2, <2>1 DEF RxInv, RxOrder
<1>7. RxAccounting'
  <2>1. prod + k = PostCount + released + (surplus + k)  BY <1>0
  <2>  QED  BY <1>1, <1>2, <2>1 DEF RxInv, RxAccounting
<1>8. RxOverrunNeedsSmallCq'
  <2>1. CqSize < PostCount + surplus => CqSize < PostCount + (surplus + k)  BY <1>0
  <2>  QED  BY <1>1, <2>1 DEF RxInv, RxOverrunNeedsSmallCq
<1>  QED  BY <1>2, <1>4, <1>5, <1>6, <1>7, <1>8 DEF RxInv

-------------------------------------------------------------------------------
(***************************************************************************)
(* The device consumes a WQE it was told of.  If the CQ is full, the WQEs  *)
(* in flight outnumber its CQEs, so that many must have been posted.       *)
(***************************************************************************)
LEMMA HwReceiveInv ==
  ASSUME RxInv, NEW op \in {"ok", "err"}, HwReceive(op)
  PROVE  RxInv'
<1>0. /\ prod \in Nat /\ db \in Nat /\ hw \in Nat /\ outstanding \in Nat
      /\ cqpi \in Nat /\ cqci \in Nat /\ cqdbr \in Nat
      /\ released \in Nat /\ surplus \in Nat /\ PostCount \in Nat
      /\ CqSize \in Nat \ {0}
      /\ cqdbr <= cqci /\ cqci <= cqpi /\ cqpi <= hw /\ hw <= db /\ db <= prod
      /\ released + outstanding <= cqdbr
      /\ prod = PostCount + released + surplus
  BY RxTypes, RxCounters
<1>1. /\ HwPosted /\ hw' = hw + 1 /\ HwWriteCqe(op, hw)
      /\ UNCHANGED <<pages, prod, db, outstanding, held>>
      /\ UNCHANGED <<pc, nb_pkts, wait, received, released, leaked, surplus>>
  BY DEF HwReceive, rqvars, callvars, history
<1>2. hw < db
  BY <1>0, <1>1 DEF HwPosted
<1>3. CqInv'
  <2>1. op \in CqeOps /\ hw \in Nat  BY <1>0 DEF CqeOps
  <2>  QED  BY <1>1, <2>1, HwWriteCqeInv DEF RxInv
<1>4. TypeOK'
  <2>1. hw + 1 \in Nat  BY <1>0
  <2>  QED  BY <1>1, <1>3, <2>1 DEF RxInv, TypeOK, CqInv
<1>5. AllPostedHavePages' /\ cqci' = cqci /\ cqdbr' = cqdbr
  BY <1>1 DEF RxInv, AllPostedHavePages, HwWriteCqe
<1>6. RxAccounting' /\ HeldInOrder'
  BY <1>1, <1>5 DEF RxInv, RxAccounting, HeldInOrder
<1>7. CASE cqdead \/ CqFull
  <2>1. cqdead' = TRUE /\ UNCHANGED <<cqring, cqpi>>
    BY <1>1, <1>7 DEF HwWriteCqe
  <2>2. RxOrder'
    <3>1. cqpi <= hw + 1 /\ hw + 1 <= db  BY <1>0, <1>2
    <3>  QED  BY <1>1, <1>5, <2>1, <3>1 DEF RxInv, RxOrder
  <2>3. PendingInOrder'
    BY <1>5, <2>1 DEF RxInv, PendingInOrder, CqeAt
  <2>4. CqSize < PostCount + surplus
    <3>1. CASE cqdead  BY <3>1 DEF RxInv, RxOverrunNeedsSmallCq
    <3>2. CASE ~cqdead /\ CqFull
      <4>1. hw = cqpi /\ cqpi - cqdbr >= CqSize
        BY <3>2 DEF RxInv, RxOrder, CqFull
      <4>  QED  BY <1>0, <1>2, <4>1
    <3>  QED  BY <1>7, <3>1, <3>2
  <2>5. RxOverrunNeedsSmallCq'
    BY <1>1, <2>4 DEF RxOverrunNeedsSmallCq
  <2>  QED  BY <1>3, <1>4, <1>5, <1>6, <2>2, <2>3, <2>5 DEF RxInv
<1>8. CASE ~cqdead /\ ~CqFull
  <2>1. cqpi' = cqpi + 1 /\ cqdead' = cqdead /\ hw = cqpi
    BY <1>1, <1>8 DEF HwWriteCqe, RxInv, RxOrder
  <2>2. RxOrder'
    <3>1. cqpi + 1 <= hw + 1 /\ hw + 1 = cqpi + 1 /\ hw + 1 <= db  BY <1>0, <1>2, <2>1
    <3>  QED  BY <1>1, <1>5, <2>1, <3>1 DEF RxInv, RxOrder
  <2>3. /\ \A p \in cqci..(cqci + CqSize - 1) :
              p # cqpi => cqring'[p % CqSize] = cqring[p % CqSize]
        /\ cqring'[cqpi % CqSize].pos = hw
        /\ cqpi \in cqci..(cqci + CqSize - 1)
    <3>1. op \in CqeOps /\ hw \in Nat /\ CqInv  BY <1>0 DEF CqeOps, RxInv
    <3>2. /\ \A p \in cqci..(cqci + CqSize - 1) :
                p # cqpi => cqring'[p % CqSize] = cqring[p % CqSize]
          /\ cqring'[cqpi % CqSize] =
                [owner |-> (cqpi \div CqSize) % 2, op |-> op, pos |-> hw]
          /\ cqpi \in cqci..(cqci + CqSize - 1)
      BY <1>1, <1>8, <3>1, HwWriteCqeFrame
    <3>  QED  BY <3>2
  <2>4. PendingInOrder'
    <3>1. ASSUME NEW p \in cqci..cqpi PROVE cqring'[p % CqSize].pos = p
      <4>1. CASE p = cqpi  BY <2>1, <2>3, <4>1
      <4>2. CASE p # cqpi
        <5>1. p \in cqci..(cqpi - 1) /\ p \in cqci..(cqci + CqSize - 1)
          BY <1>0, <2>3, <4>2
        <5>  QED  BY <2>3, <4>2, <5>1 DEF RxInv, PendingInOrder, CqeAt
      <4>  QED  BY <4>1, <4>2
    <3>2. cqci'..(cqpi' - 1) = cqci..cqpi  BY <1>0, <1>5, <2>1
    <3>  QED  BY <3>1, <3>2 DEF PendingInOrder, CqeAt
  <2>5. RxOverrunNeedsSmallCq'
    BY <1>1, <2>1 DEF RxInv, RxOverrunNeedsSmallCq
  <2>  QED  BY <1>3, <1>4, <1>5, <1>6, <2>2, <2>4, <2>5 DEF RxInv
<1>  QED  BY <1>7, <1>8

LEMMA RxNextInv == RxInv /\ [Next]_vars => RxInv'
<1> SUFFICES ASSUME RxInv, [Next]_vars PROVE RxInv'
  OBVIOUS
<1>1. CASE UNCHANGED vars
  BY <1>1
  DEF vars, cqvars, rqvars, callvars, history, RxInv, TypeOK, CqTypeOK, CqInv,
      CqOrder, CqOwnership, RxOrder, RxAccounting, PendingInOrder, CqeAt,
      HeldInOrder, AllPostedHavePages, RxOverrunNeedsSmallCq
<1>2. ASSUME NEW n \in 0..MaxBurst, NEW w \in BOOLEAN, RxBurst(n, w)
      PROVE  RxInv'
  <2>1. /\ pc = "idle" /\ pc' = "burst" /\ nb_pkts' = n /\ wait' = w /\ received' = 0
        /\ UNCHANGED <<cqring, cqpi, cqci, cqdbr, cqdead, pages, prod, db, hw>>
        /\ UNCHANGED <<outstanding, held, released, leaked, surplus>>
    BY <1>2 DEF RxBurst, cqvars, rqvars, history
  <2>2. received = 0  BY <2>1 DEF RxInv, RxOrder
  <2>3. TypeOK'
    <3>1. n \in Nat /\ 0 \in 0..n  BY RxAssumption
    <3>  QED  BY <2>1, <3>1 DEF RxInv, TypeOK, CqTypeOK
  <2>4. CqInv' /\ PendingInOrder' /\ HeldInOrder' /\ AllPostedHavePages'
    BY <2>1 DEF RxInv, CqInv, CqTypeOK, CqOrder, CqOwnership, PendingInOrder, CqeAt,
       HeldInOrder, AllPostedHavePages
  <2>5. RxOrder' /\ RxAccounting' /\ RxOverrunNeedsSmallCq'
    BY <2>1, <2>2 DEF RxInv, RxOrder, RxAccounting, RxOverrunNeedsSmallCq
  <2>  QED  BY <2>3, <2>4, <2>5 DEF RxInv
<1>3. CASE RxPollPacket
  BY <1>3, RxPollPacketInv
<1>4. CASE RxPollEmpty \/ RxBurstFull
  <2>1. BurstReturns /\ UNCHANGED <<released, leaked, surplus>>
    BY <1>4 DEF RxPollEmpty, RxBurstFull, history
  <2>2. (received > 0 /\ CqUpdateConsumer) \/ (~(received > 0) /\ UNCHANGED cqvars)
    BY <1>4 DEF RxPollEmpty, RxBurstFull
  <2>3. /\ UNCHANGED <<cqring, cqpi, cqci, cqdead>> /\ cqdbr <= cqdbr'
        /\ received > 0 => cqdbr' = cqci'
    <3>1. cqdbr <= cqci /\ cqdbr \in Nat  BY RxTypes, RxCounters
    <3>  QED  BY <2>2, <3>1 DEF CqUpdateConsumer, cqvars
  <2>4. CqInv'
    <3>1. CASE CqUpdateConsumer  BY <3>1, CqUpdateConsumerInv DEF RxInv
    <3>2. CASE UNCHANGED cqvars
      BY <3>2 DEF RxInv, CqInv, CqTypeOK, CqOrder, CqOwnership, cqvars
    <3>  QED  BY <2>2, <3>1, <3>2
  <2>5. PendingInOrder'
    BY <2>3 DEF RxInv, PendingInOrder, CqeAt
  <2>  QED  BY <2>1, <2>3, <2>4, <2>5, BurstReturnsInv
<1>5. CASE RxPollError
  <2> DEFINE u == Blocking \/ received > 0
  <2>1. u \in BOOLEAN  OBVIOUS
  <2>2. /\ BurstReturns /\ UNCHANGED <<released, surplus>> /\ leaked' = leaked + 1
        /\ PollCqe(u)
    BY <1>5 DEF RxPollError
  <2>3. CqInv' /\ PendingInOrder' /\ cqci < cqpi
    BY <2>1, <2>2, PollKeepsOrder
  <2>4. /\ cqci' = cqci + 1 /\ UNCHANGED <<cqpi, cqdead>>
        /\ cqdbr' = IF u THEN cqci + 1 ELSE cqdbr
    BY <2>2 DEF PollCqe
  <2>5. cqdbr <= cqdbr' /\ (received > 0 => cqdbr' = cqci')
    <3>1. cqdbr <= cqci /\ cqdbr \in Nat /\ cqci \in Nat  BY RxTypes, RxCounters
    <3>  QED  BY <2>4, <3>1
  <2> HIDE DEF u
  <2>  QED  BY <2>2, <2>3, <2>4, <2>5, BurstReturnsInv
<1>6. ASSUME NEW n \in 0..RqSize, RxRelease(n) PROVE RxInv'
  BY <1>6, RxReleaseInv
<1>7. ASSUME NEW n \in 1..RqSize, NEW k \in 0..(n - 1), RxReleaseFails(n, k)
      PROVE  RxInv'
  BY <1>7, RxReleaseFailsInv
<1>8. ASSUME NEW op \in HwReceiveOps, HwReceive(op) PROVE RxInv'
  <2>1. op \in {"ok", "err"}  BY DEF HwReceiveOps
  <2>  QED  BY <1>8, <2>1, HwReceiveInv
<1>  QED
  BY <1>1, <1>2, <1>3, <1>4, <1>5, <1>6, <1>7, <1>8 DEF Next, Driver

-------------------------------------------------------------------------------
(***************************************************************************)
(* The inductive invariant holds of every behaviour of the receive queue.  *)
(***************************************************************************)
THEOREM RxInvariant == Spec => []RxInv
<1>1. Init => RxInv  BY RxInitInv
<1>2. RxInv /\ [Next]_vars => RxInv'  BY RxNextInv
<1>  QED  BY <1>1, <1>2, PTL DEF Spec

(***************************************************************************)
(* The 16 bits of the WQE counter are enough to find the slot.             *)
(***************************************************************************)
LEMMA PktSlotIsSlot ==
  ASSUME NEW p \in Nat
  PROVE  PktSlot(p) = Slot(p)
<1>1. RqSize \in Nat \ {0} /\ CtrMod \in Nat \ {0} /\ CtrMod % RqSize = 0
  BY RxAssumption
<1>2. p \in Int  OBVIOUS
<1>3. (p % CtrMod) % RqSize = p % RqSize  BY ONLY <1>1, <1>2, ModOfMod
<1>  QED  BY <1>3 DEF PktSlot, Slot

(***************************************************************************)
(* No buffer the caller of mlxnicd_rx_burst_q still holds is posted to the *)
(* device, although mlxnicd_rx_release_q only counts packets: for every    *)
(* ring size and pattern of bursts, releases, error CQEs and failures.     *)
(***************************************************************************)
THEOREM HeldBuffersSafe == Spec => []HeldNotPosted
<1>1. RxInv => HeldNotPosted
  <2> SUFFICES ASSUME RxInv, NEW i \in 1..Len(held), NEW p \in hw..(prod - 1)
               PROVE  PktSlot(held[i]) # Slot(p)
    BY DEF HeldNotPosted
  <2>1. /\ hw \in Nat /\ prod \in Nat /\ released \in Nat /\ RqSize \in Nat \ {0}
        /\ cqci \in Nat /\ cqpi \in Nat /\ held[i] \in Nat
        /\ cqci <= cqpi /\ cqpi <= hw /\ prod <= released + RqSize
    BY RxTypes, RxCounters
  <2>2. released + (i - 1) <= held[i] /\ held[i] < cqci
    BY DEF RxInv, HeldInOrder
  <2>3. held[i] \in Int /\ p \in Int /\ i \in Nat /\ i >= 1  BY <2>1
  <2>4. held[i] < p /\ p < held[i] + RqSize  BY <2>1, <2>2, <2>3
  <2>5. held[i] % RqSize # p % RqSize
    BY ONLY <2>1, <2>3, <2>4, ModDistinct
  <2>6. PktSlot(held[i]) = Slot(held[i])  BY <2>1, PktSlotIsSlot
  <2>  QED  BY <2>5, <2>6 DEF Slot
<1>  QED  BY <1>1, RxInvariant, PTL

(***************************************************************************)
(* Two packets of mlxnicd_rx_burst_q that are both unreleased lie in       *)
(* different buffers.                                                      *)
(***************************************************************************)
THEOREM HeldBuffersDiffer == Spec => []HeldDistinct
<1>1. RxInv => HeldDistinct
  <2>1. ASSUME RxInv, NEW i \in 1..Len(held), NEW j \in 1..Len(held), i < j
        PROVE  PktSlot(held[i]) # PktSlot(held[j])
    <3>1. /\ hw \in Nat /\ prod \in Nat /\ db \in Nat
          /\ released \in Nat /\ RqSize \in Nat \ {0}
          /\ cqci \in Nat /\ cqpi \in Nat /\ held[i] \in Nat /\ held[j] \in Nat
          /\ cqci <= cqpi /\ cqpi <= hw /\ hw <= db /\ db <= prod
          /\ prod <= released + RqSize
      BY <2>1, RxTypes, RxCounters
    <3>2. released + (i - 1) <= held[i] /\ held[j] < cqci /\ held[i] < held[j]
      BY <2>1 DEF RxInv, HeldInOrder
    <3>3. held[j] < held[i] + RqSize /\ held[i] \in Int /\ held[j] \in Int
      <4>1. i \in Nat /\ i >= 1  BY <2>1
      <4>  QED  BY <3>1, <3>2, <4>1
    <3>4. held[i] % RqSize # held[j] % RqSize
      BY ONLY <3>1, <3>2, <3>3, ModDistinct
    <3>5. PktSlot(held[i]) = Slot(held[i]) /\ PktSlot(held[j]) = Slot(held[j])
      BY <3>1, PktSlotIsSlot
    <3>  QED  BY <3>4, <3>5 DEF Slot
  <2> SUFFICES ASSUME RxInv, NEW i \in 1..Len(held), NEW j \in 1..Len(held), i # j
               PROVE  PktSlot(held[i]) # PktSlot(held[j])
    BY DEF HeldDistinct
  <2>2. i < j \/ j < i  BY RxTypes
  <2>  QED  BY <2>1, <2>2
<1>  QED  BY <1>1, RxInvariant, PTL

(***************************************************************************)
(* Every WQE the device may use has a mapped page, and the RQ is never     *)
(* posted beyond its size: the unallocated-slot branches of the RX poll    *)
(* cannot be taken.                                                        *)
(***************************************************************************)
THEOREM PostedPagesMapped == Spec => []PostedHavePages
<1>1. RxInv => PostedHavePages
  <2> SUFFICES ASSUME RxInv PROVE PostedHavePages
    OBVIOUS
  <2>1. /\ hw \in Nat /\ prod \in Nat /\ released \in Nat /\ RqSize \in Nat
        /\ outstanding \in Nat /\ cqdbr \in Nat /\ cqci \in Nat /\ cqpi \in Nat
        /\ cqdbr <= cqci /\ cqci <= cqpi /\ cqpi <= hw /\ prod <= released + RqSize
        /\ released + outstanding <= cqdbr
    BY RxTypes, RxCounters
  <2>2. prod - hw <= RqSize  BY <2>1
  <2>3. \A p \in hw..(prod - 1) : p \in 0..(prod - 1)  BY <2>1
  <2>  QED  BY <2>2, <2>3 DEF RxInv, AllPostedHavePages, PostedHavePages
<1>  QED  BY <1>1, RxInvariant, PTL

(***************************************************************************)
(* With rx_post_count at most the size of the CQ, and no release that      *)
(* failed half-way, the receive CQ cannot overflow.                        *)
(***************************************************************************)
THEOREM NoRxOverrunIfCqFits == Spec => []RxOverrunNeedsSmallCq
<1>1. RxInv => RxOverrunNeedsSmallCq  BY DEF RxInv
<1>  QED  BY <1>1, RxInvariant, PTL
===============================================================================
