---------------------------- MODULE TxQueueProofs ----------------------------
(***************************************************************************)
(* TxInv is an inductive invariant of TxQueue, for every ring size, every  *)
(* width of the hardware counter and of the indices, every bound, with bad *)
(* frames and device errors or without.  The safety properties follow.     *)
(***************************************************************************)
EXTENDS TxQueue, CompletionQueueProofs

(***************************************************************************)
(* The 16-bit range fits in the 32-bit one, so the send ring does.         *)
(***************************************************************************)
LEMMA RangesNest == CtrMod <= IdxMod /\ SqSize < IdxMod
<1> DEFINE d == IdxMod \div CtrMod
<1>0. CtrMod \in Nat \ {0} /\ IdxMod \in Nat \ {0} /\ SqSize \in Nat /\ SqSize < CtrMod
  BY TxAssumption, CqAssumption
<1>1. d \in Int /\ IdxMod = CtrMod * d
  <2>1. /\ IdxMod \div CtrMod \in Int
        /\ IdxMod = CtrMod * (IdxMod \div CtrMod) + (IdxMod % CtrMod)
    BY ONLY <1>0, DivMod
  <2>2. IdxMod % CtrMod = 0  BY TxAssumption
  <2>  QED  BY ONLY <1>0, <2>1, <2>2
<1> HIDE DEF d
<1>2. d >= 1
  <2>1. CASE d <= 0
    <3>1. CtrMod * (-d) >= 0  BY <1>0, <1>1, <2>1
    <3>2. CtrMod * (-d) = -(CtrMod * d)  BY <1>0, <1>1
    <3>  QED  BY <1>0, <1>1, <3>1, <3>2
  <2>  QED  BY <1>1, <2>1
<1>3. CtrMod * (d - 1) >= 0  BY <1>0, <1>1, <1>2
<1>4. CtrMod * (d - 1) = CtrMod * d - CtrMod  BY <1>0, <1>1
<1>  QED  BY <1>0, <1>1, <1>3, <1>4

(***************************************************************************)
(* mlx5_sq_reclaim_cqe is exact: from the 32 bits of the consumer position *)
(* c and the 16 bits of the position w of a WQE less than 2^16 WQEBBs      *)
(* further on, it computes the 32 bits of the position after w, whichever  *)
(* of the two counters wrapped in between.                                 *)
(***************************************************************************)
THEOREM ReclaimExact ==
  ASSUME NEW c \in Int, NEW w \in Int, c <= w, w < c + CtrMod
  PROVE  Reclaim(c % IdxMod, w % CtrMod) = (w + WqeBbs) % IdxMod
<1> DEFINE cons == c % IdxMod
           low == cons % CtrMod
           dist == w - c
           completed == (cons - low) + (w % CtrMod)
<1>0. /\ CtrMod \in Nat \ {0} /\ IdxMod \in Nat \ {0} /\ IdxMod % CtrMod = 0
      /\ CtrMod <= IdxMod
  BY TxAssumption, CqAssumption, RangesNest
<1>1. cons \in 0..(IdxMod - 1) /\ cons \in Int  BY <1>0, DivMod
<1>2. dist \in 0..(CtrMod - 1) /\ c + dist = w  BY <1>0
<1>3. low \in 0..(CtrMod - 1)
  BY ONLY <1>0, <1>1, DivMod
<1>4. low = c % CtrMod
  BY ONLY <1>0, c \in Int, ModOfMod
<1>5. w % CtrMod = IF low + dist < CtrMod THEN low + dist ELSE low + dist - CtrMod
  <2> HIDE DEF dist, low
  <2>1. (c + dist) % CtrMod = IF (c % CtrMod) + dist < CtrMod
                              THEN (c % CtrMod) + dist
                              ELSE (c % CtrMod) + dist - CtrMod
    BY ONLY <1>0, <1>2, c \in Int, ModAddSmall
  <2>  QED  BY ONLY <1>2, <1>4, <2>1
<1>6. (cons + dist + WqeBbs) % IdxMod = (w + WqeBbs) % IdxMod
  <2>1. dist + WqeBbs \in Int  BY <1>2 DEF WqeBbs
  <2>2. ((c % IdxMod) + (dist + WqeBbs)) % IdxMod = (c + (dist + WqeBbs)) % IdxMod
    BY ONLY <1>0, <2>1, c \in Int, ModAdd
  <2>3. (c % IdxMod) + (dist + WqeBbs) = cons + dist + WqeBbs
    BY <1>1, <1>2 DEF WqeBbs
  <2>4. c + (dist + WqeBbs) = w + WqeBbs
    BY <1>2 DEF WqeBbs
  <2>  QED  BY <2>2, <2>3, <2>4
<1>7. Reclaim(cons, w % CtrMod) =
        ((IF completed < cons THEN (completed + CtrMod) % IdxMod ELSE completed)
           + WqeBbs) % IdxMod
  BY DEF Reclaim
<1> HIDE DEF cons, low, dist
<1>8. CASE low + dist < CtrMod
  <2>1. completed = cons + dist /\ ~(completed < cons)
    BY <1>0, <1>1, <1>2, <1>3, <1>5, <1>8
  <2>  QED  BY <1>6, <1>7, <2>1 DEF cons
<1>9. CASE ~(low + dist < CtrMod)
  <2>1. completed + CtrMod = cons + dist /\ completed < cons
    BY <1>0, <1>1, <1>2, <1>3, <1>5, <1>9
  <2>2. cons + dist \in Int /\ WqeBbs \in Int  BY <1>1, <1>2 DEF WqeBbs
  <2>3. (((cons + dist) % IdxMod) + WqeBbs) % IdxMod = (cons + dist + WqeBbs) % IdxMod
    BY ONLY <1>0, <2>2, ModAdd
  <2>  QED  BY <1>6, <1>7, <2>1, <2>3 DEF cons
<1>  QED  BY <1>8, <1>9

-------------------------------------------------------------------------------
(***************************************************************************)
(* cons_index is the position ConsPos cut to 32 bits.                      *)
(***************************************************************************)
LEMMA ConsIndexPos ==
  ASSUME TypeOK
  PROVE  /\ ConsPos \in Int
         /\ UsedWqebbs \in 0..(IdxMod - 1)
         /\ ConsPos = prod - UsedWqebbs
         /\ cons_index = ConsPos % IdxMod
<1> DEFINE x == prod - cons_index
           q == x \div IdxMod
<1>0. /\ IdxMod \in Nat \ {0} /\ prod \in Nat /\ cons_index \in 0..(IdxMod - 1)
      /\ x \in Int
  BY CqAssumption DEF TypeOK
<1>1. UsedWqebbs \in 0..(IdxMod - 1) /\ q \in Int /\ x = IdxMod * q + UsedWqebbs
  BY ONLY <1>0, DivMod DEF UsedWqebbs
<1>2. ConsPos = cons_index + IdxMod * q
  <2>1. IdxMod * q \in Int  BY <1>0, <1>1
  <2>  QED  BY <1>0, <1>1, <2>1 DEF ConsPos
<1> HIDE DEF q, x
<1>3. (cons_index + IdxMod * q) % IdxMod = cons_index % IdxMod
  BY ONLY <1>0, <1>1, ModShift
<1>4. cons_index % IdxMod = cons_index
  BY ONLY <1>0, ModSelf
<1>5. ConsPos = prod - UsedWqebbs  BY DEF ConsPos
<1>  QED  BY <1>0, <1>1, <1>2, <1>3, <1>4, <1>5

(***************************************************************************)
(* Conversely, an index that is some position c cut to 32 bits, no more    *)
(* than a ring behind the producer, stands for c.                          *)
(***************************************************************************)
LEMMA PosOfIndex ==
  ASSUME NEW x \in Nat, NEW c \in Int, c <= x, x - c <= SqSize
  PROVE  (x - (c % IdxMod)) % IdxMod = x - c
<1>1. x < c + IdxMod  BY RangesNest, TxAssumption, CqAssumption
<1>2. x \in Int /\ IdxMod \in Nat \ {0}  BY CqAssumption
<1>  QED  BY ONLY <1>1, <1>2, c \in Int, c <= x, ModDistance

(***************************************************************************)
(* The conjuncts of TxInv that speak of ConsPos do so only through prod    *)
(* and cons_index.                                                         *)
(***************************************************************************)
LEMMA SamePos ==
  ASSUME UNCHANGED <<prod, cons_index>>
  PROVE  ConsPos' = ConsPos /\ UsedWqebbs' = UsedWqebbs
BY DEF ConsPos, UsedWqebbs

(***************************************************************************)
(* Preparing k WQEs where there is room for them disturbs nothing that is  *)
(* not reclaimed, whether a doorbell follows or not.                       *)
(***************************************************************************)
LEMMA PrepareInv ==
  ASSUME TxInv, NEW k \in Nat, NEW last \in Int,
         WqeBbs * k <= SqSize - UsedWqebbs,
         Prepare(k, last), db' \in {db, prod'},
         UNCHANGED <<cqvars, cons_index, hw>>
  PROVE  /\ wqe' \in [SqSlots -> Wqe]
         /\ prod' \in Nat /\ db' \in Nat
         /\ CqInv' /\ (cqdbr = cqci)'
         /\ RingBounds' /\ WholeWqes' /\ WqeIntact' /\ PendingCqes'
         /\ OverrunNeedsSmallCq'
<1> DEFINE cp == ConsPos
           used == UsedWqebbs
<1>1. /\ cp \in Int /\ used \in Nat /\ cp = prod - used
      /\ cons_index = cp % IdxMod
  BY ConsIndexPos DEF TxInv
<1>2. /\ prod \in Nat /\ db \in Nat /\ hw \in Nat /\ cqci \in Nat /\ cqpi \in Nat
      /\ SqSize \in Nat \ {0} /\ SqSize % 2 = 0
  BY TxAssumption DEF TxInv, TypeOK, CqTypeOK
<1>3. /\ 0 <= cp /\ cp <= hw /\ hw <= db /\ db <= prod /\ used <= SqSize
      /\ prod % 2 = 0 /\ db % 2 = 0 /\ hw % 2 = 0 /\ cp % 2 = 0
  BY DEF TxInv, RingBounds, WholeWqes, WqeBbs
<1>4. prod' = prod + 2 * k /\ 2 * k <= SqSize - used
  BY DEF Prepare, WqeBbs
<1>5. ConsPos' = cp /\ UsedWqebbs' = used + 2 * k
  <2>1. (prod' - (cp % IdxMod)) % IdxMod = prod' - cp
    <3>1. prod' \in Nat /\ cp <= prod' /\ prod' - cp <= SqSize
      BY <1>1, <1>2, <1>3, <1>4
    <3>  QED  BY ONLY <3>1, <1>1, PosOfIndex
  <2>2. UsedWqebbs' = prod' - cp
    BY <2>1, <1>1 DEF UsedWqebbs
  <2>3. ConsPos' = prod' - UsedWqebbs'  BY DEF ConsPos
  <2>  QED  BY <1>1, <1>2, <1>4, <2>2, <2>3
<1> HIDE DEF cp, used
<1>6. prod' \in Nat /\ db' \in Nat /\ db <= db' /\ db' <= prod'
  BY <1>2, <1>3, <1>4
<1>7. RingBounds'
  BY <1>1, <1>2, <1>3, <1>4, <1>5, <1>6 DEF RingBounds
<1>8. WholeWqes'
  <2>1. (prod + 2 * k) % 2 = 0
    BY ONLY <1>2, <1>3, k \in Nat
  <2>2. prod' % 2 = 0 /\ db' % 2 = 0
    BY ONLY <1>3, <1>4, <2>1, db' \in {db, prod'}
  <2>  QED  BY <1>3, <1>5, <2>2 DEF WholeWqes, WqeBbs, cp
<1>9. PendingCqes'
  BY <1>5 DEF TxInv, PendingCqes, CqeAt, cqvars, cp
<1>10. /\ CqInv' /\ (cqdbr = cqci)' /\ OverrunNeedsSmallCq'
  BY DEF TxInv, CqInv, CqTypeOK, CqOrder, CqOwnership, OverrunNeedsSmallCq, cqvars
<1>11. \A s \in SqSlots : wqe'[s] =
         LET off == (s - prod) % SqSize
         IN  IF off % 2 = 0 /\ off < 2 * k
             THEN [idx |-> (prod + off) % CtrMod, signal |-> off \div 2 + 1 = last]
             ELSE wqe[s]
  BY DEF Prepare, WqeBbs
<1>12. wqe' \in [SqSlots -> Wqe]
  <2>1. wqe' = [s \in SqSlots |-> wqe'[s]]
    BY DEF Prepare
  <2>2. ASSUME NEW s \in SqSlots PROVE wqe'[s] \in Wqe
    <3> DEFINE off == (s - prod) % SqSize
    <3>1. off \in Int
      <4>1. s - prod \in Int  BY <1>2 DEF SqSlots
      <4>  QED  BY ONLY <4>1, <1>2, DivMod
    <3> HIDE DEF off
    <3>2. (prod + off) % CtrMod \in 0..(CtrMod - 1)
      <4>1. prod + off \in Int /\ CtrMod \in Nat \ {0}  BY <1>2, <3>1, TxAssumption
      <4>  QED  BY ONLY <4>1, DivMod
    <3>3. [idx |-> (prod + off) % CtrMod, signal |-> off \div 2 + 1 = last] \in Wqe
      BY <3>2 DEF Wqe
    <3>4. wqe[s] \in Wqe  BY DEF TxInv, TypeOK
    <3>  QED  BY <1>11, <3>3, <3>4 DEF off
  <2>  QED  BY <2>1, <2>2
<1>13. WqeIntact'
  <2> SUFFICES ASSUME NEW p \in hw..(prod' - 1), p % 2 = 0
               PROVE  wqe'[p % SqSize].idx = p % CtrMod
    BY DEF WqeIntact, WqeBbs
  <2> DEFINE s == p % SqSize
             off == (s - prod) % SqSize
  <2>0. p \in Int /\ p - prod \in Int /\ s \in SqSlots
    BY <1>2, <1>6, DivMod DEF SqSlots
  <2>1. off = (p - prod) % SqSize
    <3>1. -prod \in Int  BY <1>2
    <3>2. ((p % SqSize) + (-prod)) % SqSize = (p + (-prod)) % SqSize
      BY ONLY <1>2, <2>0, <3>1, ModAdd
    <3>3. (p % SqSize) + (-prod) = s - prod /\ p + (-prod) = p - prod
      BY <1>2, <2>0 DEF SqSlots
    <3>  QED  BY <3>2, <3>3
  <2> HIDE DEF s, off
  <2>2. CASE prod <= p
    <3>1. p - prod \in 0..(SqSize - 1)
      BY <1>1, <1>2, <1>4, <1>6, <2>0, <2>2
    <3>2. off = p - prod
      BY ONLY <2>1, <3>1, <1>2, ModSelf
    <3>3. off % 2 = 0 /\ off < 2 * k /\ prod + off = p
      BY <1>2, <1>3, <1>4, <2>0, <3>2
    <3>4. wqe'[s] = [idx |-> (prod + off) % CtrMod, signal |-> off \div 2 + 1 = last]
      BY <1>11, <2>0, <3>3 DEF off
    <3>  QED  BY <3>3, <3>4 DEF s
  <2>3. CASE p < prod
    <3>1. prod - p <= used
      BY <1>1, <1>2, <1>3, <2>0, <2>3
    <3>2. k = 0 \/ off = p - prod + SqSize
      <4> SUFFICES ASSUME k # 0 PROVE off = p - prod + SqSize
        OBVIOUS
      <4>1. p - prod + SqSize \in 0..(SqSize - 1)
        BY <1>1, <1>2, <1>4, <2>0, <2>3, <3>1
      <4>2. ((p - prod) + SqSize) % SqSize = (p - prod) % SqSize
        BY ONLY <1>2, <2>0, ModTurn
      <4>3. (p - prod + SqSize) % SqSize = p - prod + SqSize
        BY ONLY <1>2, <4>1, ModSelf
      <4>  QED  BY <2>1, <4>2, <4>3
    <3>3. ~(off < 2 * k)
      <4>1. off \in Nat  BY ONLY <1>2, <2>0, <2>1, DivMod
      <4>  QED  BY <1>1, <1>2, <1>4, <2>0, <3>1, <3>2, <4>1
    <3>4. wqe'[s] = wqe[s]
      BY <1>11, <2>0, <3>3 DEF off
    <3>5. p \in hw..(prod - 1)  BY <1>2, <2>0, <2>3
    <3>6. wqe[p % SqSize].idx = p % CtrMod
      BY <3>5 DEF TxInv, WqeIntact, WqeBbs
    <3>  QED  BY <3>4, <3>6 DEF s
  <2>  QED  BY <1>2, <2>0, <2>2, <2>3
<1>  QED  BY <1>6, <1>7, <1>8, <1>9, <1>10, <1>12, <1>13

(***************************************************************************)
(* Reclaiming one completion moves ConsPos to just past the WQE it names,  *)
(* and the completions behind it still name later WQEs.                    *)
(***************************************************************************)
LEMMA PollReclaimsInv ==
  ASSUME TxInv, PollReclaims, UNCHANGED hw
  PROVE  /\ cons_index' \in 0..(IdxMod - 1)
         /\ CqInv' /\ (cqdbr = cqci)'
         /\ RingBounds' /\ WholeWqes' /\ WqeIntact' /\ PendingCqes'
         /\ OverrunNeedsSmallCq'
<1> DEFINE cp == ConsPos
           used == UsedWqebbs
           w == CqeAt(cqci).pos
<1>1. /\ cp \in Int /\ used \in Nat /\ cp = prod - used
      /\ cons_index = cp % IdxMod
  BY ConsIndexPos DEF TxInv
<1>2. /\ prod \in Nat /\ db \in Nat /\ hw \in Nat /\ cqci \in Nat /\ cqpi \in Nat
      /\ SqSize \in Nat \ {0} /\ SqSize < CtrMod /\ CtrMod \in Nat \ {0}
      /\ IdxMod \in Nat \ {0}
  BY TxAssumption, CqAssumption DEF TxInv, TypeOK, CqTypeOK
<1>3. /\ 0 <= cp /\ cp <= hw /\ hw <= db /\ db <= prod /\ used <= SqSize
      /\ prod % 2 = 0 /\ db % 2 = 0 /\ hw % 2 = 0 /\ cp % 2 = 0
  BY DEF TxInv, RingBounds, WholeWqes, WqeBbs
<1>4. cqci < cqpi
  BY CqPollExact DEF TxInv, PollReclaims, PollExact
<1>5. CqHead = CqeAt(cqci)
  BY CqHeadUnwrapped DEF TxInv, CqInv, CqeAt
<1>6. /\ UNCHANGED <<cqring, cqpi, cqdead, wqe, prod, db, hw>>
      /\ cqci' = cqci + 1 /\ cqdbr' = cqci + 1
  BY DEF PollReclaims, PollCqe
<1>7. \A p \in cqci..(cqpi - 1) : CqeAt(p)' = CqeAt(p) /\ CqeAt(p).pos \in Nat
  <2> TAKE p \in cqci..(cqpi - 1)
  <2>1. p % CqSize \in CqSlots
    BY <1>2, CqAssumption, DivMod DEF CqSlots
  <2>2. cqring[p % CqSize] \in Cqe
    BY <2>1 DEF TxInv, TypeOK, CqTypeOK
  <2>  QED  BY <1>6, <2>2 DEF CqeAt, Cqe
<1>8. /\ w \in Nat /\ w % 2 = 0 /\ cp <= w
      /\ w + 2 * (cqpi - cqci) <= hw
      /\ cqci \in cqci..(cqpi - 1)
  <2>1. cqci \in cqci..(cqpi - 1)  BY <1>2, <1>4
  <2>2. w \in Nat  BY <1>7, <2>1
  <2>3. /\ w % 2 = 0
        /\ cp + 2 * (cqci - cqci) <= w
        /\ w + 2 * (cqpi - cqci) <= hw
    BY <2>1 DEF TxInv, PendingCqes, WqeBbs
  <2>  QED  BY <1>1, <1>2, <2>1, <2>2, <2>3
<1>9. cons_index' = (w + 2) % IdxMod
  <2>1. cons_index' = Reclaim(cp % IdxMod, w % CtrMod)
    BY <1>1, <1>5 DEF PollReclaims, WqeCounter
  <2>2. w \in Int /\ cp <= w /\ w < cp + CtrMod
    BY <1>1, <1>2, <1>3, <1>4, <1>8
  <2> HIDE DEF cp, w
  <2>3. Reclaim(cp % IdxMod, w % CtrMod) = (w + WqeBbs) % IdxMod
    BY ONLY <1>1, <2>2, ReclaimExact
  <2>  QED  BY <2>1, <2>3 DEF WqeBbs
<1>10. ConsPos' = w + 2 /\ UsedWqebbs' = prod - (w + 2)
  <2> HIDE DEF cp, used, w
  <2>1. w + 2 \in Int /\ w + 2 <= prod /\ prod - (w + 2) <= SqSize
    BY <1>1, <1>2, <1>3, <1>4, <1>8
  <2>2. (prod - ((w + 2) % IdxMod)) % IdxMod = prod - (w + 2)
    BY ONLY <1>2, <2>1, PosOfIndex
  <2>3. UsedWqebbs' = prod - (w + 2)
    BY <1>6, <1>9, <2>2 DEF UsedWqebbs
  <2>4. ConsPos' = prod - UsedWqebbs'  BY <1>6 DEF ConsPos
  <2>  QED  BY <1>2, <2>1, <2>3, <2>4
<1>11. cons_index' \in 0..(IdxMod - 1)
  <2>1. w + 2 \in Int  BY <1>8
  <2> HIDE DEF w
  <2>  QED  BY <1>2, <1>9, <2>1, DivMod
<1>12. CqInv' /\ (cqdbr = cqci)'
  BY <1>6, PollCqeInv, TRUE \in BOOLEAN DEF TxInv, PollReclaims
<1> HIDE DEF cp, used, w
<1>13. RingBounds'
  BY <1>1, <1>2, <1>3, <1>4, <1>6, <1>8, <1>10 DEF RingBounds
<1>14. WholeWqes'
  <2>1. (w + 2) % 2 = 0  BY <1>8
  <2>  QED  BY <1>3, <1>6, <1>10, <2>1 DEF WholeWqes, WqeBbs
<1>15. WqeIntact' /\ OverrunNeedsSmallCq'
  BY <1>6 DEF TxInv, WqeIntact, OverrunNeedsSmallCq
<1>16. PendingCqes'
  <2>1. ConsPos' + 2 * (cqpi - (cqci + 1)) <= hw
    BY <1>2, <1>8, <1>10
  <2>2. ASSUME NEW p \in (cqci + 1)..(cqpi - 1)
        PROVE  /\ CqeAt(p).pos % 2 = 0
               /\ ConsPos' + 2 * (p - (cqci + 1)) <= CqeAt(p).pos
               /\ CqeAt(p).pos + 2 * (cqpi - p) <= hw
    <3>1. p \in cqci..(cqpi - 1) /\ cqci < p  BY <1>2
    <3>2. w + 2 * (p - cqci) <= CqeAt(p).pos
      BY <1>8, <3>1 DEF TxInv, PendingCqes, WqeBbs, w
    <3>3. CqeAt(p).pos % 2 = 0 /\ CqeAt(p).pos + 2 * (cqpi - p) <= hw
      BY <3>1 DEF TxInv, PendingCqes, WqeBbs
    <3>4. CqeAt(p).pos \in Nat  BY <1>7, <3>1
    <3>  QED  BY <1>2, <1>8, <1>10, <3>1, <3>2, <3>3, <3>4
  <2>3. ASSUME NEW p \in (cqci + 1)..(cqpi - 1), NEW q \in (cqci + 1)..(cqpi - 1), p < q
        PROVE  CqeAt(p).pos + 2 * (q - p) <= CqeAt(q).pos
    <3>1. p \in cqci..(cqpi - 1) /\ q \in cqci..(cqpi - 1)  BY <1>2
    <3>  QED  BY <2>3, <3>1 DEF TxInv, PendingCqes, WqeBbs
  <2>4. \A p \in (cqci + 1)..(cqpi - 1) : CqeAt(p)' = CqeAt(p)
    BY <1>6 DEF CqeAt
  <2>  QED  BY <1>6, <2>1, <2>2, <2>3, <2>4 DEF PendingCqes, WqeBbs
<1>  QED  BY <1>11, <1>12, <1>13, <1>14, <1>15, <1>16

(***************************************************************************)
(* An error CQE is consumed and reclaims nothing.                          *)
(***************************************************************************)
LEMMA PollFailsInv ==
  ASSUME TxInv, PollFails, UNCHANGED hw
  PROVE  /\ CqInv' /\ (cqdbr = cqci)'
         /\ RingBounds' /\ WholeWqes' /\ WqeIntact' /\ PendingCqes'
         /\ OverrunNeedsSmallCq'
<1>1. UNCHANGED <<cqring, cqpi, cqdead, wqe, prod, cons_index, db, hw>>
  BY DEF PollFails, PollCqe, cqvars, sqvars
<1>2. ConsPos' = ConsPos /\ UsedWqebbs' = UsedWqebbs
  BY <1>1, SamePos
<1>3. RingBounds' /\ WholeWqes' /\ WqeIntact' /\ OverrunNeedsSmallCq'
  BY <1>1, <1>2
  DEF TxInv, RingBounds, WholeWqes, WqeIntact, OverrunNeedsSmallCq
<1>4. CASE UNCHANGED cqvars
  BY <1>1, <1>2, <1>3, <1>4
  DEF TxInv, CqInv, CqTypeOK, CqOrder, CqOwnership, PendingCqes, CqeAt, cqvars
<1>5. CASE PollCqe(TRUE)
  <2>1. CqInv'
    BY <1>5, PollCqeInv, TRUE \in BOOLEAN DEF TxInv
  <2>2. cqci' = cqci + 1 /\ cqdbr' = cqci + 1
    BY <1>5 DEF PollCqe
  <2>3. cqci \in Nat /\ cqpi \in Nat /\ ConsPos \in Int /\ hw \in Nat
    BY ConsIndexPos DEF TxInv, TypeOK, CqTypeOK
  <2>4. \A p : CqeAt(p)' = CqeAt(p)
    BY <1>1 DEF CqeAt
  <2>5. \A p \in cqci..(cqpi - 1) : CqeAt(p).pos \in Nat
    <3> TAKE p \in cqci..(cqpi - 1)
    <3>1. p % CqSize \in CqSlots
      BY <2>3, CqAssumption, DivMod DEF CqSlots
    <3>2. cqring[p % CqSize] \in Cqe
      BY <3>1 DEF TxInv, TypeOK, CqTypeOK
    <3>  QED  BY <3>2 DEF CqeAt, Cqe
  <2>6. PendingCqes'
    <3>1. ConsPos + 2 * (cqpi - (cqci + 1)) <= hw
      BY <2>3 DEF TxInv, PendingCqes, WqeBbs
    <3>2. \A p \in (cqci + 1)..(cqpi - 1) : p \in cqci..(cqpi - 1)
      BY <2>3
    <3>3. ASSUME NEW p \in (cqci + 1)..(cqpi - 1)
          PROVE  /\ CqeAt(p).pos % 2 = 0
                 /\ ConsPos + 2 * (p - (cqci + 1)) <= CqeAt(p).pos
                 /\ CqeAt(p).pos + 2 * (cqpi - p) <= hw
      <4>1. /\ CqeAt(p).pos % 2 = 0
            /\ ConsPos + 2 * (p - cqci) <= CqeAt(p).pos
            /\ CqeAt(p).pos + 2 * (cqpi - p) <= hw
            /\ CqeAt(p).pos \in Nat
        BY <2>5, <3>2 DEF TxInv, PendingCqes, WqeBbs
      <4>  QED  BY <2>3, <4>1
    <3>4. ASSUME NEW p \in (cqci + 1)..(cqpi - 1), NEW q \in (cqci + 1)..(cqpi - 1),
                 p < q
          PROVE  CqeAt(p).pos + 2 * (q - p) <= CqeAt(q).pos
      BY <3>2, <3>4 DEF TxInv, PendingCqes, WqeBbs
    <3>  QED  BY <1>1, <1>2, <2>2, <2>4, <3>1, <3>3, <3>4 DEF PendingCqes, WqeBbs
  <2>  QED  BY <1>3, <2>1, <2>2, <2>6
<1>  QED  BY <1>4, <1>5 DEF PollFails

(***************************************************************************)
(* The device executes the WQE at hw and writes a CQE for it or none.      *)
(***************************************************************************)
LEMMA DeviceInv ==
  ASSUME TxInv, HwPending, hw' = hw + WqeBbs, UNCHANGED sqvars,
         \/ \E op \in {"ok", "err"} : HwWriteCqe(op, hw)
         \/ UNCHANGED cqvars
  PROVE  /\ CqInv' /\ (cqdbr = cqci)'
         /\ RingBounds' /\ WholeWqes' /\ WqeIntact' /\ PendingCqes'
         /\ OverrunNeedsSmallCq'
<1>1. UNCHANGED <<wqe, prod, cons_index, db>> /\ hw' = hw + 2
  BY DEF sqvars, WqeBbs
<1>2. ConsPos' = ConsPos /\ UsedWqebbs' = UsedWqebbs
  BY <1>1, SamePos
<1>3. /\ prod \in Nat /\ db \in Nat /\ hw \in Nat /\ cqci \in Nat /\ cqpi \in Nat
      /\ cqdbr \in Nat /\ ConsPos \in Int /\ UsedWqebbs \in Int
      /\ ConsPos = prod - UsedWqebbs
  BY ConsIndexPos DEF TxInv, TypeOK, CqTypeOK
<1>4. /\ 0 <= ConsPos /\ ConsPos <= hw /\ hw <= db /\ db <= prod
      /\ UsedWqebbs <= SqSize
      /\ prod % 2 = 0 /\ db % 2 = 0 /\ hw % 2 = 0 /\ ConsPos % 2 = 0
  BY DEF TxInv, RingBounds, WholeWqes, WqeBbs
<1>5. hw + 2 <= db
  <2>1. hw # db  BY DEF HwPending
  <2>  QED  BY ONLY <1>3, <1>4, <2>1
<1>6. RingBounds'
  BY <1>1, <1>2, <1>3, <1>4, <1>5 DEF RingBounds
<1>7. WholeWqes'
  <2>1. (hw + 2) % 2 = 0  BY ONLY <1>3, <1>4
  <2>  QED  BY <1>1, <1>2, <1>4, <2>1 DEF WholeWqes, WqeBbs
<1>8. WqeIntact'
  <2>1. \A p \in (hw + 2)..(prod - 1) : p \in hw..(prod - 1)  BY <1>3
  <2>  QED  BY <1>1, <2>1 DEF TxInv, WqeIntact
<1>9. /\ ConsPos + 2 * (cqpi - cqci) <= hw
      /\ \A p \in cqci..(cqpi - 1) :
           /\ CqeAt(p).pos % 2 = 0
           /\ ConsPos + 2 * (p - cqci) <= CqeAt(p).pos
           /\ CqeAt(p).pos + 2 * (cqpi - p) <= hw
           /\ CqeAt(p).pos \in Nat
      /\ \A p, q \in cqci..(cqpi - 1) :
           p < q => CqeAt(p).pos + 2 * (q - p) <= CqeAt(q).pos
  <2>1. ASSUME NEW p \in cqci..(cqpi - 1) PROVE CqeAt(p).pos \in Nat
    <3>1. p % CqSize \in CqSlots
      BY <1>3, CqAssumption, DivMod DEF CqSlots
    <3>2. cqring[p % CqSize] \in Cqe
      BY <3>1 DEF TxInv, TypeOK, CqTypeOK
    <3>  QED  BY <3>2 DEF CqeAt, Cqe
  <2>  QED  BY <2>1 DEF TxInv, PendingCqes, WqeBbs
<1>10. CASE UNCHANGED <<cqring, cqpi, cqci, cqdbr>> /\ (cqdead' => WqeBbs * CqSize < SqSize)
  <2>1. CqInv' /\ (cqdbr = cqci)' /\ OverrunNeedsSmallCq'
    <3>1. cqdead' \in BOOLEAN
      BY <1>10 DEF TxInv, CqInv, CqTypeOK, HwWriteCqe, cqvars
    <3>  QED  BY <1>10, <3>1
         DEF TxInv, CqInv, CqTypeOK, CqOrder, CqOwnership, OverrunNeedsSmallCq
  <2>2. \A p : CqeAt(p)' = CqeAt(p)
    BY <1>10 DEF CqeAt
  <2>3. ASSUME NEW p \in cqci..(cqpi - 1)
        PROVE  CqeAt(p).pos + 2 * (cqpi - p) <= hw + 2
    BY <1>3, <1>9
  <2>4. ConsPos + 2 * (cqpi - cqci) <= hw + 2  BY <1>3, <1>9
  <2>5. PendingCqes'
    BY <1>1, <1>2, <1>9, <1>10, <2>2, <2>3, <2>4 DEF PendingCqes, WqeBbs
  <2>  QED  BY <1>6, <1>7, <1>8, <2>1, <2>5
<1>11. ASSUME NEW op \in {"ok", "err"}, HwWriteCqe(op, hw), ~cqdead, ~CqFull
       PROVE  /\ CqInv' /\ (cqdbr = cqci)' /\ PendingCqes' /\ OverrunNeedsSmallCq'
  <2>1. op \in CqeOps  BY DEF CqeOps
  <2>2. CqInv'
    BY <1>3, <1>11, <2>1, HwWriteCqeInv DEF TxInv
  <2>3. cqpi' = cqpi + 1 /\ UNCHANGED <<cqci, cqdbr, cqdead>>
    BY <1>11 DEF HwWriteCqe
  <2>4. /\ \A p \in cqci..(cqci + CqSize - 1) :
             p # cqpi => cqring'[p % CqSize] = cqring[p % CqSize]
        /\ cqring'[cqpi % CqSize] =
             [owner |-> (cqpi \div CqSize) % 2, op |-> op, pos |-> hw]
        /\ cqpi \in cqci..(cqci + CqSize - 1)
    BY <1>3, <1>11, <2>1, HwWriteCqeFrame DEF TxInv
  <2> DEFINE Pos(p) == CqeAt(p).pos
             NewPos(p) == cqring'[p % CqSize].pos
  <2>5. NewPos(cqpi) = hw  BY <2>4
  <2>6. ASSUME NEW p \in cqci..cqpi
        PROVE  (p = cqpi /\ NewPos(p) = hw)
               \/ (p \in cqci..(cqpi - 1) /\ NewPos(p) = Pos(p))
    <3>1. CASE p = cqpi  BY <2>5, <3>1
    <3>2. CASE p # cqpi
      <4>1. p \in cqci..(cqpi - 1) /\ p \in cqci..(cqci + CqSize - 1)
        BY <1>3, <2>4, <3>2, CqAssumption
      <4>  QED  BY <2>4, <3>2, <4>1 DEF CqeAt
    <3>  QED  BY <3>1, <3>2
  <2> HIDE DEF Pos, NewPos
  <2>7. \A p \in cqci..(cqpi - 1) :
          /\ Pos(p) % 2 = 0
          /\ ConsPos + 2 * (p - cqci) <= Pos(p)
          /\ Pos(p) + 2 * (cqpi - p) <= hw
          /\ Pos(p) \in Nat
    BY <1>9 DEF Pos
  <2>8. ASSUME NEW p \in cqci..cqpi
        PROVE  /\ NewPos(p) % 2 = 0
               /\ ConsPos + 2 * (p - cqci) <= NewPos(p)
               /\ NewPos(p) + 2 * (cqpi + 1 - p) <= hw + 2
    <3>1. CASE p = cqpi /\ NewPos(p) = hw
      BY <1>3, <1>4, <1>9, <3>1
    <3>2. CASE p \in cqci..(cqpi - 1) /\ NewPos(p) = Pos(p)
      BY <1>3, <2>7, <3>2
    <3>  QED  BY <2>6, <3>1, <3>2
  <2>9. ASSUME NEW p \in cqci..cqpi, NEW q \in cqci..cqpi, p < q
        PROVE  NewPos(p) + 2 * (q - p) <= NewPos(q)
    <3>1. p \in cqci..(cqpi - 1) /\ NewPos(p) = Pos(p)
      BY <1>3, <2>6, <2>9
    <3>2. CASE q = cqpi /\ NewPos(q) = hw
      BY <1>3, <2>7, <3>1, <3>2
    <3>3. CASE q \in cqci..(cqpi - 1) /\ NewPos(q) = Pos(q)
      BY <1>9, <2>9, <3>1, <3>3 DEF Pos
    <3>  QED  BY <2>6, <3>2, <3>3
  <2>10. ConsPos + 2 * ((cqpi + 1) - cqci) <= hw + 2 /\ (cqpi + 1) - 1 = cqpi
    BY <1>3, <1>9
  <2>11. PendingCqes'
    BY <1>1, <1>2, <2>3, <2>8, <2>9, <2>10 DEF PendingCqes, WqeBbs, CqeAt, NewPos
  <2>12. (cqdbr = cqci)' /\ OverrunNeedsSmallCq'
    BY <2>3 DEF TxInv, OverrunNeedsSmallCq
  <2>  QED  BY <2>2, <2>11, <2>12
<1>12. ASSUME NEW op \in {"ok", "err"}, HwWriteCqe(op, hw), cqdead \/ CqFull
       PROVE  /\ UNCHANGED <<cqring, cqpi, cqci, cqdbr>>
              /\ cqdead' => WqeBbs * CqSize < SqSize
  <2>1. UNCHANGED <<cqring, cqpi, cqci, cqdbr>>
    BY <1>12 DEF HwWriteCqe
  <2>2. CASE cqdead
    BY <2>1, <2>2 DEF TxInv, OverrunNeedsSmallCq
  <2>3. CASE CqFull
    <3>1. cqpi - cqci >= CqSize /\ CqSize \in Nat /\ SqSize \in Nat
      BY <2>3, CqAssumption, TxAssumption DEF CqFull, TxInv
    <3>2. 2 * CqSize < SqSize
      BY ONLY <1>3, <1>4, <1>5, <1>9, <3>1
    <3>  QED  BY <2>1, <3>2 DEF WqeBbs
  <2>  QED  BY <1>12, <2>2, <2>3
<1>13. CASE UNCHANGED cqvars
  <2>1. UNCHANGED <<cqring, cqpi, cqci, cqdbr>> /\ (cqdead' => WqeBbs * CqSize < SqSize)
    BY <1>13 DEF cqvars, TxInv, OverrunNeedsSmallCq
  <2>  QED  BY <1>10, <2>1
<1>14. CASE \E op \in {"ok", "err"} : HwWriteCqe(op, hw)
  <2> PICK op \in {"ok", "err"} : HwWriteCqe(op, hw)
    BY <1>14
  <2>1. CASE cqdead \/ CqFull  BY <1>10, <1>12, <2>1
  <2>2. CASE ~cqdead /\ ~CqFull  BY <1>6, <1>7, <1>8, <1>11, <2>2
  <2>  QED  BY <2>1, <2>2
<1>  QED  BY <1>13, <1>14

-------------------------------------------------------------------------------
(***************************************************************************)
(* The batch a turn of tx_burst_q prepares is not empty and fits.          *)
(***************************************************************************)
LEMMA BatchFits ==
  ASSUME TxInv, pc = "burst", sent < nb_pkts, AvailablePkts > 0
  PROVE  /\ Batch \in Nat /\ 1 <= Batch /\ sent + Batch <= nb_pkts
         /\ WqeBbs * Batch <= SqSize - UsedWqebbs
<1>1. /\ UsedWqebbs \in Nat /\ SqSize \in Nat
      /\ sent \in Nat /\ nb_pkts \in Nat
  BY ConsIndexPos, TxAssumption DEF TxInv, TypeOK
<1> DEFINE used == UsedWqebbs
<1>2. AvailablePkts = (SqSize - used) \div 2
  BY DEF AvailablePkts, WqeBbs
<1> HIDE DEF used
<1>3. used \in Nat  BY <1>1 DEF used
<1>4. AvailablePkts \in Int /\ 2 * AvailablePkts <= SqSize - used
  BY ONLY <1>1, <1>2, <1>3
<1>5. 2 * Batch <= SqSize - used /\ Batch \in Nat /\ 1 <= Batch /\ sent + Batch <= nb_pkts
  BY <1>1, <1>3, <1>4 DEF Batch
<1>  QED  BY <1>5 DEF WqeBbs, used

LEMMA TxInitInv == Init => TxInv
<1> SUFFICES ASSUME Init PROVE TxInv
  OBVIOUS
<1>1. CqInv /\ cqdbr = cqci
  BY CqInitInv DEF Init, CqInit
<1>2. /\ IdxMod \in Nat \ {0} /\ CtrMod \in Nat \ {0} /\ SqSize \in Nat \ {0}
  BY CqAssumption, TxAssumption
<1>3. TypeOK
  <2>1. wqe \in [SqSlots -> Wqe]
    <3>1. [idx |-> 0, signal |-> FALSE] \in Wqe  BY <1>2 DEF Wqe
    <3>  QED  BY <3>1 DEF Init
  <2>2. 0 \in 0..(IdxMod - 1) /\ 1 \in (0 + 1)..(0 + 1) /\ 0 \in 0..0
    BY <1>2
  <2>  QED  BY <1>1, <2>1, <2>2 DEF Init, TypeOK, CqInv
<1>4. UsedWqebbs = 0 /\ ConsPos = 0
  <2>1. 0 % IdxMod = 0  BY ONLY <1>2, ModSelf, 0 \in 0..(IdxMod - 1)
  <2>2. prod - cons_index = 0  BY DEF Init
  <2>3. prod = 0  BY DEF Init
  <2>  QED  BY <2>1, <2>2, <2>3 DEF UsedWqebbs, ConsPos
<1>5. RingBounds /\ WholeWqes /\ WqeIntact /\ PendingCqes /\ OverrunNeedsSmallCq
  BY <1>2, <1>4
  DEF Init, CqInit, RingBounds, WholeWqes, WqeIntact, PendingCqes,
      OverrunNeedsSmallCq, WqeBbs
<1>  QED  BY <1>1, <1>3, <1>5 DEF TxInv

(***************************************************************************)
(* A step that leaves the rings and the device alone keeps TxInv if it     *)
(* keeps the types of what it changes.                                     *)
(***************************************************************************)
LEMMA CallStepInv ==
  ASSUME TxInv, UNCHANGED <<cqvars, sqvars, hw>>, TypeOK'
  PROVE  TxInv'
<1>1. UNCHANGED <<cqring, cqpi, cqci, cqdbr, cqdead, wqe, prod, cons_index, db, hw>>
  BY DEF cqvars, sqvars
<1>2. ConsPos' = ConsPos /\ UsedWqebbs' = UsedWqebbs
  BY <1>1, SamePos
<1>3. CqInv' /\ (cqdbr = cqci)' /\ OverrunNeedsSmallCq'
  BY <1>1 DEF TxInv, CqInv, CqTypeOK, CqOrder, CqOwnership, OverrunNeedsSmallCq
<1>4. RingBounds' /\ WholeWqes' /\ WqeIntact' /\ PendingCqes'
  BY <1>1, <1>2
  DEF TxInv, RingBounds, WholeWqes, WqeIntact, PendingCqes, CqeAt
<1>  QED  BY <1>3, <1>4 DEF TxInv

LEMMA TxNextInv == TxInv /\ [Next]_vars => TxInv'
<1> SUFFICES ASSUME TxInv, [Next]_vars PROVE TxInv'
  OBVIOUS
<1> USE DEF TxInv
<1>1. CASE UNCHANGED vars
  <2>1. TypeOK'
    BY <1>1 DEF TypeOK, CqTypeOK, vars, cqvars, sqvars, callvars
  <2>  QED  BY <1>1, <2>1, CallStepInv DEF vars
<1>2. ASSUME NEW n \in 0..MaxBurst, NEW b \in 1..(n + 1), TxBurst(n, b)
      PROVE  TxInv'
  <2>1. TypeOK'
    BY <1>2, TxAssumption DEF TypeOK, CqTypeOK, TxBurst, cqvars, sqvars
  <2>  QED  BY <1>2, <2>1, CallStepInv DEF TxBurst
<1>3. CASE TxFlush
  <2>1. TypeOK'
    BY <1>3 DEF TypeOK, CqTypeOK, TxFlush, cqvars, sqvars
  <2>  QED  BY <1>3, <2>1, CallStepInv DEF TxFlush
<1>4. CASE BurstPost
  <2>1. /\ Batch \in Nat /\ 1 <= Batch /\ sent + Batch <= nb_pkts
        /\ WqeBbs * Batch <= SqSize - UsedWqebbs
    BY <1>4, BatchFits DEF BurstPost
  <2>2. Prepare(Batch, Batch) /\ db' \in {db, prod'} /\ Batch \in Int
        /\ UNCHANGED <<cqvars, cons_index, hw>>
    BY <1>4, <2>1 DEF BurstPost
  <2>3. /\ wqe' \in [SqSlots -> Wqe] /\ prod' \in Nat /\ db' \in Nat
        /\ CqInv' /\ (cqdbr = cqci)' /\ OverrunNeedsSmallCq'
        /\ RingBounds' /\ WholeWqes' /\ WqeIntact' /\ PendingCqes'
    BY <2>1, <2>2, PrepareInv
  <2>4. TypeOK'
    BY <1>4, <2>1, <2>3 DEF TypeOK, CqInv, BurstPost
  <2>  QED  BY <2>3, <2>4
<1>5. CASE BurstBadFrame
  <2>1. /\ Batch \in Nat /\ 1 <= Batch /\ sent + Batch <= nb_pkts
        /\ WqeBbs * Batch <= SqSize - UsedWqebbs
    BY <1>5, BatchFits DEF BurstBadFrame
  <2> DEFINE k == bad - sent - 1
  <2>2. k \in Nat /\ WqeBbs * k <= SqSize - UsedWqebbs
    <3>1. UsedWqebbs \in Int /\ SqSize \in Int
      BY ConsIndexPos, TxAssumption
    <3>  QED  BY <1>5, <2>1, <3>1 DEF BurstBadFrame, TypeOK, WqeBbs
  <2>3. Prepare(k, 0) /\ db' \in {db, prod'} /\ UNCHANGED <<cqvars, cons_index, hw>>
    BY <1>5 DEF BurstBadFrame
  <2> HIDE DEF k
  <2>4. /\ wqe' \in [SqSlots -> Wqe] /\ prod' \in Nat /\ db' \in Nat
        /\ CqInv' /\ (cqdbr = cqci)' /\ OverrunNeedsSmallCq'
        /\ RingBounds' /\ WholeWqes' /\ WqeIntact' /\ PendingCqes'
    BY <2>2, <2>3, PrepareInv
  <2>5. TypeOK'
    BY <1>5, <2>4 DEF TypeOK, CqInv, BurstBadFrame, BurstReturns
  <2>  QED  BY <2>4, <2>5
<1>6. CASE BurstRingFails
  <2>1. /\ Batch \in Nat /\ 1 <= Batch /\ sent + Batch <= nb_pkts
        /\ WqeBbs * Batch <= SqSize - UsedWqebbs
    BY <1>6, BatchFits DEF BurstRingFails
  <2>2. Prepare(Batch, Batch) /\ db' \in {db, prod'} /\ Batch \in Int
        /\ UNCHANGED <<cqvars, cons_index, hw>>
    BY <1>6, <2>1 DEF BurstRingFails
  <2>3. /\ wqe' \in [SqSlots -> Wqe] /\ prod' \in Nat /\ db' \in Nat
        /\ CqInv' /\ (cqdbr = cqci)' /\ OverrunNeedsSmallCq'
        /\ RingBounds' /\ WholeWqes' /\ WqeIntact' /\ PendingCqes'
    BY <2>1, <2>2, PrepareInv
  <2>4. TypeOK'
    BY <1>6, <2>3 DEF TypeOK, CqInv, BurstRingFails, BurstReturns
  <2>  QED  BY <2>3, <2>4
<1>7. CASE BurstReclaims \/ FlushReclaims
  <2>1. PollReclaims /\ UNCHANGED <<hw, hwerr, uar_in_bar, callvars>>
    BY <1>7 DEF BurstReclaims, FlushReclaims
  <2>2. /\ cons_index' \in 0..(IdxMod - 1)
        /\ CqInv' /\ (cqdbr = cqci)' /\ OverrunNeedsSmallCq'
        /\ RingBounds' /\ WholeWqes' /\ WqeIntact' /\ PendingCqes'
    BY <2>1, PollReclaimsInv
  <2>3. TypeOK'
    BY <2>1, <2>2 DEF TypeOK, CqInv, PollReclaims, callvars
  <2>  QED  BY <2>2, <2>3
<1>8. CASE BurstPollFails \/ FlushPollFails
  <2>0. ~(UsedWqebbs > SqSize)
    <3>1. UsedWqebbs <= SqSize /\ UsedWqebbs \in Int /\ SqSize \in Int
      BY TxAssumption, CqAssumption DEF RingBounds, UsedWqebbs, TypeOK
    <3>  QED  BY ONLY <3>1
  <2>1. PollFails /\ UNCHANGED <<hw, hwerr, uar_in_bar>> /\ UNCHANGED sqvars
    <3>1. PollFails /\ UNCHANGED <<hw, hwerr, uar_in_bar>>
      BY ONLY <1>8, <2>0, Zenon DEF BurstPollFails, FlushPollFails
    <3>  QED  BY ONLY <3>1 DEF PollFails
  <2>2. /\ CqInv' /\ (cqdbr = cqci)' /\ OverrunNeedsSmallCq'
        /\ RingBounds' /\ WholeWqes' /\ WqeIntact' /\ PendingCqes'
    BY <2>1, PollFailsInv
  <2>3. TypeOK'
    BY <1>8, <2>1, <2>2
    DEF TypeOK, CqInv, BurstPollFails, FlushPollFails, BurstReturns, FlushReturns, sqvars
  <2>  QED  BY <2>2, <2>3
<1>9. CASE BurstDone \/ FlushDone
  <2>1. UNCHANGED <<cqvars, sqvars, hw, hwerr, uar_in_bar>>
    BY <1>9 DEF BurstDone, FlushDone
  <2>2. TypeOK'
    BY <1>9, <2>1
    DEF TypeOK, CqTypeOK, BurstDone, FlushDone, BurstReturns, FlushReturns,
        cqvars, sqvars
  <2>  QED  BY <2>1, <2>2, CallStepInv
<1>10. CASE HwSend \/ HwError
  <2>1. /\ HwPending /\ hw' = hw + WqeBbs /\ hwerr' \in BOOLEAN
        /\ UNCHANGED sqvars /\ UNCHANGED <<uar_in_bar, callvars>>
        /\ \/ \E op \in {"ok", "err"} : HwWriteCqe(op, hw)
           \/ UNCHANGED cqvars
    BY <1>10 DEF HwSend, HwError, TypeOK
  <2>2. /\ CqInv' /\ (cqdbr = cqci)' /\ OverrunNeedsSmallCq'
        /\ RingBounds' /\ WholeWqes' /\ WqeIntact' /\ PendingCqes'
    BY <2>1, DeviceInv
  <2>3. hw' \in Nat  BY <2>1 DEF TypeOK, WqeBbs
  <2>4. TypeOK'
    BY <2>1, <2>2, <2>3 DEF TypeOK, CqInv, sqvars, callvars
  <2>  QED  BY <2>2, <2>4
<1>  QED
  BY <1>1, <1>2, <1>3, <1>4, <1>5, <1>6, <1>7, <1>8, <1>9, <1>10
  DEF Next, Driver, Device

-------------------------------------------------------------------------------
(***************************************************************************)
(* The inductive invariant holds of every behaviour of the transmit queue. *)
(***************************************************************************)
THEOREM TxInvariant == Spec => []TxInv
<1>1. Init => TxInv  BY TxInitInv
<1>2. TxInv /\ [Next]_vars => TxInv'  BY TxNextInv
<1>  QED  BY <1>1, <1>2, PTL DEF Spec

(***************************************************************************)
(* No WQE is overwritten before the device executed it: mlxnicd_tx_burst_q *)
(* never hands the device a ring it corrupted, for every ring size, burst  *)
(* pattern, bad frame and device error.                                    *)
(***************************************************************************)
THEOREM WqesIntact == Spec => []WqeIntact
<1>1. TxInv => WqeIntact  BY DEF TxInv
<1>  QED  BY <1>1, TxInvariant, PTL

(***************************************************************************)
(* cons_index never passes the device and the ring is never overcommitted: *)
(* the used_wqebbs > MLX5_SQ_WQE_COUNT branch of tx_burst_q is dead.       *)
(***************************************************************************)
THEOREM RingStaysBounded == Spec => []RingBounds
<1>1. TxInv => RingBounds  BY DEF TxInv
<1>  QED  BY <1>1, TxInvariant, PTL

(***************************************************************************)
(* With a CQE for every packet the send ring can hold, the CQ of           *)
(* mlxnicd_tx_burst_q cannot overflow although it is polled only when the  *)
(* ring is full.                                                           *)
(***************************************************************************)
THEOREM NoOverrunIfCqFits == Spec => []OverrunNeedsSmallCq
<1>1. TxInv => OverrunNeedsSmallCq  BY DEF TxInv
<1>  QED  BY <1>1, TxInvariant, PTL

(***************************************************************************)
(* The polls of the transmit CQ see exactly the CQEs the device wrote.     *)
(***************************************************************************)
THEOREM TxPollsExact == Spec => []PollExact
<1>1. TxInv => PollExact  BY CqPollExact DEF TxInv
<1>  QED  BY <1>1, TxInvariant, PTL

(***************************************************************************)
(* mlxnicd_tx_flush_q returns 0 only when the device has executed every    *)
(* WQE ever prepared.                                                      *)
(***************************************************************************)
THEOREM FlushIsSound == Spec => FlushMeansExecuted
<1>1. ASSUME TxInv, [Next]_vars
      PROVE  [pc = "flush" /\ pc' = "idle" /\ ret' = "ok" => hw' = prod']_vars
  <2> SUFFICES ASSUME Next, pc = "flush", pc' = "idle", ret' = "ok"
               PROVE  hw' = prod'
    BY <1>1
  <2>1. CASE FlushDone
    <3>1. cons_index = prod % IdxMod /\ UNCHANGED <<sqvars, hw>>
      BY <2>1 DEF FlushDone
    <3>2. /\ ConsPos \in Int /\ cons_index = ConsPos % IdxMod
          /\ UsedWqebbs \in Int /\ ConsPos = prod - UsedWqebbs
      BY <1>1, ConsIndexPos DEF TxInv
    <3>3. /\ prod \in Nat /\ hw \in Nat /\ db \in Nat /\ IdxMod \in Nat \ {0}
          /\ SqSize \in Int /\ SqSize < IdxMod
      BY <1>1, CqAssumption, TxAssumption, RangesNest DEF TxInv, TypeOK
    <3>4. ConsPos <= hw /\ hw <= db /\ db <= prod /\ UsedWqebbs <= SqSize
      BY <1>1 DEF TxInv, RingBounds
    <3>5. ConsPos = prod
      <4> SUFFICES ASSUME ConsPos # prod PROVE FALSE
        OBVIOUS
      <4>1. ConsPos < prod /\ prod < ConsPos + IdxMod
        BY <3>2, <3>3, <3>4
      <4>2. prod \in Int  BY <3>3
      <4>3. ConsPos % IdxMod # prod % IdxMod
        BY ONLY <3>2, <3>3, <4>1, <4>2, ModDistinct
      <4>  QED  BY <3>1, <3>2, <4>3
    <3>  QED  BY <3>1, <3>3, <3>4, <3>5 DEF sqvars
  <2>2. CASE ~FlushDone
    <3>1. FlushPollFails
      BY <2>2 DEF Next, Driver, Device, TxBurst, TxFlush, BurstPost, BurstBadFrame,
         BurstRingFails, BurstReclaims, BurstPollFails, BurstDone, FlushReclaims,
         HwSend, HwError, callvars
    <3>  QED  BY <3>1 DEF FlushPollFails, FlushReturns
  <2>  QED  BY <2>1, <2>2
<1>  QED  BY <1>1, TxInvariant, PTL DEF Spec, FlushMeansExecuted
===============================================================================
