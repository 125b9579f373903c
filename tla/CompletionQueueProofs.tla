------------------------ MODULE CompletionQueueProofs ------------------------
(***************************************************************************)
(* What the driver may rely on when it polls a completion ring, for every  *)
(* ring size and index width: lemmas that TxQueueProofs and RxQueueProofs  *)
(* cite.  Each is about one action of CompletionQueue, so a queue that     *)
(* uses these actions keeps CqInv and may read the owner bit as "there is  *)
(* a completion I have not seen".                                          *)
(***************************************************************************)
EXTENDS MCCompletionQueue, RingArithmetic, SequenceTheorems

(***************************************************************************)
(* A freshly created CQ: 0xff is never mistaken for a completion.          *)
(***************************************************************************)
LEMMA CqInitInv == CqInit => CqInv
<1> SUFFICES ASSUME CqInit PROVE CqInv
  OBVIOUS
<1>1. CqTypeOK
  BY CqAssumption DEF CqInit, CqTypeOK, Cqe, CqeOps, CqSlots
<1>2. CqOrder
  BY CqAssumption DEF CqInit, CqOrder
<1>3. CqOwnership
  <2> SUFFICES ASSUME NEW p \in cqci..(cqci + CqSize - 1)
               PROVE  (cqring[p % CqSize].owner = (p \div CqSize) % 2) <=> p < cqpi
    BY DEF CqOwnership
  <2>0. p \in 0..(CqSize - 1) /\ ~(p < cqpi)
    BY CqAssumption DEF CqInit
  <2>1. CqSize * 0 + p = p  BY <2>0, CqAssumption
  <2>2. (CqSize * 0 + p) % CqSize = p /\ (CqSize * 0 + p) \div CqSize = 0
    BY ONLY <2>0, CqAssumption, DivModUnique, 0 \in Int
  <2>  QED  BY <2>0, <2>1, <2>2 DEF CqInit, CqSlots
<1>  QED  BY <1>1, <1>2, <1>3 DEF CqInv

(***************************************************************************)
(* The slot and the parity the code computes from the 32-bit cons_index    *)
(* are those of the unwrapped count.                                       *)
(***************************************************************************)
LEMMA CqHeadUnwrapped ==
  ASSUME CqTypeOK
  PROVE  /\ CqHead = cqring[cqci % CqSize]
         /\ ExpectedOwner = (cqci \div CqSize) % 2
<1>1. cqci \in Int  BY DEF CqTypeOK
<1>2. /\ ((cqci % IdxMod) \div CqSize) % 2 = (cqci \div CqSize) % 2
      /\ (cqci % IdxMod) % CqSize = cqci % CqSize
  BY ONLY <1>1, CqAssumption, LapParity
<1>  QED  BY <1>2 DEF CqHead, ExpectedOwner, ConsIndex

(***************************************************************************)
(* The poll of mlx5_poll_cq_once_mode is exact in every state of CqInv.    *)
(***************************************************************************)
LEMMA CqPollExact == CqInv => PollExact
<1> SUFFICES ASSUME CqInv PROVE PollExact
  OBVIOUS
<1>1. cqci \in cqci..(cqci + CqSize - 1)
  BY CqAssumption DEF CqInv, CqTypeOK
<1>2. (cqring[cqci % CqSize].owner = (cqci \div CqSize) % 2) <=> cqci < cqpi
  BY <1>1 DEF CqInv, CqOwnership
<1>  QED  BY <1>2, CqHeadUnwrapped DEF CqInv, PollExact, CqReady

(***************************************************************************)
(* Consuming a CQE, in either mode, keeps the invariant: the slot left     *)
(* behind will be a lap old when the consumer comes round to it.           *)
(***************************************************************************)
LEMMA PollCqeInv ==
  ASSUME NEW update \in BOOLEAN, CqInv, PollCqe(update)
  PROVE  CqInv'
<1>1. cqci < cqpi
  BY CqPollExact DEF PollExact, PollCqe
<1>2. CqTypeOK'
  BY DEF CqInv, CqTypeOK, PollCqe
<1>3. CqOrder'
  BY <1>1, CqAssumption DEF CqInv, CqTypeOK, CqOrder, PollCqe
<1>4. CqOwnership'
  <2> SUFFICES ASSUME NEW p \in (cqci + 1)..(cqci + CqSize)
               PROVE  (cqring[p % CqSize].owner = (p \div CqSize) % 2) <=> p < cqpi
    <3>1. (cqci + 1) + CqSize - 1 = cqci + CqSize
      BY CqAssumption DEF CqInv, CqTypeOK
    <3>  QED  BY <3>1 DEF CqOwnership, PollCqe
  <2>1. CASE p < cqci + CqSize
    <3>1. p \in cqci..(cqci + CqSize - 1)
      BY <2>1, CqAssumption DEF CqInv, CqTypeOK
    <3>  QED  BY <3>1 DEF CqInv, CqOwnership
  <2>2. CASE p = cqci + CqSize
    <3> DEFINE l == cqci \div CqSize
    <3>0. cqci \in Int  BY DEF CqInv, CqTypeOK
    <3>1. p % CqSize = cqci % CqSize /\ p \div CqSize = l + 1
      BY ONLY <2>2, <3>0, ModTurn, CqAssumption
    <3>2. l \in Int  BY <3>0, CqAssumption, DivMod
    <3>3. cqring[cqci % CqSize].owner = l % 2
      BY <1>1, CqAssumption DEF CqInv, CqOwnership, CqTypeOK
    <3> HIDE DEF l
    <3>4. l % 2 # (l + 1) % 2  BY <3>2
    <3>5. ~(p < cqpi)
      BY <2>2, CqAssumption DEF CqInv, CqTypeOK, CqOrder
    <3>  QED  BY <3>1, <3>3, <3>4, <3>5
  <2>  QED  BY <2>1, <2>2, CqAssumption DEF CqInv, CqTypeOK
<1>  QED  BY <1>2, <1>3, <1>4 DEF CqInv

(***************************************************************************)
(* Publishing the consumer index keeps the invariant.                      *)
(***************************************************************************)
LEMMA CqUpdateConsumerInv ==
  ASSUME CqInv, CqUpdateConsumer
  PROVE  CqInv'
<1>1. CqTypeOK' /\ CqOrder'
  BY CqAssumption DEF CqInv, CqTypeOK, CqOrder, CqUpdateConsumer
<1>2. CqOwnership'
  BY DEF CqInv, CqOwnership, CqUpdateConsumer
<1>  QED  BY <1>1, <1>2 DEF CqInv

(***************************************************************************)
(* Writing a CQE touches no slot that is still to be polled.               *)
(***************************************************************************)
LEMMA HwWriteCqeFrame ==
  ASSUME NEW op \in CqeOps, NEW pos \in Nat, CqInv, HwWriteCqe(op, pos),
         ~cqdead, ~CqFull
  PROVE  /\ \A p \in cqci..(cqci + CqSize - 1) :
              p # cqpi => cqring'[p % CqSize] = cqring[p % CqSize]
         /\ cqring'[cqpi % CqSize] =
              [owner |-> (cqpi \div CqSize) % 2, op |-> op, pos |-> pos]
         /\ cqpi \in cqci..(cqci + CqSize - 1)
<1>1. cqring' = [cqring EXCEPT ![cqpi % CqSize] =
                   [owner |-> (cqpi \div CqSize) % 2, op |-> op, pos |-> pos]]
  BY DEF HwWriteCqe
<1>2. cqpi \in Int /\ cqci \in Int /\ cqpi % CqSize \in CqSlots
  BY DivMod, CqAssumption DEF CqInv, CqTypeOK, CqSlots
<1>3. cqpi \in cqci..(cqci + CqSize - 1)
  BY CqAssumption DEF CqInv, CqTypeOK, CqOrder, CqFull
<1>4. ASSUME NEW p \in cqci..(cqci + CqSize - 1), p # cqpi
      PROVE  p % CqSize # cqpi % CqSize /\ p % CqSize \in CqSlots
  <2>1. p \in Int /\ p % CqSize \in CqSlots
    BY <1>2, DivMod, CqAssumption DEF CqSlots
  <2>2. CASE p < cqpi
    <3>1. cqpi < p + CqSize  BY <1>2, <1>3, <2>1, CqAssumption
    <3>  QED  BY ONLY <1>2, <2>1, <2>2, <3>1, ModDistinct, CqAssumption
  <2>3. CASE cqpi < p
    <3>1. p < cqpi + CqSize  BY <1>2, <1>3, <2>1, CqAssumption
    <3>  QED  BY ONLY <1>2, <2>1, <2>3, <3>1, ModDistinct, CqAssumption
  <2>  QED  BY <1>2, <1>4, <2>1, <2>2, <2>3
<1>5. cqring \in [CqSlots -> Cqe]  BY DEF CqInv, CqTypeOK
<1>  QED  BY <1>1, <1>2, <1>3, <1>4, <1>5

(***************************************************************************)
(* A CQE written by the device keeps the invariant; so does an overrun.    *)
(***************************************************************************)
LEMMA HwWriteCqeInv ==
  ASSUME NEW op \in CqeOps, NEW pos \in Nat, CqInv, HwWriteCqe(op, pos)
  PROVE  CqInv'
<1>1. CASE cqdead \/ CqFull
  <2>1. cqdead' = TRUE /\ UNCHANGED <<cqring, cqpi, cqci, cqdbr>>
    BY <1>1 DEF HwWriteCqe
  <2>  QED  BY <2>1 DEF CqInv, CqTypeOK, CqOrder, CqOwnership
<1>2. CASE ~cqdead /\ ~CqFull
  <2>1. /\ cqring' = [cqring EXCEPT ![cqpi % CqSize] =
                        [owner |-> (cqpi \div CqSize) % 2, op |-> op, pos |-> pos]]
        /\ cqpi' = cqpi + 1
        /\ UNCHANGED <<cqci, cqdbr, cqdead>>
    BY <1>2 DEF HwWriteCqe
  <2>2. /\ cqpi \div CqSize \in Int /\ cqpi % CqSize \in CqSlots
        /\ (cqpi \div CqSize) % 2 \in {0, 1}
    <3>1. cqpi \in Int  BY DEF CqInv, CqTypeOK
    <3>2. cqpi \div CqSize \in Int /\ cqpi % CqSize \in CqSlots
      BY <3>1, DivMod, CqAssumption DEF CqSlots
    <3>3. \A l \in Int : l % 2 \in {0, 1}  OBVIOUS
    <3>  QED  BY <3>2, <3>3
  <2>3. CqTypeOK'
    <3>1. [owner |-> (cqpi \div CqSize) % 2, op |-> op, pos |-> pos] \in Cqe
      BY <2>2 DEF Cqe
    <3>2. cqring' \in [CqSlots -> Cqe]
      BY <2>1, <3>1 DEF CqInv, CqTypeOK
    <3>  QED  BY <2>1, <3>2 DEF CqInv, CqTypeOK
  <2>4. CqOrder'
    BY <1>2, <2>1, CqAssumption DEF CqInv, CqTypeOK, CqOrder, CqFull
  <2>5. CqOwnership'
    <3> SUFFICES ASSUME NEW p \in cqci..(cqci + CqSize - 1)
                 PROVE  (cqring'[p % CqSize].owner = (p \div CqSize) % 2)
                          <=> p < cqpi + 1
      BY <2>1 DEF CqOwnership
    <3>1. CASE p = cqpi
      <4>1. cqring'[cqpi % CqSize] =
              [owner |-> (cqpi \div CqSize) % 2, op |-> op, pos |-> pos]
        BY <1>2, HwWriteCqeFrame
      <4>  QED  BY <3>1, <4>1 DEF CqInv, CqTypeOK
    <3>2. CASE p # cqpi
      <4>1. cqring'[p % CqSize] = cqring[p % CqSize]
        BY <1>2, <3>2, HwWriteCqeFrame
      <4>2. p < cqpi + 1 <=> p < cqpi
        BY <3>2 DEF CqInv, CqTypeOK
      <4>  QED  BY <4>1, <4>2 DEF CqInv, CqOwnership
    <3>  QED  BY <3>1, <3>2
  <2>  QED  BY <2>3, <2>4, <2>5 DEF CqInv
<1>  QED  BY <1>1, <1>2

-------------------------------------------------------------------------------
(***************************************************************************)
(* The completion queue on its own (MCCompletionQueue).                    *)
(***************************************************************************)

\* Every step of the queue keeps the invariant.
LEMMA CqNextInv == CqInv /\ [CqNext]_cqvars => CqInv'
<1> SUFFICES ASSUME CqInv, [CqNext]_cqvars
             PROVE  CqInv'
  OBVIOUS
<1>1. ASSUME NEW op \in {"ok", "err"}, NEW pos \in Positions, DeviceCompletes(op, pos)
      PROVE  CqInv'
  <2>1. op \in CqeOps /\ pos \in Nat
    BY PositionsAssumption DEF CqeOps
  <2> QED BY <1>1, <2>1, HwWriteCqeInv DEF DeviceCompletes
<1>2. ASSUME NEW update \in BOOLEAN, PollCqe(update)
      PROVE  CqInv'
  BY <1>2, PollCqeInv
<1>3. CASE CqUpdateConsumer
  BY <1>3, CqUpdateConsumerInv
<1>4. CASE UNCHANGED cqvars
  BY <1>4 DEF cqvars, CqInv, CqTypeOK, CqOrder, CqOwnership
<1> QED BY <1>1, <1>2, <1>3, <1>4 DEF CqNext

(***************************************************************************)
(* Over every lap, and whenever the consumer index is published, the owner *)
(* bits tell written CQEs from old ones and neither side passes the other, *)
(* for every ring size and index width.                                    *)
(***************************************************************************)
THEOREM CqInvariant == CqSpec => []CqInv
<1>1. CqInit => CqInv
  BY CqInitInv
<1>2. CqInv /\ [CqNext]_cqvars => CqInv'
  BY CqNextInv
<1> QED BY <1>1, <1>2, PTL DEF CqSpec

(***************************************************************************)
(* mlx5_poll_cq_once_mode takes a CQE exactly when there is a new one.     *)
(***************************************************************************)
THEOREM PollsExact == CqSpec => []PollExact
BY CqInvariant, CqPollExact, PTL

\* If the owner bits are right the driver can read as many CQEs as there are.
LEMMA PendingExact ==
  ASSUME NEW ring, NEW ci \in Nat, NEW pi \in Nat, ci <= pi, pi <= ci + CqSize,
         \A p \in ci..(ci + CqSize - 1) :
           (ring[p % CqSize].owner = (p \div CqSize) % 2) <=> p < pi
  PROVE  Pending(ring, ci) = pi - ci
<1> DEFINE Right(n) ==
      \A k \in 0..n : k < CqSize => (Readable(ring, ci + k) <=> k < n)
<1>1. ASSUME NEW k \in Nat, k < CqSize
      PROVE  Readable(ring, ci + k) <=> k < pi - ci
  <2>1. ci + k \in ci..(ci + CqSize - 1) /\ (ci + k < pi <=> k < pi - ci)
    BY <1>1, CqAssumption
  <2> QED BY <2>1 DEF Readable
<1>2. pi - ci \in 0..CqSize
  BY CqAssumption
<1>3. Right(pi - ci)
  BY <1>1, <1>2
<1>4. ASSUME NEW n \in 0..CqSize, Right(n)
      PROVE  n = pi - ci
  <2>1. CASE n < pi - ci
    <3>1. n \in 0..n /\ n < CqSize /\ n \in Nat
      BY <1>2, <2>1, CqAssumption
    <3> QED BY <1>1, <1>4, <2>1, <3>1
  <2>2. CASE pi - ci < n
    <3>1. pi - ci \in 0..n /\ pi - ci < CqSize /\ pi - ci \in Nat
      BY <1>2, <2>2, CqAssumption
    <3> QED BY <1>1, <1>4, <2>2, <3>1
  <2> QED BY <1>2, <2>1, <2>2
<1> QED BY <1>2, <1>3, <1>4 DEF Pending

\* Appending to, and taking from, sequences given as functions.
LEMMA AppendTo ==
  ASSUME NEW S, NEW n \in Nat, NEW s \in [1..n -> S], NEW t \in [1..(n + 1) -> S],
         \A k \in 1..n : t[k] = s[k]
  PROVE  /\ Len(s) = n
         /\ t = Append(s, t[n + 1])
<1>1. s \in Seq(S) /\ Len(s) = n /\ t \in Seq(S) /\ Len(t) = n + 1 /\ t[n + 1] \in S
  OBVIOUS
<1> DEFINE u == Append(s, t[n + 1])
<1>2. /\ u \in Seq(S) /\ Len(u) = n + 1
      /\ \A k \in 1..n : u[k] = s[k]
      /\ u[n + 1] = t[n + 1]
  BY <1>1, AppendProperties
<1> HIDE DEF u
<1>3. \A k \in 1..Len(t) : t[k] = u[k]
  BY <1>1, <1>2
<1>4. t = u
  BY <1>1, <1>2, <1>3, SeqEqual
<1> QED BY <1>1, <1>4 DEF u

\* A sequence without its first element.
LEMMA TailOf ==
  ASSUME NEW S, NEW n \in Nat \ {0}, NEW s \in [1..n -> S], NEW t \in [1..(n - 1) -> S],
         \A k \in 1..(n - 1) : t[k] = s[k + 1]
  PROVE  s # <<>> /\ t = Tail(s)
<1>1. s \in Seq(S) /\ Len(s) = n /\ t \in Seq(S) /\ Len(t) = n - 1
  OBVIOUS
<1>2. s # <<>>
  BY <1>1
<1> DEFINE u == Tail(s)
<1>3. u \in Seq(S) /\ Len(u) = n - 1 /\ \A k \in 1..(n - 1) : u[k] = s[k + 1]
  BY <1>1, <1>2, HeadTailProperties
<1> HIDE DEF u
<1>4. \A k \in 1..Len(t) : t[k] = u[k]
  BY <1>1, <1>3
<1>5. t = u
  BY <1>1, <1>3, <1>4, SeqEqual
<1> QED BY <1>2, <1>5 DEF u

\* The queue the ring stands for, when the owner bits are right.
LEMMA QueuedExact ==
  ASSUME NEW ring \in [CqSlots -> Cqe], NEW ci \in Nat, NEW pi \in Nat,
         ci <= pi, pi <= ci + CqSize,
         \A p \in ci..(ci + CqSize - 1) :
           (ring[p % CqSize].owner = (p \div CqSize) % 2) <=> p < pi
  PROVE  /\ Queued(ring, ci) =
              [k \in 1..(pi - ci) |-> Completion(ring[(ci + k - 1) % CqSize])]
         /\ Queued(ring, ci) \in [1..(pi - ci) -> [op : CqeOps, pos : Nat]]
<1>1. Pending(ring, ci) = pi - ci
  BY PendingExact
<1>2. Queued(ring, ci) =
        [k \in 1..(pi - ci) |-> Completion(ring[(ci + k - 1) % CqSize])]
  BY <1>1 DEF Queued
<1>3. ASSUME NEW k \in 1..(pi - ci)
      PROVE  Completion(ring[(ci + k - 1) % CqSize]) \in [op : CqeOps, pos : Nat]
  <2>1. ci + k - 1 \in Int
    OBVIOUS
  <2>2. (ci + k - 1) % CqSize \in CqSlots
    BY <2>1, DivMod, CqAssumption DEF CqSlots
  <2> DEFINE x == ring[(ci + k - 1) % CqSize]
  <2>3. x \in Cqe
    BY <2>2
  <2> HIDE DEF x
  <2>4. Completion(x) \in [op : CqeOps, pos : Nat]
    BY <2>3 DEF Completion, Cqe
  <2> QED BY <2>4 DEF x
<1> QED BY <1>2, <1>3

(***************************************************************************)
(* The polled ring implements the FIFO: a completion the device writes is  *)
(* appended, a poll takes the oldest, publishing the consumer index is     *)
(* invisible, and a completion is lost only by breaking the queue.         *)
(***************************************************************************)
THEOREM RingImplementsFifo == CqSpec => ImplementsFifo
<1> DEFINE Q == Queued(cqring, cqci)
           A(k) == Completion(cqring[(cqci + k - 1) % CqSize])
           B(k) == Completion(cqring'[(cqci' + k - 1) % CqSize])
           S == [op : CqeOps, pos : Nat]
<1>1. CqInit => Fifo!FifoInit
  <2> SUFFICES ASSUME CqInit PROVE Q = <<>> /\ cqdead = FALSE
    BY DEF Fifo!FifoInit
  <2>1. CqInv /\ cqpi = 0 /\ cqci = 0
    BY CqInitInv DEF CqInit
  <2>2. Q = [k \in 1..(cqpi - cqci) |-> A(k)]
    <3>1. /\ cqci <= cqpi /\ cqpi <= cqci + CqSize /\ cqpi \in Nat /\ cqci \in Nat
          /\ cqring \in [CqSlots -> Cqe]
          /\ \A p \in cqci..(cqci + CqSize - 1) :
               (cqring[p % CqSize].owner = (p \div CqSize) % 2) <=> p < cqpi
      BY <2>1, CqAssumption DEF CqInv, CqTypeOK, CqOrder, CqOwnership
    <3> QED BY <3>1, QueuedExact
  <2> QED BY <2>1, <2>2 DEF CqInit
<1>2. ASSUME CqInv, [CqNext]_cqvars
      PROVE  [Fifo!FifoNext]_(Fifo!fvars)
  <2>1. CqInv'
    BY <1>2, CqNextInv
  <2>2. /\ cqpi \in Nat /\ cqci \in Nat /\ cqci <= cqpi /\ cqpi <= cqci + CqSize
        /\ cqring \in [CqSlots -> Cqe]
        /\ \A p \in cqci..(cqci + CqSize - 1) :
             (cqring[p % CqSize].owner = (p \div CqSize) % 2) <=> p < cqpi
    BY <1>2, CqAssumption DEF CqInv, CqTypeOK, CqOrder, CqOwnership
  <2>3. /\ cqpi' \in Nat /\ cqci' \in Nat /\ cqci' <= cqpi' /\ cqpi' <= cqci' + CqSize
        /\ cqring' \in [CqSlots -> Cqe]
        /\ \A p \in cqci'..(cqci' + CqSize - 1) :
             (cqring'[p % CqSize].owner = (p \div CqSize) % 2) <=> p < cqpi'
    <3>1. /\ cqpi' \in Nat /\ cqci' \in Nat /\ cqdbr' \in Nat /\ CqSize \in Nat
          /\ cqdbr' <= cqci' /\ cqci' <= cqpi' /\ cqpi' <= cqdbr' + CqSize
      BY <2>1, CqAssumption DEF CqInv, CqTypeOK, CqOrder
    <3>2. \A p \in cqci'..(cqci' + CqSize - 1) :
            (cqring'[p % CqSize].owner = (p \div CqSize) % 2) <=> p < cqpi'
      BY <2>1 DEF CqInv, CqOwnership
    <3>3. cqring' \in [CqSlots -> Cqe]
      BY <2>1 DEF CqInv, CqTypeOK
    <3>4. \A i, d, p \in Nat : d <= i /\ p <= d + CqSize => p <= i + CqSize
      BY <3>1
    <3>5. cqpi' <= cqci' + CqSize
      BY ONLY <3>1, <3>4
    <3> QED BY <3>1, <3>2, <3>3, <3>5
  <2>4. /\ Q = [k \in 1..(cqpi - cqci) |-> A(k)]
        /\ Q \in [1..(cqpi - cqci) -> S]
    BY <2>2, QueuedExact
  <2>5. /\ Q' = [k \in 1..(cqpi' - cqci') |-> B(k)]
        /\ Q' \in [1..(cqpi' - cqci') -> S]
    BY <2>3, QueuedExact
  <2> HIDE DEF Q, A, B, S
  <2>6. ASSUME NEW op \in {"ok", "err"}, NEW pos \in Positions, DeviceCompletes(op, pos)
        PROVE  Fifo!FifoNext
    <3>1. CASE cqdead \/ CqFull
      BY <2>6, <3>1 DEF DeviceCompletes, HwWriteCqe, Fifo!FifoNext, Fifo!Lose, Q
    <3>2. CASE ~cqdead /\ ~CqFull
      <4>1. /\ cqpi' = cqpi + 1
            /\ UNCHANGED <<cqci, cqdbr, cqdead>>
            /\ HwWriteCqe(op, pos)
        BY <2>6, <3>2 DEF DeviceCompletes, HwWriteCqe
      <4> DEFINE e == [owner |-> (cqpi \div CqSize) % 2, op |-> op, pos |-> pos]
                 c == [op |-> op, pos |-> pos]
                 n == cqpi - cqci
      <4>2. /\ \A p \in cqci..(cqci + CqSize - 1) :
                 p # cqpi => cqring'[p % CqSize] = cqring[p % CqSize]
            /\ cqring'[cqpi % CqSize] = e
            /\ cqpi \in cqci..(cqci + CqSize - 1)
        BY <1>2, <3>2, <4>1, HwWriteCqeFrame, PositionsAssumption DEF CqeOps
      <4>3. n \in Nat /\ n < CqSize /\ cqpi' - cqci' = n + 1
        BY <2>2, <4>1, <4>2, CqAssumption
      <4>4. ASSUME NEW k \in 1..n
            PROVE  B(k) = A(k)
        <5>1. cqci + k - 1 \in cqci..(cqci + CqSize - 1) /\ cqci + k - 1 # cqpi
          BY <2>2, <4>3, CqAssumption
        <5> QED BY <4>1, <4>2, <5>1 DEF A, B
      <4>5. B(n + 1) = Completion(e)
        <5>1. cqci' + (n + 1) - 1 = cqpi
          BY <2>2, <4>1
        <5> QED BY <4>2, <5>1 DEF B
      <4>6. Completion(e) = c
        BY DEF Completion
      <4> HIDE DEF e, c, n
      <4>7. Q' = Append(Q, c) /\ Len(Q) = n
        <5>1. Q = [k \in 1..n |-> A(k)] /\ Q \in [1..n -> S]
          BY <2>4 DEF n
        <5>2. Q' = [k \in 1..(n + 1) |-> B(k)] /\ Q' \in [1..(n + 1) -> S]
          BY <2>5, <4>3
        <5>3. \A k \in 1..n : Q'[k] = Q[k]
          BY <4>3, <4>4, <5>1, <5>2
        <5>4. Q'[n + 1] = c
          BY <4>3, <4>5, <4>6, <5>2
        <5>5. Q' = Append(Q, Q'[n + 1]) /\ Len(Q) = n
          <6>1. n \in Nat /\ Q \in [1..n -> S] /\ Q' \in [1..(n + 1) -> S]
            BY <4>3, <5>1, <5>2
          <6> QED BY <5>3, <6>1, AppendTo, Zenon
        <5> QED BY <5>4, <5>5
      <4>8. c \in [op : {"ok", "err"}, pos : Positions]
        BY DEF c
      <4>9. Fifo!Make(c)
        BY <3>2, <4>1, <4>3, <4>7 DEF Fifo!Make, Q
      <4> QED BY <4>8, <4>9 DEF Fifo!FifoNext
    <3> QED BY <3>1, <3>2
  <2>7. ASSUME NEW update \in BOOLEAN, PollCqe(update)
        PROVE  Fifo!FifoNext
    <3>1. cqci < cqpi
      BY <1>2, <2>7, CqPollExact DEF PollExact, PollCqe
    <3>2. cqci' = cqci + 1 /\ UNCHANGED <<cqring, cqpi, cqdead>>
      BY <2>7 DEF PollCqe
    <3> DEFINE n == cqpi - cqci
    <3>3. n \in Nat \ {0} /\ cqpi' - cqci' = n - 1
      BY <2>2, <3>1, <3>2
    <3>4. ASSUME NEW k \in 1..(n - 1)
          PROVE  B(k) = A(k + 1)
      <4>1. (cqci + 1) + k - 1 = cqci + (k + 1) - 1
        BY <2>2, <3>3
      <4> QED BY <3>2, <4>1 DEF A, B
    <3>5. Q' = Tail(Q) /\ Q # <<>>
      <4> HIDE DEF n
      <4>1. Q = [k \in 1..n |-> A(k)] /\ Q \in [1..n -> S]
        BY <2>4 DEF n
      <4>2. Q' = [k \in 1..(n - 1) |-> B(k)] /\ Q' \in [1..(n - 1) -> S]
        BY <2>5, <3>3
      <4>3. \A k \in 1..(n - 1) : Q'[k] = Q[k + 1]
        <5> SUFFICES ASSUME NEW k \in 1..(n - 1) PROVE Q'[k] = Q[k + 1]
          OBVIOUS
        <5>1. k + 1 \in 1..n
          BY <3>3
        <5> QED BY <3>4, <4>1, <4>2, <5>1
      <4>4. n \in Nat \ {0} /\ Q \in [1..n -> S] /\ Q' \in [1..(n - 1) -> S]
        BY <3>3, <4>1, <4>2
      <4> QED BY <4>3, <4>4, TailOf, Zenon
    <3> QED BY <3>2, <3>5 DEF Fifo!FifoNext, Fifo!Take, Q
  <2>8. CASE CqUpdateConsumer \/ UNCHANGED cqvars
    BY <2>8 DEF CqUpdateConsumer, cqvars, Fifo!fvars, Q
  <2> QED BY <1>2, <2>6, <2>7, <2>8 DEF CqNext
<1> QED BY <1>1, <1>2, CqInvariant, PTL DEF CqSpec, ImplementsFifo, Fifo!FifoSpec
===============================================================================
