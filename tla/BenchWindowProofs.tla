--------------------------- MODULE BenchWindowProofs ---------------------------
(***************************************************************************)
(* The send window of raw-bench, for every count, window, number of queues *)
(* and burst, and any number of faults: the books of the window balance,   *)
(* every reply is counted once, and a run without faults fails only when   *)
(* raw-echo closed its device on answers it had counted.                   *)
(*                                                                         *)
(* BenchInv is the inductive invariant.  Its heart is Books, which says of *)
(* every frame what the slot table and the counters know of it; the proofs *)
(* below show that filling the window (BooksFill) and handling one frame   *)
(* of a burst (BooksFrame) keep the books, and that a burst is one frame   *)
(* after the other (BurstRuns).  Delivery follows each frame of a run      *)
(* without faults from the wire to the reply.                              *)
(***************************************************************************)
EXTENDS BenchWindow, RingArithmetic, FiniteSetTheorems, SequenceTheorems

(***************************************************************************)
(* The frames a table of slots waits for.                                  *)
(***************************************************************************)
Pending(t) == {t[i] : i \in DOMAIN t} \ {Free}

(***************************************************************************)
(* The books of a windowed run: t is the table, f the frames in flight, r  *)
(* the replies received, c how often each was counted, n the frames sent.  *)
(* A frame that was sent and is no longer in the table was counted once.   *)
(***************************************************************************)
Books(t, f, r, c, n) ==
  /\ t \in [0..(window - 1) -> Seqs \union {Free}]
  /\ c \in [Seqs -> Nat]
  /\ r \in Nat /\ f \in Nat
  /\ \A i \in 0..(window - 1) : t[i] = Free \/ t[i] % window = i
  /\ Pending(t) \subseteq (n - window)..(n - 1)
  /\ f = Cardinality(Pending(t))
  /\ n = r + f
  /\ \A s \in Seqs : s < n /\ s \notin Pending(t) => c[s] = 1
  /\ \A s \in Seqs : n <= s \/ s \in Pending(t) => c[s] = 0

\* What can be in a receive queue.
Frames == Seqs \union {Noise}

BenchTypes ==
  /\ window \in 1..MaxWindow
  /\ nq \in 1..MaxQueues
  /\ timed \in BOOLEAN
  /\ echo_count \in {Count, Count + 1}
  /\ pc \in Ended \union {"fill", "poll", "send", "await"}
  /\ pc \in {"fill", "poll"} => window > 1
  /\ pc \in {"send", "await"} => window = 1
  /\ sent \in 0..Count
  /\ received \in Nat
  /\ cursor \in 0..(nq - 1)
  /\ echo \in {"on", "closing", "closed"}
  /\ echoed \in Nat
  /\ wire \subseteq 0..(sent - 1)
  /\ posted \subseteq Seqs
  /\ dropped \subseteq Seqs
  /\ rxq \in [0..(nq - 1) -> Seq(Frames)]
  /\ counted \in [Seqs -> Nat]
  /\ faults \in Nat

(***************************************************************************)
(* What holds of each of the two loops where it is.                        *)
(***************************************************************************)
Windowed ==
  window > 1 =>
    /\ \A s \in Seqs : counted[s] <= 1
    /\ pc # "failed" => Books(slots, inflight, received, counted, sent)
    /\ pc \in {"fill", "poll"} => received < Count
    /\ pc = "poll" => inflight > 0
    /\ pc = "ok" => received >= Count

StopAndWait ==
  /\ pc = "send" => sent < Count
  /\ pc = "await" => sent > 0

(***************************************************************************)
(* A run without a fault whose polls end in time and see every queue.      *)
(***************************************************************************)
Orderly == faults = 0 /\ (window > 1 \/ (nq = 1 /\ timed))

\* The frames raw-bench waits for a reply to.
Owed == IF window > 1 THEN Waiting ELSE IF pc = "await" THEN {sent - 1} ELSE {}

InQueue(s) == \E q \in DOMAIN rxq : \E k \in DOMAIN rxq[q] : rxq[q][k] = s

(***************************************************************************)
(* In such a run raw-echo has received what is not on the wire, ends only  *)
(* when it has answered --count frames, and no reply is missing except     *)
(* those it closed its device on.                                          *)
(***************************************************************************)
Delivery ==
  Orderly =>
    /\ sent = echoed + Cardinality(wire)
    /\ echo # "on" => echoed = echo_count
    /\ echo # "closed" => dropped = {}
    /\ pc # "failed" =>
         \A s \in Owed : s \in wire \union posted \union dropped \/ InQueue(s)
    /\ pc = "failed" => dropped # {} /\ echo_count = Count

BenchInv == BenchTypes /\ Windowed /\ StopAndWait /\ Delivery

-------------------------------------------------------------------------------
(***************************************************************************)
(* The operators of the model.                                             *)
(***************************************************************************)

\* A bounded set of numbers has a least element, and Min finds it.
LEMMA MinOfSet ==
  ASSUME NEW S \in SUBSET Nat, S # {}
  PROVE  Min(S) \in S /\ \A y \in S : Min(S) <= y
<1>1. PICK x \in S : \A y \in S : ~(<<y, x>> \in OpToRel(<, Nat))
  BY WFMin, NatLessThanWellFounded
<1>2. ASSUME NEW y \in S PROVE x =< y
  <2>1. x \in Nat /\ y \in Nat
    OBVIOUS
  <2>2. ~(y < x)
    BY <1>1, <2>1 DEF OpToRel
  <2> QED BY <2>1, <2>2
<1>3. \E z \in S : \A y \in S : z =< y
  BY <1>2
<1> QED BY <1>3, Zenon DEF Min

\* And one below a bound a greatest, which Max finds.
LEMMA MaxOfSet ==
  ASSUME NEW b \in Nat, NEW S \in SUBSET (0..b), S # {}
  PROVE  Max(S) \in S /\ \A y \in S : y <= Max(S)
<1> DEFINE T == {n \in Nat : b - n \in S}
<1>1. T \in SUBSET Nat
  OBVIOUS
<1>2. T # {}
  <2>1. PICK y \in S : TRUE
    OBVIOUS
  <2>2. y \in 0..b
    OBVIOUS
  <2>3. b - y \in Nat /\ b - (b - y) = y
    BY <2>2
  <2> QED BY <2>3
<1>3. Min(T) \in T /\ \A n \in T : Min(T) <= n
  BY <1>1, <1>2, MinOfSet
<1> DEFINE m == Min(T)
<1> HIDE DEF m
<1>4. m \in Nat /\ b - m \in S
  BY <1>3 DEF m
<1>5. ASSUME NEW y \in S PROVE b - m >= y
  <2>1. y \in 0..b
    OBVIOUS
  <2>2. b - y \in Nat /\ b - (b - y) = y
    BY <2>1
  <2>3. b - y \in T
    BY <2>2
  <2>4. m <= b - y
    BY <1>3, <2>3 DEF m
  <2> QED BY <1>4, <2>1, <2>4
<1>6. \E x \in S : \A y \in S : x >= y
  BY <1>4, <1>5
<1>7. Max(S) \in S /\ \A y \in S : Max(S) >= y
  BY <1>6, Zenon DEF Max
<1> DEFINE g == Max(S)
<1> HIDE DEF g
<1>8. g \in 0..b /\ \A y \in S : g >= y
  BY <1>7 DEF g
<1>9. \A y \in S : y <= g
  BY <1>8
<1> QED BY <1>7, <1>9 DEF g

\* The smaller of two numbers.
LEMMA MinTwo ==
  ASSUME NEW a \in Int, NEW b \in Int
  PROVE  Min({a, b}) = IF a <= b THEN a ELSE b
<1> DEFINE S == {a, b}
<1>1. \E x \in S : \A y \in S : x =< y
  OBVIOUS
<1>2. Min(S) \in S /\ \A y \in S : Min(S) =< y
  BY <1>1, Zenon DEF Min
<1> QED BY <1>2

\* The smallest of three.
LEMMA MinThree ==
  ASSUME NEW a \in Int, NEW b \in Int, NEW c \in Int
  PROVE  /\ Min({a, b, c}) \in {a, b, c}
         /\ Min({a, b, c}) <= a /\ Min({a, b, c}) <= b /\ Min({a, b, c}) <= c
<1> DEFINE S == {a, b, c}
<1>1. \E x \in S : \A y \in S : x =< y
  OBVIOUS
<1>2. Min(S) \in S /\ \A y \in S : Min(S) =< y
  BY <1>1, Zenon DEF Min
<1> QED BY <1>2

\* The constants.
LEMMA Constants ==
  /\ Count \in Nat /\ Count > 0 /\ MaxWindow \in Nat /\ MaxQueues \in Nat
  /\ RxBurst \in Nat /\ RxBurst > 0 /\ MaxFaults \in Nat
BY BenchAssumption

-------------------------------------------------------------------------------
(***************************************************************************)
(* The books.                                                              *)
(***************************************************************************)

\* A frame the table waits for is in the slot of its number.
LEMMA PendingHome ==
  ASSUME window \in Nat \ {0},
         NEW t \in [0..(window - 1) -> Seqs \union {Free}],
         \A i \in 0..(window - 1) : t[i] = Free \/ t[i] % window = i,
         NEW s \in Pending(t)
  PROVE  /\ s \in Seqs /\ s \in Nat /\ s # Free
         /\ s % window \in 0..(window - 1)
         /\ t[s % window] = s
<1>1. PICK i \in 0..(window - 1) : t[i] = s
  BY DEF Pending
<1>2. s # Free
  BY DEF Pending
<1>3. s \in Seqs /\ s \in Nat
  BY <1>1, <1>2, Constants DEF Seqs
<1>4. s % window = i
  BY <1>1, <1>2
<1> QED BY <1>1, <1>2, <1>3, <1>4

\* What is in the slot of its number is waited for.
LEMMA HomePending ==
  ASSUME NEW t \in [0..(window - 1) -> Seqs \union {Free}],
         NEW i \in 0..(window - 1), t[i] # Free
  PROVE  t[i] \in Pending(t)
BY DEF Pending

\* At most window frames are waited for.
LEMMA PendingFits ==
  ASSUME window \in Nat \ {0}, NEW n \in Int, NEW P \in SUBSET ((n - window)..(n - 1))
  PROVE  IsFiniteSet(P) /\ Cardinality(P) \in Nat /\ Cardinality(P) <= window
<1> DEFINE W == (n - window)..(n - 1)
<1>1. n - window \in Int /\ n - 1 \in Int /\ ~(n - window > n - 1)
      /\ (n - 1) - (n - window) + 1 = window
  OBVIOUS
<1>2. IsFiniteSet(W) /\ Cardinality(W) = window
  BY <1>1, FS_Interval
<1> HIDE DEF W
<1>3. P \in SUBSET W
  BY DEF W
<1>4. IsFiniteSet(P) /\ Cardinality(P) <= Cardinality(W)
  BY <1>2, <1>3, FS_Subset
<1>5. Cardinality(P) \in Nat
  BY <1>4, FS_CardinalityType
<1> QED BY <1>2, <1>4, <1>5

\* A reply to a frame in its slot frees the slot and is counted.
LEMMA BooksReply ==
  ASSUME window \in Nat \ {0}, NEW n \in Int, NEW t, NEW f, NEW r, NEW c,
         Books(t, f, r, c, n), NEW s \in Seqs, t[s % window] = s
  PROVE  /\ Books([t EXCEPT ![s % window] = Free], f - 1, r + 1,
                  [c EXCEPT ![s] = @ + 1], n)
         /\ Pending([t EXCEPT ![s % window] = Free]) = Pending(t) \ {s}
<1> DEFINE i == s % window
           u == [t EXCEPT ![i] = Free]
           d == [c EXCEPT ![s] = @ + 1]
<1>0. s \in Nat /\ s # Free /\ s < Count /\ Count \in Nat
  BY Constants DEF Seqs, Free
<1>1. i \in 0..(window - 1)
  BY <1>0, DivMod
<1>2. /\ t \in [0..(window - 1) -> Seqs \union {Free}]
      /\ c \in [Seqs -> Nat] /\ r \in Nat /\ f \in Nat
      /\ \A j \in 0..(window - 1) : t[j] = Free \/ t[j] % window = j
      /\ Pending(t) \subseteq (n - window)..(n - 1)
      /\ f = Cardinality(Pending(t))
      /\ n = r + f
  BY DEF Books
<1>3. t[i] = s
  OBVIOUS
<1>4. i = s % window
  OBVIOUS
<1> HIDE DEF i
<1>5. s \in Pending(t)
  BY <1>0, <1>1, <1>2, <1>3, HomePending
<1>6. u \in [0..(window - 1) -> Seqs \union {Free}]
  BY <1>1, <1>2
<1>7. u[i] = Free /\ \A j \in 0..(window - 1) : j # i => u[j] = t[j]
  BY <1>1, <1>2
<1>8. d \in [Seqs -> Nat] /\ d[s] = c[s] + 1 /\ \A x \in Seqs : x # s => d[x] = c[x]
  BY <1>2
<1> HIDE DEF u, d
<1>9. Pending(u) = Pending(t) \ {s}
  <2>1. ASSUME NEW x \in Pending(u) PROVE x \in Pending(t) \ {s}
    <3>1. PICK j \in 0..(window - 1) : x = u[j]
      BY <1>6 DEF Pending
    <3>2. x # Free
      BY DEF Pending
    <3>3. j # i /\ x = t[j]
      BY <1>7, <3>1, <3>2
    <3>4. x % window = j
      BY <1>2, <3>2, <3>3
    <3>5. x # s
      BY <1>4, <3>3, <3>4
    <3> QED BY <1>2, <3>2, <3>3, <3>5, HomePending
  <2>2. ASSUME NEW x \in Pending(t), x # s PROVE x \in Pending(u)
    <3>1. x # Free /\ x % window \in 0..(window - 1) /\ t[x % window] = x
      BY <1>2, PendingHome
    <3>2. x % window # i
      BY <1>3, <2>2, <3>1
    <3>3. u[x % window] = x
      BY <1>7, <3>1, <3>2
    <3> QED BY <1>6, <3>1, <3>3, HomePending
  <2> QED BY <2>1, <2>2
<1>10. IsFiniteSet(Pending(t))
  BY <1>2, PendingFits
<1>11. Cardinality(Pending(u)) = f - 1 /\ f - 1 \in Nat
  <2>1. Cardinality(Pending(t) \ {s}) = Cardinality(Pending(t)) - 1
        /\ IsFiniteSet(Pending(t) \ {s})
    BY <1>5, <1>10, FS_RemoveElement
  <2>2. Cardinality(Pending(t) \ {s}) \in Nat
    BY <2>1, FS_CardinalityType
  <2> QED BY <1>2, <1>9, <2>1, <2>2
<1>12. \A j \in 0..(window - 1) : u[j] = Free \/ u[j] % window = j
  BY <1>2, <1>7
<1>13. s < n /\ c[s] = 0
  BY <1>2, <1>5 DEF Books
<1>14. \A x \in Seqs : x < n /\ x \notin Pending(u) => d[x] = 1
  <2> TAKE x \in Seqs
  <2>1. CASE x = s
    BY <1>8, <1>13, <2>1
  <2>2. CASE x # s
    <3>1. x < n /\ x \notin Pending(t) => c[x] = 1
      BY DEF Books
    <3> QED BY <1>8, <1>9, <2>2, <3>1
  <2> QED BY <2>1, <2>2
<1>15. \A x \in Seqs : n <= x \/ x \in Pending(u) => d[x] = 0
  <2> TAKE x \in Seqs
  <2>0. x \in Int /\ s \in Int
    BY <1>0, Constants DEF Seqs
  <2>1. CASE x = s
    BY <1>9, <1>13, <2>0, <2>1
  <2>2. CASE x # s
    <3>1. n <= x \/ x \in Pending(t) => c[x] = 0
      BY DEF Books
    <3> QED BY <1>8, <1>9, <2>2, <3>1
  <2> QED BY <2>1, <2>2
<1>16. Pending(u) \subseteq (n - window)..(n - 1)
  BY <1>2, <1>9
<1>17. r + 1 \in Nat /\ n = (r + 1) + (f - 1)
  BY <1>2
<1>18. Books(u, f - 1, r + 1, d, n)
  BY <1>6, <1>8, <1>11, <1>12, <1>14, <1>15, <1>16, <1>17 DEF Books
<1> QED BY <1>9, <1>18 DEF u, d, i

-------------------------------------------------------------------------------
(***************************************************************************)
(* A burst.                                                                *)
(***************************************************************************)

\* One frame of a burst keeps the books, and is not waited for afterwards.
LEMMA BooksFrame ==
  ASSUME window \in Nat \ {0}, NEW n \in Int, NEW st,
         Books(st.slots, st.inflight, st.received, st.counted, n),
         NEW x \in Seqs \union {Noise}, NEW h, h = HandleFrame(st, x)
  PROVE  /\ Books(h.slots, h.inflight, h.received, h.counted, n)
         /\ Pending(h.slots) \subseteq Pending(st.slots)
         /\ x \notin Pending(h.slots)
<1>0. /\ st.slots \in [0..(window - 1) -> Seqs \union {Free}]
      /\ \A j \in 0..(window - 1) : st.slots[j] = Free \/ st.slots[j] % window = j
  BY DEF Books
<1>1. CASE SlotFind(st.slots, x)
  <2>1. x \in Seqs /\ st.slots[x % window] = x
    BY <1>1 DEF SlotFind
  <2>2. /\ h.slots = [st.slots EXCEPT ![x % window] = Free]
        /\ h.inflight = st.inflight - 1
        /\ h.received = st.received + 1
        /\ h.counted = [st.counted EXCEPT ![x] = @ + 1]
    BY <1>1 DEF HandleFrame
  <2>3. /\ Books([st.slots EXCEPT ![x % window] = Free], st.inflight - 1,
                 st.received + 1, [st.counted EXCEPT ![x] = @ + 1], n)
        /\ Pending([st.slots EXCEPT ![x % window] = Free]) = Pending(st.slots) \ {x}
    BY <2>1, BooksReply
  <2> QED BY <2>2, <2>3
<1>2. CASE ~SlotFind(st.slots, x)
  <2>1. h = st
    BY <1>2 DEF HandleFrame
  <2>2. ASSUME x \in Pending(st.slots) PROVE FALSE
    <3>1. x \in Nat /\ st.slots[x % window] = x
      BY <1>0, <2>2, PendingHome
    <3> QED BY <1>2, <3>1 DEF SlotFind, Noise
  <2> QED BY <2>1, <2>2
<1> QED BY <1>1, <1>2

\* The equation behind HandleBurst.
Handles(q, a, k) ==
  IF k = 0
  THEN [slots |-> slots, inflight |-> inflight, received |-> received,
        counted |-> counted]
  ELSE HandleFrame(a[k - 1], rxq[q][k])

\* The recursive function in HandleBurst exists.
LEMMA BurstEquation ==
  ASSUME NEW q, NEW n \in Nat
  PROVE  \E a : a = [k \in 0..n |-> Handles(q, a, k)]
<1> DEFINE T == {m \in Nat : \E a : a = [k \in 0..m |-> Handles(q, a, k)]}
<1>1. 0 \in T
  <2> DEFINE z == [k \in 0..0 |-> Handles(q, <<>>, 0)]
  <2>1. \A k \in 0..0 : Handles(q, z, k) = Handles(q, <<>>, 0)
    BY DEF Handles
  <2>2. z = [k \in 0..0 |-> Handles(q, z, k)]
    BY <2>1, Zenon
  <2> HIDE DEF z
  <2>3. \E a : a = [k \in 0..0 |-> Handles(q, a, k)]
    BY <2>2
  <2> QED BY <2>3
<1>2. ASSUME NEW m \in Nat, m \in T
      PROVE  m + 1 \in T
  <2>1. PICK a : a = [k \in 0..m |-> Handles(q, a, k)]
    BY <1>2
  <2> DEFINE g == [k \in 0..(m + 1) |-> Handles(q, a, k)]
  <2>2. ASSUME NEW k \in 0..m PROVE g[k] = a[k]
    <3>1. a[k] = Handles(q, a, k)
      BY <2>1
    <3>2. k \in 0..(m + 1)
      OBVIOUS
    <3> QED BY <3>1, <3>2
  <2>3. ASSUME NEW k \in 0..(m + 1) PROVE Handles(q, a, k) = Handles(q, g, k)
    <3> HIDE DEF g
    <3>1. CASE k = 0
      BY <3>1, Zenon DEF Handles
    <3>2. CASE k # 0
      <4>1. k - 1 \in 0..m
        BY <3>2
      <4>2. g[k - 1] = a[k - 1]
        BY <4>1, <2>2
      <4> QED BY <4>2, Zenon DEF Handles
    <3> QED BY <3>1, <3>2
  <2>4. g = [k \in 0..(m + 1) |-> Handles(q, g, k)]
    BY <2>3, Zenon
  <2> HIDE DEF g
  <2>5. \E h : h = [k \in 0..(m + 1) |-> Handles(q, h, k)]
    BY <2>4
  <2> QED BY <2>5
<1> HIDE DEF T
<1>3. Nat \subseteq T
  BY <1>1, <1>2, SetInduction
<1> QED BY <1>3 DEF T

\* A burst is handled one frame after the other.
LEMMA BurstRuns ==
  ASSUME NEW q, Take(q) \in Nat
  PROVE  \E a : /\ a[0] = [slots |-> slots, inflight |-> inflight,
                           received |-> received, counted |-> counted]
                /\ \A k \in 1..Take(q) : a[k] = HandleFrame(a[k - 1], rxq[q][k])
                /\ HandleBurst(q) = a[Take(q)]
<1> DEFINE n == Take(q)
           P(a) == a = [k \in 0..n |-> Handles(q, a, k)]
           F == CHOOSE a : P(a)
<1>1. P(F)
  <2>1. \E a : P(a)
    BY BurstEquation, Zenon
  <2> QED BY <2>1, Zenon
<1>2. HandleBurst(q) = F[n]
  BY Zenon DEF HandleBurst, Handles
<1> HIDE DEF F
<1>3. \A k \in 0..n : F[k] = Handles(q, F, k)
  BY <1>1, Zenon
<1>4. n \in Nat
  OBVIOUS
<1> HIDE DEF n
<1>5. 0 \in 0..n
  BY <1>4
<1>6. F[0] = [slots |-> slots, inflight |-> inflight,
              received |-> received, counted |-> counted]
  BY <1>3, <1>5, Zenon DEF Handles
<1>7. ASSUME NEW k \in 1..n PROVE F[k] = HandleFrame(F[k - 1], rxq[q][k])
  <2>1. k # 0 /\ k \in 0..n
    BY <1>4
  <2> QED BY <1>3, <2>1, Zenon DEF Handles
<1>8. \A k \in 1..n : F[k] = HandleFrame(F[k - 1], rxq[q][k])
  BY <1>7
<1> QED BY <1>2, <1>6, <1>8, Zenon DEF n

\* So a burst keeps the books, and none of its frames is waited for any more.
LEMMA BooksBurst ==
  ASSUME window \in Nat \ {0}, sent \in Int,
         Books(slots, inflight, received, counted, sent),
         NEW q, rxq[q] \in Seq(Seqs \union {Noise}), Take(q) \in 0..Len(rxq[q]),
         NEW h, h = HandleBurst(q)
  PROVE  /\ Books(h.slots, h.inflight, h.received, h.counted, sent)
         /\ Pending(h.slots) \subseteq Pending(slots)
         /\ \A k \in 1..Take(q) : rxq[q][k] \notin Pending(h.slots)
<1> DEFINE n == Take(q)
<1>0. n \in Nat /\ n \in 0..Len(rxq[q]) /\ Len(rxq[q]) \in Nat
  OBVIOUS
<1>1. PICK a : /\ a[0] = [slots |-> slots, inflight |-> inflight,
                          received |-> received, counted |-> counted]
               /\ \A k \in 1..n : a[k] = HandleFrame(a[k - 1], rxq[q][k])
               /\ h = a[n]
  BY <1>0, BurstRuns
<1>2. ASSUME NEW k \in 1..n PROVE rxq[q][k] \in Seqs \union {Noise}
  <2>1. k \in 1..Len(rxq[q])
    BY <1>0
  <2> QED BY <2>1, ElementOfSeq
<1> HIDE DEF n
<1> DEFINE Good(m) ==
             /\ Books(a[m].slots, a[m].inflight, a[m].received, a[m].counted, sent)
             /\ Pending(a[m].slots) \subseteq Pending(slots)
             /\ \A k \in 1..m : rxq[q][k] \notin Pending(a[m].slots)
           T == {m \in Nat : m <= n => Good(m)}
<1>3. 0 \in T
  <2>1. /\ a[0].slots = slots /\ a[0].inflight = inflight
        /\ a[0].received = received /\ a[0].counted = counted
    BY <1>1
  <2>2. Good(0)
    BY <2>1
  <2> QED BY <2>2
<1>4. ASSUME NEW m \in Nat, m \in T PROVE m + 1 \in T
  <2> SUFFICES ASSUME m + 1 <= n PROVE Good(m + 1)
    OBVIOUS
  <2> DEFINE st == a[m]
             g == a[m + 1]
             x == rxq[q][m + 1]
  <2>0. Good(m)
    BY <1>0, <1>4
  <2>1. m + 1 \in 1..n /\ (m + 1) - 1 = m
    BY <1>0
  <2>2. g = HandleFrame(st, x)
    BY <1>1, <2>1
  <2>3. x \in Seqs \union {Noise}
    BY <1>2, <2>1
  <2>4. Books(st.slots, st.inflight, st.received, st.counted, sent)
    BY <2>0
  <2>5. /\ Pending(st.slots) \subseteq Pending(slots)
        /\ \A k \in 1..m : rxq[q][k] \notin Pending(st.slots)
    BY <2>0
  <2> HIDE DEF st, g, x
  <2>6. /\ Books(g.slots, g.inflight, g.received, g.counted, sent)
        /\ Pending(g.slots) \subseteq Pending(st.slots)
        /\ x \notin Pending(g.slots)
    BY <2>2, <2>3, <2>4, BooksFrame
  <2>7. ASSUME NEW k \in 1..(m + 1) PROVE rxq[q][k] \notin Pending(g.slots)
    <3>1. CASE k = m + 1
      BY <2>6, <3>1 DEF x
    <3>2. CASE k # m + 1
      <4>1. k \in 1..m
        BY <3>2
      <4> QED BY <2>5, <2>6, <4>1
    <3> QED BY <3>1, <3>2
  <2>8. Pending(g.slots) \subseteq Pending(slots)
    BY <2>5, <2>6
  <2> QED BY <2>6, <2>7, <2>8 DEF g
<1> HIDE DEF T
<1>5. Nat \subseteq T
  BY <1>3, <1>4, SetInduction
<1>6. n \in T
  BY <1>0, <1>5
<1>7. Good(n)
  BY <1>0, <1>6 DEF T
<1> QED BY <1>1, <1>7 DEF n

-------------------------------------------------------------------------------
(***************************************************************************)
(* Filling the window.                                                     *)
(***************************************************************************)

\* The batch fits into the window, the count and the free slots, and is not
\* empty if the next frame does.
LEMMA BatchFits ==
  ASSUME window \in Nat \ {0}, sent \in 0..Count, inflight \in Nat, inflight <= window
  PROVE  /\ Batch \in Nat /\ Batch <= window - inflight /\ sent + Batch <= Count
         /\ \A k \in 0..(Batch - 1) : SlotAlloc(sent + k)
         /\ SlotAlloc(sent) /\ inflight < window /\ sent < Count => Batch > 0
<1> DEFINE a == window - inflight
           b == Count - sent
           m == Min({a, b})
           S == {n \in 0..m : \A k \in 0..(n - 1) : SlotAlloc(sent + k)}
<1>1. a \in Nat /\ b \in Nat /\ sent \in Nat /\ Count \in Nat
  BY Constants
<1>2. m = IF a <= b THEN a ELSE b
  BY <1>1, MinTwo
<1>3. Batch = Max(S)
  BY DEF Batch
<1>4. sent + b = Count
  BY <1>1
<1>5. (inflight < window => a > 0) /\ (sent < Count => b > 0)
  BY <1>1
<1> HIDE DEF a, b, m
<1>6. m \in Nat /\ m <= a /\ m <= b /\ (a > 0 /\ b > 0 => m > 0)
  BY <1>1, <1>2
<1>7. 0 \in S
  <2>1. 0 \in 0..m /\ \A k \in 0..(0 - 1) : SlotAlloc(sent + k)
    BY <1>6
  <2> QED BY <2>1
<1>8. Max(S) \in S /\ \A y \in S : y <= Max(S)
  <2>1. S \in SUBSET (0..m) /\ S # {}
    BY <1>7
  <2> HIDE DEF S
  <2> QED BY <1>6, <2>1, MaxOfSet
<1> DEFINE n == Max(S)
<1>9. n \in 0..m /\ \A k \in 0..(n - 1) : SlotAlloc(sent + k)
  BY <1>8
<1>10. ASSUME SlotAlloc(sent), inflight < window, sent < Count PROVE n > 0
  <2>1. 1 \in 0..m
    BY <1>5, <1>6, <1>10
  <2>2. ASSUME NEW k \in 0..(1 - 1) PROVE SlotAlloc(sent + k)
    <3>1. sent + k = sent
      BY <1>1
    <3> QED BY <1>10, <3>1
  <2>3. 1 \in S
    BY <2>1, <2>2
  <2>4. 1 <= n
    BY <1>8, <2>3
  <2> HIDE DEF n
  <2> QED BY <1>6, <1>9, <2>4
<1> HIDE DEF n
<1>11. n \in Nat /\ n <= a /\ sent + n <= Count
  BY <1>1, <1>4, <1>6, <1>9
<1>12. Batch = n
  BY <1>3 DEF n
<1> QED BY <1>9, <1>10, <1>11, <1>12 DEF a

\* What Filled puts into a slot.
LEMMA FilledSlot ==
  ASSUME NEW n, NEW i \in DOMAIN slots
  PROVE  /\ DOMAIN Filled(n) = DOMAIN slots
         /\ (\E s \in sent..(sent + n - 1) : s % window = i)
              => Filled(n)[i] \in sent..(sent + n - 1) /\ Filled(n)[i] % window = i
         /\ ~(\E s \in sent..(sent + n - 1) : s % window = i) => Filled(n)[i] = slots[i]
<1> DEFINE new == sent..(sent + n - 1)
           c == CHOOSE s \in new : s % window = i
<1>1. Filled(n)[i] = IF \E s \in new : s % window = i THEN c ELSE slots[i]
  BY Zenon DEF Filled
<1>2. (\E s \in new : s % window = i) => c \in new /\ c % window = i
  BY Zenon
<1>3. DOMAIN Filled(n) = DOMAIN slots
  BY DEF Filled
<1> HIDE DEF new, c
<1>4. CASE \E s \in new : s % window = i
  BY <1>1, <1>2, <1>3, <1>4, Zenon DEF new
<1>5. CASE ~(\E s \in new : s % window = i)
  BY <1>1, <1>3, <1>5, Zenon DEF new
<1> QED BY <1>4, <1>5

\* The books once the next n frames are in their slots.
LEMMA BooksFill ==
  ASSUME window \in Nat \ {0}, sent \in 0..Count,
         Books(slots, inflight, received, counted, sent),
         NEW n \in Nat, n <= window - inflight, sent + n <= Count,
         \A k \in 0..(n - 1) : SlotAlloc(sent + k)
  PROVE  /\ Books(Filled(n), inflight + n, received, counted, sent + n)
         /\ Pending(Filled(n)) = Pending(slots) \union (sent..(sent + n - 1))
<1> DEFINE u == Filled(n)
           new == sent..(sent + n - 1)
           Old == Pending(slots)
<1>0. /\ slots \in [0..(window - 1) -> Seqs \union {Free}]
      /\ counted \in [Seqs -> Nat] /\ received \in Nat /\ inflight \in Nat
      /\ \A j \in 0..(window - 1) : slots[j] = Free \/ slots[j] % window = j
      /\ Old \subseteq (sent - window)..(sent - 1)
      /\ inflight = Cardinality(Old)
      /\ sent = received + inflight
  BY DEF Books
<1>1. sent \in Nat /\ Count \in Nat /\ n <= window
  BY <1>0, Constants
<1>2. DOMAIN slots = 0..(window - 1)
  BY <1>0
<1>3. ASSUME NEW s \in new
      PROVE  /\ s \in Nat /\ s \in Seqs /\ s # Free /\ sent <= s /\ s < sent + n
             /\ s % window \in 0..(window - 1) /\ slots[s % window] = Free
  <2>1. s \in Nat /\ s < Count /\ s - sent \in 0..(n - 1) /\ sent + (s - sent) = s
        /\ sent <= s /\ s < sent + n
    BY <1>1, <1>3
  <2>2. s % window \in 0..(window - 1)
    BY <2>1, DivMod
  <2>3. SlotAlloc(sent + (s - sent))
    BY <2>1
  <2>4. slots[s % window] = Free
    BY <2>1, <2>3 DEF SlotAlloc
  <2>5. s \in Seqs /\ s # Free
    BY <1>1, <2>1 DEF Seqs, Free
  <2> QED BY <2>1, <2>2, <2>4, <2>5
<1>4. ASSUME NEW i \in 0..(window - 1)
      PROVE  \/ u[i] \in new /\ u[i] % window = i
             \/ u[i] = slots[i] /\ \A s \in new : s % window # i
  BY <1>2, FilledSlot
<1>5. DOMAIN u = 0..(window - 1)
  BY <1>2, FilledSlot, Zenon DEF Filled
<1>6. u \in [0..(window - 1) -> Seqs \union {Free}]
  <2>1. ASSUME NEW i \in 0..(window - 1) PROVE u[i] \in Seqs \union {Free}
    <3>1. CASE u[i] \in new
      BY <1>3, <3>1
    <3>2. CASE u[i] = slots[i]
      BY <1>0, <3>2
    <3> QED BY <1>4, <3>1, <3>2
  <2>2. u = [i \in 0..(window - 1) |-> u[i]]
    BY <1>2, Zenon DEF Filled
  <2> HIDE DEF u
  <2> QED BY <2>1, <2>2
<1> HIDE DEF u
<1>7. \A i \in 0..(window - 1) : u[i] = Free \/ u[i] % window = i
  BY <1>0, <1>4
<1>8. Pending(u) = Old \union new
  <2>1. ASSUME NEW x \in Pending(u) PROVE x \in Old \union new
    <3>1. PICK i \in 0..(window - 1) : x = u[i]
      BY <1>6 DEF Pending
    <3>2. x # Free
      BY DEF Pending
    <3>3. CASE u[i] \in new
      BY <3>1, <3>3
    <3>4. CASE u[i] = slots[i]
      BY <1>0, <3>1, <3>2, <3>4, HomePending
    <3> QED BY <1>4, <3>3, <3>4
  <2>2. ASSUME NEW s \in new PROVE s \in Pending(u)
    <3> DEFINE i == s % window
    <3>1. i \in 0..(window - 1) /\ s \in Nat /\ s # Free /\ sent <= s /\ s < sent + n
      BY <1>3, <2>2
    <3>2. u[i] \in new /\ u[i] % window = i
      BY <1>4, <2>2, <3>1
    <3>3. u[i] \in Nat /\ sent <= u[i] /\ u[i] < sent + n
      BY <1>3, <3>2
    <3>4. u[i] = s
      <4> DEFINE x == u[i]
      <4>0. x \in Int /\ s \in Int /\ x % window = s % window
            /\ sent <= x /\ x < sent + n /\ sent <= s /\ s < sent + n
        BY <3>1, <3>2, <3>3
      <4> HIDE DEF x
      <4>1. CASE x < s
        <5>1. s < x + window
          BY <1>1, <4>0
        <5> QED BY <4>0, <4>1, <5>1, ModDistinct
      <4>2. CASE s < x
        <5>1. x < s + window
          BY <1>1, <4>0
        <5> QED BY <4>0, <4>2, <5>1, ModDistinct
      <4>3. CASE x = s
        BY <4>3 DEF x
      <4> QED BY <4>0, <4>1, <4>2, <4>3
    <3> HIDE DEF i
    <3> QED BY <1>6, <3>1, <3>4, HomePending
  <2>3. ASSUME NEW x \in Old PROVE x \in Pending(u)
    <3>1. x # Free /\ x % window \in 0..(window - 1) /\ slots[x % window] = x
      BY <1>0, PendingHome
    <3>2. \A s \in new : s % window # x % window
      BY <1>3, <3>1
    <3>3. u[x % window] = x
      BY <1>4, <3>1, <3>2
    <3> QED BY <1>6, <3>1, <3>3, HomePending
  <2> QED BY <2>1, <2>2, <2>3
<1>9. Pending(u) \subseteq ((sent + n) - window)..((sent + n) - 1)
  <2>1. ASSUME NEW x \in new PROVE x \in ((sent + n) - window)..((sent + n) - 1)
    BY <1>1, <1>3
  <2>2. ASSUME NEW x \in Old PROVE x \in ((sent + n) - window)..((sent + n) - 1)
    <3>1. x \in Nat /\ x # Free /\ slots[x % window] = x
      BY <1>0, PendingHome
    <3>2. sent - window <= x /\ x <= sent - 1
      BY <1>0
    <3>3. CASE x < (sent + n) - window
      <4>1. x + window \in new
        BY <1>1, <3>1, <3>2, <3>3
      <4>2. (x + window) % window = x % window
        BY <3>1, ModTurn
      <4>3. slots[(x + window) % window] = Free
        BY <1>3, <4>1
      <4> QED BY <3>1, <4>2, <4>3
    <3>4. CASE ~(x < (sent + n) - window)
      BY <1>1, <3>1, <3>2, <3>4
    <3> QED BY <3>3, <3>4
  <2> QED BY <1>8, <2>1, <2>2
<1>10. Cardinality(Pending(u)) = inflight + n
  <2>1. IsFiniteSet(Old)
    <3>1. sent \in Int /\ Old \in SUBSET ((sent - window)..(sent - 1))
      BY <1>0, <1>1
    <3> HIDE DEF Old
    <3> QED BY <3>1, PendingFits
  <2>2. IsFiniteSet(new) /\ Cardinality(new) = n
    <3>1. sent \in Int /\ sent + n - 1 \in Int
      BY <1>1
    <3>2. IsFiniteSet(new)
          /\ Cardinality(new) = IF sent > sent + n - 1 THEN 0 ELSE (sent + n - 1) - sent + 1
      BY <3>1, FS_Interval
    <3> HIDE DEF new
    <3> QED BY <1>1, <3>2
  <2>3. Old \cap new = {}
    <3>1. \A x \in Old : x \in Int /\ x <= sent - 1
      BY <1>0, <1>1
    <3>2. \A x \in new : sent <= x
      BY <1>3
    <3> HIDE DEF Old, new
    <3> QED BY <1>1, <3>1, <3>2
  <2>4. Cardinality(Old \union new)
          = Cardinality(Old) + Cardinality(new) - Cardinality(Old \cap new)
    BY <2>1, <2>2, FS_Union
  <2>5. Cardinality(Old \cap new) = 0
    BY <2>3, FS_EmptySet
  <2> HIDE DEF Old, new
  <2> QED BY <1>0, <1>8, <2>2, <2>4, <2>5
<1>11. \A s \in Seqs : s < sent + n /\ s \notin Pending(u) => counted[s] = 1
  <2> SUFFICES ASSUME NEW s \in Seqs, s < sent + n, s \notin Pending(u)
               PROVE  counted[s] = 1
    OBVIOUS
  <2>1. s \in Int /\ s \notin Old /\ s \notin new
    BY <1>1, <1>8 DEF Seqs
  <2>2. s < sent
    BY <1>1, <2>1
  <2> QED BY <2>1, <2>2 DEF Books
<1>12. \A s \in Seqs : sent + n <= s \/ s \in Pending(u) => counted[s] = 0
  <2> SUFFICES ASSUME NEW s \in Seqs, sent + n <= s \/ s \in Pending(u)
               PROVE  counted[s] = 0
    OBVIOUS
  <2>0. s \in Int
    BY <1>1 DEF Seqs
  <2>1. sent <= s \/ s \in Old
    <3>1. CASE sent + n <= s
      BY <1>1, <2>0, <3>1
    <3>2. CASE s \in new
      BY <1>3, <3>2
    <3> QED BY <1>8, <3>1, <3>2
  <2> QED BY <2>1 DEF Books
<1>13. inflight + n \in Nat /\ sent + n = received + (inflight + n)
  BY <1>0
<1>14. Books(u, inflight + n, received, counted, sent + n)
  BY <1>0, <1>6, <1>7, <1>9, <1>10, <1>11, <1>12, <1>13 DEF Books
<1> QED BY <1>8, <1>14 DEF u

-------------------------------------------------------------------------------
(***************************************************************************)
(* Queues.                                                                 *)
(***************************************************************************)
\* A frame that arrives is in the queue, with what was there before.
LEMMA ArriveAdds ==
  ASSUME nq \in Nat \ {0}, rxq \in [0..(nq - 1) -> Seq(Frames)],
         NEW q \in 0..(nq - 1), NEW x \in Frames, Arrive(x, q)
  PROVE  /\ rxq' \in [0..(nq - 1) -> Seq(Frames)]
         /\ InQueue(x)'
         /\ \A s : InQueue(s) => InQueue(s)'
<1> DEFINE a == rxq[q]
           b == Append(a, x)
<1>1. a \in Seq(Frames)
  OBVIOUS
<1>2. /\ rxq' = [rxq EXCEPT ![q] = b]
      /\ DOMAIN rxq = 0..(nq - 1) /\ DOMAIN rxq' = 0..(nq - 1)
      /\ rxq'[q] = b
      /\ \A p \in 0..(nq - 1) : p # q => rxq'[p] = rxq[p]
  BY DEF Arrive
<1>3. /\ b \in Seq(Frames) /\ Len(b) = Len(a) + 1 /\ Len(a) \in Nat
      /\ \A i \in 1..Len(a) : b[i] = a[i]
      /\ b[Len(a) + 1] = x
  BY <1>1, AppendProperties
<1> HIDE DEF b
<1>4. rxq' \in [0..(nq - 1) -> Seq(Frames)]
  BY <1>2, <1>3
<1>5. Len(a) + 1 \in DOMAIN b
  BY <1>3
<1>6. InQueue(x)'
  BY <1>2, <1>3, <1>5 DEF InQueue
<1>7. ASSUME NEW s, InQueue(s) PROVE InQueue(s)'
  <2>1. PICK p \in 0..(nq - 1) : \E k \in DOMAIN rxq[p] : rxq[p][k] = s
    BY <1>2, <1>7 DEF InQueue
  <2>2. PICK k \in DOMAIN rxq[p] : rxq[p][k] = s
    BY <2>1
  <2>3. CASE p # q
    BY <1>2, <2>2, <2>3 DEF InQueue
  <2>4. CASE p = q
    <3>1. k \in 1..Len(a) /\ a[k] = s
      BY <1>1, <2>2, <2>4
    <3>2. k \in DOMAIN b /\ b[k] = s
      BY <1>3, <3>1
    <3> QED BY <1>2, <3>2 DEF InQueue
  <2> QED BY <2>3, <2>4
<1> QED BY <1>4, <1>6, <1>7

\* Frames taken from the front leave the others where they were.
LEMMA CutLeaves ==
  ASSUME nq \in Nat \ {0}, rxq \in [0..(nq - 1) -> Seq(Frames)],
         NEW q \in 0..(nq - 1), NEW m \in 0..Len(rxq[q]), NEW b,
         b \in Seq(Frames), Len(b) = Len(rxq[q]) - m,
         \A i \in 1..(Len(rxq[q]) - m) : b[i] = rxq[q][m + i],
         rxq' = [rxq EXCEPT ![q] = b]
  PROVE  /\ rxq' \in [0..(nq - 1) -> Seq(Frames)]
         /\ \A s : InQueue(s) /\ (\A k \in 1..m : rxq[q][k] # s) => InQueue(s)'
<1> DEFINE a == rxq[q]
<1>1. a \in Seq(Frames) /\ Len(a) \in Nat /\ m \in Nat
  OBVIOUS
<1>2. /\ DOMAIN rxq = 0..(nq - 1) /\ DOMAIN rxq' = 0..(nq - 1)
      /\ rxq'[q] = b
      /\ \A p \in 0..(nq - 1) : p # q => rxq'[p] = rxq[p]
  OBVIOUS
<1>3. rxq' \in [0..(nq - 1) -> Seq(Frames)]
  OBVIOUS
<1>4. ASSUME NEW s, InQueue(s), \A k \in 1..m : a[k] # s PROVE InQueue(s)'
  <2>1. PICK p \in 0..(nq - 1) : \E k \in DOMAIN rxq[p] : rxq[p][k] = s
    BY <1>2, <1>4 DEF InQueue
  <2>2. PICK k \in DOMAIN rxq[p] : rxq[p][k] = s
    BY <2>1
  <2>3. CASE p # q
    BY <1>2, <2>2, <2>3 DEF InQueue
  <2>4. CASE p = q
    <3>1. k \in 1..Len(a) /\ a[k] = s
      BY <1>1, <2>2, <2>4
    <3>2. ~(k \in 1..m)
      BY <1>4, <3>1
    <3>3. k - m \in 1..(Len(a) - m) /\ m + (k - m) = k
      BY <1>1, <3>1, <3>2
    <3>4. b[k - m] = s
      BY <3>1, <3>3
    <3>5. k - m \in DOMAIN b
      BY <3>3
    <3> QED BY <1>2, <3>4, <3>5 DEF InQueue
  <2> QED BY <2>3, <2>4
<1> QED BY <1>3, <1>4

\* The rest of a queue after a burst.
LEMMA RestOfQueue ==
  ASSUME NEW a \in Seq(Frames), NEW m \in 0..Len(a)
  PROVE  /\ SubSeq(a, m + 1, Len(a)) \in Seq(Frames)
         /\ Len(SubSeq(a, m + 1, Len(a))) = Len(a) - m
         /\ \A i \in 1..(Len(a) - m) : SubSeq(a, m + 1, Len(a))[i] = a[m + i]
<1> DEFINE n == Len(a)
           b == SubSeq(a, m + 1, n)
<1>1. n \in Nat /\ m \in Nat /\ m <= n
  OBVIOUS
<1>2. \A i \in (m + 1)..n : a[i] \in Frames
  BY <1>1, ElementOfSeq
<1>3. m + 1 \in Nat /\ m + 1 \in Int
  BY <1>1
<1>4. /\ b \in Seq(Frames)
      /\ Len(b) = IF m + 1 <= n THEN n - (m + 1) + 1 ELSE 0
      /\ \A i \in 1..(n - (m + 1) + 1) : b[i] = a[(m + 1) + i - 1]
  BY <1>1, <1>2, <1>3, SubSeqProperties
<1> HIDE DEF n, b
<1>5. Len(b) = n - m
  BY <1>1, <1>4
<1>6. ASSUME NEW i \in 1..(n - m) PROVE b[i] = a[m + i]
  <2>1. i \in 1..(n - (m + 1) + 1) /\ (m + 1) + i - 1 = m + i
    BY <1>1
  <2> QED BY <1>4, <2>1
<1> QED BY <1>4, <1>5, <1>6 DEF n, b

\* An empty queue holds no frame.
LEMMA NothingInQueue ==
  ASSUME \A q \in DOMAIN rxq : rxq[q] = <<>>, NEW s
  PROVE  ~InQueue(s)
BY DEF InQueue

\* The queue that is polled exists, and so does the next one.
LEMMA PolledQueue ==
  ASSUME nq \in Nat \ {0}, cursor \in 0..(nq - 1), DOMAIN rxq = 0..(nq - 1),
         \E q \in DOMAIN rxq : rxq[q] # <<>>
  PROVE  /\ Polled \in 0..(nq - 1)
         /\ (Polled + 1) % nq \in 0..(nq - 1)
<1> DEFINE nth(a) == (cursor + a) % nq
           S == {a \in 0..(nq - 1) : rxq[nth(a)] # <<>>}
<1>1. PICK q \in 0..(nq - 1) : rxq[q] # <<>>
  OBVIOUS
<1> DEFINE a == (q - cursor) % nq
<1>2. q \in Int /\ cursor \in Int /\ q - cursor \in Int
  OBVIOUS
<1>3. a \in 0..(nq - 1)
  BY <1>2, DivMod
<1>4. (a + cursor) % nq = ((q - cursor) + cursor) % nq
  BY <1>2, ModAdd
<1>5. (q - cursor) + cursor = q
  BY <1>2
<1>6. q % nq = q
  BY ModSelf
<1> HIDE DEF a
<1>7. a + cursor = cursor + a
  BY <1>2, <1>3
<1>8. nth(a) = q
  BY <1>4, <1>5, <1>6, <1>7
<1>9. a \in S
  BY <1>1, <1>3, <1>8
<1>10. S \in SUBSET Nat /\ S # {}
  <2>1. S \in SUBSET (0..(nq - 1))
    OBVIOUS
  <2>2. 0..(nq - 1) \subseteq Nat
    OBVIOUS
  <2> QED BY <1>9, <2>1, <2>2, Zenon
<1>11. Min(S) \in S
  BY <1>10, MinOfSet
<1>12. Min(S) \in 0..(nq - 1)
  BY <1>11
<1>13. Polled = nth(Min(S))
  BY DEF Polled
<1> DEFINE d == Min(S)
<1> HIDE DEF d, S
<1>14. cursor + d \in Int
  BY <1>2, <1>12 DEF d
<1>15. (cursor + d) % nq \in 0..(nq - 1)
  BY <1>14, DivMod
<1>16. Polled \in 0..(nq - 1)
  BY <1>13, <1>15 DEF d
<1>17. Polled + 1 \in Int
  BY <1>16
<1>18. (Polled + 1) % nq \in 0..(nq - 1)
  BY <1>17, DivMod
<1> QED BY <1>16, <1>18

\* A burst takes no more frames than there are.
LEMMA TakeFits ==
  ASSUME NEW q, rxq[q] \in Seq(Frames), inflight \in Nat
  PROVE  Take(q) \in 0..Len(rxq[q])
<1> DEFINE n == Len(rxq[q])
<1>1. n \in Nat /\ RxBurst \in Nat
  BY Constants
<1>2. Take(q) = Min({n, inflight, RxBurst})
  BY DEF Take
<1> HIDE DEF n
<1>3. /\ Min({n, inflight, RxBurst}) \in {n, inflight, RxBurst}
      /\ Min({n, inflight, RxBurst}) <= n
  <2>1. n \in Int /\ inflight \in Int /\ RxBurst \in Int
    BY <1>1
  <2> QED BY <2>1, MinThree
<1>4. Take(q) \in 0..n
  BY <1>1, <1>2, <1>3
<1> QED BY <1>4 DEF n

-------------------------------------------------------------------------------
(***************************************************************************)
(* The parts of the invariant that several actions keep in the same way.   *)
(***************************************************************************)

\* The numbers behind BenchTypes.
LEMMA Numbers ==
  ASSUME BenchTypes
  PROVE  /\ window \in Nat \ {0} /\ nq \in Nat \ {0} /\ Count \in Nat
         /\ sent \in Nat /\ sent \in Int /\ sent <= Count /\ received \in Nat
         /\ echoed \in Nat /\ faults \in Nat
         /\ DOMAIN rxq = 0..(nq - 1)
         /\ wire \subseteq Seqs
         /\ IsFiniteSet(wire) /\ Cardinality(wire) \in Nat
<1>1. /\ window \in Nat \ {0} /\ nq \in Nat \ {0} /\ Count \in Nat
      /\ sent \in Nat /\ sent \in Int /\ sent <= Count /\ received \in Nat
      /\ echoed \in Nat /\ faults \in Nat
      /\ DOMAIN rxq = 0..(nq - 1)
  BY Constants DEF BenchTypes
<1>2. wire \in SUBSET (0..(sent - 1))
  BY DEF BenchTypes
<1>3. wire \subseteq Seqs
  <2>1. 0..(sent - 1) \subseteq 0..(Count - 1)
    BY <1>1
  <2> QED BY <1>2, <2>1 DEF Seqs
<1>4. IsFiniteSet(0..(sent - 1))
  <2>1. 0 \in Int /\ sent - 1 \in Int
    BY <1>1
  <2> QED BY <2>1, FS_Interval
<1>5. IsFiniteSet(wire)
  BY <1>2, <1>4, FS_Subset
<1>6. Cardinality(wire) \in Nat
  BY <1>5, FS_CardinalityType
<1> QED BY <1>1, <1>3, <1>5, <1>6

\* A step with a fault ends what Delivery promises.
LEMMA FaultEnds ==
  ASSUME faults \in Nat, Fault
  PROVE  faults' \in Nat /\ Delivery'
<1>1. faults' = faults + 1
  BY DEF Fault
<1>2. faults' \in Nat /\ faults' # 0
  BY <1>1
<1>3. ~Orderly'
  BY <1>2 DEF Orderly
<1> QED BY <1>2, <1>3 DEF Delivery

\* The books are carried over into the next state.
LEMMA BooksCarry ==
  ASSUME window' = window, NEW t, NEW f, NEW r, NEW c, NEW n, Books(t, f, r, c, n),
         slots' = t, inflight' = f, received' = r, counted' = c, sent' = n
  PROVE  Books(slots, inflight, received, counted, sent)'
<1>1. Pending(slots)' = Pending(t)
  BY DEF Pending
<1>2. Books(slots, inflight, received, counted, sent)' <=> Books(t, f, r, c, n)
  BY <1>1, Zenon DEF Books
<1> QED BY <1>2

\* Every count in the books is 0 or 1.
LEMMA BooksOnce ==
  ASSUME NEW t, NEW f, NEW r, NEW c, NEW n \in Int, Books(t, f, r, c, n), NEW s \in Seqs
  PROVE  c[s] <= 1
<1>1. s \in Int
  BY Constants DEF Seqs
<1>2. c[s] = 0 \/ c[s] = 1
  BY <1>1 DEF Books
<1> QED BY <1>2

\* raw-bench does nothing.
LEMMA BenchIdle ==
  ASSUME Windowed, StopAndWait, UNCHANGED <<opts, bench>>
  PROVE  Windowed' /\ StopAndWait'
<1>1. /\ window' = window /\ pc' = pc /\ slots' = slots /\ sent' = sent
      /\ received' = received /\ inflight' = inflight /\ counted' = counted
  BY DEF opts, bench
<1>2. Books(slots, inflight, received, counted, sent)
        => Books(slots, inflight, received, counted, sent)'
  BY <1>1, BooksCarry
<1>3. Windowed'
  BY <1>1, <1>2 DEF Windowed
<1> QED BY <1>1, <1>3 DEF StopAndWait

\* With the options and raw-bench as they were, and no fault, a run that is
\* orderly now was so before.
LEMMA OrderlyBefore ==
  ASSUME UNCHANGED opts, faults' = 0 => faults = 0, Orderly'
  PROVE  Orderly
BY DEF opts, Orderly

\* An empty table is free everywhere.
LEMMA EmptyTable ==
  ASSUME window \in Nat \ {0}, sent \in Nat,
         Books(slots, inflight, received, counted, sent), Waiting = {}
  PROVE  inflight = 0 /\ SlotAlloc(sent)
<1>1. slots \in [0..(window - 1) -> Seqs \union {Free}]
      /\ inflight = Cardinality(Pending(slots))
  BY DEF Books
<1>2. Pending(slots) = {}
  BY DEF Pending, Waiting
<1>3. inflight = 0
  BY <1>1, <1>2, FS_EmptySet
<1>4. sent % window \in 0..(window - 1)
  BY DivMod
<1>5. slots[sent % window] = Free
  BY <1>1, <1>2, <1>4, HomePending
<1> QED BY <1>3, <1>5 DEF SlotAlloc

\* While raw-bench runs the window is not overfull, and the next frame has a
\* slot if none is waited for.
LEMMA WindowRoom ==
  ASSUME BenchTypes, Windowed, pc \in {"fill", "poll"}
  PROVE  /\ Books(slots, inflight, received, counted, sent)
         /\ inflight \in Nat /\ inflight <= window /\ received < Count
         /\ sent = received + inflight
         /\ Waiting = {} => inflight = 0 /\ sent < Count /\ SlotAlloc(sent)
<1>1. window > 1 /\ pc # "failed"
  BY DEF BenchTypes
<1>2. Books(slots, inflight, received, counted, sent) /\ received < Count
  BY <1>1 DEF Windowed
<1>3. window \in Nat \ {0} /\ sent \in Nat /\ sent \in Int /\ received \in Nat
  BY Numbers
<1>4. /\ Pending(slots) \in SUBSET ((sent - window)..(sent - 1))
      /\ inflight = Cardinality(Pending(slots)) /\ sent = received + inflight
  BY <1>2 DEF Books
<1>5. inflight \in Nat /\ inflight <= window
  BY <1>3, <1>4, PendingFits
<1>6. ASSUME Waiting = {} PROVE inflight = 0 /\ sent < Count /\ SlotAlloc(sent)
  <2>1. inflight = 0 /\ SlotAlloc(sent)
    BY <1>2, <1>3, <1>6, EmptyTable
  <2> QED BY <1>2, <1>3, <1>4, <2>1
<1> QED BY <1>2, <1>4, <1>5, <1>6

\* In an orderly run a poll that gives up was waiting for an answer that
\* raw-echo counted, as its last, and closed its device on.
LEMMA GivesUp ==
  ASSUME BenchTypes, Delivery, Orderly, pc # "failed", Owed # {},
         \A q \in DOMAIN rxq : rxq[q] = <<>>, ~ReplyUnderway
  PROVE  dropped # {} /\ echo_count = Count
<1>1. PICK s \in Owed : TRUE
  OBVIOUS
<1>2. ~InQueue(s)
  BY NothingInQueue
<1>3. s \in wire \union posted \union dropped
  BY <1>2 DEF Delivery
<1>4. posted = {} /\ (wire = {} \/ echo # "on")
  BY DEF ReplyUnderway
<1>5. /\ sent \in Nat /\ sent <= Count /\ Count \in Nat /\ echoed \in Nat
      /\ IsFiniteSet(wire) /\ Cardinality(wire) \in Nat
  BY Numbers
<1>6. echo_count \in {Count, Count + 1}
  BY DEF BenchTypes
<1>7. /\ sent = echoed + Cardinality(wire)
      /\ echo # "on" => echoed = echo_count
      /\ echo # "closed" => dropped = {}
  BY DEF Delivery
<1>8. wire = {}
  <2>1. CASE echo # "on"
    <3>1. Cardinality(wire) = 0
      BY <1>5, <1>6, <1>7, <2>1
    <3> QED BY <1>5, <3>1, FS_EmptySet
  <2> QED BY <1>4, <2>1
<1>9. dropped # {}
  BY <1>3, <1>4, <1>8
<1>10. echoed = echo_count
  BY <1>7, <1>9
<1>11. Cardinality(wire) = 0
  BY <1>8, FS_EmptySet
<1>12. echo_count = Count
  BY <1>5, <1>6, <1>7, <1>10, <1>11
<1> QED BY <1>9, <1>12

\* In an orderly run raw-bench is never quiet while raw-echo is on: it waits
\* for a frame that is somewhere, or has one to send.
LEMMA NeverQuiet ==
  ASSUME BenchInv, Orderly, pc \notin Ended, echo = "on", wire = {}
  PROVE  ~BenchQuiet
<1> SUFFICES ASSUME BenchQuiet PROVE FALSE
  OBVIOUS
<1>0. BenchTypes /\ Windowed /\ Delivery
  BY DEF BenchInv
<1>1. /\ posted = {}
      /\ \A q \in DOMAIN rxq : rxq[q] = <<>>
      /\ pc = "await" \/ (pc \in {"fill", "poll"} /\ Batch = 0)
  BY DEF BenchQuiet
<1>2. dropped = {} /\ pc # "failed"
  BY <1>0 DEF Delivery, Ended
<1>3. Owed = {}
  <2>1. ASSUME NEW s \in Owed PROVE FALSE
    <3>1. ~InQueue(s)
      BY <1>1, NothingInQueue
    <3>2. s \in wire \union posted \union dropped \/ InQueue(s)
      BY <1>0, <1>2 DEF Delivery
    <3> QED BY <1>1, <1>2, <3>1, <3>2
  <2> QED BY <2>1
<1>4. CASE pc = "await"
  <2>1. window = 1
    BY <1>0, <1>4 DEF BenchTypes
  <2>2. Owed = {sent - 1}
    BY <1>4, <2>1 DEF Owed
  <2> QED BY <1>3, <2>2
<1>5. CASE pc \in {"fill", "poll"} /\ Batch = 0
  <2>1. window > 1
    BY <1>0, <1>5 DEF BenchTypes
  <2>2. Waiting = {}
    BY <1>3, <2>1 DEF Owed
  <2>3. inflight = 0 /\ sent < Count /\ SlotAlloc(sent)
    BY <1>0, <1>5, <2>2, WindowRoom
  <2>4. window \in Nat \ {0} /\ sent \in 0..Count
    BY <1>0, Numbers DEF BenchTypes
  <2>5. inflight \in Nat /\ inflight < window /\ inflight <= window
    BY <2>3, <2>4
  <2>6. Batch > 0
    BY <2>3, <2>4, <2>5, BatchFits
  <2> QED BY <1>5, <2>6
<1> QED BY <1>1, <1>4, <1>5

-------------------------------------------------------------------------------
(***************************************************************************)
(* The invariant holds initially, and each step of raw-bench keeps it.     *)
(***************************************************************************)
LEMMA InitHolds == Init => BenchInv
<1> SUFFICES ASSUME Init PROVE BenchInv
  OBVIOUS
<1>0. /\ Count \in Nat /\ Count > 0 /\ MaxWindow \in Nat /\ MaxQueues \in Nat
  BY Constants
<1>1. /\ window \in 1..MaxWindow /\ nq \in 1..MaxQueues /\ timed \in BOOLEAN
      /\ echo_count \in {Count, Count + 1}
      /\ pc = IF window = 1 THEN "send" ELSE "fill"
      /\ slots = [i \in 0..(window - 1) |-> Free]
      /\ sent = 0 /\ received = 0 /\ inflight = 0 /\ cursor = 0
      /\ wire = {} /\ rxq = [q \in 0..(nq - 1) |-> <<>>]
      /\ counted = [s \in Seqs |-> 0]
      /\ echo = "on" /\ echoed = 0 /\ posted = {} /\ dropped = {} /\ faults = 0
  BY DEF Init
<1>2. BenchTypes
  <2>1. <<>> \in Seq(Frames)
    OBVIOUS
  <2>2. /\ rxq \in [0..(nq - 1) -> Seq(Frames)] /\ counted \in [Seqs -> Nat]
    BY <1>1, <2>1
  <2>3. sent \in 0..Count /\ cursor \in 0..(nq - 1) /\ wire \subseteq 0..(sent - 1)
        /\ received \in Nat /\ echoed \in Nat /\ faults \in Nat
    BY <1>0, <1>1
  <2>4. /\ pc \in Ended \union {"fill", "poll", "send", "await"}
        /\ pc \in {"fill", "poll"} => window > 1
        /\ pc \in {"send", "await"} => window = 1
    BY <1>0, <1>1
  <2> QED BY <1>1, <2>2, <2>3, <2>4 DEF BenchTypes
<1>3. Pending(slots) = {}
  BY <1>1 DEF Pending
<1>4. Books(slots, inflight, received, counted, sent)
  <2>1. /\ slots \in [0..(window - 1) -> Seqs \union {Free}] /\ counted \in [Seqs -> Nat]
        /\ \A i \in 0..(window - 1) : slots[i] = Free
        /\ \A s \in Seqs : counted[s] = 0
    BY <1>1
  <2>2. inflight = Cardinality(Pending(slots))
    BY <1>1, <1>3, FS_EmptySet
  <2>3. \A s \in Seqs : ~(s < sent)
    BY <1>0, <1>1 DEF Seqs
  <2>4. received \in Nat /\ inflight \in Nat /\ sent = received + inflight
    BY <1>1
  <2>5. Pending(slots) \subseteq (sent - window)..(sent - 1)
    BY <1>3
  <2>6. \A i \in 0..(window - 1) : slots[i] = Free \/ slots[i] % window = i
    BY <2>1
  <2>7. \A s \in Seqs : s < sent /\ s \notin Pending(slots) => counted[s] = 1
    BY <2>3
  <2>8. \A s \in Seqs : sent <= s \/ s \in Pending(slots) => counted[s] = 0
    BY <2>1
  <2> QED BY <2>1, <2>2, <2>4, <2>5, <2>6, <2>7, <2>8, Zenon DEF Books
<1>5. Windowed
  <2>1. pc # "failed" /\ pc # "poll" /\ pc # "ok" /\ received < Count
    BY <1>0, <1>1
  <2>2. \A s \in Seqs : counted[s] <= 1
    BY <1>1
  <2> QED BY <1>4, <2>1, <2>2 DEF Windowed
<1>6. StopAndWait
  BY <1>0, <1>1 DEF StopAndWait
<1>7. Delivery
  <2>1. Owed = {}
    <3>1. Waiting = {}
      BY <1>3 DEF Pending, Waiting
    <3>2. pc # "await"
      BY <1>1
    <3> QED BY <3>1, <3>2 DEF Owed
  <2>2. sent = echoed + Cardinality(wire)
    BY <1>1, FS_EmptySet
  <2>3. pc # "failed"
    BY <1>1
  <2> QED BY <1>1, <2>1, <2>2, <2>3 DEF Delivery
<1> QED BY <1>2, <1>5, <1>6, <1>7 DEF BenchInv

\* Sending n frames: the wire gets them, and the count of what raw-echo has
\* not received grows by n.
LEMMA WireGrows ==
  ASSUME BenchTypes, NEW n \in Nat, sent' = sent + n, sent + n <= Count,
         wire' = wire \union (sent..(sent + n - 1))
  PROVE  /\ sent' \in 0..Count
         /\ wire' \subseteq 0..(sent' - 1)
         /\ Cardinality(wire') = Cardinality(wire) + n
<1> DEFINE new == sent..(sent + n - 1)
<1>0. /\ sent \in Nat /\ Count \in Nat /\ IsFiniteSet(wire) /\ Cardinality(wire) \in Nat
  BY Numbers
<1>1. wire \subseteq 0..(sent - 1)
  BY DEF BenchTypes
<1>2. wire' \subseteq 0..(sent' - 1)
  <2>1. /\ new \subseteq 0..(sent + n - 1) /\ 0..(sent - 1) \subseteq 0..(sent + n - 1)
        /\ sent' - 1 = sent + n - 1
    BY <1>0
  <2>2. wire' \subseteq 0..(sent + n - 1)
    BY <1>1, <2>1, Zenon
  <2> QED BY <2>1, <2>2, Zenon
<1>3. IsFiniteSet(new) /\ Cardinality(new) = n
  <2>1. sent \in Int /\ sent + n - 1 \in Int
    BY <1>0
  <2>2. IsFiniteSet(new)
        /\ Cardinality(new) = IF sent > sent + n - 1 THEN 0 ELSE (sent + n - 1) - sent + 1
    BY <2>1, FS_Interval
  <2> HIDE DEF new
  <2> QED BY <1>0, <2>2
<1>4. wire \cap new = {}
  BY <1>0, <1>1
<1>5. Cardinality(wire \union new)
        = Cardinality(wire) + Cardinality(new) - Cardinality(wire \cap new)
  BY <1>0, <1>3, FS_Union
<1>6. Cardinality(wire \cap new) = 0
  BY <1>4, FS_EmptySet
<1>7. wire' = wire \union new
  OBVIOUS
<1> HIDE DEF new
<1>8. Cardinality(wire') = Cardinality(wire) + n
  <2>1. Cardinality(wire \union new) = Cardinality(wire) + n
    BY <1>0, <1>3, <1>5, <1>6
  <2> QED BY <1>7, <2>1, Zenon
<1> QED BY <1>0, <1>2, <1>8

\* The window is filled (sample_bench_slot_alloc, mlxnicd_tx_burst).
LEMMA FillKeeps ==
  ASSUME BenchInv, Fill
  PROVE  BenchInv'
<1> DEFINE n == Batch
<1>0. BenchTypes /\ Windowed /\ StopAndWait /\ Delivery
  BY DEF BenchInv
<1>1. /\ pc = "fill" /\ pc' = "poll"
      /\ slots' = Filled(n) /\ sent' = sent + n /\ inflight' = inflight + n
      /\ wire' = wire \union (sent..(sent + n - 1))
      /\ UNCHANGED <<window, nq, timed, echo_count, received, cursor, rxq, counted>>
      /\ UNCHANGED <<echo, echoed, posted, dropped, faults>>
  BY DEF Fill, opts, peer
<1>2. /\ window \in Nat \ {0} /\ window > 1 /\ sent \in Nat /\ Count \in Nat
      /\ sent \in 0..Count /\ received \in Nat
  BY <1>0, <1>1, Numbers DEF BenchTypes
<1>3. /\ Books(slots, inflight, received, counted, sent)
      /\ inflight \in Nat /\ inflight <= window /\ received < Count
      /\ sent = received + inflight
      /\ Waiting = {} => inflight = 0 /\ sent < Count /\ SlotAlloc(sent)
  BY <1>0, <1>1, WindowRoom
<1>4. /\ n \in Nat /\ n <= window - inflight /\ sent + n <= Count
      /\ \A k \in 0..(n - 1) : SlotAlloc(sent + k)
      /\ SlotAlloc(sent) /\ inflight < window /\ sent < Count => n > 0
  BY <1>2, <1>3, BatchFits
<1> HIDE DEF n
<1>5. /\ Books(Filled(n), inflight + n, received, counted, sent + n)
      /\ Pending(Filled(n)) = Pending(slots) \union (sent..(sent + n - 1))
  BY <1>2, <1>3, <1>4, BooksFill
<1>6. /\ sent' \in 0..Count
      /\ wire' \subseteq 0..(sent' - 1)
      /\ Cardinality(wire') = Cardinality(wire) + n
  BY <1>0, <1>1, <1>4, WireGrows
<1>7. BenchTypes'
  BY <1>0, <1>1, <1>2, <1>6 DEF BenchTypes, Ended
<1>8. Books(slots, inflight, received, counted, sent)'
  BY <1>1, <1>5, BooksCarry
<1>9. inflight' > 0
  <2>1. CASE inflight > 0
    BY <1>1, <1>3, <1>4, <2>1
  <2>2. CASE inflight = 0
    <3>1. Waiting = {}
      <4>1. Pending(slots) \in SUBSET ((sent - window)..(sent - 1))
            /\ inflight = Cardinality(Pending(slots))
        BY <1>3 DEF Books
      <4>2. IsFiniteSet(Pending(slots))
        <5>1. sent \in Int
          BY <1>2
        <5> QED BY <1>2, <4>1, <5>1, PendingFits
      <4>3. Pending(slots) = {}
        BY <2>2, <4>1, <4>2, FS_EmptySet
      <4> QED BY <4>3 DEF Pending, Waiting
    <3>2. n > 0
      BY <1>2, <1>3, <1>4, <2>2, <3>1
    <3> QED BY <1>1, <1>3, <1>4, <3>2
  <2> QED BY <1>3, <2>1, <2>2
<1>10. Windowed'
  <2>1. \A s \in Seqs : counted[s] <= 1
    BY <1>0, <1>2 DEF Windowed
  <2> QED BY <1>1, <1>3, <1>8, <1>9, <2>1 DEF Windowed
<1>11. StopAndWait'
  BY <1>1 DEF StopAndWait
<1>12. Delivery'
  <2> SUFFICES ASSUME Orderly' PROVE Delivery'
    BY DEF Delivery
  <2>1. Orderly
    BY <1>1, OrderlyBefore DEF opts
  <2>2. sent' = echoed' + Cardinality(wire')
    <3>1. sent = echoed + Cardinality(wire)
      BY <1>0, <2>1 DEF Delivery
    <3>2. echoed \in Nat /\ Cardinality(wire) \in Nat
      BY <1>0, Numbers
    <3> QED BY <1>1, <1>4, <1>6, <3>1, <3>2
  <2>3. ASSUME NEW s \in Owed'
        PROVE  (s \in wire \union posted \union dropped \/ InQueue(s))'
    <3>1. s \in Pending(Filled(n))
      BY <1>1, <1>2, <2>3 DEF Owed, Waiting, Pending
    <3>2. CASE s \in sent..(sent + n - 1)
      BY <1>1, <3>2
    <3>3. CASE s \in Pending(slots)
      <4>1. s \in Owed
        BY <1>2, <3>3 DEF Owed, Waiting, Pending
      <4>2. s \in wire \union posted \union dropped \/ InQueue(s)
        BY <1>0, <1>1, <2>1, <4>1 DEF Delivery
      <4> QED BY <1>1, <4>2 DEF InQueue
    <3> QED BY <1>5, <3>1, <3>2, <3>3
  <2>4. /\ echo # "on" => echoed = echo_count
        /\ echo # "closed" => dropped = {}
    BY <1>0, <2>1 DEF Delivery
  <2>5. pc' # "failed"
    BY <1>1
  <2> QED BY <1>1, <2>2, <2>3, <2>4, <2>5 DEF Delivery
<1> QED BY <1>7, <1>10, <1>11, <1>12 DEF BenchInv

\* A step that ends the run as a failure.
LEMMA StopKeeps ==
  ASSUME BenchInv, pc' = "failed", faults' \in Nat, faults' = 0 => faults = 0,
         UNCHANGED <<opts, sent, received, cursor, counted, peer, net>>,
         Orderly' => dropped # {} /\ echo_count = Count
  PROVE  BenchInv'
<1>0. BenchTypes /\ Windowed /\ Delivery
  BY DEF BenchInv
<1>1. /\ UNCHANGED <<window, nq, timed, echo_count, sent, received, cursor, counted>>
      /\ UNCHANGED <<echo, echoed, posted, dropped, wire, rxq>>
  BY DEF opts, peer, net
<1>2. BenchTypes'
  BY <1>0, <1>1 DEF BenchTypes, Ended
<1>3. Windowed'
  BY <1>0, <1>1 DEF Windowed
<1>4. StopAndWait'
  BY DEF StopAndWait
<1>5. Delivery'
  <2> SUFFICES ASSUME Orderly' PROVE Delivery'
    BY DEF Delivery
  <2>1. Orderly
    BY <1>1, OrderlyBefore DEF opts
  <2> QED BY <1>0, <1>1, <2>1 DEF Delivery
<1> QED BY <1>2, <1>3, <1>4, <1>5 DEF BenchInv

\* mlxnicd_tx_burst posts less than it was given.
LEMMA CallFailsKeeps ==
  ASSUME BenchInv, FillFails \/ SendOneFails
  PROVE  BenchInv'
<1>1. Fault /\ pc' = "failed"
      /\ UNCHANGED <<opts, sent, received, cursor, counted, peer, net>>
  BY DEF FillFails, SendOneFails
<1>2. faults \in Nat
  BY DEF BenchInv, BenchTypes
<1>3. faults' = faults + 1
  BY <1>1 DEF Fault
<1>4. faults' \in Nat /\ faults' # 0
  BY <1>2, <1>3
<1>5. ~Orderly'
  BY <1>4 DEF Orderly
<1> QED BY <1>1, <1>4, <1>5, StopKeeps

\* A burst is received and handled.
LEMMA PollKeeps ==
  ASSUME BenchInv, NEW ok \in BOOLEAN, Poll(ok)
  PROVE  BenchInv'
<1> DEFINE q == Polled
           h == HandleBurst(q)
           m == Take(q)
<1>0. BenchTypes /\ Windowed /\ StopAndWait /\ Delivery
  BY DEF BenchInv
<1>1. /\ pc = "poll" /\ Called(ok)
      /\ \E p \in DOMAIN rxq : rxq[p] # <<>>
      /\ slots' = h.slots /\ inflight' = h.inflight /\ received' = h.received
      /\ counted' = h.counted
      /\ rxq' = [rxq EXCEPT ![q] = SubSeq(@, m + 1, Len(@))]
      /\ cursor' = (q + 1) % nq
      /\ pc' = IF ~ok THEN "failed" ELSE IF h.received < Count THEN "fill" ELSE "ok"
      /\ UNCHANGED <<window, nq, timed, echo_count, sent, wire>>
      /\ UNCHANGED <<echo, echoed, posted, dropped>>
  BY DEF Poll, opts, peer
<1>2. /\ window \in Nat \ {0} /\ window > 1 /\ sent \in Nat /\ sent \in Int
      /\ Count \in Nat /\ sent <= Count /\ nq \in Nat \ {0} /\ faults \in Nat
      /\ cursor \in 0..(nq - 1) /\ DOMAIN rxq = 0..(nq - 1)
      /\ rxq \in [0..(nq - 1) -> Seq(Frames)]
  BY <1>0, <1>1, Numbers DEF BenchTypes
<1>3. /\ Books(slots, inflight, received, counted, sent)
      /\ inflight \in Nat
  BY <1>0, <1>1, WindowRoom
<1>4. q \in 0..(nq - 1) /\ cursor' \in 0..(nq - 1)
  BY <1>1, <1>2, PolledQueue
<1>5. rxq[q] \in Seq(Frames)
  BY <1>2, <1>4
<1>6. m \in 0..Len(rxq[q])
  BY <1>3, <1>5, TakeFits
<1>7. /\ Books(h.slots, h.inflight, h.received, h.counted, sent)
      /\ Pending(h.slots) \subseteq Pending(slots)
      /\ \A k \in 1..m : rxq[q][k] \notin Pending(h.slots)
  BY <1>2, <1>3, <1>5, <1>6, BooksBurst DEF Frames
<1> HIDE DEF q, h, m
<1>8. /\ rxq' \in [0..(nq - 1) -> Seq(Frames)]
      /\ \A s : InQueue(s) /\ (\A k \in 1..m : rxq[q][k] # s) => InQueue(s)'
  <2> DEFINE b == SubSeq(rxq[q], m + 1, Len(rxq[q]))
  <2>1. /\ b \in Seq(Frames) /\ Len(b) = Len(rxq[q]) - m
        /\ \A i \in 1..(Len(rxq[q]) - m) : b[i] = rxq[q][m + i]
    BY <1>5, <1>6, RestOfQueue
  <2>2. rxq' = [rxq EXCEPT ![q] = b]
    BY <1>1
  <2> HIDE DEF b
  <2> QED BY <1>2, <1>4, <1>6, <2>1, <2>2, CutLeaves
<1>9. Books(slots, inflight, received, counted, sent)'
  BY <1>1, <1>7, BooksCarry
<1>10. h.received \in Nat /\ h.counted \in [Seqs -> Nat]
  BY <1>7 DEF Books
<1>11. faults' \in Nat /\ (faults' = 0 => faults = 0 /\ ok)
  <2>1. CASE ok
    BY <1>1, <1>2, <2>1 DEF Called
  <2>2. CASE ~ok
    <3>1. faults' = faults + 1
      BY <1>1, <2>2 DEF Called, Fault
    <3> QED BY <1>2, <3>1
  <2> QED BY <2>1, <2>2
<1>12. pc' \in Ended \union {"fill", "poll", "send", "await"}
       /\ pc' \notin {"poll", "send", "await"}
  BY <1>1 DEF Ended
<1>13. BenchTypes'
  <2>1. /\ window' \in 1..MaxWindow /\ nq' \in 1..MaxQueues /\ timed' \in BOOLEAN
        /\ echo_count' \in {Count, Count + 1}
        /\ sent' \in 0..Count
        /\ echo' \in {"on", "closing", "closed"}
        /\ echoed' \in Nat
        /\ wire' \subseteq 0..(sent' - 1)
        /\ posted' \subseteq Seqs
        /\ dropped' \subseteq Seqs
    BY <1>0, <1>1 DEF BenchTypes
  <2>2. /\ rxq' \in [0..(nq' - 1) -> Seq(Frames)] /\ cursor' \in 0..(nq' - 1)
        /\ received' \in Nat /\ counted' \in [Seqs -> Nat]
        /\ window' > 1
    BY <1>1, <1>2, <1>4, <1>8, <1>10
  <2> QED BY <1>11, <1>12, <2>1, <2>2 DEF BenchTypes
<1>14. Windowed'
  <2>1. ASSUME NEW s \in Seqs PROVE counted'[s] <= 1
    BY <1>1, <1>2, <1>7, BooksOnce
  <2>2. pc' \in {"fill", "poll"} => received' < Count
    BY <1>1
  <2>3. pc' = "ok" => received' >= Count
    <3>1. pc' = "ok" => ~(h.received < Count)
      BY <1>1
    <3> QED BY <1>1, <1>2, <1>10, <3>1
  <2> QED BY <1>9, <1>12, <2>1, <2>2, <2>3 DEF Windowed
<1>15. StopAndWait'
  BY <1>12 DEF StopAndWait
<1>16. Delivery'
  <2> SUFFICES ASSUME Orderly' PROVE Delivery'
    BY DEF Delivery
  <2>1. Orderly
    BY <1>1, <1>11, OrderlyBefore DEF opts
  <2>2. ok
    BY <1>11 DEF Orderly
  <2>3. pc' # "failed"
    BY <1>1, <2>2
  <2>4. ASSUME NEW s \in Owed'
        PROVE  (s \in wire \union posted \union dropped \/ InQueue(s))'
    <3>1. s \in Pending(h.slots)
      BY <1>1, <1>2, <2>4 DEF Owed, Waiting, Pending
    <3>2. s \in Owed
      BY <1>2, <1>7, <3>1 DEF Owed, Waiting, Pending
    <3>3. s \in wire \union posted \union dropped \/ InQueue(s)
      BY <1>0, <1>1, <2>1, <3>2 DEF Delivery
    <3>4. \A k \in 1..m : rxq[q][k] # s
      BY <1>7, <3>1
    <3>5. InQueue(s) => InQueue(s)'
      BY <1>8, <3>4
    <3> QED BY <1>1, <3>3, <3>5
  <2>5. /\ sent = echoed + Cardinality(wire)
        /\ echo # "on" => echoed = echo_count
        /\ echo # "closed" => dropped = {}
    BY <1>0, <2>1 DEF Delivery
  <2> QED BY <1>1, <2>3, <2>4, <2>5 DEF Delivery
<1> QED BY <1>13, <1>14, <1>15, <1>16 DEF BenchInv

\* A poll finds nothing: the timeout, or another turn.
LEMMA PollNothingKeeps ==
  ASSUME BenchInv, PollNothing
  PROVE  BenchInv'
<1>0. BenchTypes /\ Windowed /\ StopAndWait /\ Delivery
  BY DEF BenchInv
<1>1. /\ pc = "poll" /\ \A q \in DOMAIN rxq : rxq[q] = <<>>
      /\ pc' = IF PollWaits THEN "failed" ELSE "fill"
      /\ Called(PollWaits => ~ReplyUnderway)
      /\ UNCHANGED <<opts, slots, sent, received, inflight, cursor, counted, peer, net>>
  BY DEF PollNothing
<1>2. window > 1 /\ faults \in Nat
  BY <1>0, <1>1 DEF BenchTypes
<1>3. faults' \in Nat /\ (faults' = 0 => faults = 0 /\ (PollWaits => ~ReplyUnderway))
  <2>1. CASE PollWaits => ~ReplyUnderway
    BY <1>1, <1>2, <2>1 DEF Called
  <2>2. CASE ~(PollWaits => ~ReplyUnderway)
    <3>1. faults' = faults + 1
      BY <1>1, <2>2 DEF Called, Fault
    <3> QED BY <1>2, <3>1
  <2> QED BY <2>1, <2>2
<1>4. CASE PollWaits
  <2>1. ASSUME Orderly' PROVE dropped # {} /\ echo_count = Count
    <3>1. faults' = 0
      BY <2>1 DEF Orderly
    <3>2. Orderly
      BY <1>1, <1>3, <2>1, OrderlyBefore
    <3>3. Owed # {}
      <4>1. /\ inflight > 0
            /\ Books(slots, inflight, received, counted, sent)
        BY <1>0, <1>1, <1>2 DEF Windowed
      <4>2. Waiting # {}
        <5>1. inflight # 0
          BY <4>1
        <5>2. window \in Nat \ {0} /\ sent \in Nat
          BY <1>0, Numbers
        <5> QED BY <4>1, <5>1, <5>2, EmptyTable
      <4> QED BY <1>2, <4>2 DEF Owed
    <3> QED BY <1>0, <1>1, <1>3, <1>4, <3>1, <3>2, <3>3, GivesUp
  <2>2. pc' = "failed"
    BY <1>1, <1>4
  <2> QED BY <1>1, <1>3, <2>1, <2>2, StopKeeps
<1>5. CASE ~PollWaits
  <2>1. /\ pc' = "fill"
        /\ UNCHANGED <<window, nq, timed, echo_count, slots, sent, received, inflight>>
        /\ UNCHANGED <<cursor, counted, echo, echoed, posted, dropped, wire, rxq>>
    BY <1>1, <1>5 DEF opts, peer, net
  <2>2. BenchTypes'
    BY <1>0, <1>2, <1>3, <2>1 DEF BenchTypes, Ended
  <2>3. Books(slots, inflight, received, counted, sent)'
    BY <1>0, <1>1, <1>2, <2>1, BooksCarry DEF Windowed
  <2>4. Windowed'
    BY <1>0, <1>1, <1>2, <2>1, <2>3 DEF Windowed
  <2>5. StopAndWait'
    BY <2>1 DEF StopAndWait
  <2>6. Delivery'
    <3> SUFFICES ASSUME Orderly' PROVE Delivery'
      BY DEF Delivery
    <3>1. Orderly
      BY <1>1, <1>3, OrderlyBefore
    <3>2. Owed' = Owed
      BY <1>2, <2>1 DEF Owed, Waiting
    <3>3. \A s : InQueue(s)' <=> InQueue(s)
      BY <2>1 DEF InQueue
    <3> QED BY <1>0, <1>1, <2>1, <3>1, <3>2, <3>3 DEF Delivery
  <2> QED BY <2>2, <2>4, <2>5, <2>6 DEF BenchInv
<1> QED BY <1>4, <1>5

\* A window of 1: the next frame is sent.
LEMMA SendOneKeeps ==
  ASSUME BenchInv, SendOne
  PROVE  BenchInv'
<1>0. BenchTypes /\ StopAndWait /\ Delivery
  BY DEF BenchInv
<1>1. /\ pc = "send" /\ pc' = "await"
      /\ sent' = sent + 1 /\ wire' = wire \union {sent}
      /\ UNCHANGED <<window, nq, timed, echo_count, received, cursor, rxq, counted>>
      /\ UNCHANGED <<echo, echoed, posted, dropped, faults>>
  BY DEF SendOne, opts, peer
<1>2. /\ window = 1 /\ sent \in Nat /\ Count \in Nat /\ sent < Count
      /\ sent' > 0 /\ sent' - 1 = sent
  BY <1>0, <1>1, Numbers DEF BenchTypes, StopAndWait
<1>3. /\ sent' \in 0..Count
      /\ wire' \subseteq 0..(sent' - 1)
      /\ Cardinality(wire') = Cardinality(wire) + 1
  <2>1. 1 \in Nat /\ sent + 1 <= Count /\ sent..(sent + 1 - 1) = {sent}
    BY <1>2
  <2>2. wire' = wire \union (sent..(sent + 1 - 1))
    BY <1>1, <2>1
  <2> QED BY <1>0, <1>1, <2>1, <2>2, WireGrows
<1>4. BenchTypes'
  BY <1>0, <1>1, <1>2, <1>3 DEF BenchTypes, Ended
<1>5. Windowed'
  BY <1>1, <1>2 DEF Windowed
<1>6. StopAndWait'
  BY <1>1, <1>2 DEF StopAndWait
<1>7. Delivery'
  <2> SUFFICES ASSUME Orderly' PROVE Delivery'
    BY DEF Delivery
  <2>1. Orderly
    BY <1>1, OrderlyBefore DEF opts
  <2>2. /\ sent = echoed + Cardinality(wire)
        /\ echo # "on" => echoed = echo_count
        /\ echo # "closed" => dropped = {}
    BY <1>0, <2>1 DEF Delivery
  <2>3. sent' = echoed' + Cardinality(wire')
    <3>1. echoed \in Nat /\ Cardinality(wire) \in Nat
      BY <1>0, Numbers
    <3> QED BY <1>1, <1>3, <2>2, <3>1
  <2>4. Owed' = {sent}
    BY <1>1, <1>2 DEF Owed
  <2>5. sent \in wire'
    BY <1>1
  <2> QED BY <1>1, <2>2, <2>3, <2>4, <2>5 DEF Delivery
<1> QED BY <1>4, <1>5, <1>6, <1>7 DEF BenchInv

\* A window of 1: a frame is received, the reply or not.
LEMMA AwaitOneKeeps ==
  ASSUME BenchInv, NEW ok \in BOOLEAN, AwaitOne(ok)
  PROVE  BenchInv'
<1> DEFINE s == Head(rxq[0])
           b == Tail(rxq[0])
<1>0. BenchTypes /\ StopAndWait /\ Delivery
  BY DEF BenchInv
<1>1. /\ pc = "await" /\ rxq[0] # <<>> /\ Called(ok)
      /\ rxq' = [rxq EXCEPT ![0] = b]
      /\ \/ s = Noise /\ UNCHANGED <<received, counted>>
         \/ /\ s # Noise /\ received' = received + 1
            /\ counted' = [counted EXCEPT ![s] = @ + 1]
      /\ pc' = IF ~ok THEN "failed" ELSE IF s = Noise THEN "await"
               ELSE IF sent < Count THEN "send" ELSE "ok"
      /\ UNCHANGED <<window, nq, timed, echo_count, sent, wire>>
      /\ UNCHANGED <<cursor, echo, echoed, posted, dropped>>
  BY DEF AwaitOne, opts, peer
<1>2. /\ window = 1 /\ sent \in Nat /\ sent > 0 /\ sent <= Count /\ Count \in Nat
      /\ nq \in Nat \ {0} /\ 0 \in 0..(nq - 1) /\ faults \in Nat /\ received \in Nat
      /\ rxq \in [0..(nq - 1) -> Seq(Frames)] /\ counted \in [Seqs -> Nat]
  BY <1>0, <1>1, Numbers DEF BenchTypes, StopAndWait
<1>3. rxq[0] \in Seq(Frames)
  BY <1>2
<1>4. /\ s \in Frames /\ s = rxq[0][1] /\ 1 \in 0..Len(rxq[0])
      /\ b \in Seq(Frames) /\ Len(b) = Len(rxq[0]) - 1
      /\ \A i \in 1..(Len(rxq[0]) - 1) : b[i] = rxq[0][1 + i]
  <2>1. /\ s \in Frames /\ b \in Seq(Frames) /\ Len(b) = Len(rxq[0]) - 1
        /\ \A i \in 1..Len(b) : b[i] = rxq[0][i + 1]
    BY <1>1, <1>3, HeadTailProperties
  <2>2. Len(rxq[0]) \in Nat /\ Len(rxq[0]) > 0 /\ s = rxq[0][1]
    BY <1>1, <1>3, EmptySeq
  <2> HIDE DEF b, s
  <2> QED BY <2>1, <2>2
<1> HIDE DEF s, b
<1>5. /\ rxq' \in [0..(nq - 1) -> Seq(Frames)]
      /\ \A x : InQueue(x) /\ (\A k \in 1..1 : rxq[0][k] # x) => InQueue(x)'
  BY <1>1, <1>2, <1>4, CutLeaves
<1>6. faults' \in Nat /\ (faults' = 0 => faults = 0 /\ ok)
  <2>1. CASE ok
    BY <1>1, <1>2, <2>1 DEF Called
  <2>2. CASE ~ok
    <3>1. faults' = faults + 1
      BY <1>1, <2>2 DEF Called, Fault
    <3> QED BY <1>2, <3>1
  <2> QED BY <2>1, <2>2
<1>7. received' \in Nat /\ counted' \in [Seqs -> Nat]
  <2>1. CASE s = Noise
    BY <1>1, <1>2, <2>1
  <2>2. CASE s # Noise
    <3>1. s \in Seqs
      BY <1>4, <2>2 DEF Frames
    <3> QED BY <1>1, <1>2, <2>2, <3>1
  <2> QED BY <2>1, <2>2
<1>8. pc' \in Ended \union {"send", "await"}
      /\ (pc' = "send" => sent < Count)
      /\ (pc' = "await" => s = Noise)
  BY <1>1 DEF Ended
<1>9. BenchTypes'
  <2>1. /\ window' \in 1..MaxWindow /\ nq' \in 1..MaxQueues /\ timed' \in BOOLEAN
        /\ echo_count' \in {Count, Count + 1}
        /\ sent' \in 0..Count
        /\ cursor' \in 0..(nq' - 1)
        /\ echo' \in {"on", "closing", "closed"}
        /\ echoed' \in Nat
        /\ wire' \subseteq 0..(sent' - 1)
        /\ posted' \subseteq Seqs
        /\ dropped' \subseteq Seqs
    BY <1>0, <1>1 DEF BenchTypes
  <2>2. rxq' \in [0..(nq' - 1) -> Seq(Frames)] /\ window' = 1
    BY <1>1, <1>2, <1>5
  <2>3. pc' \in Ended \union {"fill", "poll", "send", "await"}
        /\ pc' \notin {"fill", "poll"}
    BY <1>8 DEF Ended
  <2> QED BY <1>6, <1>7, <2>1, <2>2, <2>3 DEF BenchTypes
<1>10. Windowed'
  BY <1>1, <1>2 DEF Windowed
<1>11. StopAndWait'
  BY <1>1, <1>2, <1>8 DEF StopAndWait
<1>12. Delivery'
  <2> SUFFICES ASSUME Orderly' PROVE Delivery'
    BY DEF Delivery
  <2>1. Orderly
    BY <1>1, <1>6, OrderlyBefore DEF opts
  <2>2. pc' # "failed"
    BY <1>1, <1>6 DEF Orderly
  <2>3. ASSUME NEW x \in Owed'
        PROVE  (x \in wire \union posted \union dropped \/ InQueue(x))'
    <3>1. pc' = "await" /\ x = sent - 1
      BY <1>1, <1>2, <2>3 DEF Owed
    <3>2. s = Noise
      BY <1>8, <3>1
    <3>3. x \in Owed
      BY <1>1, <1>2, <3>1 DEF Owed
    <3>4. x \in wire \union posted \union dropped \/ InQueue(x)
      BY <1>0, <1>1, <2>1, <3>3 DEF Delivery
    <3>5. x # Noise
      BY <1>2, <3>1 DEF Noise
    <3>6. \A k \in 1..1 : rxq[0][k] # x
      <4>1. \A k \in 1..1 : k = 1
        OBVIOUS
      <4>2. rxq[0][1] # x
        BY <1>4, <3>2, <3>5
      <4> QED BY <4>1, <4>2
    <3>7. InQueue(x) => InQueue(x)'
      BY <1>5, <3>6
    <3> QED BY <1>1, <3>4, <3>7
  <2>4. /\ sent = echoed + Cardinality(wire)
        /\ echo # "on" => echoed = echo_count
        /\ echo # "closed" => dropped = {}
    BY <1>0, <2>1 DEF Delivery
  <2> QED BY <1>1, <2>2, <2>3, <2>4 DEF Delivery
<1> QED BY <1>9, <1>10, <1>11, <1>12 DEF BenchInv

\* A window of 1: nothing comes on queue 0.
LEMMA AwaitTimeoutKeeps ==
  ASSUME BenchInv, AwaitTimeout
  PROVE  BenchInv'
<1>0. BenchTypes /\ Delivery
  BY DEF BenchInv
<1>1. /\ pc = "await" /\ rxq[0] = <<>> /\ pc' = "failed"
      /\ Called(timed => ~ReplyUnderway)
      /\ UNCHANGED <<opts, slots, sent, received, inflight, cursor, counted, peer, net>>
  BY DEF AwaitTimeout
<1>2. window = 1 /\ faults \in Nat
  BY <1>0, <1>1 DEF BenchTypes
<1>3. faults' \in Nat /\ (faults' = 0 => faults = 0 /\ (timed => ~ReplyUnderway))
  <2>1. CASE timed => ~ReplyUnderway
    BY <1>1, <1>2, <2>1 DEF Called
  <2>2. CASE ~(timed => ~ReplyUnderway)
    <3>1. faults' = faults + 1
      BY <1>1, <2>2 DEF Called, Fault
    <3> QED BY <1>2, <3>1
  <2> QED BY <2>1, <2>2
<1>4. ASSUME Orderly' PROVE dropped # {} /\ echo_count = Count
  <2>1. faults' = 0
    BY <1>4 DEF Orderly
  <2>2. Orderly
    BY <1>1, <1>3, <1>4, OrderlyBefore
  <2>3. nq = 1 /\ timed
    BY <1>2, <2>2 DEF Orderly
  <2>4. ~ReplyUnderway
    BY <1>3, <2>1, <2>3
  <2>5. \A q \in DOMAIN rxq : rxq[q] = <<>>
    <3>1. DOMAIN rxq = 0..(nq - 1)
      BY <1>0, Numbers
    <3>2. DOMAIN rxq = {0}
      BY <2>3, <3>1
    <3> QED BY <1>1, <3>2
  <2>6. Owed # {}
    BY <1>1, <1>2 DEF Owed
  <2> QED BY <1>0, <1>1, <2>2, <2>4, <2>5, <2>6, GivesUp
<1> QED BY <1>1, <1>3, <1>4, StopKeeps

-------------------------------------------------------------------------------
(***************************************************************************)
(* raw-echo and the network keep the invariant.                            *)
(***************************************************************************)

\* What is left to show when raw-bench does nothing.
LEMMA OthersStep ==
  ASSUME BenchInv, UNCHANGED <<opts, bench>>, wire' \subseteq wire,
         posted' \subseteq Seqs, dropped' \subseteq Seqs,
         echo' \in {"on", "closing", "closed"}, echoed' \in Nat,
         rxq' \in [0..(nq - 1) -> Seq(Frames)], faults' \in Nat, Delivery'
  PROVE  BenchInv'
<1>0. BenchTypes /\ Windowed /\ StopAndWait
  BY DEF BenchInv
<1>1. /\ window' = window /\ nq' = nq /\ timed' = timed /\ echo_count' = echo_count
      /\ pc' = pc /\ sent' = sent /\ received' = received
      /\ cursor' = cursor /\ counted' = counted
  BY DEF opts, bench
<1>2. wire' \subseteq 0..(sent - 1)
  <2>1. wire \subseteq 0..(sent - 1)
    BY <1>0 DEF BenchTypes
  <2> QED BY <2>1, Zenon
<1>3. BenchTypes'
  BY <1>0, <1>1, <1>2 DEF BenchTypes
<1>4. Windowed' /\ StopAndWait'
  BY <1>0, BenchIdle
<1> QED BY <1>3, <1>4 DEF BenchInv

\* Delivery, when raw-bench does nothing and no frame it is owed is lost.
LEMMA NothingLost ==
  ASSUME BenchInv, pc \notin Ended, UNCHANGED <<opts, bench>>, faults' = 0 => faults = 0,
         Orderly => /\ sent = echoed' + Cardinality(wire')
                    /\ echo' # "on" => echoed' = echo_count
                    /\ echo' # "closed" => dropped' = {}
                    /\ \A s :
                         s \in wire \union posted \union dropped \/ InQueue(s) =>
                           s \in wire' \union posted' \union dropped' \/ InQueue(s)'
  PROVE  Delivery'
<1> SUFFICES ASSUME Orderly' PROVE Delivery'
  BY DEF Delivery
<1>0. Delivery
  BY DEF BenchInv
<1>1. /\ window' = window /\ echo_count' = echo_count /\ pc' = pc
      /\ sent' = sent /\ slots' = slots
  BY DEF opts, bench
<1>2. Orderly
  BY OrderlyBefore
<1>3. Owed' = Owed
  BY <1>1 DEF Owed, Waiting
<1>4. pc # "failed"
  BY DEF Ended
<1>5. ASSUME NEW s \in Owed
      PROVE  s \in wire' \union posted' \union dropped' \/ InQueue(s)'
  <2>1. s \in wire \union posted \union dropped \/ InQueue(s)
    BY <1>0, <1>2, <1>4, <1>5 DEF Delivery
  <2> QED BY <1>2, <2>1
<1> QED BY <1>1, <1>2, <1>3, <1>4, <1>5 DEF Delivery

\* A frame leaves the wire.
LEMMA WireShrinks ==
  ASSUME BenchTypes, NEW s \in wire, wire' = wire \ {s}
  PROVE  Cardinality(wire) = Cardinality(wire') + 1
<1>1. IsFiniteSet(wire) /\ Cardinality(wire) \in Nat
  BY Numbers
<1>2. Cardinality(wire \ {s}) = Cardinality(wire) - 1
  BY <1>1, FS_RemoveElement
<1>3. Cardinality(wire') = Cardinality(wire \ {s})
  BY Zenon
<1> QED BY <1>1, <1>2, <1>3

\* raw-echo answers a frame: it goes from the wire to the send queue.
LEMMA EchoKeeps ==
  ASSUME BenchInv, pc \notin Ended, NEW s \in Seqs, Echo(s)
  PROVE  BenchInv'
<1>0. BenchTypes /\ Delivery
  BY DEF BenchInv
<1>1. /\ echo = "on" /\ s \in wire
      /\ wire' = wire \ {s} /\ posted' = posted \union {s} /\ echoed' = echoed + 1
      /\ echo' = IF echoed + 1 = echo_count THEN "closing" ELSE "on"
      /\ UNCHANGED <<opts, bench>>
      /\ rxq' = rxq /\ dropped' = dropped /\ faults' = faults
  BY DEF Echo
<1>2. /\ echoed \in Nat /\ faults \in Nat
      /\ posted \subseteq Seqs /\ dropped \subseteq Seqs
      /\ rxq \in [0..(nq - 1) -> Seq(Frames)] /\ sent \in Nat
  BY <1>0, Numbers DEF BenchTypes
<1>3. /\ wire' \subseteq wire /\ posted' \subseteq Seqs
      /\ echo' \in {"on", "closing", "closed"} /\ echoed' \in Nat
      /\ echo' # "on" => echoed' = echo_count
      /\ echo' # "closed"
  BY <1>1, <1>2
<1>4. ASSUME Orderly
      PROVE  /\ sent = echoed' + Cardinality(wire')
             /\ dropped' = {}
  <2>1. sent = echoed + Cardinality(wire) /\ dropped = {}
    BY <1>0, <1>1, <1>4 DEF Delivery
  <2>2. Cardinality(wire) = Cardinality(wire') + 1
    BY <1>0, <1>1, WireShrinks
  <2>3. Cardinality(wire) \in Nat /\ Cardinality(wire') \in Int
    <3>1. IsFiniteSet(wire \ {s})
      BY <1>0, Numbers, FS_RemoveElement
    <3>2. Cardinality(wire \ {s}) \in Nat
      BY <3>1, FS_CardinalityType
    <3>3. Cardinality(wire') \in Nat
      BY <1>1, <3>2, Zenon
    <3> QED BY <1>0, <3>3, Numbers
  <2> QED BY <1>1, <1>2, <2>1, <2>2, <2>3
<1>5. \A x : InQueue(x) => InQueue(x)'
  BY <1>1 DEF InQueue
<1>6. \A x : x \in wire \union posted \union dropped
                => x \in wire' \union posted' \union dropped'
  BY <1>1
<1>7. Delivery'
  BY <1>1, <1>3, <1>4, <1>5, <1>6, NothingLost
<1> QED BY <1>1, <1>2, <1>3, <1>7, OthersStep

\* A call of raw-echo fails.
LEMMA EchoFailsKeeps ==
  ASSUME BenchInv, NEW s \in wire, EchoFails(s)
  PROVE  BenchInv'
<1>0. BenchTypes
  BY DEF BenchInv
<1>1. /\ Fault /\ wire' = wire \ {s} /\ echo' = "closing"
      /\ \/ posted' = posted \union {s} /\ echoed' = echoed + 1
         \/ posted' = posted /\ echoed' = echoed
      /\ UNCHANGED <<opts, bench>> /\ rxq' = rxq /\ dropped' = dropped
  BY DEF EchoFails
<1>2. /\ echoed \in Nat /\ faults \in Nat
      /\ posted \subseteq Seqs /\ dropped \subseteq Seqs
      /\ rxq \in [0..(nq - 1) -> Seq(Frames)] /\ wire \subseteq Seqs
  BY <1>0, Numbers DEF BenchTypes
<1>3. wire' \subseteq wire /\ posted' \subseteq Seqs
  BY <1>1, <1>2
<1>4. echoed' \in Nat
  BY <1>1, <1>2
<1>5. faults' \in Nat /\ Delivery'
  BY <1>1, <1>2, FaultEnds
<1> QED BY <1>1, <1>2, <1>3, <1>4, <1>5, OthersStep

\* raw-echo gives up, which in an orderly run it has no reason to.
LEMMA EchoTimeoutKeeps ==
  ASSUME BenchInv, pc \notin Ended, EchoTimeout
  PROVE  BenchInv'
<1>0. BenchTypes
  BY DEF BenchInv
<1>1. /\ echo = "on" /\ wire = {} /\ Called(BenchQuiet) /\ echo' = "closing"
      /\ UNCHANGED <<opts, bench>> /\ echoed' = echoed /\ posted' = posted
      /\ dropped' = dropped /\ wire' = wire /\ rxq' = rxq
  BY DEF EchoTimeout, net
<1>2. /\ echoed \in Nat /\ faults \in Nat
      /\ posted \subseteq Seqs /\ dropped \subseteq Seqs
      /\ rxq \in [0..(nq - 1) -> Seq(Frames)]
  BY <1>0, Numbers DEF BenchTypes
<1>3. faults' \in Nat /\ Delivery'
  <2>1. CASE BenchQuiet
    <3>1. faults' = faults
      BY <1>1, <2>1 DEF Called
    <3>2. ~Orderly
      BY <1>1, <2>1, NeverQuiet
    <3>3. ~Orderly'
      BY <1>1, <3>1, <3>2, OrderlyBefore
    <3> QED BY <1>2, <3>1, <3>3 DEF Delivery
  <2>2. CASE ~BenchQuiet
    <3>1. Fault
      BY <1>1, <2>2 DEF Called
    <3> QED BY <1>2, <3>1, FaultEnds
  <2> QED BY <2>1, <2>2
<1> QED BY <1>1, <1>2, <1>3, OthersStep

\* raw-echo closes its device on what it has posted.
LEMMA EchoCloseKeeps ==
  ASSUME BenchInv, pc \notin Ended, EchoClose
  PROVE  BenchInv'
<1>0. BenchTypes /\ Delivery
  BY DEF BenchInv
<1>1. /\ echo = "closing" /\ echo' = "closed" /\ posted' = {} /\ dropped' = posted
      /\ UNCHANGED <<opts, bench>> /\ echoed' = echoed /\ wire' = wire
      /\ rxq' = rxq /\ faults' = faults
  BY DEF EchoClose, net
<1>2. /\ echoed \in Nat /\ posted \subseteq Seqs /\ faults \in Nat
      /\ rxq \in [0..(nq - 1) -> Seq(Frames)]
  BY <1>0, Numbers DEF BenchTypes
<1>3. ASSUME Orderly
      PROVE  /\ sent = echoed + Cardinality(wire) /\ echoed = echo_count
             /\ dropped = {}
  BY <1>0, <1>1, <1>3 DEF Delivery
<1>4. Cardinality(wire') = Cardinality(wire)
  BY <1>1, Zenon
<1>5. \A x : InQueue(x) => InQueue(x)'
  BY <1>1 DEF InQueue
<1>6. dropped = {} => \A x : x \in wire \union posted \union dropped
                               => x \in wire' \union posted' \union dropped'
  BY <1>1
<1>7. Delivery'
  BY <1>1, <1>3, <1>4, <1>5, <1>6, NothingLost
<1> QED BY <1>1, <1>2, <1>7, OthersStep

\* An answer arrives in one of the queues.
LEMMA ReplyKeeps ==
  ASSUME BenchInv, pc \notin Ended, NEW s \in posted, NEW q \in DOMAIN rxq, Reply(s, q)
  PROVE  BenchInv'
<1>0. BenchTypes /\ Delivery
  BY DEF BenchInv
<1>1. /\ Arrive(s, q) /\ posted' = posted \ {s} /\ UNCHANGED <<opts, bench>>
      /\ echo' = echo /\ echoed' = echoed /\ dropped' = dropped /\ wire' = wire
      /\ faults' = faults
  BY DEF Reply
<1>2. /\ echo \in {"on", "closing", "closed"} /\ echoed \in Nat /\ posted \subseteq Seqs
      /\ dropped \subseteq Seqs /\ faults \in Nat /\ nq \in Nat \ {0}
      /\ rxq \in [0..(nq - 1) -> Seq(Frames)] /\ q \in 0..(nq - 1) /\ s \in Frames
  BY <1>0, Numbers DEF BenchTypes, Frames
<1>3. /\ rxq' \in [0..(nq - 1) -> Seq(Frames)]
      /\ InQueue(s)'
      /\ \A x : InQueue(x) => InQueue(x)'
  BY <1>1, <1>2, ArriveAdds
<1>4. posted' \subseteq Seqs /\ wire' \subseteq wire
  BY <1>1, <1>2
<1>5. Orderly => /\ sent = echoed + Cardinality(wire)
                 /\ echo # "on" => echoed = echo_count
                 /\ echo # "closed" => dropped = {}
  BY <1>0 DEF Delivery
<1>6. Cardinality(wire') = Cardinality(wire)
  BY <1>1, Zenon
<1>7. \A x : x \in wire \union posted \union dropped
               => x = s \/ x \in wire' \union posted' \union dropped'
  BY <1>1
<1>8. Delivery'
  BY <1>1, <1>3, <1>5, <1>6, <1>7, NothingLost
<1> QED BY <1>1, <1>2, <1>3, <1>4, <1>8, OthersStep

\* A frame comes twice, which is a fault, or one that is no reply.
LEMMA StrayKeeps ==
  ASSUME BenchInv, pc \notin Ended, NEW x \in Frames, NEW q \in DOMAIN rxq,
         Fault \/ faults' = faults, Arrive(x, q),
         UNCHANGED <<opts, bench, peer, wire>>
  PROVE  BenchInv'
<1>0. BenchTypes /\ Delivery
  BY DEF BenchInv
<1>1. /\ UNCHANGED <<opts, bench>> /\ echo' = echo /\ echoed' = echoed
      /\ posted' = posted /\ dropped' = dropped /\ wire' = wire
  BY DEF peer
<1>2. /\ echo \in {"on", "closing", "closed"} /\ echoed \in Nat /\ posted \subseteq Seqs
      /\ dropped \subseteq Seqs /\ faults \in Nat /\ nq \in Nat \ {0}
      /\ rxq \in [0..(nq - 1) -> Seq(Frames)] /\ q \in 0..(nq - 1)
  BY <1>0, Numbers DEF BenchTypes
<1>3. /\ rxq' \in [0..(nq - 1) -> Seq(Frames)]
      /\ \A s : InQueue(s) => InQueue(s)'
  BY <1>2, ArriveAdds
<1>4. faults' \in Nat /\ Delivery'
  <2>1. CASE Fault
    BY <1>2, <2>1, FaultEnds
  <2>2. CASE faults' = faults
    <3>1. Orderly => /\ sent = echoed + Cardinality(wire)
                     /\ echo # "on" => echoed = echo_count
                     /\ echo # "closed" => dropped = {}
      BY <1>0 DEF Delivery
    <3>2. Cardinality(wire') = Cardinality(wire)
      BY <1>1, Zenon
    <3>3. Delivery'
      BY <1>1, <1>3, <2>2, <3>1, <3>2, NothingLost
    <3> QED BY <1>2, <2>2, <3>3
  <2> QED BY <2>1, <2>2
<1> QED BY <1>1, <1>2, <1>3, <1>4, OthersStep

\* A frame is lost on its way.
LEMMA LoseKeeps ==
  ASSUME BenchInv, NEW s \in Seqs, Lose(s)
  PROVE  BenchInv'
<1>0. BenchTypes
  BY DEF BenchInv
<1>1. /\ Fault /\ wire' = wire \ {s} /\ posted' = posted \ {s}
      /\ UNCHANGED <<opts, bench>> /\ echo' = echo /\ echoed' = echoed
      /\ dropped' = dropped /\ rxq' = rxq
  BY DEF Lose
<1>2. /\ echo \in {"on", "closing", "closed"} /\ echoed \in Nat /\ posted \subseteq Seqs
      /\ dropped \subseteq Seqs /\ faults \in Nat
      /\ rxq \in [0..(nq - 1) -> Seq(Frames)]
  BY <1>0, Numbers DEF BenchTypes
<1>3. wire' \subseteq wire /\ posted' \subseteq Seqs
  BY <1>1, <1>2
<1>4. faults' \in Nat /\ Delivery'
  BY <1>1, <1>2, FaultEnds
<1> QED BY <1>1, <1>2, <1>3, <1>4, OthersStep

\* All steps of raw-echo and the network.
LEMMA NetworkKeeps ==
  ASSUME BenchInv, Network
  PROVE  BenchInv'
<1>0. pc \notin Ended
  BY DEF Network
<1>1. CASE Answer
  BY <1>0, <1>1, EchoKeeps DEF Answer
<1>2. CASE \E s \in wire : EchoFails(s)
  BY <1>2, EchoFailsKeeps
<1>3. CASE EchoTimeout
  BY <1>0, <1>3, EchoTimeoutKeeps
<1>4. CASE EchoClose
  BY <1>0, <1>4, EchoCloseKeeps
<1>5. CASE Transmit
  BY <1>0, <1>5, ReplyKeeps DEF Transmit
<1>6. CASE \E s \in posted, q \in DOMAIN rxq : ReplyTwice(s, q)
  <2>1. PICK s \in posted, q \in DOMAIN rxq : ReplyTwice(s, q)
    BY <1>6
  <2>2. s \in Frames
    BY DEF BenchInv, BenchTypes, Frames
  <2> QED BY <1>0, <2>1, <2>2, StrayKeeps DEF ReplyTwice
<1>7. CASE \E s \in Seqs : Lose(s)
  BY <1>7, LoseKeeps
<1>8. CASE \E q \in DOMAIN rxq : OtherFrame(q)
  <2>1. Noise \in Frames
    BY DEF Frames
  <2> QED BY <1>0, <1>8, <2>1, StrayKeeps DEF OtherFrame
<1> QED BY <1>1, <1>2, <1>3, <1>4, <1>5, <1>6, <1>7, <1>8 DEF Network

-------------------------------------------------------------------------------
\* A step that changes nothing.
LEMMA StutterKeeps ==
  ASSUME BenchInv, UNCHANGED vars
  PROVE  BenchInv'
<1>0. BenchTypes /\ Delivery
  BY DEF BenchInv
<1>1. /\ UNCHANGED <<opts, bench>> /\ echo' = echo /\ echoed' = echoed
      /\ posted' = posted /\ dropped' = dropped /\ wire' = wire /\ rxq' = rxq
      /\ faults' = faults
  BY DEF vars, peer, net
<1>2. /\ echo \in {"on", "closing", "closed"} /\ echoed \in Nat /\ posted \subseteq Seqs
      /\ dropped \subseteq Seqs /\ faults \in Nat
      /\ rxq \in [0..(nq - 1) -> Seq(Frames)]
  BY <1>0, Numbers DEF BenchTypes
<1>3. Delivery'
  <2>1. /\ window' = window /\ nq' = nq /\ timed' = timed /\ echo_count' = echo_count
        /\ pc' = pc /\ sent' = sent /\ slots' = slots
    BY <1>1 DEF opts, bench
  <2>2. Orderly' => Orderly
    BY <1>1, OrderlyBefore
  <2>3. Owed' = Owed
    BY <2>1 DEF Owed, Waiting
  <2>4. \A s : InQueue(s)' <=> InQueue(s)
    BY <1>1 DEF InQueue
  <2> QED BY <1>0, <1>1, <2>1, <2>2, <2>3, <2>4 DEF Delivery
<1> QED BY <1>1, <1>2, <1>3, OthersStep

(***************************************************************************)
(* Every step of raw-bench, raw-echo and the network keeps the invariant.  *)
(***************************************************************************)
LEMMA NextKeeps == BenchInv /\ [Next]_vars => BenchInv'
<1> SUFFICES ASSUME BenchInv, [Next]_vars PROVE BenchInv'
  OBVIOUS
<1>1. CASE Fill
  BY <1>1, FillKeeps
<1>2. CASE \E ok \in BOOLEAN : Poll(ok)
  BY <1>2, PollKeeps
<1>3. CASE PollNothing
  BY <1>3, PollNothingKeeps
<1>4. CASE SendOne
  BY <1>4, SendOneKeeps
<1>5. CASE \E ok \in BOOLEAN : AwaitOne(ok)
  BY <1>5, AwaitOneKeeps
<1>6. CASE AwaitTimeout
  BY <1>6, AwaitTimeoutKeeps
<1>7. CASE FillFails \/ SendOneFails
  BY <1>7, CallFailsKeeps
<1>8. CASE Network
  BY <1>8, NetworkKeeps
<1>9. CASE UNCHANGED vars
  BY <1>9, StutterKeeps
<1>10. Next => \/ Fill \/ (\E ok \in BOOLEAN : Poll(ok)) \/ PollNothing \/ SendOne
               \/ (\E ok \in BOOLEAN : AwaitOne(ok)) \/ AwaitTimeout
               \/ (FillFails \/ SendOneFails) \/ Network
  BY Zenon DEF Next, Run, Fail
<1> QED BY <1>1, <1>2, <1>3, <1>4, <1>5, <1>6, <1>7, <1>8, <1>9, <1>10

(***************************************************************************)
(* sample_raw_bench against sample_raw_echo: the invariant holds in every  *)
(* run, whatever is lost, doubled or late.                                 *)
(***************************************************************************)
THEOREM BenchInvariant == Spec => []BenchInv
BY InitHolds, NextKeeps, PTL DEF Spec

(***************************************************************************)
(* The books of the window: inflight is the number of slots in use, every  *)
(* frame in flight is in its own slot and at most window behind sent, what *)
(* was sent is received or in flight, and the poll never waits for         *)
(* nothing.                                                                *)
(***************************************************************************)
THEOREM BenchBooksBalance == Spec => []BenchAccounting
<1>1. BenchInv => BenchAccounting
  <2> SUFFICES ASSUME BenchInv PROVE BenchAccounting
    OBVIOUS
  <2>0. BenchTypes /\ Windowed
    BY DEF BenchInv
  <2>1. pc \in {"fill", "poll", "send", "await"} \union Ended
    BY <2>0 DEF BenchTypes
  <2>2. ASSUME window > 1, pc # "failed"
        PROVE  /\ \A i \in DOMAIN slots : slots[i] = Free \/ slots[i] % window = i
               /\ Waiting \subseteq (sent - window)..(sent - 1)
               /\ inflight = Cardinality(Waiting)
               /\ sent = received + inflight
               /\ pc = "poll" => inflight > 0
    <3>1. Books(slots, inflight, received, counted, sent) /\ (pc = "poll" => inflight > 0)
      BY <2>0, <2>2 DEF Windowed
    <3>2. Pending(slots) = Waiting
      BY DEF Pending, Waiting
    <3> QED BY <3>1, <3>2 DEF Books
  <2> QED BY <2>1, <2>2 DEF BenchAccounting
<1> QED BY <1>1, BenchInvariant, PTL

(***************************************************************************)
(* sample_bench_slot_find: a reply that comes twice, or for a slot taken   *)
(* since, is not counted again, and a run that ends well has counted a     *)
(* reply to every frame.                                                   *)
(***************************************************************************)
THEOREM BenchCountsOnce == Spec => []EachReplyOnce
<1>1. BenchInv => EachReplyOnce
  <2> SUFFICES ASSUME BenchInv, window > 1, NEW s \in Seqs
               PROVE  counted[s] <= 1 /\ (pc = "ok" => counted[s] = 1)
    BY DEF EachReplyOnce
  <2>0. BenchTypes /\ Windowed
    BY DEF BenchInv
  <2>1. counted[s] <= 1
    BY <2>0 DEF Windowed
  <2>2. ASSUME pc = "ok" PROVE counted[s] = 1
    <3>1. Books(slots, inflight, received, counted, sent) /\ received >= Count
      BY <2>0, <2>2 DEF Windowed
    <3>2. /\ window \in Nat \ {0} /\ sent \in Nat /\ sent \in Int /\ sent <= Count
          /\ received \in Nat /\ Count \in Nat
      BY <2>0, Numbers
    <3>3. /\ Pending(slots) \in SUBSET ((sent - window)..(sent - 1))
          /\ inflight = Cardinality(Pending(slots)) /\ inflight \in Nat
          /\ sent = received + inflight
      BY <3>1 DEF Books
    <3>4. inflight = 0 /\ sent = Count
      BY <3>1, <3>2, <3>3
    <3>5. IsFiniteSet(Pending(slots))
      BY <3>2, <3>3, PendingFits
    <3>6. Pending(slots) = {}
      BY <3>3, <3>4, <3>5, FS_EmptySet
    <3>7. s < sent
      BY <3>2, <3>4 DEF Seqs
    <3> QED BY <3>1, <3>6, <3>7 DEF Books
  <2> QED BY <2>1, <2>2
<1> QED BY <1>1, BenchInvariant, PTL

(***************************************************************************)
(* Without a fault, and unless raw-echo closed its device on answers it    *)
(* had counted as sent, raw-bench fails only because the stop-and-wait     *)
(* loop polls queue 0 only, or without a timeout.                          *)
(***************************************************************************)
THEOREM BenchFailsOnlyIfUnpolled == Spec => []FailsOnlyIfUnpolled
<1>1. BenchInv => FailsOnlyIfUnpolled
  <2> SUFFICES ASSUME BenchInv, pc = "failed", faults = 0,
                      echo_count > Count \/ dropped = {}
               PROVE  window = 1 /\ (nq > 1 \/ ~timed)
    BY DEF FailsOnlyIfUnpolled, UnpolledOrUntimed
  <2>1. BenchTypes /\ Delivery
    BY DEF BenchInv
  <2>2. CASE Orderly
    <3>1. dropped # {} /\ echo_count = Count
      BY <2>1, <2>2 DEF Delivery
    <3>2. ~(echo_count > Count)
      BY <3>1, Constants
    <3> QED BY <3>1, <3>2
  <2>3. CASE ~Orderly
    <3>1. window \in Nat \ {0} /\ nq \in Nat \ {0}
      BY <2>1, Numbers
    <3>2. ~(window > 1) /\ ~(nq = 1 /\ timed)
      BY <2>3 DEF Orderly
    <3>3. window = 1 /\ (nq = 1 \/ nq > 1)
      BY <3>1, <3>2
    <3> QED BY <3>2, <3>3
  <2> QED BY <2>2, <2>3
<1> QED BY <1>1, BenchInvariant, PTL

===============================================================================
