----------------------------- MODULE WorkersProofs -----------------------------
(***************************************************************************)
(* Proofs about Workers, for every number of frames and of queues, every   *)
(* window, batch and burst, every hash of the flows and any number of      *)
(* faults.                                                                 *)
(*                                                                         *)
(* The programs compare totals, so the first section is about sums: what   *)
(* SumTo does when one element changes, and that two sums are equal only   *)
(* if their elements are, when none of these is the larger.  WorkersInv is *)
(* the inductive invariant.  InvSent and InvEnded say what each worker has *)
(* given to the device and had done when it ended; InvWindow counts the    *)
(* frames that are under way; InvQuiet is the account of a run in which    *)
(* nothing went wrong, worker by worker.                                   *)
(***************************************************************************)
EXTENDS Workers, RingArithmetic, FiniteSetTheorems, SequenceTheorems

-------------------------------------------------------------------------------
(***************************************************************************)
(* Sums.                                                                   *)
(***************************************************************************)

\* The equation behind SumTo.
Adds(f, sum, k) == IF k = 0 THEN 0 ELSE sum[k - 1] + f[k]

\* The recursive function in SumTo exists.
LEMMA SumEquation ==
  ASSUME NEW f, NEW n \in Nat
  PROVE  \E s : s = [k \in 0..n |-> Adds(f, s, k)]
<1> DEFINE T == {m \in Nat : \E s : s = [k \in 0..m |-> Adds(f, s, k)]}
<1>1. 0 \in T
  <2> DEFINE z == [k \in 0..0 |-> 0]
  <2>1. \A k \in 0..0 : Adds(f, z, k) = 0
    BY DEF Adds
  <2>2. z = [k \in 0..0 |-> Adds(f, z, k)]
    BY <2>1
  <2>3. \E s : s = [k \in 0..0 |-> Adds(f, s, k)]
    BY <2>2
  <2> QED BY <2>3
<1>2. ASSUME NEW m \in Nat, m \in T
      PROVE  m + 1 \in T
  <2>1. PICK s : s = [k \in 0..m |-> Adds(f, s, k)]
    BY <1>2
  <2> DEFINE g == [k \in 0..(m + 1) |-> Adds(f, s, k)]
  <2>2. ASSUME NEW k \in 0..m PROVE g[k] = s[k]
    <3>1. s[k] = Adds(f, s, k)
      BY <2>1
    <3>2. k \in 0..(m + 1)
      OBVIOUS
    <3> QED BY <3>1, <3>2
  <2>3. ASSUME NEW k \in 0..(m + 1) PROVE Adds(f, s, k) = Adds(f, g, k)
    <3> HIDE DEF g
    <3>1. CASE k = 0
      BY <3>1 DEF Adds
    <3>2. CASE k # 0
      <4>1. k - 1 \in 0..m
        BY <3>2
      <4>2. g[k - 1] = s[k - 1]
        BY <4>1, <2>2
      <4> QED BY <4>2, Zenon DEF Adds
    <3> QED BY <3>1, <3>2
  <2>4. g = [k \in 0..(m + 1) |-> Adds(f, g, k)]
    BY <2>3, Zenon
  <2> HIDE DEF g
  <2>5. \E h : h = [k \in 0..(m + 1) |-> Adds(f, h, k)]
    BY <2>4
  <2> QED BY <2>5
<1> HIDE DEF T
<1>3. Nat \subseteq T
  BY <1>1, <1>2, SetInduction
<1> QED BY <1>3 DEF T

\* It adds up one element after the other.
LEMMA SumExists ==
  ASSUME NEW f, NEW n \in Nat
  PROVE  \E s : /\ s[0] = 0
                /\ \A k \in 1..n : s[k] = s[k - 1] + f[k]
                /\ SumTo(f, n) = s[n]
<1> DEFINE P(s) == s = [k \in 0..n |-> Adds(f, s, k)]
           F == CHOOSE s : P(s)
<1>1. P(F)
  <2>1. \E s : P(s)
    BY SumEquation, Zenon
  <2> QED BY <2>1, Zenon
<1>2. SumTo(f, n) = F[n]
  BY Zenon DEF SumTo, Adds
<1> HIDE DEF F
<1>3. \A k \in 0..n : F[k] = Adds(f, F, k)
  BY <1>1, Zenon
<1>4. F[0] = 0
  BY <1>3 DEF Adds
<1>5. ASSUME NEW k \in 1..n PROVE F[k] = F[k - 1] + f[k]
  <2>1. k # 0 /\ k \in 0..n
    OBVIOUS
  <2> QED BY <1>3, <2>1, Zenon DEF Adds
<1> QED BY <1>2, <1>4, <1>5

\* The sum of nothing.
LEMMA SumZero ==
  ASSUME NEW f
  PROVE  SumTo(f, 0) = 0
BY SumExists

\* One more element.
LEMMA SumStep ==
  ASSUME NEW f, NEW n \in Nat
  PROVE  SumTo(f, n + 1) = SumTo(f, n) + f[n + 1]
<1>1. PICK s : /\ s[0] = 0
               /\ \A k \in 1..n : s[k] = s[k - 1] + f[k]
               /\ SumTo(f, n) = s[n]
  BY SumExists
<1>2. PICK t : /\ t[0] = 0
               /\ \A k \in 1..(n + 1) : t[k] = t[k - 1] + f[k]
               /\ SumTo(f, n + 1) = t[n + 1]
  BY SumExists
<1> DEFINE T == {k \in Nat : k <= n => s[k] = t[k]}
<1>3. 0 \in T
  BY <1>1, <1>2
<1>4. ASSUME NEW k \in Nat, k \in T
      PROVE  k + 1 \in T
  <2> SUFFICES ASSUME k + 1 <= n PROVE s[k + 1] = t[k + 1]
    OBVIOUS
  <2>1. s[k] = t[k]
    BY <1>4
  <2>2. k + 1 \in 1..n /\ k + 1 \in 1..(n + 1) /\ (k + 1) - 1 = k
    OBVIOUS
  <2> QED BY <1>1, <1>2, <2>1, <2>2
<1> HIDE DEF T
<1>5. Nat \subseteq T
  BY <1>3, <1>4, SetInduction
<1>6. s[n] = t[n]
  BY <1>5 DEF T
<1>7. t[n + 1] = t[n] + f[n + 1]
  BY <1>2
<1> QED BY <1>1, <1>2, <1>6, <1>7

\* A sum of integers is an integer, and of naturals a natural.
LEMMA SumTypes ==
  ASSUME NEW n \in Nat, NEW f, \A k \in 1..n : f[k] \in Int
  PROVE  /\ SumTo(f, n) \in Int
         /\ (\A k \in 1..n : f[k] \in Nat) => SumTo(f, n) \in Nat
<1> DEFINE Nats == \A k \in 1..n : f[k] \in Nat
           T == {m \in Nat : m <= n => /\ SumTo(f, m) \in Int
                                       /\ Nats => SumTo(f, m) \in Nat}
<1>1. 0 \in T
  BY SumZero
<1>2. ASSUME NEW m \in Nat, m \in T
      PROVE  m + 1 \in T
  <2> SUFFICES ASSUME m + 1 <= n
               PROVE  /\ SumTo(f, m + 1) \in Int
                      /\ Nats => SumTo(f, m + 1) \in Nat
    OBVIOUS
  <2>1. SumTo(f, m) \in Int /\ (Nats => SumTo(f, m) \in Nat)
    BY <1>2
  <2>2. m + 1 \in 1..n
    OBVIOUS
  <2>3. f[m + 1] \in Int /\ (Nats => f[m + 1] \in Nat)
    BY <2>2
  <2>4. SumTo(f, m + 1) = SumTo(f, m) + f[m + 1]
    BY SumStep
  <2> HIDE DEF Nats
  <2> QED BY <2>1, <2>3, <2>4
<1> HIDE DEF T
<1>3. Nat \subseteq T
  BY <1>1, <1>2, SetInduction
<1> QED BY <1>3 DEF T

\* A sum is as large as its elements make it; if it is no larger than a sum of
\* elements that are at least as large, they are the same.
LEMMA SumOrder ==
  ASSUME NEW n \in Nat, NEW f, NEW g, \A k \in 1..n : f[k] \in Int /\ g[k] \in Int,
         \A k \in 1..n : f[k] <= g[k]
  PROVE  /\ SumTo(f, n) <= SumTo(g, n)
         /\ SumTo(f, n) = SumTo(g, n) => \A k \in 1..n : f[k] = g[k]
<1> DEFINE T == {m \in Nat : m <= n =>
                   /\ SumTo(f, m) \in Int /\ SumTo(g, m) \in Int
                   /\ SumTo(f, m) <= SumTo(g, m)
                   /\ SumTo(f, m) = SumTo(g, m) => \A k \in 1..m : f[k] = g[k]}
<1>1. 0 \in T
  BY SumZero
<1>2. ASSUME NEW m \in Nat, m \in T
      PROVE  m + 1 \in T
  <2> SUFFICES ASSUME m + 1 <= n
               PROVE  /\ SumTo(f, m + 1) \in Int /\ SumTo(g, m + 1) \in Int
                      /\ SumTo(f, m + 1) <= SumTo(g, m + 1)
                      /\ SumTo(f, m + 1) = SumTo(g, m + 1)
                           => \A k \in 1..(m + 1) : f[k] = g[k]
    OBVIOUS
  <2>1. /\ SumTo(f, m) \in Int /\ SumTo(g, m) \in Int
        /\ SumTo(f, m) <= SumTo(g, m)
        /\ SumTo(f, m) = SumTo(g, m) => \A k \in 1..m : f[k] = g[k]
    BY <1>2
  <2>2. f[m + 1] \in Int /\ g[m + 1] \in Int /\ f[m + 1] <= g[m + 1]
    OBVIOUS
  <2>3. /\ SumTo(f, m + 1) = SumTo(f, m) + f[m + 1]
        /\ SumTo(g, m + 1) = SumTo(g, m) + g[m + 1]
    BY SumStep
  <2>4. SumTo(f, m + 1) = SumTo(g, m + 1)
          => SumTo(f, m) = SumTo(g, m) /\ f[m + 1] = g[m + 1]
    BY <2>1, <2>2, <2>3
  <2>5. \A k \in 1..(m + 1) : k \in 1..m \/ k = m + 1
    OBVIOUS
  <2>6. SumTo(f, m + 1) = SumTo(g, m + 1) => \A k \in 1..(m + 1) : f[k] = g[k]
    BY <2>1, <2>4, <2>5
  <2> QED BY <2>1, <2>2, <2>3, <2>6
<1> HIDE DEF T
<1>3. Nat \subseteq T
  BY <1>1, <1>2, SetInduction
<1> QED BY <1>3 DEF T

\* The same elements have the same sum.
LEMMA SumSame ==
  ASSUME NEW n \in Nat, NEW f, NEW g, \A k \in 1..n : f[k] = g[k]
  PROVE  SumTo(f, n) = SumTo(g, n)
<1> DEFINE T == {m \in Nat : m <= n => SumTo(f, m) = SumTo(g, m)}
<1>1. 0 \in T
  BY SumZero
<1>2. ASSUME NEW m \in Nat, m \in T
      PROVE  m + 1 \in T
  <2> SUFFICES ASSUME m + 1 <= n PROVE SumTo(f, m + 1) = SumTo(g, m + 1)
    OBVIOUS
  <2>1. SumTo(f, m) = SumTo(g, m)
    BY <1>2
  <2>2. f[m + 1] = g[m + 1]
    OBVIOUS
  <2> QED BY <2>1, <2>2, SumStep
<1> HIDE DEF T
<1>3. Nat \subseteq T
  BY <1>1, <1>2, SetInduction
<1> QED BY <1>3 DEF T

\* One element grows, or shrinks, by d.
LEMMA SumUpdate ==
  ASSUME NEW n \in Nat, NEW j \in 1..n, NEW d \in Int, NEW f, NEW g,
         \A k \in 1..n : f[k] \in Int,
         g[j] = f[j] + d,
         \A k \in 1..n : k # j => g[k] = f[k]
  PROVE  SumTo(g, n) = SumTo(f, n) + d
<1> DEFINE T == {m \in Nat : m <= n =>
                   /\ SumTo(f, m) \in Int
                   /\ SumTo(g, m) = SumTo(f, m) + (IF m >= j THEN d ELSE 0)}
<1>1. 0 \in T
  BY SumZero
<1>2. ASSUME NEW m \in Nat, m \in T
      PROVE  m + 1 \in T
  <2> SUFFICES ASSUME m + 1 <= n
               PROVE  /\ SumTo(f, m + 1) \in Int
                      /\ SumTo(g, m + 1) = SumTo(f,
                           m + 1) + (IF m + 1 >= j THEN d ELSE 0)
    OBVIOUS
  <2>1. SumTo(f, m) \in Int /\ SumTo(g, m) = SumTo(f, m) + (IF m >= j THEN d ELSE 0)
    BY <1>2
  <2>2. m + 1 \in 1..n
    OBVIOUS
  <2>3. f[m + 1] \in Int /\ g[m + 1] = IF m + 1 = j THEN f[m + 1] + d ELSE f[m + 1]
    BY <2>2
  <2>4. /\ SumTo(f, m + 1) = SumTo(f, m) + f[m + 1]
        /\ SumTo(g, m + 1) = SumTo(g, m) + g[m + 1]
    BY SumStep
  <2>5. CASE m + 1 = j
    BY <2>1, <2>3, <2>4, <2>5
  <2>6. CASE m + 1 # j
    BY <2>1, <2>3, <2>4, <2>6
  <2> QED BY <2>5, <2>6
<1> HIDE DEF T
<1>3. Nat \subseteq T
  BY <1>1, <1>2, SetInduction
<1> QED BY <1>3 DEF T

\* A constant added to every element.
LEMMA SumShift ==
  ASSUME NEW n \in Nat, NEW d \in Int, NEW f, NEW g,
         \A k \in 1..n : f[k] \in Int,
         \A k \in 1..n : g[k] = f[k] + d
  PROVE  SumTo(g, n) = SumTo(f, n) + n * d
<1> DEFINE T == {m \in Nat : m <= n =>
                   SumTo(f, m) \in Int /\ SumTo(g, m) = SumTo(f, m) + m * d}
<1>1. 0 \in T
  BY SumZero
<1>2. ASSUME NEW m \in Nat, m \in T
      PROVE  m + 1 \in T
  <2> SUFFICES ASSUME m + 1 <= n
               PROVE  /\ SumTo(f, m + 1) \in Int
                      /\ SumTo(g, m + 1) = SumTo(f, m + 1) + (m + 1) * d
    OBVIOUS
  <2>1. SumTo(f, m) \in Int /\ SumTo(g, m) = SumTo(f, m) + m * d
    BY <1>2
  <2>2. f[m + 1] \in Int /\ g[m + 1] = f[m + 1] + d
    OBVIOUS
  <2>3. /\ SumTo(f, m + 1) = SumTo(f, m) + f[m + 1]
        /\ SumTo(g, m + 1) = SumTo(g, m) + g[m + 1]
    BY SumStep
  <2>4. (m + 1) * d = m * d + d /\ m * d \in Int
    OBVIOUS
  <2> QED BY <2>1, <2>2, <2>3, <2>4
<1> HIDE DEF T
<1>3. Nat \subseteq T
  BY <1>1, <1>2, SetInduction
<1> QED BY <1>3 DEF T

\* A sum of differences.
LEMMA SumTelescope ==
  ASSUME NEW n \in Nat, NEW f, NEW b, \A k \in 0..n : b[k] \in Int,
         \A k \in 1..n : f[k] = b[k] - b[k - 1]
  PROVE  SumTo(f, n) = b[n] - b[0]
<1> DEFINE T == {m \in Nat : m <= n => SumTo(f, m) = b[m] - b[0]}
<1>1. 0 \in T
  BY SumZero
<1>2. ASSUME NEW m \in Nat, m \in T
      PROVE  m + 1 \in T
  <2> SUFFICES ASSUME m + 1 <= n PROVE SumTo(f, m + 1) = b[m + 1] - b[0]
    OBVIOUS
  <2>1. SumTo(f, m) = b[m] - b[0]
    BY <1>2
  <2>2. m + 1 \in 1..n /\ (m + 1) - 1 = m
    OBVIOUS
  <2>3. f[m + 1] = b[m + 1] - b[m] /\ b[0] \in Int /\ b[m] \in Int /\ b[m + 1] \in Int
    BY <2>2
  <2> QED BY <2>1, <2>3, SumStep
<1> HIDE DEF T
<1>3. Nat \subseteq T
  BY <1>1, <1>2, SetInduction
<1> QED BY <1>3 DEF T

\* A sum in two parts.
LEMMA SumSplit ==
  ASSUME NEW m \in Nat, NEW n \in Nat, NEW f, NEW g,
         \A k \in 1..(m + n) : f[k] \in Int,
         \A k \in 1..n : g[k] = f[m + k]
  PROVE  SumTo(f, m + n) = SumTo(f, m) + SumTo(g, n)
<1> DEFINE T == {i \in Nat : i <= n =>
                   SumTo(g, i) \in Int /\ SumTo(f, m + i) = SumTo(f, m) + SumTo(g, i)}
<1>1. SumTo(f, m) \in Int
  BY SumTypes
<1>2. 0 \in T
  BY <1>1, SumZero
<1>3. ASSUME NEW i \in Nat, i \in T
      PROVE  i + 1 \in T
  <2> SUFFICES ASSUME i + 1 <= n
               PROVE  /\ SumTo(g, i + 1) \in Int
                      /\ SumTo(f, m + (i + 1)) = SumTo(f, m) + SumTo(g, i + 1)
    OBVIOUS
  <2>1. SumTo(g, i) \in Int /\ SumTo(f, m + i) = SumTo(f, m) + SumTo(g, i)
    BY <1>3
  <2>2. /\ m + i \in Nat /\ m + (i + 1) = (m + i) + 1
        /\ i + 1 \in 1..n /\ (m + i) + 1 \in 1..(m + n)
    OBVIOUS
  <2>3. g[i + 1] = f[(m + i) + 1] /\ f[(m + i) + 1] \in Int
    BY <2>2
  <2>4. /\ SumTo(f, (m + i) + 1) = SumTo(f, m + i) + f[(m + i) + 1]
        /\ SumTo(g, i + 1) = SumTo(g, i) + g[i + 1]
    BY <2>2, SumStep
  <2> QED BY <1>1, <2>1, <2>2, <2>3, <2>4
<1> HIDE DEF T
<1>4. Nat \subseteq T
  BY <1>2, <1>3, SetInduction
<1> QED BY <1>4 DEF T

-------------------------------------------------------------------------------
(***************************************************************************)
(* The inductive invariant.                                                *)
(***************************************************************************)
Frames == Seq({"reply", "other"})

\* The frames of worker q, and how many of them it has counted as sent.
Own(q) == SeqBegin(q)..(SeqEnd(q) - 1)

Sent(q) == seq_next[q] - SeqBegin(q)

Places == IF mode = "bench" THEN {"none", "turn", "poll", "idle", "end"}
                            ELSE {"none", "malloc", "spin", "turn", "flush", "end"}

InvTypes ==
  /\ mode \in {"bench", "flood"}
  /\ nq \in Nat \ {0}
  /\ window \in Nat
  /\ rss \in [Seqs -> Threads]
  /\ main \in {"create", "join", "abort", "out", "closed"}
  /\ created \in 0..nq
  /\ rc \in {0, -1}
  /\ failed \in BOOLEAN
  /\ pc \in [Threads -> Places]
  /\ seq_next \in [Threads -> Nat]
  /\ replies \in [Threads -> Nat]
  /\ wire \subseteq Seqs
  /\ rxq \in [Threads -> Frames]
  /\ sends \in [Seqs -> Nat]
  /\ faults \in Nat

\* The threads that are there, and what the main thread knows of them.
InvThreads ==
  /\ \A q \in Threads : pc[q] = "none" <=> q >= created
  /\ main = "join" => created = nq
  /\ main \in {"out", "closed"} => \A q \in Threads : pc[q] \in {"none", "end"}
  /\ rc = 0 => /\ main \in {"out", "closed"}
               /\ created = nq
               /\ Succeeded

\* The frames of worker q that were given to the device.
InvSent ==
  \A q \in Threads :
    /\ seq_next[q] \in SeqBegin(q)..SeqEnd(q)
    /\ \A s \in Own(q) :
         /\ sends[s] \in {0, 1}
         /\ s < seq_next[q] /\ ~failed => sends[s] = 1
         /\ s >= seq_next[q] /\ pc[q] \notin {"flush", "end"} => sends[s] = 0
         /\ s \in wire => sends[s] = 1

\* What a worker that has ended has done, unless it was told to stop.
InvEnded ==
  ~failed =>
    \A q \in Threads :
      /\ mode = "bench" /\ pc[q] = "end" => replies[q] >= Share(q)
      /\ pc[q] = "flush" => seq_next[q] = SeqEnd(q)
      /\ mode = "flood" /\ pc[q] = "end" => seq_next[q] = SeqEnd(q) /\ Flushed(q)

\* No reply without a frame, and no frame before its turn in the window.
InvWindow ==
  mode = "bench" =>
    /\ Outstanding + TotalReceived <= TotalSent + faults
    /\ \A q \in Threads : Sent(q) <= replies[q] + Window(q)

\* A run in which nothing went wrong and no reply goes astray.
InvQuiet ==
  faults = 0 /\ (mode = "bench" => ~Steered) =>
    /\ ~failed
    /\ main # "abort"
    /\ main \in {"out", "closed"} => rc = 0
    /\ mode = "bench" =>
         \A q \in Threads :
           /\ Sent(q) = replies[q] + Reflections(rxq[q]) + Cardinality(wire \intersect Own(q))
           /\ pc[q] = "idle" => replies[q] < Share(q) /\ replies[q] < Sent(q)

WorkersInv ==
  /\ InvTypes
  /\ InvThreads
  /\ InvSent
  /\ InvEnded
  /\ InvWindow
  /\ InvQuiet

-------------------------------------------------------------------------------
(***************************************************************************)
(* The operators of the model.                                             *)
(***************************************************************************)

\* The larger of two numbers.
LEMMA MaxTwo ==
  ASSUME NEW a \in Int, NEW b \in Int
  PROVE  Max({a, b}) = IF a >= b THEN a ELSE b
<1> DEFINE S == {a, b}
<1>1. \E x \in S : \A y \in S : x >= y
  OBVIOUS
<1>2. Max(S) \in S /\ \A y \in S : Max(S) >= y
  BY <1>1, Zenon DEF Max
<1> QED BY <1>2

\* The smaller of two numbers.
LEMMA MinTwo ==
  ASSUME NEW a \in Int, NEW b \in Int
  PROVE  Min({a, b}) = IF a <= b THEN a ELSE b
<1> DEFINE S == {a, b}
<1>1. \E x \in S : \A y \in S : x =< y
  OBVIOUS
<1>2. Min(S) \in S /\ \A y \in S : Min(S) =< y
  BY <1>1, Zenon DEF Min
<1> QED BY <1>2

\* The smallest of three.
LEMMA MinThree ==
  ASSUME NEW a \in Int, NEW b \in Int, NEW c \in Int
  PROVE  /\ Min({a, b, c}) \in {a, b, c}
         /\ Min({a, b, c}) <= a /\ Min({a, b, c}) <= b /\ Min({a, b, c}) <= c
<1> DEFINE S == {a, b, c}
<1>1. \E x \in S : \A y \in S : x =< y
  OBVIOUS
<1>2. Min(S) \in S /\ \A y \in S : Min(S) =< y
  BY <1>1, Zenon DEF Min
<1> QED BY <1>2

\* The quotient grows with what is divided.
LEMMA DivOrder ==
  ASSUME NEW m \in Nat \ {0}, NEW a \in Nat, NEW b \in Nat, a <= b
  PROVE  a \div m \in Nat /\ a \div m <= b \div m
<1> DEFINE x == a \div m
           y == b \div m
           r == a % m
           t == b % m
<1>1. x \in Int /\ y \in Int /\ r \in 0..(m - 1) /\ t \in 0..(m - 1)
  BY DivMod
<1>2. a = m * x + r /\ b = m * y + t
  BY DivMod
<1> HIDE DEF x, y, r, t
<1>3. x >= 0
  <2> SUFFICES ASSUME x <= -1 PROVE FALSE
    BY <1>1
  <2>1. m * (-1 - x) >= 0
    BY <1>1
  <2>2. m * (-1 - x) = -m - m * x /\ m * x \in Int
    BY <1>1
  <2> QED BY <1>1, <1>2, <2>1, <2>2
<1>4. x <= y
  <2> SUFFICES ASSUME x - y >= 1 PROVE FALSE
    BY <1>1
  <2>1. m * (x - y - 1) >= 0
    BY <1>1
  <2>2. m * (x - y - 1) = m * x - m * y - m /\ m * x \in Int /\ m * y \in Int
    BY <1>1
  <2> QED BY <1>1, <1>2, <2>1, <2>2
<1> QED BY <1>1, <1>3, <1>4 DEF x, y

\* The shares follow one another from 0 to Count.
LEMMA Shares ==
  ASSUME InvTypes
  PROVE  /\ Count \in Nat \ {0}
         /\ \A q \in 0..nq : SeqBegin(q) \in Nat
         /\ SeqBegin(0) = 0 /\ SeqBegin(nq) = Count
         /\ \A q \in Threads : q + 1 \in 0..nq /\ SeqEnd(q) = SeqBegin(q + 1)
         /\ \A p, q \in 0..nq : p <= q => SeqBegin(p) <= SeqBegin(q)
<1>1. Count \in Nat \ {0} /\ nq \in Nat \ {0}
  BY WorkersAssumption DEF InvTypes
<1>2. ASSUME NEW p \in 0..nq, NEW q \in 0..nq, p <= q
      PROVE  SeqBegin(p) \in Nat /\ SeqBegin(p) <= SeqBegin(q)
  <2>1. Count * p \in Nat /\ Count * q \in Nat
    BY <1>1
  <2>2. Count * (q - p) >= 0 /\ Count * (q - p) = Count * q - Count * p
    BY <1>1, <1>2
  <2>3. Count * p <= Count * q
    BY <2>1, <2>2
  <2> QED BY <1>1, <2>1, <2>3, DivOrder DEF SeqBegin
<1>3. SeqBegin(0) = 0
  <2>1. nq * 0 + 0 = Count * 0
    BY <1>1
  <2>2. (nq * 0 + 0) \div nq = 0
    BY <1>1, DivModUnique
  <2> QED BY <2>1, <2>2 DEF SeqBegin
<1>4. SeqBegin(nq) = Count
  <2>1. nq * Count + 0 = Count * nq
    BY <1>1
  <2>2. (nq * Count + 0) \div nq = Count
    <3>1. 0 \in 0..(nq - 1) /\ Count \in Int
      BY <1>1
    <3> QED BY <1>1, <3>1, DivModUnique
  <2> QED BY <2>1, <2>2 DEF SeqBegin
<1>5. \A q \in Threads : q + 1 \in 0..nq /\ SeqEnd(q) = SeqBegin(q + 1)
  BY <1>1 DEF Threads, SeqEnd, SeqBegin
<1> QED BY <1>1, <1>2, <1>3, <1>4, <1>5

\* No frame belongs to two workers, and each to one.
LEMMA OwnRanges ==
  ASSUME InvTypes
  PROVE  /\ \A q \in Threads : /\ SeqBegin(q) \in Nat /\ SeqEnd(q) \in Nat
                               /\ SeqBegin(q) <= SeqEnd(q)
                               /\ Own(q) \subseteq Seqs
         /\ \A p, q \in Threads : p # q => Own(p) \intersect Own(q) = {}
         /\ \A s \in Seqs : \E q \in Threads : s \in Own(q)
<1>1. nq \in Nat \ {0} /\ Count \in Nat
  BY Shares DEF InvTypes
<1>2. ASSUME NEW q \in Threads
      PROVE  /\ q \in 0..nq /\ q + 1 \in 0..nq /\ q <= q + 1
             /\ SeqEnd(q) = SeqBegin(q + 1)
             /\ SeqBegin(q) \in Nat /\ SeqEnd(q) \in Nat
             /\ SeqBegin(q) <= SeqEnd(q)
             /\ SeqEnd(q) <= Count
  <2>1. q \in 0..nq /\ q + 1 \in 0..nq /\ q <= q + 1 /\ q + 1 <= nq /\ nq \in 0..nq
    BY <1>1 DEF Threads
  <2>2. SeqEnd(q) = SeqBegin(q + 1) /\ SeqBegin(q) \in Nat /\ SeqBegin(q + 1) \in Nat
    BY <2>1, Shares
  <2>3. SeqBegin(q) <= SeqBegin(q + 1) /\ SeqBegin(q + 1) <= Count
    BY <2>1, Shares
  <2> QED BY <2>1, <2>2, <2>3
<1>3. ASSUME NEW p \in Threads, NEW q \in Threads, p < q
      PROVE  SeqEnd(p) <= SeqBegin(q)
  <2>1. p + 1 <= q
    BY <1>1, <1>3 DEF Threads
  <2> QED BY <1>2, <2>1, Shares
<1>4. \A p, q \in Threads : p # q => Own(p) \intersect Own(q) = {}
  <2> SUFFICES ASSUME NEW p \in Threads, NEW q \in Threads, p < q
               PROVE  Own(p) \intersect Own(q) = {}
    BY <1>1 DEF Threads
  <2> QED BY <1>2, <1>3 DEF Own
<1>5. ASSUME NEW s \in Seqs
      PROVE  \E q \in Threads : s \in Own(q)
  <2> DEFINE T == {k \in Nat : k <= nq /\ s < SeqBegin(k)
               => \E q \in Threads : s \in Own(q)}
  <2>1. 0 \in T
    BY Shares DEF Seqs
  <2>2. ASSUME NEW k \in Nat, k \in T
        PROVE  k + 1 \in T
    <3> SUFFICES ASSUME k + 1 <= nq, s < SeqBegin(k + 1)
                 PROVE  \E q \in Threads : s \in Own(q)
      OBVIOUS
    <3>1. k \in Threads
      BY <1>1 DEF Threads
    <3>2. CASE s < SeqBegin(k)
      BY <1>1, <2>2, <3>2
    <3>3. CASE ~(s < SeqBegin(k))
      <4>1. s \in Own(k)
        BY <1>1, <1>2, <3>1, <3>3 DEF Own, Seqs
      <4> QED BY <3>1, <4>1
    <3> QED BY <3>2, <3>3
  <2> HIDE DEF T
  <2>3. nq \in T
    BY <1>1, <2>1, <2>2, SetInduction
  <2>4. s < SeqBegin(nq)
    BY <1>1, Shares DEF Seqs
  <2> QED BY <1>1, <2>3, <2>4 DEF T
<1> QED BY <1>1, <1>2, <1>4, <1>5 DEF Own, Seqs

\* The shares add up to Count.
LEMMA SharesAddUp ==
  ASSUME InvTypes
  PROVE  SumTo([i \in 1..nq |-> Share(i - 1)], nq) = Count
<1> DEFINE f == [i \in 1..nq |-> Share(i - 1)]
           b == [k \in 0..nq |-> SeqBegin(k)]
<1>1. nq \in Nat /\ Count \in Nat
  BY Shares DEF InvTypes
<1>2. \A k \in 0..nq : b[k] \in Int
  BY Shares
<1>3. ASSUME NEW k \in 1..nq
      PROVE  f[k] = b[k] - b[k - 1]
  <2>1. k - 1 \in Threads /\ k - 1 \in 0..nq /\ k \in 0..nq /\ (k - 1) + 1 = k
    BY <1>1 DEF Threads
  <2>2. SeqEnd(k - 1) = SeqBegin(k)
    BY <2>1, Shares
  <2> QED BY <2>1, <2>2 DEF Share
<1>4. b[0] = 0 /\ b[nq] = Count
  BY <1>1, Shares
<1> HIDE DEF f, b
<1>5. SumTo(f, nq) = b[nq] - b[0]
  BY <1>1, <1>2, <1>3, SumTelescope
<1> QED BY <1>1, <1>4, <1>5 DEF f

\* The replies in a queue are a natural number.
LEMMA ReflectionsType ==
  ASSUME NEW s \in Frames
  PROVE  Reflections(s) \in Nat
<1> DEFINE f == [i \in 1..Len(s) |-> IF s[i] = "reply" THEN 1 ELSE 0]
<1>1. Len(s) \in Nat
  BY DEF Frames
<1>2. \A k \in 1..Len(s) : f[k] \in Nat
  OBVIOUS
<1> HIDE DEF f
<1>3. SumTo(f, Len(s)) \in Nat
  BY <1>1, <1>2, SumTypes
<1> QED BY <1>3 DEF Reflections, f

\* An empty queue holds no reply.
LEMMA ReflectionsEmpty == Reflections(<<>>) = 0
<1>1. Len(<<>>) = 0
  OBVIOUS
<1> QED BY <1>1, SumZero DEF Reflections

\* A frame at the end is one reply more, or none.
LEMMA ReflectionsAppend ==
  ASSUME NEW s \in Frames, NEW e \in {"reply", "other"}
  PROVE  /\ Append(s, e) \in Frames
         /\ Reflections(Append(s, e)) = Reflections(s) + (IF e = "reply" THEN 1 ELSE 0)
<1> DEFINE n == Len(s)
           t == Append(s, e)
           f == [i \in 1..Len(s) |-> IF s[i] = "reply" THEN 1 ELSE 0]
           g == [i \in 1..Len(t) |-> IF t[i] = "reply" THEN 1 ELSE 0]
<1>1. n \in Nat /\ t \in Frames /\ Len(t) = n + 1
  BY DEF Frames
<1>2. /\ \A i \in 1..n : t[i] = s[i]
      /\ t[n + 1] = e
  BY AppendProperties DEF Frames
<1> HIDE DEF t
<1>3. \A k \in 1..n : g[k] = f[k]
  <2> TAKE k \in 1..n
  <2>1. k \in 1..Len(t)
    BY <1>1
  <2> QED BY <1>2, <2>1
<1>4. g[n + 1] = IF e = "reply" THEN 1 ELSE 0
  <2>1. n + 1 \in 1..Len(t)
    BY <1>1
  <2> QED BY <1>2, <2>1
<1> HIDE DEF f, g
<1>5. SumTo(g, n) = SumTo(f, n)
  BY <1>1, <1>3, SumSame
<1>6. SumTo(g, n + 1) = SumTo(g, n) + g[n + 1]
  BY <1>1, SumStep
<1>7. Reflections(s) = SumTo(f, n) /\ Reflections(t) = SumTo(g, n + 1)
  BY <1>1 DEF Reflections, f, g
<1> QED BY <1>1, <1>4, <1>5, <1>6, <1>7 DEF t

\* The replies before a cut and after it are all the replies.
LEMMA ReflectionsCut ==
  ASSUME NEW s \in Frames, NEW m \in 0..Len(s)
  PROVE  /\ SubSeq(s, 1, m) \in Frames /\ Len(SubSeq(s, 1, m)) = m
         /\ SubSeq(s, m + 1, Len(s)) \in Frames
         /\ Reflections(s) = Reflections(SubSeq(s, 1, m))
                               + Reflections(SubSeq(s, m + 1, Len(s)))
<1> DEFINE a == SubSeq(s, 1, m)
           b == SubSeq(s, m + 1, Len(s))
           n == Len(s) - m
           f == [i \in 1..Len(s) |-> IF s[i] = "reply" THEN 1 ELSE 0]
           g == [i \in 1..Len(a) |-> IF a[i] = "reply" THEN 1 ELSE 0]
           h == [i \in 1..Len(b) |-> IF b[i] = "reply" THEN 1 ELSE 0]
<1>1. Len(s) \in Nat /\ m \in Nat /\ n \in Nat /\ n = Len(s) - m
  BY DEF Frames
<1>2. \A i \in 1..Len(s) : s[i] \in {"reply", "other"}
  BY DEF Frames
<1>3. a \in Frames /\ Len(a) = m /\ \A i \in 1..m : a[i] = s[i]
  <2>1. \A i \in 1..m : s[i] \in {"reply", "other"}
    BY <1>1, <1>2
  <2>2. /\ a \in Seq({"reply", "other"})
        /\ Len(a) = IF 1 <= m THEN m - 1 + 1 ELSE 0
        /\ \A i \in 1..(m - 1 + 1) : a[i] = s[1 + i - 1]
    BY <1>1, <2>1, SubSeqProperties
  <2>3. \A i \in 1..m : a[i] = s[i]
    <3> TAKE i \in 1..m
    <3>1. i \in 1..(m - 1 + 1) /\ 1 + i - 1 = i
      BY <1>1
    <3> QED BY <2>2, <3>1
  <2> HIDE DEF a
  <2> QED BY <1>1, <2>2, <2>3 DEF Frames
<1>4. b \in Frames /\ Len(b) = n /\ \A i \in 1..n : b[i] = s[m + i]
  <2>1. \A i \in (m + 1)..Len(s) : s[i] \in {"reply", "other"}
    BY <1>1, <1>2
  <2>2. /\ b \in Seq({"reply", "other"})
        /\ Len(b) = IF m + 1 <= Len(s) THEN Len(s) - (m + 1) + 1 ELSE 0
        /\ \A i \in 1..(Len(s) - (m + 1) + 1) : b[i] = s[(m + 1) + i - 1]
    BY <1>1, <2>1, SubSeqProperties
  <2>3. \A i \in 1..n : b[i] = s[m + i]
    <3> TAKE i \in 1..n
    <3>1. i \in 1..(Len(s) - (m + 1) + 1) /\ (m + 1) + i - 1 = m + i
      BY <1>1
    <3> QED BY <2>2, <3>1
  <2> HIDE DEF b
  <2>4. Len(b) = IF m + 1 <= Len(s) THEN Len(s) - (m + 1) + 1 ELSE 0
    BY <2>2
  <2>5. Len(b) = n
    BY <1>1, <2>4
  <2> QED BY <2>2, <2>3, <2>5 DEF Frames
<1> HIDE DEF a, b, n
<1>5. \A k \in 1..(m + n) : f[k] \in Int
  BY <1>1
<1>6. \A k \in 1..m : g[k] = f[k]
  BY <1>1, <1>3
<1>7. \A k \in 1..n : h[k] = f[m + k]
  <2> TAKE k \in 1..n
  <2>1. k \in 1..Len(b) /\ m + k \in 1..Len(s)
    BY <1>1, <1>4
  <2> QED BY <1>4, <2>1
<1>8. Reflections(s) = SumTo(f, m + n) /\ Reflections(a) = SumTo(g, m)
        /\ Reflections(b) = SumTo(h, n)
  BY <1>1, <1>3, <1>4 DEF Reflections
<1> HIDE DEF f, g, h
<1>9. SumTo(f, m + n) = SumTo(f, m) + SumTo(h, n)
  BY <1>1, <1>5, <1>7, SumSplit
<1>10. SumTo(g, m) = SumTo(f, m)
  BY <1>1, <1>6, SumSame
<1> QED BY <1>3, <1>4, <1>8, <1>9, <1>10 DEF a, b

-------------------------------------------------------------------------------
(***************************************************************************)
(* The totals, and what the operations do to them.                         *)
(***************************************************************************)
\* The replies in all receive queues.
Waiting == SumTo([i \in 1..nq |-> Reflections(rxq[i - 1])], nq)

\* The totals are natural numbers.
LEMMA Totals ==
  ASSUME InvTypes, InvSent
  PROVE  /\ TotalSent \in Nat /\ TotalReceived \in Nat /\ Waiting \in Nat
         /\ IsFiniteSet(wire) /\ Cardinality(wire) \in Nat
         /\ Outstanding = Cardinality(wire) + Waiting
<1> DEFINE f == [i \in 1..nq |-> seq_next[i - 1] - SeqBegin(i - 1)]
           g == [i \in 1..nq |-> replies[i - 1]]
           h == [i \in 1..nq |-> Reflections(rxq[i - 1])]
<1>1. nq \in Nat
  BY DEF InvTypes
<1>2. \A i \in 1..nq : i - 1 \in Threads
  BY <1>1 DEF Threads
<1>3. \A i \in 1..nq : f[i] \in Nat
  <2> TAKE i \in 1..nq
  <2>1. i - 1 \in Threads
    BY <1>2
  <2>2. /\ seq_next[i - 1] \in SeqBegin(i - 1)..SeqEnd(i - 1)
        /\ SeqBegin(i - 1) \in Nat /\ SeqEnd(i - 1) \in Nat
    BY <2>1, OwnRanges DEF InvSent
  <2> QED BY <2>2
<1>4. \A i \in 1..nq : g[i] \in Nat
  BY <1>2 DEF InvTypes
<1>5. \A i \in 1..nq : h[i] \in Nat
  <2> TAKE i \in 1..nq
  <2>1. rxq[i - 1] \in Frames
    BY <1>2 DEF InvTypes
  <2> QED BY <2>1, ReflectionsType
<1> HIDE DEF f, g, h
<1>6. SumTo(f, nq) \in Nat /\ SumTo(g, nq) \in Nat /\ SumTo(h, nq) \in Nat
  BY <1>1, <1>3, <1>4, <1>5, SumTypes
<1>7. IsFiniteSet(wire) /\ Cardinality(wire) \in Nat
  <2>1. IsFiniteSet(Seqs)
    BY Shares, FS_Interval DEF Seqs
  <2>2. wire \in SUBSET Seqs
    BY DEF InvTypes
  <2>3. IsFiniteSet(wire)
    BY <2>1, <2>2, FS_Subset
  <2> QED BY <2>3, FS_CardinalityType
<1> QED BY <1>6, <1>7 DEF TotalSent, TotalReceived, Waiting, Outstanding, f, g, h

\* Worker q counts d more frames as sent.
LEMMA SentGrows ==
  ASSUME InvTypes, InvSent, nq' = nq, NEW q \in Threads, NEW d \in Int,
         seq_next' = [seq_next EXCEPT ![q] = @ + d]
  PROVE  TotalSent' = TotalSent + d
<1> DEFINE f == [i \in 1..nq |-> seq_next[i - 1] - SeqBegin(i - 1)]
           g == [i \in 1..nq |-> seq_next'[i - 1] - SeqBegin(i - 1)]
<1>1. nq \in Nat /\ q + 1 \in 1..nq /\ \A i \in 1..nq : i - 1 \in Threads
  BY DEF InvTypes, Threads
<1>2. ASSUME NEW k \in 1..nq
      PROVE  f[k] \in Int /\ g[k] = IF k = q + 1 THEN f[k] + d ELSE f[k]
  <2>1. k - 1 \in Threads /\ seq_next[k - 1] \in Int /\ SeqBegin(k - 1) \in Int
    BY <1>1, OwnRanges DEF InvTypes
  <2>2. seq_next'[k - 1] = IF k - 1 = q THEN seq_next[k - 1] + d ELSE seq_next[k - 1]
    BY <2>1 DEF InvTypes
  <2>3. k - 1 = q <=> k = q + 1
    BY DEF Threads
  <2> QED BY <2>1, <2>2, <2>3
<1>3. TotalSent' = SumTo(g, nq) /\ TotalSent = SumTo(f, nq)
  BY DEF TotalSent, SeqBegin
<1> HIDE DEF f, g
<1>4. /\ \A k \in 1..nq : f[k] \in Int
      /\ g[q + 1] = f[q + 1] + d
      /\ \A k \in 1..nq : k # q + 1 => g[k] = f[k]
  BY <1>1, <1>2
<1>5. SumTo(g, nq) = SumTo(f, nq) + d
  BY <1>1, <1>4, SumUpdate
<1> QED BY <1>3, <1>5

\* Worker q counts d more replies.
LEMMA ReceivedGrows ==
  ASSUME InvTypes, nq' = nq, NEW q \in Threads, NEW d \in Int,
         replies' = [replies EXCEPT ![q] = @ + d]
  PROVE  TotalReceived' = TotalReceived + d
<1> DEFINE f == [i \in 1..nq |-> replies[i - 1]]
           g == [i \in 1..nq |-> replies'[i - 1]]
<1>1. nq \in Nat /\ q + 1 \in 1..nq /\ \A i \in 1..nq : i - 1 \in Threads
  BY DEF InvTypes, Threads
<1>2. ASSUME NEW k \in 1..nq
      PROVE  f[k] \in Int /\ g[k] = IF k = q + 1 THEN f[k] + d ELSE f[k]
  <2>1. k - 1 \in Threads /\ replies[k - 1] \in Int
    BY <1>1 DEF InvTypes
  <2>2. replies'[k - 1] = IF k - 1 = q THEN replies[k - 1] + d ELSE replies[k - 1]
    BY <2>1 DEF InvTypes
  <2>3. k - 1 = q <=> k = q + 1
    BY DEF Threads
  <2> QED BY <2>1, <2>2, <2>3
<1>3. TotalReceived' = SumTo(g, nq) /\ TotalReceived = SumTo(f, nq)
  BY DEF TotalReceived
<1> HIDE DEF f, g
<1>4. /\ \A k \in 1..nq : f[k] \in Int
      /\ g[q + 1] = f[q + 1] + d
      /\ \A k \in 1..nq : k # q + 1 => g[k] = f[k]
  BY <1>1, <1>2
<1>5. SumTo(g, nq) = SumTo(f, nq) + d
  BY <1>1, <1>4, SumUpdate
<1> QED BY <1>3, <1>5

\* The receive queue of worker q holds d more replies, or fewer.
LEMMA WaitingGrows ==
  ASSUME InvTypes, nq' = nq, NEW q \in Threads, NEW frames \in Frames, NEW d \in Int,
         rxq' = [rxq EXCEPT ![q] = frames],
         Reflections(frames) = Reflections(rxq[q]) + d
  PROVE  Waiting' = Waiting + d
<1> DEFINE f == [i \in 1..nq |-> Reflections(rxq[i - 1])]
           g == [i \in 1..nq |-> Reflections(rxq'[i - 1])]
<1>1. nq \in Nat /\ q + 1 \in 1..nq /\ \A i \in 1..nq : i - 1 \in Threads
  BY DEF InvTypes, Threads
<1>2. ASSUME NEW k \in 1..nq
      PROVE  f[k] \in Int /\ g[k] = IF k = q + 1 THEN f[k] + d ELSE f[k]
  <2>1. k - 1 \in Threads /\ rxq[k - 1] \in Frames
    BY <1>1 DEF InvTypes
  <2>2. Reflections(rxq[k - 1]) \in Nat
    BY <2>1, ReflectionsType
  <2>3. rxq'[k - 1] = IF k - 1 = q THEN frames ELSE rxq[k - 1]
    BY <2>1 DEF InvTypes
  <2>4. k - 1 = q <=> k = q + 1
    BY DEF Threads
  <2>5. g[k] = Reflections(rxq'[k - 1])
    OBVIOUS
  <2>6. CASE k = q + 1
    BY <2>2, <2>3, <2>4, <2>5, <2>6
  <2>7. CASE k # q + 1
    BY <2>2, <2>3, <2>4, <2>5, <2>7
  <2> QED BY <2>6, <2>7
<1>3. Waiting' = SumTo(g, nq) /\ Waiting = SumTo(f, nq)
  BY DEF Waiting
<1> HIDE DEF f, g
<1>4. /\ \A k \in 1..nq : f[k] \in Int
      /\ g[q + 1] = f[q + 1] + d
      /\ \A k \in 1..nq : k # q + 1 => g[k] = f[k]
  BY <1>1, <1>2
<1>5. SumTo(g, nq) = SumTo(f, nq) + d
  BY <1>1, <1>4, SumUpdate
<1> QED BY <1>3, <1>5

\* A worker's part of the window is at least one frame, and all parts together
\* are no more than the window unless there are more workers than that.
LEMMA WindowParts ==
  ASSUME InvTypes, NEW q
  PROVE  /\ Window(q) \in Nat \ {0}
         /\ Max({window, nq}) \in Nat
         /\ nq * Window(q) <= Max({window, nq})
<1>1. nq \in Nat \ {0} /\ window \in Nat
  BY DEF InvTypes
<1> DEFINE d == window \div nq
<1>2. d \in Nat
  BY <1>1, DivOrder
<1>3. nq * d <= window
  BY <1>1, DivMod
<1> HIDE DEF d
<1>4. Window(q) = IF d >= 1 THEN d ELSE 1
  BY <1>2, MaxTwo DEF Window, d
<1>5. Max({window, nq}) = IF window >= nq THEN window ELSE nq
  BY <1>1, MaxTwo
<1>6. nq * 1 = nq
  BY <1>1
<1> QED BY <1>1, <1>2, <1>3, <1>4, <1>5, <1>6

\* A batch stays in the worker's range and in its part of the window, and is
\* empty only if one of them is used up.
LEMMA BatchFits ==
  ASSUME InvTypes, InvSent, NEW q \in Threads
  PROVE  /\ Batch(q) \in Nat
         /\ seq_next[q] + Batch(q) <= SeqEnd(q)
         /\ Batch(q) > 0 => Sent(q) + Batch(q) <= replies[q] + Window(q)
         /\ Batch(q) = 0 => Sent(q) = Share(q) \/ Sent(q) > replies[q]
<1> DEFINE b == SeqEnd(q) - seq_next[q]
           w == replies[q] + Window(q) - (seq_next[q] - SeqBegin(q))
           m == Min({BatchCap, b, w})
<1>1. /\ BatchCap \in Nat \ {0} /\ Window(q) \in Nat \ {0}
      /\ replies[q] \in Nat /\ seq_next[q] \in Nat
      /\ SeqBegin(q) \in Nat /\ SeqEnd(q) \in Nat
      /\ seq_next[q] \in SeqBegin(q)..SeqEnd(q)
  BY WorkersAssumption, WindowParts, OwnRanges DEF InvTypes, InvSent
<1>2. b \in Nat /\ w \in Int
  BY <1>1
<1>3. /\ m \in {BatchCap, b, w}
      /\ m <= BatchCap /\ m <= b /\ m <= w
  <2>1. BatchCap \in Int /\ b \in Int /\ w \in Int
    BY <1>1, <1>2
  <2> HIDE DEF b, w
  <2> QED BY <2>1, MinThree, Zenon
<1>4. Batch(q) = Max({0, m})
  BY DEF Batch
<1> HIDE DEF m
<1>5. m \in Int
  BY <1>1, <1>2, <1>3
<1>6. Batch(q) = IF 0 >= m THEN 0 ELSE m
  BY <1>4, <1>5, MaxTwo
<1>7. Sent(q) = seq_next[q] - SeqBegin(q) /\ Share(q) = SeqEnd(q) - SeqBegin(q)
  BY DEF Sent, Share
<1>8. CASE m > 0
  BY <1>1, <1>3, <1>5, <1>6, <1>7, <1>8
<1>9. CASE ~(m > 0)
  <2>1. Batch(q) = 0
    BY <1>5, <1>6, <1>9
  <2>2. b = 0 \/ w <= 0
    BY <1>1, <1>2, <1>3, <1>9
  <2> QED BY <1>1, <1>7, <2>1, <2>2
<1> QED BY <1>5, <1>8, <1>9

\* A batch of raw-flood stays in the worker's range.
LEMMA FloodBatchFits ==
  ASSUME InvTypes, InvSent, NEW q \in Threads, seq_next[q] < SeqEnd(q)
  PROVE  FloodBatch(q) \in Nat /\ seq_next[q] + FloodBatch(q) <= SeqEnd(q)
<1>1. BatchCap \in Nat /\ seq_next[q] \in Nat /\ SeqEnd(q) \in Nat
  BY WorkersAssumption, OwnRanges DEF InvTypes
<1> DEFINE b == SeqEnd(q) - seq_next[q]
<1>2. b \in Nat
  BY <1>1
<1>3. FloodBatch(q) = IF BatchCap <= b THEN BatchCap ELSE b
  <2> HIDE DEF b
  <2> QED BY <1>1, <1>2, MinTwo DEF FloodBatch, b
<1> QED BY <1>1, <1>2, <1>3

\* What a worker takes from its receive queue, and what it leaves there.
LEMMA BurstCut ==
  ASSUME InvTypes, NEW q \in Threads
  PROVE  LET rest == SubSeq(rxq[q], Len(Burst(q)) + 1, Len(rxq[q]))
         IN  /\ Reflections(Burst(q)) \in Nat
             /\ rest \in Frames
             /\ Reflections(rxq[q]) = Reflections(Burst(q)) + Reflections(rest)
<1> DEFINE s == rxq[q]
           m == Min({Len(s), RxBurst})
<1>1. s \in Frames
  BY DEF InvTypes
<1>2. Len(s) \in Nat /\ RxBurst \in Nat
  BY <1>1, WorkersAssumption DEF Frames
<1>3. m = IF Len(s) <= RxBurst THEN Len(s) ELSE RxBurst
  BY <1>2, MinTwo
<1>4. Burst(q) = SubSeq(s, 1, m)
  BY DEF Burst
<1> HIDE DEF s, m
<1>5. m \in 0..Len(s)
  BY <1>2, <1>3
<1>6. /\ SubSeq(s, 1, m) \in Frames /\ Len(SubSeq(s, 1, m)) = m
      /\ SubSeq(s, m + 1, Len(s)) \in Frames
      /\ Reflections(s) = Reflections(SubSeq(s, 1, m))
                            + Reflections(SubSeq(s, m + 1, Len(s)))
  BY <1>1, <1>5, ReflectionsCut
<1>7. Reflections(SubSeq(s, 1, m)) \in Nat
  BY <1>6, ReflectionsType
<1> QED BY <1>4, <1>6, <1>7 DEF s

\* Frames given to the device: none of them was given before.
LEMMA Posted ==
  ASSUME InvTypes, InvSent, nq' = nq, NEW q \in Threads, NEW n \in Nat,
         seq_next[q] + n <= SeqEnd(q), pc[q] \notin {"flush", "end"}, Post(q, n)
  PROVE  LET new == seq_next[q]..(seq_next[q] + n - 1)
         IN  /\ wire' = wire \union new
             /\ wire' \subseteq Seqs
             /\ sends' \in [Seqs -> Nat]
             /\ rxq' = rxq
             /\ new \subseteq Own(q)
             /\ \A s \in Seqs : sends'[s] = IF s \in new THEN 1 ELSE sends[s]
             /\ \A p \in Threads : p # q
                  => wire' \intersect Own(p) = wire \intersect Own(p)
             /\ Cardinality(wire') = Cardinality(wire) + n
             /\ Cardinality(wire' \intersect Own(q)) = Cardinality(wire \intersect Own(q)) + n
<1> DEFINE new == seq_next[q]..(seq_next[q] + n - 1)
<1>1. /\ seq_next[q] \in Nat /\ SeqBegin(q) \in Nat /\ SeqEnd(q) \in Nat
      /\ SeqBegin(q) <= seq_next[q]
      /\ wire \subseteq Seqs /\ sends \in [Seqs -> Nat]
      /\ Own(q) \subseteq Seqs
  BY OwnRanges DEF InvTypes, InvSent
<1>2. new \subseteq Own(q) /\ \A s \in new : s >= seq_next[q]
  BY <1>1 DEF Own
<1>3. IsFiniteSet(new) /\ Cardinality(new) = n
  <2>1. seq_next[q] \in Int /\ seq_next[q] + n - 1 \in Int
    BY <1>1
  <2>2. /\ IsFiniteSet(new)
        /\ Cardinality(new) = IF seq_next[q] > seq_next[q] + n - 1 THEN 0
                              ELSE (seq_next[q] + n - 1) - seq_next[q] + 1
    BY <2>1, FS_Interval
  <2> HIDE DEF new
  <2> QED BY <1>1, <2>2
<1>4. /\ wire' = wire \union (new \intersect Seqs)
      /\ sends' = [s \in Seqs |-> IF s \in new THEN sends[s] + 1 ELSE sends[s]]
      /\ rxq' = rxq
  BY DEF Post
<1> HIDE DEF new
<1>5. \A s \in new : s \in Seqs /\ sends[s] = 0
  BY <1>1, <1>2 DEF InvSent
<1>6. wire \intersect new = {}
  <2> SUFFICES ASSUME NEW s \in new, s \in wire PROVE FALSE
    OBVIOUS
  <2>1. s \in Own(q)
    BY <1>2
  <2>2. sends[s] = 1
    BY <2>1 DEF InvSent
  <2> QED BY <1>5, <2>2
<1>7. wire' = wire \union new
  BY <1>4, <1>5
<1>8. \A p \in Threads : p # q => wire' \intersect Own(p) = wire \intersect Own(p)
  <2> SUFFICES ASSUME NEW p \in Threads, p # q
               PROVE  wire' \intersect Own(p) = wire \intersect Own(p)
    OBVIOUS
  <2>1. Own(p) \intersect Own(q) = {}
    BY OwnRanges
  <2>2. new \intersect Own(p) = {}
    BY <1>2, <2>1
  <2> QED BY <1>7, <2>2
<1>9. /\ IsFiniteSet(wire) /\ Cardinality(wire) \in Nat
      /\ IsFiniteSet(wire \intersect Own(q))
           /\ Cardinality(wire \intersect Own(q)) \in Nat
  <2>1. IsFiniteSet(wire)
    BY Totals
  <2>2. IsFiniteSet(wire \intersect Own(q))
    BY <2>1, FS_Intersection
  <2> QED BY <2>1, <2>2, FS_CardinalityType
<1>10. Cardinality(wire') = Cardinality(wire) + n
  <2>1. Cardinality(wire
          \union new) = Cardinality(wire) + n - Cardinality(wire \intersect new)
    BY <1>3, <1>9, FS_Union
  <2>2. Cardinality(wire \intersect new) = 0
    BY <1>6, FS_EmptySet
  <2>3. Cardinality(wire') = Cardinality(wire \union new)
    BY <1>7
  <2> QED BY <1>9, <2>1, <2>2, <2>3
<1>11. Cardinality(wire' \intersect Own(q)) = Cardinality(wire \intersect Own(q)) + n
  <2> DEFINE W == wire \intersect Own(q)
  <2>1. wire' \intersect Own(q) = W \union new /\ W \intersect new = {}
    BY <1>2, <1>6, <1>7
  <2> HIDE DEF W
  <2>2. Cardinality(W \union new) = Cardinality(W) + n - Cardinality(W \intersect new)
    <3>1. IsFiniteSet(W)
      BY <1>9 DEF W
    <3> QED BY <1>3, <3>1, FS_Union
  <2>3. Cardinality(W) \in Nat
    BY <1>9 DEF W
  <2>4. Cardinality(W \intersect new) = 0
    BY <2>1, FS_EmptySet
  <2>5. Cardinality(wire' \intersect Own(q)) = Cardinality(W \union new)
    BY <2>1
  <2>6. Cardinality(W \union new) = Cardinality(W) + n
    BY <2>2, <2>3, <2>4
  <2> QED BY <2>5, <2>6 DEF W
<1>12. \A s \in Seqs : sends'[s] = IF s \in new THEN 1 ELSE sends[s]
  BY <1>4, <1>5
<1>13. sends' \in [Seqs -> Nat]
  BY <1>1, <1>4
<1>14. wire' \subseteq Seqs
  BY <1>1, <1>4
<1> QED BY <1>2, <1>4, <1>7, <1>8, <1>10, <1>11, <1>12, <1>13, <1>14 DEF new

-------------------------------------------------------------------------------
(***************************************************************************)
(* The steps.  The options never change; most steps change little else.    *)
(***************************************************************************)

\* The options stay, and all that is computed from them.
LEMMA OptsKept ==
  ASSUME UNCHANGED opts
  PROVE  /\ mode' = mode /\ nq' = nq /\ window' = window /\ rss' = rss
         /\ Threads' = Threads /\ Places' = Places /\ Steered' = Steered
         /\ \A q : /\ SeqBegin(q)' = SeqBegin(q) /\ SeqEnd(q)' = SeqEnd(q)
                   /\ Share(q)' = Share(q) /\ Own(q)' = Own(q)
                   /\ Window(q)' = Window(q)
<1>1. mode' = mode /\ nq' = nq /\ window' = window /\ rss' = rss
  BY DEF opts
<1>2. Threads' = Threads /\ Places' = Places
  BY <1>1 DEF Threads, Places
<1>3. \A q : SeqBegin(q)' = SeqBegin(q) /\ SeqEnd(q)' = SeqEnd(q)
        /\ Window(q)' = Window(q)
  BY <1>1, Zenon DEF SeqBegin, SeqEnd, Window
<1>4. \A q : Share(q)' = Share(q) /\ Own(q)' = Own(q)
  BY <1>3 DEF Share, Own
<1>5. Steered' = Steered
  BY <1>1, <1>2, <1>3 DEF Steered
<1> QED BY <1>1, <1>2, <1>3, <1>4, <1>5

\* Steps that send and receive nothing.
LEMMA NothingMoves ==
  ASSUME InvTypes, InvSent, InvWindow,
         UNCHANGED <<opts, seq_next, replies, net>>,
         failed => failed', faults' \in Nat, faults <= faults',
         \A q \in Threads : pc'[q] \notin {"flush", "end"}
           => pc[q] \notin {"flush", "end"}
  PROVE  InvSent' /\ InvWindow'
<1>1. /\ seq_next' = seq_next /\ replies' = replies
      /\ wire' = wire /\ rxq' = rxq /\ sends' = sends
  BY DEF net
<1>2. /\ mode' = mode /\ nq' = nq /\ Threads' = Threads
      /\ \A q : /\ SeqBegin(q)' = SeqBegin(q) /\ SeqEnd(q)' = SeqEnd(q)
                /\ Own(q)' = Own(q) /\ Window(q)' = Window(q)
  BY OptsKept
<1>3. InvSent'
  BY <1>1, <1>2 DEF InvSent
<1>4. TotalSent' = TotalSent /\ TotalReceived' = TotalReceived
        /\ Outstanding' = Outstanding
  BY <1>1, <1>2, Zenon DEF TotalSent, TotalReceived, Outstanding, SeqBegin
<1>5. \A q \in Threads : Sent(q)' = Sent(q)
  BY <1>1, <1>2 DEF Sent
<1>6. InvWindow'
  <2> SUFFICES ASSUME mode = "bench"
               PROVE  /\ Outstanding + TotalReceived <= TotalSent + faults'
                      /\ \A q \in Threads : Sent(q) <= replies[q] + Window(q)
    BY <1>1, <1>2, <1>4, <1>5 DEF InvWindow
  <2>1. /\ Outstanding + TotalReceived <= TotalSent + faults
        /\ \A q \in Threads : Sent(q) <= replies[q] + Window(q)
    BY DEF InvWindow
  <2>2. TotalSent \in Nat /\ TotalReceived \in Nat /\ Outstanding \in Nat
          /\ faults \in Nat
    BY Totals DEF InvTypes
  <2> QED BY <2>1, <2>2
<1> QED BY <1>3, <1>6

\* A step of a worker that has not ended is not taken once the main thread has
\* gone on, and takes nothing from what the main thread knows.
LEMMA WorkerSteps ==
  ASSUME InvTypes, InvThreads, NEW q \in Threads, pc[q] \notin {"none", "end"},
         UNCHANGED <<opts, boss>>,
         NEW where, where # "none", pc' = [pc EXCEPT ![q] = where]
  PROVE  /\ InvThreads'
         /\ main \notin {"out", "closed"} /\ main' = main /\ created' = created
              /\ rc' = rc
         /\ q < created
<1>1. main' = main /\ created' = created /\ rc' = rc
  BY DEF boss
<1>2. nq' = nq /\ Threads' = Threads
  BY OptsKept
<1>3. main \notin {"out", "closed"} /\ rc # 0
  BY DEF InvThreads
<1>4. \A p \in Threads : pc'[p] = "none" <=> p >= created
  BY DEF InvTypes, InvThreads
<1>5. q < created
  BY DEF InvTypes, InvThreads, Threads
<1> QED BY <1>1, <1>2, <1>3, <1>4, <1>5 DEF InvThreads

\* Before the first pthread_create.
LEMMA InitHolds == Init => WorkersInv
<1> SUFFICES ASSUME Init PROVE WorkersInv
  OBVIOUS
<1>1. nq \in Nat \ {0} /\ window \in Nat /\ mode \in {"bench", "flood"}
  BY WorkersAssumption DEF Init
<1>2. InvTypes
  <2>1. rss \in [Seqs -> Threads]
    BY <1>1 DEF Init, Threads
  <2>2. seq_next \in [Threads -> Nat]
    <3> SUFFICES ASSUME NEW q \in Threads PROVE SeqBegin(q) \in Nat
      BY DEF Init
    <3>1. q \in Nat /\ Count \in Nat
      BY <1>1, WorkersAssumption DEF Threads
    <3>2. Count * q \in Nat
      BY <3>1
    <3> QED BY <1>1, <3>2, DivOrder DEF SeqBegin
  <2>3. rxq \in [Threads -> Frames]
    BY DEF Init, Frames
  <2>4. pc \in [Threads -> Places]
    BY DEF Init, Places
  <2>5. /\ main = "create" /\ created = 0 /\ rc = -1 /\ failed = FALSE
        /\ wire = {} /\ faults = 0
        /\ replies = [q \in Threads |-> 0] /\ sends = [s \in Seqs |-> 0]
    BY DEF Init
  <2>6. /\ replies \in [Threads -> Nat] /\ sends \in [Seqs -> Nat]
        /\ created \in 0..nq /\ rc \in {0, -1} /\ faults \in Nat
    BY <1>1, <2>5
  <2> QED BY <1>1, <2>1, <2>2, <2>3, <2>4, <2>5, <2>6 DEF InvTypes
<1>3. ASSUME NEW q \in Threads
      PROVE  /\ seq_next[q] = SeqBegin(q) /\ replies[q] = 0 /\ rxq[q] = <<>>
                  /\ pc[q] = "none"
             /\ SeqBegin(q) \in Nat /\ SeqEnd(q) \in Nat /\ SeqBegin(q) <= SeqEnd(q)
             /\ Own(q) \subseteq Seqs
             /\ Sent(q) = 0
  BY <1>2, OwnRanges DEF Init, Sent
<1>4. InvThreads
  BY <1>1, <1>3 DEF Init, InvThreads, Threads
<1>5. InvSent
  BY <1>3 DEF Init, InvSent, Own
<1>6. InvEnded
  BY <1>3 DEF InvEnded
<1>7. InvWindow
  <2> DEFINE f == [i \in 1..nq |-> seq_next[i - 1] - SeqBegin(i - 1)]
             g == [i \in 1..nq |-> replies[i - 1]]
             h == [i \in 1..nq |-> Reflections(rxq[i - 1])]
  <2>1. \A i \in 1..nq : i - 1 \in Threads
    BY <1>1 DEF Threads
  <2>2. \A i \in 1..nq : g[i] = f[i] /\ h[i] = f[i]
    BY <1>3, <2>1, ReflectionsEmpty
  <2> HIDE DEF f, g, h
  <2>3. SumTo(g, nq) = SumTo(f, nq) /\ SumTo(h, nq) = SumTo(f, nq)
    BY <1>1, <2>2, SumSame
  <2>4. TotalReceived = TotalSent /\ Waiting = TotalSent
    BY <2>3 DEF TotalSent, TotalReceived, Waiting, f, g, h
  <2>5. TotalReceived = 0
    <3> DEFINE b == [k \in 0..nq |-> 0]
    <3>1. \A k \in 1..nq : g[k] = b[k] - b[k - 1]
      BY <1>1, <1>3, <2>1 DEF g
    <3>2. \A k \in 0..nq : b[k] \in Int
      OBVIOUS
    <3>3. b[nq] - b[0] = 0
      BY <1>1
    <3> HIDE DEF b
    <3>4. SumTo(g, nq) = b[nq] - b[0]
      BY <1>1, <3>1, <3>2, SumTelescope
    <3> QED BY <3>3, <3>4 DEF TotalReceived, g
  <2>6. Outstanding = 0
    BY <1>2, <1>5, <2>4, <2>5, Totals, FS_EmptySet DEF Init
  <2>7. \A q \in Threads : Sent(q) <= replies[q] + Window(q)
    BY <1>2, <1>3, WindowParts
  <2> QED BY <2>4, <2>5, <2>6, <2>7 DEF Init, InvWindow
<1>8. InvQuiet
  <2>1. ASSUME NEW q \in Threads
        PROVE  Sent(q) = replies[q] + Reflections(rxq[q]) + Cardinality(wire \intersect Own(q))
    <3>1. Reflections(rxq[q]) = 0
      BY <1>3, ReflectionsEmpty
    <3>2. wire \intersect Own(q) = {}
      BY DEF Init
    <3>3. Cardinality(wire \intersect Own(q)) = 0
      BY <3>2, FS_EmptySet
    <3> QED BY <1>3, <3>1, <3>3
  <2> QED BY <1>3, <2>1 DEF Init, InvQuiet
<1> QED BY <1>2, <1>4, <1>5, <1>6, <1>7, <1>8 DEF WorkersInv

\* One more worker.
LEMMA CreateKeeps ==
  ASSUME WorkersInv, Create
  PROVE  WorkersInv'
<1> USE DEF WorkersInv
<1>1. /\ mode' = mode /\ nq' = nq /\ window' = window /\ rss' = rss
      /\ Threads' = Threads /\ Places' = Places /\ Steered' = Steered
      /\ \A q : /\ SeqBegin(q)' = SeqBegin(q) /\ SeqEnd(q)' = SeqEnd(q)
                /\ Share(q)' = Share(q) /\ Own(q)' = Own(q)
  BY OptsKept DEF Create
<1>2. /\ main = "create" /\ main' = main /\ rc' = rc /\ failed' = failed
      /\ seq_next' = seq_next /\ replies' = replies /\ faults' = faults
      /\ wire' = wire /\ rxq' = rxq /\ sends' = sends
      /\ created < nq /\ created' = created + 1
  BY DEF Create, flags, net
<1>3. PICK where \in {"turn", "malloc"} : /\ pc' = [pc EXCEPT ![created] = where]
                                          /\ where \in Places
  BY DEF Create, InvTypes, Places
<1>4. created \in Threads /\ created \in Nat /\ pc[created] = "none"
  BY <1>2 DEF InvTypes, InvThreads, Threads
<1>5. InvTypes'
  <2>1. pc' \in [Threads -> Places]
    BY <1>3 DEF InvTypes
  <2>2. created' \in 0..nq
    BY <1>2, <1>4 DEF InvTypes
  <2> QED BY <1>1, <1>2, <2>1, <2>2 DEF InvTypes
<1>6. InvThreads'
  <2>1. \A q \in Threads : pc'[q] = "none" <=> q >= created + 1
    BY <1>3, <1>4 DEF InvTypes, InvThreads, Threads
  <2> QED BY <1>1, <1>2, <2>1 DEF InvThreads
<1>7. InvSent' /\ InvWindow'
  <2>1. \A q \in Threads : pc'[q] \notin {"flush", "end"}
          => pc[q] \notin {"flush", "end"}
    BY <1>3, <1>4 DEF InvTypes
  <2> QED BY <1>2, <2>1, NothingMoves DEF Create, InvTypes
<1>8. InvEnded'
  BY <1>1, <1>2, <1>3, <1>4 DEF InvEnded, InvTypes, Flushed
<1>9. InvQuiet'
  BY <1>1, <1>2, <1>3, <1>4 DEF InvQuiet, InvTypes, Sent
<1> QED BY <1>5, <1>6, <1>7, <1>8, <1>9

\* Steps of the main thread that leave the workers alone.
LEMMA BossKeeps ==
  ASSUME WorkersInv, CreateFails \/ AllCreated \/ DevClose
  PROVE  WorkersInv'
<1> USE DEF WorkersInv
<1>1. /\ mode' = mode /\ nq' = nq /\ window' = window /\ rss' = rss
      /\ Threads' = Threads /\ Places' = Places /\ Steered' = Steered
      /\ \A q : /\ SeqBegin(q)' = SeqBegin(q) /\ SeqEnd(q)' = SeqEnd(q)
                /\ Share(q)' = Share(q) /\ Own(q)' = Own(q)
  BY OptsKept DEF CreateFails, AllCreated, DevClose
<1>2. /\ created' = created /\ rc' = rc /\ pc' = pc
      /\ seq_next' = seq_next /\ replies' = replies
      /\ wire' = wire /\ rxq' = rxq /\ sends' = sends
  BY DEF CreateFails, AllCreated, DevClose, worker, net
<1>3. \/ main = "create" /\ failed' = TRUE /\ main' = "abort" /\ faults' = faults + 1
      \/ main = "create" /\ created = nq /\ main' = "join" /\ failed' = failed
           /\ faults' = faults
      \/ main = "out" /\ main' = "closed" /\ failed' = failed /\ faults' = faults
  BY DEF CreateFails, AllCreated, DevClose, Fault, flags
<1>4. InvTypes'
  <2>1. failed' \in BOOLEAN
    BY <1>3, Zenon DEF InvTypes
  <2>2. faults' \in Nat /\ main' \in {"create", "join", "abort", "out", "closed"}
    BY <1>3 DEF InvTypes
  <2> QED BY <1>1, <1>2, <2>1, <2>2 DEF InvTypes
<1>5. InvSent' /\ InvWindow'
  BY <1>1, <1>2, <1>3, NothingMoves DEF CreateFails, AllCreated, DevClose, InvTypes,
       worker
<1>6. InvThreads'
  <2>1. ASSUME failed' = failed
        PROVE  Succeeded' = Succeeded
    BY <1>1, <1>2, <2>1, Zenon DEF Succeeded, TotalSent, TotalReceived, SeqBegin
  <2> QED BY <1>1, <1>2, <1>3, <2>1 DEF InvThreads
<1>7. InvEnded'
  BY <1>1, <1>2, <1>3 DEF InvEnded, InvTypes, Flushed
<1>8. InvQuiet'
  <2>1. faults' = 0 => faults' = faults
    BY <1>3 DEF InvTypes
  <2> QED BY <1>1, <1>2, <1>3, <2>1 DEF InvQuiet, InvTypes, Sent
<1> QED BY <1>4, <1>5, <1>6, <1>7, <1>8

\* Every worker has ended: if nothing went wrong, with all that was its share.
LEMMA JoinedKeeps ==
  ASSUME WorkersInv, Joined
  PROVE  WorkersInv'
<1> USE DEF WorkersInv
<1>1. /\ mode' = mode /\ nq' = nq /\ window' = window /\ rss' = rss
      /\ Threads' = Threads /\ Places' = Places /\ Steered' = Steered
      /\ \A q : /\ SeqBegin(q)' = SeqBegin(q) /\ SeqEnd(q)' = SeqEnd(q)
                /\ Share(q)' = Share(q) /\ Own(q)' = Own(q)
  BY OptsKept DEF Joined
<1>2. /\ created' = created /\ pc' = pc /\ failed' = failed
      /\ seq_next' = seq_next /\ replies' = replies /\ faults' = faults
      /\ wire' = wire /\ rxq' = rxq /\ sends' = sends
  BY DEF Joined, flags, worker, net
<1>3. /\ main \in {"join", "abort"} /\ main' = "out"
      /\ rc' = IF main = "join" /\ Succeeded THEN 0 ELSE -1
      /\ \A q \in 0..(created - 1) : pc[q] = "end"
  BY DEF Joined
<1>4. \A q \in Threads : pc[q] \in {"none", "end"}
  BY <1>3 DEF InvThreads, InvTypes, Threads
<1>5. InvTypes'
  BY <1>1, <1>2, <1>3 DEF InvTypes
<1>6. InvSent' /\ InvWindow'
  BY <1>1, <1>2, NothingMoves DEF Joined, InvTypes
<1>7. InvThreads'
  <2>1. Succeeded' = Succeeded
    BY <1>1, <1>2, Zenon DEF Succeeded, TotalSent, TotalReceived, SeqBegin
  <2> QED BY <1>1, <1>2, <1>3, <1>4, <2>1 DEF InvThreads
<1>8. InvEnded'
  BY <1>1, <1>2, <1>3 DEF InvEnded, InvTypes, Flushed
<1>9. InvQuiet'
  <2> SUFFICES ASSUME faults = 0, mode = "bench" => ~Steered
               PROVE  main = "join" /\ Succeeded
    BY <1>1, <1>2, <1>3 DEF InvQuiet, InvTypes, Sent
  <2>1. main = "join" /\ ~failed
    BY <1>3 DEF InvQuiet
  <2>2. \A q \in Threads : pc[q] = "end"
    BY <1>4, <2>1 DEF InvThreads, InvTypes, Threads
  <2> DEFINE f == [i \in 1..nq |-> seq_next[i - 1] - SeqBegin(i - 1)]
             g == [i \in 1..nq |-> replies[i - 1]]
             h == [i \in 1..nq |-> Share(i - 1)]
  <2>3. ASSUME NEW q \in Threads
        PROVE  /\ seq_next[q] - SeqBegin(q) = Share(q)
               /\ mode = "bench" => replies[q] = Share(q)
    <3>1. /\ seq_next[q] \in SeqBegin(q)..SeqEnd(q) /\ replies[q] \in Nat
          /\ SeqBegin(q) \in Nat /\ SeqEnd(q) \in Nat
      BY OwnRanges DEF InvSent, InvTypes
    <3>2. CASE mode = "bench"
      <4>1. replies[q] >= Share(q)
        BY <2>1, <2>2, <3>2 DEF InvEnded
      <4>2. Sent(q) = replies[q] + Reflections(rxq[q]) + Cardinality(wire \intersect Own(q))
        BY <3>2 DEF InvQuiet
      <4>3. Reflections(rxq[q]) \in Nat
        BY ReflectionsType DEF InvTypes
      <4>4. Cardinality(wire \intersect Own(q)) \in Nat
        BY Totals, FS_Intersection, FS_CardinalityType
      <4> QED BY <3>1, <4>1, <4>2, <4>3, <4>4 DEF Sent, Share
    <3>3. CASE mode # "bench"
      <4>1. mode = "flood"
        BY <3>3 DEF InvTypes
      <4>2. seq_next[q] = SeqEnd(q)
        BY <2>1, <2>2, <4>1 DEF InvEnded
      <4> QED BY <3>3, <4>2 DEF Share
    <3> QED BY <3>2, <3>3
  <2>4. nq \in Nat /\ \A i \in 1..nq : i - 1 \in Threads
    BY DEF InvTypes, Threads
  <2>5. /\ \A i \in 1..nq : f[i] = h[i]
        /\ mode = "bench" => \A i \in 1..nq : g[i] = h[i]
    BY <2>3, <2>4
  <2>6. SumTo(h, nq) = Count
    BY SharesAddUp
  <2> HIDE DEF f, g, h
  <2>7. SumTo(f, nq) = Count /\ (mode = "bench" => SumTo(g, nq) = Count)
    BY <2>4, <2>5, <2>6, SumSame
  <2> QED BY <2>1, <2>7 DEF Succeeded, TotalSent, TotalReceived, f, g
<1> QED BY <1>5, <1>6, <1>7, <1>8, <1>9

\* Steps in which a worker only goes on to another place in its function.
LEMMA WalkKeeps ==
  ASSUME WorkersInv, NEW q \in Threads,
         \/ BenchEnd(q) \/ BenchReceiveNothing(q)
         \/ FloodMalloc(q) \/ FloodGo(q) \/ FloodSentAll(q) \/ FloodFlush(q)
  PROVE  WorkersInv'
<1> USE DEF WorkersInv
<1>1. UNCHANGED <<opts, boss, flags, seq_next, replies, net, faults>>
  BY DEF BenchEnd, BenchReceiveNothing, FloodMalloc, FloodGo, FloodSentAll, FloodFlush
<1>2. /\ mode' = mode /\ nq' = nq /\ window' = window /\ rss' = rss
      /\ Threads' = Threads /\ Places' = Places /\ Steered' = Steered
      /\ \A p : /\ SeqBegin(p)' = SeqBegin(p) /\ SeqEnd(p)' = SeqEnd(p)
                /\ Share(p)' = Share(p) /\ Own(p)' = Own(p)
  BY <1>1, OptsKept
<1>3. /\ failed' = failed /\ seq_next' = seq_next /\ replies' = replies
           /\ faults' = faults
      /\ wire' = wire /\ rxq' = rxq /\ sends' = sends
  BY <1>1 DEF flags, net
<1>4. PICK where :
        /\ pc' = [pc EXCEPT ![q] = where]
        /\ pc[q] \notin {"none", "end"}
        /\ \/ /\ mode = "bench" /\ where = "end"
              /\ replies[q] >= Share(q) \/ failed
           \/ mode = "bench" /\ where = "turn"
           \/ pc[q] = "malloc" /\ where = "spin"
           \/ pc[q] = "spin" /\ where = "turn"
           \/ /\ mode = "flood" /\ pc[q] = "turn" /\ where = "flush"
              /\ seq_next[q] >= SeqEnd(q) \/ failed
           \/ /\ pc[q] = "flush" /\ where = "end"
              /\ failed \/ Flushed(q)
  <2>1. CASE BenchEnd(q)
    BY <2>1 DEF BenchEnd, BenchOver, Goto
  <2>2. CASE BenchReceiveNothing(q)
    BY <2>2 DEF BenchReceiveNothing, Goto
  <2>3. CASE FloodMalloc(q)
    BY <2>3 DEF FloodMalloc, Goto
  <2>4. CASE FloodGo(q)
    BY <2>4 DEF FloodGo, Goto
  <2>5. CASE FloodSentAll(q)
    BY <2>5 DEF FloodSentAll, FloodTurn, FloodOver, Goto
  <2>6. CASE FloodFlush(q)
    BY <2>6 DEF FloodFlush, Goto
  <2> QED BY <2>1, <2>2, <2>3, <2>4, <2>5, <2>6
<1>5. /\ pc[q] \in Places /\ where \in Places /\ where \notin {"none", "idle"}
      /\ pc[q] = "flush" => mode = "flood" /\ where = "end"
      /\ mode \in {"bench", "flood"} /\ pc \in [Threads -> Places]
  BY <1>4 DEF InvTypes, Places
<1>6. InvTypes'
  <2>1. pc' \in [Threads -> Places]
    BY <1>4, <1>5
  <2> QED BY <1>1, <1>2, <1>3, <2>1 DEF InvTypes, boss
<1>7. InvThreads' /\ main' = main /\ rc' = rc
  BY <1>1, <1>4, <1>5, WorkerSteps
<1>8. InvSent' /\ InvWindow'
  <2>1. \A p \in Threads : pc'[p] \notin {"flush", "end"}
          => pc[p] \notin {"flush", "end"}
    BY <1>4, <1>5
  <2> QED BY <1>1, <1>3, <2>1, NothingMoves DEF InvTypes
<1>9. InvEnded'
  <2> SUFFICES ASSUME ~failed, NEW p \in Threads
               PROVE  /\ mode = "bench" /\ pc'[p] = "end" => replies[p] >= Share(p)
                      /\ pc'[p] = "flush" => seq_next[p] = SeqEnd(p)
                      /\ mode = "flood" /\ pc'[p] = "end"
                           => seq_next[p] = SeqEnd(p) /\ Flushed(p)
    BY <1>2, <1>3 DEF InvEnded, Flushed
  <2>1. CASE p # q
    BY <1>4, <1>5, <2>1 DEF InvEnded
  <2>2. CASE p = q
    <3>1. pc'[q] = where
      BY <1>4, <1>5
    <3>2. /\ seq_next[q] \in SeqBegin(q)..SeqEnd(q)
          /\ SeqBegin(q) \in Nat /\ SeqEnd(q) \in Nat
      BY OwnRanges DEF InvSent
    <3>3. pc[q] = "flush" => seq_next[q] = SeqEnd(q)
      BY DEF InvEnded
    <3> QED BY <1>4, <1>5, <2>2, <3>1, <3>2, <3>3
  <2> QED BY <2>1, <2>2
<1>10. InvQuiet'
  <2>1. \A p \in Threads : pc'[p] = "idle" => pc[p] = "idle"
    BY <1>4, <1>5
  <2> QED BY <1>2, <1>3, <1>7, <2>1 DEF InvQuiet, Sent
<1> QED BY <1>6, <1>7, <1>8, <1>9, <1>10

\* Steps in which a worker tells the others to stop, and ends.  A worker gives
\* up without a fault only if a reply was lost to it before.
LEMMA StopKeeps ==
  ASSUME WorkersInv, NEW q \in Threads,
         BenchGiveUp(q) \/ FloodMallocFails(q) \/ FloodFlushFails(q)
  PROVE  WorkersInv'
<1> USE DEF WorkersInv
<1>1. UNCHANGED <<opts, boss, go, seq_next, replies, net>>
  BY DEF BenchGiveUp, FloodMallocFails, FloodFlushFails
<1>2. /\ mode' = mode /\ nq' = nq /\ window' = window /\ rss' = rss
      /\ Threads' = Threads /\ Places' = Places /\ Steered' = Steered
  BY <1>1, OptsKept
<1>3. /\ seq_next' = seq_next /\ replies' = replies
      /\ wire' = wire /\ rxq' = rxq /\ sends' = sends
  BY <1>1 DEF net
<1>4. failed' = TRUE /\ pc' = [pc EXCEPT ![q] = "end"] /\ pc[q] \notin {"none", "end"}
  BY DEF BenchGiveUp, FloodMallocFails, FloodFlushFails, StopAll, Goto
<1>5. \/ faults' = faults + 1
      \/ /\ faults' = faults /\ mode = "bench" /\ pc[q] = "idle"
         /\ rxq[q] = <<>> /\ wire = {}
  BY DEF BenchGiveUp, FloodMallocFails, FloodFlushFails, Fault, SomethingMayCome
<1>6. faults \in Nat /\ faults' \in Nat /\ faults <= faults'
        /\ pc \in [Threads -> Places]
  BY <1>5 DEF InvTypes
<1>7. InvTypes'
  <2>1. pc' \in [Threads -> Places]
    BY <1>4, <1>6 DEF Places
  <2>2. failed' \in BOOLEAN
    BY <1>4, Zenon
  <2> QED BY <1>1, <1>2, <1>3, <1>6, <2>1, <2>2 DEF InvTypes, boss
<1>8. InvThreads'
  BY <1>1, <1>4, WorkerSteps
<1>9. InvSent' /\ InvWindow'
  <2>1. \A p \in Threads : pc'[p] \notin {"flush", "end"}
          => pc[p] \notin {"flush", "end"}
    BY <1>4, <1>6
  <2> QED BY <1>1, <1>4, <1>6, <2>1, NothingMoves
<1>10. InvEnded'
  BY <1>4 DEF InvEnded
<1>11. InvQuiet'
  <2> SUFFICES ASSUME faults' = 0, mode = "bench" => ~Steered
               PROVE  FALSE
    BY <1>2 DEF InvQuiet
  <2>1. faults = 0 /\ mode = "bench" /\ pc[q] = "idle" /\ rxq[q] = <<>> /\ wire = {}
    BY <1>5, <1>6
  <2>2. /\ Sent(q) = replies[q] + Reflections(rxq[q]) + Cardinality(wire \intersect Own(q))
        /\ replies[q] < Sent(q)
    BY <2>1 DEF InvQuiet
  <2>3. Reflections(rxq[q]) = 0
    BY <2>1, ReflectionsEmpty
  <2>4. wire \intersect Own(q) = {}
    BY <2>1
  <2>5. Cardinality(wire \intersect Own(q)) = 0
    BY <2>4, FS_EmptySet
  <2>6. replies[q] \in Nat
    BY DEF InvTypes
  <2> QED BY <2>2, <2>3, <2>5, <2>6
<1> QED BY <1>7, <1>8, <1>9, <1>10, <1>11

\* Worker q posts n frames, counts d as sent and goes on to "where".
LEMMA PostKeeps ==
  ASSUME WorkersInv, NEW q \in Threads, NEW n \in Nat, NEW d \in Nat,
           NEW where \in Places,
         UNCHANGED <<opts, boss, replies>>,
         Post(q, n), seq_next' = [seq_next EXCEPT ![q] = @ + d],
         pc[q] = "turn", pc' = [pc EXCEPT ![q] = where], where # "none",
         seq_next[q] + n <= SeqEnd(q), seq_next[q] + d <= SeqEnd(q),
         failed' \in BOOLEAN, failed => failed', faults' \in Nat, faults <= faults',
         n = d \/ where \in {"flush", "end"},
         where \in {"flush", "end"} => failed',
         mode = "bench" => n <= d /\ (d > 0 => Sent(q) + d <= replies[q] + Window(q))
  PROVE  /\ InvTypes' /\ InvThreads' /\ InvSent' /\ InvEnded' /\ InvWindow'
         /\ \A p \in Threads :
              /\ Sent(p)' = Sent(p) + (IF p = q THEN d ELSE 0)
              /\ Cardinality(wire' \intersect Own(p))
                   = Cardinality(wire \intersect Own(p)) + (IF p = q THEN n ELSE 0)
<1> USE DEF WorkersInv
<1>1. /\ mode' = mode /\ nq' = nq /\ window' = window /\ rss' = rss
      /\ Threads' = Threads /\ Places' = Places
      /\ \A p : /\ SeqBegin(p)' = SeqBegin(p) /\ SeqEnd(p)' = SeqEnd(p)
                /\ Share(p)' = Share(p) /\ Own(p)' = Own(p)
                /\ Window(p)' = Window(p)
  BY OptsKept
<1> DEFINE new == seq_next[q]..(seq_next[q] + n - 1)
<1>2. /\ wire' = wire \union new
      /\ wire' \subseteq Seqs
      /\ sends' \in [Seqs -> Nat]
      /\ rxq' = rxq
      /\ new \subseteq Own(q)
      /\ \A s \in Seqs : sends'[s] = IF s \in new THEN 1 ELSE sends[s]
      /\ \A p \in Threads : p # q => wire' \intersect Own(p) = wire \intersect Own(p)
      /\ Cardinality(wire') = Cardinality(wire) + n
      /\ Cardinality(wire' \intersect Own(q)) = Cardinality(wire \intersect Own(q)) + n
  <2>1. pc[q] \notin {"flush", "end"}
    OBVIOUS
  <2> QED BY <1>1, <2>1, Posted
<1>3. /\ pc \in [Threads -> Places] /\ pc'[q] = where
      /\ \A p \in Threads : p # q => pc'[p] = pc[p]
      /\ pc' \in [Threads -> Places]
  BY DEF InvTypes
<1>4. /\ seq_next \in [Threads -> Nat] /\ seq_next'[q] = seq_next[q] + d
      /\ \A p \in Threads : p # q => seq_next'[p] = seq_next[p]
      /\ seq_next' \in [Threads -> Nat]
  BY DEF InvTypes
<1>5. \A p \in Threads : /\ SeqBegin(p) \in Nat /\ SeqEnd(p) \in Nat
                         /\ seq_next[p] \in SeqBegin(p)..SeqEnd(p)
                         /\ Own(p) \subseteq Seqs
  BY OwnRanges DEF InvSent
<1>6. InvTypes'
  BY <1>1, <1>2, <1>3, <1>4 DEF InvTypes, boss
<1>7. InvThreads'
  BY WorkerSteps
<1>8. InvSent'
  <2> SUFFICES ASSUME NEW p \in Threads
               PROVE  /\ seq_next'[p] \in SeqBegin(p)..SeqEnd(p)
                      /\ \A s \in Own(p) :
                           /\ sends'[s] \in {0, 1}
                           /\ s < seq_next'[p] /\ ~failed' => sends'[s] = 1
                           /\ s >= seq_next'[p] /\ pc'[p] \notin {"flush", "end"}
                                => sends'[s] = 0
                           /\ s \in wire' => sends'[s] = 1
    BY <1>1 DEF InvSent
  <2>1. seq_next'[p] \in SeqBegin(p)..SeqEnd(p)
    <3>1. CASE p = q
      BY <1>4, <1>5, <3>1
    <3>2. CASE p # q
      BY <1>4, <1>5, <3>2
    <3> QED BY <3>1, <3>2
  <2>2. ASSUME NEW s \in Own(p)
        PROVE  /\ sends'[s] \in {0, 1}
               /\ s < seq_next'[p] /\ ~failed' => sends'[s] = 1
               /\ s >= seq_next'[p] /\ pc'[p] \notin {"flush", "end"} => sends'[s] = 0
               /\ s \in wire' => sends'[s] = 1
    <3>1. /\ sends[s] \in {0, 1}
          /\ s < seq_next[p] /\ ~failed => sends[s] = 1
          /\ s >= seq_next[p] /\ pc[p] \notin {"flush", "end"} => sends[s] = 0
          /\ s \in wire => sends[s] = 1
      BY DEF InvSent
    <3>2. s \in Seqs /\ sends'[s] = IF s \in new THEN 1 ELSE sends[s]
      BY <1>2, <1>5
    <3>3. CASE s \in new
      <4>1. p = q
        BY <1>2, <3>3, OwnRanges
      <4>2. s < seq_next[q] + n /\ sends'[s] = 1
        BY <1>5, <3>2, <3>3
      <4>3. n = d => s < seq_next'[p]
        BY <1>4, <4>1, <4>2
      <4>4. s \in Int /\ seq_next'[p] \in Int
        BY <1>4, <1>5, <3>3
      <4> QED BY <1>3, <4>1, <4>2, <4>3, <4>4
    <3>4. CASE s \notin new
      <4>1. sends'[s] = sends[s] /\ (s \in wire' => s \in wire)
        BY <1>2, <3>2, <3>4
      <4>2. CASE p # q
        BY <1>3, <1>4, <3>1, <4>1, <4>2
      <4>3. CASE p = q
        <5>1. s \in Int /\ seq_next[q] \in Nat
          BY <1>4, <1>5 DEF Own
        <5>2. s < seq_next[q] \/ s >= seq_next[q] + n
          BY <3>4, <5>1
        <5>3. pc[q] \notin {"flush", "end"}
          OBVIOUS
        <5> HIDE DEF new
        <5> QED BY <1>3, <1>4, <3>1, <4>1, <4>3, <5>1, <5>2, <5>3
      <4> QED BY <4>2, <4>3
    <3> QED BY <3>3, <3>4
  <2> QED BY <2>1, <2>2
<1>9. InvEnded'
  <2> SUFFICES ASSUME ~failed', NEW p \in Threads
               PROVE  /\ mode = "bench" /\ pc'[p] = "end" => replies[p] >= Share(p)
                      /\ pc'[p] = "flush" => seq_next'[p] = SeqEnd(p)
                      /\ mode = "flood" /\ pc'[p] = "end"
                           => seq_next'[p] = SeqEnd(p) /\ wire' \intersect Own(p) = {}
    BY <1>1 DEF InvEnded, Flushed, Own
  <2>1. CASE p = q
    BY <1>3, <2>1
  <2>2. CASE p # q
    BY <1>2, <1>3, <1>4, <2>2 DEF InvEnded, Flushed, Own
  <2> QED BY <2>1, <2>2
<1>10. \A p \in Threads : Sent(p)' = Sent(p) + (IF p = q THEN d ELSE 0)
  <2> TAKE p \in Threads
  <2>1. Sent(p)' = seq_next'[p] - SeqBegin(p) /\ Sent(p) = seq_next[p] - SeqBegin(p)
    BY <1>1 DEF Sent
  <2>2. seq_next[p] \in Nat /\ SeqBegin(p) \in Nat
    BY <1>4, <1>5
  <2>3. CASE p = q
    BY <1>4, <2>1, <2>2, <2>3
  <2>4. CASE p # q
    BY <1>4, <2>1, <2>2, <2>4
  <2> QED BY <2>3, <2>4
<1>11. ASSUME NEW p \in Threads
       PROVE  Cardinality(wire' \intersect Own(p))
                = Cardinality(wire \intersect Own(p)) + (IF p = q THEN n ELSE 0)
  <2>1. Cardinality(wire \intersect Own(p)) \in Nat
    BY Totals, FS_Intersection, FS_CardinalityType
  <2>2. CASE p = q
    BY <1>2, <2>2
  <2>3. CASE p # q
    <3>1. wire' \intersect Own(p) = wire \intersect Own(p)
      BY <1>2, <2>3
    <3>2. Cardinality(wire' \intersect Own(p)) = Cardinality(wire \intersect Own(p))
      BY <3>1
    <3> QED BY <2>1, <2>3, <3>2
  <2> QED BY <2>2, <2>3
<1>12. InvWindow'
  <2> SUFFICES ASSUME mode = "bench"
               PROVE  /\ Outstanding' + TotalReceived' <= TotalSent' + faults'
                      /\ \A p \in Threads : Sent(p)' <= replies[p] + Window(p)
    BY <1>1 DEF InvWindow
  <2>1. TotalSent' = TotalSent + d
    <3>1. d \in Int
      OBVIOUS
    <3> QED BY <1>1, <3>1, SentGrows
  <2>2. TotalReceived' = TotalReceived
    BY <1>1, Zenon DEF TotalReceived
  <2>3. Waiting' = Waiting
    BY <1>1, <1>2, Zenon DEF Waiting
  <2>4. /\ TotalSent \in Nat /\ TotalReceived \in Nat /\ Waiting \in Nat
        /\ Cardinality(wire) \in Nat /\ Outstanding = Cardinality(wire) + Waiting
    BY Totals
  <2>5. Outstanding' = Cardinality(wire') + Waiting'
    BY DEF Outstanding, Waiting
  <2>6. Outstanding + TotalReceived <= TotalSent + faults /\ faults \in Nat
    BY DEF InvWindow, InvTypes
  <2>7. Outstanding' + TotalReceived' <= TotalSent' + faults'
    BY <1>2, <2>1, <2>2, <2>3, <2>4, <2>5, <2>6
  <2>8. ASSUME NEW p \in Threads
        PROVE  Sent(p)' <= replies[p] + Window(p)
    <3>1. /\ Sent(p) <= replies[p] + Window(p) /\ replies[p] \in Nat
          /\ Window(p) \in Nat /\ Sent(p) \in Int
      BY <1>4, <1>5, WindowParts DEF InvWindow, InvTypes, Sent
    <3>2. Sent(p)' = Sent(p) + (IF p = q THEN d ELSE 0)
      BY <1>10
    <3>3. CASE p = q /\ d > 0
      BY <3>1, <3>2, <3>3
    <3>4. CASE p # q \/ d = 0
      BY <3>1, <3>2, <3>4
    <3> QED BY <3>3, <3>4
  <2> QED BY <2>7, <2>8
<1> QED BY <1>6, <1>7, <1>8, <1>9, <1>10, <1>11, <1>12

\* The four ways in which a batch is sent, or not.
LEMMA SendKeeps ==
  ASSUME WorkersInv, NEW q \in Threads,
         \/ BenchSend(q) \/ FloodSend(q)
         \/ \E k \in 0..(BatchCap - 1) : BenchSendFails(q, k) \/ FloodSendFails(q, k)
  PROVE  WorkersInv'
<1> USE DEF WorkersInv
<1>1. /\ failed \in BOOLEAN /\ faults \in Nat /\ mode \in {"bench", "flood"}
      /\ pc \in [Threads -> Places] /\ seq_next \in [Threads -> Nat]
      /\ BatchCap \in Nat
  BY WorkersAssumption DEF InvTypes
<1>2. CASE BenchSend(q)
  <2> DEFINE d == Batch(q)
             where == IF d > 0 THEN "poll" ELSE "idle"
  <2>1. /\ mode = "bench" /\ pc[q] = "turn" /\ pc' = [pc EXCEPT ![q] = where]
        /\ seq_next' = [seq_next EXCEPT ![q] = @ + d] /\ Post(q, d)
        /\ failed' = failed /\ faults' = faults /\ UNCHANGED <<opts, boss, replies>>
        /\ replies[q] < Share(q)
    <3>1. replies[q] \in Int /\ Share(q) \in Int
      BY OwnRanges DEF InvTypes, Share
    <3> QED BY <1>2, <3>1 DEF BenchSend, BenchTurn, BenchOver, Goto, flags
  <2>2. /\ d \in Nat
        /\ seq_next[q] + d <= SeqEnd(q)
        /\ d > 0 => Sent(q) + d <= replies[q] + Window(q)
        /\ d = 0 => Sent(q) = Share(q) \/ Sent(q) > replies[q]
    BY BatchFits
  <2>3. where \in {"poll", "idle"} /\ where \in Places /\ (where = "idle" => d = 0)
    BY <2>1, <2>2 DEF Places
  <2> HIDE DEF d, where
  <2>4. /\ InvTypes' /\ InvThreads' /\ InvSent' /\ InvEnded' /\ InvWindow'
        /\ \A p \in Threads :
              /\ Sent(p)' = Sent(p) + (IF p = q THEN d ELSE 0)
              /\ Cardinality(wire' \intersect Own(p))
                   = Cardinality(wire \intersect Own(p)) + (IF p = q THEN d ELSE 0)
    <3>1. /\ failed' \in BOOLEAN /\ (failed => failed')
          /\ where # "none" /\ where \notin {"flush", "end"}
      BY <1>1, <2>1, <2>3, Zenon
    <3>2. faults' \in Nat /\ faults <= faults' /\ d <= d
      BY <1>1, <2>1, <2>2
    <3> QED BY <2>1, <2>2, <2>3, <3>1, <3>2, PostKeeps
  <2>5. InvQuiet'
    <3> SUFFICES ASSUME faults = 0, ~Steered
                 PROVE  /\ ~failed' /\ main' # "abort"
                        /\ main' \in {"out", "closed"} => rc' = 0
                        /\ \A p \in Threads :
                             /\ Sent(p)' = replies[p] + Reflections(rxq[p])
                                             + Cardinality(wire' \intersect Own(p))
                             /\ pc'[p] = "idle"
                                  => replies[p] < Share(p) /\ replies[p] < Sent(p)'
      <4>1. rxq' = rxq
        BY <2>1 DEF Post
      <4>2. /\ mode' = mode /\ Threads' = Threads /\ Steered' = Steered
            /\ \A p : Share(p)' = Share(p) /\ Own(p)' = Own(p)
        BY <2>1, OptsKept
      <4> QED BY <2>1, <4>1, <4>2 DEF InvQuiet
    <3>1. /\ ~failed /\ main # "abort" /\ (main \in {"out", "closed"} => rc = 0)
          /\ \A p \in Threads :
               /\ Sent(p) = replies[p] + Reflections(rxq[p]) + Cardinality(wire \intersect Own(p))
               /\ pc[p] = "idle" => replies[p] < Share(p) /\ replies[p] < Sent(p)
      BY <2>1 DEF InvQuiet
    <3>2. ASSUME NEW p \in Threads
          PROVE  /\ Sent(p)' = replies[p] + Reflections(rxq[p])
                                 + Cardinality(wire' \intersect Own(p))
                 /\ pc'[p] = "idle" => replies[p] < Share(p) /\ replies[p] < Sent(p)'
      <4>1. /\ replies[p] \in Nat /\ Reflections(rxq[p]) \in Nat
            /\ Cardinality(wire \intersect Own(p)) \in Nat
        BY Totals, FS_Intersection, FS_CardinalityType, ReflectionsType DEF InvTypes
      <4>2. /\ Sent(p)' = Sent(p) + (IF p = q THEN d ELSE 0)
            /\ Cardinality(wire' \intersect Own(p))
                 = Cardinality(wire \intersect Own(p)) + (IF p = q THEN d ELSE 0)
        BY <2>4
      <4>3. CASE p # q
        BY <1>1, <2>1, <3>1, <4>1, <4>2, <4>3
      <4>4. CASE p = q
        <5>1. Sent(p)' = replies[p] + Reflections(rxq[p]) + Cardinality(wire' \intersect Own(p))
          BY <2>2, <3>1, <4>1, <4>2, <4>4
        <5>2. pc'[p] = "idle" => d = 0
          BY <1>1, <2>1, <2>3, <4>4
        <5>3. d = 0 => Sent(p)' = Sent(p)
          BY <3>1, <4>1, <4>2
        <5>4. d = 0 => Sent(p) > replies[p]
          <6>1. Share(q) \in Int /\ Sent(p) \in Int
            BY <3>1, <4>1, OwnRanges DEF Share
          <6> QED BY <2>1, <2>2, <4>1, <4>4, <6>1
        <5> QED BY <2>1, <4>4, <5>1, <5>2, <5>3, <5>4
      <4> QED BY <4>3, <4>4
    <3>3. main' = main /\ rc' = rc
      BY <2>1 DEF boss
    <3> QED BY <2>1, <3>1, <3>2, <3>3
  <2> QED BY <2>4, <2>5
<1>3. CASE FloodSend(q)
  <2> DEFINE d == FloodBatch(q)
  <2>1. /\ mode = "flood" /\ pc[q] = "turn" /\ pc' = pc
        /\ seq_next' = [seq_next EXCEPT ![q] = @ + d] /\ Post(q, d)
        /\ failed' = failed /\ faults' = faults /\ UNCHANGED <<opts, boss, replies>>
        /\ seq_next[q] < SeqEnd(q)
    <3>1. seq_next[q] \in Int /\ SeqEnd(q) \in Int
      BY <1>1, OwnRanges
    <3> QED BY <1>3, <3>1 DEF FloodSend, FloodTurn, FloodOver, flags
  <2>2. d \in Nat /\ seq_next[q] + d <= SeqEnd(q)
    BY <2>1, FloodBatchFits
  <2>3. "turn" \in Places /\ pc' = [pc EXCEPT ![q] = "turn"]
    BY <1>1, <2>1 DEF Places
  <2> HIDE DEF d
  <2>4. InvTypes' /\ InvThreads' /\ InvSent' /\ InvEnded' /\ InvWindow'
    <3>1. failed' \in BOOLEAN /\ (failed => failed') /\ mode # "bench"
      BY <1>1, <2>1, Zenon
    <3>2. faults' \in Nat /\ faults <= faults'
      BY <1>1, <2>1
    <3> QED BY <2>1, <2>2, <2>3, <3>1, <3>2, PostKeeps
  <2>5. InvQuiet'
    <3>1. mode' = mode /\ main' = main /\ rc' = rc
      BY <2>1 DEF opts, boss
    <3> QED BY <2>1, <3>1 DEF InvQuiet
  <2> QED BY <2>4, <2>5
<1>4. ASSUME NEW k \in 0..(BatchCap - 1), BenchSendFails(q, k)
      PROVE  WorkersInv'
  <2> DEFINE d == Batch(q)
  <2>1. /\ mode = "bench" /\ pc[q] = "turn" /\ pc' = [pc EXCEPT ![q] = "end"]
        /\ seq_next' = [seq_next EXCEPT ![q] = @ + d] /\ Post(q, k) /\ k < d
        /\ failed' = TRUE /\ faults' = faults + 1 /\ UNCHANGED <<opts, boss, replies>>
    BY <1>4 DEF BenchSendFails, BenchTurn, StopAll, Goto, Fault
  <2>2. /\ d \in Nat /\ seq_next[q] + d <= SeqEnd(q)
        /\ d > 0 => Sent(q) + d <= replies[q] + Window(q)
    BY BatchFits
  <2>3. "end" \in Places
    BY DEF Places
  <2> HIDE DEF d
  <2>4. InvTypes' /\ InvThreads' /\ InvSent' /\ InvEnded' /\ InvWindow'
    <3>1. failed' \in BOOLEAN /\ (failed => failed')
      BY <2>1, Zenon
    <3>2. faults' \in Nat /\ faults <= faults' /\ k \in Nat /\ k <= d
      BY <1>1, <2>1, <2>2
    <3>3. seq_next[q] + k <= SeqEnd(q)
      BY <1>1, <2>2, <3>2, OwnRanges
    <3> QED BY <2>1, <2>2, <2>3, <3>1, <3>2, <3>3, PostKeeps
  <2>5. InvQuiet'
    BY <1>1, <2>1 DEF InvQuiet
  <2> QED BY <2>4, <2>5
<1>5. ASSUME NEW k \in 0..(BatchCap - 1), FloodSendFails(q, k)
      PROVE  WorkersInv'
  <2>1. /\ mode = "flood" /\ pc[q] = "turn" /\ pc' = [pc EXCEPT ![q] = "flush"]
        /\ seq_next' = seq_next /\ Post(q, k) /\ k < FloodBatch(q)
        /\ failed' = TRUE /\ faults' = faults + 1 /\ UNCHANGED <<opts, boss, replies>>
        /\ seq_next[q] < SeqEnd(q)
    <3>1. seq_next[q] \in Int /\ SeqEnd(q) \in Int
      BY <1>1, OwnRanges
    <3> QED BY <1>5, <3>1 DEF FloodSendFails, FloodTurn, FloodOver, Goto, Fault
  <2>2. FloodBatch(q) \in Nat /\ seq_next[q] + FloodBatch(q) <= SeqEnd(q)
    BY <2>1, FloodBatchFits
  <2>3. "flush" \in Places
    BY <2>1 DEF Places
  <2>4. InvTypes' /\ InvThreads' /\ InvSent' /\ InvEnded' /\ InvWindow'
    <3>1. failed' \in BOOLEAN /\ (failed => failed') /\ mode # "bench"
      BY <2>1, Zenon
    <3>2. /\ faults' \in Nat /\ faults <= faults' /\ k \in Nat
          /\ seq_next[q] + k <= SeqEnd(q) /\ seq_next[q] + 0 <= SeqEnd(q)
      BY <1>1, <2>1, <2>2, OwnRanges
    <3>3. seq_next' = [seq_next EXCEPT ![q] = @ + 0]
      BY <1>1, <2>1
    <3> QED BY <2>1, <2>3, <3>1, <3>2, <3>3, PostKeeps
  <2>5. InvQuiet'
    BY <1>1, <2>1 DEF InvQuiet
  <2> QED BY <2>4, <2>5
<1> QED BY <1>2, <1>3, <1>4, <1>5

\* A worker counts the replies it takes out of its queue.
LEMMA ReceiveKeeps ==
  ASSUME WorkersInv, NEW q \in Threads, BenchReceive(q) \/ BenchReleaseFails(q)
  PROVE  WorkersInv'
<1> USE DEF WorkersInv
<1> DEFINE r == Reflections(Burst(q))
           rest == SubSeq(rxq[q], Len(Burst(q)) + 1, Len(rxq[q]))
<1>1. r \in Nat /\ rest \in Frames /\ Reflections(rxq[q]) = r + Reflections(rest)
  BY BurstCut
<1>2. Reflections(rest) \in Nat
  BY <1>1, ReflectionsType
<1>3. /\ mode = "bench" /\ pc[q] \notin {"none", "end"}
      /\ replies' = [replies EXCEPT ![q] = @ + r]
      /\ rxq' = [rxq EXCEPT ![q] = rest]
      /\ wire' = wire /\ sends' = sends /\ seq_next' = seq_next
      /\ UNCHANGED <<opts, boss>>
  BY DEF BenchReceive, BenchReleaseFails, Receive, InvTypes
<1> HIDE DEF r, rest
<1>4. PICK where \in {"turn", "end"} :
        /\ pc' = [pc EXCEPT ![q] = where]
        /\ \/ where = "turn" /\ failed' = failed /\ faults' = faults
           \/ failed' = TRUE /\ faults' = faults + 1
  BY DEF BenchReceive, BenchReleaseFails, StopAll, Goto, Fault, flags
<1>5. /\ mode' = mode /\ nq' = nq /\ window' = window /\ rss' = rss
      /\ Threads' = Threads /\ Places' = Places /\ Steered' = Steered
      /\ \A p : /\ SeqBegin(p)' = SeqBegin(p) /\ SeqEnd(p)' = SeqEnd(p)
                /\ Share(p)' = Share(p) /\ Own(p)' = Own(p)
                /\ Window(p)' = Window(p)
  BY <1>3, OptsKept
<1>6. /\ where \in Places /\ pc \in [Threads -> Places] /\ pc' \in [Threads -> Places]
      /\ pc'[q] = where /\ \A p \in Threads : p # q => pc'[p] = pc[p]
  BY <1>3, <1>4 DEF InvTypes, Places
<1>7. /\ replies \in [Threads -> Nat] /\ replies' \in [Threads -> Nat]
      /\ replies'[q] = replies[q] + r
      /\ \A p \in Threads : p # q => replies'[p] = replies[p]
  BY <1>1, <1>3 DEF InvTypes
<1>8. /\ rxq \in [Threads -> Frames] /\ rxq' \in [Threads -> Frames] /\ rxq'[q] = rest
      /\ \A p \in Threads : p # q => rxq'[p] = rxq[p]
  BY <1>1, <1>3 DEF InvTypes
<1>9. faults \in Nat /\ faults' \in Nat /\ faults <= faults'
  BY <1>4 DEF InvTypes
<1>10. InvTypes'
  <2>1. failed' \in BOOLEAN
    BY <1>4, Zenon DEF InvTypes
  <2> QED BY <1>3, <1>5, <1>6, <1>7, <1>8, <1>9, <2>1 DEF InvTypes, boss
<1>11. InvThreads'
  BY <1>3, <1>4, WorkerSteps
<1>12. InvSent'
  <2>1. \A p \in Threads : pc'[p] \notin {"flush", "end"}
          => pc[p] \notin {"flush", "end"}
    BY <1>3, <1>6 DEF InvTypes, Places
  <2>2. failed => failed'
    BY <1>4
  <2> QED BY <1>3, <1>5, <2>1, <2>2 DEF InvSent
<1>13. InvEnded'
  <2> SUFFICES ASSUME ~failed', NEW p \in Threads
               PROVE  /\ pc'[p] = "end" => replies'[p] >= Share(p)
                      /\ pc'[p] = "flush" => seq_next[p] = SeqEnd(p)
    BY <1>3, <1>5 DEF InvEnded
  <2>1. ~failed /\ where = "turn"
    BY <1>4
  <2>2. CASE p = q
    BY <1>6, <2>1, <2>2
  <2>3. CASE p # q
    BY <1>3, <1>6, <1>7, <2>1, <2>3 DEF InvEnded
  <2> QED BY <2>2, <2>3
<1>14. InvWindow'
  <2>1. TotalReceived' = TotalReceived + r
    <3>1. r \in Int
      BY <1>1
    <3> QED BY <1>3, <1>5, <3>1, ReceivedGrows
  <2>2. Waiting' = Waiting + (-r)
    <3>1. -r \in Int /\ Reflections(rest) = Reflections(rxq[q]) + (-r)
      BY <1>1, <1>2
    <3> QED BY <1>1, <1>3, <1>5, <3>1, WaitingGrows
  <2>3. TotalSent' = TotalSent
    BY <1>3, <1>5, Zenon DEF TotalSent, SeqBegin
  <2>4. /\ TotalSent \in Nat /\ TotalReceived \in Nat /\ Waiting \in Nat
        /\ Cardinality(wire) \in Nat /\ Outstanding = Cardinality(wire) + Waiting
    BY Totals
  <2>5. Outstanding' = Cardinality(wire) + Waiting'
    BY <1>3 DEF Outstanding, Waiting
  <2>6. Outstanding + TotalReceived <= TotalSent + faults
    BY <1>3 DEF InvWindow
  <2>7. Outstanding' + TotalReceived' <= TotalSent' + faults'
    BY <1>1, <1>9, <2>1, <2>2, <2>3, <2>4, <2>5, <2>6
  <2>8. ASSUME NEW p \in Threads
        PROVE  Sent(p)' <= replies'[p] + Window(p)
    <3>1. /\ Sent(p) <= replies[p] + Window(p) /\ Window(p) \in Nat
          /\ Sent(p) \in Int /\ Sent(p)' = Sent(p)
      BY <1>3, <1>5, WindowParts, OwnRanges DEF InvWindow, InvTypes, Sent
    <3>2. replies[p] \in Nat
            /\ (replies'[p] = replies[p] \/ replies'[p] = replies[p] + r)
      BY <1>7
    <3> QED BY <1>1, <3>1, <3>2
  <2> QED BY <1>3, <1>5, <2>7, <2>8 DEF InvWindow
<1>15. InvQuiet'
  <2> SUFFICES ASSUME faults' = 0, ~Steered
               PROVE  /\ ~failed' /\ main' # "abort"
                      /\ main' \in {"out", "closed"} => rc' = 0
                      /\ \A p \in Threads :
                           /\ Sent(p)' = replies'[p] + Reflections(rxq'[p])
                                           + Cardinality(wire \intersect Own(p))
                           /\ pc'[p] = "idle"
                                => replies'[p] < Share(p) /\ replies'[p] < Sent(p)'
    BY <1>3, <1>5 DEF InvQuiet
  <2>1. faults = 0 /\ where = "turn" /\ failed' = failed
    BY <1>4, <1>9
  <2>2. /\ ~failed /\ main # "abort" /\ (main \in {"out", "closed"} => rc = 0)
        /\ \A p \in Threads :
             /\ Sent(p) = replies[p] + Reflections(rxq[p]) + Cardinality(wire \intersect Own(p))
             /\ pc[p] = "idle" => replies[p] < Share(p) /\ replies[p] < Sent(p)
    BY <1>3, <2>1 DEF InvQuiet
  <2>3. main' = main /\ rc' = rc
    BY <1>3 DEF boss
  <2>4. ASSUME NEW p \in Threads
        PROVE  /\ Sent(p)' = replies'[p] + Reflections(rxq'[p])
                               + Cardinality(wire \intersect Own(p))
               /\ pc'[p] = "idle" => replies'[p] < Share(p) /\ replies'[p] < Sent(p)'
    <3>1. Sent(p)' = Sent(p)
      BY <1>3, <1>5 DEF Sent
    <3>2. Cardinality(wire \intersect Own(p)) \in Nat
      BY Totals, FS_Intersection, FS_CardinalityType
    <3>3. CASE p # q
      <4>1. replies'[p] = replies[p] /\ rxq'[p] = rxq[p] /\ pc'[p] = pc[p]
        BY <1>6, <1>7, <1>8, <3>3
      <4>2. Reflections(rxq'[p]) = Reflections(rxq[p])
        BY <4>1
      <4> QED BY <2>2, <3>1, <4>1, <4>2
    <3>4. CASE p = q
      <4>1. Reflections(rxq'[p]) = Reflections(rest)
        BY <1>8, <3>4
      <4>2. Sent(q) = replies[q] + (r + Reflections(rest)) + Cardinality(wire \intersect Own(q))
        BY <1>1, <2>2
      <4>3. pc'[p] # "idle"
        BY <1>6, <2>1, <3>4
      <4>4. replies[q] \in Nat /\ replies'[q] = replies[q] + r
        BY <1>7
      <4> QED BY <1>1, <1>2, <3>1, <3>2, <3>4, <4>1, <4>2, <4>3, <4>4
    <3> QED BY <3>3, <3>4
  <2> QED BY <2>1, <2>2, <2>3, <2>4
<1> QED BY <1>10, <1>11, <1>12, <1>13, <1>14, <1>15

\* The network: a frame leaves the wire, or one comes into queue q.
LEMMA NetKeeps ==
  ASSUME WorkersInv, UNCHANGED <<opts, boss, flags, worker, sends>>,
         wire' \subseteq wire, rxq' \in [Threads -> Frames],
         faults' \in Nat, faults <= faults',
         mode = "bench" => /\ Outstanding' \in Nat
                           /\ Outstanding' + faults <= Outstanding + faults'
  PROVE  InvTypes' /\ InvThreads' /\ InvSent' /\ InvEnded' /\ InvWindow'
<1> USE DEF WorkersInv
<1>1. /\ mode' = mode /\ nq' = nq /\ window' = window /\ rss' = rss
      /\ Threads' = Threads /\ Places' = Places
      /\ \A p : /\ SeqBegin(p)' = SeqBegin(p) /\ SeqEnd(p)' = SeqEnd(p)
                /\ Share(p)' = Share(p) /\ Own(p)' = Own(p)
                /\ Window(p)' = Window(p)
  BY OptsKept
<1>2. /\ main' = main /\ created' = created /\ rc' = rc /\ failed' = failed
      /\ pc' = pc /\ seq_next' = seq_next /\ replies' = replies /\ sends' = sends
  BY DEF boss, flags, worker
<1>3. InvTypes'
  <2>1. wire' \subseteq Seqs
    BY DEF InvTypes
  <2> QED BY <1>1, <1>2, <2>1 DEF InvTypes
<1>4. TotalSent' = TotalSent /\ TotalReceived' = TotalReceived
  BY <1>1, <1>2, Zenon DEF TotalSent, TotalReceived, SeqBegin
<1>5. InvThreads'
  <2>1. Succeeded' = Succeeded
    BY <1>1, <1>2, <1>4 DEF Succeeded
  <2> QED BY <1>1, <1>2, <2>1 DEF InvThreads
<1>6. InvSent'
  BY <1>1, <1>2 DEF InvSent
<1>7. InvEnded'
  BY <1>1, <1>2 DEF InvEnded, Flushed
<1>8. InvWindow'
  <2> SUFFICES ASSUME mode = "bench"
               PROVE  /\ Outstanding' + TotalReceived <= TotalSent + faults'
                      /\ \A q \in Threads : Sent(q) <= replies[q] + Window(q)
    BY <1>1, <1>2, <1>4 DEF InvWindow, Sent
  <2>1. /\ Outstanding + TotalReceived <= TotalSent + faults /\ faults \in Nat
        /\ \A q \in Threads : Sent(q) <= replies[q] + Window(q)
    BY DEF InvWindow, InvTypes
  <2>2. TotalSent \in Nat /\ TotalReceived \in Nat /\ Outstanding \in Nat
    BY Totals
  <2> QED BY <2>1, <2>2
<1> QED BY <1>3, <1>5, <1>6, <1>7, <1>8

\* The peer gets frame s: its reply, if there is one, is in the queue that the
\* hash of its flow selects.
LEMMA PeerGetsKeeps ==
  ASSUME WorkersInv, NEW s \in wire, PeerGets(s)
  PROVE  WorkersInv'
<1> USE DEF WorkersInv
<1>1. /\ wire' = wire \ {s} /\ faults' = faults
      /\ rxq' = IF mode = "bench" THEN [rxq EXCEPT ![rss[s]] = Append(@,
           "reply")] ELSE rxq
      /\ UNCHANGED <<opts, boss, flags, worker, sends>>
  BY DEF PeerGets
<1>2. /\ s \in Seqs /\ rss[s] \in Threads /\ rxq \in [Threads -> Frames]
           /\ faults \in Nat
      /\ mode \in {"bench", "flood"}
  BY DEF InvTypes
<1> DEFINE r == rss[s]
           t == Append(rxq[r], "reply")
<1>3. /\ rxq[r] \in Frames /\ t \in Frames
      /\ Reflections(t) = Reflections(rxq[r]) + 1 /\ Reflections(rxq[r]) \in Nat
  BY <1>2, ReflectionsAppend, ReflectionsType
<1>4. mode = "bench" => rxq' = [rxq EXCEPT ![r] = t]
  BY <1>1, <1>2
<1> HIDE DEF t
<1>5. rxq' \in [Threads -> Frames]
  BY <1>1, <1>2, <1>3, <1>4
<1>6. /\ mode' = mode /\ nq' = nq /\ Threads' = Threads /\ Steered' = Steered
      /\ \A p : Share(p)' = Share(p) /\ Own(p)' = Own(p) /\ SeqBegin(p)' = SeqBegin(p)
  BY <1>1, OptsKept
<1>7. /\ main' = main /\ rc' = rc /\ failed' = failed
      /\ pc' = pc /\ seq_next' = seq_next /\ replies' = replies
  BY <1>1 DEF boss, flags, worker
<1>8. IsFiniteSet(wire) /\ Cardinality(wire) \in Nat
  BY Totals
<1>9. ASSUME mode = "bench"
      PROVE  Outstanding' \in Nat /\ Outstanding' = Outstanding
  <2>1. Cardinality(wire') = Cardinality(wire) - 1
    BY <1>1, <1>8, FS_RemoveElement
  <2>2. Waiting' = Waiting + 1
    <3>1. 1 \in Int /\ rxq' = [rxq EXCEPT ![r] = t]
      BY <1>4, <1>9
    <3> HIDE DEF r
    <3>2. r \in Threads
      BY <1>2 DEF r
    <3> QED BY <1>3, <1>6, <3>1, <3>2, WaitingGrows
  <2>3. Outstanding' = Cardinality(wire') + Waiting'
          /\ Outstanding = Cardinality(wire) + Waiting
    BY DEF Outstanding, Waiting
  <2>4. Waiting \in Nat /\ Outstanding \in Nat
    BY Totals
  <2> QED BY <1>8, <2>1, <2>2, <2>3, <2>4
<1>10. InvTypes' /\ InvThreads' /\ InvSent' /\ InvEnded' /\ InvWindow'
  <2>1. wire' \subseteq wire /\ faults' \in Nat /\ faults <= faults'
    BY <1>1, <1>2
  <2>2. mode = "bench"
          => Outstanding' \in Nat /\ Outstanding' + faults <= Outstanding + faults'
    BY <1>1, <1>2, <1>9
  <2> QED BY <1>1, <1>5, <2>1, <2>2, NetKeeps
<1>11. InvQuiet'
  <2> SUFFICES ASSUME faults = 0, mode = "bench", ~Steered, NEW p \in Threads
               PROVE  /\ Sent(p) = replies[p] + Reflections(rxq'[p])
                                     + Cardinality(wire' \intersect Own(p))
                      /\ pc[p] = "idle" => replies[p] < Share(p) /\ replies[p] < Sent(p)
    BY <1>1, <1>6, <1>7 DEF InvQuiet, Sent
  <2>1. /\ Sent(p) = replies[p] + Reflections(rxq[p]) + Cardinality(wire \intersect Own(p))
        /\ pc[p] = "idle" => replies[p] < Share(p) /\ replies[p] < Sent(p)
    BY DEF InvQuiet
  <2> DEFINE W == wire \intersect Own(p)
  <2>2. IsFiniteSet(W) /\ Cardinality(W) \in Nat
    BY <1>8, FS_Intersection, FS_CardinalityType
  <2>3. wire' \intersect Own(p) = W \ {s}
    BY <1>1
  <2>4. replies[p] \in Nat
    BY DEF InvTypes
  <2>5. CASE s \in Own(p)
    <3>1. r = p
      BY <2>5 DEF Steered, Own
    <3>2. rxq'[p] = t
      BY <1>2, <1>4, <3>1
    <3>3. s \in W
      BY <2>5
    <3> HIDE DEF W
    <3>4. Cardinality(W \ {s}) = Cardinality(W) - 1
      BY <2>2, <3>3, FS_RemoveElement
    <3>5. Reflections(rxq'[p]) = Reflections(rxq[p]) + 1 /\ Reflections(rxq[p]) \in Nat
      <4> HIDE DEF r
      <4> QED BY <1>3, <3>1, <3>2
    <3>6. Sent(p) = replies[p] + Reflections(rxq[p]) + Cardinality(W)
      BY <2>1 DEF W
    <3>7. Sent(p) = replies[p] + Reflections(rxq'[p]) + Cardinality(W \ {s})
      BY <2>2, <2>4, <3>4, <3>5, <3>6
    <3> QED BY <2>1, <2>3, <3>7
  <2>6. CASE s \notin Own(p)
    <3>1. r # p
      <4>1. PICK o \in Threads : s \in Own(o)
        BY <1>2, OwnRanges
      <4>2. r = o
        BY <4>1 DEF Steered, Own
      <4> QED BY <2>6, <4>1, <4>2
    <3>2. rxq'[p] = rxq[p]
      BY <1>2, <1>4, <3>1
    <3>3. wire' \intersect Own(p) = W
      BY <2>3, <2>6
    <3> QED BY <2>1, <3>2, <3>3
  <2> QED BY <2>5, <2>6
<1> QED BY <1>10, <1>11

\* A frame arrives: one more reply waits in the queues, or none.
LEMMA FrameArrives ==
  ASSUME InvTypes, UNCHANGED opts, NEW q \in Threads, NEW e \in {"reply", "other"},
         rxq' = [rxq EXCEPT ![q] = Append(rxq[q], e)]
  PROVE  /\ rxq' \in [Threads -> Frames]
         /\ Waiting' = Waiting + (IF e = "reply" THEN 1 ELSE 0)
<1> DEFINE t == Append(rxq[q], e)
           d == IF e = "reply" THEN 1 ELSE 0
<1>1. rxq \in [Threads -> Frames] /\ rxq[q] \in Frames
  BY DEF InvTypes
<1>2. t \in Frames /\ Reflections(t) = Reflections(rxq[q]) + d
  BY <1>1, ReflectionsAppend
<1>3. rxq' = [rxq EXCEPT ![q] = t] /\ d \in Int /\ nq' = nq
  BY DEF opts
<1> HIDE DEF t, d
<1>4. rxq' \in [Threads -> Frames]
  BY <1>1, <1>2, <1>3
<1>5. Waiting' = Waiting + d
  BY <1>2, <1>3, WaitingGrows
<1> QED BY <1>4, <1>5 DEF d

\* A reply that is lost or comes twice, which are faults.
LEMMA MisbehaveKeeps ==
  ASSUME WorkersInv, Misbehave
  PROVE  WorkersInv'
<1> USE DEF WorkersInv
<1>1. rxq \in [Threads -> Frames] /\ faults \in Nat /\ rss \in [Seqs -> Threads]
        /\ wire \subseteq Seqs
  BY DEF InvTypes
<1>2. /\ IsFiniteSet(wire) /\ Cardinality(wire) \in Nat /\ Waiting \in Nat
      /\ Outstanding = Cardinality(wire) + Waiting
  BY Totals
<1>3. Outstanding' = Cardinality(wire') + Waiting'
  BY DEF Outstanding, Waiting
<1>4. ASSUME NEW s \in wire, PeerDrops(s)
      PROVE  WorkersInv'
  <2>1. /\ wire' = wire \ {s} /\ faults' = faults + 1 /\ rxq' = rxq
        /\ UNCHANGED <<opts, boss, flags, worker, sends>>
    BY <1>4 DEF PeerDrops, Fault
  <2>2. Cardinality(wire') = Cardinality(wire) - 1 /\ Cardinality(wire') \in Nat
    BY <1>2, <2>1, FS_RemoveElement, FS_CardinalityType
  <2>3. Waiting' = Waiting
    <3>1. nq' = nq
      BY <2>1 DEF opts
    <3> QED BY <2>1, <3>1, Zenon DEF Waiting
  <2>4. Outstanding' \in Nat /\ Outstanding' + faults <= Outstanding + faults'
    BY <1>1, <1>2, <1>3, <2>1, <2>2, <2>3
  <2>5. wire' \subseteq wire /\ faults' \in Nat /\ faults <= faults' /\ faults' # 0
    BY <1>1, <2>1
  <2>6. InvTypes' /\ InvThreads' /\ InvSent' /\ InvEnded' /\ InvWindow'
    BY <1>1, <2>1, <2>4, <2>5, NetKeeps
  <2> QED BY <2>5, <2>6 DEF InvQuiet
<1>5. ASSUME NEW s \in wire, ReplyTwice(s)
      PROVE  WorkersInv'
  <2> DEFINE q == rss[s]
             t == Append(rxq[q], "reply")
  <2>1. q \in Threads
    BY <1>1
  <2>2. /\ faults' = faults + 1 /\ wire' = wire
        /\ rxq' = [rxq EXCEPT ![q] = t]
        /\ UNCHANGED <<opts, boss, flags, worker, sends>>
    BY <1>5 DEF ReplyTwice, Fault
  <2> HIDE DEF q
  <2>3. rxq' \in [Threads -> Frames] /\ Waiting' = Waiting + 1
    BY <2>1, <2>2, FrameArrives
  <2>4. Outstanding' \in Nat /\ Outstanding' + faults <= Outstanding + faults'
    BY <1>1, <1>2, <1>3, <2>2, <2>3
  <2>5. wire' \subseteq wire /\ faults' \in Nat /\ faults <= faults' /\ faults' # 0
    BY <1>1, <2>2
  <2>6. InvTypes' /\ InvThreads' /\ InvSent' /\ InvEnded' /\ InvWindow'
    BY <2>2, <2>3, <2>4, <2>5, NetKeeps
  <2> QED BY <2>5, <2>6 DEF InvQuiet
<1> QED BY <1>4, <1>5 DEF Misbehave

\* A frame that is no reply changes what is received and nothing that counts.
LEMMA NoiseKeeps ==
  ASSUME WorkersInv, Noise
  PROVE  WorkersInv'
<1> USE DEF WorkersInv
<1>1. PICK q \in Threads : OtherFrame(q)
  BY DEF Noise
<1> DEFINE t == Append(rxq[q], "other")
<1>2. /\ faults' = faults /\ wire' = wire
      /\ rxq' = [rxq EXCEPT ![q] = t]
      /\ UNCHANGED <<opts, boss, flags, worker, sends>>
  BY <1>1 DEF OtherFrame
<1>3. rxq \in [Threads -> Frames] /\ faults \in Nat
  BY DEF InvTypes
<1>4. rxq' \in [Threads -> Frames] /\ Waiting' = Waiting + 0
  BY <1>2, FrameArrives
<1>5. /\ Cardinality(wire) \in Nat /\ Waiting \in Nat
      /\ Outstanding = Cardinality(wire) + Waiting
  BY Totals
<1>6. Outstanding' = Cardinality(wire') + Waiting'
  BY DEF Outstanding, Waiting
<1>7. Cardinality(wire') = Cardinality(wire)
  BY <1>2, Zenon
<1>8. Outstanding' \in Nat /\ Outstanding' + faults <= Outstanding + faults'
  BY <1>2, <1>3, <1>4, <1>5, <1>6, <1>7
<1>9. wire' \subseteq wire /\ faults' \in Nat /\ faults <= faults'
  BY <1>2, <1>3
<1>10. InvTypes' /\ InvThreads' /\ InvSent' /\ InvEnded' /\ InvWindow'
  BY <1>2, <1>4, <1>8, <1>9, NetKeeps
<1>11. \A p \in Threads : Reflections(rxq'[p]) = Reflections(rxq[p])
  <2>1. Reflections(t) = Reflections(rxq[q]) + 0 /\ Reflections(rxq[q]) \in Nat
    BY <1>3, ReflectionsAppend, ReflectionsType
  <2> HIDE DEF t
  <2>2. Reflections(t) = Reflections(rxq[q])
    BY <2>1
  <2>3. rxq'[q] = t /\ \A p \in Threads : p # q => rxq'[p] = rxq[p]
    BY <1>2, <1>3
  <2> QED BY <2>2, <2>3
<1>12. InvQuiet'
  <2>1. /\ mode' = mode /\ Threads' = Threads /\ Steered' = Steered
        /\ \A p : Share(p)' = Share(p) /\ Own(p)' = Own(p) /\ SeqBegin(p)' = SeqBegin(p)
    BY <1>2, OptsKept
  <2>2. /\ main' = main /\ rc' = rc /\ failed' = failed
        /\ pc' = pc /\ seq_next' = seq_next /\ replies' = replies
    BY <1>2 DEF boss, flags, worker
  <2> QED BY <1>2, <1>11, <2>1, <2>2 DEF InvQuiet, Sent
<1> QED BY <1>10, <1>12

-------------------------------------------------------------------------------
\* The inductive invariant holds in every state.
THEOREM WorkersInvariant == Spec => []WorkersInv
<1>1. Init => WorkersInv
  BY InitHolds
<1>2. WorkersInv /\ [Next]_vars => WorkersInv'
  <2> SUFFICES ASSUME WorkersInv, [Next]_vars PROVE WorkersInv'
    OBVIOUS
  <2>1. CASE Boss
    BY <2>1, CreateKeeps, BossKeeps, JoinedKeeps DEF Boss
  <2>2. ASSUME NEW q \in Threads, Worker(q)
        PROVE  WorkersInv'
    BY <2>2, WalkKeeps, StopKeeps, SendKeeps, ReceiveKeeps DEF Worker
  <2>3. CASE Fail
    BY <2>3, BossKeeps, StopKeeps, SendKeeps, ReceiveKeeps DEF Fail
  <2>4. CASE Answer
    BY <2>4, PeerGetsKeeps DEF Answer
  <2>5. CASE Misbehave \/ Noise
    BY <2>5, MisbehaveKeeps, NoiseKeeps
  <2>6. CASE UNCHANGED vars
    <3>1. /\ UNCHANGED <<opts, boss, flags, seq_next, replies, net, faults>>
          /\ pc' = pc /\ main' = main /\ created' = created /\ rc' = rc
               /\ failed' = failed
          /\ seq_next' = seq_next /\ replies' = replies /\ faults' = faults
          /\ wire' = wire /\ rxq' = rxq /\ sends' = sends
      BY <2>6 DEF vars, boss, flags, worker, net
    <3>2. /\ mode' = mode /\ nq' = nq /\ window' = window /\ rss' = rss
          /\ Threads' = Threads /\ Places' = Places /\ Steered' = Steered
          /\ \A q : /\ SeqBegin(q)' = SeqBegin(q) /\ SeqEnd(q)' = SeqEnd(q)
                    /\ Share(q)' = Share(q) /\ Own(q)' = Own(q)
      BY <3>1, OptsKept
    <3>3. InvTypes'
      BY <3>1, <3>2 DEF WorkersInv, InvTypes
    <3>4. InvSent' /\ InvWindow'
      BY <3>1, NothingMoves DEF WorkersInv, InvTypes
    <3>5. Succeeded' = Succeeded
      BY <3>1, <3>2, Zenon DEF Succeeded, TotalSent, TotalReceived, SeqBegin
    <3>6. InvThreads'
      BY <3>1, <3>2, <3>5 DEF WorkersInv, InvThreads
    <3>7. InvEnded'
      BY <3>1, <3>2 DEF WorkersInv, InvEnded, Flushed
    <3>8. InvQuiet'
      BY <3>1, <3>2 DEF WorkersInv, InvQuiet, Sent
    <3> QED BY <3>3, <3>4, <3>6, <3>7, <3>8 DEF WorkersInv
  <2> QED BY <2>1, <2>2, <2>3, <2>4, <2>5, <2>6 DEF Next
<1> QED BY <1>1, <1>2, PTL DEF Spec

(***************************************************************************)
(* When the device is closed every worker has ended or was never created,  *)
(* for any number of queues, and wherever the others were when a           *)
(* pthread_create or a worker failed.                                      *)
(***************************************************************************)
THEOREM NoThreadOutlives == Spec => []NoThreadOutlivesDevice
<1>1. WorkersInv => NoThreadOutlivesDevice
  BY DEF WorkersInv, InvThreads, NoThreadOutlivesDevice
<1> QED BY <1>1, WorkersInvariant, PTL

\* What a run that ended well has done.
LEMMA OkComplete ==
  ASSUME WorkersInv, Ok
  PROVE  /\ ~failed
         /\ \A q \in Threads : /\ seq_next[q] = SeqEnd(q)
                               /\ mode = "bench" => replies[q] = Share(q)
                               /\ mode = "flood" => Flushed(q)
<1> USE DEF WorkersInv
<1>1. main \in {"out", "closed"} /\ created = nq /\ Succeeded
  BY DEF Ok, InvThreads
<1>2. ~failed /\ TotalSent = Count /\ (mode = "bench" => TotalReceived = Count)
  BY <1>1 DEF Succeeded
<1>3. \A q \in Threads : pc[q] = "end"
  BY <1>1 DEF InvThreads, InvTypes, Threads
<1> DEFINE f == [i \in 1..nq |-> seq_next[i - 1] - SeqBegin(i - 1)]
           g == [i \in 1..nq |-> replies[i - 1]]
           h == [i \in 1..nq |-> Share(i - 1)]
<1>4. nq \in Nat /\ \A i \in 1..nq : i - 1 \in Threads
  BY DEF InvTypes, Threads
<1>5. ASSUME NEW q \in Threads
      PROVE  /\ seq_next[q] \in SeqBegin(q)..SeqEnd(q) /\ replies[q] \in Nat
             /\ SeqBegin(q) \in Nat /\ SeqEnd(q) \in Nat /\ Share(q) \in Int
             /\ seq_next[q] - SeqBegin(q) \in Int
             /\ seq_next[q] - SeqBegin(q) <= Share(q)
             /\ mode = "bench" => Share(q) <= replies[q]
  <2>1. /\ seq_next[q] \in SeqBegin(q)..SeqEnd(q) /\ replies[q] \in Nat
        /\ SeqBegin(q) \in Nat /\ SeqEnd(q) \in Nat
    BY OwnRanges DEF InvSent, InvTypes
  <2>2. Share(q) = SeqEnd(q) - SeqBegin(q)
    BY DEF Share
  <2>3. mode = "bench" => replies[q] >= Share(q)
    BY <1>2, <1>3 DEF InvEnded
  <2> QED BY <2>1, <2>2, <2>3
<1>6. \A i \in 1..nq : /\ f[i] \in Int /\ g[i] \in Int /\ h[i] \in Int
                       /\ f[i] <= h[i]
                       /\ mode = "bench" => h[i] <= g[i]
  BY <1>4, <1>5
<1>7. SumTo(h, nq) = Count
  BY SharesAddUp
<1>8. SumTo(f, nq) = Count /\ (mode = "bench" => SumTo(g, nq) = Count)
  BY <1>2 DEF TotalSent, TotalReceived
<1>9. ASSUME NEW q \in Threads
      PROVE  q + 1 \in 1..nq /\ f[q + 1] = seq_next[q] - SeqBegin(q)
             /\ g[q + 1] = replies[q] /\ h[q + 1] = Share(q)
  <2>1. q + 1 \in 1..nq /\ (q + 1) - 1 = q
    BY <1>4 DEF Threads
  <2> QED BY <2>1
<1> HIDE DEF f, g, h
<1>10. \A i \in 1..nq : f[i] = h[i]
  BY <1>4, <1>6, <1>7, <1>8, SumOrder
<1>11. mode = "bench" => \A i \in 1..nq : h[i] = g[i]
  BY <1>4, <1>6, <1>7, <1>8, SumOrder
<1>12. ASSUME NEW q \in Threads
       PROVE  /\ seq_next[q] = SeqEnd(q)
              /\ mode = "bench" => replies[q] = Share(q)
              /\ mode = "flood" => Flushed(q)
  <2>1. seq_next[q] - SeqBegin(q) = Share(q)
          /\ (mode = "bench" => replies[q] = Share(q))
    BY <1>9, <1>10, <1>11
  <2>2. seq_next[q] = SeqEnd(q)
    BY <1>5, <2>1 DEF Share
  <2>3. mode = "flood" => Flushed(q)
    BY <1>2, <1>3 DEF InvEnded
  <2> QED BY <2>1, <2>2, <2>3
<1> QED BY <1>2, <1>12

(***************************************************************************)
(* No worker leaves its range, no frame is sent twice, and a run that ends *)
(* well has sent each of the Count frames once: for any Count, number of   *)
(* queues, window and batch, also when Count is not a multiple of the      *)
(* number of queues.                                                       *)
(***************************************************************************)
THEOREM FramesOnce == Spec => []EachFrameOnce
<1>1. ASSUME WorkersInv PROVE EachFrameOnce
  <2> USE <1>1 DEF WorkersInv
  <2>1. \A q \in Threads : seq_next[q] \in SeqBegin(q)..SeqEnd(q)
    BY DEF InvSent
  <2>2. ASSUME NEW s \in Seqs
        PROVE  sends[s] <= 1 /\ (Ok => sends[s] = 1)
    <3>1. PICK q \in Threads : s \in Own(q)
      BY OwnRanges
    <3>2. /\ sends[s] \in {0, 1}
          /\ s < seq_next[q] /\ ~failed => sends[s] = 1
      BY <3>1 DEF InvSent
    <3>3. Ok => seq_next[q] = SeqEnd(q) /\ ~failed
      BY OkComplete
    <3>4. s < SeqEnd(q)
      BY <3>1, OwnRanges DEF Own
    <3> QED BY <3>2, <3>3, <3>4
  <2> QED BY <2>1, <2>2 DEF EachFrameOnce
<1>2. WorkersInv => EachFrameOnce
  BY <1>1
<1> QED BY <1>2, WorkersInvariant, PTL

(***************************************************************************)
(* The totals are enough: a raw-bench run that reports success has sent    *)
(* and received each worker's share on its own queue, and raw-flood leaves *)
(* nothing in a send queue.                                                *)
(***************************************************************************)
THEOREM SuccessMeansDone == Spec => []OkMeansDone
<1>1. ASSUME WorkersInv, Ok
      PROVE  IF mode = "bench"
             THEN \A q \in Threads : seq_next[q] = SeqEnd(q) /\ replies[q] = Share(q)
             ELSE wire = {}
  <2>1. \A q \in Threads : /\ seq_next[q] = SeqEnd(q)
                           /\ mode = "bench" => replies[q] = Share(q)
                           /\ mode = "flood" => Flushed(q)
    BY <1>1, OkComplete
  <2>2. CASE mode = "bench"
    BY <2>1, <2>2
  <2>3. CASE mode # "bench"
    <3>1. mode = "flood" /\ wire \subseteq Seqs
      BY <1>1, <2>3 DEF WorkersInv, InvTypes
    <3> SUFFICES ASSUME NEW s \in wire PROVE FALSE
      BY <2>3
    <3>2. PICK q \in Threads : s \in Own(q)
      BY <1>1, <3>1, OwnRanges DEF WorkersInv
    <3> QED BY <2>1, <3>1, <3>2 DEF Flushed, Own
  <2> QED BY <2>2, <2>3
<1>2. WorkersInv => OkMeansDone
  BY <1>1 DEF OkMeansDone
<1> QED BY <1>2, WorkersInvariant, PTL

(***************************************************************************)
(* The workers together keep to --window, or to one frame for each queue,  *)
(* although each looks only at its own counters and replies come back on   *)
(* whichever queue the hash selects.                                       *)
(***************************************************************************)
THEOREM WindowAggregates == Spec => []AggregateWindow
<1>1. ASSUME WorkersInv, mode = "bench"
      PROVE  Outstanding <= Max({window, nq}) + faults
  <2> USE <1>1 DEF WorkersInv
  <2> DEFINE f == [i \in 1..nq |-> seq_next[i - 1] - SeqBegin(i - 1)]
             g == [i \in 1..nq |-> replies[i - 1]]
             h == [i \in 1..nq |-> replies[i - 1] + Window(0)]
  <2>1. /\ nq \in Nat /\ faults \in Nat /\ Window(0) \in Nat /\ Window(0) \in Int
        /\ Max({window, nq}) \in Nat /\ nq * Window(0) <= Max({window, nq})
    <3>1. /\ Window(0) \in Nat \ {0} /\ Max({window, nq}) \in Nat
          /\ nq * Window(0) <= Max({window, nq})
      BY WindowParts, Zenon
    <3>2. nq \in Nat /\ faults \in Nat
      BY DEF InvTypes
    <3> QED BY <3>1, <3>2
  <2>2. \A i \in 1..nq : i - 1 \in Threads
    BY <2>1 DEF Threads
  <2>3. ASSUME NEW q \in Threads
        PROVE  /\ seq_next[q] - SeqBegin(q) \in Int /\ replies[q] \in Nat
               /\ seq_next[q] - SeqBegin(q) <= replies[q] + Window(0)
    <3>1. seq_next[q] \in Nat /\ SeqBegin(q) \in Nat /\ replies[q] \in Nat
      BY OwnRanges DEF InvTypes
    <3>2. Sent(q) <= replies[q] + Window(q)
      BY DEF InvWindow
    <3>3. Window(q) = Window(0)
      BY DEF Window
    <3> QED BY <3>1, <3>2, <3>3 DEF Sent
  <2>4. /\ \A i \in 1..nq : f[i] \in Int /\ h[i] \in Int
        /\ \A i \in 1..nq : g[i] \in Int
        /\ \A i \in 1..nq : f[i] <= h[i]
        /\ \A i \in 1..nq : h[i] = g[i] + Window(0)
    BY <2>1, <2>2, <2>3
  <2>5. TotalSent = SumTo(f, nq) /\ TotalReceived = SumTo(g, nq)
    BY DEF TotalSent, TotalReceived
  <2> HIDE DEF f, g, h
  <2>6. SumTo(f, nq) <= SumTo(h, nq)
    BY <2>1, <2>4, SumOrder
  <2>7. SumTo(h, nq) = SumTo(g, nq) + nq * Window(0)
    BY <2>1, <2>4, SumShift
  <2>8. Outstanding + TotalReceived <= TotalSent + faults
    BY DEF InvWindow
  <2>9. TotalSent \in Nat /\ TotalReceived \in Nat /\ Outstanding \in Nat
    BY Totals
  <2>10. nq * Window(0) \in Nat
    BY <2>1
  <2>11. TotalSent <= TotalReceived + nq * Window(0)
    BY <2>5, <2>6, <2>7
  <2> QED BY <2>1, <2>8, <2>9, <2>10, <2>11
<1>2. WorkersInv => AggregateWindow
  BY <1>1 DEF AggregateWindow
<1> QED BY <1>2, WorkersInvariant, PTL

(***************************************************************************)
(* If nothing fails and the hash gives every reply to the worker that sent *)
(* the frame, the run succeeds.                                            *)
(***************************************************************************)
THEOREM SteeringOrSuccess == Spec => []FailsOnlyIfSteered
<1>1. WorkersInv => FailsOnlyIfSteered
  BY DEF WorkersInv, InvQuiet, FailsOnlyIfSteered
<1> QED BY <1>1, WorkersInvariant, PTL
===============================================================================
