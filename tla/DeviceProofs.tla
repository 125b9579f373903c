----------------------------- MODULE DeviceProofs -----------------------------
(***************************************************************************)
(* Proofs about Device: what holds of the device life cycle for every      *)
(* number of queues, every configuration and any number of faults.         *)
(*                                                                         *)
(* A start and a cleanup walk along two sequences, StartOrder and          *)
(* CleanupOrders, put together with FlattenSeq from parts, one of which    *)
(* has a piece for every queue.  The first sections say what these         *)
(* sequences contain and in which order; all later reasoning is about the  *)
(* set of steps that come Before a position.  DeviceInv is the inductive   *)
(* invariant: while a start goes on, every step before the current one     *)
(* has left behind what it should (Taken); while a cleanup goes on, every  *)
(* object the cleanup has Passed is gone from the firmware or Excused.     *)
(* InvQuiet adds what a start to which nothing happened has left behind.   *)
(***************************************************************************)
EXTENDS Device, RingArithmetic

-------------------------------------------------------------------------------
(***************************************************************************)
(* The address layout: the memory the driver maps does not overlap, for    *)
(* all the queues it can have, as long as the firmware pages fit below the *)
(* TX CQs.  Each object has a block of addresses; the blocks are apart,    *)
(* and within a block the regions are.                                     *)
(***************************************************************************)
MLXNICD_MAX_QUEUES == 8

Sizes ==
  /\ MLX5_PAGE_SIZE = 4096
  /\ MLX5_CMD_MBOX_SIZE = 1048576
  /\ MLX5_CQ_DMA_BYTES = 131072
  /\ MLX5_SQ_DMA_BYTES = 524288
  /\ MLX5_RQ_DMA_BYTES = 65536
  /\ RxBytes = 16777216

\* The block of object o: from its lowest address to its highest.
Block(o) ==
  LET kind == o[1]
      q == o[2]
  IN  [ctx   |-> Span(\h01000000, \h01100000),
       eq    |-> Page(\h07200000),
       tx_cq |-> Span(TxCqBase(q), \h00041000),
       rx_cq |-> Span(RxCqBase(q), \h00041000),
       sq    |-> Span(SqBase(q), \h00082000),
       rq    |-> Span(RqBase(q), \h01100000)][kind]

Within(s, t) == t.first <= s.first /\ s.first < s.end /\ s.end <= t.end

AllOwners == Owners(MLXNICD_MAX_QUEUES)

\* The sizes in bytes.
LEMMA SizesInBytes == Sizes
BY DEF Sizes, MLX5_PAGE_SIZE, MLX5_CMD_MBOX_SIZE, MLX5_CQ_DMA_BYTES,
       MLX5_SQ_DMA_BYTES, MLX5_RQ_DMA_BYTES, RxBytes

\* An object is the context, the event queue, or one of a queue.
LEMMA OwnerKinds ==
  ASSUME NEW o \in AllOwners
  PROVE  \/ o = <<"ctx", 0>>
         \/ o = <<"eq", 0>>
         \/ \E kind \in {"tx_cq", "rx_cq", "sq", "rq"}, q \in 0..7 : o = <<kind, q>>
BY DEF AllOwners, Owners, MLXNICD_MAX_QUEUES

\* The ends of a block are integers.
LEMMA BlocksInt ==
  ASSUME NEW o \in AllOwners
  PROVE  Block(o).first \in Int /\ Block(o).end \in Int
BY OwnerKinds, SizesInBytes
   DEF Block, Span, Page, TxCqBase, RxCqBase, SqBase, RqBase, Sizes

\* A region lies in its object's block.
LEMMA RegionInBlock ==
  ASSUME NEW o \in AllOwners, NEW r \in DOMAIN Spans(o)
  PROVE  /\ Spans(o)[r] \in [first : Int, end : Int]
         /\ Within(Spans(o)[r], Block(o))
<1>1. CASE o = <<"ctx", 0>>
  BY <1>1, SizesInBytes
     DEF Spans, CtxSpans, Block, Within, Span, Page, Sizes
<1>2. CASE o = <<"eq", 0>>
  BY <1>2, SizesInBytes DEF Spans, EqSpans, Block, Within, Span, Page, Sizes
<1>3. ASSUME NEW kind \in {"tx_cq", "rx_cq", "sq", "rq"}, NEW q \in 0..7,
             o = <<kind, q>>
      PROVE  /\ Spans(o)[r] \in [first : Int, end : Int]
             /\ Within(Spans(o)[r], Block(o))
  <2>1. CASE kind = "tx_cq"
    BY <1>3, <2>1, SizesInBytes
       DEF Spans, CqSpans, TxCqBase, Block, Within, Span, Page, Sizes
  <2>2. CASE kind = "rx_cq"
    BY <1>3, <2>2, SizesInBytes
       DEF Spans, CqSpans, RxCqBase, Block, Within, Span, Page, Sizes
  <2>3. CASE kind = "sq"
    BY <1>3, <2>3, SizesInBytes
       DEF Spans, SqSpans, SqBase, Block, Within, Span, Page, Sizes
  <2>4. CASE kind = "rq"
    BY <1>3, <2>4, SizesInBytes
       DEF Spans, RqSpans, RqBase, Block, Within, Span, Page, Sizes
  <2>5. QED BY <2>1, <2>2, <2>3, <2>4
<1>4. QED BY <1>1, <1>2, <1>3, OwnerKinds

\* The blocks of one kind of object, in the order of the queues, are apart.
LEMMA QueuesApart ==
  ASSUME NEW kind \in {"tx_cq", "rx_cq", "sq", "rq"},
         NEW q \in 0..7, NEW r \in 0..7, q < r
  PROVE  Block(<<kind, q>>).end <= Block(<<kind, r>>).first
<1>1. Block(<<"tx_cq", q>>).end <= Block(<<"tx_cq", r>>).first
  BY SMT DEF Block, Span, TxCqBase
<1>2. Block(<<"rx_cq", q>>).end <= Block(<<"rx_cq", r>>).first
  BY SMT DEF Block, Span, RxCqBase
<1>3. Block(<<"sq", q>>).end <= Block(<<"sq", r>>).first
  BY SMT DEF Block, Span, SqBase
<1>4. Block(<<"rq", q>>).end <= Block(<<"rq", r>>).first
  BY SMT DEF Block, Span, RqBase
<1>5. QED BY <1>1, <1>2, <1>3, <1>4

\* The area all objects of a kind share.
Area(kind) ==
  [ctx   |-> [first |-> \h01000000, end |-> \h03000000],
   tx_cq |-> [first |-> \h04000000, end |-> \h05000000],
   sq    |-> [first |-> \h05000000, end |-> \h06000000],
   eq    |-> [first |-> \h07000000, end |-> \h08000000],
   rx_cq |-> [first |-> \h0a000000, end |-> \h0c000000],
   rq    |-> [first |-> \h0c000000, end |-> \h1c000000]][kind]

Kinds == {"ctx", "eq", "tx_cq", "rx_cq", "sq", "rq"}

\* The areas of two kinds are apart.
LEMMA AreasApart ==
  ASSUME NEW k \in Kinds, NEW l \in Kinds, k # l
  PROVE  Disjoint(Area(k), Area(l))
BY SMT DEF Kinds, Area, Disjoint

\* A block lies in the area of its kind.
LEMMA BlockInArea ==
  ASSUME NEW o \in AllOwners
  PROVE  /\ o[1] \in Kinds
         /\ Area(o[1]) \in [first : Int, end : Int]
         /\ Within(Block(o), Area(o[1]))
<1>1. CASE o = <<"ctx", 0>>
  BY <1>1, SMT DEF Block, Area, Kinds, Within, Span
<1>2. CASE o = <<"eq", 0>>
  BY <1>2, SizesInBytes, SMT DEF Block, Area, Kinds, Within, Span, Page, Sizes
<1>3. ASSUME NEW q \in 0..7
      PROVE  /\ Within(Block(<<"tx_cq", q>>), Area("tx_cq"))
             /\ Within(Block(<<"rx_cq", q>>), Area("rx_cq"))
             /\ Within(Block(<<"sq", q>>), Area("sq"))
             /\ Within(Block(<<"rq", q>>), Area("rq"))
  BY SMT DEF Block, Area, Within, Span, TxCqBase, RxCqBase, SqBase, RqBase
<1>4. \A kind \in Kinds : Area(kind) \in [first : Int, end : Int]
  BY SMT DEF Area, Kinds
<1>5. ASSUME NEW kind \in {"tx_cq", "rx_cq", "sq", "rq"}, NEW q \in 0..7,
             o = <<kind, q>>
      PROVE  /\ o[1] \in Kinds
             /\ Within(Block(o), Area(o[1]))
  BY <1>3, <1>5, SMT DEF Kinds
<1>6. QED BY <1>1, <1>2, <1>4, <1>5, OwnerKinds, SMT

\* The blocks of two objects are apart.
LEMMA BlocksApart ==
  ASSUME NEW o \in AllOwners, NEW p \in AllOwners, o # p
  PROVE  Disjoint(Block(o), Block(p))
<1>1. CASE o[1] # p[1]
  <2>1. Disjoint(Area(o[1]), Area(p[1]))
    BY <1>1, BlockInArea, AreasApart
  <2>2. QED BY <2>1, BlockInArea, BlocksInt, SMT DEF Disjoint, Within
<1>2. CASE o[1] = p[1]
  <2>1. PICK kind \in {"tx_cq", "rx_cq", "sq", "rq"}, q \in 0..7, r \in 0..7 :
          o = <<kind, q>> /\ p = <<kind, r>>
    BY <1>2, OwnerKinds, SMT
  <2>2. q < r \/ r < q
    BY <2>1, SMT
  <2>3. QED BY <2>1, <2>2, QueuesApart DEF Disjoint
<1>3. QED BY <1>1, <1>2

\* The regions of one object are apart.
LEMMA RegionsApart ==
  ASSUME NEW o \in AllOwners, NEW r \in DOMAIN Spans(o), NEW s \in DOMAIN Spans(o),
         r # s
  PROVE  Disjoint(Spans(o)[r], Spans(o)[s])
<1>1. CASE o = <<"ctx", 0>>
  BY <1>1, SizesInBytes DEF Spans, CtxSpans, Disjoint, Span, Page, Sizes
<1>2. CASE o = <<"eq", 0>>
  BY <1>2 DEF Spans, EqSpans
<1>3. ASSUME NEW kind \in {"tx_cq", "rx_cq", "sq", "rq"}, NEW q \in 0..7,
             o = <<kind, q>>
      PROVE  Disjoint(Spans(o)[r], Spans(o)[s])
  <2>1. CASE kind = "tx_cq"
    BY <1>3, <2>1, SizesInBytes
       DEF Spans, CqSpans, TxCqBase, Disjoint, Span, Page, Sizes
  <2>2. CASE kind = "rx_cq"
    BY <1>3, <2>2, SizesInBytes
       DEF Spans, CqSpans, RxCqBase, Disjoint, Span, Page, Sizes
  <2>3. CASE kind = "sq"
    BY <1>3, <2>3, SizesInBytes
       DEF Spans, SqSpans, SqBase, Disjoint, Span, Page, Sizes
  <2>4. CASE kind = "rq"
    BY <1>3, <2>4, SizesInBytes
       DEF Spans, RqSpans, RqBase, Disjoint, Span, Page, Sizes
  <2>5. QED BY <2>1, <2>2, <2>3, <2>4
<1>4. QED BY <1>1, <1>2, <1>3, OwnerKinds

\* A region names an object and one of the object's spans.
LEMMA RegionParts ==
  ASSUME NEW d \in Regions(MLXNICD_MAX_QUEUES)
  PROVE  /\ d = <<d[1], d[2]>>
         /\ d[1] \in AllOwners
         /\ d[2] \in DOMAIN Spans(d[1])
BY DEF Regions, AllOwners

(***************************************************************************)
(* No two regions the driver maps for a device with up to                  *)
(* MLXNICD_MAX_QUEUES queues share an address: the fixed IOVAs of the      *)
(* context (mlx5_cmd_ctx_open), the event queue and every CQ, SQ and RQ    *)
(* with their doorbell and buffer pages never make vfio_dma_map fail.      *)
(***************************************************************************)
THEOREM LayoutDisjoint ==
  \A d, e \in Regions(MLXNICD_MAX_QUEUES) : d # e => Disjoint(SpanOf(d), SpanOf(e))
<1> SUFFICES ASSUME NEW d \in Regions(MLXNICD_MAX_QUEUES),
                    NEW e \in Regions(MLXNICD_MAX_QUEUES),
                    d # e
             PROVE  Disjoint(SpanOf(d), SpanOf(e))
  OBVIOUS
<1>1. CASE d[1] = e[1]
  <2>1. d[2] # e[2]
    BY <1>1, RegionParts
  <2>2. QED BY <1>1, <2>1, RegionParts, RegionsApart DEF SpanOf
<1>2. CASE d[1] # e[1]
  <2>1. Disjoint(Block(d[1]), Block(e[1]))
    BY <1>2, RegionParts, BlocksApart
  <2>2. /\ SpanOf(d) \in [first : Int, end : Int]
        /\ Within(SpanOf(d), Block(d[1]))
        /\ SpanOf(e) \in [first : Int, end : Int]
        /\ Within(SpanOf(e), Block(e[1]))
    BY RegionParts, RegionInBlock DEF SpanOf
  <2>3. QED BY <2>1, <2>2, BlocksInt, RegionParts DEF Disjoint, Within
<1>3. QED BY <1>1, <1>2

(***************************************************************************)
(* The pages mlx5_ctx_give_pages maps for the firmware, upward from        *)
(* 0x03000000, meet none of the driver's own regions as long as there are  *)
(* at most 4096 of them, half of MLX5_MAX_FW_PAGES: from the next on they  *)
(* run into the first TX CQ.                                               *)
(***************************************************************************)
THEOREM FirmwarePagesFit ==
  \A count \in 0..FwRoom, d \in Regions(MLXNICD_MAX_QUEUES) :
    Disjoint(FwSpan(count), SpanOf(d))
<1> SUFFICES ASSUME NEW count \in 0..FwRoom, NEW d \in Regions(MLXNICD_MAX_QUEUES)
             PROVE  Disjoint(FwSpan(count), SpanOf(d))
  OBVIOUS
<1>1. count \in 0..4096
  BY DEF FwRoom, TxCqBase, FwBase, MLX5_PAGE_SIZE
<1>2. /\ FwSpan(count).first = \h03000000
      /\ FwSpan(count).end = \h03000000 + count * 4096
  BY <1>1 DEF FwSpan, FwBase, Span, MLX5_PAGE_SIZE
<1>3. /\ SpanOf(d) \in [first : Int, end : Int]
      /\ Within(SpanOf(d), Block(d[1]))
      /\ d[1] \in AllOwners
  BY RegionParts, RegionInBlock DEF SpanOf
<1>4. \/ Block(d[1]).end <= \h03000000
      \/ Block(d[1]).first >= \h04000000
  BY <1>3, OwnerKinds, SizesInBytes
     DEF Block, Span, Page, TxCqBase, RxCqBase, SqBase, RqBase, Sizes
<1>5. Block(d[1]).first \in Int /\ Block(d[1]).end \in Int
  BY <1>3, BlocksInt
<1>6. FwSpan(count).end \in Int /\ FwSpan(count).end <= \h04000000
  BY <1>1, <1>2
<1>7. SpanOf(d).first \in Int /\ SpanOf(d).end \in Int
  BY <1>3
<1>8. QED BY <1>2, <1>3, <1>4, <1>5, <1>6, <1>7 DEF Disjoint, Within

(***************************************************************************)
(* However many pages mlx5_ctx_give_pages maps, up to MLX5_MAX_FW_PAGES,   *)
(* the TX CQs are all they can run into: a device that only receives never *)
(* meets them.                                                             *)
(***************************************************************************)
THEOREM OnlyTxCqsMeetPages ==
  \A count \in 0..MLX5_MAX_FW_PAGES, d \in Regions(MLXNICD_MAX_QUEUES) :
    d[1][1] # "tx_cq" => Disjoint(FwSpan(count), SpanOf(d))
<1> SUFFICES ASSUME NEW count \in 0..MLX5_MAX_FW_PAGES,
                    NEW d \in Regions(MLXNICD_MAX_QUEUES), d[1][1] # "tx_cq"
             PROVE  Disjoint(FwSpan(count), SpanOf(d))
  OBVIOUS
<1>1. count \in 0..8192
  BY DEF MLX5_MAX_FW_PAGES
<1>2. /\ FwSpan(count).first = \h03000000
      /\ FwSpan(count).end = \h03000000 + count * 4096
  BY <1>1 DEF FwSpan, FwBase, Span, MLX5_PAGE_SIZE
<1>3. /\ SpanOf(d) \in [first : Int, end : Int]
      /\ Within(SpanOf(d), Block(d[1]))
      /\ d[1] \in AllOwners
  BY RegionParts, RegionInBlock DEF SpanOf
<1>4. \/ Block(d[1]).end <= \h03000000
      \/ Block(d[1]).first >= \h05000000
  BY <1>3, OwnerKinds, SizesInBytes
     DEF Block, Span, Page, TxCqBase, RxCqBase, SqBase, RqBase, Sizes
<1>5. Block(d[1]).first \in Int /\ Block(d[1]).end \in Int
  BY <1>3, BlocksInt
<1>6. FwSpan(count).end \in Int /\ FwSpan(count).end <= \h05000000
  BY <1>1, <1>2
<1>7. SpanOf(d).first \in Int /\ SpanOf(d).end \in Int
  BY <1>3
<1>8. QED BY <1>2, <1>3, <1>4, <1>5, <1>6, <1>7 DEF Disjoint, Within

-------------------------------------------------------------------------------
(***************************************************************************)
(* Sequences in general: concatenation, FlattenSeq, and the set of the     *)
(* elements before a position.                                             *)
(***************************************************************************)

\* The elements of s before position i.
Before(s, i) == {s[j] : j \in 1..(i - 1)}

\* What comes before an element of a concatenation.
LEMMA BeforeConcat ==
  ASSUME NEW S, NEW s \in Seq(S), NEW t \in Seq(S)
  PROVE  /\ s \o t \in Seq(S)
         /\ Len(s \o t) = Len(s) + Len(t)
         /\ Range(s \o t) = Range(s) \union Range(t)
         /\ \A i \in 1..Len(s) : (s \o t)[i] = s[i] /\ Before(s \o t, i) = Before(s, i)
         /\ \A i \in 1..Len(t) :
              /\ (s \o t)[Len(s) + i] = t[i]
              /\ Before(s \o t, Len(s) + i) = Range(s) \union Before(t, i)
<1>1. s \o t \in Seq(S) /\ Len(s \o t) = Len(s) + Len(t) /\ Len(s) \in Nat
        /\ Len(t) \in Nat
      /\ DOMAIN s = 1..Len(s) /\ DOMAIN t = 1..Len(t)
           /\ DOMAIN (s \o t) = 1..(Len(s)+Len(t))
  OBVIOUS
<1>2. \A i \in 1..Len(s) : (s \o t)[i] = s[i]
  OBVIOUS
<1>3. \A i \in 1..Len(t) : (s \o t)[Len(s) + i] = t[i]
  OBVIOUS
<1>4. \A i \in 1..(Len(s) + Len(t)) : i \notin 1..Len(s)
        => i - Len(s) \in 1..Len(t) /\ i = Len(s) + (i - Len(s))
  BY <1>1
<1>5. Range(s \o t) = Range(s) \union Range(t)
  <2>1. Range(s \o t) \subseteq Range(s) \union Range(t)
    BY <1>1, <1>2, <1>3, <1>4 DEF Range
  <2>2. Range(s) \subseteq Range(s \o t)
    BY <1>1, <1>2 DEF Range
  <2>3. Range(t) \subseteq Range(s \o t)
    <3> SUFFICES ASSUME NEW i \in 1..Len(t) PROVE t[i] \in Range(s \o t)
      BY <1>1 DEF Range
    <3>1. Len(s) + i \in 1..(Len(s) + Len(t)) BY <1>1
    <3> QED BY <1>1, <1>3, <3>1 DEF Range
  <2> QED BY <2>1, <2>2, <2>3
<1>6. \A i \in 1..Len(s) : Before(s \o t, i) = Before(s, i)
  BY <1>1, <1>2 DEF Before
<1>7. ASSUME NEW i \in 1..Len(t)
      PROVE Before(s \o t, Len(s) + i) = Range(s) \union Before(t, i)
  <2>1. Before(s \o t, Len(s) + i) \subseteq Range(s) \union Before(t, i)
    <3> SUFFICES ASSUME NEW j \in 1..(Len(s) + i - 1) 
        PROVE (s \o t)[j] \in Range(s) \union Before(t, i)
      BY DEF Before
    <3>1. CASE j \in 1..Len(s)
      BY <3>1, <1>1, <1>2 DEF Range
    <3>2. CASE j \notin 1..Len(s)
      <4>1. j - Len(s) \in 1..(i-1) /\ j - Len(s) \in 1..Len(t)
              /\ j = Len(s) + (j - Len(s))
        BY <3>2, <1>1
      <4> QED BY <4>1, <1>3 DEF Before
    <3> QED BY <3>1, <3>2
  <2>2. Range(s) \subseteq Before(s \o t, Len(s) + i)
    <3> SUFFICES ASSUME NEW j \in 1..Len(s) PROVE s[j] \in Before(s \o t, Len(s) + i)
      BY <1>1 DEF Range
    <3>1. j \in 1..(Len(s) + i - 1) BY <1>1
    <3> QED BY <1>2, <3>1 DEF Before
  <2>3. Before(t, i) \subseteq Before(s \o t, Len(s) + i)
    <3> SUFFICES ASSUME NEW j \in 1..(i - 1) PROVE t[j] \in Before(s \o t, Len(s) + i)
      BY DEF Before
    <3>1. Len(s) + j \in 1..(Len(s) + i - 1) /\ j \in 1..Len(t)
      BY <1>1
    <3>2. (s \o t)[Len(s) + j] = t[j]
      BY <1>3, <3>1
    <3> QED BY <3>1, <3>2 DEF Before
  <2> QED BY <2>1, <2>2, <2>3
<1> QED BY <1>1, <1>2, <1>3, <1>5, <1>6, <1>7

Glue(parts, f, i) == IF i = 1 THEN parts[i] ELSE f[i - 1] \o parts[i]

\* The recursive function inside FlattenSeq exists for every number of parts.
LEMMA FlattenEquation ==
  ASSUME NEW parts, NEW n \in Nat
  PROVE  \E f : f = [i \in 1..n |-> Glue(parts, f, i)]
<1> DEFINE T == {m \in Nat : \E f : f = [i \in 1..m |-> Glue(parts, f, i)]}
<1>1. 0 \in T
  <2>1. <<>> = [i \in 1..0 |-> Glue(parts, <<>>, i)]
    OBVIOUS
  <2>2. \E f : f = [i \in 1..0 |-> Glue(parts, f, i)]
    BY <2>1
  <2> QED BY <2>2
<1>2. ASSUME NEW m \in Nat, m \in T
      PROVE  m + 1 \in T
  <2>1. PICK f : f = [i \in 1..m |-> Glue(parts, f, i)]
    BY <1>2
  <2> DEFINE g == [i \in 1..(m + 1) |-> Glue(parts, f, i)]
  <2>2. ASSUME NEW i \in 1..m PROVE g[i] = f[i]
    <3>1. f[i] = Glue(parts, f, i)
      BY <2>1
    <3>2. i \in 1..(m + 1)
      OBVIOUS
    <3> QED BY <3>1, <3>2
  <2>3. ASSUME NEW i \in 1..(m + 1) PROVE Glue(parts, f, i) = Glue(parts, g, i)
    <3> HIDE DEF g
    <3>1. CASE i = 1
      BY <3>1 DEF Glue
    <3>2. CASE i # 1
      <4>1. i - 1 \in 1..m
        BY <3>2
      <4>2. g[i - 1] = f[i - 1]
        BY <4>1, <2>2
      <4> QED BY <4>2, Zenon DEF Glue
    <3> QED BY <3>1, <3>2
  <2>4. g = [i \in 1..(m + 1) |-> Glue(parts, g, i)]
    BY <2>3, Zenon
  <2> HIDE DEF g
  <2>5. \E h : h = [i \in 1..(m + 1) |-> Glue(parts, h, i)]
    BY <2>4
  <2> QED BY <2>5
<1> HIDE DEF T
<1>3. Nat \subseteq T
  BY <1>1, <1>2, SetInduction
<1> QED BY <1>3 DEF T

\* FlattenSeq glues the parts on one at a time.
LEMMA FlattenParts ==
  ASSUME NEW S, NEW parts \in Seq(Seq(S)), Len(parts) # 0
  PROVE  \E f : /\ f[1] = parts[1]
                /\ \A i \in 2..Len(parts) : f[i] = f[i - 1] \o parts[i]
                /\ FlattenSeq(parts) = f[Len(parts)]
<1> DEFINE P(f) == f = [i \in 1..Len(parts) |-> Glue(parts, f, i)]
           F == CHOOSE f : P(f)
<1>1. P(F)
  <2>1. Len(parts) \in Nat
    OBVIOUS
  <2>2. \E f : P(f)
    BY <2>1, FlattenEquation, Zenon
  <2> QED BY <2>2, Zenon
<1>2. FlattenSeq(parts) = F[Len(parts)]
  BY Zenon DEF FlattenSeq, Glue
<1> HIDE DEF F
<1>3. \A i \in 1..Len(parts) : F[i] = Glue(parts, F, i)
  BY <1>1, Zenon
<1>4. Len(parts) \in Nat \ {0}
  OBVIOUS
<1>5. F[1] = parts[1]
  BY <1>3, <1>4 DEF Glue
<1>6. ASSUME NEW i \in 2..Len(parts) PROVE F[i] = F[i - 1] \o parts[i]
  <2>1. i # 1 /\ i \in 1..Len(parts)
    BY <1>4
  <2> QED BY <1>3, <2>1, Zenon DEF Glue
<1> QED BY <1>2, <1>5, <1>6

(***************************************************************************)
(* What a flattened sequence holds, and what comes before an element.      *)
(***************************************************************************)
Upto(parts, k) == UNION {Range(parts[p]) : p \in 1..k}

InOrder(s, parts, k) ==
  /\ Range(s) = Upto(parts, k)
  /\ \A i \in 1..Len(s) : \E p \in 1..k :  \E j \in 1..Len(parts[p]) :
       s[i] = parts[p][j]
         /\ Before(s, i) = Upto(parts, p - 1) \union Before(parts[p], j)

\* FlattenSeq keeps the parts, and the elements of each part, in their order.
LEMMA FlattenInOrder ==
  ASSUME NEW S, NEW parts \in Seq(Seq(S)), Len(parts) # 0
  PROVE  FlattenSeq(parts) \in Seq(S) /\ InOrder(FlattenSeq(parts), parts, Len(parts))
<1>1. PICK f : /\ f[1] = parts[1]
               /\ \A i \in 2..Len(parts) : f[i] = f[i - 1] \o parts[i]
               /\ FlattenSeq(parts) = f[Len(parts)]
  BY FlattenParts
<1> DEFINE Ok(k) == f[k] \in Seq(S) /\ InOrder(f[k], parts, k)
           T == {m \in Nat : m + 1 <= Len(parts) => Ok(m + 1)}
<1>2. Len(parts) \in Nat \ {0} /\ \A p \in 1..Len(parts) : parts[p] \in Seq(S)
  OBVIOUS
<1>3. Ok(1)
  <2>1. Upto(parts, 1) = Range(parts[1]) /\ Upto(parts, 0) = {}
    BY DEF Upto
  <2> QED BY <1>1, <1>2, <2>1 DEF InOrder
<1>4. ASSUME NEW k \in Nat, k + 2 <= Len(parts), Ok(k + 1)
      PROVE  Ok(k + 2)
  <2> DEFINE s == f[k + 1]
             t == parts[k + 2]
  <2>1. f[k + 2] = s \o t /\ s \in Seq(S) /\ t \in Seq(S)
    <3>1. k + 2 \in 2..Len(parts) /\ k + 2 \in 1..Len(parts) /\ (k + 2) - 1 = k + 1
      BY <1>2, <1>4
    <3> QED BY <1>1, <1>2, <1>4, <3>1, Zenon
  <2>2. Upto(parts, k + 2) = Upto(parts, k + 1) \union Range(t)
    <3>1. 1..(k + 2) = 1..(k + 1) \union {k + 2}
      OBVIOUS
    <3> QED BY <3>1, Zenon DEF Upto
  <2>3. InOrder(s, parts, k + 1)
    BY <1>4
  <2> HIDE DEF s, t
  <2>4. Range(s \o t) = Upto(parts, k + 2)
    <3>1. Range(s \o t) = Range(s) \union Range(t)
      BY <2>1, BeforeConcat
    <3>2. Range(s) = Upto(parts, k + 1)
      BY <2>3 DEF InOrder
    <3> QED BY <2>2, <3>1, <3>2, Zenon
  <2>5. ASSUME NEW i \in 1..Len(s \o t)
        PROVE  \E p \in 1..(k + 2) : \E j \in 1..Len(parts[p]) :
                 /\ (s \o t)[i] = parts[p][j]
                 /\ Before(s \o t, i) = Upto(parts, p - 1) \union Before(parts[p], j)
    <3>1. CASE i \in 1..Len(s)
      <4>1. PICK p \in 1..(k + 1) : \E j \in 1..Len(parts[p]) :
              s[i] = parts[p][j]
                /\ Before(s, i) = Upto(parts, p - 1) \union Before(parts[p], j)
        BY <2>3, <3>1 DEF InOrder
      <4>2. (s \o t)[i] = s[i] /\ Before(s \o t, i) = Before(s, i)
        BY <2>1, <3>1, BeforeConcat
      <4>3. p \in 1..(k + 2)
        OBVIOUS
      <4> QED BY <4>1, <4>2, <4>3, Zenon
    <3>2. CASE i \notin 1..Len(s)
      <4>1. PICK j \in 1..Len(t) : i = Len(s) + j
        <5>1. Len(s) \in Nat /\ Len(t) \in Nat /\ Len(s \o t) = Len(s) + Len(t)
          BY <2>1
        <5>2. i - Len(s) \in 1..Len(t) /\ i = Len(s) + (i - Len(s))
          BY <3>2, <5>1
        <5> QED BY <5>2
      <4>2. (s \o t)[i] = t[j] /\ Before(s \o t, i) = Range(s) \union Before(t, j)
        BY <2>1, <4>1, BeforeConcat
      <4>3. Range(s) = Upto(parts, (k + 2) - 1)
        <5>1. (k + 2) - 1 = k + 1
          OBVIOUS
        <5> QED BY <2>3, <5>1, Zenon DEF InOrder
      <4>4. k + 2 \in 1..(k + 2)
        OBVIOUS
      <4> QED BY <4>2, <4>3, <4>4, Zenon DEF t
    <3> QED BY <3>1, <3>2
  <2>6. s \o t \in Seq(S)
    BY <2>1
  <2>7. InOrder(s \o t, parts, k + 2)
    BY <2>4, <2>5, Zenon DEF InOrder
  <2> QED BY <2>1, <2>6, <2>7, Zenon
<1> HIDE DEF Ok
<1>5. 0 \in T
  BY <1>3
<1>6. ASSUME NEW m \in Nat, m \in T PROVE m + 1 \in T
  <2>1. SUFFICES ASSUME m + 1 + 1 <= Len(parts) PROVE Ok(m + 1 + 1)
    OBVIOUS
  <2>2. m + 1 <= Len(parts) /\ m + 2 <= Len(parts) /\ m + 1 + 1 = m + 2
    BY <2>1, <1>2
  <2>3. Ok(m + 1)
    BY <1>6, <2>2
  <2>4. Ok(m + 2)
    BY <1>4, <2>2, <2>3
  <2> QED BY <2>2, <2>4
<1>7. Nat \subseteq T
  <2> HIDE DEF T
  <2> QED BY <1>5, <1>6, SetInduction
<1>8. Len(parts) - 1 \in T /\ Len(parts) - 1 + 1 = Len(parts)
  <2>1. Len(parts) - 1 \in Nat /\ Len(parts) - 1 + 1 = Len(parts)
    BY <1>2
  <2> QED BY <1>7, <2>1, Zenon
<1>9. Ok(Len(parts))
  BY <1>8, <1>2
<1> QED BY <1>1, <1>9, Zenon DEF Ok

-------------------------------------------------------------------------------
(***************************************************************************)
(* The fields of every resource, spelled out once: its name, what the      *)
(* firmware needs for it, what the driver checks before it, and its        *)
(* memory.                                                                 *)
(***************************************************************************)
Is(r, obj, needs, checks, regions) ==
  /\ r.obj = obj
  /\ r.needs = needs
  /\ r.checks = checks
  /\ r.regions = regions

\* The objects of the bring-up, of the whole device, and of one queue.
LEMMA BringUpFields ==
  /\ Is(EnableHca, <<"enable_hca", 0>>, {}, {}, {})
  /\ Is(SetIssi, <<"set_issi", 0>>, {<<"enable_hca", 0>>}, {}, {})
  /\ Is(GivePages("boot_pages"), <<"boot_pages", 0>>, {<<"set_issi", 0>>}, {}, {})
  /\ Is(GivePages("init_pages"), <<"init_pages", 0>>, {<<"hca_cap", 0>>}, {}, {})
  /\ Is(SetHcaCap, <<"hca_cap", 0>>, {<<"boot_pages", 0>>}, {}, {})
  /\ Is(InitHca, <<"init_hca", 0>>, {<<"init_pages", 0>>}, {}, {})
  /\ Is(Promisc, <<"promisc", 0>>, {<<"init_hca", 0>>}, {}, {})
  /\ Is(FtRoot, <<"ft_root", 0>>, {<<"ft", 0>>}, {<<"ft", 0>>}, {})
BY DEF Is, Resource, Command, EnableHca, SetIssi, GivePages, SetHcaCap, InitHca,
       Promisc, FtRoot, Ft

\* The objects there is one of per device.
LEMMA DeviceFields ==
  /\ Is(Uar, <<"uar", 0>>, {<<"init_hca", 0>>}, {}, {})
  /\ Is(Pd, <<"pd", 0>>, {<<"init_hca", 0>>}, {}, {})
  /\ Is(QCounter, <<"q_counter", 0>>, {<<"init_hca", 0>>}, {}, {})
  /\ Is(Td, <<"td", 0>>, {<<"init_hca", 0>>}, {}, {})
  /\ Is(Tis, <<"tis", 0>>, {<<"td", 0>>}, {}, {})
  /\ Is(Mkey, <<"mkey", 0>>, {<<"pd", 0>>}, {}, {})
  /\ Is(Eq, <<"eq", 0>>, {<<"uar", 0>>}, {}, {"eq_page"})
  /\ Is(Tir, <<"tir", 0>>, {<<"td", 0>>, <<"rqt", 0>>}, {<<"rqt", 0>>}, {})
  /\ Is(Ft, <<"ft", 0>>, {<<"init_hca", 0>>}, {}, {})
  /\ Is(Fg, <<"fg", 0>>, {<<"ft", 0>>}, {<<"ft", 0>>}, {})
  /\ Is(Fte, <<"fte", 0>>, {<<"ft", 0>>, <<"fg", 0>>, <<"tir", 0>>},
                           {<<"ft", 0>>, <<"fg", 0>>, <<"tir", 0>>}, {})
BY DEF Is, Resource, Uar, Pd, QCounter, Td, Tis, Mkey, Eq, Tir, Ft, Fg, Fte

\* The receive-queue table needs every receive queue, and the driver checks
\* one.
LEMMA RqtFields ==
  ASSUME NEW n
  PROVE  Is(Rqt(n), <<"rqt", 0>>, {<<"rq", q>> : q \in 0..(n - 1)}, {<<"rq", 0>>}, {})
BY DEF Is, Resource, Rqt

\* The objects of one queue.
LEMMA QueueFields ==
  ASSUME NEW q
  PROVE  /\ Is(Cq("tx_cq", q), <<"tx_cq", q>>, {<<"uar", 0>>, <<"eq", 0>>},
                               {<<"eq", 0>>}, {"cq_page", "dbr_page"})
         /\ Is(Cq("rx_cq", q), <<"rx_cq", q>>, {<<"uar", 0>>, <<"eq", 0>>},
                               {<<"eq", 0>>}, {"cq_page", "dbr_page"})
         /\ Is(Sq(q), <<"sq", q>>,
               {<<"uar", 0>>, <<"pd", 0>>, <<"tis", 0>>, <<"tx_cq", q>>},
               {<<"tx_cq", q>>}, {"sq_page", "dbr_page", "tx_page"})
         /\ Is(Rq(q), <<"rq", q>>, {<<"pd", 0>>, <<"q_counter", 0>>, <<"rx_cq", q>>},
               {<<"rx_cq", q>>}, {"rq_page", "dbr_page"})
<1>1. /\ Uar.obj = <<"uar", 0>>
      /\ Eq.obj = <<"eq", 0>>
      /\ Pd.obj = <<"pd", 0>>
      /\ Tis.obj = <<"tis", 0>>
      /\ QCounter.obj = <<"q_counter", 0>>
  BY DEF Resource, Uar, Eq, Pd, Tis, QCounter
<1>2. QED BY <1>1 DEF Is, Resource, Cq, Sq, Rq

-------------------------------------------------------------------------------
(***************************************************************************)
(* The order of a start: the parts of StartOrder and their pieces.         *)
(***************************************************************************)

\* The elements of short tuples.
LEMMA TupleRanges ==
  ASSUME NEW a, NEW b, NEW d, NEW e
  PROVE  /\ Range(<<>>) = {}
         /\ Range(<<a>>) = {a}
         /\ Range(<<a, b, d>>) = {a, b, d}
         /\ Range(<<a, b, d, e>>) = {a, b, d, e}
BY DEF Range

QueueStepSet(q) == Range(TxQueueSteps(q)) \union Range(RxQueueSteps(q))

\* The steps of any start.
AllSteps ==
  Range(BringUpSteps)
  \union {Create(Promisc), Create(Uar), Create(Pd), Create(Td), Create(QCounter),
          Create(Mkey), Create(Tis), Create(Eq)}
  \union (UNION {QueueStepSet(q) : q \in Nat})
  \union (UNION {Range(SteeringSteps(n)) : n \in Nat})

\* The steps for one queue: those of a transmit queue, then of a receive queue.
LEMMA QueueStepsSeq ==
  ASSUME NEW c \in Configs, NEW q \in Nat
  PROVE  /\ QueueSteps(c, q) \in Seq(AllSteps)
         /\ Range(QueueSteps(c, q)) =
              (IF c.tx THEN Range(TxQueueSteps(q)) ELSE {})
              \union (IF c.rx THEN Range(RxQueueSteps(q)) ELSE {})
<1>1. QueueStepSet(q) \subseteq AllSteps
  BY DEF AllSteps
<1>2. TxQueueSteps(q) \in Seq(AllSteps)
  <2>1. \A i \in 1..3 : TxQueueSteps(q)[i] \in Range(TxQueueSteps(q))
    BY DEF TxQueueSteps, Range
  <2>2. Range(TxQueueSteps(q)) \subseteq AllSteps
    BY <1>1 DEF QueueStepSet
  <2>3. TxQueueSteps(q) = [i \in 1..3 |-> TxQueueSteps(q)[i]]
    BY DEF TxQueueSteps
  <2> QED BY <2>1, <2>2, <2>3
<1>3. RxQueueSteps(q) \in Seq(AllSteps)
  <2>1. \A i \in 1..4 : RxQueueSteps(q)[i] \in Range(RxQueueSteps(q))
    BY DEF RxQueueSteps, Range
  <2>2. Range(RxQueueSteps(q)) \subseteq AllSteps
    BY <1>1 DEF QueueStepSet
  <2>3. RxQueueSteps(q) = [i \in 1..4 |-> RxQueueSteps(q)[i]]
    BY DEF RxQueueSteps
  <2> QED BY <2>1, <2>2, <2>3
<1>4. When(c.tx, TxQueueSteps(q)) \in Seq(AllSteps)
  BY <1>2 DEF When
<1>5. When(c.rx, RxQueueSteps(q)) \in Seq(AllSteps)
  BY <1>3 DEF When
<1>6. /\ Range(When(c.tx,
           TxQueueSteps(q))) = IF c.tx THEN Range(TxQueueSteps(q)) ELSE {}
      /\ Range(When(c.rx,
           RxQueueSteps(q))) = IF c.rx THEN Range(RxQueueSteps(q)) ELSE {}
  BY TupleRanges DEF When
<1> QED BY <1>4, <1>5, <1>6, BeforeConcat DEF QueueSteps

QueueParts(c) == [i \in 1..c.nq |-> QueueSteps(c, i - 1)]

\* The queues are created one after the other.
LEMMA AllQueueStepsInOrder ==
  ASSUME NEW c \in Configs
  PROVE  /\ AllQueueSteps(c) \in Seq(AllSteps)
         /\ InOrder(AllQueueSteps(c), QueueParts(c), c.nq)
<1>1. c.nq \in Nat \ {0}
  BY DeviceAssumption DEF Configs
<1>2. \A i \in 1..c.nq : QueueSteps(c, i - 1) \in Seq(AllSteps)
  <2> SUFFICES ASSUME NEW i \in 1..c.nq PROVE QueueSteps(c, i - 1) \in Seq(AllSteps)
    OBVIOUS
  <2>1. i - 1 \in Nat
    BY <1>1
  <2> QED BY <2>1, QueueStepsSeq
<1>3. QueueParts(c) \in Seq(Seq(AllSteps)) /\ Len(QueueParts(c)) = c.nq
  BY <1>1, <1>2 DEF QueueParts
<1>4. AllQueueSteps(c) = FlattenSeq(QueueParts(c))
  BY DEF AllQueueSteps, QueueParts
<1> QED BY <1>1, <1>3, <1>4, FlattenInOrder

\* The steps that build the steering rules are steps of some start.
LEMMA SteeringInAllSteps ==
  ASSUME NEW n \in Nat
  PROVE  Range(SteeringSteps(n)) \subseteq AllSteps
BY DEF AllSteps

\* A start has nine parts.
LEMMA NineSeq ==
  ASSUME NEW S, NEW a \in S, NEW b \in S, NEW d \in S, NEW e \in S, NEW f \in S,
         NEW g \in S, NEW h \in S, NEW i \in S, NEW j \in S
  PROVE  <<a, b, d, e, f, g, h, i, j>> \in Seq(S)
           /\ Len(<<a, b, d, e, f, g, h, i, j>>) = 9
OBVIOUS

\* A start takes its parts in their order (mlxnicd_dev_start).
LEMMA StartInOrder ==
  ASSUME NEW c \in Configs
  PROVE  /\ StartOrder[c] \in Seq(AllSteps)
         /\ InOrder(StartOrder[c], StartParts(c), 9)
<1>1. BringUpSteps \in Seq(AllSteps)
  <2>1. \A i \in 1..13 : BringUpSteps[i] \in Range(BringUpSteps)
    BY DEF BringUpSteps, Range
  <2>2. Range(BringUpSteps) \subseteq AllSteps
    BY Zenon DEF AllSteps
  <2>3. BringUpSteps = [i \in 1..13 |-> BringUpSteps[i]]
    BY DEF BringUpSteps
  <2> QED BY <2>1, <2>2, <2>3
<1>2. \A r \in {Promisc, QCounter, Mkey, Tis, Eq} : <<Create(r)>> \in Seq(AllSteps)
  BY DEF AllSteps
<1>3. <<Create(Uar), Create(Pd), Create(Td)>> \in Seq(AllSteps)
  BY DEF AllSteps
<1>4. SteeringSteps(c.nq) \in Seq(AllSteps)
  <2>1. \A i \in 1..6 : SteeringSteps(c.nq)[i] \in Range(SteeringSteps(c.nq))
    BY DEF SteeringSteps, Range
  <2>2. c.nq \in Nat
    BY DeviceAssumption DEF Configs
  <2>3. Range(SteeringSteps(c.nq)) \subseteq AllSteps
    BY <2>2, SteeringInAllSteps
  <2>4. SteeringSteps(c.nq) = [i \in 1..6 |-> SteeringSteps(c.nq)[i]]
    BY DEF SteeringSteps
  <2> QED BY <2>1, <2>3, <2>4
<1>5. <<>> \in Seq(AllSteps)
  OBVIOUS
<1>6. AllQueueSteps(c) \in Seq(AllSteps)
  BY AllQueueStepsInOrder
<1>7. StartParts(c) \in Seq(Seq(AllSteps)) /\ Len(StartParts(c)) = 9
  <2>1. \A cond, s : s \in Seq(AllSteps) => When(cond, s) \in Seq(AllSteps)
    BY <1>5, Zenon DEF When
  <2>2. /\ When(c.rx, <<Create(Promisc)>>) \in Seq(AllSteps)
        /\ When(c.rx, <<Create(QCounter)>>) \in Seq(AllSteps)
        /\ When(c.tx \/ c.rx, <<Create(Mkey)>>) \in Seq(AllSteps)
        /\ When(c.tx, <<Create(Tis)>>) \in Seq(AllSteps)
        /\ <<Create(Eq)>> \in Seq(AllSteps)
        /\ When(c.rx, SteeringSteps(c.nq)) \in Seq(AllSteps)
    BY <1>2, <1>4, <2>1, Zenon
  <2> DEFINE S == Seq(AllSteps)
  <2> HIDE DEF S
  <2>3. StartParts(c) \in Seq(S) /\ Len(StartParts(c)) = 9
    BY <1>1, <1>3, <1>6, <2>2, NineSeq, Zenon DEF StartParts, S
  <2> QED BY <2>3 DEF S
<1>8. StartOrder[c] = FlattenSeq(StartParts(c))
  BY DEF StartOrder, StartSteps
<1>9. Len(StartParts(c)) # 0
  BY <1>7
<1> QED BY <1>7, <1>8, <1>9, FlattenInOrder, Zenon

-------------------------------------------------------------------------------
(***************************************************************************)
(* The steps of a start, as a set.                                         *)
(***************************************************************************)

\* The two fields of a step.
LEMMA StepFields ==
  ASSUME NEW r
  PROVE  /\ Create(r).do = "create" /\ Create(r).res = r
         /\ Give(r).do = "give" /\ Give(r).res = r
         /\ Modify(r).do = "modify" /\ Modify(r).res = r
         /\ Post(r).do = "post" /\ Post(r).res = r
         /\ Query(r).do = "query"
BY DEF Create, Give, Modify, Post, Query

Commands ==
  {EnableHca, SetIssi, GivePages("boot_pages"), SetHcaCap, GivePages("init_pages"),
   InitHca}

\* The steps that bring the firmware up.
LEMMA BringUpRange ==
  Range(BringUpSteps) =
    {Create(EnableHca), Create(SetIssi), Query("pages"), Give(GivePages("boot_pages")),
     Query("dtor"), Query("hca_cap"), Create(SetHcaCap),
     Give(GivePages("init_pages")), Create(InitHca), Query("paos")}
<1>1. DOMAIN BringUpSteps = 1..13
  BY DEF BringUpSteps
<1>2. 1..13 = {1, 2, 3, 4, 5, 6, 7, 8, 9, 10, 11, 12, 13}
  OBVIOUS
<1>3. /\ BringUpSteps[1] = Create(EnableHca) /\ BringUpSteps[2] = Create(SetIssi)
      /\ BringUpSteps[3] = Query("pages") /\ BringUpSteps[4] = Query("pages")
      /\ BringUpSteps[5] = Give(GivePages("boot_pages"))
      /\ BringUpSteps[6] = Query("dtor") /\ BringUpSteps[7] = Query("hca_cap")
      /\ BringUpSteps[8] = Create(SetHcaCap)
      /\ BringUpSteps[9] = Query("pages") /\ BringUpSteps[10] = Query("pages")
      /\ BringUpSteps[11] = Give(GivePages("init_pages"))
      /\ BringUpSteps[12] = Create(InitHca) /\ BringUpSteps[13] = Query("paos")
  BY DEF BringUpSteps
<1> QED BY <1>1, <1>2, <1>3 DEF Range

\* The steps that build the steering rules.
LEMMA SteeringRange ==
  ASSUME NEW n
  PROVE  Range(SteeringSteps(n)) =
           {Create(Rqt(n)), Create(Tir), Create(Ft), Create(FtRoot), Create(Fg),
            Create(Fte)}
BY DEF SteeringSteps, Range

\* The steps for one queue, by direction.
LEMMA QueueRanges ==
  ASSUME NEW q
  PROVE  /\ Range(TxQueueSteps(q)) = {Create(Cq("tx_cq", q)), Create(Sq(q)),
              Modify(Sq(q))}
         /\ Range(RxQueueSteps(q)) =
              {Create(Cq("rx_cq", q)), Create(Rq(q)), Modify(Rq(q)), Post(Rq(q))}
BY DEF TxQueueSteps, RxQueueSteps, Range

\* A part that is left out has no step.
LEMMA WhenRange ==
  ASSUME NEW cond \in BOOLEAN, NEW s
  PROVE  Range(When(cond, s)) = IF cond THEN Range(s) ELSE {}
BY TupleRanges DEF When

\* The steps for all the queues.
LEMMA AllQueueRange ==
  ASSUME NEW c \in Configs
  PROVE  Range(AllQueueSteps(c)) =
           UNION {(IF c.tx THEN Range(TxQueueSteps(q)) ELSE {})
                  \union (IF c.rx THEN Range(RxQueueSteps(q)) ELSE {}) : q \in 0..(c.nq - 1)}
<1>1. c.nq \in Nat
  BY DeviceAssumption DEF Configs
<1>2. Range(AllQueueSteps(c)) = UNION {Range(QueueParts(c)[i]) : i \in 1..c.nq}
  BY AllQueueStepsInOrder DEF InOrder, Upto
<1> DEFINE R(q) == (IF c.tx THEN Range(TxQueueSteps(q)) ELSE {})
                   \union (IF c.rx THEN Range(RxQueueSteps(q)) ELSE {})
<1>3. ASSUME NEW i \in 1..c.nq
      PROVE  Range(QueueParts(c)[i]) = R(i - 1) /\ i - 1 \in 0..(c.nq - 1)
  <2>1. i - 1 \in Nat /\ i - 1 \in 0..(c.nq - 1)
    BY <1>1
  <2>2. QueueParts(c)[i] = QueueSteps(c, i - 1)
    BY DEF QueueParts
  <2> QED BY <2>1, <2>2, QueueStepsSeq
<1>4. \A q \in 0..(c.nq - 1) : q + 1 \in 1..c.nq /\ (q + 1) - 1 = q
  BY <1>1
<1> HIDE DEF R
<1>5. Range(AllQueueSteps(c)) = UNION {R(q) : q \in 0..(c.nq - 1)}
  <2>1. ASSUME NEW x \in Range(AllQueueSteps(c)) PROVE \E q \in 0..(c.nq - 1) : x \in R(q)
    BY <1>2, <1>3
  <2>2. ASSUME NEW q \in 0..(c.nq - 1),
                 NEW x \in R(q) PROVE x \in Range(AllQueueSteps(c))
    <3>1. x \in Range(QueueParts(c)[q + 1]) /\ q + 1 \in 1..c.nq
      <4>1. q + 1 \in 1..c.nq /\ (q + 1) - 1 = q
        BY <1>4
      <4> QED BY <2>2, <4>1, <1>3, Zenon
    <3> QED BY <1>2, <3>1
  <2> QED BY <2>1, <2>2
<1> QED BY <1>5 DEF R

\* Every step of a start, without its order.
LEMMA StartRange ==
  ASSUME NEW c \in Configs
  PROVE  Range(StartOrder[c]) =
           Range(BringUpSteps)
           \union (IF c.rx THEN {Create(Promisc), Create(QCounter)} ELSE {})
           \union {Create(Uar), Create(Pd), Create(Td), Create(Eq)}
           \union (IF c.tx \/ c.rx THEN {Create(Mkey)} ELSE {})
           \union (IF c.tx THEN {Create(Tis)} ELSE {})
           \union Range(AllQueueSteps(c))
           \union (IF c.rx THEN Range(SteeringSteps(c.nq)) ELSE {})
<1>1. c.tx \in BOOLEAN /\ c.rx \in BOOLEAN /\ (c.tx \/ c.rx) \in BOOLEAN
  BY DEF Configs
<1>2. Range(StartOrder[c]) = UNION {Range(StartParts(c)[p]) : p \in 1..9}
  BY StartInOrder DEF InOrder, Upto
<1>3. 1..9 = {1, 2, 3, 4, 5, 6, 7, 8, 9}
  OBVIOUS
<1>4. UNION {Range(StartParts(c)[p]) : p \in 1..9} =
        Range(StartParts(c)[1]) \union Range(StartParts(c)[2])
        \union Range(StartParts(c)[3]) \union Range(StartParts(c)[4])
        \union Range(StartParts(c)[5]) \union Range(StartParts(c)[6])
        \union Range(StartParts(c)[7]) \union Range(StartParts(c)[8])
        \union Range(StartParts(c)[9])
  BY <1>3, Zenon
<1>5. /\ StartParts(c)[1] = BringUpSteps
      /\ StartParts(c)[2] = When(c.rx, <<Create(Promisc)>>)
      /\ StartParts(c)[3] = <<Create(Uar), Create(Pd), Create(Td)>>
      /\ StartParts(c)[4] = When(c.rx, <<Create(QCounter)>>)
      /\ StartParts(c)[5] = When(c.tx \/ c.rx, <<Create(Mkey)>>)
      /\ StartParts(c)[6] = When(c.tx, <<Create(Tis)>>)
      /\ StartParts(c)[7] = <<Create(Eq)>>
      /\ StartParts(c)[8] = AllQueueSteps(c)
      /\ StartParts(c)[9] = When(c.rx, SteeringSteps(c.nq))
  BY DEF StartParts
<1>6. \A r : Range(<<Create(r)>>) = {Create(r)}
  BY TupleRanges
<1>7. Range(<<Create(Uar), Create(Pd), Create(Td)>>) = {Create(Uar), Create(Pd),
        Create(Td)}
  BY DEF Range
<1> QED BY <1>1, <1>2, <1>4, <1>5, <1>6, <1>7, WhenRange

(***************************************************************************)
(* What a start of configuration c creates.                                *)
(***************************************************************************)
LEMMA WantedCases ==
  ASSUME NEW c \in Configs, NEW r \in Wanted[c]
  PROVE  \/ r \in Commands \union {Promisc, FtRoot}
         \/ r \in {Uar, Pd, Td, QCounter, Mkey, Tis, Eq}
         \/ \E q \in 0..(c.nq - 1) :
              \/ c.tx /\ r \in {Cq("tx_cq", q), Sq(q)}
              \/ c.rx /\ r \in {Cq("rx_cq", q), Rq(q)}
         \/ r \in {Rqt(c.nq), Tir, Ft, Fg, Fte}
<1>1. PICK x \in Range(StartOrder[c]) : x.do \in {"create", "give"} /\ r = x.res
  BY DEF Wanted
<1>2. CASE x \in Range(BringUpSteps)
  BY <1>1, <1>2, BringUpRange, StepFields DEF Commands
<1>3. CASE x \in {Create(Promisc), Create(QCounter), Create(Uar), Create(Pd),
             Create(Td),
                  Create(Eq), Create(Mkey), Create(Tis)}
  BY <1>1, <1>3, StepFields
<1>4. CASE x \in Range(AllQueueSteps(c))
  <2>1. PICK q \in 0..(c.nq - 1) :
          \/ c.tx /\ x \in Range(TxQueueSteps(q))
          \/ c.rx /\ x \in Range(RxQueueSteps(q))
    BY <1>4, AllQueueRange DEF Configs
  <2>2. \/ c.tx /\ r \in {Cq("tx_cq", q), Sq(q)}
        \/ c.rx /\ r \in {Cq("rx_cq", q), Rq(q)}
    BY <1>1, <2>1, QueueRanges, StepFields
  <2> QED BY <2>2
<1>5. CASE x \in Range(SteeringSteps(c.nq))
  BY <1>1, <1>5, SteeringRange, StepFields
<1> QED BY <1>2, <1>3, <1>4, <1>5, StartRange DEF Configs

\* A step creates an object, gives pages, modifies or fills a queue, or
\* queries; what it names is something the configuration wants.
LEMMA OtherStepCases ==
  ASSUME NEW c \in Configs, NEW x \in Range(StartOrder[c])
  PROVE  /\ x.do \in {"create", "give", "modify", "post", "query"}
         /\ x.do \in {"create", "give"} => x.res \in Wanted[c]
         /\ x.do = "give" => x.res \in Commands
         /\ x.do = "modify" => \E q \in 0..(c.nq - 1) : x.res \in {Sq(q), Rq(q)}
         /\ x.do = "post" => \E q \in 0..(c.nq - 1) : x.res = Rq(q)
<1>1. x.do \in {"create", "give"} => x.res \in Wanted[c]
  BY DEF Wanted
<1>2. CASE x \in Range(BringUpSteps)
  BY <1>1, <1>2, BringUpRange, StepFields DEF Commands
<1>3. CASE x \in {Create(Promisc), Create(QCounter), Create(Uar), Create(Pd),
             Create(Td),
                  Create(Eq), Create(Mkey), Create(Tis)}
  BY <1>1, <1>3, StepFields
<1>4. CASE x \in Range(AllQueueSteps(c))
  <2>1. PICK q \in 0..(c.nq - 1) : x \in Range(TxQueueSteps(q))
               \union Range(RxQueueSteps(q))
    BY <1>4, AllQueueRange DEF Configs
  <2> QED BY <1>1, <2>1, QueueRanges, StepFields
<1>5. CASE x \in Range(SteeringSteps(c.nq))
  BY <1>1, <1>5, SteeringRange, StepFields
<1> QED BY <1>2, <1>3, <1>4, <1>5, StartRange DEF Configs

\* A start takes every step for every queue of its configuration.
LEMMA QueueStepsTaken ==
  ASSUME NEW c \in Configs, NEW q \in 0..(c.nq - 1)
  PROVE  /\ c.tx => {Create(Cq("tx_cq", q)), Create(Sq(q)), Modify(Sq(q))}
                      \subseteq Range(StartOrder[c])
         /\ c.rx => {Create(Cq("rx_cq", q)), Create(Rq(q)), Modify(Rq(q)), Post(Rq(q))}
                      \subseteq Range(StartOrder[c])
<1>1. Range(AllQueueSteps(c)) \subseteq Range(StartOrder[c])
  BY StartRange, Zenon
<1>2. /\ c.tx => Range(TxQueueSteps(q)) \subseteq Range(AllQueueSteps(c))
      /\ c.rx => Range(RxQueueSteps(q)) \subseteq Range(AllQueueSteps(c))
  BY AllQueueRange
<1> QED BY <1>1, <1>2, QueueRanges

\* The memory a queue's objects and the event queue have lies in AllRegions.
LEMMA QueueRegions ==
  ASSUME NEW q \in 0..(MaxQueues - 1)
  PROVE  /\ {<<"tx_cq", q>>, <<"rx_cq", q>>} \X {"cq_page", "dbr_page"}
              \subseteq AllRegions
         /\ {<<"sq", q>>} \X {"sq_page", "dbr_page", "tx_page"} \subseteq AllRegions
         /\ {<<"rq", q>>} \X {"rq_page", "dbr_page", "rx_pages"} \subseteq AllRegions
<1>1. ASSUME NEW o \in Owners(MaxQueues), NEW d \in DOMAIN Spans(o)
      PROVE  <<o, d>> \in AllRegions
  BY DEF AllRegions, Regions
<1>2. /\ <<"tx_cq", q>> \in Owners(MaxQueues) /\ <<"rx_cq", q>> \in Owners(MaxQueues)
      /\ <<"sq", q>> \in Owners(MaxQueues) /\ <<"rq", q>> \in Owners(MaxQueues)
  BY DEF Owners
<1>3. /\ DOMAIN Spans(<<"tx_cq", q>>) = {"cq_page", "dbr_page"}
      /\ DOMAIN Spans(<<"rx_cq", q>>) = {"cq_page", "dbr_page"}
      /\ DOMAIN Spans(<<"sq", q>>) = {"sq_page", "dbr_page", "tx_page"}
      /\ DOMAIN Spans(<<"rq", q>>) = {"rq_page", "dbr_page", "rx_pages"}
  BY DEF Spans, CqSpans, SqSpans, RqSpans
<1> QED BY <1>1, <1>2, <1>3

\* The memory of the event queue and of the context belongs to the address
\* layout.
LEMMA OtherRegions ==
  /\ {<<"eq", 0>>} \X {"eq_page"} \subseteq AllRegions
  /\ CtxRegions \subseteq AllRegions
  /\ CtxRegions = {<<"ctx", 0>>} \X {"cmdq", "inbox", "outbox"}
<1>1. ASSUME NEW o \in Owners(MaxQueues), NEW d \in DOMAIN Spans(o)
      PROVE  <<o, d>> \in AllRegions
  BY DEF AllRegions, Regions
<1>2. <<"eq", 0>> \in Owners(MaxQueues) /\ <<"ctx", 0>> \in Owners(MaxQueues)
  BY DEF Owners
<1>3. /\ DOMAIN Spans(<<"eq", 0>>) = {"eq_page"}
      /\ DOMAIN Spans(<<"ctx", 0>>) = {"cmdq", "inbox", "outbox"}
  BY DEF Spans, EqSpans, CtxSpans
<1>4. CtxRegions = {<<"ctx", 0>>} \X {"cmdq", "inbox", "outbox"}
  BY TupleRanges DEF CtxRegions, CtxOrder, Range
<1> QED BY <1>1, <1>2, <1>3, <1>4

\* The names of the bring-up.
LEMMA BringUpNames ==
  BringUp = {<<"enable_hca", 0>>, <<"set_issi", 0>>, <<"boot_pages", 0>>,
    <<"hca_cap", 0>>,
             <<"init_pages", 0>>, <<"init_hca", 0>>, <<"promisc", 0>>, <<"ft_root", 0>>}
BY BringUpFields DEF BringUp, Is

\* What the proofs need to know of the name of an object and its memory.
LEMMA WantedNames ==
  ASSUME NEW c \in Configs, NEW r \in Wanted[c]
  PROVE  /\ r.zero_absent => r.regions = {}
         /\ r.obj \in {Fg.obj, Fte.obj} => r.regions = {} /\ Ft.obj \in r.checks
         /\ {r.obj} \X r.regions \subseteq AllRegions
         /\ r.obj # <<"ctx", 0>>
         /\ r.obj \in BringUp => r.regions = {}
<1>1. CASE r \in Commands \union {Promisc, FtRoot}
  <2>1. r.regions = {} /\ r.obj \in BringUp
    BY <1>1, BringUpFields, BringUpNames DEF Commands, Is
  <2>2. r.obj \notin {Fg.obj, Fte.obj} /\ r.obj # <<"ctx", 0>>
    BY <2>1, BringUpNames, DeviceFields DEF Is
  <2> QED BY <2>1, <2>2
<1>2. CASE r \in {Uar, Pd, Td, QCounter, Mkey, Tis} \union {Rqt(c.nq), Tir, Ft}
  <2>1. r.regions = {}
          /\ r.obj \in {<<"uar", 0>>, <<"pd", 0>>, <<"td", 0>>, <<"q_counter", 0>>,
                                    <<"mkey", 0>>, <<"tis", 0>>, <<"rqt", 0>>,
                                      <<"tir", 0>>,
                                    <<"ft", 0>>}
    <3>1. Rqt(c.nq).obj = <<"rqt", 0>> /\ Rqt(c.nq).regions = {}
      BY RqtFields DEF Is
    <3> QED BY <1>2, <3>1, DeviceFields DEF Is
  <2>2. r.obj \notin {Fg.obj, Fte.obj} /\ r.obj # <<"ctx", 0>>
    BY <2>1, DeviceFields DEF Is
  <2> QED BY <2>1, <2>2
<1>3. CASE r \in {Fg, Fte}
  <2>1. r.regions = {} /\ Ft.obj \in r.checks /\ r.obj # <<"ctx", 0>>
    BY <1>3, DeviceFields DEF Is
  <2> QED BY <2>1
<1>4. CASE r = Eq
  <2>1. ~r.zero_absent
    BY <1>4 DEF Eq, Resource
  <2> QED BY <1>4, <2>1, DeviceFields, OtherRegions, BringUpNames DEF Is
<1>5. ASSUME NEW q \in 0..(c.nq - 1),
             r \in {Cq("tx_cq", q), Sq(q), Cq("rx_cq", q), Rq(q)}
      PROVE  /\ ~r.zero_absent
             /\ r.obj \notin {Fg.obj, Fte.obj} \union BringUp
             /\ {r.obj} \X r.regions \subseteq AllRegions
             /\ r.obj # <<"ctx", 0>>
  <2>1. ~r.zero_absent
    <3>1. ~Sq(q).zero_absent /\ ~Rq(q).zero_absent
      BY DEF Sq, Rq, Resource
    <3>2. ~Cq("tx_cq", q).zero_absent /\ ~Cq("rx_cq", q).zero_absent
      BY DEF Cq, Resource
    <3> QED BY <1>5, <3>1, <3>2
  <2>2. q \in 0..(MaxQueues - 1)
    BY DeviceAssumption DEF Configs
  <2>3. r.obj \in {<<"tx_cq", q>>, <<"rx_cq", q>>, <<"sq", q>>, <<"rq", q>>}
    BY <1>5, QueueFields DEF Is
  <2>4. r.obj \notin {Fg.obj, Fte.obj} \union BringUp /\ r.obj # <<"ctx", 0>>
    BY <2>3, DeviceFields, BringUpNames DEF Is
  <2>5. {r.obj} \X r.regions \subseteq AllRegions
    BY <1>5, <2>2, QueueFields, QueueRegions DEF Is
  <2> QED BY <2>1, <2>4, <2>5
<1> QED BY <1>1, <1>2, <1>4, <1>5, <1>3, WantedCases

\* The resource of configuration c that has the name o.
Named(c, o) ==
  [enable_hca |-> EnableHca, set_issi |-> SetIssi,
    boot_pages |-> GivePages("boot_pages"),
   hca_cap |-> SetHcaCap, init_pages |-> GivePages("init_pages"), init_hca |-> InitHca,
   promisc |-> Promisc, ft_root |-> FtRoot,
   uar |-> Uar, pd |-> Pd, td |-> Td, q_counter |-> QCounter, mkey |-> Mkey,
     tis |-> Tis,
   eq |-> Eq, tx_cq |-> Cq("tx_cq", o[2]), rx_cq |-> Cq("rx_cq", o[2]), sq |-> Sq(o[2]),
   rq |-> Rq(o[2]), rqt |-> Rqt(c.nq), tir |-> Tir, ft |-> Ft, fg |-> Fg,
     fte |-> Fte][o[1]]

\* Within one configuration a name stands for one resource.
LEMMA WantedNamed ==
  ASSUME NEW c \in Configs, NEW r \in Wanted[c]
  PROVE  r = Named(c, r.obj)
<1>1. CASE r \in Commands \union {Promisc, FtRoot}
  BY <1>1, BringUpFields DEF Commands, Named, Is
<1>2. CASE r \in {Uar, Pd, Td, QCounter, Mkey, Tis, Eq}
  BY <1>2, DeviceFields DEF Named, Is
<1>3. CASE r \in {Rqt(c.nq), Tir, Ft, Fg, Fte}
  BY <1>3, DeviceFields, RqtFields DEF Named, Is
<1>4. ASSUME NEW q, r \in {Cq("tx_cq", q), Sq(q), Cq("rx_cq", q), Rq(q)}
      PROVE  r = Named(c, r.obj)
  BY <1>4, QueueFields DEF Named, Is
<1> QED BY <1>1, <1>2, <1>3, <1>4, WantedCases

-------------------------------------------------------------------------------
(***************************************************************************)
(* The order of the cleanup.                                               *)
(***************************************************************************)
CleanupHead(n) == <<Fte, Fg, Ft, Tir, Rqt(n)>>

CleanupTail == <<Eq, Tis, Mkey, Td, QCounter, Pd, Uar>>

QueueCleanups(n) == [i \in 1..n |-> QueueCleanup(i - 1)]

CleanupParts(n) == <<CleanupHead(n), AllQueueCleanup(n), CleanupTail>>

AllTargets(n) ==
  {Fte, Fg, Ft, Tir, Rqt(n)} \union {Eq, Tis, Mkey, Td, QCounter, Pd, Uar}
  \union (UNION {{Rq(q), Sq(q), Cq("rx_cq", q), Cq("tx_cq", q)} : q \in Nat})

\* A cleanup takes the steering rules, the queues and the rest in this order.
LEMMA CleanupInOrder ==
  ASSUME NEW n \in 1..MaxQueues
  PROVE  /\ CleanupOrders[n] \in Seq(AllTargets(n))
         /\ InOrder(CleanupOrders[n], CleanupParts(n), 3)
         /\ InOrder(AllQueueCleanup(n), QueueCleanups(n), n)
<1>1. n \in Nat \ {0} /\ n \in 0..MaxQueues
  BY DeviceAssumption
<1>2. ASSUME NEW q \in Nat PROVE QueueCleanup(q) \in Seq(AllTargets(n))
  <2>1. {Rq(q), Sq(q), Cq("rx_cq", q), Cq("tx_cq", q)} \subseteq AllTargets(n)
    BY DEF AllTargets
  <2> HIDE DEF AllTargets
  <2> QED BY <2>1 DEF QueueCleanup
<1>3. QueueCleanups(n) \in Seq(Seq(AllTargets(n))) /\ Len(QueueCleanups(n)) = n
  <2>1. ASSUME NEW i \in 1..n PROVE QueueCleanup(i - 1) \in Seq(AllTargets(n))
    <3>1. i - 1 \in Nat
      BY <1>1
    <3> QED BY <3>1, <1>2
  <2> QED BY <1>1, <2>1 DEF QueueCleanups
<1>4. AllQueueCleanup(n) \in Seq(AllTargets(n))
        /\ InOrder(AllQueueCleanup(n), QueueCleanups(n), n)
  <2>1. AllQueueCleanup(n) = FlattenSeq(QueueCleanups(n))
    BY DEF AllQueueCleanup, QueueCleanups
  <2> QED BY <1>1, <1>3, <2>1, FlattenInOrder
<1>5. CleanupHead(n) \in Seq(AllTargets(n)) /\ CleanupTail \in Seq(AllTargets(n))
  <2>1. /\ {Fte, Fg, Ft, Tir, Rqt(n)} \subseteq AllTargets(n)
        /\ {Eq, Tis, Mkey, Td, QCounter, Pd, Uar} \subseteq AllTargets(n)
    BY DEF AllTargets
  <2> HIDE DEF AllTargets
  <2> QED BY <2>1 DEF CleanupHead, CleanupTail
<1>6. CleanupParts(n) \in Seq(Seq(AllTargets(n))) /\ Len(CleanupParts(n)) = 3
  <2> DEFINE S == Seq(AllTargets(n))
  <2>1. CleanupHead(n) \in S /\ CleanupTail \in S /\ AllQueueCleanup(n) \in S
    BY <1>4, <1>5
  <2> HIDE DEF S
  <2>2. CleanupParts(n) \in Seq(S) /\ Len(CleanupParts(n)) = 3
    BY <2>1 DEF CleanupParts
  <2> QED BY <2>2 DEF S
<1>7. CleanupOrders[n] = FlattenSeq(CleanupParts(n))
  BY <1>1 DEF CleanupOrders, CleanupOrder, CleanupParts, CleanupHead, CleanupTail
<1>8. Len(CleanupParts(n)) # 0
  BY <1>6
<1> QED BY <1>4, <1>6, <1>7, <1>8, FlattenInOrder, Zenon

Names(rs) == {r.obj : r \in rs}

\* The objects the cleanup is done with when it comes to position i.
Gone(n, i) == Names(Before(CleanupOrders[n], i))

SteeringNames == {<<"fte", 0>>, <<"fg", 0>>, <<"ft", 0>>, <<"tir", 0>>, <<"rqt", 0>>}

QueueNames(q) == {<<"rq", q>>, <<"sq", q>>, <<"rx_cq", q>>, <<"tx_cq", q>>}

AllQueueNames(n) == UNION {QueueNames(q) : q \in 0..(n - 1)}

\* The names of a union.
LEMMA NamesUnion ==
  ASSUME NEW A, NEW B
  PROVE  Names(A \union B) = Names(A) \union Names(B)
BY DEF Names

\* The names in the first part of a cleanup and in the part of one queue.
LEMMA TargetNames ==
  ASSUME NEW n
  PROVE  /\ Names(Range(CleanupHead(n))) = SteeringNames
         /\ \A q : Names(Range(QueueCleanup(q))) = QueueNames(q)
<1>1. Range(CleanupHead(n)) = {Fte, Fg, Ft, Tir, Rqt(n)}
  BY DEF CleanupHead, Range
<1>2. ASSUME NEW q PROVE Range(QueueCleanup(q)) = {Rq(q), Sq(q), Cq("rx_cq", q),
               Cq("tx_cq", q)}
  BY DEF QueueCleanup, Range
<1>3. Names({Fte, Fg, Ft, Tir, Rqt(n)}) = SteeringNames
  <2>1. /\ Fte.obj = <<"fte", 0>> /\ Fg.obj = <<"fg", 0>> /\ Ft.obj = <<"ft", 0>>
        /\ Tir.obj = <<"tir", 0>> /\ Rqt(n).obj = <<"rqt", 0>>
    BY DeviceFields, RqtFields DEF Is
  <2> QED BY <2>1 DEF Names, SteeringNames
<1>4. ASSUME NEW q
      PROVE  Names({Rq(q), Sq(q), Cq("rx_cq", q), Cq("tx_cq", q)}) = QueueNames(q)
  <2>1. /\ Rq(q).obj = <<"rq", q>> /\ Sq(q).obj = <<"sq", q>>
        /\ Cq("rx_cq", q).obj = <<"rx_cq", q>> /\ Cq("tx_cq", q).obj = <<"tx_cq", q>>
    BY QueueFields DEF Is
  <2> QED BY <2>1 DEF Names, QueueNames
<1> QED BY <1>1, <1>2, <1>3, <1>4

\* After k queues the cleanup has passed exactly the objects of queues 0..k-1.
LEMMA UptoQueues ==
  ASSUME NEW n \in 1..MaxQueues, NEW k \in 0..n
  PROVE  Names(Upto(QueueCleanups(n), k)) = AllQueueNames(k)
<1>1. n \in Nat /\ k \in Nat
  BY DeviceAssumption
<1>2. \A i \in 1..k : QueueCleanups(n)[i] = QueueCleanup(i - 1) /\ i - 1 \in 0..(k - 1)
  BY <1>1 DEF QueueCleanups
<1>3. \A q \in 0..(k - 1) : q + 1 \in 1..k /\ (q + 1) - 1 = q
  BY <1>1
<1>4. \A i \in 1..k : Names(Range(QueueCleanups(n)[i])) = QueueNames(i - 1)
  BY <1>2, TargetNames
<1>5. ASSUME NEW x \in Names(Upto(QueueCleanups(n), k)) PROVE x \in AllQueueNames(k)
  <2>1. PICK i \in 1..k : x \in Names(Range(QueueCleanups(n)[i]))
    BY DEF Names, Upto
  <2> QED BY <1>2, <1>4, <2>1 DEF AllQueueNames
<1>6. ASSUME NEW x \in AllQueueNames(k) PROVE x \in Names(Upto(QueueCleanups(n), k))
  <2>1. PICK q \in 0..(k - 1) : x \in QueueNames(q)
    BY DEF AllQueueNames
  <2>2. q + 1 \in 1..k /\ (q + 1) - 1 = q
    BY <1>3
  <2>3. x \in Names(Range(QueueCleanups(n)[q + 1]))
    BY <2>1, <2>2, <1>4, Zenon
  <2> QED BY <2>2, <2>3 DEF Names, Upto
<1> QED BY <1>5, <1>6

\* Every position of the cleanup, with what went before.
LEMMA CleanupAt ==
  ASSUME NEW n \in 1..MaxQueues, NEW i \in 1..Len(CleanupOrders[n])
  PROVE  LET o == CleanupOrders[n][i].obj
             gone == Gone(n, i)
             head == SteeringNames
             all == SteeringNames \union AllQueueNames(n)
         IN  \/ o = <<"fte", 0>> /\ gone = {}
             \/ o = <<"fg", 0>> /\ gone = {<<"fte", 0>>}
             \/ o = <<"ft", 0>> /\ gone = {<<"fte", 0>>, <<"fg", 0>>}
             \/ o = <<"tir", 0>> /\ gone = {<<"fte", 0>>, <<"fg", 0>>, <<"ft", 0>>}
             \/ o = <<"rqt", 0>>
                  /\ gone = {<<"fte", 0>>, <<"fg", 0>>, <<"ft", 0>>, <<"tir", 0>>}
             \/ \E q \in 0..(n - 1) :
                  \/ o = <<"rq", q>> /\ gone = head \union AllQueueNames(q)
                  \/ o = <<"sq", q>>
                       /\ gone = head \union AllQueueNames(q) \union {<<"rq", q>>}
                  \/ /\ o = <<"rx_cq", q>>
                     /\ gone = head \union AllQueueNames(q)
                          \union {<<"rq", q>>, <<"sq", q>>}
                  \/ /\ o = <<"tx_cq", q>>
                     /\ gone = head \union AllQueueNames(q)
                               \union {<<"rq", q>>, <<"sq", q>>, <<"rx_cq", q>>}
             \/ o = <<"eq", 0>> /\ gone = all
             \/ o = <<"tis", 0>> /\ gone = all \union {<<"eq", 0>>}
             \/ o = <<"mkey", 0>> /\ gone = all \union {<<"eq", 0>>, <<"tis", 0>>}
             \/ o = <<"td", 0>>
                  /\ gone = all \union {<<"eq", 0>>, <<"tis", 0>>, <<"mkey", 0>>}
             \/ o = <<"q_counter", 0>>
                  /\ gone = all \union {<<"eq", 0>>, <<"tis", 0>>, <<"mkey", 0>>,
                       <<"td", 0>>}
             \/ o = <<"pd", 0>>
                  /\ gone = all \union {<<"eq", 0>>, <<"tis", 0>>, <<"mkey", 0>>,
                       <<"td", 0>>, <<"q_counter", 0>>}
             \/ o = <<"uar", 0>>
                  /\ gone = all \union {<<"eq", 0>>, <<"tis", 0>>, <<"mkey", 0>>,
                       <<"td", 0>>, <<"q_counter", 0>>, <<"pd", 0>>}
<1> DEFINE C == CleanupOrders[n]
           P == CleanupParts(n)
<1>1. n \in Nat \ {0}
  BY DeviceAssumption
<1>2. PICK p \in 1..3 : \E j \in 1..Len(P[p]) :
        C[i] = P[p][j] /\ Before(C, i) = Upto(P, p - 1) \union Before(P[p], j)
  BY CleanupInOrder DEF InOrder
<1>3. PICK j \in 1..Len(P[p]) :
        C[i] = P[p][j] /\ Before(C, i) = Upto(P, p - 1) \union Before(P[p], j)
  BY <1>2
<1>4. Gone(n, i) = Names(Upto(P, p - 1)) \union Names(Before(P[p], j))
  BY <1>3, NamesUnion DEF Gone
<1>5. P[1] = CleanupHead(n) /\ P[2] = AllQueueCleanup(n) /\ P[3] = CleanupTail
  BY DEF CleanupParts
<1>6. /\ Names(Upto(P, 0)) = {}
      /\ Names(Upto(P, 1)) = SteeringNames
      /\ Names(Upto(P, 2)) = SteeringNames \union AllQueueNames(n)
  <2>1. Upto(P, 0) = {} /\ Upto(P, 1) = Range(P[1])
          /\ Upto(P, 2) = Range(P[1]) \union Range(P[2])
    <3>1. 1..0 = {} /\ 1..1 = {1} /\ 1..2 = {1, 2}
      OBVIOUS
    <3> QED BY <3>1, Zenon DEF Upto
  <2>2. Range(P[2]) = Upto(QueueCleanups(n), n)
    BY <1>5, CleanupInOrder DEF InOrder
  <2>3. Names({}) = {}
    BY DEF Names
  <2>4. n \in 0..n
    BY <1>1
  <2>5. Names(Range(P[2])) = AllQueueNames(n)
    BY <2>2, <2>4, UptoQueues
  <2>6. Names(Range(P[1])) = SteeringNames
    BY <1>5, TargetNames
  <2>7. Names(Range(P[1]) \union Range(P[2])) = SteeringNames \union AllQueueNames(n)
    BY <2>5, <2>6, NamesUnion
  <2> QED BY <2>1, <2>3, <2>6, <2>7, Zenon
<1> HIDE DEF P
<1>7. CASE p = 1
  <2>1. CleanupHead(n)[1] = Fte /\ CleanupHead(n)[2] = Fg /\ CleanupHead(n)[3] = Ft
        /\ CleanupHead(n)[4] = Tir /\ CleanupHead(n)[5] = Rqt(n)
             /\ Len(CleanupHead(n)) = 5
    BY DEF CleanupHead
  <2>2. Gone(n, i) = Names(Before(CleanupHead(n), j)) /\ C[i] = CleanupHead(n)[j]
          /\ j \in 1..5
    BY <1>3, <1>4, <1>5, <1>6, <1>7, <2>1
  <2>3. /\ Before(CleanupHead(n), 1) = {}
        /\ Before(CleanupHead(n), 2) = {Fte}
        /\ Before(CleanupHead(n), 3) = {Fte, Fg}
        /\ Before(CleanupHead(n), 4) = {Fte, Fg, Ft}
        /\ Before(CleanupHead(n), 5) = {Fte, Fg, Ft, Tir}
    BY <2>1 DEF Before
  <2>4. /\ Fte.obj = <<"fte", 0>> /\ Fg.obj = <<"fg", 0>> /\ Ft.obj = <<"ft", 0>>
        /\ Tir.obj = <<"tir", 0>> /\ Rqt(n).obj = <<"rqt", 0>>
    BY DeviceFields, RqtFields DEF Is
  <2>5. /\ Names({}) = {}
        /\ Names({Fte}) = {<<"fte", 0>>}
        /\ Names({Fte, Fg}) = {<<"fte", 0>>, <<"fg", 0>>}
        /\ Names({Fte, Fg, Ft}) = {<<"fte", 0>>, <<"fg", 0>>, <<"ft", 0>>}
        /\ Names({Fte, Fg, Ft, Tir}) = {<<"fte", 0>>, <<"fg", 0>>, <<"ft", 0>>,
             <<"tir", 0>>}
    BY <2>4 DEF Names
  <2>6. j \in {1, 2, 3, 4, 5}
    BY <2>2
  <2> HIDE DEF C
  <2>7. \/ C[i].obj = <<"fte", 0>> /\ Gone(n, i) = {}
        \/ C[i].obj = <<"fg", 0>> /\ Gone(n, i) = {<<"fte", 0>>}
        \/ C[i].obj = <<"ft", 0>> /\ Gone(n, i) = {<<"fte", 0>>, <<"fg", 0>>}
        \/ C[i].obj = <<"tir", 0>>
             /\ Gone(n, i) = {<<"fte", 0>>, <<"fg", 0>>, <<"ft", 0>>}
        \/ C[i].obj = <<"rqt", 0>>
             /\ Gone(n, i) = {<<"fte", 0>>, <<"fg", 0>>, <<"ft", 0>>, <<"tir", 0>>}
    <3>1. CASE j = 1
      BY <3>1, <2>1, <2>2, <2>3, <2>5, <2>4, Zenon
    <3>2. CASE j = 2
      BY <3>2, <2>1, <2>2, <2>3, <2>5, <2>4, Zenon
    <3>3. CASE j = 3
      BY <3>3, <2>1, <2>2, <2>3, <2>5, <2>4, Zenon
    <3>4. CASE j = 4
      BY <3>4, <2>1, <2>2, <2>3, <2>5, <2>4, Zenon
    <3>5. CASE j = 5
      BY <3>5, <2>1, <2>2, <2>3, <2>5, <2>4, Zenon
    <3> QED BY <2>6, <3>1, <3>2, <3>3, <3>4, <3>5, Zenon
  <2> QED BY <2>7, Zenon DEF C
<1>8. CASE p = 2
  <2>1. PICK k \in 1..n : \E l \in 1..Len(QueueCleanups(n)[k]) :
          /\ AllQueueCleanup(n)[j] = QueueCleanups(n)[k][l]
          /\ Before(AllQueueCleanup(n), j) = Upto(QueueCleanups(n), k - 1)
               \union Before(QueueCleanups(n)[k], l)
    <3>1. j \in 1..Len(AllQueueCleanup(n))
      BY <1>3, <1>5, <1>8
    <3> QED BY <3>1, CleanupInOrder DEF InOrder
  <2>2. PICK q \in 0..(n - 1) : q = k - 1
    BY <1>1
  <2>3. QueueCleanups(n)[k] = QueueCleanup(q)
    BY <2>2 DEF QueueCleanups
  <2>4. /\ QueueCleanup(q)[1] = Rq(q) /\ QueueCleanup(q)[2] = Sq(q)
        /\ QueueCleanup(q)[3] = Cq("rx_cq", q) /\ QueueCleanup(q)[4] = Cq("tx_cq", q)
        /\ Len(QueueCleanup(q)) = 4
    BY DEF QueueCleanup
  <2>5. PICK l \in 1..4 :
          /\ AllQueueCleanup(n)[j] = QueueCleanup(q)[l]
          /\ Before(AllQueueCleanup(n), j) = Upto(QueueCleanups(n), q)
               \union Before(QueueCleanup(q), l)
    BY <2>1, <2>2, <2>3, <2>4
  <2>6. /\ Gone(n, i) = SteeringNames \union AllQueueNames(q)
             \union Names(Before(QueueCleanup(q), l))
        /\ C[i] = QueueCleanup(q)[l]
    <3>1. q \in 0..n
      BY <1>1
    <3>2. Names(Before(P[2], j)) = AllQueueNames(q)
            \union Names(Before(QueueCleanup(q), l))
      BY <1>5, <2>5, <3>1, UptoQueues, NamesUnion
    <3>3. p - 1 = 1
      BY <1>8
    <3>4. Gone(n, i) = SteeringNames
            \union (AllQueueNames(q) \union Names(Before(QueueCleanup(q), l)))
      BY <1>4, <1>6, <1>8, <3>2, <3>3, Zenon
    <3>5. C[i] = QueueCleanup(q)[l]
      BY <1>3, <1>5, <1>8, <2>5, Zenon
    <3> QED BY <3>4, <3>5
  <2>7. /\ Before(QueueCleanup(q), 1) = {}
        /\ Before(QueueCleanup(q), 2) = {Rq(q)}
        /\ Before(QueueCleanup(q), 3) = {Rq(q), Sq(q)}
        /\ Before(QueueCleanup(q), 4) = {Rq(q), Sq(q), Cq("rx_cq", q)}
    BY <2>4 DEF Before
  <2>8. /\ Rq(q).obj = <<"rq", q>> /\ Sq(q).obj = <<"sq", q>>
        /\ Cq("rx_cq", q).obj = <<"rx_cq", q>> /\ Cq("tx_cq", q).obj = <<"tx_cq", q>>
    BY QueueFields DEF Is
  <2>9. /\ Names({}) = {}
        /\ Names({Rq(q)}) = {<<"rq", q>>}
        /\ Names({Rq(q), Sq(q)}) = {<<"rq", q>>, <<"sq", q>>}
        /\ Names({Rq(q), Sq(q), Cq("rx_cq", q)}) = {<<"rq", q>>, <<"sq", q>>,
             <<"rx_cq", q>>}
    BY <2>8 DEF Names
  <2>10. l \in {1, 2, 3, 4}
    OBVIOUS
  <2> DEFINE G == SteeringNames \union AllQueueNames(q)
  <2> HIDE DEF C, G
  <2>11. \/ C[i].obj = <<"rq", q>> /\ Gone(n, i) = G \union {}
         \/ C[i].obj = <<"sq", q>> /\ Gone(n, i) = G \union {<<"rq", q>>}
         \/ C[i].obj = <<"rx_cq", q>>
              /\ Gone(n, i) = G \union {<<"rq", q>>, <<"sq", q>>}
         \/ C[i].obj = <<"tx_cq", q>>
              /\ Gone(n, i) = G \union {<<"rq", q>>, <<"sq", q>>, <<"rx_cq", q>>}
    <3>1. Gone(n, i) = G \union Names(Before(QueueCleanup(q), l))
      BY <2>6, Zenon DEF G
    <3> QED BY <2>4, <2>6, <2>7, <2>8, <2>9, <2>10, <3>1, Zenon
  <2>12. G \union {} = G
    OBVIOUS
  <2> QED BY <2>11, <2>12, Zenon DEF C, G
<1>9. CASE p = 3
  <2>1. /\ CleanupTail[1] = Eq /\ CleanupTail[2] = Tis /\ CleanupTail[3] = Mkey
        /\ CleanupTail[4] = Td /\ CleanupTail[5] = QCounter /\ CleanupTail[6] = Pd
        /\ CleanupTail[7] = Uar /\ Len(CleanupTail) = 7
    BY DEF CleanupTail
  <2> DEFINE G == SteeringNames \union AllQueueNames(n)
  <2>2. Gone(n, i) = G \union Names(Before(CleanupTail, j)) /\ C[i] = CleanupTail[j]
          /\ j \in 1..7
    BY <1>3, <1>4, <1>5, <1>6, <1>9, <2>1
  <2>3. /\ Before(CleanupTail, 1) = {}
        /\ Before(CleanupTail, 2) = {Eq}
        /\ Before(CleanupTail, 3) = {Eq, Tis}
        /\ Before(CleanupTail, 4) = {Eq, Tis, Mkey}
        /\ Before(CleanupTail, 5) = {Eq, Tis, Mkey, Td}
        /\ Before(CleanupTail, 6) = {Eq, Tis, Mkey, Td, QCounter}
        /\ Before(CleanupTail, 7) = {Eq, Tis, Mkey, Td, QCounter, Pd}
    BY <2>1 DEF Before
  <2>4. /\ Eq.obj = <<"eq", 0>> /\ Tis.obj = <<"tis", 0>> /\ Mkey.obj = <<"mkey", 0>>
        /\ Td.obj = <<"td", 0>> /\ QCounter.obj = <<"q_counter", 0>>
             /\ Pd.obj = <<"pd", 0>>
        /\ Uar.obj = <<"uar", 0>>
    BY DeviceFields DEF Is
  <2>5. /\ Names({}) = {}
        /\ Names({Eq}) = {<<"eq", 0>>}
        /\ Names({Eq, Tis}) = {<<"eq", 0>>, <<"tis", 0>>}
        /\ Names({Eq, Tis, Mkey}) = {<<"eq", 0>>, <<"tis", 0>>, <<"mkey", 0>>}
        /\ Names({Eq, Tis, Mkey, Td}) = {<<"eq", 0>>, <<"tis", 0>>, <<"mkey", 0>>,
             <<"td", 0>>}
        /\ Names({Eq, Tis, Mkey, Td, QCounter}) =
             {<<"eq", 0>>, <<"tis", 0>>, <<"mkey", 0>>, <<"td", 0>>, <<"q_counter", 0>>}
        /\ Names({Eq, Tis, Mkey, Td, QCounter, Pd}) =
             {<<"eq", 0>>, <<"tis", 0>>, <<"mkey", 0>>, <<"td", 0>>,
               <<"q_counter", 0>>, <<"pd", 0>>}
    BY <2>4 DEF Names
  <2>6. j \in {1, 2, 3, 4, 5, 6, 7}
    BY <2>2
  <2> HIDE DEF C, G
  <2>7. \/ C[i].obj = <<"eq", 0>> /\ Gone(n, i) = G \union {}
        \/ C[i].obj = <<"tis", 0>> /\ Gone(n, i) = G \union {<<"eq", 0>>}
        \/ C[i].obj = <<"mkey", 0>> /\ Gone(n, i) = G \union {<<"eq", 0>>, <<"tis", 0>>}
        \/ C[i].obj = <<"td", 0>>
             /\ Gone(n, i) = G \union {<<"eq", 0>>, <<"tis", 0>>, <<"mkey", 0>>}
        \/ C[i].obj = <<"q_counter", 0>>
             /\ Gone(n, i) = G
                  \union {<<"eq", 0>>, <<"tis", 0>>, <<"mkey", 0>>, <<"td", 0>>}
        \/ C[i].obj = <<"pd", 0>>
             /\ Gone(n, i) = G
                  \union {<<"eq", 0>>, <<"tis", 0>>, <<"mkey", 0>>, <<"td", 0>>,
                    <<"q_counter", 0>>}
        \/ C[i].obj = <<"uar", 0>>
             /\ Gone(n, i) = G
                  \union {<<"eq", 0>>, <<"tis", 0>>, <<"mkey", 0>>, <<"td", 0>>,
                    <<"q_counter", 0>>, <<"pd", 0>>}
    <3>1. Gone(n, i) = G \union Names(Before(CleanupTail, j)) /\ C[i] = CleanupTail[j]
      BY <2>2, Zenon DEF G
    <3>2. CASE j = 1
      BY <3>1, <3>2, <2>1, <2>3, <2>4, <2>5, Zenon
    <3>3. CASE j = 2
      BY <3>1, <3>3, <2>1, <2>3, <2>4, <2>5, Zenon
    <3>4. CASE j = 3
      BY <3>1, <3>4, <2>1, <2>3, <2>4, <2>5, Zenon
    <3>5. CASE j = 4
      BY <3>1, <3>5, <2>1, <2>3, <2>4, <2>5, Zenon
    <3>6. CASE j = 5
      BY <3>1, <3>6, <2>1, <2>3, <2>4, <2>5, Zenon
    <3>7. CASE j = 6
      BY <3>1, <3>7, <2>1, <2>3, <2>4, <2>5, Zenon
    <3>8. CASE j = 7
      BY <3>1, <3>8, <2>1, <2>3, <2>4, <2>5, Zenon
    <3> QED BY <2>6, <3>2, <3>3, <3>4, <3>5, <3>6, <3>7, <3>8, Zenon
  <2>8. G \union {} = G
    OBVIOUS
  <2> QED BY <2>7, <2>8, Zenon DEF C, G
<1>10. p \in {1, 2, 3}
  OBVIOUS
<1> QED BY <1>7, <1>8, <1>9, <1>10, Zenon

\* Every step of a cleanup passes one more object.
LEMMA GoneSteps ==
  ASSUME NEW n \in 1..MaxQueues
  PROVE  /\ Len(CleanupOrders[n]) \in Nat
         /\ Gone(n, 1) = {}
         /\ \A i \in 1..Len(CleanupOrders[n]) :
              Gone(n, i + 1) = Gone(n, i) \union {CleanupOrders[n][i].obj}
<1>1. Len(CleanupOrders[n]) \in Nat
  BY CleanupInOrder
<1>2. Before(CleanupOrders[n], 1) = {}
  BY DEF Before
<1>3. ASSUME NEW i \in 1..Len(CleanupOrders[n])
      PROVE  Gone(n, i + 1) = Gone(n, i) \union {CleanupOrders[n][i].obj}
  <2>1. 1..((i + 1) - 1) = (1..(i - 1)) \union {i}
    BY <1>1
  <2>2. Before(CleanupOrders[n], i + 1) = Before(CleanupOrders[n], i)
          \union {CleanupOrders[n][i]}
    BY <2>1, Zenon DEF Before
  <2>3. Names({CleanupOrders[n][i]}) = {CleanupOrders[n][i].obj}
    BY DEF Names
  <2> QED BY <2>2, <2>3, NamesUnion DEF Gone
<1> QED BY <1>1, <1>2, <1>3 DEF Gone, Names

\* Every object is cleaned up once, and none is one of the bring-up.
LEMMA CleanupOnce ==
  ASSUME NEW n \in 1..MaxQueues, NEW i \in 1..Len(CleanupOrders[n])
  PROVE  /\ CleanupOrders[n][i].obj \notin Gone(n, i)
         /\ CleanupOrders[n][i].obj \notin BringUp
         /\ CleanupOrders[n][i].obj \in {Fg.obj, Fte.obj} => Ft.obj \notin Gone(n, i)
<1> DEFINE o == CleanupOrders[n][i].obj
<1>1. n \in Nat
  BY DeviceAssumption
<1>2. \A k \in Nat : \A x \in AllQueueNames(k) : x[1] \in {"rq", "sq", "rx_cq", "tx_cq"}
  BY DEF AllQueueNames, QueueNames
<1>3. Fg.obj = <<"fg", 0>> /\ Fte.obj = <<"fte", 0>> /\ Ft.obj = <<"ft", 0>>
  BY DeviceFields DEF Is
<1>4. CASE o \in SteeringNames
  <2>1. \A x \in SteeringNames : x[1] \notin {"rq", "sq", "rx_cq", "tx_cq", "eq",
          "tis", "mkey", "td", "q_counter", "pd", "uar"}
    BY DEF SteeringNames
  <2> QED BY <1>3, <1>4, <2>1, CleanupAt, BringUpNames
<1>5. ASSUME NEW q \in 0..(n - 1), o \in QueueNames(q)
      PROVE  o \notin Gone(n, i) /\ o \notin BringUp /\ o \notin {Fg.obj, Fte.obj}
  <2>1. o[2] = q /\ o[1] \in {"rq", "sq", "rx_cq", "tx_cq"}
    BY <1>5 DEF QueueNames
  <2>2. o \notin BringUp /\ o \notin {Fg.obj, Fte.obj}
    BY <1>3, <2>1, BringUpNames
  <2>3. o \notin SteeringNames
    BY <2>1 DEF SteeringNames
  <2>4. q \in Nat /\ o \notin AllQueueNames(q)
    <3>1. q \in Nat
      BY <1>1
    <3>2. \A y \in AllQueueNames(q) : y[2] \in 0..(q - 1)
      BY DEF AllQueueNames, QueueNames
    <3>3. q \notin 0..(q - 1)
      BY <3>1
    <3> QED BY <3>1, <3>2, <3>3, <2>1
  <2>5. \/ o = <<"rq", q>> /\ Gone(n, i) = SteeringNames \union AllQueueNames(q)
        \/ o = <<"sq", q>>
             /\ Gone(n, i) = SteeringNames \union AllQueueNames(q) \union {<<"rq", q>>}
        \/ /\ o = <<"rx_cq", q>>
           /\ Gone(n, i) = SteeringNames \union AllQueueNames(q)
                \union {<<"rq", q>>, <<"sq", q>>}
        \/ /\ o = <<"tx_cq", q>>
           /\ Gone(n, i) = SteeringNames \union AllQueueNames(q)
                           \union {<<"rq", q>>, <<"sq", q>>, <<"rx_cq", q>>}
    BY <2>1, CleanupAt
  <2> QED BY <2>2, <2>3, <2>4, <2>5
<1>6. CASE o \in {<<"eq", 0>>, <<"tis", 0>>, <<"mkey", 0>>, <<"td", 0>>,
             <<"q_counter", 0>>,
                  <<"pd", 0>>, <<"uar", 0>>}
  <2>1. o \notin SteeringNames /\ o \notin BringUp /\ o \notin {Fg.obj, Fte.obj}
    BY <1>3, <1>6, BringUpNames DEF SteeringNames
  <2>2. o \notin AllQueueNames(n)
    BY <1>1, <1>2, <1>6
  <2> QED BY <1>6, <2>1, <2>2, CleanupAt
<1>7. \/ o \in SteeringNames
      \/ \E q \in 0..(n - 1) : o \in QueueNames(q)
      \/ o \in {<<"eq", 0>>, <<"tis", 0>>, <<"mkey", 0>>, <<"td", 0>>,
           <<"q_counter", 0>>,
                <<"pd", 0>>, <<"uar", 0>>}
  BY CleanupAt DEF SteeringNames, QueueNames
<1> QED BY <1>4, <1>5, <1>6, <1>7

\* What went before an object, by the name of the object.
LEMMA GoneBefore ==
  ASSUME NEW n \in 1..MaxQueues, NEW i \in 1..Len(CleanupOrders[n]), NEW o,
         o = CleanupOrders[n][i].obj
  PROVE  /\ o = <<"fg", 0>> => <<"fte", 0>> \in Gone(n, i)
         /\ o = <<"ft", 0>> => {<<"fte", 0>>, <<"fg", 0>>} \subseteq Gone(n, i)
         /\ o = <<"tir", 0>> => <<"fte", 0>> \in Gone(n, i)
         /\ o = <<"rqt", 0>> => <<"tir", 0>> \in Gone(n, i)
         /\ \A q : o = <<"rq", q>> => <<"rqt", 0>> \in Gone(n, i)
         /\ \A q : o = <<"rx_cq", q>> => <<"rq", q>> \in Gone(n, i)
         /\ \A q : o = <<"tx_cq", q>> => <<"sq", q>> \in Gone(n, i)
         /\ o \in {<<"eq", 0>>, <<"tis", 0>>, <<"td", 0>>, <<"q_counter", 0>>,
              <<"pd", 0>>,
                   <<"uar", 0>>}
              => SteeringNames \union AllQueueNames(n) \subseteq Gone(n, i)
         /\ o = <<"td", 0>> => <<"tis", 0>> \in Gone(n, i)
         /\ o = <<"pd", 0>> => <<"mkey", 0>> \in Gone(n, i)
         /\ o = <<"uar", 0>> => <<"eq", 0>> \in Gone(n, i)
<1>1. <<"rqt", 0>> \in SteeringNames
  BY DEF SteeringNames
<1>2. CASE o[1] \in {"fte", "fg", "ft", "tir", "rqt"}
  BY <1>2, CleanupAt
<1>3. CASE o[1] \in {"rq", "sq", "rx_cq", "tx_cq"}
  <2>1. PICK q \in 0..(n - 1) :
            \/ o = <<"rq", q>> /\ Gone(n, i) = SteeringNames \union AllQueueNames(q)
            \/ o = <<"sq", q>>
            \/ /\ o = <<"rx_cq", q>>
               /\ Gone(n, i) = SteeringNames \union AllQueueNames(q)
                    \union {<<"rq", q>>, <<"sq", q>>}
            \/ /\ o = <<"tx_cq", q>>
               /\ Gone(n, i) = SteeringNames \union AllQueueNames(q)
                               \union {<<"rq", q>>, <<"sq", q>>, <<"rx_cq", q>>}
    BY <1>3, CleanupAt
  <2> QED BY <1>1, <2>1
<1>4. CASE o[1] \in {"eq", "tis", "mkey", "td", "q_counter", "pd", "uar"}
  BY <1>4, CleanupAt
<1>5. o[1] \in {"fte", "fg", "ft", "tir", "rqt"} \union {"rq", "sq", "rx_cq", "tx_cq"}
               \union {"eq", "tis", "mkey", "td", "q_counter", "pd", "uar"}
  BY CleanupAt
<1> QED BY <1>2, <1>3, <1>4, <1>5

\* What rests on an object is cleaned up before it.
LEMMA CleanupUsersFirst ==
  ASSUME NEW c \in Configs, NEW i \in 1..Len(CleanupOrders[c.nq]),
         NEW r \in Wanted[c], r.obj \notin BringUp,
         CleanupOrders[c.nq][i].obj \in r.needs
  PROVE  r.obj \in Gone(c.nq, i)
<1> DEFINE n == c.nq
           o == CleanupOrders[n][i].obj
<1>1. n \in 1..MaxQueues
  BY DEF Configs
<1>2. o \notin BringUp /\ o \in r.needs
  BY <1>1, CleanupOnce
<1>3. \A q \in 0..(n - 1) : QueueNames(q) \subseteq AllQueueNames(n)
  BY DEF AllQueueNames
<1> HIDE DEF n, o
<1>4. CASE r \in Commands \union {Promisc, FtRoot}
  BY <1>4, BringUpFields, BringUpNames DEF Commands, Is
<1>5. CASE r \in {Uar, Pd, Td, QCounter, Ft}
  BY <1>2, <1>5, DeviceFields, BringUpNames DEF Is
<1>6. CASE r \in {Mkey, Tis, Eq}
  <2>1. \/ r.obj = <<"mkey", 0>> /\ o = <<"pd", 0>>
        \/ r.obj = <<"tis", 0>> /\ o = <<"td", 0>>
        \/ r.obj = <<"eq", 0>> /\ o = <<"uar", 0>>
    BY <1>2, <1>6, DeviceFields DEF Is
  <2> QED BY <1>1, <2>1, GoneBefore DEF n, o
<1>7. CASE r \in {Rqt(n), Tir, Fg, Fte}
  <2>1. \/ r.obj = <<"rqt", 0>> /\ \E q \in 0..(n - 1) : o = <<"rq", q>>
        \/ r.obj = <<"tir", 0>> /\ o \in {<<"td", 0>>, <<"rqt", 0>>}
        \/ r.obj = <<"fg", 0>> /\ o = <<"ft", 0>>
        \/ r.obj = <<"fte", 0>> /\ o \in {<<"ft", 0>>, <<"fg", 0>>, <<"tir", 0>>}
    BY <1>2, <1>7, DeviceFields, RqtFields DEF Is
  <2>2. <<"tir", 0>> \in SteeringNames
    BY DEF SteeringNames
  <2> QED BY <1>1, <2>1, <2>2, GoneBefore DEF n, o
<1>8. ASSUME NEW q \in 0..(n - 1), r \in {Cq("tx_cq", q), Sq(q), Cq("rx_cq", q), Rq(q)}
      PROVE  r.obj \in Gone(n, i)
  <2>1. r.obj \in QueueNames(q)
    BY <1>8, QueueFields DEF Is, QueueNames
  <2>2. \/ o \in {<<"uar", 0>>, <<"eq", 0>>, <<"pd", 0>>, <<"tis", 0>>,
             <<"q_counter", 0>>}
        \/ r.obj = <<"sq", q>> /\ o = <<"tx_cq", q>>
        \/ r.obj = <<"rq", q>> /\ o = <<"rx_cq", q>>
    BY <1>2, <1>8, QueueFields DEF Is
  <2>3. r.obj \in AllQueueNames(n)
    BY <1>3, <2>1
  <2> QED BY <1>1, <2>2, <2>3, GoneBefore DEF n, o
<1> QED BY <1>4, <1>5, <1>6, <1>7, <1>8, WantedCases DEF n

\* Whatever a start creates, the cleanup comes to it.
LEMMA CleanupAll ==
  ASSUME NEW c \in Configs, NEW r \in Wanted[c], r.obj \notin BringUp
  PROVE  r.obj \in Gone(c.nq, Len(CleanupOrders[c.nq]) + 1)
<1> DEFINE n == c.nq
           C == CleanupOrders[n]
           P == CleanupParts(n)
<1>1. n \in 1..MaxQueues /\ n \in 0..n
  BY DeviceAssumption DEF Configs
<1>2. Before(C, Len(C) + 1) = Range(C)
  <2>1. Len(C) \in Nat /\ DOMAIN C = 1..Len(C)
    BY <1>1, CleanupInOrder
  <2>2. (Len(C) + 1) - 1 = Len(C)
    BY <2>1
  <2> QED BY <2>1, <2>2 DEF Before, Range
<1>3. Range(C) = Range(P[1]) \union Range(P[2]) \union Range(P[3])
  <2>1. Range(C) = Upto(P, 3)
    BY <1>1, CleanupInOrder DEF InOrder
  <2>2. 1..3 = {1, 2, 3}
    OBVIOUS
  <2> QED BY <2>1, <2>2, Zenon DEF Upto
<1>4. P[1] = CleanupHead(n) /\ P[2] = AllQueueCleanup(n) /\ P[3] = CleanupTail
  BY DEF CleanupParts
<1>5. Names(Range(P[1])) = SteeringNames
  BY <1>4, TargetNames
<1>6. Names(Range(P[2])) = AllQueueNames(n)
  <2>1. Range(P[2]) = Upto(QueueCleanups(n), n)
    BY <1>1, <1>4, CleanupInOrder DEF InOrder
  <2> QED BY <1>1, <2>1, UptoQueues
<1>7. Range(P[3]) = {Eq, Tis, Mkey, Td, QCounter, Pd, Uar}
  BY <1>4 DEF CleanupTail, Range
<1> HIDE DEF P, C
<1>8. SteeringNames \union AllQueueNames(n)
        \union Names(Range(P[3])) = Gone(n, Len(C) + 1)
  <2>1. Names(Range(C)) = Names(Range(P[1]) \union Range(P[2]))
          \union Names(Range(P[3]))
    BY <1>3, NamesUnion
  <2>2. Names(Range(P[1]) \union Range(P[2])) = SteeringNames \union AllQueueNames(n)
    BY <1>5, <1>6, NamesUnion
  <2>3. Gone(n, Len(C) + 1) = Names(Range(C))
    BY <1>2, Zenon DEF Gone, C
  <2> QED BY <2>1, <2>2, <2>3
<1>9. CASE r \in {Eq, Tis, Mkey, Td, QCounter, Pd, Uar}
  <2>1. r.obj \in Names(Range(P[3]))
    BY <1>7, <1>9 DEF Names
  <2> QED BY <1>8, <2>1 DEF C
<1>10. CASE r \in {Rqt(n), Tir, Ft, Fg, Fte}
  <2>1. /\ Fte.obj = <<"fte", 0>> /\ Fg.obj = <<"fg", 0>> /\ Ft.obj = <<"ft", 0>>
        /\ Tir.obj = <<"tir", 0>> /\ Rqt(n).obj = <<"rqt", 0>>
    BY DeviceFields, RqtFields DEF Is
  <2>2. r.obj \in SteeringNames
    BY <1>10, <2>1 DEF SteeringNames
  <2> QED BY <1>8, <2>2 DEF C
<1>11. ASSUME NEW q \in 0..(n - 1), r \in {Cq("tx_cq", q), Sq(q), Cq("rx_cq", q), Rq(q)}
       PROVE  r.obj \in Gone(n, Len(C) + 1)
  <2>1. r.obj \in QueueNames(q)
    BY <1>11, QueueFields DEF Is, QueueNames
  <2>2. r.obj \in AllQueueNames(n)
    BY <2>1 DEF AllQueueNames
  <2> QED BY <1>8, <2>2
<1>12. CASE r \in Commands \union {Promisc, FtRoot}
  BY <1>12, BringUpFields, BringUpNames DEF Commands, Is
<1> QED BY <1>9, <1>10, <1>11, <1>12, WantedCases DEF C

-------------------------------------------------------------------------------
(***************************************************************************)
(* The inductive invariant.                                                *)
(***************************************************************************)
\* The context is open: some of a start was carried out and not yet undone.
Active == pc \in {"starting", "cleaning"} \/ (pc = "idle" /\ started)

\* What step x of the start leaves behind, as long as nothing is cleaned up.
Taken(x) ==
  LET o == x.res.obj
  IN  /\ x.do = "create" => /\ o \in known \/ x.res.zero_absent
                            /\ o \in fw \union misled
                            /\ {o} \X x.res.regions \subseteq dma
      /\ x.do = "modify" => o \in ready \union misled
      /\ x.do = "post" => <<o, "rx_pages">> \in dma

\* Nothing of the device is held outside of a start.
InvClosed ==
  ~Active =>
    /\ fw = {}
    /\ ready = {}
    /\ known = {}
    /\ failed = {}
    /\ misled = {}
    /\ faults = 0
    /\ outstanding = {}
    /\ call = <<>>
    /\ fw_page_count = 0
    /\ cmdq_reg # "ours"
    /\ dma \subseteq CtxRegions
    /\ ~started
    /\ pc # "opening" => dma = {} /\ vfio = {}

InvOpening ==
  pc = "opening" =>
    /\ goal = "start"
    /\ queues = config.nq
    /\ step \in 1..(Len(OpenOrder) + 1)
    /\ rc = 0
    /\ cmdq_reg = "orig"
    /\ step > Len(VfioOrder) => "bar0" \in vfio

InvStarting ==
  pc = "starting" =>
    /\ goal = "start"
    /\ ~started
    /\ rc = 0
    /\ call = <<>>
    /\ outstanding = {}
    /\ failed = {}
    /\ step \in 1..(Len(StartOrder[config]) + 1)
    /\ \A x \in Before(StartOrder[config], step) : Taken(x)

InvStarted ==
  pc = "idle" /\ started =>
    /\ failed = {}
    /\ \A x \in Range(StartOrder[config]) : Taken(x)
    /\ call # <<>> => /\ call \in {"tx", "rx"} \X (0..(queues - 1))
                      /\ IF call[1] = "tx" THEN config.tx ELSE config.rx
    /\ outstanding # {} => config.rx
    /\ outstanding \subseteq 0..(queues - 1)

\* The objects the cleanup has passed.
Passed == IF pc = "cleaning" THEN Gone(queues, step) ELSE {}

InvActive ==
  Active =>
    /\ queues = config.nq
    /\ "bar0" \in vfio
    /\ fw \union known \subseteq Names(Wanted[config])
    /\ fw \subseteq known \union failed \union misled \union BringUp
    /\ {Fg.obj, Fte.obj} \intersect known # {} => Ft.obj \in known \union Passed

\* Memory goes with its object.
InvMemory ==
  Active =>
    /\ \A r \in Wanted[config] :
         r.obj \in fw \ Passed =>
           {r.obj} \X r.regions \subseteq dma \/ r.obj \in failed \union misled
    /\ \A d \in dma \ CtxRegions :
         d[1] \in Names(Wanted[config]) \ (BringUp \union Passed
           \union {Fg.obj, Fte.obj})

InvCleaning ==
  pc = "cleaning" =>
    /\ call = <<>>
    /\ step \in 1..(Len(CleanupOrders[queues]) + 1)
    /\ failed # {} => rc = -1
    /\ \A o \in Passed \intersect fw : Excused(o) /\ (rc = -1 \/ o \in misled)

DeviceInv ==
  /\ DeviceTypeOK
  /\ InvClosed
  /\ InvOpening
  /\ InvStarting
  /\ InvStarted
  /\ InvActive
  /\ InvMemory
  /\ InvCleaning

-------------------------------------------------------------------------------
(***************************************************************************)
(* The steps of a start keep the invariant.                                *)
(***************************************************************************)
\* InvActive and InvMemory while nothing is cleaned up.
Accounted ==
  /\ fw \union known \subseteq Names(Wanted[config])
  /\ fw \subseteq known \union failed \union misled \union BringUp
  /\ {Fg.obj, Fte.obj} \intersect known # {} => Ft.obj \in known
  /\ \A r \in Wanted[config] :
       r.obj \in fw
         => {r.obj} \X r.regions \subseteq dma \/ r.obj \in failed \union misled
  /\ \A d \in dma \ CtxRegions :
       d[1] \in Names(Wanted[config]) \ (BringUp \union {Fg.obj, Fte.obj})

\* What a configuration wants is an object of the model.
LEMMA WantedObjects ==
  ASSUME NEW c \in Configs
  PROVE  Names(Wanted[c]) \subseteq Objects
BY DEF Names, Objects

\* What the invariant says of the step a start is about to take.
LEMMA StepFacts ==
  ASSUME DeviceInv, pc = "starting", step <= Len(StartOrder[config])
  PROVE  /\ config \in Configs
         /\ Step \in Range(StartOrder[config])
         /\ step + 1 \in 1..(Len(StartOrder[config]) + 1)
         /\ Before(StartOrder[config], step + 1) = Before(StartOrder[config], step)
              \union {Step}
         /\ Step.do \in {"create", "give"} => Step.res \in Wanted[config]
         /\ Accounted
<1>1. config \in Configs /\ step \in 1..(Len(StartOrder[config]) + 1)
  BY DEF DeviceInv, DeviceTypeOK, InvStarting
<1>2. Len(StartOrder[config]) \in Nat
        /\ DOMAIN StartOrder[config] = 1..Len(StartOrder[config])
  BY <1>1, StartInOrder
<1>3. step \in 1..Len(StartOrder[config])
        /\ step + 1 \in 1..(Len(StartOrder[config]) + 1)
  BY <1>1, <1>2
<1>4. Step \in Range(StartOrder[config])
  BY <1>2, <1>3 DEF Step, Range
<1>5. 1..((step + 1) - 1) = (1..(step - 1)) \union {step}
  BY <1>2, <1>3
<1>6. Before(StartOrder[config], step + 1) = Before(StartOrder[config], step)
        \union {Step}
  BY <1>5, Zenon DEF Before, Step
<1>7. Step.do \in {"create", "give"} => Step.res \in Wanted[config]
  BY <1>1, <1>4, OtherStepCases
<1>8. Passed = {} /\ Active
  BY DEF Passed, Active
<1>9. Accounted
  BY <1>8 DEF Accounted, DeviceInv, InvActive, InvMemory
<1> QED BY <1>1, <1>3, <1>4, <1>6, <1>7, <1>9

\* What every step of a start keeps.
StartFrame ==
  /\ UNCHANGED <<goal, queues, ctxvars, devvars, call>>
  /\ failed' \union misled' \subseteq Objects
  /\ ready' \subseteq fw'
  /\ dma' \subseteq AllRegions
  /\ fw_page_count' \in 0..MLX5_MAX_FW_PAGES
  /\ faults' \in Nat
  /\ Accounted'

\* A step of the start keeps what does not depend on which step it is.
LEMMA StartKeepsType ==
  ASSUME DeviceInv, pc = "starting", StartFrame,
         pc' \in {"starting", "cleaning"}, rc' \in {0, -1}, step' \in Nat
  PROVE  /\ DeviceTypeOK'
         /\ queues' = config'.nq /\ "bar0" \in vfio' /\ ~started' /\ call' = <<>>
<1>1. DeviceTypeOK /\ InvStarting /\ InvActive /\ Active
  BY DEF DeviceInv, Active
<1>2. config' \in Configs /\ fw' \union known' \subseteq Names(Wanted[config'])
  BY <1>1 DEF StartFrame, Accounted, DeviceTypeOK, devvars
<1>3. fw' \union known' \subseteq Objects
  BY <1>2, WantedObjects
<1>4. DeviceTypeOK'
  BY <1>1, <1>3 DEF StartFrame, DeviceTypeOK, devvars, ctxvars
<1>5. queues' = config'.nq /\ "bar0" \in vfio' /\ ~started' /\ call' = <<>>
  BY <1>1 DEF StartFrame, InvActive, InvStarting, devvars, ctxvars
<1> QED BY <1>4, <1>5

\* A step that succeeds, and leaves behind what it should, keeps the invariant.
LEMMA StartContinuesInv ==
  ASSUME DeviceInv, pc = "starting", step <= Len(StartOrder[config]), StartFrame,
         StartContinues, failed' = {},
         known \subseteq known', fw \subseteq fw', misled \subseteq misled',
         ready \subseteq ready', dma \subseteq dma',
         NEW x, x = Step, Taken(x)'
  PROVE  DeviceInv'
<1>1. /\ pc' = "starting" /\ rc' = rc /\ step' = step + 1 /\ rc = 0 /\ goal = "start"
      /\ step \in Nat /\ outstanding = {}
  BY DEF StartContinues, DeviceInv, DeviceTypeOK, InvStarting
<1>2. /\ DeviceTypeOK'
      /\ queues' = config'.nq /\ "bar0" \in vfio' /\ ~started' /\ call' = <<>>
  BY <1>1, StartKeepsType
<1>3. Active' /\ Passed' = {}
  BY <1>1 DEF Active, Passed
<1>4. InvActive' /\ InvMemory'
  BY <1>2, <1>3 DEF StartFrame, Accounted, InvActive, InvMemory
<1>5. \A y : Taken(y) => Taken(y)'
  BY DEF Taken
<1>6. \A y \in Before(StartOrder[config'], step') : Taken(y)'
  <2>1. \A y \in Before(StartOrder[config], step) : Taken(y)
    BY DEF DeviceInv, InvStarting
  <2>2. Before(StartOrder[config'], step') = Before(StartOrder[config], step) \union {x}
    BY <1>1, StepFacts DEF StartFrame, devvars
  <2> QED BY <1>5, <2>1, <2>2
<1>7. InvStarting'
  <2>1. step' \in 1..(Len(StartOrder[config']) + 1)
    BY <1>1, StepFacts DEF StartFrame, devvars
  <2> QED BY <1>1, <1>2, <1>6, <2>1 DEF InvStarting, StartFrame, devvars
<1>8. InvClosed' /\ InvOpening' /\ InvStarted' /\ InvCleaning'
  BY <1>1, <1>3 DEF InvClosed, InvOpening, InvStarted, InvCleaning
<1> QED BY <1>2, <1>4, <1>7, <1>8 DEF DeviceInv

\* A step that fails hands over to the cleanup, which has passed nothing yet.
LEMMA StartFailsInv ==
  ASSUME DeviceInv, pc = "starting", StartFrame, StartFails
  PROVE  DeviceInv'
<1>1. pc' = "cleaning" /\ rc' = -1 /\ step' = 1
  BY DEF StartFails
<1>2. /\ DeviceTypeOK'
      /\ queues' = config'.nq /\ "bar0" \in vfio' /\ ~started' /\ call' = <<>>
  BY <1>1, StartKeepsType
<1>3. queues' \in 1..MaxQueues
  BY <1>2 DEF DeviceTypeOK, Configs
<1>4. Active' /\ Passed' = {}
  <2>1. Gone(queues', 1) = {}
    BY <1>3, GoneSteps
  <2> QED BY <1>1, <2>1 DEF Active, Passed
<1>5. InvActive' /\ InvMemory'
  BY <1>2, <1>4 DEF StartFrame, Accounted, InvActive, InvMemory
<1>6. InvCleaning'
  <2>1. 1 \in 1..(Len(CleanupOrders[queues']) + 1)
    BY <1>3, GoneSteps
  <2> QED BY <1>1, <1>2, <1>4, <2>1 DEF InvCleaning
<1>7. InvClosed' /\ InvOpening' /\ InvStarted' /\ InvStarting'
  BY <1>1, <1>4 DEF InvClosed, InvOpening, InvStarted, InvStarting
<1> QED BY <1>2, <1>5, <1>6, <1>7 DEF DeviceInv

\* The create commands keep the invariant.
LEMMA CreateObjectInv ==
  ASSUME DeviceInv, NEW r \in {0, -1}, NEW done \in BOOLEAN, CreateObject(r, done)
  PROVE  DeviceInv'
<1> DEFINE res == Step.res
           o == res.obj
           W == Wanted[config]
<1>1. /\ pc = "starting" /\ step <= Len(StartOrder[config]) /\ Step.do = "create"
      /\ UNCHANGED <<goal, queues, ctxvars, devvars, call>>
      /\ config' = config
  BY DEF CreateObject, StartStep, devvars
<1>2. /\ res.checks \subseteq known
      /\ fw' = IF done THEN fw \union {o} ELSE fw
      /\ \/ r = 0 /\ known' = known \union {o}
         \/ (r # 0 \/ (res.zero_absent /\ ~done)) /\ known' = known
      /\ dma' = IF r = 0 THEN dma \union ({o} \X res.regions) ELSE dma
      /\ failed' = IF r # 0 /\ done THEN failed \union {o} ELSE failed
      /\ misled' = IF r = 0 /\ ~done THEN misled \union {o} ELSE misled
      /\ StartGoesOn(r)
      /\ UNCHANGED <<fw_page_count, ready>>
  BY DEF CreateObject
<1>3. /\ config \in Configs /\ res \in W /\ Accounted
      /\ o \in Names(W) /\ o \in Objects
  BY <1>1, StepFacts, WantedObjects DEF Names
<1>4. /\ res.zero_absent => res.regions = {}
      /\ o \in {Fg.obj, Fte.obj} => res.regions = {} /\ Ft.obj \in res.checks
      /\ {o} \X res.regions \subseteq AllRegions
      /\ o \in BringUp => res.regions = {}
  BY <1>3, WantedNames
<1>5. \A rr \in W : rr.obj = o => rr = res
  BY <1>3, WantedNamed
<1>6. DeviceTypeOK /\ failed = {}
  BY <1>1 DEF DeviceInv, InvStarting
<1>7. faults' \in Nat
  BY <1>6 DEF CreateObject, Exec, Fault, DeviceTypeOK
<1> HIDE DEF res, o, W
<1>8. Accounted'
  <2>1. fw' \union known' \subseteq Names(W)
    BY <1>2, <1>3 DEF Accounted, W
  <2>2. fw' \subseteq known' \union failed' \union misled' \union BringUp
    BY <1>2, <1>3 DEF Accounted
  <2>3. {Fg.obj, Fte.obj} \intersect known' # {} => Ft.obj \in known'
    BY <1>2, <1>3, <1>4 DEF Accounted
  <2>4. ASSUME NEW rr \in W, rr.obj \in fw'
        PROVE  {rr.obj} \X rr.regions \subseteq dma'
                 \/ rr.obj \in failed' \union misled'
    <3>1. CASE rr.obj = o
      BY <1>2, <1>3, <1>5, <2>4, <3>1 DEF Accounted, W
    <3>2. CASE rr.obj # o
      BY <1>2, <1>3, <2>4, <3>2 DEF Accounted, W
    <3> QED BY <3>1, <3>2
  <2>5. ASSUME NEW d \in dma' \ CtxRegions
        PROVE  d[1] \in Names(W) \ (BringUp \union {Fg.obj, Fte.obj})
    <3>1. CASE d \in dma
      BY <1>3, <2>5, <3>1 DEF Accounted, W
    <3>2. CASE d \in {o} \X res.regions
      BY <1>3, <1>4, <3>2
    <3> QED BY <1>2, <3>1, <3>2
  <2> QED BY <1>1, <2>1, <2>2, <2>3, <2>4, <2>5 DEF Accounted, W
<1>9. StartFrame
  BY <1>1, <1>2, <1>3, <1>4, <1>6, <1>7, <1>8 DEF StartFrame, DeviceTypeOK
<1>10. CASE r = 0
  <2>1. StartContinues /\ failed' = {}
    BY <1>2, <1>6, <1>10 DEF StartGoesOn
  <2>2. PICK x : x = Step
    OBVIOUS
  <2>3. Taken(x)'
    BY <1>1, <1>2, <1>10, <2>2 DEF Taken, res, o
  <2> QED BY <1>1, <1>2, <1>9, <2>1, <2>2, <2>3, StartContinuesInv
<1>11. CASE r # 0
  BY <1>1, <1>2, <1>9, <1>11, StartFailsInv DEF StartGoesOn
<1> QED BY <1>10, <1>11

\* A step of the start that adds at most an object without memory.
LEMMA AccountedGrows ==
  ASSUME Accounted, config \in Configs, config' = config, known' = known, dma' = dma,
         failed' = failed, misled \subseteq misled', NEW res \in Wanted[config],
         fw' \subseteq fw \union {res.obj}, res.regions = {},
         res.obj \in misled' \union BringUp
  PROVE  Accounted'
<1>1. res.obj \in Names(Wanted[config])
  BY DEF Names
<1>2. ASSUME NEW r \in Wanted[config], r.obj \in fw'
      PROVE  {r.obj} \X r.regions \subseteq dma \/ r.obj \in failed \union misled'
  <2>1. CASE r.obj = res.obj
    BY <2>1, WantedNamed
  <2>2. CASE r.obj \in fw
    BY <2>2 DEF Accounted
  <2> QED BY <1>2, <2>1, <2>2
<1> QED BY <1>1, <1>2 DEF Accounted

\* Nothing is left unaccounted for by a step that creates nothing.
LEMMA AccountedSame ==
  ASSUME Accounted, config' = config, known' = known, dma' = dma, failed' = failed,
         misled \subseteq misled', fw' = fw
  PROVE  Accounted'
BY DEF Accounted

\* The steps that give pages belong to the bring-up.
LEMMA GiveFields ==
  ASSUME NEW c \in Configs, NEW x \in Range(StartOrder[c]), x.do = "give"
  PROVE  x.res \in Wanted[c] /\ x.res.regions = {} /\ x.res.obj \in BringUp
<1>1. x.res \in Wanted[c] /\ x.res \in Commands
  BY OtherStepCases
<1> QED BY <1>1, BringUpFields, BringUpNames DEF Commands, Is

\* A create command whose object has number zero keeps the invariant.
LEMMA CreateNumberedZeroInv ==
  ASSUME DeviceInv, CreateNumberedZero
  PROVE  DeviceInv'
<1> DEFINE res == Step.res
<1>1. /\ pc = "starting" /\ step <= Len(StartOrder[config]) /\ Step.do = "create"
      /\ UNCHANGED <<goal, queues, ctxvars, devvars, call>>
      /\ config' = config
  BY DEF CreateNumberedZero, StartStep, devvars
<1>2. /\ res.zero_absent
      /\ fw' = fw \union {res.obj} /\ misled' = misled \union {res.obj}
      /\ StartContinues
      /\ UNCHANGED <<known, dma, fw_page_count, ready, failed>>
  BY DEF CreateNumberedZero, memory
<1>3. /\ config \in Configs /\ res \in Wanted[config] /\ Accounted
      /\ res.obj \in Objects
  BY <1>1, StepFacts, WantedObjects DEF Names
<1>4. res.regions = {}
  BY <1>2, <1>3, WantedNames
<1>5. DeviceTypeOK /\ failed = {}
  BY <1>1 DEF DeviceInv, InvStarting
<1>6. faults' \in Nat
  BY <1>5 DEF CreateNumberedZero, Fault, DeviceTypeOK
<1>7. PICK x : x = Step
  OBVIOUS
<1>8. Taken(x)'
  BY <1>1, <1>2, <1>4, <1>7 DEF Taken
<1> HIDE DEF res
<1>9. Accounted'
  BY <1>1, <1>2, <1>3, <1>4, AccountedGrows
<1>10. StartFrame
  BY <1>1, <1>2, <1>3, <1>5, <1>6, <1>9 DEF StartFrame, DeviceTypeOK
<1> QED BY <1>1, <1>2, <1>5, <1>7, <1>8, <1>10, StartContinuesInv

\* A create step that fails before its command keeps the invariant.
LEMMA CreateGivesUpInv ==
  ASSUME DeviceInv, CreateGivesUp
  PROVE  DeviceInv'
<1>1. /\ pc = "starting" /\ step <= Len(StartOrder[config])
      /\ UNCHANGED <<goal, queues, ctxvars, devvars, call>>
      /\ config' = config /\ StartFails
      /\ UNCHANGED <<known, dma, fw_page_count, fw, ready, failed, misled>>
  BY DEF CreateGivesUp, StartStep, devvars, memory, fwvars
<1>2. DeviceTypeOK
  BY DEF DeviceInv
<1>3. faults' \in Nat
  BY <1>2 DEF CreateGivesUp, Fault, DeviceTypeOK
<1>4. Accounted'
  BY <1>1, StepFacts, AccountedSame
<1>5. StartFrame
  BY <1>1, <1>2, <1>3, <1>4 DEF StartFrame, DeviceTypeOK
<1> QED BY <1>1, <1>5, StartFailsInv

\* The query commands keep the invariant.
LEMMA QueryFirmwareInv ==
  ASSUME DeviceInv, NEW r \in {0, -1}, QueryFirmware(r)
  PROVE  DeviceInv'
<1>1. /\ pc = "starting" /\ step <= Len(StartOrder[config]) /\ Step.do = "query"
      /\ UNCHANGED <<goal, queues, ctxvars, devvars, call>>
      /\ config' = config /\ StartGoesOn(r)
      /\ UNCHANGED <<known, dma, fw_page_count, fw, ready, failed, misled>>
  BY DEF QueryFirmware, StartStep, devvars, memory, fwvars
<1>2. DeviceTypeOK /\ failed = {}
  BY <1>1 DEF DeviceInv, InvStarting
<1>3. faults' \in Nat
  <2>1. UNCHANGED faults \/ Fault
    BY Zenon DEF QueryFirmware, Exec
  <2> QED BY <1>2, <2>1 DEF Fault, DeviceTypeOK
<1>4. Accounted'
  BY <1>1, StepFacts, AccountedSame
<1>5. StartFrame
  BY <1>1, <1>2, <1>3, <1>4 DEF StartFrame, DeviceTypeOK
<1>6. PICK x : x = Step
  OBVIOUS
<1>7. Taken(x)'
  BY <1>1, <1>6 DEF Taken
<1>8. CASE r = 0
  BY <1>1, <1>2, <1>5, <1>6, <1>7, <1>8, StartContinuesInv DEF StartGoesOn
<1>9. CASE r # 0
  BY <1>1, <1>5, <1>9, StartFailsInv DEF StartGoesOn
<1> QED BY <1>8, <1>9

\* Giving pages to the firmware keeps the invariant.
LEMMA GiveFwPagesInv ==
  ASSUME DeviceInv, NEW n \in Nat, NEW r \in {0, -1}, NEW done \in BOOLEAN,
         GiveFwPages(n, r, done)
  PROVE  DeviceInv'
<1> DEFINE res == Step.res
<1>1. /\ pc = "starting" /\ step <= Len(StartOrder[config]) /\ Step.do = "give"
      /\ UNCHANGED <<goal, queues, ctxvars, devvars, call>>
      /\ config' = config
  BY DEF GiveFwPages, StartStep, devvars
<1>2. /\ fw' = IF done THEN fw \union {res.obj} ELSE fw
      /\ fw_page_count' = fw_page_count + n
      /\ misled' = IF r = 0 /\ ~done THEN misled \union {res.obj} ELSE misled
      /\ StartGoesOn(r)
      /\ UNCHANGED <<known, dma, ready, failed>>
  BY DEF GiveFwPages
<1>3. /\ config \in Configs /\ res \in Wanted[config] /\ Accounted
      /\ res.obj \in Objects /\ res.regions = {} /\ res.obj \in BringUp
  BY <1>1, StepFacts, WantedObjects, GiveFields DEF Names
<1>4. DeviceTypeOK /\ failed = {}
  BY <1>1 DEF DeviceInv, InvStarting
<1>5. faults' \in Nat
  BY <1>4 DEF GiveFwPages, Exec, Fault, DeviceTypeOK
<1>6. fw_page_count' \in 0..MLX5_MAX_FW_PAGES
  BY <1>2, <1>4 DEF GiveFwPages, PagesFit, DeviceTypeOK, MLX5_MAX_FW_PAGES
<1>7. PICK x : x = Step
  OBVIOUS
<1>8. Taken(x)'
  BY <1>1, <1>7 DEF Taken
<1> HIDE DEF res
<1>9. Accounted'
  BY <1>1, <1>2, <1>3, AccountedGrows
<1>10. StartFrame
  BY <1>1, <1>2, <1>3, <1>4, <1>5, <1>6, <1>9 DEF StartFrame, DeviceTypeOK
<1>11. CASE r = 0
  BY <1>1, <1>2, <1>4, <1>7, <1>8, <1>10, <1>11, StartContinuesInv DEF StartGoesOn
<1>12. CASE r # 0
  BY <1>1, <1>2, <1>10, <1>12, StartFailsInv DEF StartGoesOn
<1> QED BY <1>11, <1>12

\* So does a firmware that wants no pages.
LEMMA NoFwPagesWantedInv ==
  ASSUME DeviceInv, NoFwPagesWanted
  PROVE  DeviceInv'
<1> DEFINE res == Step.res
<1>1. /\ pc = "starting" /\ step <= Len(StartOrder[config]) /\ Step.do = "give"
      /\ UNCHANGED <<goal, queues, ctxvars, devvars, call>>
      /\ config' = config
  BY DEF NoFwPagesWanted, StartStep, devvars
<1>2. /\ fw' = fw \/ fw' = fw \union {res.obj}
      /\ StartContinues
      /\ UNCHANGED <<known, dma, fw_page_count, ready, failed, misled>>
  BY DEF NoFwPagesWanted, memory
<1>3. /\ config \in Configs /\ res \in Wanted[config] /\ Accounted
      /\ res.obj \in Objects /\ res.regions = {} /\ res.obj \in BringUp
  BY <1>1, StepFacts, WantedObjects, GiveFields DEF Names
<1>4. DeviceTypeOK /\ failed = {}
  BY <1>1 DEF DeviceInv, InvStarting
<1>5. faults' \in Nat
  BY <1>4 DEF NoFwPagesWanted, Fault, DeviceTypeOK
<1>6. PICK x : x = Step
  OBVIOUS
<1>7. Taken(x)'
  BY <1>1, <1>6 DEF Taken
<1> HIDE DEF res
<1>8. Accounted'
  BY <1>1, <1>2, <1>3, AccountedGrows
<1>9. StartFrame
  BY <1>1, <1>2, <1>3, <1>4, <1>5, <1>8 DEF StartFrame, DeviceTypeOK
<1> QED BY <1>1, <1>2, <1>4, <1>6, <1>7, <1>9, StartContinuesInv

\* So does giving up because the table of pages is full or memory is short.
LEMMA GiveFwPagesGivesUpInv ==
  ASSUME DeviceInv, NEW n \in Nat, GiveFwPagesGivesUp(n)
  PROVE  DeviceInv'
<1>1. /\ pc = "starting" /\ step <= Len(StartOrder[config])
      /\ UNCHANGED <<goal, queues, ctxvars, devvars, call>>
      /\ config' = config /\ StartFails
      /\ UNCHANGED <<known, dma, fw, ready, failed, misled>>
  BY DEF GiveFwPagesGivesUp, StartStep, devvars, memory, fwvars
<1>2. DeviceTypeOK
  BY DEF DeviceInv
<1>3. faults' \in Nat
  BY <1>2 DEF GiveFwPagesGivesUp, Fault, DeviceTypeOK
<1>4. fw_page_count' \in 0..MLX5_MAX_FW_PAGES
  <2>1. /\ fw_page_count \in Nat /\ n > 0 /\ MLX5_MAX_FW_PAGES \in Nat
        /\ fw_page_count <= MLX5_MAX_FW_PAGES
    BY <1>2 DEF GiveFwPagesGivesUp, DeviceTypeOK, MLX5_MAX_FW_PAGES
  <2>2. CASE fw_page_count' = fw_page_count
    BY <2>1, <2>2
  <2>3. CASE fw_page_count + n <= MLX5_MAX_FW_PAGES
               /\ fw_page_count' = fw_page_count + n - 1
    BY <2>1, <2>3
  <2> QED BY <2>2, <2>3 DEF GiveFwPagesGivesUp, PagesFit
<1>5. Accounted'
  BY <1>1, StepFacts, AccountedSame
<1>6. StartFrame
  BY <1>1, <1>2, <1>3, <1>4, <1>5 DEF StartFrame, DeviceTypeOK
<1> QED BY <1>1, <1>6, StartFailsInv

\* Making a queue ready keeps the invariant.
LEMMA ModifyReadyInv ==
  ASSUME DeviceInv, NEW r \in {0, -1}, NEW done \in BOOLEAN, ModifyReady(r, done)
  PROVE  DeviceInv'
<1> DEFINE o == Step.res.obj
<1>1. /\ pc = "starting" /\ step <= Len(StartOrder[config]) /\ Step.do = "modify"
      /\ UNCHANGED <<goal, queues, ctxvars, devvars, call>>
      /\ config' = config
  BY DEF ModifyReady, StartStep, devvars
<1>2. /\ o \in known
      /\ done => o \in fw
      /\ ready' = IF done THEN ready \union {o} ELSE ready
      /\ misled' = IF r = 0 /\ ~done THEN misled \union {o} ELSE misled
      /\ StartGoesOn(r)
      /\ UNCHANGED <<known, dma, fw_page_count, fw, failed>>
  BY DEF ModifyReady, Exec, memory
<1>3. DeviceTypeOK /\ failed = {}
  BY <1>1 DEF DeviceInv, InvStarting
<1>4. faults' \in Nat
  BY <1>3 DEF ModifyReady, Exec, Fault, DeviceTypeOK
<1>5. Accounted'
  BY <1>1, <1>2, StepFacts, AccountedSame
<1>6. StartFrame
  BY <1>1, <1>2, <1>3, <1>4, <1>5 DEF StartFrame, DeviceTypeOK
<1>7. CASE r = 0
  <2>1. PICK x : x = Step
    OBVIOUS
  <2>2. Taken(x)'
    BY <1>1, <1>2, <1>7, <2>1 DEF Taken
  <2> QED BY <1>1, <1>2, <1>3, <1>6, <1>7, <2>1, <2>2, StartContinuesInv DEF StartGoesOn
<1>8. CASE r # 0
  BY <1>1, <1>2, <1>6, <1>8, StartFailsInv DEF StartGoesOn
<1> QED BY <1>7, <1>8

\* Filling a receive queue keeps the invariant.
LEMMA PostBuffersInv ==
  ASSUME DeviceInv, NEW r \in {0, -1}, PostBuffers(r)
  PROVE  DeviceInv'
<1> DEFINE o == Step.res.obj
<1>1. /\ pc = "starting" /\ step <= Len(StartOrder[config]) /\ Step.do = "post"
      /\ UNCHANGED <<goal, queues, ctxvars, devvars, call>>
      /\ config' = config
  BY DEF PostBuffers, StartStep, devvars
<1>2. /\ o \in known
      /\ \/ dma' = dma \union {<<o, "rx_pages">>}
         \/ r # 0 /\ dma' = dma
      /\ StartGoesOn(r)
      /\ UNCHANGED <<known, fw_page_count, fw, ready, failed, misled>>
  BY DEF PostBuffers, fwvars
<1>3. DeviceTypeOK /\ failed = {} /\ Accounted /\ config \in Configs
  BY <1>1, StepFacts DEF DeviceInv, InvStarting
<1>4. faults' \in Nat
  <2>1. UNCHANGED faults \/ Fault
    BY Zenon DEF PostBuffers, Exec
  <2> QED BY <1>3, <2>1 DEF Fault, DeviceTypeOK
<1>5. PICK q \in 0..(config.nq - 1) : Step.res = Rq(q)
  BY <1>1, StepFacts, OtherStepCases
<1>6. o = <<"rq", q>> /\ q \in 0..(MaxQueues - 1)
  BY <1>3, <1>5, QueueFields, DeviceAssumption DEF Is, Configs
<1>7. dma' \subseteq AllRegions
  BY <1>2, <1>3, <1>6, QueueRegions DEF DeviceTypeOK
<1>8. o \notin BringUp \union {Fg.obj, Fte.obj}
  BY <1>6, BringUpNames, DeviceFields DEF Is
<1>9. o \in Names(Wanted[config])
  BY <1>2, <1>3 DEF Accounted
<1>10. PICK x : x = Step
  OBVIOUS
<1>11. r = 0 => Taken(x)'
  BY <1>1, <1>2, <1>10 DEF Taken
<1> HIDE DEF o
<1>12. Accounted'
  <2>1. dma \subseteq dma'
    BY <1>2
  <2>2. \A d \in dma' \ CtxRegions :
          d[1] \in Names(Wanted[config]) \ (BringUp \union {Fg.obj, Fte.obj})
    BY <1>2, <1>3, <1>8, <1>9 DEF Accounted
  <2> QED BY <1>1, <1>2, <1>3, <2>1, <2>2 DEF Accounted
<1>13. StartFrame
  BY <1>1, <1>2, <1>3, <1>4, <1>7, <1>12 DEF StartFrame, DeviceTypeOK
<1>14. CASE r = 0
  BY <1>1, <1>2, <1>3, <1>10, <1>11, <1>13, <1>14, StartContinuesInv DEF StartGoesOn
<1>15. CASE r # 0
  BY <1>1, <1>2, <1>13, <1>15, StartFailsInv DEF StartGoesOn
<1> QED BY <1>14, <1>15

-------------------------------------------------------------------------------
(***************************************************************************)
(* The calls of a device at rest, and the opening of the context, keep the *)
(* invariant.                                                              *)
(***************************************************************************)
\* The calls of a device at rest: what they may change.
AllowedIn(c) ==
  /\ c \in {"tx", "rx"} \X (0..(queues - 1))
  /\ IF c[1] = "tx" THEN config.tx ELSE config.rx

\* While the device is idle, steps that only configure it or use its queues
\* keep the invariant.
LEMMA IdleInv ==
  ASSUME DeviceInv, pc = "idle",
         UNCHANGED <<pc, goal, step, rc, ctxvars, started, rtvars, fwvars, history>>,
         config' \in Configs, last_error' \in Errors,
         ~started => call' = <<>> /\ outstanding' = outstanding,
         started => /\ config' = config
                    /\ call' = <<>> \/ AllowedIn(call')
                    /\ outstanding' # {} => config.rx
                    /\ outstanding' \subseteq 0..(queues - 1)
  PROVE  DeviceInv'
<1>1. /\ UNCHANGED <<pc, goal, step, rc, vfio, cmdq_reg, cmdq_saved, started, queues,
           known, dma>>
      /\ UNCHANGED <<fw_page_count, fw, ready, failed, misled, faults>>
  BY DEF ctxvars, rtvars, memory, fwvars, history
<1>2. DeviceTypeOK /\ InvClosed /\ InvStarted /\ InvActive /\ InvMemory
  BY DEF DeviceInv
<1>3. outstanding' \subseteq Queues
  <2>1. queues \in 0..MaxQueues /\ outstanding \subseteq Queues
    BY <1>2 DEF DeviceTypeOK
  <2>2. 0..(queues - 1) \subseteq Queues
    BY <2>1, DeviceAssumption DEF Queues
  <2> QED BY <2>1, <2>2
<1>4. DeviceTypeOK'
  BY <1>1, <1>2, <1>3 DEF DeviceTypeOK
<1>5. Active' <=> Active
  BY <1>1 DEF Active
<1>6. CASE ~started
  <2>1. ~Active
    BY <1>6 DEF Active
  <2>2. InvClosed'
    BY <1>1, <1>2, <1>5, <1>6, <2>1 DEF InvClosed
  <2> QED BY <1>1, <1>4, <1>5, <1>6, <2>1, <2>2
          DEF DeviceInv, InvOpening, InvStarting, InvStarted, InvActive, InvMemory,
                InvCleaning
<1>7. CASE started
  <2>1. Active /\ Passed = {} /\ Passed' = {} /\ config' = config
    BY <1>1, <1>7 DEF Active, Passed
  <2>2. InvActive'
    BY <1>1, <1>2, <1>5, <2>1 DEF InvActive
  <2>3. InvMemory'
    BY <1>1, <1>2, <1>5, <2>1 DEF InvMemory
  <2>4. \A x \in Range(StartOrder[config']) : Taken(x)'
    BY <1>1, <1>2, <1>7, <2>1 DEF InvStarted, Taken
  <2>5. InvStarted'
    BY <1>1, <1>2, <1>7, <2>1, <2>4 DEF InvStarted, AllowedIn
  <2> QED BY <1>1, <1>4, <1>5, <1>7, <2>1, <2>2, <2>3, <2>5
          DEF DeviceInv, InvClosed, InvOpening, InvStarting, InvCleaning
<1> QED BY <1>6, <1>7

\* Configuring the device keeps the invariant.
LEMMA DevConfigureInv ==
  ASSUME DeviceInv, NEW c \in [tx : BOOLEAN, rx : BOOLEAN, nq : 0..(MaxQueues + 1)],
         NEW fit \in BOOLEAN, DevConfigure(c, fit)
  PROVE  DeviceInv'
<1>1. /\ pc = "idle" /\ call' = <<>> /\ outstanding' = outstanding
      /\ UNCHANGED <<pc, goal, step, rc, ctxvars, started, rtvars, fwvars, history>>
      /\ last_error' \in Errors
      /\ started => config' = config
  BY DEF DevConfigure, Errors
<1>2. config \in Configs /\ InvStarted
  BY DEF DeviceInv, DeviceTypeOK
<1>3. CASE c.nq <= MaxQueues /\ config' = [c EXCEPT !.nq = IF @ = 0 THEN 1 ELSE @]
  <2>1. (IF c.nq = 0 THEN 1 ELSE c.nq) \in 1..MaxQueues
    BY <1>3, DeviceAssumption
  <2> QED BY <1>1, <1>2, <1>3, <2>1, IdleInv DEF Configs, InvStarted
<1>4. CASE config' = config
  BY <1>1, <1>2, <1>4, IdleInv DEF InvStarted
<1> QED BY <1>3, <1>4 DEF DevConfigure

\* Starting a started device keeps the invariant.
LEMMA DevStartAgainInv ==
  ASSUME DeviceInv, DevStartAgain
  PROVE  DeviceInv'
BY IdleInv DEF DevStartAgain, DeviceInv, DeviceTypeOK, Errors, InvStarted

\* The calls on the queues keep the invariant.
LEMMA CallsInv ==
  ASSUME DeviceInv, pc = "idle", Calls
  PROVE  DeviceInv'
<1>1. PICK q \in 0..MaxQueues :
        TxBurstQ(q) \/ TxFlushQ(q) \/ RxBurstQ(q)
          \/ (\E some \in BOOLEAN : RxReleaseQ(q, some))
  BY DEF Calls
<1>2. /\ UNCHANGED <<pc, goal, step, rc, ctxvars, config, started, rtvars, fwvars,
           history>>
      /\ config' = config
  BY <1>1 DEF TxBurstQ, TxFlushQ, RxBurstQ, RxReleaseQ, DataCall
<1>3. /\ DeviceTypeOK /\ InvStarted /\ config \in Configs
      /\ queues \in 0..MaxQueues /\ last_error \in Errors /\ q \in Nat
  BY DEF DeviceInv, DeviceTypeOK
<1>4. last_error' \in Errors
  BY <1>1, <1>3 DEF TxBurstQ, TxFlushQ, RxBurstQ, RxReleaseQ, LetIn, Refuse, Errors
<1>5. ~started => call' = <<>> /\ outstanding' = outstanding
  BY <1>1 DEF TxBurstQ, TxFlushQ, RxBurstQ, RxReleaseQ, Enabled, Refuse
<1>6. ASSUME started
      PROVE  \/ call' = <<>>
             \/ q < queues /\ call' = <<"tx", q>> /\ config.tx
             \/ q < queues /\ call' = <<"rx", q>> /\ config.rx
  BY <1>1, <1>6 DEF TxBurstQ, TxFlushQ, RxBurstQ, RxReleaseQ, Enabled, LetIn, Refuse
<1>7. ASSUME started
      PROVE  call' = <<>> \/ AllowedIn(call')
  <2>1. q < queues => q \in 0..(queues - 1)
    BY <1>3
  <2> QED BY <1>6, <1>7, <2>1 DEF AllowedIn
<1>8. ASSUME started
      PROVE  /\ outstanding' # {} => config.rx
             /\ outstanding' \subseteq 0..(queues - 1)
  <2>1. \/ outstanding' \subseteq outstanding
        \/ q < queues /\ config.rx /\ outstanding' = outstanding \union {q}
    BY <1>1 DEF TxBurstQ, TxFlushQ, RxBurstQ, RxReleaseQ, Enabled
  <2>2. /\ outstanding # {} => config.rx
        /\ outstanding \subseteq 0..(queues - 1)
    BY <1>3, <1>8 DEF InvStarted
  <2>3. q < queues => q \in 0..(queues - 1)
    BY <1>3
  <2> QED BY <2>1, <2>2, <2>3
<1> QED BY <1>2, <1>3, <1>4, <1>5, <1>7, <1>8, IdleInv

\* The invariant holds at first.
LEMMA InitInv ==
  ASSUME Init
  PROVE  DeviceInv
<1>1. config \in Configs
  BY DeviceAssumption DEF Init, DefaultConfig, Configs
<1>2. 0 \in 0..MaxQueues /\ 0 \in 0..MLX5_MAX_FW_PAGES /\ 0 \in Nat
  BY DeviceAssumption DEF MLX5_MAX_FW_PAGES
<1>3. DeviceTypeOK
  BY <1>1, <1>2 DEF Init, DeviceTypeOK, Errors
<1>4. ~Active
  BY DEF Init, Active
<1> QED BY <1>4, <1>3 DEF Init, DeviceInv, InvClosed, InvOpening, InvStarting,
             InvStarted,
             InvActive, InvMemory, InvCleaning

\* Opening the device keeps the invariant.
LEMMA DevOpenInv ==
  ASSUME DeviceInv, DevOpen
  PROVE  DeviceInv'
<1>1. config' \in Configs
  BY DeviceAssumption DEF DevOpen, DefaultConfig, Configs
<1>2. DeviceTypeOK /\ InvClosed /\ ~Active /\ ~Active'
  BY DEF DeviceInv, DevOpen, Active
<1>3. DeviceTypeOK'
  BY <1>1, <1>2 DEF DevOpen, DeviceTypeOK, Errors, ctxvars, rtvars, memory, fwvars,
       history
<1>4. InvClosed'
  BY <1>2 DEF DevOpen, InvClosed, ctxvars, rtvars, memory, fwvars, history
<1> QED BY <1>2, <1>3, <1>4 DEF DevOpen, DeviceInv, InvOpening, InvStarting, InvStarted,
             InvActive, InvMemory, InvCleaning

\* Closing a stopped device keeps the invariant.
LEMMA DevCloseStoppedInv ==
  ASSUME DeviceInv, DevCloseStopped
  PROVE  DeviceInv'
<1>1. DeviceTypeOK /\ InvClosed /\ ~Active /\ ~Active'
  BY DEF DeviceInv, DevCloseStopped, Active
<1>2. DeviceTypeOK'
  BY <1>1 DEF DevCloseStopped, DeviceTypeOK, devvars, ctxvars, rtvars, memory, fwvars,
       history
<1>3. InvClosed'
  BY <1>1 DEF DevCloseStopped, InvClosed, devvars, ctxvars, rtvars, memory, fwvars,
       history
<1> QED BY <1>1, <1>2, <1>3 DEF DevCloseStopped, DeviceInv, InvOpening, InvStarting,
             InvStarted, InvActive, InvMemory, InvCleaning

\* The order in which the context is opened.
LEMMA OpenSteps ==
  /\ Len(VfioOrder) = 6 /\ Len(OpenOrder) = 9
  /\ \A i \in 1..6 : OpenOrder[i] \in Range(VfioOrder)
  /\ OpenOrder[6] = "bar0"
  /\ \A i \in 7..9 : <<<<"ctx", 0>>, OpenOrder[i]>> \in CtxRegions
<1>1. Range(VfioOrder) = {"container", "group", "attached", "iommu", "device", "bar0"}
  BY DEF VfioOrder, Range
<1>2. /\ OpenOrder[1] = "container" /\ OpenOrder[2] = "group"
           /\ OpenOrder[3] = "attached"
      /\ OpenOrder[4] = "iommu" /\ OpenOrder[5] = "device" /\ OpenOrder[6] = "bar0"
      /\ OpenOrder[7] = "cmdq" /\ OpenOrder[8] = "inbox" /\ OpenOrder[9] = "outbox"
      /\ Len(VfioOrder) = 6 /\ Len(OpenOrder) = 9
  BY DEF OpenOrder, VfioOrder, CtxOrder
<1>3. ASSUME NEW i \in 1..6 PROVE OpenOrder[i] \in Range(VfioOrder)
  <2>1. i = 1 \/ i = 2 \/ i = 3 \/ i = 4 \/ i = 5 \/ i = 6
    OBVIOUS
  <2> QED BY <1>1, <1>2, <2>1
<1>4. ASSUME NEW i \in 7..9 PROVE OpenOrder[i] \in {"cmdq", "inbox", "outbox"}
  <2>1. i = 7 \/ i = 8 \/ i = 9
    OBVIOUS
  <2> QED BY <1>2, <2>1
<1> QED BY <1>2, <1>3, <1>4, OtherRegions

\* Entering a start keeps the invariant.
LEMMA DevStartInv ==
  ASSUME DeviceInv, DevStart
  PROVE  DeviceInv'
<1>1. DeviceTypeOK /\ InvClosed /\ ~Active /\ ~Active' /\ config \in Configs
  BY DEF DeviceInv, DevStart, Active, DeviceTypeOK
<1>2. config.nq \in 0..MaxQueues
  BY <1>1, DeviceAssumption DEF Configs
<1>3. DeviceTypeOK'
  BY <1>1, <1>2 DEF DevStart, DeviceTypeOK, devvars, memory, fwvars, history
<1>4. InvClosed'
  BY <1>1 DEF DevStart, InvClosed, devvars, memory, fwvars, history
<1>5. InvOpening'
  BY OpenSteps DEF DevStart, InvOpening, devvars
<1> QED BY <1>1, <1>3, <1>4, <1>5 DEF DevStart, DeviceInv, InvStarting, InvStarted,
             InvActive, InvMemory, InvCleaning

\* A step that opens the context keeps the invariant.
LEMMA OpenStepInv ==
  ASSUME DeviceInv, OpenStep
  PROVE  DeviceInv'
<1>1. DeviceTypeOK /\ InvClosed /\ InvOpening /\ ~Active /\ ~Active'
  BY DEF DeviceInv, OpenStep, Active
<1>2. step \in 1..9 /\ step' = step + 1
  BY <1>1, OpenSteps DEF OpenStep, InvOpening
<1>3. /\ vfio \subseteq vfio' /\ vfio' \subseteq Range(VfioOrder)
      /\ dma' \subseteq CtxRegions
      /\ step' > 6 => "bar0" \in vfio'
  <2>1. CASE step <= 6
    <3>1. vfio' = vfio \union {OpenOrder[step]} /\ dma' = dma
      BY <2>1, OpenSteps DEF OpenStep
    <3>2. step \in 1..6 /\ (step' > 6 => step = 6)
      BY <1>2, <2>1
    <3> QED BY <1>1, <3>1, <3>2, OpenSteps DEF DeviceTypeOK, InvClosed, OpenStep
  <2>2. CASE step > 6
    <3>1. vfio' = vfio /\ dma' = dma \union {<<<<"ctx", 0>>, OpenOrder[step]>>}
      BY <1>2, <2>2, OpenSteps DEF OpenStep
    <3>2. step \in 7..9
      BY <1>2, <2>2
    <3> QED BY <1>1, <2>2, <3>1, <3>2, OpenSteps DEF DeviceTypeOK, InvClosed,
                 InvOpening, OpenStep
  <2> QED BY <1>2, <2>1, <2>2
<1>4. DeviceTypeOK'
  <2>1. dma' \subseteq AllRegions
    BY <1>3, OtherRegions
  <2> QED BY <1>1, <1>2, <1>3, <2>1 DEF OpenStep, DeviceTypeOK, devvars, fwvars, history
<1>5. InvClosed'
  BY <1>1, <1>3 DEF OpenStep, InvClosed, devvars, fwvars, history
<1>6. InvOpening'
  BY <1>1, <1>2, <1>3, OpenSteps DEF OpenStep, InvOpening, devvars
<1> QED BY <1>1, <1>4, <1>5, <1>6 DEF OpenStep, DeviceInv, InvStarting, InvStarted,
             InvActive, InvMemory, InvCleaning

\* A context that cannot be opened keeps the invariant.
LEMMA OpenFailsInv ==
  ASSUME DeviceInv, OpenFails
  PROVE  DeviceInv'
<1>1. DeviceTypeOK /\ InvClosed /\ ~Active /\ ~Active'
  BY DEF DeviceInv, OpenFails, Active, InvClosed
<1>2. /\ dma' = {} /\ vfio' = {} /\ fw_page_count' = 0
      /\ cmdq_reg' \in {"orig", "zero"} /\ cmdq_saved' = cmdq_saved
  BY <1>1 DEF OpenFails, CtxClosed, InvClosed, DeviceTypeOK
<1>3. DeviceTypeOK'
  BY <1>1, <1>2 DEF OpenFails, DeviceTypeOK, Errors, fwvars, history, MLX5_MAX_FW_PAGES
<1>4. InvClosed'
  BY <1>1, <1>2 DEF OpenFails, InvClosed, fwvars, history
<1> QED BY <1>1, <1>3, <1>4 DEF OpenFails, DeviceInv, InvOpening, InvStarting,
             InvStarted,
             InvActive, InvMemory, InvCleaning, Active

\* Opening the last part of the context keeps the invariant.
LEMMA OpenDoneInv ==
  ASSUME DeviceInv, OpenDone
  PROVE  DeviceInv'
<1>1. /\ DeviceTypeOK /\ InvClosed /\ InvOpening /\ ~Active /\ Active' /\ Passed' = {}
      /\ config' = config /\ config \in Configs
  BY DEF DeviceInv, OpenDone, Active, DeviceTypeOK, Passed, devvars
<1>2. /\ pc' = "starting" /\ step' = 1 /\ fw' = {} /\ known' = {}
           /\ dma' \subseteq CtxRegions
      /\ failed' = {} /\ misled' = {} /\ queues' = config'.nq /\ "bar0" \in vfio'
      /\ outstanding' = {} /\ call' = <<>> /\ ~started'
  BY <1>1, OpenSteps DEF OpenDone, InvClosed, InvOpening, devvars, rtvars, memory,
       fwvars, history
<1>3. DeviceTypeOK'
  BY <1>1 DEF OpenDone, DeviceTypeOK, InvOpening, devvars, rtvars, memory, fwvars,
       history
<1>4. InvActive' /\ InvMemory'
  BY <1>2 DEF InvActive, InvMemory
<1>5. Before(StartOrder[config'], 1) = {} /\ 1 \in 1..(Len(StartOrder[config']) + 1)
  BY <1>1, StartInOrder DEF Before, InOrder
<1>6. goal' = "start" /\ rc' = 0
  BY <1>1 DEF OpenDone, InvOpening
<1>7. InvStarting'
  BY <1>2, <1>5, <1>6 DEF InvStarting
<1> QED BY <1>1, <1>2, <1>3, <1>4, <1>7 DEF DeviceInv, InvClosed, InvOpening,
             InvStarted,
             InvCleaning

-------------------------------------------------------------------------------
(***************************************************************************)
(* The cleanup keeps the invariant.                                        *)
(***************************************************************************)

\* The end of a start keeps the invariant.
LEMMA StartDoneInv ==
  ASSUME DeviceInv, StartDone
  PROVE  DeviceInv'
<1>1. /\ DeviceTypeOK /\ InvStarting /\ InvActive /\ InvMemory
      /\ Active /\ Active' /\ Passed = {} /\ Passed' = {}
      /\ config' = config /\ config \in Configs
  BY DEF DeviceInv, StartDone, Active, DeviceTypeOK, Passed
<1>2. \A x \in Range(StartOrder[config]) : Taken(x)
  <2>1. Len(StartOrder[config]) \in Nat
          /\ DOMAIN StartOrder[config] = 1..Len(StartOrder[config])
    BY <1>1, StartInOrder
  <2>2. step = Len(StartOrder[config]) + 1
    BY <1>1, <2>1 DEF StartDone, InvStarting
  <2>3. Range(StartOrder[config]) = Before(StartOrder[config], step)
    BY <2>1, <2>2 DEF Range, Before
  <2> QED BY <1>1, <2>3 DEF StartDone, InvStarting
<1>3. /\ UNCHANGED <<rc, vfio, cmdq_reg, cmdq_saved, config, queues, known, dma,
           fw_page_count>>
      /\ UNCHANGED <<fw, ready, failed, misled, faults, call>>
      /\ pc' = "idle" /\ outstanding' = {} /\ call = <<>> /\ failed = {}
  BY <1>1 DEF StartDone, InvStarting, ctxvars, rtvars, memory, fwvars, history
<1>4. DeviceTypeOK'
  BY <1>1, <1>3 DEF StartDone, DeviceTypeOK, Errors
<1>5. InvActive' /\ InvMemory'
  BY <1>1, <1>3 DEF InvActive, InvMemory
<1>6. InvStarted'
  <2>1. \A x : Taken(x) => Taken(x)'
    BY <1>3 DEF Taken
  <2> QED BY <1>2, <1>3, <2>1 DEF InvStarted
<1> QED BY <1>1, <1>3, <1>4, <1>5, <1>6 DEF DeviceInv, InvClosed, InvOpening,
             InvStarting,
             InvCleaning

\* Entering a cleanup from a started device keeps the invariant.
LEMMA DevStopInv ==
  ASSUME DeviceInv, NEW why \in {"stop", "close"}, DevStop(why)
  PROVE  DeviceInv'
<1>1. /\ DeviceTypeOK /\ InvStarted /\ InvActive /\ InvMemory
      /\ Active /\ Active' /\ Passed = {}
      /\ queues \in 1..MaxQueues
  BY DEF DeviceInv, DevStop, Active, DeviceTypeOK, Passed, InvActive, Configs
<1>2. /\ UNCHANGED <<vfio, cmdq_reg, cmdq_saved, config, queues, known, dma,
           fw_page_count>>
      /\ UNCHANGED <<fw, ready, failed, misled, faults, started, last_error,
           outstanding>>
      /\ pc' = "cleaning" /\ step' = 1 /\ rc' = 0 /\ call' = <<>> /\ failed = {}
  BY <1>1 DEF DevStop, InvStarted, ctxvars, devvars, rtvars, memory, fwvars, history
<1>3. /\ Passed' = {}
      /\ step' \in 1..(Len(CleanupOrders[queues']) + 1)
  BY <1>1, <1>2, GoneSteps DEF Passed
<1>4. DeviceTypeOK'
  BY <1>1, <1>2 DEF DevStop, DeviceTypeOK
<1>5. InvActive' /\ InvMemory'
  BY <1>1, <1>2, <1>3 DEF InvActive, InvMemory
<1>6. InvCleaning'
  BY <1>2, <1>3 DEF InvCleaning
<1> QED BY <1>1, <1>2, <1>4, <1>5, <1>6 DEF DeviceInv, InvClosed, InvOpening,
             InvStarting,
             InvStarted

\* What rests on an object the cleanup has passed, it has passed as well.
LEMMA GoneWithUsers ==
  ASSUME NEW c \in Configs, NEW i \in 1..(Len(CleanupOrders[c.nq]) + 1),
         NEW o \in Gone(c.nq, i), NEW r \in Wanted[c], r.obj \notin BringUp,
           o \in r.needs
  PROVE  r.obj \in Gone(c.nq, i)
<1>1. c.nq \in 1..MaxQueues
  BY DEF Configs
<1>2. Len(CleanupOrders[c.nq]) \in Nat
  BY <1>1, GoneSteps
<1>3. PICK j \in 1..(i - 1) : o = CleanupOrders[c.nq][j].obj
  BY DEF Gone, Names, Before
<1>4. j \in 1..Len(CleanupOrders[c.nq]) /\ 1..(j - 1) \subseteq 1..(i - 1)
  BY <1>2
<1>5. r.obj \in Gone(c.nq, j)
  BY <1>3, <1>4, CleanupUsersFirst
<1> QED BY <1>4, <1>5 DEF Gone, Names, Before

\* What the invariant says of the object a cleanup is about to destroy: nothing
\* it has passed still needs it, and nothing passed is met again.
LEMMA CleanupFacts ==
  ASSUME DeviceInv, pc = "cleaning", step <= Len(CleanupOrders[queues])
  PROVE  /\ Passed = Gone(queues, step)
         /\ Gone(queues, step + 1) = Gone(queues, step) \union {Target.obj}
         /\ step + 1 \in 1..(Len(CleanupOrders[queues]) + 1)
         /\ Target.obj \notin Passed
         /\ Target.obj \notin BringUp
         /\ Target.obj \in {Fg.obj, Fte.obj} => Ft.obj \notin Passed
         /\ \A r \in Wanted[config], o \in Passed :
              r.obj \notin BringUp /\ o \in r.needs => r.obj \in Passed
<1>1. /\ config \in Configs /\ queues = config.nq
           /\ step \in 1..(Len(CleanupOrders[queues]) + 1)
      /\ Passed = Gone(queues, step)
  BY DEF DeviceInv, DeviceTypeOK, InvActive, Active, InvCleaning, Passed
<1>2. queues \in 1..MaxQueues
  BY <1>1 DEF Configs
<1>3. Len(CleanupOrders[queues]) \in Nat
  BY <1>2, GoneSteps
<1>4. step \in 1..Len(CleanupOrders[queues])
        /\ step + 1 \in 1..(Len(CleanupOrders[queues]) + 1)
  BY <1>1, <1>3
<1>5. Gone(queues, step + 1) = Gone(queues, step) \union {Target.obj}
  BY <1>2, <1>4, GoneSteps DEF Target
<1>6. /\ Target.obj \notin Gone(queues, step) /\ Target.obj \notin BringUp
      /\ Target.obj \in {Fg.obj, Fte.obj} => Ft.obj \notin Gone(queues, step)
  BY <1>2, <1>4, CleanupOnce DEF Target
<1>7. \A r \in Wanted[config], o \in Gone(queues, step) :
        r.obj \notin BringUp /\ o \in r.needs => r.obj \in Gone(queues, step)
  BY <1>1, GoneWithUsers
<1> QED BY <1>1, <1>4, <1>5, <1>6, <1>7

\* The part of the invariant that a step of the cleanup past object o keeps,
\* whatever became of o.
LEMMA CleanupStepInv ==
  ASSUME DeviceInv, CleanupStep, NEW o, o = Target.obj,
         rc' \in {0, -1}, rc # 0 => rc' = rc,
         fw' \subseteq fw, fw \ {o} \subseteq fw', ready' \subseteq fw',
         known' \subseteq known, known \ {o} \subseteq known',
         failed \subseteq failed', failed' \subseteq Objects, failed' # failed
           => rc' = -1,
         misled \subseteq misled', misled' \subseteq Objects, faults' \in Nat,
         dma' = {d \in dma : d[1] # o},
         o \in fw' => /\ o \in known' \union failed' \union misled'
                      /\ o \in failed' \union misled'
                           \/ (NeededBy[config][o] \ BringUp) \intersect fw # {}
                      /\ rc' = -1 \/ o \in misled'
  PROVE  DeviceInv'
<1>1. /\ DeviceTypeOK /\ InvActive /\ InvMemory /\ InvCleaning /\ Active /\ Active'
      /\ pc = "cleaning" /\ pc' = "cleaning" /\ step <= Len(CleanupOrders[queues])
      /\ step' = step + 1
      /\ UNCHANGED <<goal, config, started, last_error, outstanding, queues,
           fw_page_count, call,
                     vfio, cmdq_reg, cmdq_saved>>
  BY DEF DeviceInv, CleanupStep, Active, ctxvars, devvars
<1>2. /\ Passed' = Passed \union {o} /\ o \notin Passed /\ o \notin BringUp
      /\ step' \in 1..(Len(CleanupOrders[queues']) + 1)
  BY <1>1, CleanupFacts DEF Passed
<1>3. DeviceTypeOK'
  BY <1>1, <1>2 DEF DeviceTypeOK
<1>4. InvActive'
  BY <1>1, <1>2 DEF InvActive
<1>5. InvMemory'
  <2>1. ASSUME NEW r \in Wanted[config], r.obj \in fw' \ Passed'
        PROVE  {r.obj} \X r.regions \subseteq dma' \/ r.obj \in failed' \union misled'
    <3>1. r.obj \in fw \ Passed /\ r.obj # o
      BY <1>2, <2>1
    <3>2. {r.obj} \X r.regions \subseteq dma \/ r.obj \in failed \union misled
      BY <1>1, <3>1 DEF InvMemory
    <3> QED BY <3>1, <3>2
  <2>2. ASSUME NEW d \in dma' \ CtxRegions
        PROVE  d[1] \in Names(Wanted[config]) \ (BringUp \union Passed'
                 \union {Fg.obj, Fte.obj})
    BY <1>1, <1>2, <2>2 DEF InvMemory
  <2> QED BY <1>1, <2>1, <2>2 DEF InvMemory
<1>6. InvCleaning'
  <2>1. ASSUME NEW p \in Passed' \intersect fw'
        PROVE  Excused(p)' /\ (rc' = -1 \/ p \in misled')
    <3>1. p \in Objects /\ p \in fw
      BY <1>1 DEF DeviceTypeOK
    <3>2. CASE p = o
      <4>1. (NeededBy[config][o] \ BringUp) \intersect fw # {} /\ o \in fw'
              => (NeededBy[config][o] \ BringUp) \intersect fw' # {}
        BY <3>2
      <4> QED BY <1>1, <2>1, <3>2, <4>1 DEF Excused
    <3>3. CASE p \in Passed
      <4>1. Excused(p) /\ (rc = -1 \/ p \in misled)
        BY <1>1, <3>1, <3>3 DEF InvCleaning
      <4>2. CASE p \in failed \union misled
        BY <4>1, <4>2 DEF Excused
      <4>3. CASE (NeededBy[config][p] \ BringUp) \intersect fw # {}
        <5>1. PICK u \in NeededBy[config][p] : u \notin BringUp /\ u \in fw
          BY <4>3
        <5>2. PICK r \in Wanted[config] : u = r.obj /\ p \in r.needs
          BY <1>1, <3>1, <5>1 DEF NeededBy, DeviceTypeOK
        <5>3. u \in Passed
          BY <1>1, <3>3, <5>1, <5>2, CleanupFacts
        <5>4. u \in fw'
          BY <1>2, <5>1, <5>3
        <5> QED BY <1>1, <4>1, <5>1, <5>4 DEF Excused
      <4> QED BY <4>1, <4>2, <4>3 DEF Excused
    <3> QED BY <1>2, <3>2, <3>3
  <2>2. failed' # {} => rc' = -1
    BY <1>1 DEF InvCleaning
  <2> QED BY <1>1, <1>2, <2>1, <2>2 DEF InvCleaning
<1> QED BY <1>1, <1>3, <1>4, <1>5, <1>6 DEF DeviceInv, InvClosed, InvOpening,
             InvStarting,
             InvStarted

\* A destroy command keeps the invariant, whatever becomes of it.
LEMMA CleanupDestroyInv ==
  ASSUME DeviceInv, NEW r \in {0, -1}, NEW done \in BOOLEAN, CleanupDestroy(r, done)
  PROVE  DeviceInv'
<1> DEFINE free == \A p \in NeededBy[config][Target.obj] : p \notin fw \/ p \in BringUp
<1>1. PICK o : o = Target.obj
  OBVIOUS
<1>2. /\ CleanupStep
      /\ o \in known
      /\ fw' = IF done THEN fw \ {o} ELSE fw
      /\ ready' = IF done THEN ready \ {o} ELSE ready
      /\ known' = IF r = 0 THEN known \ {o} ELSE known
      /\ failed' = IF r # 0 /\ ~done /\ free THEN failed \union {o} ELSE failed
      /\ misled' = IF r = 0 /\ ~done THEN misled \union {o} ELSE misled
      /\ dma' = {d \in dma : d[1] # o}
      /\ rc' = IF rc = 0 THEN r ELSE rc
  BY <1>1 DEF CleanupDestroy, FreeRegions, Cleaned
<1>3. ~free => (NeededBy[config][o] \ BringUp) \intersect fw # {}
  BY <1>1
<1>4. DeviceTypeOK
  BY DEF DeviceInv
<1>5. faults' \in Nat
  BY <1>4 DEF CleanupDestroy, Exec, Fault, DeviceTypeOK
<1>6. rc \in {0, -1} /\ o \in Objects /\ ready \subseteq fw
        /\ failed \union misled \subseteq Objects
  BY <1>2, <1>4 DEF DeviceTypeOK
<1> HIDE DEF free
<1>7. /\ rc' \in {0, -1} /\ (rc # 0 => rc' = rc) /\ (failed' # failed => rc' = -1)
      /\ fw' \subseteq fw /\ fw \ {o} \subseteq fw' /\ ready' \subseteq fw'
      /\ known' \subseteq known /\ known \ {o} \subseteq known'
      /\ failed \subseteq failed' /\ failed' \subseteq Objects
      /\ misled \subseteq misled' /\ misled' \subseteq Objects
  BY <1>2, <1>6
<1>8. o \in fw' => /\ o \in known' \union failed' \union misled'
                   /\ \/ o \in failed' \union misled'
                      \/ (NeededBy[config][o] \ BringUp) \intersect fw # {}
                   /\ rc' = -1 \/ o \in misled'
  BY <1>2, <1>3, <1>6
<1> QED BY <1>1, <1>2, <1>5, <1>7, <1>8, CleanupStepInv

\* Passing an object the driver does not know of keeps the invariant.
LEMMA CleanupSkipInv ==
  ASSUME DeviceInv, CleanupSkip
  PROVE  DeviceInv'
<1>1. PICK o : o = Target.obj
  OBVIOUS
<1>2. /\ CleanupStep
      /\ UNCHANGED <<known, fw, ready, failed, misled, faults>>
      /\ \/ o \notin known /\ dma' = {d \in dma : d[1] # o} /\ rc' = rc
         \/ o \in known /\ ~(DestroyChecks(o) \subseteq known)
  BY <1>1 DEF CleanupSkip, FreeRegions, fwvars, history
<1>3. /\ DeviceTypeOK /\ InvActive /\ InvCleaning /\ Active /\ pc = "cleaning"
      /\ step <= Len(CleanupOrders[queues])
  BY <1>2 DEF DeviceInv, CleanupStep, Active
<1>4. /\ o \notin BringUp
      /\ o \in {Fg.obj, Fte.obj} => Ft.obj \notin Passed
  BY <1>1, <1>3, CleanupFacts
<1>5. o \in known => DestroyChecks(o) \subseteq known
  BY <1>3, <1>4 DEF InvActive, DestroyChecks
<1>6. o \notin known /\ dma' = {d \in dma : d[1] # o} /\ rc' = rc
  BY <1>2, <1>5
<1>7. o \in fw => o \in failed \union misled /\ (rc = -1 \/ o \in misled)
  BY <1>3, <1>4, <1>6 DEF InvActive, InvCleaning
<1>8. /\ rc' \in {0, -1} /\ ready' \subseteq fw' /\ faults' \in Nat
      /\ failed' \subseteq Objects /\ misled' \subseteq Objects
  BY <1>2, <1>3, <1>6 DEF DeviceTypeOK
<1> QED BY <1>1, <1>2, <1>6, <1>7, <1>8, CleanupStepInv

\* At the end of the cleanup nothing is left that it has not come to.
LEMMA CleanupEnd ==
  ASSUME DeviceInv, pc = "cleaning", step > Len(CleanupOrders[queues])
  PROVE  /\ Names(Wanted[config]) \subseteq Passed \union BringUp
         /\ \A o \in fw \ BringUp : Excused(o) /\ (rc = -1 \/ o \in misled)
         /\ dma \subseteq CtxRegions
<1>1. /\ config \in Configs /\ queues = config.nq
           /\ step \in 1..(Len(CleanupOrders[queues]) + 1)
      /\ Passed = Gone(queues, step)
      /\ InvActive /\ InvCleaning /\ InvMemory /\ Active
  BY DEF DeviceInv, DeviceTypeOK, InvActive, Active, InvCleaning, Passed
<1>2. queues \in 1..MaxQueues
  BY <1>1 DEF Configs
<1>3. step = Len(CleanupOrders[queues]) + 1
  BY <1>1, <1>2, GoneSteps
<1>4. Names(Wanted[config]) \subseteq Passed \union BringUp
  BY <1>1, <1>3, CleanupAll DEF Names
<1>5. \A o \in fw \ BringUp : Excused(o) /\ (rc = -1 \/ o \in misled)
  BY <1>1, <1>4 DEF InvActive, InvCleaning
<1>6. dma \subseteq CtxRegions
  BY <1>1, <1>4 DEF InvMemory
<1> QED BY <1>4, <1>5, <1>6

\* Closing the context keeps the invariant.
LEMMA CtxCloseInv ==
  ASSUME DeviceInv, CtxClose
  PROVE  DeviceInv'
<1>1. DeviceTypeOK /\ InvCleaning /\ InvActive /\ Active
  BY DEF DeviceInv, CtxClose, Active
<1>2. /\ dma' = {} /\ vfio' = {} /\ fw_page_count' = 0
      /\ cmdq_reg' \in {"orig", "zero"} /\ cmdq_saved' = cmdq_saved
  <2>1. dma \subseteq CtxRegions
    BY CleanupEnd DEF CtxClose
  <2> QED BY <1>1, <2>1 DEF CtxClose, CtxClosed, InvActive, DeviceTypeOK
<1>3. /\ pc' \in {"none", "idle"} /\ ~started' /\ call' = <<>>
      /\ queues' \in {0, queues}
  BY <1>1 DEF CtxClose, InvCleaning
<1>4. 0 \in 0..MaxQueues /\ 0 \in 0..MLX5_MAX_FW_PAGES /\ 0 \in Nat
  BY DeviceAssumption DEF MLX5_MAX_FW_PAGES
<1>5. DeviceTypeOK'
  BY <1>1, <1>2, <1>3, <1>4 DEF CtxClose, DeviceTypeOK, Errors
<1>6. ~Active'
  BY <1>3 DEF Active
<1>7. InvClosed'
  BY <1>2, <1>3 DEF CtxClose, InvClosed
<1> QED BY <1>3, <1>5, <1>6, <1>7 DEF DeviceInv, InvOpening, InvStarting, InvStarted,
             InvActive, InvMemory, InvCleaning

\* A step that changes nothing.
LEMMA StutterInv ==
  ASSUME DeviceInv, UNCHANGED vars
  PROVE  DeviceInv'
<1>1. /\ UNCHANGED <<pc, goal, step, rc, call, vfio, cmdq_reg, cmdq_saved, config,
           started>>
      /\ UNCHANGED <<last_error, outstanding, queues, known, dma, fw_page_count>>
      /\ UNCHANGED <<fw, ready, failed, misled, faults>>
  BY DEF vars, ctxvars, devvars, rtvars, memory, fwvars, history
<1>2. DeviceTypeOK'
  BY <1>1 DEF DeviceInv, DeviceTypeOK
<1>3. InvClosed' /\ InvOpening'
  BY <1>1 DEF DeviceInv, InvClosed, InvOpening, Active
<1>4. InvStarting' /\ InvStarted'
  BY <1>1 DEF DeviceInv, InvStarting, InvStarted, Taken
<1>5. InvActive' /\ InvMemory'
  BY <1>1 DEF DeviceInv, InvActive, InvMemory, Active, Passed
<1>6. InvCleaning'
  BY <1>1 DEF DeviceInv, InvCleaning, Passed, Excused
<1> QED BY <1>2, <1>3, <1>4, <1>5, <1>6 DEF DeviceInv

-------------------------------------------------------------------------------
(***************************************************************************)
(* The theorems that follow from the invariant.                            *)
(***************************************************************************)

\* Every step keeps the invariant.
LEMMA NextInv ==
  ASSUME DeviceInv, Next
  PROVE  DeviceInv'
<1>1. CASE DevOpen
  BY <1>1, DevOpenInv
<1>2. CASE pc = "idle" /\ Life
  <2>1. CASE \E c \in [tx : BOOLEAN, rx : BOOLEAN, nq : 0..(MaxQueues + 1)],
               fit \in BOOLEAN :
               DevConfigure(c, fit)
    BY <2>1, DevConfigureInv
  <2>2. CASE DevStart
    BY <2>2, DevStartInv
  <2>3. CASE DevStartAgain
    BY <2>3, DevStartAgainInv
  <2>4. CASE \E why \in {"stop", "close"} : DevStop(why)
    BY <2>4, DevStopInv
  <2>5. CASE DevCloseStopped
    BY <2>5, DevCloseStoppedInv
  <2> QED BY <1>2, <2>1, <2>2, <2>3, <2>4, <2>5 DEF Life
<1>3. CASE pc = "idle" /\ Calls
  BY <1>3, CallsInv
<1>4. CASE Open
  BY <1>4, OpenStepInv, OpenDoneInv, OpenFailsInv DEF Open
<1>5. CASE Start
  <2>1. ASSUME NEW out \in Outcomes
        PROVE  out[1] \in {0, -1} /\ out[2] \in BOOLEAN
    BY DEF Outcomes
  <2>2. CASE \E out \in Outcomes : CreateObject(out[1], out[2])
    BY <2>1, <2>2, CreateObjectInv
  <2>3. CASE CreateNumberedZero
    BY <2>3, CreateNumberedZeroInv
  <2>4. CASE CreateGivesUp
    BY <2>4, CreateGivesUpInv
  <2>5. CASE \E r \in {0, -1} : QueryFirmware(r)
    BY <2>5, QueryFirmwareInv
  <2>6. CASE \E n \in PageDemands : \E out \in Outcomes : GiveFwPages(n, out[1], out[2])
    BY <2>1, <2>6, GiveFwPagesInv, DeviceAssumption
  <2>7. CASE \E n \in PageDemands : GiveFwPagesGivesUp(n)
    BY <2>7, GiveFwPagesGivesUpInv, DeviceAssumption
  <2>8. CASE NoFwPagesWanted
    BY <2>8, NoFwPagesWantedInv
  <2>9. CASE \E out \in Outcomes : ModifyReady(out[1], out[2])
    BY <2>1, <2>9, ModifyReadyInv
  <2>10. CASE \E r \in {0, -1} : PostBuffers(r)
    BY <2>10, PostBuffersInv
  <2>11. CASE StartDone
    BY <2>11, StartDoneInv
  <2> QED BY <1>5, <2>2, <2>3, <2>4, <2>5, <2>6, <2>7, <2>8, <2>9, <2>10,
               <2>11 DEF Start
<1>6. CASE Cleanup
  <2>1. CASE \E out \in Outcomes : CleanupDestroy(out[1], out[2])
    BY <2>1, CleanupDestroyInv DEF Outcomes
  <2> QED BY <1>6, <2>1, CleanupSkipInv, CtxCloseInv DEF Cleanup
<1> QED BY <1>1, <1>2, <1>3, <1>4, <1>5, <1>6 DEF Next

\* The inductive invariant of the device life cycle (mlxnicd_dev_open,
\* _configure, _start, _stop and _close in src/mlx5.c, with the cleanup the
\* last three share).
THEOREM DeviceInvariant == Spec => []DeviceInv
<1>1. Init => DeviceInv
  BY InitInv
<1>2. DeviceInv /\ [Next]_vars => DeviceInv'
  BY NextInv, StutterInv
<1> QED BY <1>1, <1>2, PTL DEF Spec

\* The variables keep their types through every call of the life cycle, for any
\* number of queues.
THEOREM DeviceTypeCorrect == Spec => []DeviceTypeOK
<1>1. DeviceInv => DeviceTypeOK
  BY DEF DeviceInv
<1> QED BY <1>1, DeviceInvariant, PTL

\* A burst, flush or release call that is let in meets a queue that the driver
\* knows, that was created and made ready in this start (or about which the
\* firmware lied), and whose rings, buffers and completion queue are mapped.
THEOREM LetInToLiveQueues == Spec => []CallsReachLiveQueues
<1>1. ASSUME DeviceInv, call # <<>>
      PROVE  CallsReachLiveQueues
  <2>1. /\ Active /\ pc = "idle" /\ started
        /\ config \in Configs /\ queues = config.nq
        /\ \A x \in Range(StartOrder[config]) : Taken(x)
        /\ call \in {"tx", "rx"} \X (0..(queues - 1))
        /\ IF call[1] = "tx" THEN config.tx ELSE config.rx
    <3>1. Active
      BY <1>1 DEF DeviceInv, InvClosed
    <3>2. pc = "idle" /\ started
      BY <1>1, <3>1 DEF DeviceInv, Active, InvStarting, InvCleaning
    <3> QED BY <1>1, <3>1, <3>2 DEF DeviceInv, InvStarted, InvActive, DeviceTypeOK
  <2>2. PICK q \in 0..(config.nq - 1) : call = <<"tx", q>> \/ call = <<"rx", q>>
    BY <2>1
  <2>3. /\ Cq("tx_cq", q).obj = <<"tx_cq", q>> /\ Cq("rx_cq", q).obj = <<"rx_cq", q>>
        /\ Sq(q).obj = <<"sq", q>> /\ Rq(q).obj = <<"rq", q>>
    BY QueueFields DEF Is
  <2>4. /\ ~Sq(q).zero_absent /\ ~Rq(q).zero_absent
        /\ ~Cq("tx_cq", q).zero_absent /\ ~Cq("rx_cq", q).zero_absent
    BY DEF Sq, Rq, Cq, Resource
  <2>5. CASE call = <<"tx", q>>
    <3>1. Taken(Create(Cq("tx_cq", q))) /\ Taken(Create(Sq(q))) /\ Taken(Modify(Sq(q)))
      BY <2>1, <2>5, QueueStepsTaken
    <3>2. Usable(<<"sq", q>>, Sq(q).regions)
      BY <2>3, <2>4, <3>1, StepFields DEF Taken, Usable
    <3>3. Usable(<<"tx_cq", q>>, Cq("tx_cq", q).regions)
      BY <2>3, <2>4, <3>1, StepFields DEF Taken, Usable
    <3>4. <<"sq", q>> \in ready \union misled
      BY <2>3, <3>1, StepFields DEF Taken
    <3> QED BY <2>5, <3>2, <3>3, <3>4 DEF CallsReachLiveQueues
  <2>6. CASE call = <<"rx", q>>
    <3>1. /\ Taken(Create(Cq("rx_cq", q))) /\ Taken(Create(Rq(q)))
               /\ Taken(Modify(Rq(q)))
          /\ Taken(Post(Rq(q)))
      BY <2>1, <2>6, QueueStepsTaken
    <3>2. Usable(<<"rq", q>>, Rq(q).regions)
      BY <2>3, <2>4, <3>1, StepFields DEF Taken, Usable
    <3>3. <<<<"rq", q>>, "rx_pages">> \in dma
      BY <2>3, <3>1, StepFields DEF Taken
    <3>4. Usable(<<"rq", q>>, Rq(q).regions \union {"rx_pages"})
      BY <3>2, <3>3 DEF Usable
    <3>5. Usable(<<"rx_cq", q>>, Cq("rx_cq", q).regions)
      BY <2>3, <2>4, <3>1, StepFields DEF Taken, Usable
    <3>6. <<"rq", q>> \in ready \union misled
      BY <2>3, <3>1, StepFields DEF Taken
    <3> QED BY <2>6, <3>4, <3>5, <3>6 DEF CallsReachLiveQueues
  <2> QED BY <2>2, <2>5, <2>6
<1>2. DeviceInv => CallsReachLiveQueues
  BY <1>1 DEF CallsReachLiveQueues
<1> QED BY <1>2, DeviceInvariant, PTL

\* As long as the application holds received frames of a queue the device is
\* started and the pages behind the frames are mapped, however stops, failed
\* starts and reconfigurations follow each other.
THEOREM HeldBuffersStayMapped == Spec => []HeldBuffersMapped
<1>1. ASSUME DeviceInv, pc = "idle", outstanding # {}
      PROVE  started /\ \A q \in outstanding : <<<<"rq", q>>, "rx_pages">> \in dma
  <2>1. Active /\ started
    BY <1>1 DEF DeviceInv, InvClosed, Active
  <2>2. /\ config \in Configs /\ config.rx /\ outstanding \subseteq 0..(config.nq - 1)
        /\ \A x \in Range(StartOrder[config]) : Taken(x)
    BY <1>1, <2>1 DEF DeviceInv, DeviceTypeOK, InvStarted, InvActive
  <2>3. ASSUME NEW q \in outstanding
        PROVE  <<<<"rq", q>>, "rx_pages">> \in dma
    <3>1. Taken(Post(Rq(q)))
      BY <2>2, QueueStepsTaken
    <3>2. Rq(q).obj = <<"rq", q>>
      BY QueueFields DEF Is
    <3> QED BY <3>1, <3>2, StepFields DEF Taken
  <2> QED BY <2>1, <2>3
<1>2. DeviceInv => HeldBuffersMapped
  BY <1>1 DEF HeldBuffersMapped
<1> QED BY <1>2, DeviceInvariant, PTL

\* The cleanup unmaps the memory of an object only after the firmware has let
\* go of it, unless a command about it failed or lied, or something that needs
\* it is itself still there.
THEOREM MemoryOutlivesObject == Spec => []DmaOutlivesObject
<1>1. ASSUME DeviceInv, NEW r \in Wanted[config], r.obj \in fw
      PROVE  {r.obj} \X r.regions \subseteq dma \/ Excused(r.obj)
  <2>1. Active
    BY <1>1 DEF DeviceInv, InvClosed
  <2>2. CASE r.obj \in Passed
    <3>1. pc = "cleaning"
      BY <2>2 DEF Passed
    <3> QED BY <1>1, <2>2, <3>1 DEF DeviceInv, InvCleaning
  <2>3. CASE r.obj \notin Passed
    BY <1>1, <2>1, <2>3 DEF DeviceInv, InvMemory, Excused
  <2> QED BY <2>2, <2>3
<1>2. DeviceInv => DmaOutlivesObject
  BY <1>1 DEF DmaOutlivesObject
<1> QED BY <1>2, DeviceInvariant, PTL

\* After a stop, a close or a failed start, wherever the failure was, nothing
\* is mapped, no page is counted, VFIO is closed and the command-queue register
\* does not point at the memory of the driver.
THEOREM ClosingLeavesNothing == Spec => []ClosedLeavesNothing
<1>1. DeviceInv => ClosedLeavesNothing
  BY DEF DeviceInv, InvClosed, Active, ClosedLeavesNothing
<1> QED BY <1>1, DeviceInvariant, PTL

\* The only step out of the cleanup is its last.
LEMMA LeavingTheCleanup ==
  ASSUME DeviceInv, [Next]_vars, pc = "cleaning", pc' # "cleaning"
  PROVE  CtxClose
BY DEF Next, vars, Cleanup, CleanupDestroy, CleanupSkip, CleanupStep, DevOpen

\* When the context closes the firmware holds only objects about which a
\* command failed or lied, and what those keep alive: no early return of the
\* start makes the cleanup miss an object.
THEOREM CleanupDestroysAll == Spec => LeftOnlyIfLost
<1>1. ASSUME DeviceInv, [Next]_vars, pc = "cleaning", pc' # "cleaning"
      PROVE  \A o \in fw \ BringUp : Excused(o)
  BY <1>1, LeavingTheCleanup, CleanupEnd DEF CtxClose
<1>2. DeviceInv /\ [Next]_vars
        => [pc = "cleaning" /\ pc' # "cleaning"
          => \A o \in fw \ BringUp : Excused(o)]_vars
  BY <1>1
<1> QED BY <1>2, DeviceInvariant, PTL DEF LeftOnlyIfLost, Spec

\* A stop, close or failed start that leaves objects in the firmware sets
\* last_error to IO, unless a command lied about one of them or it is numbered
\* 0.
THEOREM CleanupReportsFailure == Spec => StopReportsFailure
<1>1. ASSUME DeviceInv, [Next]_vars, pc = "cleaning", pc' # "cleaning",
               fw \ BringUp # {}
      PROVE  last_error' = "IO" \/ misled \intersect fw # {}
  <2>1. CtxClose
    BY <1>1, LeavingTheCleanup
  <2>2. \A o \in fw \ BringUp : rc = -1 \/ o \in misled
    BY <1>1, <2>1, CleanupEnd DEF CtxClose
  <2>3. rc # 0 => last_error' = "IO"
    BY <2>1 DEF CtxClose
  <2> QED BY <1>1, <2>2, <2>3
<1>2. DeviceInv /\ [Next]_vars
        => [pc = "cleaning" /\ pc' # "cleaning" /\ fw \ BringUp # {} =>
              last_error' = "IO" \/ misled \intersect fw # {}]_vars
  BY <1>1
<1> QED BY <1>2, DeviceInvariant, PTL DEF StopReportsFailure, Spec

-------------------------------------------------------------------------------
(***************************************************************************)
(* A start to which nothing happens.  Made are the names a set of steps    *)
(* has given the firmware, Created those of the create commands among      *)
(* them.                                                                   *)
(***************************************************************************)
Made(B) == {x.res.obj : x \in {y \in B : y.do \in {"create", "give"}}}

Created(B) == {x.res.obj : x \in {y \in B : y.do = "create"}}

\* After steps B, step x finds what it needs, and its own memory free.
InTime(x, B) ==
  /\ x.do \in {"create", "give"} => x.res.needs \subseteq Made(B)
  /\ x.do = "create" => x.res.checks \subseteq Created(B)
  /\ x.do = "modify" => x.res.obj \in Created(B) /\ x.res.obj \in Made(B)
  /\ x.do = "create" /\ x.res.regions # {} => x.res.obj \notin Created(B)

InvQuiet ==
  pc = "starting" /\ faults = 0 =>
    LET B == Before(StartOrder[config], step)
    IN  /\ Made(B) \subseteq fw
        /\ Created(B) \subseteq known
        /\ \A d \in dma \ CtxRegions : d[1] \in Created(B) \/ d[2] = "rx_pages"

\* A step taken adds its name.
LEMMA MadeFacts ==
  ASSUME NEW B, NEW r
  PROVE  /\ Create(r) \in B => r.obj \in Made(B) /\ r.obj \in Created(B)
         /\ Give(r) \in B => r.obj \in Made(B)
<1>1. /\ Create(r).do = "create" /\ Create(r).res = r
      /\ Give(r).do = "give" /\ Give(r).res = r
  BY StepFields
<1>2. ASSUME NEW x, x \in B
      PROVE  /\ x.do = "create" => x.res.obj \in Created(B)
             /\ x.do \in {"create", "give"} => x.res.obj \in Made(B)
  BY <1>2 DEF Made, Created
<1> QED BY <1>1, <1>2

\* When each kind of step finds what it needs.
LEMMA InTimeCases ==
  ASSUME NEW B, NEW r
  PROVE  /\ (/\ r.needs \subseteq Made(B) /\ r.checks \subseteq Created(B)
             /\ r.regions = {} \/ r.obj \notin Created(B))
              => InTime(Create(r), B)
         /\ r.needs \subseteq Made(B) => InTime(Give(r), B)
         /\ r.obj \in Created(B) /\ r.obj \in Made(B) => InTime(Modify(r), B)
         /\ InTime(Post(r), B)
         /\ InTime(Query(r), B)
BY StepFields DEF InTime

\* The steps of the bring-up.
LEMMA BringUpInTime ==
  ASSUME NEW j \in 1..13, NEW B, Before(BringUpSteps, j) \subseteq B
  PROVE  InTime(BringUpSteps[j], B)
<1>1. /\ BringUpSteps[1] = Create(EnableHca) /\ BringUpSteps[2] = Create(SetIssi)
      /\ BringUpSteps[3] = Query("pages") /\ BringUpSteps[4] = Query("pages")
      /\ BringUpSteps[5] = Give(GivePages("boot_pages"))
      /\ BringUpSteps[6] = Query("dtor") /\ BringUpSteps[7] = Query("hca_cap")
      /\ BringUpSteps[8] = Create(SetHcaCap)
      /\ BringUpSteps[9] = Query("pages") /\ BringUpSteps[10] = Query("pages")
      /\ BringUpSteps[11] = Give(GivePages("init_pages"))
      /\ BringUpSteps[12] = Create(InitHca) /\ BringUpSteps[13] = Query("paos")
  BY DEF BringUpSteps
<1>2. \A i \in 1..(j - 1) : BringUpSteps[i] \in B
  BY DEF Before
<1>3. CASE j \in {3, 4, 6, 7, 9, 10, 13}
  BY <1>1, <1>3, InTimeCases
<1>4. CASE j = 1
  <2>1. EnableHca.needs = {} /\ EnableHca.checks = {} /\ EnableHca.regions = {}
    BY BringUpFields DEF Is
  <2> QED BY <1>1, <1>4, <2>1, InTimeCases
<1>5. CASE j = 2
  <2>1. Create(EnableHca) \in B
    BY <1>1, <1>2, <1>5
  <2>2. SetIssi.needs = {EnableHca.obj} /\ SetIssi.checks = {} /\ SetIssi.regions = {}
    BY BringUpFields DEF Is
  <2> QED BY <1>1, <1>5, <2>1, <2>2, MadeFacts, InTimeCases
<1>6. CASE j = 5
  <2>1. Create(SetIssi) \in B
    BY <1>1, <1>2, <1>6
  <2>2. GivePages("boot_pages").needs = {SetIssi.obj}
    BY BringUpFields DEF Is
  <2> QED BY <1>1, <1>6, <2>1, <2>2, MadeFacts, InTimeCases
<1>7. CASE j = 8
  <2>1. Give(GivePages("boot_pages")) \in B
    BY <1>1, <1>2, <1>7
  <2>2. /\ SetHcaCap.needs = {GivePages("boot_pages").obj}
        /\ SetHcaCap.checks = {} /\ SetHcaCap.regions = {}
    BY BringUpFields DEF Is
  <2> QED BY <1>1, <1>7, <2>1, <2>2, MadeFacts, InTimeCases
<1>8. CASE j = 11
  <2>1. Create(SetHcaCap) \in B
    BY <1>1, <1>2, <1>8
  <2>2. GivePages("init_pages").needs = {SetHcaCap.obj}
    BY BringUpFields DEF Is
  <2> QED BY <1>1, <1>8, <2>1, <2>2, MadeFacts, InTimeCases
<1>9. CASE j = 12
  <2>1. Give(GivePages("init_pages")) \in B
    BY <1>1, <1>2, <1>9
  <2>2. /\ InitHca.needs = {GivePages("init_pages").obj}
        /\ InitHca.checks = {} /\ InitHca.regions = {}
    BY BringUpFields DEF Is
  <2> QED BY <1>1, <1>9, <2>1, <2>2, MadeFacts, InTimeCases
<1> QED BY <1>3, <1>4, <1>5, <1>6, <1>7, <1>8, <1>9

\* The objects of the device and the steering, from the steps they come after.
LEMMA DeviceInTime ==
  ASSUME NEW B, Create(InitHca) \in B
  PROVE  /\ \A r \in {Promisc, Uar, Pd, Td, QCounter, Ft} : InTime(Create(r), B)
         /\ Create(Pd) \in B => InTime(Create(Mkey), B)
         /\ Create(Td) \in B => InTime(Create(Tis), B)
         /\ Create(Uar) \in B /\ Eq.obj \notin Created(B) => InTime(Create(Eq), B)
<1>1. InitHca.obj = <<"init_hca", 0>>
  BY BringUpFields DEF Is
<1>2. \A r \in {Promisc, Uar, Pd, Td, QCounter, Ft} :
        r.needs = {<<"init_hca", 0>>} /\ r.checks = {} /\ r.regions = {}
  BY BringUpFields, DeviceFields DEF Is
<1>3. /\ Mkey.needs = {Pd.obj} /\ Mkey.checks = {} /\ Mkey.regions = {}
      /\ Tis.needs = {Td.obj} /\ Tis.checks = {} /\ Tis.regions = {}
      /\ Eq.needs = {Uar.obj} /\ Eq.checks = {}
  BY DeviceFields DEF Is
<1>4. \A r \in {Promisc, Uar, Pd, Td, QCounter, Ft} : InTime(Create(r), B)
  BY <1>1, <1>2, MadeFacts, InTimeCases
<1>5. Create(Pd) \in B => InTime(Create(Mkey), B)
  BY <1>3, MadeFacts, InTimeCases
<1>6. Create(Td) \in B => InTime(Create(Tis), B)
  BY <1>3, MadeFacts, InTimeCases
<1>7. Create(Uar) \in B /\ Eq.obj \notin Created(B) => InTime(Create(Eq), B)
  BY <1>3, MadeFacts, InTimeCases
<1> QED BY <1>4, <1>5, <1>6, <1>7

\* The steering rules find their tables, groups and queues.
LEMMA SteeringInTime ==
  ASSUME NEW n \in 1..MaxQueues, NEW j \in 1..6, NEW B, Before(SteeringSteps(n), j)
           \subseteq B,
         Create(InitHca) \in B, Create(Td) \in B,
         \A q \in 0..(n - 1) : Create(Rq(q)) \in B
  PROVE  InTime(SteeringSteps(n)[j], B)
<1>1. /\ SteeringSteps(n)[1] = Create(Rqt(n)) /\ SteeringSteps(n)[2] = Create(Tir)
      /\ SteeringSteps(n)[3] = Create(Ft) /\ SteeringSteps(n)[4] = Create(FtRoot)
      /\ SteeringSteps(n)[5] = Create(Fg) /\ SteeringSteps(n)[6] = Create(Fte)
  BY DEF SteeringSteps
<1>2. \A i \in 1..(j - 1) : SteeringSteps(n)[i] \in B
  BY DEF Before
<1>3. Rqt(n).obj = <<"rqt", 0>>
  BY RqtFields DEF Is
<1>4. CASE j = 1
  <2>1. \A q : Rq(q).obj = <<"rq", q>>
    BY QueueFields DEF Is
  <2>2. \A q \in 0..(n - 1) : <<"rq", q>> \in Made(B) /\ <<"rq", q>> \in Created(B)
    BY <2>1, MadeFacts
  <2>3. 0 \in 0..(n - 1)
    BY DeviceAssumption
  <2>4. /\ Rqt(n).needs = {<<"rq", q>> : q \in 0..(n - 1)}
             /\ Rqt(n).checks = {<<"rq", 0>>}
        /\ Rqt(n).regions = {}
    BY RqtFields DEF Is
  <2>5. Rqt(n).needs \subseteq Made(B) /\ Rqt(n).checks \subseteq Created(B)
    BY <2>2, <2>3, <2>4
  <2> QED BY <1>1, <1>4, <2>4, <2>5, InTimeCases
<1>5. CASE j = 2
  <2>1. Create(Rqt(n)) \in B
    BY <1>1, <1>2, <1>5
  <2>2. Tir.needs = {Td.obj, Rqt(n).obj} /\ Tir.checks = {Rqt(n).obj}
          /\ Tir.regions = {}
    BY <1>3, DeviceFields DEF Is
  <2>3. Tir.needs \subseteq Made(B) /\ Tir.checks \subseteq Created(B)
    BY <2>1, <2>2, MadeFacts
  <2> QED BY <1>1, <1>5, <2>2, <2>3, InTimeCases
<1>6. CASE j = 3
  BY <1>1, <1>6, DeviceInTime
<1>7. CASE j \in {4, 5}
  <2>1. Create(Ft) \in B
    BY <1>1, <1>2, <1>7
  <2>2. \A r \in {FtRoot, Fg} : r.needs = {Ft.obj} /\ r.checks = {Ft.obj}
          /\ r.regions = {}
    BY BringUpFields, DeviceFields DEF Is
  <2>3. \A r \in {FtRoot, Fg} : r.needs \subseteq Made(B)
          /\ r.checks \subseteq Created(B)
    BY <2>1, <2>2, MadeFacts
  <2> QED BY <1>1, <1>7, <2>2, <2>3, InTimeCases
<1>8. CASE j = 6
  <2>1. Create(Tir) \in B /\ Create(Ft) \in B /\ Create(Fg) \in B
    BY <1>1, <1>2, <1>8
  <2>2. /\ Fte.needs = {Ft.obj, Fg.obj, Tir.obj}
             /\ Fte.checks = {Ft.obj, Fg.obj, Tir.obj}
        /\ Fte.regions = {}
    BY DeviceFields DEF Is
  <2>3. Fte.needs \subseteq Made(B) /\ Fte.checks \subseteq Created(B)
    BY <2>1, <2>2, MadeFacts
  <2> QED BY <1>1, <1>8, <2>2, <2>3, InTimeCases
<1> QED BY <1>4, <1>5, <1>6, <1>7, <1>8

\* The steps of one queue: its objects are new, and each comes after what it rests on.
LEMMA QueueInTime ==
  ASSUME NEW q, NEW A,
         Create(Uar) \in A, Create(Pd) \in A, Create(Eq) \in A,
         Created(A) \intersect QueueNames(q) = {}
  PROVE  /\ Create(Tis) \in A => \A j \in 1..3 :
              InTime(TxQueueSteps(q)[j], A \union Before(TxQueueSteps(q), j))
         /\ Create(QCounter) \in A => \A j \in 1..4 :
              /\ InTime(RxQueueSteps(q)[j], A \union Before(RxQueueSteps(q), j))
              /\ InTime(RxQueueSteps(q)[j],
                        A \union Range(TxQueueSteps(q))
                          \union Before(RxQueueSteps(q), j))
<1> DEFINE txcq == Cq("tx_cq", q)
           rxcq == Cq("rx_cq", q)
<1>1. /\ txcq.obj = <<"tx_cq", q>> /\ txcq.needs = {Uar.obj, Eq.obj}
           /\ txcq.checks = {Eq.obj}
      /\ rxcq.obj = <<"rx_cq", q>> /\ rxcq.needs = {Uar.obj, Eq.obj}
           /\ rxcq.checks = {Eq.obj}
      /\ Sq(q).obj = <<"sq", q>> /\ Sq(q).needs = {Uar.obj, Pd.obj, Tis.obj, txcq.obj}
      /\ Sq(q).checks = {txcq.obj}
      /\ Rq(q).obj = <<"rq", q>> /\ Rq(q).needs = {Pd.obj, QCounter.obj, rxcq.obj}
      /\ Rq(q).checks = {rxcq.obj}
  <2>1. /\ Uar.obj = <<"uar", 0>> /\ Eq.obj = <<"eq", 0>> /\ Pd.obj = <<"pd", 0>>
        /\ Tis.obj = <<"tis", 0>> /\ QCounter.obj = <<"q_counter", 0>>
    BY DeviceFields DEF Is
  <2>2. /\ txcq.obj = <<"tx_cq", q>> /\ txcq.needs = {Uar.obj, Eq.obj}
        /\ txcq.checks = {Eq.obj}
    BY <2>1, QueueFields DEF Is
  <2>3. /\ rxcq.obj = <<"rx_cq", q>> /\ rxcq.needs = {Uar.obj, Eq.obj}
        /\ rxcq.checks = {Eq.obj}
    BY <2>1, QueueFields DEF Is
  <2> HIDE DEF txcq, rxcq
  <2>4. /\ Sq(q).obj = <<"sq", q>> /\ Sq(q).checks = {txcq.obj}
        /\ Sq(q).needs = {Uar.obj, Pd.obj, Tis.obj, txcq.obj}
    BY <2>1, <2>2, QueueFields DEF Is
  <2>5. /\ Rq(q).obj = <<"rq", q>> /\ Rq(q).checks = {rxcq.obj}
        /\ Rq(q).needs = {Pd.obj, QCounter.obj, rxcq.obj}
    BY <2>1, <2>3, QueueFields DEF Is
  <2> QED BY <2>2, <2>3, <2>4, <2>5
<1>2. /\ \A B, C : Created(B \union C) = Created(B) \union Created(C)
      /\ Created({}) = {}
      /\ Created({Create(txcq)}) = {txcq.obj} /\ Created({Create(rxcq)}) = {rxcq.obj}
      /\ Created(Range(TxQueueSteps(q))) = {txcq.obj, Sq(q).obj}
  <2>1. \A B, C : Created(B \union C) = Created(B) \union Created(C)
    BY DEF Created
  <2>2. \A r : Created({Create(r)}) = {r.obj}
    BY StepFields DEF Created
  <2>3. Created(Range(TxQueueSteps(q))) = {txcq.obj, Sq(q).obj}
    BY QueueRanges, StepFields DEF Created
  <2>4. Created({}) = {}
    BY DEF Created
  <2> QED BY <2>1, <2>2, <2>3, <2>4
<1>3. /\ TxQueueSteps(q)[1] = Create(txcq) /\ TxQueueSteps(q)[2] = Create(Sq(q))
      /\ TxQueueSteps(q)[3] = Modify(Sq(q))
      /\ Before(TxQueueSteps(q), 1) = {} /\ Before(TxQueueSteps(q), 2) = {Create(txcq)}
      /\ Before(TxQueueSteps(q), 3) = {Create(txcq), Create(Sq(q))}
  BY DEF TxQueueSteps, Before
<1>4. /\ RxQueueSteps(q)[1] = Create(rxcq) /\ RxQueueSteps(q)[2] = Create(Rq(q))
      /\ RxQueueSteps(q)[3] = Modify(Rq(q)) /\ RxQueueSteps(q)[4] = Post(Rq(q))
      /\ Before(RxQueueSteps(q), 1) = {} /\ Before(RxQueueSteps(q), 2) = {Create(rxcq)}
      /\ Before(RxQueueSteps(q), 3) = {Create(rxcq), Create(Rq(q))}
  BY DEF RxQueueSteps, Before
<1>5. {txcq.obj, rxcq.obj, Sq(q).obj, Rq(q).obj} \intersect Created(A) = {}
  BY <1>1 DEF QueueNames
<1>6. /\ txcq.obj # Sq(q).obj
      /\ rxcq.obj \notin {txcq.obj, Sq(q).obj}
           /\ Rq(q).obj \notin {txcq.obj, Sq(q).obj, rxcq.obj}
  BY <1>1
<1> HIDE DEF txcq, rxcq
<1>7. ASSUME Create(Tis) \in A, NEW j \in 1..3
      PROVE  InTime(TxQueueSteps(q)[j], A \union Before(TxQueueSteps(q), j))
  <2>1. CASE j = 1
    <3>1. txcq.needs \subseteq Made(A) /\ txcq.checks \subseteq Created(A)
      BY <1>1, MadeFacts
    <3>2. InTime(Create(txcq), A)
      BY <1>5, <3>1, InTimeCases
    <3>3. A \union Before(TxQueueSteps(q), j) = A
      BY <1>3, <2>1
    <3> QED BY <1>3, <2>1, <3>2, <3>3
  <2>2. CASE j = 2
    <3> DEFINE B == A \union {Create(txcq)}
    <3>1. Create(Uar) \in B /\ Create(Pd) \in B /\ Create(Tis) \in B
            /\ Create(txcq) \in B
      BY <1>7
    <3>2. Created(B) = Created(A) \union {txcq.obj}
      BY <1>2
    <3> HIDE DEF B
    <3>3. Sq(q).needs \subseteq Made(B) /\ Sq(q).checks \subseteq Created(B)
      BY <1>1, <3>1, MadeFacts
    <3>4. Sq(q).obj \notin Created(B)
      BY <1>6, <1>5, <3>2
    <3>5. InTime(Create(Sq(q)), B)
      BY <3>3, <3>4, InTimeCases
    <3> QED BY <1>3, <2>2, <3>5 DEF B
  <2>3. CASE j = 3
    BY <1>3, <2>3, MadeFacts, InTimeCases
  <2> QED BY <2>1, <2>2, <2>3
<1>8. ASSUME Create(QCounter) \in A, NEW j \in 1..4, NEW T,
             T = {} \/ T = Range(TxQueueSteps(q))
      PROVE  InTime(RxQueueSteps(q)[j], A \union T \union Before(RxQueueSteps(q), j))
  <2>1. Created(T) \subseteq {txcq.obj, Sq(q).obj}
    BY <1>2, <1>8
  <2>2. Created(A \union T) = Created(A) \union Created(T)
    BY <1>2
  <2>3. {rxcq.obj, Rq(q).obj} \intersect Created(A \union T) = {}
    BY <1>5, <1>6, <2>1, <2>2
  <2>4. CASE j = 1
    <3>1. rxcq.needs \subseteq Made(A \union T)
            /\ rxcq.checks \subseteq Created(A \union T)
      BY <1>1, MadeFacts
    <3>2. InTime(Create(rxcq), A \union T)
      BY <2>3, <3>1, InTimeCases
    <3>3. A \union T \union Before(RxQueueSteps(q), j) = A \union T
      BY <1>4, <2>4
    <3> QED BY <1>4, <2>4, <3>2, <3>3
  <2>5. CASE j = 2
    <3> DEFINE B == A \union T \union {Create(rxcq)}
    <3>1. Create(Pd) \in B /\ Create(QCounter) \in B /\ Create(rxcq) \in B
      BY <1>8
    <3>2. Created(B) = Created(A \union T) \union {rxcq.obj}
      BY <1>2
    <3> HIDE DEF B
    <3>3. Rq(q).needs \subseteq Made(B) /\ Rq(q).checks \subseteq Created(B)
      BY <1>1, <3>1, MadeFacts
    <3>4. Rq(q).obj \notin Created(B)
      BY <1>6, <2>3, <3>2
    <3>5. InTime(Create(Rq(q)), B)
      BY <3>3, <3>4, InTimeCases
    <3> QED BY <1>4, <2>5, <3>5 DEF B
  <2>6. CASE j = 3
    BY <1>4, <2>6, MadeFacts, InTimeCases
  <2>7. CASE j = 4
    BY <1>4, <2>7, InTimeCases
  <2> QED BY <2>4, <2>5, <2>6, <2>7
<1>9. ASSUME Create(QCounter) \in A, NEW j \in 1..4
      PROVE  /\ InTime(RxQueueSteps(q)[j], A \union Before(RxQueueSteps(q), j))
             /\ InTime(RxQueueSteps(q)[j],
                       A \union Range(TxQueueSteps(q))
                         \union Before(RxQueueSteps(q), j))
  <2>1. A \union {} = A
    OBVIOUS
  <2> QED BY <1>8, <1>9, <2>1
<1> QED BY <1>7, <1>9

\* The nine parts of a start, and what they hold.
LEMMA StartPartRanges ==
  ASSUME NEW c \in Configs
  PROVE  /\ StartParts(c)[1] = BringUpSteps
         /\ StartParts(c)[2] = When(c.rx, <<Create(Promisc)>>)
         /\ StartParts(c)[3] = <<Create(Uar), Create(Pd), Create(Td)>>
         /\ StartParts(c)[4] = When(c.rx, <<Create(QCounter)>>)
         /\ StartParts(c)[5] = When(c.tx \/ c.rx, <<Create(Mkey)>>)
         /\ StartParts(c)[6] = When(c.tx, <<Create(Tis)>>)
         /\ StartParts(c)[7] = <<Create(Eq)>>
         /\ StartParts(c)[8] = AllQueueSteps(c)
         /\ StartParts(c)[9] = When(c.rx, SteeringSteps(c.nq))
         /\ Range(StartParts(c)[2]) \subseteq {Create(Promisc)}
         /\ Range(StartParts(c)[3]) = {Create(Uar), Create(Pd), Create(Td)}
         /\ Range(StartParts(c)[4]) = IF c.rx THEN {Create(QCounter)} ELSE {}
         /\ Range(StartParts(c)[5]) \subseteq {Create(Mkey)}
         /\ Range(StartParts(c)[6]) = IF c.tx THEN {Create(Tis)} ELSE {}
         /\ Range(StartParts(c)[7]) = {Create(Eq)}
<1>1. c.tx \in BOOLEAN /\ c.rx \in BOOLEAN /\ (c.tx \/ c.rx) \in BOOLEAN
  BY DEF Configs
<1>2. /\ StartParts(c)[1] = BringUpSteps
      /\ StartParts(c)[2] = When(c.rx, <<Create(Promisc)>>)
      /\ StartParts(c)[3] = <<Create(Uar), Create(Pd), Create(Td)>>
      /\ StartParts(c)[4] = When(c.rx, <<Create(QCounter)>>)
      /\ StartParts(c)[5] = When(c.tx \/ c.rx, <<Create(Mkey)>>)
      /\ StartParts(c)[6] = When(c.tx, <<Create(Tis)>>)
      /\ StartParts(c)[7] = <<Create(Eq)>>
      /\ StartParts(c)[8] = AllQueueSteps(c)
      /\ StartParts(c)[9] = When(c.rx, SteeringSteps(c.nq))
  BY DEF StartParts
<1>3. \A r : Range(<<Create(r)>>) = {Create(r)}
  BY DEF Range
<1>4. Range(<<Create(Uar), Create(Pd), Create(Td)>>) = {Create(Uar), Create(Pd),
        Create(Td)}
  BY DEF Range
<1>5. ASSUME NEW r
      PROVE  /\ Range(When(c.rx, <<Create(r)>>)) = IF c.rx THEN {Create(r)} ELSE {}
             /\ Range(When(c.tx, <<Create(r)>>)) = IF c.tx THEN {Create(r)} ELSE {}
             /\ Range(When(c.tx \/ c.rx, <<Create(r)>>)) \subseteq {Create(r)}
  BY <1>1, <1>3, WhenRange
<1>6. /\ Range(StartParts(c)[2]) \subseteq {Create(Promisc)}
      /\ Range(StartParts(c)[3]) = {Create(Uar), Create(Pd), Create(Td)}
      /\ Range(StartParts(c)[4]) = IF c.rx THEN {Create(QCounter)} ELSE {}
      /\ Range(StartParts(c)[5]) \subseteq {Create(Mkey)}
      /\ Range(StartParts(c)[6]) = IF c.tx THEN {Create(Tis)} ELSE {}
      /\ Range(StartParts(c)[7]) = {Create(Eq)}
  BY <1>2, <1>3, <1>4, <1>5
<1> QED BY <1>2, <1>6, Zenon

\* A part is among the parts up to any later one.
LEMMA UptoParts ==
  ASSUME NEW P, NEW k \in Nat, NEW m \in 1..k
  PROVE  Range(P[m]) \subseteq Upto(P, k)
BY DEF Upto

\* Before the event queue and the queues are created, no object has their names.
LEMMA EarlyNames ==
  ASSUME NEW c \in Configs
  PROVE  /\ Eq.obj \notin Created(Upto(StartParts(c), 6))
         /\ \A q : Created(Upto(StartParts(c), 7)) \intersect QueueNames(q) = {}
<1> DEFINE P == StartParts(c)
           R == Commands \union {Promisc, Uar, Pd, Td, QCounter, Mkey, Tis}
<1>1. ASSUME NEW p \in 1..6, NEW x \in Range(P[p]), x.do = "create"
      PROVE  x.res \in R
  <2>1. CASE p = 1
    BY <1>1, <2>1, StartPartRanges, BringUpRange, StepFields DEF Commands
  <2>2. CASE p # 1
    <3>1. p = 2 \/ p = 3 \/ p = 4 \/ p = 5 \/ p = 6
      BY <2>2
    <3>2. x \in {Create(Promisc), Create(Uar), Create(Pd), Create(Td), Create(QCounter),
                 Create(Mkey), Create(Tis)}
      BY <3>1, StartPartRanges
    <3> QED BY <3>2, StepFields
  <2> QED BY <2>1, <2>2
<1>2. ASSUME NEW p \in 1..7, NEW x \in Range(P[p]), x.do = "create"
      PROVE  x.res \in R \union {Eq}
  <2>1. CASE p = 7
    <3>1. x = Create(Eq)
      BY <2>1, StartPartRanges
    <3> QED BY <3>1, StepFields
  <2>2. CASE p \in 1..6
    BY <1>1, <1>2, <2>2
  <2> QED BY <2>1, <2>2
<1>3. \A r \in R : r.obj[1] \notin {"eq", "rq", "sq", "rx_cq", "tx_cq"}
  <2>1. \A r \in Commands \union {Promisc} :
          r.obj[1] \notin {"eq", "rq", "sq", "rx_cq", "tx_cq"}
    BY BringUpFields DEF Commands, Is
  <2>2. \A r \in {Uar, Pd, Td, QCounter, Mkey, Tis} :
          r.obj[1] \notin {"eq", "rq", "sq", "rx_cq", "tx_cq"}
    BY DeviceFields DEF Is
  <2> QED BY <2>1, <2>2
<1>4. Eq.obj = <<"eq", 0>>
  BY DeviceFields DEF Is
<1> HIDE DEF R, P
<1>5. Eq.obj \notin Created(Upto(P, 6))
  BY <1>1, <1>3, <1>4 DEF Created, Upto
<1>6. \A o \in Created(Upto(P, 7)) : o[1] \notin {"rq", "sq", "rx_cq", "tx_cq"}
  <2>1. \A r \in R \union {Eq} : r.obj[1] \notin {"rq", "sq", "rx_cq", "tx_cq"}
    BY <1>3, <1>4
  <2> QED BY <1>2, <2>1 DEF Created, Upto
<1>7. \A q : \A o \in QueueNames(q) : o[1] \in {"rq", "sq", "rx_cq", "tx_cq"}
  BY DEF QueueNames
<1> QED BY <1>5, <1>6, <1>7 DEF P

\* Earlier queues do not use the names of later ones.
LEMMA EarlierQueues ==
  ASSUME NEW c \in Configs, NEW k \in 1..c.nq
  PROVE  Created(Upto(QueueParts(c), k - 1)) \intersect QueueNames(k - 1) = {}
<1>1. c.nq \in Nat
  BY DeviceAssumption DEF Configs
<1>2. ASSUME NEW m \in 1..(k - 1), NEW x \in Range(QueueParts(c)[m])
      PROVE  x.res.obj \in QueueNames(m - 1)
  <2>1. m - 1 \in Nat /\ QueueParts(c)[m] = QueueSteps(c, m - 1)
    BY <1>1 DEF QueueParts
  <2>2. x \in Range(TxQueueSteps(m - 1)) \union Range(RxQueueSteps(m - 1))
    BY <2>1, QueueStepsSeq
  <2>3. x.res \in {Cq("tx_cq", m - 1), Sq(m - 1), Cq("rx_cq", m - 1), Rq(m - 1)}
    BY <2>2, QueueRanges, StepFields
  <2>4. /\ Cq("tx_cq", m - 1).obj = <<"tx_cq", m - 1>>
             /\ Cq("rx_cq", m - 1).obj = <<"rx_cq", m - 1>>
        /\ Sq(m - 1).obj = <<"sq", m - 1>> /\ Rq(m - 1).obj = <<"rq", m - 1>>
    BY QueueFields DEF Is
  <2> QED BY <2>3, <2>4 DEF QueueNames
<1>3. ASSUME NEW m \in 1..(k - 1)
      PROVE  QueueNames(m - 1) \intersect QueueNames(k - 1) = {}
  <2>1. m - 1 # k - 1
    BY <1>1
  <2> QED BY <2>1 DEF QueueNames
<1> QED BY <1>2, <1>3 DEF Created, Upto

\* A step of a queue is one of its transmit or of its receive steps.
LEMMA QueueStepAt ==
  ASSUME NEW c \in Configs, NEW q \in Nat, NEW l \in 1..Len(QueueSteps(c, q))
  PROVE  \/ /\ c.tx
            /\ \E j \in 1..3 : /\ QueueSteps(c, q)[l] = TxQueueSteps(q)[j]
                               /\ Before(QueueSteps(c, q), l) = Before(TxQueueSteps(q),
                                    j)
         \/ /\ c.rx
            /\ \E j \in 1..4 :
                 /\ QueueSteps(c, q)[l] = RxQueueSteps(q)[j]
                 /\ Before(QueueSteps(c, q), l) =
                      (IF c.tx THEN Range(TxQueueSteps(q)) ELSE {})
                        \union Before(RxQueueSteps(q), j)
<1> DEFINE s == When(c.tx, TxQueueSteps(q))
           t == When(c.rx, RxQueueSteps(q))
           S == Range(TxQueueSteps(q)) \union Range(RxQueueSteps(q))
<1>1. c.tx \in BOOLEAN /\ c.rx \in BOOLEAN
  BY DEF Configs
<1>2. TxQueueSteps(q) \in Seq(S) /\ Len(TxQueueSteps(q)) = 3
  BY QueueRanges DEF TxQueueSteps
<1>3. RxQueueSteps(q) \in Seq(S) /\ Len(RxQueueSteps(q)) = 4
  BY QueueRanges DEF RxQueueSteps
<1>4. s \in Seq(S) /\ t \in Seq(S)
  BY <1>2, <1>3 DEF When
<1>5. /\ c.tx => s = TxQueueSteps(q) /\ Len(s) = 3
      /\ ~c.tx => Len(s) = 0
      /\ c.rx => t = RxQueueSteps(q) /\ Len(t) = 4
      /\ ~c.rx => Len(t) = 0
      /\ Range(s) = IF c.tx THEN Range(TxQueueSteps(q)) ELSE {}
  BY <1>1, <1>2, <1>3, WhenRange DEF When
<1>6. QueueSteps(c, q) = s \o t
  BY DEF QueueSteps
<1> HIDE DEF s, t, S
<1>7. Len(s) \in Nat /\ Len(t) \in Nat /\ Len(s \o t) = Len(s) + Len(t)
  BY <1>4
<1>8. CASE l \in 1..Len(s)
  <2>1. (s \o t)[l] = s[l] /\ Before(s \o t, l) = Before(s, l)
    BY <1>4, <1>8, BeforeConcat
  <2>2. c.tx /\ l \in 1..3
    <3>1. Len(s) # 0
      BY <1>8
    <3>2. c.tx
      BY <1>5, <3>1, Zenon
    <3> QED BY <1>5, <1>8, <3>2
  <2> QED BY <1>5, <1>6, <2>1, <2>2
<1>9. CASE l \notin 1..Len(s)
  <2>1. PICK j \in 1..Len(t) : l = Len(s) + j
    <3>1. l - Len(s) \in 1..Len(t) /\ l = Len(s) + (l - Len(s))
      BY <1>6, <1>7, <1>9
    <3> QED BY <3>1
  <2>2. (s \o t)[l] = t[j] /\ Before(s \o t, l) = Range(s) \union Before(t, j)
    BY <1>4, <2>1, BeforeConcat
  <2>3. c.rx /\ j \in 1..4
    <3>1. Len(t) # 0
      OBVIOUS
    <3>2. c.rx
      BY <1>5, <3>1, Zenon
    <3> QED BY <1>5, <3>2
  <2> QED BY <1>5, <1>6, <2>2, <2>3
<1> QED BY <1>8, <1>9

(***************************************************************************)
(* The order of mlxnicd_dev_start: in every configuration, each command    *)
(* comes after those it depends on, and no memory is mapped twice.         *)
(***************************************************************************)
LEMMA StartInTime ==
  ASSUME NEW c \in Configs, NEW i \in 1..Len(StartOrder[c])
  PROVE  InTime(StartOrder[c][i], Before(StartOrder[c], i))
<1> DEFINE P == StartParts(c)
           B == Before(StartOrder[c], i)
<1>1. PICK p \in 1..9 : \E j \in 1..Len(P[p]) :
        /\ StartOrder[c][i] = P[p][j]
        /\ B = Upto(P, p - 1) \union Before(P[p], j)
  BY StartInOrder DEF InOrder
<1>2. PICK j \in 1..Len(P[p]) :
        /\ StartOrder[c][i] = P[p][j]
        /\ B = Upto(P, p - 1) \union Before(P[p], j)
  BY <1>1
<1>3. c.tx \in BOOLEAN /\ c.rx \in BOOLEAN /\ c.nq \in 1..MaxQueues /\ c.nq \in Nat
  BY DeviceAssumption DEF Configs
<1>4. /\ p > 1 => Create(InitHca) \in B
      /\ p > 3 => Create(Uar) \in B /\ Create(Pd) \in B /\ Create(Td) \in B
      /\ p > 4 /\ c.rx => Create(QCounter) \in B
      /\ p > 6 /\ c.tx => Create(Tis) \in B
      /\ p > 7 => Create(Eq) \in B
      /\ p > 8 => Range(AllQueueSteps(c)) \subseteq B
  <2>1. \A m \in 1..(p - 1) : Range(P[m]) \subseteq B
    BY <1>2, UptoParts
  <2>2. Create(InitHca) \in Range(P[1])
    BY StartPartRanges, BringUpRange
  <2>3. /\ p > 1 => 1 \in 1..(p - 1)
        /\ p > 3 => 3 \in 1..(p - 1)
        /\ p > 4 => 4 \in 1..(p - 1)
        /\ p > 6 => 6 \in 1..(p - 1)
        /\ p > 7 => 7 \in 1..(p - 1)
        /\ p > 8 => 8 \in 1..(p - 1)
    OBVIOUS
  <2> HIDE DEF P, B
  <2>4. p > 1 => Create(InitHca) \in B
    BY <2>1, <2>2, <2>3
  <2>5. p > 3 => Create(Uar) \in B /\ Create(Pd) \in B /\ Create(Td) \in B
    BY <2>1, <2>3, StartPartRanges DEF P
  <2>6. p > 4 /\ c.rx => Create(QCounter) \in B
    BY <2>1, <2>3, StartPartRanges DEF P
  <2>7. p > 6 /\ c.tx => Create(Tis) \in B
    BY <2>1, <2>3, StartPartRanges DEF P
  <2>8. p > 7 => Create(Eq) \in B
    BY <2>1, <2>3, StartPartRanges DEF P
  <2>9. p > 8 => Range(AllQueueSteps(c)) \subseteq B
    BY <2>1, <2>3, StartPartRanges DEF P
  <2> QED BY <2>4, <2>5, <2>6, <2>7, <2>8, <2>9
<1>5. CASE p = 1
  <2>1. Len(BringUpSteps) = 13 /\ P[1] = BringUpSteps
    BY StartPartRanges DEF BringUpSteps
  <2>2. Before(BringUpSteps, j) \subseteq B
    BY <1>2, <1>5, <2>1
  <2> QED BY <1>2, <1>5, <2>1, <2>2, BringUpInTime
<1>6. CASE p \in {2, 3, 4, 5, 6, 7}
  <2>1. \/ StartOrder[c][i] \in {Create(r) : r \in {Promisc, Uar, Pd, Td, QCounter}}
        \/ p > 3 /\ StartOrder[c][i] = Create(Mkey)
        \/ p > 3 /\ StartOrder[c][i] = Create(Tis)
        \/ p = 7 /\ StartOrder[c][i] = Create(Eq) /\ j = 1
    <3>1. CASE p \in {2, 4, 5, 6}
      <4>1. /\ Len(<<>>) = 0 /\ \A x : Len(<<x>>) = 1 /\ <<x>>[1] = x
        OBVIOUS
      <4>2. PICK r \in {Promisc, QCounter, Mkey, Tis} :
              /\ P[p] = <<Create(r)>> \/ P[p] = <<>>
              /\ r \in {Promisc, QCounter} \/ p > 3
        <5>1. CASE p = 2
          BY <5>1, StartPartRanges DEF When
        <5>2. CASE p = 4
          BY <5>2, StartPartRanges DEF When
        <5>3. CASE p = 5
          BY <5>3, StartPartRanges DEF When
        <5>4. CASE p = 6
          BY <5>4, StartPartRanges DEF When
        <5> QED BY <3>1, <5>1, <5>2, <5>3, <5>4
      <4>3. P[p] = <<Create(r)>> /\ j = 1
        <5>1. Len(P[p]) # 0
          OBVIOUS
        <5>2. P[p] = <<Create(r)>>
          BY <4>1, <4>2, <5>1, Zenon
        <5> QED BY <4>1, <5>2
      <4> QED BY <1>2, <4>1, <4>2, <4>3
    <3>2. CASE p = 3
      <4>1. P[3] = <<Create(Uar), Create(Pd), Create(Td)>>
        BY StartPartRanges
      <4>2. j = 1 \/ j = 2 \/ j = 3
        BY <3>2, <4>1
      <4> QED BY <1>2, <3>2, <4>1, <4>2
    <3>3. CASE p = 7
      <4>1. P[7] = <<Create(Eq)>>
        BY StartPartRanges
      <4>2. j = 1
        BY <3>3, <4>1
      <4> QED BY <1>2, <3>3, <4>1, <4>2
    <3> QED BY <1>6, <3>1, <3>2, <3>3
  <2>2. CASE p = 7 /\ StartOrder[c][i] = Create(Eq) /\ j = 1
    <3>1. Before(P[7], 1) = {}
      BY DEF Before
    <3>2. B = Upto(P, 6)
      BY <1>2, <2>2, <3>1
    <3>3. Eq.obj \notin Created(B)
      BY <3>2, EarlyNames
    <3> QED BY <1>4, <2>2, <3>3, DeviceInTime
  <2> QED BY <1>4, <1>6, <2>1, <2>2, DeviceInTime
<1>7. CASE p = 8
  <2> DEFINE Q == QueueParts(c)
             s == AllQueueSteps(c)
  <2>1. P[8] = s
    BY StartPartRanges
  <2>2. j \in 1..Len(s)
    BY <1>7, <2>1
  <2>3. PICK k \in 1..c.nq : \E l \in 1..Len(Q[k]) :
          s[j] = Q[k][l] /\ Before(s, j) = Upto(Q, k - 1) \union Before(Q[k], l)
    BY <2>2, AllQueueStepsInOrder DEF InOrder
  <2>4. PICK l \in 1..Len(Q[k]) :
          s[j] = Q[k][l] /\ Before(s, j) = Upto(Q, k - 1) \union Before(Q[k], l)
    BY <2>3
  <2>5. PICK q \in Nat : q = k - 1
    BY <1>3
  <2>6. Q[k] = QueueSteps(c, q)
    BY <2>5 DEF QueueParts
  <2>7. PICK A : A = Upto(P, 7) \union Upto(Q, k - 1)
    OBVIOUS
  <2>8. B = A \union Before(QueueSteps(c, q), l)
    BY <1>2, <1>7, <2>1, <2>4, <2>6, <2>7
  <2>9. StartOrder[c][i] = QueueSteps(c, q)[l]
    BY <1>2, <1>7, <2>1, <2>4, <2>6
  <2>10. /\ Create(Uar) \in A /\ Create(Pd) \in A /\ Create(Eq) \in A
         /\ c.tx => Create(Tis) \in A
         /\ c.rx => Create(QCounter) \in A
    <3>1. /\ Range(P[3]) \subseteq A /\ Range(P[4]) \subseteq A
               /\ Range(P[6]) \subseteq A
          /\ Range(P[7]) \subseteq A
      BY <2>7, UptoParts
    <3> HIDE DEF P
    <3>2. /\ Create(Uar) \in Range(P[3]) /\ Create(Pd) \in Range(P[3])
               /\ Create(Eq) \in Range(P[7])
          /\ c.tx => Create(Tis) \in Range(P[6])
          /\ c.rx => Create(QCounter) \in Range(P[4])
      BY StartPartRanges DEF P
    <3> QED BY <3>1, <3>2
  <2>11. Created(A) \intersect QueueNames(q) = {}
    <3>1. \A C, D : Created(C \union D) = Created(C) \union Created(D)
      BY DEF Created
    <3>2. Created(A) = Created(Upto(P, 7)) \union Created(Upto(Q, k - 1))
      BY <2>7, <3>1
    <3>3. /\ Created(Upto(P, 7)) \intersect QueueNames(q) = {}
          /\ Created(Upto(Q, k - 1)) \intersect QueueNames(q) = {}
      BY <2>5, EarlyNames, EarlierQueues
    <3> QED BY <3>2, <3>3
  <2>12. l \in 1..Len(QueueSteps(c, q))
    BY <2>6
  <2> HIDE DEF P, B, Q, s
  <2>13. CASE c.tx /\ \E m \in 1..3 :
                /\ QueueSteps(c, q)[l] = TxQueueSteps(q)[m]
                /\ Before(QueueSteps(c, q), l) = Before(TxQueueSteps(q), m)
    <3>1. PICK m \in 1..3 :
                /\ QueueSteps(c, q)[l] = TxQueueSteps(q)[m]
                /\ Before(QueueSteps(c, q), l) = Before(TxQueueSteps(q), m)
      BY <2>13
    <3>2. InTime(TxQueueSteps(q)[m], A \union Before(TxQueueSteps(q), m))
      BY <2>10, <2>11, <2>13, QueueInTime
    <3> QED BY <2>8, <2>9, <3>1, <3>2 DEF B
  <2>14. CASE c.rx /\ \E m \in 1..4 :
                /\ QueueSteps(c, q)[l] = RxQueueSteps(q)[m]
                /\ Before(QueueSteps(c, q), l) =
                     (IF c.tx THEN Range(TxQueueSteps(q)) ELSE {})
                       \union Before(RxQueueSteps(q), m)
    <3>1. PICK m \in 1..4 :
                /\ QueueSteps(c, q)[l] = RxQueueSteps(q)[m]
                /\ Before(QueueSteps(c, q), l) =
                     (IF c.tx THEN Range(TxQueueSteps(q)) ELSE {})
                       \union Before(RxQueueSteps(q), m)
      BY <2>14
    <3>2. \/ B = A \union Before(RxQueueSteps(q), m)
          \/ B = A \union Range(TxQueueSteps(q)) \union Before(RxQueueSteps(q), m)
      BY <1>3, <2>8, <3>1
    <3>3. /\ InTime(RxQueueSteps(q)[m], A \union Before(RxQueueSteps(q), m))
          /\ InTime(RxQueueSteps(q)[m],
                    A \union Range(TxQueueSteps(q)) \union Before(RxQueueSteps(q), m))
      BY <2>10, <2>11, <2>14, QueueInTime
    <3> QED BY <2>9, <3>1, <3>2, <3>3 DEF B
  <2> QED BY <2>12, <2>13, <2>14, QueueStepAt
<1>8. CASE p = 9
  <2>1. P[9] = When(c.rx, SteeringSteps(c.nq)) /\ Len(SteeringSteps(c.nq)) = 6
          /\ Len(<<>>) = 0
    BY StartPartRanges DEF SteeringSteps
  <2>2. c.rx /\ P[9] = SteeringSteps(c.nq) /\ j \in 1..6
    <3>1. Len(P[9]) # 0
      BY <1>8
    <3>2. c.rx
      BY <2>1, <3>1, Zenon DEF When
    <3> QED BY <1>8, <2>1, <3>2 DEF When
  <2>3. \A q \in 0..(c.nq - 1) : Create(Rq(q)) \in B
    <3>1. \A q \in 0..(c.nq - 1) : Create(Rq(q)) \in Range(AllQueueSteps(c))
      BY <2>2, AllQueueRange, QueueRanges
    <3> QED BY <1>4, <1>8, <3>1
  <2>4. Before(SteeringSteps(c.nq), j) \subseteq B
    BY <1>2, <1>8, <2>2
  <2>5. Create(InitHca) \in B /\ Create(Td) \in B
    BY <1>4, <1>8
  <2>6. StartOrder[c][i] = SteeringSteps(c.nq)[j]
    BY <1>2, <1>8, <2>2
  <2> HIDE DEF B, P
  <2> QED BY <1>3, <2>2, <2>3, <2>4, <2>5, <2>6, SteeringInTime DEF B
<1> QED BY <1>5, <1>6, <1>7, <1>8

\* The next step of a start comes in time.
LEMMA StepInTime ==
  ASSUME DeviceInv, pc = "starting", step <= Len(StartOrder[config])
  PROVE  InTime(Step, Before(StartOrder[config], step))
<1>1. config \in Configs /\ step \in 1..(Len(StartOrder[config]) + 1)
  BY DEF DeviceInv, DeviceTypeOK, InvStarting
<1>2. Len(StartOrder[config]) \in Nat
  BY <1>1, StartInOrder
<1>3. step \in 1..Len(StartOrder[config])
  BY <1>1, <1>2
<1> QED BY <1>1, <1>3, StartInTime DEF Step

\* What an honest step of the start leaves.
LEMMA QuietStep ==
  ASSUME DeviceInv, InvQuiet, pc = "starting", step <= Len(StartOrder[config]),
         config' = config, StartContinues, faults = 0,
         fw \subseteq fw', known \subseteq known',
         Step.do \in {"create", "give"} => Step.res.obj \in fw',
         Step.do = "create" => Step.res.obj \in known',
         \A d \in dma' \ dma : d[2] = "rx_pages"
           \/ (Step.do = "create" /\ d[1] = Step.res.obj)
  PROVE  InvQuiet'
<1> DEFINE B == Before(StartOrder[config], step)
<1>1. /\ Made(B) \subseteq fw
      /\ Created(B) \subseteq known
      /\ \A d \in dma \ CtxRegions : d[1] \in Created(B) \/ d[2] = "rx_pages"
  BY DEF InvQuiet
<1>2. Before(StartOrder[config'], step') = B \union {Step}
  BY StepFacts DEF StartContinues
<1>3. Made(B \union {Step}) =
        Made(B) \union (IF Step.do \in {"create", "give"} THEN {Step.res.obj} ELSE {})
  BY DEF Made
<1>4. Created(B \union {Step}) =
        Created(B) \union (IF Step.do = "create" THEN {Step.res.obj} ELSE {})
  BY DEF Created
<1> HIDE DEF B
<1>5. Made(B \union {Step}) \subseteq fw' /\ Created(B \union {Step}) \subseteq known'
  BY <1>1, <1>3, <1>4
<1>6. \A d \in dma' \ CtxRegions : d[1] \in Created(B \union {Step})
        \/ d[2] = "rx_pages"
  BY <1>1, <1>4
<1> QED BY <1>2, <1>5, <1>6 DEF InvQuiet

\* A step that is not refused without a fault.
LEMMA NoFault ==
  ASSUME faults \in Nat, faults' = 0
  PROVE  /\ ~Fault
         /\ \A possible, r, done : Exec(possible, r, done)
              => Honest(possible, r, done) /\ faults = 0
         /\ UNCHANGED faults => faults = 0
BY DEF Fault, Exec

\* Every step keeps InvQuiet.
LEMMA QuietInv ==
  ASSUME DeviceInv, InvQuiet, [Next]_vars
  PROVE  InvQuiet'
<1> SUFFICES ASSUME pc' = "starting", faults' = 0 PROVE InvQuiet'
  BY DEF InvQuiet
<1>1. faults \in Nat
  BY DEF DeviceInv, DeviceTypeOK
<1>2. CASE UNCHANGED vars
  BY <1>2 DEF InvQuiet, vars, devvars, rtvars, memory, fwvars, history
<1>3. CASE pc # "starting" /\ Next
  <2>1. OpenDone
    BY <1>3 DEF Next, DevOpen, Life, DevConfigure, DevStart, DevStartAgain, DevStop,
         DevCloseStopped,
       Calls, TxBurstQ, TxFlushQ, RxBurstQ, RxReleaseQ, DataCall, Open, OpenStep,
         OpenFails,
       Cleanup, CleanupDestroy, CleanupSkip, CleanupStep, CtxClose
  <2>2. step' = 1 /\ dma' \subseteq CtxRegions
    BY <2>1 DEF OpenDone, DeviceInv, InvClosed, Active, rtvars, memory
  <2>3. Before(StartOrder[config'], step') = {}
    BY <2>2 DEF Before
  <2>4. Made({}) = {} /\ Created({}) = {}
    BY DEF Made, Created
  <2> QED BY <2>2, <2>3, <2>4 DEF InvQuiet
<1>4. CASE pc = "starting" /\ Next
  <2> USE NoFault, <1>1
  <2>1. Start
    BY <1>4 DEF Next, DevOpen
  <2>2. CASE \E out \in Outcomes : CreateObject(out[1], out[2])
    <3>1. PICK r \in {0, -1}, done \in BOOLEAN : CreateObject(r, done)
      BY <2>2 DEF Outcomes
    <3>2. /\ step <= Len(StartOrder[config]) /\ config' = config
          /\ StartGoesOn(r) /\ Exec(Step.res.needs \subseteq fw, r, done)
          /\ fw' = IF done THEN fw \union {Step.res.obj} ELSE fw
          /\ \/ r = 0 /\ known' = known \union {Step.res.obj}
             \/ (r # 0 \/ (Step.res.zero_absent /\ ~done)) /\ known' = known
          /\ dma' = IF r = 0 THEN dma
               \union ({Step.res.obj} \X Step.res.regions) ELSE dma
          /\ Step.do = "create"
      BY <3>1 DEF CreateObject, StartStep, devvars
    <3>3. r = 0 /\ StartContinues
      BY <3>2 DEF StartGoesOn, StartFails
    <3>4. done /\ faults = 0
      BY <3>2, <3>3 DEF Honest
    <3> QED BY <1>4, <3>2, <3>3, <3>4, QuietStep
  <2>3. CASE CreateNumberedZero \/ CreateGivesUp
               \/ \E n \in PageDemands : GiveFwPagesGivesUp(n)
    BY <2>3 DEF CreateNumberedZero, CreateGivesUp, GiveFwPagesGivesUp, StartFails
  <2>4. CASE \E r \in {0, -1} : QueryFirmware(r)
    <3>1. PICK r \in {0, -1} : QueryFirmware(r)
      BY <2>4
    <3>2. /\ step <= Len(StartOrder[config]) /\ config' = config
          /\ StartGoesOn(r) /\ fw' = fw /\ known' = known /\ dma' = dma
               /\ Step.do = "query"
      BY <3>1 DEF QueryFirmware, StartStep, devvars, memory, fwvars
    <3>3. StartContinues
      BY <3>2 DEF StartGoesOn, StartFails
    <3>4. faults = 0
      <4>1. UNCHANGED faults \/ Fault
        BY <3>1, Zenon DEF QueryFirmware, Exec
      <4> QED BY <4>1
    <3> QED BY <1>4, <3>2, <3>3, <3>4, QuietStep
  <2>5. CASE \E n \in PageDemands : \E out \in Outcomes : GiveFwPages(n, out[1], out[2])
    <3>1. PICK n \in PageDemands, r \in {0, -1},
                 done \in BOOLEAN : GiveFwPages(n, r, done)
      BY <2>5 DEF Outcomes
    <3>2. /\ step <= Len(StartOrder[config]) /\ config' = config
          /\ StartGoesOn(r) /\ Exec(Step.res.needs \subseteq fw, r, done)
          /\ fw' = IF done THEN fw \union {Step.res.obj} ELSE fw
          /\ known' = known /\ dma' = dma /\ Step.do = "give"
      BY <3>1 DEF GiveFwPages, StartStep, devvars
    <3>3. r = 0 /\ StartContinues
      BY <3>2 DEF StartGoesOn, StartFails
    <3>4. done /\ faults = 0
      BY <3>2, <3>3 DEF Honest
    <3> QED BY <1>4, <3>2, <3>3, <3>4, QuietStep
  <2>6. CASE NoFwPagesWanted
    <3>1. /\ step <= Len(StartOrder[config]) /\ config' = config
          /\ StartContinues /\ fw' = fw \union {Step.res.obj} /\ faults = 0
          /\ known' = known /\ dma' = dma /\ Step.do = "give"
      BY <2>6 DEF NoFwPagesWanted, StartStep, devvars, memory
    <3> QED BY <1>4, <3>1, QuietStep
  <2>7. CASE \E out \in Outcomes : ModifyReady(out[1], out[2])
    <3>1. PICK r \in {0, -1}, done \in BOOLEAN : ModifyReady(r, done)
      BY <2>7 DEF Outcomes
    <3>2. /\ step <= Len(StartOrder[config]) /\ config' = config
          /\ StartGoesOn(r) /\ Exec(Step.res.obj \in fw, r, done)
          /\ fw' = fw /\ known' = known /\ dma' = dma /\ Step.do = "modify"
      BY <3>1 DEF ModifyReady, StartStep, devvars, memory
    <3>3. StartContinues
      BY <3>2 DEF StartGoesOn, StartFails
    <3>4. faults = 0
      BY <3>2
    <3> QED BY <1>4, <3>2, <3>3, <3>4, QuietStep
  <2>8. CASE \E r \in {0, -1} : PostBuffers(r)
    <3>1. PICK r \in {0, -1} : PostBuffers(r)
      BY <2>8
    <3>2. /\ step <= Len(StartOrder[config]) /\ config' = config
          /\ StartGoesOn(r) /\ fw' = fw /\ known' = known /\ Step.do = "post"
          /\ dma' \subseteq dma \union {<<Step.res.obj, "rx_pages">>}
      BY <3>1 DEF PostBuffers, StartStep, devvars, fwvars
    <3>3. StartContinues
      BY <3>2 DEF StartGoesOn, StartFails
    <3>4. faults = 0
      <4>1. UNCHANGED faults \/ Fault
        BY <3>1, Zenon DEF PostBuffers, Exec
      <4> QED BY <4>1
    <3> QED BY <1>4, <3>2, <3>3, <3>4, QuietStep
  <2>9. CASE StartDone
    BY <2>9 DEF StartDone
  <2> QED BY <2>1, <2>2, <2>3, <2>4, <2>5, <2>6, <2>7, <2>8, <2>9 DEF Start
<1> QED BY <1>2, <1>3, <1>4

\* The packet pages are mapped by the post, not by the create command.
LEMMA WantedRegions ==
  ASSUME NEW c \in Configs, NEW r \in Wanted[c]
  PROVE  /\ "rx_pages" \notin r.regions
         /\ r.obj[1] = "tx_cq" => c.tx
<1>1. CASE r \in Commands \union {Promisc, FtRoot}
  BY <1>1, BringUpFields DEF Commands, Is
<1>2. CASE r \in {Uar, Pd, Td, QCounter, Mkey, Tis, Eq}
  BY <1>2, DeviceFields DEF Is
<1>3. CASE r \in {Rqt(c.nq), Tir, Ft, Fg, Fte}
  <2>1. Rqt(c.nq).obj = <<"rqt", 0>> /\ Rqt(c.nq).regions = {}
    BY RqtFields DEF Is
  <2> QED BY <1>3, <2>1, DeviceFields DEF Is
<1>4. ASSUME NEW q, r \in {Cq("tx_cq", q), Sq(q)}, c.tx
      PROVE  "rx_pages" \notin r.regions /\ c.tx
  BY <1>4, QueueFields DEF Is
<1>5. ASSUME NEW q, r \in {Cq("rx_cq", q), Rq(q)}
      PROVE  "rx_pages" \notin r.regions /\ r.obj[1] # "tx_cq"
  BY <1>5, QueueFields DEF Is
<1> QED BY <1>1, <1>2, <1>3, <1>4, <1>5, WantedCases

\* The memory of all the queues is within the address layout.
LEMMA RegionsAllowed == AllRegions \subseteq Regions(MLXNICD_MAX_QUEUES)
<1>1. Owners(MaxQueues) \subseteq Owners(MLXNICD_MAX_QUEUES)
  <2>1. 0..(MaxQueues - 1) \subseteq 0..(MLXNICD_MAX_QUEUES - 1)
    BY DeviceAssumption, LayoutAssumption DEF MLXNICD_MAX_QUEUES
  <2> QED BY <2>1 DEF Owners
<1> QED BY <1>1 DEF AllRegions, Regions

\* Without a fault, the memory of the next object can be mapped.
LEMMA QuietMappable ==
  ASSUME DeviceInv, InvQuiet, pc = "starting", step <= Len(StartOrder[config]),
         faults = 0, Step.do = "create", ~(config.tx /\ fw_page_count > FwRoom)
  PROVE  Mappable({Step.res.obj} \X Step.res.regions)
<1> DEFINE o == Step.res.obj
           B == Before(StartOrder[config], step)
<1>1. config \in Configs /\ Step.res \in Wanted[config]
        /\ fw_page_count \in 0..MLX5_MAX_FW_PAGES
      /\ dma \subseteq AllRegions
  BY StepFacts DEF DeviceInv, DeviceTypeOK
<1>2. \A d \in dma \ CtxRegions : d[1] \in Created(B) \/ d[2] = "rx_pages"
  BY DEF InvQuiet
<1>3. /\ "rx_pages" \notin Step.res.regions
      /\ o[1] = "tx_cq" => config.tx
      /\ {o} \X Step.res.regions \subseteq AllRegions
      /\ o # <<"ctx", 0>>
  BY <1>1, WantedRegions, WantedNames
<1>4. Step.res.regions # {} => o \notin Created(B)
  BY StepInTime DEF InTime
<1> HIDE DEF o, B
<1> SUFFICES ASSUME NEW d \in {o} \X Step.res.regions
             PROVE  /\ Clashes[d] \intersect dma = {}
                    /\ fw_page_count > 0 => Disjoint(SpanOf(d), FwSpan(fw_page_count))
  BY DEF Mappable, o
<1>5. d[1] = o /\ d[2] \in Step.res.regions /\ d \in AllRegions
  BY <1>3
<1>6. d \notin dma
  <2>1. d \notin CtxRegions
    BY <1>3, <1>5, OtherRegions
  <2> QED BY <1>2, <1>3, <1>4, <1>5, <2>1
<1>7. Clashes[d] \intersect dma = {}
  BY <1>1, <1>5, <1>6, RegionsAllowed, LayoutDisjoint DEF Clashes
<1>8. Disjoint(FwSpan(fw_page_count), SpanOf(d))
  <2>1. CASE d[1][1] # "tx_cq"
    BY <1>1, <1>5, <2>1, RegionsAllowed, OnlyTxCqsMeetPages
  <2>2. CASE d[1][1] = "tx_cq"
    <3>1. fw_page_count \in 0..FwRoom
      <4>1. FwRoom = 4096
        BY DEF FwRoom, TxCqBase, FwBase, MLX5_PAGE_SIZE
      <4>2. fw_page_count \in Nat /\ ~(fw_page_count > FwRoom)
        BY <1>1, <1>3, <1>5, <2>2 DEF MLX5_MAX_FW_PAGES
      <4> QED BY <4>1, <4>2
    <3> QED BY <1>5, <3>1, RegionsAllowed, FirmwarePagesFit
  <2> QED BY <2>1, <2>2
<1> QED BY <1>7, <1>8 DEF Disjoint

\* A start in which nothing goes wrong succeeds: no step comes before what it
\* needs, and no address it maps is taken, with the one exception of a firmware
\* that was given so many pages that the last lie where the first TX CQ goes.
THEOREM StartNeedsNoLuck == Spec => StartFailsOnlyOnFault
<1>1. ASSUME DeviceInv, InvQuiet, [Next]_vars, pc = "starting", pc' = "cleaning"
      PROVE  faults' > 0 \/ (config.tx /\ fw_page_count > FwRoom)
  <2> SUFFICES ASSUME ~(faults' > 0), ~(config.tx /\ fw_page_count > FwRoom)
               PROVE  FALSE
    OBVIOUS
  <2>1. faults \in Nat
    BY <1>1 DEF DeviceInv, DeviceTypeOK
  <2>2. Start
    BY <1>1 DEF Next, DevOpen, vars
  <2>3. ~Fault /\ (UNCHANGED faults => faults' = 0 /\ faults = 0)
    BY <2>1 DEF Fault
  <2> DEFINE B == Before(StartOrder[config], step)
  <2>4. ASSUME UNCHANGED faults, step <= Len(StartOrder[config])
        PROVE  /\ Step.do \in {"create", "give"} => Step.res.needs \subseteq fw
               /\ Step.do = "create" => Step.res.checks \subseteq known
               /\ Step.do = "modify" => Step.res.obj \in fw
    <3>1. Made(B) \subseteq fw /\ Created(B) \subseteq known
      BY <1>1, <2>3, <2>4 DEF InvQuiet
    <3>2. InTime(Step, B)
      BY <1>1, <2>4, StepInTime
    <3> QED BY <3>1, <3>2 DEF InTime
  <2>5. ASSUME NEW possible \in BOOLEAN, NEW r, NEW done \in BOOLEAN,
                 Exec(possible, r, done), r # 0
        PROVE  ~possible /\ UNCHANGED faults
    BY <2>3, <2>5 DEF Exec, Honest
  <2>6. CASE \E out \in Outcomes : CreateObject(out[1], out[2])
    <3>1. PICK r \in {0, -1}, done \in BOOLEAN : CreateObject(r, done)
      BY <2>6 DEF Outcomes
    <3>2. /\ step <= Len(StartOrder[config]) /\ Step.do = "create" /\ StartGoesOn(r)
          /\ Exec(Step.res.needs \subseteq fw, r, done)
      BY <3>1 DEF CreateObject, StartStep
    <3>3. r # 0
      BY <1>1, <3>2 DEF StartGoesOn, StartContinues
    <3> QED BY <2>4, <2>5, <3>2, <3>3
  <2>7. CASE CreateGivesUp
    <3>1. step <= Len(StartOrder[config]) /\ Step.do = "create"
      BY <2>7 DEF CreateGivesUp, StartStep
    <3>2. UNCHANGED faults
      BY <2>3, <2>7 DEF CreateGivesUp
    <3>3. /\ Step.res.checks \subseteq known
          /\ Mappable({Step.res.obj} \X Step.res.regions)
      BY <1>1, <2>3, <2>4, <3>1, <3>2, QuietMappable
    <3> QED BY <2>3, <2>7, <3>3 DEF CreateGivesUp
  <2>8. CASE \E r \in {0, -1} : QueryFirmware(r) \/ PostBuffers(r)
    <3>1. PICK r \in {0, -1} : QueryFirmware(r) \/ PostBuffers(r)
      BY <2>8
    <3>2. StartGoesOn(r) /\ Exec(TRUE, r, r = 0)
      BY <3>1, Zenon DEF QueryFirmware, PostBuffers
    <3>3. r # 0
      BY <1>1, <3>2 DEF StartGoesOn, StartContinues
    <3>4. ~Honest(TRUE, r, r = 0)
      BY <3>3, Zenon DEF Honest
    <3>5. Fault
      BY <3>2, <3>4, Zenon DEF Exec
    <3> QED BY <2>3, <3>5
  <2>9. CASE \E n \in PageDemands : \E out \in Outcomes : GiveFwPages(n, out[1], out[2])
    <3>1. PICK n \in PageDemands, r \in {0, -1},
                 done \in BOOLEAN : GiveFwPages(n, r, done)
      BY <2>9 DEF Outcomes
    <3>2. /\ step <= Len(StartOrder[config]) /\ Step.do = "give" /\ StartGoesOn(r)
          /\ Exec(Step.res.needs \subseteq fw, r, done)
      BY <3>1 DEF GiveFwPages, StartStep
    <3>3. r # 0
      BY <1>1, <3>2 DEF StartGoesOn, StartContinues
    <3> QED BY <2>4, <2>5, <3>2, <3>3
  <2>10. CASE \E out \in Outcomes : ModifyReady(out[1], out[2])
    <3>1. PICK r \in {0, -1}, done \in BOOLEAN : ModifyReady(r, done)
      BY <2>10 DEF Outcomes
    <3>2. /\ step <= Len(StartOrder[config]) /\ Step.do = "modify" /\ StartGoesOn(r)
          /\ Exec(Step.res.obj \in fw, r, done)
      BY <3>1 DEF ModifyReady, StartStep
    <3>3. r # 0
      BY <1>1, <3>2 DEF StartGoesOn, StartContinues
    <3>4. Step.res.obj \notin fw /\ UNCHANGED faults
      BY <2>3, <3>2, <3>3 DEF Exec, Honest
    <3> QED BY <2>4, <3>2, <3>4
  <2>11. CASE \/ CreateNumberedZero \/ NoFwPagesWanted \/ StartDone
              \/ \E n \in PageDemands : GiveFwPagesGivesUp(n)
    BY <1>1, <2>3, <2>11
       DEF CreateNumberedZero, NoFwPagesWanted, StartDone, GiveFwPagesGivesUp,
             StartContinues
  <2> QED BY <2>2, <2>6, <2>7, <2>8, <2>9, <2>10, <2>11 DEF Start
<1>2. Init => InvQuiet
  BY DEF Init, InvQuiet
<1>3. DeviceInv /\ InvQuiet /\ [Next]_vars => InvQuiet'
  BY QuietInv
<1>4. DeviceInv /\ InvQuiet /\ [Next]_vars
        => [pc = "starting" /\ pc' = "cleaning" =>
              faults' > 0 \/ (config.tx /\ fw_page_count > FwRoom)]_vars
  BY <1>1
<1> QED BY <1>2, <1>3, <1>4, DeviceInvariant, PTL DEF StartFailsOnlyOnFault, Spec
====
