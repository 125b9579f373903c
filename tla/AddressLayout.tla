----------------------------- MODULE AddressLayout -----------------------------
(***************************************************************************)
(* Where the driver maps its memory for the device.  Every address is a    *)
(* constant, some of them computed from the queue number or the number of  *)
(* pages given to the firmware before, in the function that maps it;       *)
(* nothing in the code compares one with another.                          *)
(***************************************************************************)
EXTENDS Integers

MLX5_PAGE_SIZE == 4096

MLX5_CMD_MBOX_SIZE == 1048576

MLX5_MAX_FW_PAGES == 8192

MLX5_CQ_DMA_BYTES == 2048 * 64

MLX5_SQ_DMA_BYTES == 8192 * 64

MLX5_RQ_DMA_BYTES == 4096 * 16

\* The pages of a receive queue's 4096 slots.
RxBytes == 4096 * MLX5_PAGE_SIZE

Span(first, len) == [first |-> first, end |-> first + len]

Page(first) == Span(first, MLX5_PAGE_SIZE)

-------------------------------------------------------------------------------
CtxSpans ==
  [cmdq   |-> Page(\h01000000),
   inbox  |-> Span(\h01800000, MLX5_CMD_MBOX_SIZE),
   outbox |-> Span(\h02000000, MLX5_CMD_MBOX_SIZE)]

EqSpans == [eq_page |-> Page(\h07200000)]

TxCqBase(q) == \h04000000 + q * \h00100000

RxCqBase(q) == \h0a000000 + q * \h00200000

CqSpans(base) ==
  [cq_page  |-> Span(base, MLX5_CQ_DMA_BYTES),
   dbr_page |-> Page(base + \h00040000)]

\* Mutant: a step for a send queue of 4096 entries.
SqBase_HalfStep(q) == \h05000000 + q * \h00080000

SqBase(q) == \h05000000 + q * \h00100000

SqSpans(q) ==
  [sq_page  |-> Span(SqBase(q), MLX5_SQ_DMA_BYTES),
   dbr_page |-> Page(SqBase(q) + \h00080000),
   tx_page  |-> Page(SqBase(q) + \h00081000)]

RqBase(q) == \h0c000000 + q * \h02000000

RqSpans(q) ==
  [rq_page  |-> Span(RqBase(q), MLX5_RQ_DMA_BYTES),
   dbr_page |-> Page(RqBase(q) + \h00010000),
   rx_pages |-> Span(RqBase(q) + \h00100000, RxBytes)]

FwBase == \h03000000

\* The first count firmware pages, which mlx5_ctx_give_pages maps upward.
FwSpan(count) == Span(FwBase, count * MLX5_PAGE_SIZE)

-------------------------------------------------------------------------------
\* The spans of object o, <<kind, queue>>, one for each of its regions.
Spans(o) ==
  LET kind == o[1]
      q == o[2]
  IN  [ctx   |-> CtxSpans,
       eq    |-> EqSpans,
       tx_cq |-> CqSpans(TxCqBase(q)),
       rx_cq |-> CqSpans(RxCqBase(q)),
       sq    |-> SqSpans(q),
       rq    |-> RqSpans(q)][kind]

Owners(n) ==
  {<<"ctx", 0>>, <<"eq", 0>>}
  \union ({"tx_cq", "rx_cq", "sq", "rq"} \X (0..(n - 1)))

\* The regions of a device with n queues, <<owner, region>>.
Regions(n) == UNION {{o} \X DOMAIN Spans(o) : o \in Owners(n)}

SpanOf(d) == Spans(d[1])[d[2]]

Disjoint(s, t) == s.end <= t.first \/ t.end <= s.first

\* The firmware pages for which there is room below the first TX CQ.
FwRoom == (TxCqBase(0) - FwBase) \div MLX5_PAGE_SIZE

===============================================================================
