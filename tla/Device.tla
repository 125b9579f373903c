-------------------------------- MODULE Device --------------------------------
(***************************************************************************)
(* The life of a struct mlxnicd_dev: open, configure, start, stop, close,  *)
(* the order in which mlxnicd_dev_start creates the firmware objects and   *)
(* mlx5_test_runtime_cleanup destroys them, and the guards with which the  *)
(* data path calls refuse a device that is not ready for them.             *)
(*                                                                         *)
(* Every firmware command is one step with two independent outcomes: what  *)
(* mlx5_cmd_exec returned, and whether the firmware carried the command    *)
(* out.  CmdQueue shows that all four combinations happen (refused,        *)
(* answered after the timeout, not delivered but reported as done).  What  *)
(* the calls do once they are let in is in TxQueue and RxQueue.            *)
(***************************************************************************)
EXTENDS Integers, SequencesExt, AddressLayout

CONSTANTS
  MaxQueues,   \* MLXNICD_MAX_QUEUES, 8 in the code
  MaxFaults,   \* bound, for each number of queues: what may go wrong in a
               \* start and the stop after it
  PageDemands  \* numbers of pages the firmware may ask for

ASSUME DeviceAssumption ==
  /\ MaxQueues \in Nat \ {0}
  /\ MaxFaults \in [1..MaxQueues -> Nat]
  /\ PageDemands \subseteq Nat

\* The addresses are laid out for the queues the code allows.
ASSUME LayoutAssumption == MaxQueues <= 8

VARIABLES
  pc,           \* "none" (no handle), "idle", "opening", "starting", "cleaning"
  goal,         \* the call in progress: "none", "start", "stop" or "close"
  step,         \* position in OpenOrder, StartSteps or CleanupOrder
  config,       \* dev->config
  started,      \* dev->started
  last_error,   \* dev->last_error
  outstanding,  \* queues whose rx_outstanding is not 0
  queues,       \* rt->queue_count
  known,        \* objects rt would destroy: valid, have_x set, or number not 0
  rc,           \* the local rc: 0 or -1
  dma,          \* regions mapped for the device, <<owner, region>>
  fw_page_count,\* ctx->fw_page_count: pages mapped for the firmware
  vfio,         \* what vfio_device_open holds of VfioOrder
  cmdq_reg,     \* the device's command queue registers: "orig" (as this
                \* start found them), "ours" or "zero"
  cmdq_saved,   \* ctx->cmdq_h_orig and cmdq_l_sz_orig
  fw,           \* what the firmware holds of this start
  ready,        \* send and receive queues the firmware moved to RDY
  failed,       \* history: objects a command reported as failed, untruly
                \* or with the object left behind
  misled,       \* history: objects a command reported as done, untruly, or
                \* whose number is 0 and taken for absent
  faults,       \* commands of this start and stop that went wrong
  call          \* the queue the last data path call was let in to, or <<>>

devvars == <<config, started, last_error, outstanding>>
memory == <<dma, fw_page_count>>
rtvars == <<queues, known, memory>>
ctxvars == <<vfio, cmdq_reg, cmdq_saved>>
fwvars == <<fw, ready>>
history == <<failed, misled, faults>>
vars == <<pc, goal, step, rc, call, ctxvars, devvars, rtvars, fwvars, history>>

Queues == 0..(MaxQueues - 1)

-------------------------------------------------------------------------------
(***************************************************************************)
(* What the driver creates.  obj names the object; needs are the objects   *)
(* whose numbers go into its create command, which the firmware looks up;  *)
(* checks are the valid flags the create and the destroy function test     *)
(* before anything else; regions are mapped before the create command and  *)
(* unmapped if it fails, and unmapped after the destroy command whatever   *)
(* it returned.  An object with zero_absent is remembered by its number,   *)
(* and not destroyed if that is 0; the others have a flag.                 *)
(***************************************************************************)
Resource(obj, needs, checks, regions) ==
  [obj |-> obj, needs |-> needs, checks |-> checks, regions |-> regions,
   zero_absent |-> obj[1] \in {"uar", "pd", "mkey"}]

Uar == Resource(<<"uar", 0>>, {<<"init_hca", 0>>}, {}, {})

Pd == Resource(<<"pd", 0>>, {<<"init_hca", 0>>}, {}, {})

QCounter == Resource(<<"q_counter", 0>>, {<<"init_hca", 0>>}, {}, {})

Td == Resource(<<"td", 0>>, {<<"init_hca", 0>>}, {}, {})

Tis == Resource(<<"tis", 0>>, {Td.obj}, {}, {})

Mkey == Resource(<<"mkey", 0>>, {Pd.obj}, {}, {})

Eq == Resource(<<"eq", 0>>, {Uar.obj}, {}, {"eq_page"})

Cq(kind, q) ==
  Resource(<<kind, q>>, {Uar.obj, Eq.obj}, {Eq.obj}, {"cq_page", "dbr_page"})

Sq(q) ==
  Resource(<<"sq", q>>, {Uar.obj, Pd.obj, Tis.obj, <<"tx_cq", q>>},
           {<<"tx_cq", q>>}, {"sq_page", "dbr_page", "tx_page"})

Rq(q) ==
  Resource(<<"rq", q>>, {Pd.obj, QCounter.obj, <<"rx_cq", q>>},
           {<<"rx_cq", q>>}, {"rq_page", "dbr_page"})

\* Its entries repeat all the receive queues; only the first is tested.
Rqt(n) ==
  Resource(<<"rqt", 0>>, {<<"rq", q>> : q \in 0..(n - 1)}, {<<"rq", 0>>}, {})

Tir == Resource(<<"tir", 0>>, {Td.obj, <<"rqt", 0>>}, {<<"rqt", 0>>}, {})

Ft == Resource(<<"ft", 0>>, {<<"init_hca", 0>>}, {}, {})

Fg == Resource(<<"fg", 0>>, {Ft.obj}, {Ft.obj}, {})

Fte ==
  Resource(<<"fte", 0>>, {Ft.obj, Fg.obj, Tir.obj}, {Ft.obj, Fg.obj, Tir.obj}, {})

(***************************************************************************)
(* The commands that bring the function up.  They create nothing, and      *)
(* nothing undoes them; the firmware wants them in this order.             *)
(***************************************************************************)
Command(name, needs) == Resource(<<name, 0>>, needs, {}, {})

EnableHca == Command("enable_hca", {})

SetIssi == Command("set_issi", {EnableHca.obj})

GivePages(phase) ==
  Command(phase, IF phase = "boot_pages" THEN {SetIssi.obj} ELSE {<<"hca_cap", 0>>})

SetHcaCap == Command("hca_cap", {<<"boot_pages", 0>>})

InitHca == Command("init_hca", {<<"init_pages", 0>>})

Promisc == Command("promisc", {InitHca.obj})

FtRoot == Resource(<<"ft_root", 0>>, {Ft.obj}, {Ft.obj}, {})

BringUp ==
  {EnableHca.obj, SetIssi.obj, <<"boot_pages", 0>>, SetHcaCap.obj,
   <<"init_pages", 0>>, InitHca.obj, Promisc.obj, FtRoot.obj}

-------------------------------------------------------------------------------
(***************************************************************************)
(* The order of mlxnicd_dev_start.  A query has no effect but may fail.    *)
(***************************************************************************)
Create(r) == [do |-> "create", res |-> r]
Modify(r) == [do |-> "modify", res |-> r]
Post(r) == [do |-> "post", res |-> r]
Give(r) == [do |-> "give", res |-> r]
Query(of) == [do |-> "query", res |-> Command(of, {})]

When(cond, steps) == IF cond THEN steps ELSE <<>>

TxQueueSteps(q) == <<Create(Cq("tx_cq", q)), Create(Sq(q)), Modify(Sq(q))>>

RxQueueSteps(q) ==
  <<Create(Cq("rx_cq", q)), Create(Rq(q)), Modify(Rq(q)), Post(Rq(q))>>

QueueSteps(c, q) == When(c.tx, TxQueueSteps(q)) \o When(c.rx, RxQueueSteps(q))

AllQueueSteps(c) == FlattenSeq([i \in 1..c.nq |-> QueueSteps(c, i - 1)])

BringUpSteps ==
  <<Create(EnableHca), Create(SetIssi),
    Query("pages"), Query("pages"), Give(GivePages("boot_pages")),
    Query("dtor"), Query("hca_cap"), Create(SetHcaCap),
    Query("pages"), Query("pages"), Give(GivePages("init_pages")),
    Create(InitHca), Query("paos")>>

SteeringSteps(n) ==
  <<Create(Rqt(n)), Create(Tir), Create(Ft), Create(FtRoot), Create(Fg), Create(Fte)>>

StartParts(c) ==
  <<BringUpSteps,
    When(c.rx, <<Create(Promisc)>>),
    <<Create(Uar), Create(Pd), Create(Td)>>,
    When(c.rx, <<Create(QCounter)>>),
    When(c.tx \/ c.rx, <<Create(Mkey)>>),
    When(c.tx, <<Create(Tis)>>),
    <<Create(Eq)>>,
    AllQueueSteps(c),
    When(c.rx, SteeringSteps(c.nq))>>

StartSteps(c) == FlattenSeq(StartParts(c))

(***************************************************************************)
(* The order of mlx5_test_runtime_cleanup, for n = rt->queue_count.        *)
(***************************************************************************)
QueueCleanup(q) == <<Rq(q), Sq(q), Cq("rx_cq", q), Cq("tx_cq", q)>>

\* Mutant: only queue 0 is cleaned up, as before there were several.
AllQueueCleanup_FirstOnly(n) == IF n = 0 THEN <<>> ELSE QueueCleanup(0)

AllQueueCleanup(n) == FlattenSeq([i \in 1..n |-> QueueCleanup(i - 1)])

CleanupOrder(n) ==
  FlattenSeq(<<<<Fte, Fg, Ft, Tir, Rqt(n)>>,
               AllQueueCleanup(n),
               <<Eq, Tis, Mkey, Td, QCounter, Pd, Uar>>>>)

Configs == [tx : BOOLEAN, rx : BOOLEAN, nq : 1..MaxQueues]

StartOrder == [c \in Configs |-> StartSteps(c)]

CleanupOrders == [n \in 0..MaxQueues |-> CleanupOrder(n)]

\* What a start of configuration c creates, and what rests on object o.
Wanted ==
  [c \in Configs |->
     {s.res : s \in {x \in Range(StartOrder[c]) : x.do \in {"create", "give"}}}]

Objects == UNION {{r.obj : r \in Wanted[c]} : c \in Configs}

NeededBy ==
  [c \in Configs |->
     [o \in Objects |-> {r.obj : r \in {x \in Wanted[c] : o \in x.needs}}]]

-------------------------------------------------------------------------------

Errors == {"OK", "INVAL", "STATE", "TIMEOUT", "IO"}

\* mlxnicd_dev_config_init: neither direction, one queue.
DefaultConfig == [tx |-> FALSE, rx |-> FALSE, nq |-> 1]

Init ==
  /\ pc = "none"
  /\ goal = "none"
  /\ step = 0
  /\ config = DefaultConfig
  /\ started = FALSE
  /\ last_error = "OK"
  /\ outstanding = {}
  /\ queues = 0
  /\ known = {}
  /\ rc = 0
  /\ dma = {}
  /\ fw_page_count = 0
  /\ vfio = {}
  /\ cmdq_reg = "orig"
  /\ cmdq_saved = "zero"
  /\ fw = {}
  /\ ready = {}
  /\ failed = {}
  /\ misled = {}
  /\ faults = 0
  /\ call = <<>>

\* mlxnicd_dev_open: a zeroed handle with the default configuration.
DevOpen ==
  /\ pc = "none"
  /\ pc' = "idle"
  /\ config' = DefaultConfig
  /\ started' = FALSE
  /\ last_error' = "OK"
  /\ outstanding' = {}
  /\ call' = <<>>
  /\ UNCHANGED <<goal, step, rc, ctxvars, rtvars, fwvars, history>>

\* Mutant: a started device may be configured.
DevConfigure_Started(c, posts_fit) ==
  /\ pc = "idle"
  /\ IF (c.tx \/ c.rx) /\ posts_fit /\ c.nq <= MaxQueues
     THEN /\ config' = [c EXCEPT !.nq = IF @ = 0 THEN 1 ELSE @]
          /\ last_error' = "OK"
     ELSE /\ last_error' = "INVAL"
          /\ UNCHANGED config
  /\ call' = <<>>
  /\ UNCHANGED <<pc, goal, step, rc, ctxvars, started, outstanding, rtvars,
                 fwvars, history>>

\* Mutant: a queue_count of 0 is kept.
DevConfigure_NoQueue(c, posts_fit) ==
  /\ pc = "idle"
  /\ IF ~started /\ (c.tx \/ c.rx) /\ posts_fit /\ c.nq <= MaxQueues
     THEN config' = c /\ last_error' = "OK"
     ELSE /\ last_error' = IF started THEN "STATE" ELSE "INVAL"
          /\ UNCHANGED config
  /\ call' = <<>>
  /\ UNCHANGED <<pc, goal, step, rc, ctxvars, started, outstanding, rtvars,
                 fwvars, history>>

(***************************************************************************)
(* mlxnicd_dev_configure.  posts_fit is rx_post_count <= the ring size; a  *)
(* queue_count of 0 becomes 1.                                             *)
(***************************************************************************)
DevConfigure(c, posts_fit) ==
  /\ pc = "idle"
  /\ IF ~started /\ (c.tx \/ c.rx) /\ posts_fit /\ c.nq <= MaxQueues
     THEN /\ config' = [c EXCEPT !.nq = IF @ = 0 THEN 1 ELSE @]
          /\ last_error' = "OK"
     ELSE /\ last_error' = IF started THEN "STATE" ELSE "INVAL"
          /\ UNCHANGED config
  /\ call' = <<>>
  /\ UNCHANGED <<pc, goal, step, rc, ctxvars, started, outstanding, rtvars,
                 fwvars, history>>

-------------------------------------------------------------------------------
(***************************************************************************)
(* mlxnicd_dev_start up to mlx5_cmd_ctx_open, which opens the device and   *)
(* maps its own memory, in this order.                                     *)
(***************************************************************************)
VfioOrder == <<"container", "group", "attached", "iommu", "device", "bar0">>

CtxOrder == <<"cmdq", "inbox", "outbox">>

OpenOrder == VfioOrder \o CtxOrder

CtxRegions == {<<"ctx", 0>>} \X Range(CtxOrder)

AllRegions == Regions(MaxQueues)

\* What VFIO refuses to map while d is mapped.
Clashes ==
  [d \in AllRegions |->
     {e \in AllRegions : e = d \/ ~Disjoint(SpanOf(d), SpanOf(e))}]

Mappable(ds) ==
  \A d \in ds :
    /\ Clashes[d] \intersect dma = {}
    /\ fw_page_count > 0 => Disjoint(SpanOf(d), FwSpan(fw_page_count))

DevStart ==
  /\ pc = "idle"
  /\ ~started
  /\ pc' = "opening"
  /\ goal' = "start"
  /\ step' = 1
  /\ rc' = 0
  /\ queues' = config.nq
  /\ known' = {}
  /\ cmdq_reg' = "orig"
  /\ cmdq_saved' = "zero"
  /\ call' = <<>>
  /\ UNCHANGED <<vfio, memory, devvars, fwvars, history>>

OpenStep ==
  /\ pc = "opening"
  /\ step <= Len(OpenOrder)
  /\ IF step <= Len(VfioOrder)
     THEN vfio' = vfio \union {OpenOrder[step]} /\ UNCHANGED dma
     ELSE LET d == <<<<"ctx", 0>>, OpenOrder[step]>>
          IN  Mappable({d}) /\ dma' = dma \union {d} /\ UNCHANGED vfio
  /\ step' = step + 1
  /\ UNCHANGED <<pc, goal, rc, cmdq_reg, cmdq_saved, queues, known, fw_page_count,
                 call, devvars, fwvars, history>>

\* The registers are read, and pointed at ctx->cmdq.
OpenDone ==
  /\ pc = "opening"
  /\ step > Len(OpenOrder)
  /\ cmdq_saved' = cmdq_reg
  /\ cmdq_reg' = "ours"
  /\ pc' = "starting"
  /\ step' = 1
  /\ UNCHANGED <<goal, rc, vfio, rtvars, call, devvars, fwvars, history>>

(***************************************************************************)
(* mlx5_cmd_ctx_close and vfio_device_close.  The registers are written    *)
(* whenever BAR0 is mapped, if they were read before or not.               *)
(***************************************************************************)
CtxClosed ==
  /\ cmdq_reg' = IF "bar0" \in vfio THEN cmdq_saved ELSE cmdq_reg
  /\ dma' = dma \ CtxRegions
  /\ fw_page_count' = 0
  /\ vfio' = {}
  /\ UNCHANGED cmdq_saved

\* Mutant: a check that fails returns instead of going to fail.
OpenFails_Returns ==
  /\ pc = "opening"
  /\ step <= Len(OpenOrder)
  /\ pc' = "idle"
  /\ goal' = "none"
  /\ step' = 0
  /\ last_error' = "IO"
  /\ UNCHANGED <<rc, ctxvars, config, started, outstanding, rtvars, call, fwvars,
                 history>>

\* Any of it fails: the device is not bound to vfio-pci, its group not
\* viable, its firmware not ready, memory cannot be allocated or mapped.
OpenFails ==
  /\ pc = "opening"
  /\ step <= Len(OpenOrder)
  /\ CtxClosed
  /\ pc' = "idle"
  /\ goal' = "none"
  /\ step' = 0
  /\ last_error' = "IO"
  /\ UNCHANGED <<rc, config, started, outstanding, queues, known, call, fwvars,
                 history>>

DevStartAgain ==
  /\ pc = "idle"
  /\ started
  /\ last_error' = "OK"
  /\ call' = <<>>
  /\ UNCHANGED <<pc, goal, step, rc, ctxvars, config, started, outstanding,
                 rtvars, fwvars, history>>

(***************************************************************************)
(* One command: r is what mlx5_cmd_exec returns, done whether the firmware *)
(* carries it out, possible whether it can.  Anything but an honest answer *)
(* is a fault.                                                             *)
(***************************************************************************)
Honest(possible, r, done) == done = possible /\ (r = 0 <=> done)

Fault ==
  /\ faults < MaxFaults[config.nq]
  /\ faults' = faults + 1

Exec(possible, r, done) ==
  /\ done => possible
  /\ IF Honest(possible, r, done) THEN UNCHANGED faults ELSE Fault

Step == StartOrder[config][step]

\* goto out
StartFails ==
  /\ pc' = "cleaning"
  /\ step' = 1
  /\ rc' = -1

StartContinues ==
  /\ step' = step + 1
  /\ UNCHANGED <<pc, rc>>

StartGoesOn(r) == IF r = 0 THEN StartContinues ELSE StartFails

StartStep(do) ==
  /\ pc = "starting"
  /\ step <= Len(StartOrder[config])
  /\ Step.do = do
  /\ UNCHANGED <<goal, queues, ctxvars, devvars, call>>

\* Mutant: the unmapping of the failure path is reached on success too.
CreateObject_FallsThrough(r, done) ==
  LET res == Step.res
      o == res.obj
  IN  /\ StartStep("create")
      /\ res.checks \subseteq known
      /\ Mappable({o} \X res.regions)
      /\ Exec(res.needs \subseteq fw, r, done)
      /\ fw' = IF done THEN fw \union {o} ELSE fw
      /\ known' = IF r = 0 THEN known \union {o} ELSE known
      /\ failed' = IF r # 0 /\ done THEN failed \union {o} ELSE failed
      /\ misled' = IF r = 0 /\ ~done THEN misled \union {o} ELSE misled
      /\ StartGoesOn(r)
      /\ UNCHANGED <<memory, ready>>

(***************************************************************************)
(* A create command.  From an answer that is not the firmware's, the       *)
(* driver may read any number.                                             *)
(***************************************************************************)
CreateObject(r, done) ==
  LET res == Step.res
      o == res.obj
  IN  /\ StartStep("create")
      /\ res.checks \subseteq known
      /\ Mappable({o} \X res.regions)
      /\ Exec(res.needs \subseteq fw, r, done)
      /\ fw' = IF done THEN fw \union {o} ELSE fw
      /\ \/ r = 0 /\ known' = known \union {o}
         \/ (r # 0 \/ (res.zero_absent /\ ~done)) /\ known' = known
      /\ dma' = IF r = 0 THEN dma \union ({o} \X res.regions) ELSE dma
      /\ failed' = IF r # 0 /\ done THEN failed \union {o} ELSE failed
      /\ misled' = IF r = 0 /\ ~done THEN misled \union {o} ELSE misled
      /\ StartGoesOn(r)
      /\ UNCHANGED <<fw_page_count, ready>>

\* The firmware numbers the object 0, and the driver keeps 0 for "none".
CreateNumberedZero ==
  LET res == Step.res
  IN  /\ StartStep("create")
      /\ res.zero_absent
      /\ res.needs \subseteq fw
      /\ Fault
      /\ fw' = fw \union {res.obj}
      /\ misled' = misled \union {res.obj}
      /\ StartContinues
      /\ UNCHANGED <<known, memory, ready, failed>>

(***************************************************************************)
(* A create function that gives up before its command: a prerequisite that *)
(* is not valid, an address that is mapped already, or memory that cannot  *)
(* be allocated; what it had mapped is unmapped again.                     *)
(***************************************************************************)
CreateGivesUp ==
  /\ StartStep("create")
  /\ \/ ~(Step.res.checks \subseteq known) /\ UNCHANGED faults
     \/ ~Mappable({Step.res.obj} \X Step.res.regions) /\ UNCHANGED faults
     \/ Step.res.regions # {} /\ Fault
  /\ StartFails
  /\ UNCHANGED <<known, memory, fwvars, failed, misled>>

QueryFirmware(r) ==
  /\ StartStep("query")
  /\ Exec(TRUE, r, r = 0)
  /\ StartGoesOn(r)
  /\ UNCHANGED <<known, memory, fwvars, failed, misled>>

(***************************************************************************)
(* mlx5_ctx_give_pages: the n pages are mapped, then given.  They stay     *)
(* mapped whatever comes of it.                                            *)
(***************************************************************************)
PagesFit(n) == fw_page_count + n <= MLX5_MAX_FW_PAGES

GiveFwPages(n, r, done) ==
  /\ StartStep("give")
  /\ n > 0
  /\ PagesFit(n)
  /\ Exec(Step.res.needs \subseteq fw, r, done)
  /\ fw' = IF done THEN fw \union {Step.res.obj} ELSE fw
  /\ fw_page_count' = fw_page_count + n
  /\ misled' = IF r = 0 /\ ~done THEN misled \union {Step.res.obj} ELSE misled
  /\ StartGoesOn(r)
  /\ UNCHANGED <<known, dma, ready, failed>>

\* None are wanted, or the number was not in the answer to the query.
NoFwPagesWanted ==
  /\ StartStep("give")
  /\ \/ fw' = fw \union {Step.res.obj} /\ UNCHANGED faults
     \/ Fault /\ UNCHANGED fw
  /\ StartContinues
  /\ UNCHANGED <<known, memory, ready, failed, misled>>

\* Too many are wanted, or one cannot be mapped after others were.
GiveFwPagesGivesUp(n) ==
  /\ StartStep("give")
  /\ n > 0
  /\ Fault
  /\ IF PagesFit(n) THEN fw_page_count' \in {fw_page_count, fw_page_count + n - 1}
                    ELSE UNCHANGED fw_page_count
  /\ StartFails
  /\ UNCHANGED <<known, dma, fwvars, failed, misled>>

\* mlx5_ctx_modify_sq_ready and mlx5_ctx_modify_rq_ready.
ModifyReady(r, done) ==
  LET o == Step.res.obj
  IN  /\ StartStep("modify")
      /\ o \in known
      /\ Exec(o \in fw, r, done)
      /\ ready' = IF done THEN ready \union {o} ELSE ready
      /\ misled' = IF r = 0 /\ ~done THEN misled \union {o} ELSE misled
      /\ StartGoesOn(r)
      /\ UNCHANGED <<known, memory, fw, failed>>

(***************************************************************************)
(* mlx5_rq_post_buffers at start: it maps the packet pages, and may fail   *)
(* with some of them mapped.                                               *)
(***************************************************************************)
PostBuffers(r) ==
  /\ StartStep("post")
  /\ Step.res.obj \in known
  /\ Mappable({<<Step.res.obj, "rx_pages">>})
  /\ Exec(TRUE, r, r = 0)
  /\ \/ dma' = dma \union {<<Step.res.obj, "rx_pages">>}
     \/ r # 0 /\ dma' = dma
  /\ StartGoesOn(r)
  /\ UNCHANGED <<known, fw_page_count, fwvars, failed, misled>>

StartDone ==
  /\ pc = "starting"
  /\ step > Len(StartOrder[config])
  /\ pc' = "idle"
  /\ goal' = "none"
  /\ step' = 0
  /\ started' = TRUE
  /\ last_error' = "OK"
  /\ outstanding' = {}
  /\ UNCHANGED <<rc, ctxvars, config, rtvars, fwvars, history, call>>

-------------------------------------------------------------------------------
(***************************************************************************)
(* mlxnicd_dev_stop and mlxnicd_dev_close.                                 *)
(***************************************************************************)
DevStop(why) ==
  /\ pc = "idle"
  /\ started
  /\ pc' = "cleaning"
  /\ goal' = why
  /\ step' = 1
  /\ rc' = 0
  /\ call' = <<>>
  /\ UNCHANGED <<ctxvars, devvars, rtvars, fwvars, history>>

\* Not started: stop does nothing, close frees the handle.
DevCloseStopped ==
  /\ pc = "idle"
  /\ ~started
  /\ pc' = "none"
  /\ call' = <<>>
  /\ UNCHANGED <<goal, step, rc, ctxvars, devvars, rtvars, fwvars, history>>

(***************************************************************************)
(* mlx5_test_runtime_cleanup: every object rt knows of is destroyed, and   *)
(* the first failure is kept in rc while the rest goes on.                 *)
(***************************************************************************)
Target == CleanupOrders[queues][step]

CleanupStep ==
  /\ pc = "cleaning"
  /\ step <= Len(CleanupOrders[queues])
  /\ step' = step + 1
  /\ UNCHANGED <<pc, goal, ctxvars, devvars, queues, fw_page_count, call>>

FreeRegions(o) == dma' = {d \in dma : d[1] # o}

\* Mutant: the last result of the cleanup wins, not the first failure.
Cleaned_LastWins(r) == rc' = r

Cleaned(r) == rc' = IF rc = 0 THEN r ELSE rc

\* Flow group and flow table entry are destroyed through their table.
DestroyChecks(o) == IF o \in {Fg.obj, Fte.obj} THEN {Ft.obj} ELSE {}

CleanupDestroy(r, done) ==
  LET o == Target.obj
      free == \A p \in NeededBy[config][o] : p \notin fw \/ p \in BringUp
  IN  /\ CleanupStep
      /\ o \in known
      /\ DestroyChecks(o) \subseteq known
      /\ Exec(o \in fw /\ free, r, done)
      /\ fw' = IF done THEN fw \ {o} ELSE fw
      /\ ready' = IF done THEN ready \ {o} ELSE ready
      /\ known' = IF r = 0 THEN known \ {o} ELSE known
      /\ failed' = IF r # 0 /\ ~done /\ free THEN failed \union {o} ELSE failed
      /\ misled' = IF r = 0 /\ ~done THEN misled \union {o} ELSE misled
      /\ FreeRegions(o)
      /\ Cleaned(r)

\* Unknown objects cost no command; one without its table fails at once.
CleanupSkip ==
  LET o == Target.obj
  IN  /\ CleanupStep
      /\ \/ o \notin known /\ FreeRegions(o) /\ UNCHANGED rc
         \/ /\ o \in known
            /\ ~(DestroyChecks(o) \subseteq known)
            /\ Cleaned(-1)
            /\ UNCHANGED dma
      /\ UNCHANGED <<known, fwvars, history>>

\* Mutant: the counts of outstanding packets survive the stop.
CtxClose_OutstandingKept ==
  /\ pc = "cleaning"
  /\ step > Len(CleanupOrders[queues])
  /\ pc' = IF goal = "close" THEN "none" ELSE "idle"
  /\ goal' = "none"
  /\ step' = 0
  /\ CtxClosed
  /\ last_error' = IF rc = 0 THEN "OK" ELSE "IO"
  /\ started' = FALSE
  /\ queues' = IF goal = "start" THEN queues ELSE 0
  /\ known' = {}
  /\ rc' = 0
  /\ fw' = {}
  /\ ready' = {}
  /\ failed' = {}
  /\ misled' = {}
  /\ faults' = 0
  /\ UNCHANGED <<config, outstanding, call>>

(***************************************************************************)
(* mlx5_cmd_ctx_close and the end of the call.  What the firmware still    *)
(* holds then is out of the driver's reach.                                *)
(***************************************************************************)
CtxClose ==
  /\ pc = "cleaning"
  /\ step > Len(CleanupOrders[queues])
  /\ pc' = IF goal = "close" THEN "none" ELSE "idle"
  /\ goal' = "none"
  /\ step' = 0
  /\ CtxClosed
  /\ last_error' = IF rc = 0 THEN "OK" ELSE "IO"
  /\ started' = FALSE
  /\ outstanding' = {}
  /\ queues' = IF goal = "start" THEN queues ELSE 0
  /\ known' = {}
  /\ rc' = 0
  /\ fw' = {}
  /\ ready' = {}
  /\ failed' = {}
  /\ misled' = {}
  /\ faults' = 0
  /\ UNCHANGED <<config, call>>

-------------------------------------------------------------------------------
(***************************************************************************)
(* The guards of the data path calls on queue_id q, in their order.  errs  *)
(* is what a call that was let in may leave in last_error.                 *)
(***************************************************************************)
Enabled(dir) == started /\ (IF dir = "tx" THEN config.tx ELSE config.rx)

LetIn(dir, q, errs) ==
  /\ call' = <<dir, q>>
  /\ last_error' \in errs

Refuse(err) ==
  /\ call' = <<>>
  /\ last_error' = err

DataCall ==
  /\ pc = "idle"
  /\ UNCHANGED <<pc, goal, step, rc, ctxvars, config, started, rtvars,
                 fwvars, history>>

TxBurstQ(q) ==
  /\ DataCall
  /\ \/ ~Enabled("tx") /\ Refuse("STATE")
     \/ Enabled("tx") /\ q >= queues /\ Refuse("INVAL")
     \/ Enabled("tx") /\ q < queues /\ LetIn("tx", q, {"OK", "IO"})
  /\ UNCHANGED outstanding

\* A flush of a device that does not transmit leaves last_error alone.
TxFlushQ(q) ==
  /\ DataCall
  /\ \/ ~Enabled("tx") /\ Refuse(last_error)
     \/ Enabled("tx") /\ q >= queues /\ Refuse("INVAL")
     \/ Enabled("tx") /\ q < queues /\ LetIn("tx", q, {"OK", "IO"})
  /\ UNCHANGED outstanding

RxBurstQ(q) ==
  /\ DataCall
  /\ \/ ~Enabled("rx") /\ Refuse("STATE") /\ UNCHANGED outstanding
     \/ /\ Enabled("rx") /\ q >= queues
        /\ Refuse("INVAL")
        /\ UNCHANGED outstanding
     \/ /\ Enabled("rx") /\ q < queues
        /\ \/ LetIn("rx", q, {"OK"}) /\ outstanding' = outstanding \union {q}
           \/ LetIn("rx", q, {"TIMEOUT", last_error}) /\ UNCHANGED outstanding

\* some: nb_pkts is not 0, and may be more than is outstanding.
RxReleaseQ(q, some) ==
  /\ DataCall
  /\ \/ ~Enabled("rx") /\ Refuse("STATE") /\ UNCHANGED outstanding
     \/ /\ Enabled("rx")
        /\ q >= queues \/ some
        /\ Refuse("INVAL")
        /\ UNCHANGED outstanding
     \/ /\ Enabled("rx") /\ q < queues
        /\ some => q \in outstanding
        /\ \/ LetIn("rx", q, {"OK"}) /\ outstanding' \in {outstanding, outstanding \ {q}}
           \/ some /\ LetIn("rx", q, {"IO"}) /\ UNCHANGED outstanding

-------------------------------------------------------------------------------
Outcomes == {0, -1} \X BOOLEAN

Start ==
  \/ \E out \in Outcomes : CreateObject(out[1], out[2])
  \/ CreateNumberedZero
  \/ CreateGivesUp
  \/ \E r \in {0, -1} : QueryFirmware(r)
  \/ \E n \in PageDemands :
       \/ \E out \in Outcomes : GiveFwPages(n, out[1], out[2])
       \/ GiveFwPagesGivesUp(n)
  \/ NoFwPagesWanted
  \/ \E out \in Outcomes : ModifyReady(out[1], out[2])
  \/ \E r \in {0, -1} : PostBuffers(r)
  \/ StartDone

Cleanup ==
  \/ \E out \in Outcomes : CleanupDestroy(out[1], out[2])
  \/ CleanupSkip
  \/ CtxClose

Calls ==
  \E q \in 0..MaxQueues :
    \/ TxBurstQ(q)
    \/ TxFlushQ(q)
    \/ RxBurstQ(q)
    \/ \E some \in BOOLEAN : RxReleaseQ(q, some)

Life ==
  \/ \E c \in [tx : BOOLEAN, rx : BOOLEAN, nq : 0..(MaxQueues + 1)], fit \in BOOLEAN :
       DevConfigure(c, fit)
  \/ DevStart
  \/ DevStartAgain
  \/ \E why \in {"stop", "close"} : DevStop(why)
  \/ DevCloseStopped

Open == OpenStep \/ OpenDone \/ OpenFails

Next ==
  \/ DevOpen
  \/ pc = "idle" /\ (Life \/ Calls)
  \/ pc = "opening" /\ Open
  \/ pc = "starting" /\ Start
  \/ pc = "cleaning" /\ Cleanup

Spec == Init /\ [][Next]_vars

-------------------------------------------------------------------------------
DeviceTypeOK ==
  /\ pc \in {"none", "idle", "opening", "starting", "cleaning"}
  /\ goal \in {"none", "start", "stop", "close"}
  /\ step \in Nat
  /\ config \in Configs
  /\ started \in BOOLEAN
  /\ last_error \in Errors
  /\ outstanding \subseteq Queues
  /\ queues \in 0..MaxQueues
  /\ known \subseteq Objects
  /\ rc \in {0, -1}
  /\ dma \subseteq AllRegions
  /\ fw_page_count \in 0..MLX5_MAX_FW_PAGES
  /\ vfio \subseteq Range(VfioOrder)
  /\ cmdq_reg \in {"orig", "ours", "zero"}
  /\ cmdq_saved \in {"orig", "zero"}
  /\ fw \subseteq Objects
  /\ ready \subseteq fw
  /\ failed \subseteq Objects
  /\ misled \subseteq Objects
  /\ faults \in Nat

(***************************************************************************)
(* A call of the data path is let in only to a queue whose objects were    *)
(* created and set ready for this start and whose rings are mapped: the    *)
(* flags it tests are those of a configuration that cannot change until    *)
(* the device is stopped.                                                  *)
(***************************************************************************)
Usable(o, regions) ==
  /\ o \in known
  /\ o \in fw \union misled
  /\ {o} \X regions \subseteq dma

CallsReachLiveQueues ==
  call # <<>> =>
    LET q == call[2]
    IN  IF call[1] = "tx"
        THEN /\ Usable(<<"sq", q>>, Sq(q).regions)
             /\ Usable(<<"tx_cq", q>>, Cq("tx_cq", q).regions)
             /\ <<"sq", q>> \in ready \union misled
        ELSE /\ Usable(<<"rq", q>>, Rq(q).regions \union {"rx_pages"})
             /\ Usable(<<"rx_cq", q>>, Cq("rx_cq", q).regions)
             /\ <<"rq", q>> \in ready \union misled

(***************************************************************************)
(* A packet buffer the caller was given by mlxnicd_rx_burst_q and has not  *)
(* released stays mapped until the device is stopped, and no count of such *)
(* buffers survives into the next start.                                   *)
(***************************************************************************)
HeldBuffersMapped ==
  pc = "idle" /\ outstanding # {} =>
    /\ started
    /\ \A q \in outstanding : <<<<"rq", q>>, "rx_pages">> \in dma

(***************************************************************************)
(* An object the firmware has although the driver gave up on it: a command *)
(* about it failed or lied, or some object it cannot be destroyed before   *)
(* is itself still there.                                                  *)
(***************************************************************************)
Excused(o) ==
  o \in failed \union misled \/ (NeededBy[config][o] \ BringUp) \intersect fw # {}

(***************************************************************************)
(* "Destroy objects and unmap DMA in reverse order": the memory of an      *)
(* object is unmapped only after the firmware has let go of it, unless the *)
(* firmware refused to or never answered.                                  *)
(***************************************************************************)
DmaOutlivesObject ==
  \A r \in Wanted[config] :
    r.obj \in fw => {r.obj} \X r.regions \subseteq dma \/ Excused(r.obj)

(***************************************************************************)
(* After a stop or a failed start, wherever in the opening it failed and   *)
(* however many steps went wrong, no memory is left mapped, nothing of     *)
(* VFIO is held, and the device's command queue does not point at memory   *)
(* the driver has freed.                                                   *)
(***************************************************************************)
ClosedLeavesNothing ==
  pc \in {"none", "idle"} /\ ~started =>
    /\ dma = {}
    /\ fw_page_count = 0
    /\ vfio = {}
    /\ cmdq_reg # "ours"

(***************************************************************************)
(* Whatever step fails, the cleanup destroys everything that was created:  *)
(* when the context closes the firmware holds nothing but objects about    *)
(* which a command failed or lied, and what those keep alive.              *)
(***************************************************************************)
LeftOnlyIfLost ==
  [][pc = "cleaning" /\ pc' # "cleaning" =>
       \A o \in fw \ BringUp : Excused(o)]_vars

(***************************************************************************)
(* "a cleanup failure is reflected in *rc_io": a stop that leaves objects  *)
(* behind in the firmware says so in last_error, unless a command lied     *)
(* about one of them or it is numbered 0.                                  *)
(***************************************************************************)
StopReportsFailure ==
  [][pc = "cleaning" /\ pc' # "cleaning" /\ fw \ BringUp # {} =>
       last_error' = "IO" \/ misled \intersect fw # {}]_vars

(***************************************************************************)
(* In every configuration the order of mlxnicd_dev_start is one the        *)
(* firmware accepts, and its memory can be mapped: a start fails only if   *)
(* something went wrong, or if it is to transmit and the firmware was      *)
(* given so many pages that the last lie where the first TX CQ goes.       *)
(***************************************************************************)
StartFailsOnlyOnFault ==
  [][pc = "starting" /\ pc' = "cleaning" =>
       faults' > 0 \/ (config.tx /\ fw_page_count > FwRoom)]_vars

===============================================================================
