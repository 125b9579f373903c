-------------------------------- MODULE Workers --------------------------------
(***************************************************************************)
(* The two programs that give every queue a thread of its own: raw-bench   *)
(* with --throughput-only and several queues (sample_raw_bench_parallel),  *)
(* which waits for a reply to each frame, and raw-flood, which only sends. *)
(*                                                                         *)
(* The threads share a stop flag, raw-flood's start flag, and the device.  *)
(* Each has a range of the sequence numbers and a queue pair; which queue  *)
(* a reply comes back on is decided by the hash of its flow, and not by    *)
(* the thread that sent the frame.  What tx_burst, rx_burst and flush do   *)
(* inside is in TxQueue and RxQueue.                                       *)
(***************************************************************************)
EXTENDS Integers, Sequences, FiniteSets, FiniteSetsExt, SequencesExt

CONSTANTS
  Count,        \* --count
  MaxQueues,    \* bound on --queues, 8 in the code
  Windows,      \* values of --window
  BatchCap,     \* frames in one tx_burst: 512 and MLXNICD_SAMPLE_FLOOD_BURST
  RxBurst,      \* frames in one rx_burst: 128
  MaxFaults,    \* bound: calls that fail, replies lost, doubled or late
  MaxOthers     \* bound: frames that come and are no replies

ASSUME WorkersAssumption ==
  /\ {Count, MaxQueues, BatchCap, RxBurst} \union Windows \subseteq Nat \ {0}
  /\ {MaxFaults, MaxOthers} \subseteq Nat

VARIABLES
  mode,         \* "bench" or "flood"
  nq, window,   \* the options
  rss,          \* the receive queue the flow of each frame is hashed to
  main,         \* the main thread: "create", "join" or "abort" (joins after
                \* a pthread_create that failed), "out", "closed"
  created,      \* threads created
  rc,
  failed, go,   \* ctx->failed, ctx->go
  pc,           \* the workers: "none", "malloc", "spin", "turn", "poll",
                \* "idle" (polls with nothing to send), "flush", "end"
  seq_next, replies,
  wire,         \* frames given to the device that the peer has not got yet
  rxq,          \* frames in the receive queues, "reply" or "other"
  sends,        \* history: how often each frame was given to the device
  others,       \* frames that came and are no replies
  faults

opts == <<mode, nq, window, rss>>
boss == <<main, created, rc>>
flags == <<failed, go>>
worker == <<pc, seq_next, replies>>
net == <<wire, rxq, sends, others>>
vars == <<opts, boss, flags, worker, net, faults>>

Seqs == 0..(Count - 1)
Threads == 0..(nq - 1)

\* f[1] + ... + f[n], added up one by one as the loops of the code do.
SumTo(f, n) ==
  LET sum[k \in 0..n] == IF k = 0 THEN 0 ELSE sum[k - 1] + f[k]
  IN  sum[n]

Fault ==
  /\ faults < MaxFaults
  /\ faults' = faults + 1

-------------------------------------------------------------------------------
(***************************************************************************)
(* The shares of the workers, in the unsigned division of the code.        *)
(***************************************************************************)
SeqBegin(q) == (Count * q) \div nq

\* Mutant: the end of a range is rounded up.
SeqEnd_RoundsUp(q) == (Count * (q + 1) + nq - 1) \div nq

SeqEnd(q) == (Count * (q + 1)) \div nq

Share(q) == SeqEnd(q) - SeqBegin(q)

\* Mutant: each worker has the whole window.
Window_Whole(q) == Max({window, 1})

Window(q) == Max({window \div nq, 1})

Init ==
  /\ mode \in {"bench", "flood"}
  /\ nq \in (IF mode = "bench" THEN 2 ELSE 1)..MaxQueues
  /\ window \in IF mode = "bench" THEN Windows ELSE {0}
  /\ rss \in IF mode = "bench" THEN [Seqs -> 0..(nq - 1)] ELSE {[s \in Seqs |-> 0]}
  /\ main = "create"
  /\ created = 0
  /\ rc = -1
  /\ failed = FALSE
  /\ go = FALSE
  /\ pc = [q \in Threads |-> "none"]
  /\ seq_next = [q \in Threads |-> SeqBegin(q)]
  /\ replies = [q \in Threads |-> 0]
  /\ wire = {}
  /\ rxq = [q \in Threads |-> <<>>]
  /\ sends = [s \in Seqs |-> 0]
  /\ others = 0
  /\ faults = 0

-------------------------------------------------------------------------------
(***************************************************************************)
(* The main thread: one pthread_create for each queue, then all the joins. *)
(***************************************************************************)
Create ==
  /\ main = "create"
  /\ created < nq
  /\ pc' = [pc EXCEPT ![created] = IF mode = "bench" THEN "turn" ELSE "malloc"]
  /\ created' = created + 1
  /\ UNCHANGED <<opts, main, rc, flags, seq_next, replies, net, faults>>

\* Mutant: the start flag stays down, and the workers wait for it.
CreateFails_NoGo ==
  /\ main = "create"
  /\ created < nq
  /\ Fault
  /\ failed' = TRUE
  /\ main' = "abort"
  /\ UNCHANGED <<opts, created, rc, go, worker, net>>

CreateFails ==
  /\ main = "create"
  /\ created < nq
  /\ Fault
  /\ failed' = TRUE
  /\ go' = (mode = "flood")
  /\ main' = "abort"
  /\ UNCHANGED <<opts, created, rc, worker, net>>

AllCreated ==
  /\ main = "create"
  /\ created = nq
  /\ go' = (mode = "flood")
  /\ main' = "join"
  /\ UNCHANGED <<opts, created, rc, failed, worker, net, faults>>

TotalSent == SumTo([i \in 1..nq |-> seq_next[i - 1] - SeqBegin(i - 1)], nq)

TotalReceived == SumTo([i \in 1..nq |-> replies[i - 1]], nq)

Succeeded ==
  /\ ~failed
  /\ TotalSent = Count
  /\ mode = "bench" => TotalReceived = Count

\* Mutant: after a failed pthread_create nobody waits for the others.
Joined_NotOnAbort ==
  /\ main \in {"join", "abort"}
  /\ main = "join" => \A q \in 0..(created - 1) : pc[q] = "end"
  /\ rc' = IF main = "join" /\ Succeeded THEN 0 ELSE -1
  /\ main' = "out"
  /\ UNCHANGED <<opts, created, flags, worker, net, faults>>

Joined ==
  /\ main \in {"join", "abort"}
  /\ \A q \in 0..(created - 1) : pc[q] = "end"
  /\ rc' = IF main = "join" /\ Succeeded THEN 0 ELSE -1
  /\ main' = "out"
  /\ UNCHANGED <<opts, created, flags, worker, net, faults>>

\* mlxnicd_dev_close: the queues go, with what they have not sent.
DevClose ==
  /\ main = "out"
  /\ main' = "closed"
  /\ UNCHANGED <<opts, created, rc, flags, worker, net, faults>>

-------------------------------------------------------------------------------
\* Worker q gives frames seq_next[q] .. seq_next[q] + n - 1 to its send queue.
Post(q, n) ==
  LET new == seq_next[q]..(seq_next[q] + n - 1)
  IN  /\ wire' = wire \union (new \intersect Seqs)
      /\ sends' = [s \in Seqs |-> IF s \in new THEN sends[s] + 1 ELSE sends[s]]
      /\ UNCHANGED <<rxq, others>>

Goto(q, where) == pc' = [pc EXCEPT ![q] = where]

StopAll(q) ==
  /\ failed' = TRUE
  /\ Goto(q, "end")

(***************************************************************************)
(* One turn of sample_bench_parallel_worker: a batch as large as the       *)
(* window allows, sent whole or not at all, then one poll.                 *)
(***************************************************************************)
BenchOver(q) == replies[q] >= Share(q) \/ failed

\* Mutant: replies do not reopen the window.
Batch_NeverReopens(q) ==
  Max({0, Min({BatchCap,
               SeqEnd(q) - seq_next[q],
               Window(q) - (seq_next[q] - SeqBegin(q))})})

Batch(q) ==
  Max({0, Min({BatchCap,
               SeqEnd(q) - seq_next[q],
               replies[q] + Window(q) - (seq_next[q] - SeqBegin(q))})})

BenchTurn(q) == mode = "bench" /\ pc[q] = "turn"

BenchEnd(q) ==
  /\ mode = "bench"
  /\ pc[q] \in {"turn", "idle"}
  /\ BenchOver(q)
  /\ Goto(q, "end")
  /\ UNCHANGED <<opts, boss, flags, seq_next, replies, net, faults>>

BenchSend(q) ==
  /\ BenchTurn(q)
  /\ ~BenchOver(q)
  /\ seq_next' = [seq_next EXCEPT ![q] = @ + Batch(q)]
  /\ Post(q, Batch(q))
  /\ Goto(q, IF Batch(q) > 0 THEN "poll" ELSE "idle")
  /\ UNCHANGED <<opts, boss, flags, replies, faults>>

\* Only the first k are posted; seq_next has counted them all.
BenchSendFails(q, k) ==
  /\ BenchTurn(q)
  /\ ~BenchOver(q)
  /\ k < Batch(q)
  /\ Fault
  /\ seq_next' = [seq_next EXCEPT ![q] = @ + Batch(q)]
  /\ Post(q, k)
  /\ StopAll(q)
  /\ UNCHANGED <<opts, boss, go, replies>>

Burst(q) == SubSeq(rxq[q], 1, Min({Len(rxq[q]), RxBurst}))

\* sample_bench_is_reflection_fast looks at the addresses only.
Reflections(frames) ==
  SumTo([i \in 1..Len(frames) |-> IF frames[i] = "reply" THEN 1 ELSE 0], Len(frames))

Receive(q) ==
  /\ mode = "bench"
  /\ pc[q] \in {"poll", "idle"}
  /\ rxq[q] # <<>>
  /\ replies' = [replies EXCEPT ![q] = @ + Reflections(Burst(q))]
  /\ rxq' = [rxq EXCEPT ![q] = SubSeq(@, Len(Burst(q)) + 1, Len(@))]
  /\ UNCHANGED <<wire, sends, others>>

BenchReceive(q) ==
  /\ Receive(q)
  /\ Goto(q, "turn")
  /\ UNCHANGED <<opts, boss, flags, seq_next, faults>>

BenchReleaseFails(q) ==
  /\ Receive(q)
  /\ Fault
  /\ StopAll(q)
  /\ UNCHANGED <<opts, boss, go, seq_next>>

BenchReceiveNothing(q) ==
  /\ mode = "bench"
  /\ pc[q] = "poll"
  /\ rxq[q] = <<>>
  /\ Goto(q, "turn")
  /\ UNCHANGED <<opts, boss, flags, seq_next, replies, net, faults>>

(***************************************************************************)
(* More than 100000000 polls with nothing to send and nothing received.    *)
(* It is a fault if the peer or another thread was only slow.              *)
(***************************************************************************)
SomethingMayCome ==
  \/ wire # {}
  \/ main = "create"
  \/ \E p \in Threads :
       pc[p] \in {"turn", "poll"} \/ (pc[p] = "idle" /\ rxq[p] # <<>>)

BenchGiveUp(q) ==
  /\ mode = "bench"
  /\ pc[q] = "idle"
  /\ rxq[q] = <<>>
  /\ IF SomethingMayCome THEN Fault ELSE UNCHANGED faults
  /\ StopAll(q)
  /\ UNCHANGED <<opts, boss, go, seq_next, replies, net>>

-------------------------------------------------------------------------------
(***************************************************************************)
(* sample_raw_flood_worker.                                                *)
(***************************************************************************)
FloodMalloc(q) ==
  /\ pc[q] = "malloc"
  /\ Goto(q, "spin")
  /\ UNCHANGED <<opts, boss, flags, seq_next, replies, net, faults>>

FloodMallocFails(q) ==
  /\ pc[q] = "malloc"
  /\ Fault
  /\ StopAll(q)
  /\ UNCHANGED <<opts, boss, go, seq_next, replies, net>>

FloodGo(q) ==
  /\ pc[q] = "spin"
  /\ go
  /\ Goto(q, "turn")
  /\ UNCHANGED <<opts, boss, flags, seq_next, replies, net, faults>>

FloodTurn(q) == mode = "flood" /\ pc[q] = "turn"

FloodOver(q) == seq_next[q] >= SeqEnd(q) \/ failed

FloodBatch(q) == Min({BatchCap, SeqEnd(q) - seq_next[q]})

FloodSend(q) ==
  /\ FloodTurn(q)
  /\ ~FloodOver(q)
  /\ seq_next' = [seq_next EXCEPT ![q] = @ + FloodBatch(q)]
  /\ Post(q, FloodBatch(q))
  /\ UNCHANGED <<opts, boss, flags, pc, replies, faults>>

FloodSendFails(q, k) ==
  /\ FloodTurn(q)
  /\ ~FloodOver(q)
  /\ k < FloodBatch(q)
  /\ Fault
  /\ Post(q, k)
  /\ failed' = TRUE
  /\ Goto(q, "flush")
  /\ UNCHANGED <<opts, boss, go, seq_next, replies>>

FloodSentAll(q) ==
  /\ FloodTurn(q)
  /\ FloodOver(q)
  /\ Goto(q, "flush")
  /\ UNCHANGED <<opts, boss, flags, seq_next, replies, net, faults>>

\* mlxnicd_tx_flush_q waits until the device has executed all of queue q.
Flushed(q) == wire \intersect (SeqBegin(q)..(SeqEnd(q) - 1)) = {}

\* Mutant: the worker ends with its last batches still in the ring.
FloodFlush_Skipped(q) ==
  /\ pc[q] = "flush"
  /\ Goto(q, "end")
  /\ UNCHANGED <<opts, boss, flags, seq_next, replies, net, faults>>

FloodFlush(q) ==
  /\ pc[q] = "flush"
  /\ failed \/ Flushed(q)
  /\ Goto(q, "end")
  /\ UNCHANGED <<opts, boss, flags, seq_next, replies, net, faults>>

FloodFlushFails(q) ==
  /\ pc[q] = "flush"
  /\ ~failed
  /\ Fault
  /\ StopAll(q)
  /\ UNCHANGED <<opts, boss, go, seq_next, replies, net>>

-------------------------------------------------------------------------------
(***************************************************************************)
(* The network and the peer: dpdk-macswap-peer answers a burst and frees   *)
(* what its own send queue has no room for; raw-flood's peer only takes.   *)
(***************************************************************************)
PeerGets(s) ==
  /\ s \in wire
  /\ wire' = wire \ {s}
  /\ rxq' = IF mode = "bench" THEN [rxq EXCEPT ![rss[s]] = Append(@, "reply")]
                              ELSE rxq
  /\ UNCHANGED <<opts, boss, flags, worker, sends, others, faults>>

PeerDrops(s) ==
  /\ mode = "bench"
  /\ s \in wire
  /\ Fault
  /\ wire' = wire \ {s}
  /\ UNCHANGED <<opts, boss, flags, worker, rxq, sends, others>>

ReplyTwice(s) ==
  /\ mode = "bench"
  /\ s \in wire
  /\ Fault
  /\ rxq' = [rxq EXCEPT ![rss[s]] = Append(@, "reply")]
  /\ UNCHANGED <<opts, boss, flags, worker, wire, sends, others>>

\* A local copy of a frame sent, which promiscuous reception lets in, or a
\* frame of somebody else: nothing is wrong.
OtherFrame(q) ==
  /\ mode = "bench"
  /\ others < MaxOthers
  /\ others' = others + 1
  /\ rxq' = [rxq EXCEPT ![q] = Append(@, "other")]
  /\ UNCHANGED <<opts, boss, flags, worker, wire, sends, faults>>

-------------------------------------------------------------------------------
Boss == Create \/ AllCreated \/ Joined \/ DevClose

Worker(q) ==
  \/ BenchEnd(q) \/ BenchSend(q) \/ BenchReceive(q) \/ BenchReceiveNothing(q)
  \/ BenchGiveUp(q)
  \/ FloodMalloc(q) \/ FloodGo(q) \/ FloodSend(q) \/ FloodSentAll(q) \/ FloodFlush(q)

Fail ==
  \/ CreateFails
  \/ \E q \in Threads :
       \/ \E k \in 0..(BatchCap - 1) : BenchSendFails(q, k) \/ FloodSendFails(q, k)
       \/ BenchReleaseFails(q)
       \/ FloodMallocFails(q)
       \/ FloodFlushFails(q)

Answer == main # "closed" /\ \E s \in wire : PeerGets(s)

Misbehave == main # "closed" /\ \E s \in wire : PeerDrops(s) \/ ReplyTwice(s)

Noise == main # "closed" /\ \E q \in Threads : OtherFrame(q)

Next ==
  \/ Boss \/ (\E q \in Threads : Worker(q)) \/ Fail
  \/ Answer \/ Misbehave \/ Noise

Spec == Init /\ [][Next]_vars

(***************************************************************************)
(* Every thread is scheduled; an idle worker counts its polls, so that it  *)
(* gives up in the end if nothing comes; the device sends what it is given *)
(* and the peer answers it, unless it is lost.                             *)
(***************************************************************************)
FairSpec ==
  /\ Spec
  /\ WF_vars(Boss)
  /\ \A q \in 0..(MaxQueues - 1) : WF_vars(q \in Threads /\ Worker(q))
  /\ WF_vars(Answer)

-------------------------------------------------------------------------------
Ok == main \in {"out", "closed"} /\ rc = 0

(***************************************************************************)
(* No thread runs on after the function that holds its struct on the stack *)
(* returns and the device is closed, whichever pthread_create failed and   *)
(* whatever the others were doing at that time.                            *)
(***************************************************************************)
NoThreadOutlivesDevice ==
  main \in {"out", "closed"} => \A q \in Threads : pc[q] \in {"none", "end"}

(***************************************************************************)
(* "gives each worker a disjoint packet sequence range": whatever stops    *)
(* the threads, none leaves its range, no frame is sent twice, and a run   *)
(* that ends well has sent each once.                                      *)
(***************************************************************************)
EachFrameOnce ==
  /\ \A q \in Threads : seq_next[q] \in SeqBegin(q)..SeqEnd(q)
  /\ \A s \in Seqs : sends[s] <= 1 /\ (Ok => sends[s] = 1)

(***************************************************************************)
(* "Every worker sent and received exactly" its share in a raw-bench run   *)
(* that ends well, although only the totals are compared, on whichever     *)
(* queues the replies came and if one came twice or was lost; raw-flood    *)
(* "calls mlxnicd_tx_flush_q() before reporting completion", so that       *)
(* nothing is then left in a send queue that close would discard.          *)
(***************************************************************************)
OkMeansDone ==
  Ok => IF mode = "bench"
        THEN \A q \in Threads : seq_next[q] = SeqEnd(q) /\ replies[q] = Share(q)
        ELSE wire = {}

(***************************************************************************)
(* "the aggregate outstanding limit remains" --window, or one frame for    *)
(* each queue if that is more, even when workers count the replies to each *)
(* other's frames; a reply that came twice may add one.                    *)
(***************************************************************************)
Outstanding ==
  Cardinality(wire) + SumTo([i \in 1..nq |-> Reflections(rxq[i - 1])], nq)

AggregateWindow ==
  mode = "bench" => Outstanding <= Max({window, nq}) + faults

(***************************************************************************)
(* A run in which nothing goes wrong succeeds, with one exception: some    *)
(* reply was hashed to the queue of a worker that did not send the frame.  *)
(* That worker may then reach its share of replies with frames of its own  *)
(* unsent, or another never reach its share, even if every queue gets as   *)
(* many replies as its worker sends frames.                                *)
(***************************************************************************)
Steered == \E q \in Threads : \E s \in SeqBegin(q)..(SeqEnd(q) - 1) : rss[s] # q

FailsOnlyIfSteered ==
  main \in {"out", "closed"} /\ rc # 0 /\ faults = 0 => mode = "bench" /\ Steered

(***************************************************************************)
(* Every run ends with the device closed, whatever fails, is lost or never *)
(* comes: no thread waits for ever for a flag, a reply or another thread.  *)
(* Frames that are no replies start the count of idle polls again, so that *)
(* this needs their number to be bounded, as MaxOthers does.               *)
(***************************************************************************)
RunEnds == <>(main = "closed")

===============================================================================
