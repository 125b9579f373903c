----------------------------- MODULE BenchWindow -----------------------------
(***************************************************************************)
(* The send window of raw-bench (sample_raw_bench): up to window benchmark *)
(* frames are in flight, each in the slot its sequence number has in a     *)
(* cyclic table, and replies come back in any order, twice, or never, on   *)
(* any of the receive queues, between frames that are not replies at all.  *)
(* The peer is raw-echo (sample_raw_echo), which answers up to --count     *)
(* frames one by one and then closes its device.                           *)
(*                                                                         *)
(* The clock is left out.  A reply that is dismissed because its round     *)
(* trip was shorter than --min-rtt-ns, or because its clock ran backwards, *)
(* is a reply that was lost and a frame that is not one.                   *)
(***************************************************************************)
EXTENDS Integers, Sequences, FiniteSets, FiniteSetsExt

CONSTANTS
  Count,        \* --count
  MaxWindow,    \* bound on --window, MLXNICD_SAMPLE_BENCH_MAX_WINDOW in the code
  MaxQueues,    \* bound on --queues, 8 in the code
  RxBurst,      \* MLXNICD_SAMPLE_BENCH_RX_BURST
  MaxFaults,    \* bound: frames lost or doubled, calls that fail, timeouts
                \* that come although the peer was only slow
  MaxOthers     \* bound: frames that come and are no replies

ASSUME BenchAssumption ==
  /\ {Count, MaxWindow, MaxQueues, RxBurst} \subseteq Nat \ {0}
  /\ {MaxFaults, MaxOthers} \subseteq Nat

VARIABLES
  window, nq, timed,   \* the options; timed: --timeout-ms is not 0
  echo_count,          \* --count of raw-echo
  pc,                  \* "fill", "poll"; "send", "await" if window is 1;
                       \* "ok" or "failed" at the end
  slots,               \* the sequence number in each active slot, or Free
  sent, received, inflight,
  cursor,              \* rx_queue_cursor
  echo,                \* raw-echo: "on", "closing" or "closed"
  echoed,              \* its count of answers
  wire,                \* frames sent that raw-echo has not received yet
  posted,              \* answers in raw-echo's send queue
  rxq,                 \* frames in the receive queues, in order
  others,              \* frames that came and are no replies
  counted,             \* history: how often a reply to each frame was counted
  dropped,             \* history: answers raw-echo closed its device on
  faults

opts == <<window, nq, timed, echo_count>>
bench == <<pc, slots, sent, received, inflight, cursor, counted>>
peer == <<echo, echoed, posted, dropped>>
net == <<wire, rxq, others>>
vars == <<opts, bench, peer, net, faults>>

Seqs == 0..(Count - 1)
Free == -1
Noise == -1        \* a frame that is filtered, local or too early
Ended == {"ok", "failed"}

Init ==
  /\ window \in 1..MaxWindow
  /\ nq \in 1..MaxQueues
  /\ timed \in BOOLEAN
  /\ echo_count \in {Count, Count + 1}
  /\ pc = IF window = 1 THEN "send" ELSE "fill"
  /\ slots = [i \in 0..(window - 1) |-> Free]
  /\ sent = 0
  /\ received = 0
  /\ inflight = 0
  /\ cursor = 0
  /\ wire = {}
  /\ rxq = [q \in 0..(nq - 1) |-> <<>>]
  /\ others = 0
  /\ counted = [s \in Seqs |-> 0]
  /\ echo = "on"
  /\ echoed = 0
  /\ posted = {}
  /\ dropped = {}
  /\ faults = 0

Fault ==
  /\ faults < MaxFaults
  /\ faults' = faults + 1

-------------------------------------------------------------------------------
\* Mutant: a reply ends whatever frame is in its slot.
SlotFind_AnySeq(table, s) == s # Noise /\ table[s % window] # Free

\* sample_bench_slot_find: is frame s waiting in its slot?
SlotFind(table, s) == s # Noise /\ table[s % window] = s

\* Mutant: an occupied slot is taken over.
SlotAlloc_Overwrites(s) == TRUE

\* sample_bench_slot_alloc: is the slot of s free?
SlotAlloc(s) == slots[s % window] = Free

(***************************************************************************)
(* The loop that fills the window stops at the first occupied slot.        *)
(***************************************************************************)
Batch ==
  Max({n \in 0..Min({window - inflight, Count - sent}) :
         \A k \in 0..(n - 1) : SlotAlloc(sent + k)})

\* The slots once frames sent .. sent + n - 1 are in theirs.
Filled(n) ==
  LET new == sent..(sent + n - 1)
  IN  [i \in DOMAIN slots |->
         IF \E s \in new : s % window = i
         THEN CHOOSE s \in new : s % window = i
         ELSE slots[i]]

Fill ==
  /\ pc = "fill"
  /\ LET n == Batch
     IN  /\ slots' = Filled(n)
         /\ sent' = sent + n
         /\ inflight' = inflight + n
         /\ wire' = wire \union (sent..(sent + n - 1))
  /\ pc' = "poll"
  /\ UNCHANGED <<opts, received, cursor, rxq, others, counted, peer, faults>>

\* mlxnicd_tx_burst posts fewer than the batch.
FillFails ==
  /\ pc = "fill"
  /\ Batch > 0
  /\ Fault
  /\ slots' = Filled(Batch)
  /\ pc' = "failed"
  /\ UNCHANGED <<opts, sent, received, inflight, cursor, counted, peer, net>>

-------------------------------------------------------------------------------
\* Mutant: the poll waits only for a full window.
PollWaits_FullOnly == timed /\ nq = 1 /\ inflight >= window

\* The poll has a timeout: nothing can be sent before a reply comes.
PollWaits == timed /\ nq = 1 /\ (inflight >= window \/ sent = Count)

\* The first queue from the cursor on that has a frame.
Polled ==
  LET nth(a) == (cursor + a) % nq
  IN  nth(Min({a \in 0..(nq - 1) : rxq[nth(a)] # <<>>}))

Take(q) == Min({Len(rxq[q]), inflight, RxBurst})

(***************************************************************************)
(* One frame of the burst: a reply to a frame in its slot frees the slot,  *)
(* everything else only counts in the statistics.                          *)
(***************************************************************************)
HandleFrame(st, s) ==
  IF SlotFind(st.slots, s)
  THEN [slots |-> [st.slots EXCEPT ![s % window] = Free],
        inflight |-> st.inflight - 1,
        received |-> st.received + 1,
        counted |-> [st.counted EXCEPT ![s] = @ + 1]]
  ELSE st

\* The frames of the burst, one after the other.
HandleBurst(q) ==
  LET after[k \in 0..Take(q)] ==
        IF k = 0
        THEN [slots |-> slots, inflight |-> inflight, received |-> received,
              counted |-> counted]
        ELSE HandleFrame(after[k - 1], rxq[q][k])
  IN  after[Take(q)]

Called(ok) == IF ok THEN UNCHANGED faults ELSE Fault

\* ok: mlxnicd_rx_release_q gave the buffers back.
Poll(ok) ==
  /\ pc = "poll"
  /\ Called(ok)
  /\ \E q \in DOMAIN rxq : rxq[q] # <<>>
  /\ LET q == Polled
         st == HandleBurst(q)
     IN  /\ slots' = st.slots
         /\ inflight' = st.inflight
         /\ received' = st.received
         /\ counted' = st.counted
         /\ rxq' = [rxq EXCEPT ![q] = SubSeq(@, Take(q) + 1, Len(@))]
         /\ cursor' = (q + 1) % nq
         /\ pc' = IF ~ok THEN "failed"
                  ELSE IF st.received < Count THEN "fill" ELSE "ok"
  /\ UNCHANGED <<opts, sent, wire, others, peer>>

\* A reply is still to come: giving up now is giving up on a slow peer.
ReplyUnderway == posted # {} \/ (wire # {} /\ echo = "on")

\* Nothing came: the timeout ends the run, a poll without one goes round.
PollNothing ==
  /\ pc = "poll"
  /\ \A q \in DOMAIN rxq : rxq[q] = <<>>
  /\ pc' = IF PollWaits THEN "failed" ELSE "fill"
  /\ Called(PollWaits => ~ReplyUnderway)
  /\ UNCHANGED <<opts, slots, sent, received, inflight, cursor, counted, peer, net>>

-------------------------------------------------------------------------------
(***************************************************************************)
(* A window of 1 has a loop of its own, without slots and on queue 0 only; *)
(* it takes any reply for the one it waits for.                            *)
(***************************************************************************)
SendOne ==
  /\ pc = "send"
  /\ sent' = sent + 1
  /\ wire' = wire \union {sent}
  /\ pc' = "await"
  /\ UNCHANGED <<opts, slots, received, inflight, cursor, rxq, others, counted, peer,
                 faults>>

SendOneFails ==
  /\ pc = "send"
  /\ Fault
  /\ pc' = "failed"
  /\ UNCHANGED <<opts, slots, sent, received, inflight, cursor, counted, peer, net>>

AwaitOne(ok) ==
  /\ pc = "await"
  /\ rxq[0] # <<>>
  /\ Called(ok)
  /\ rxq' = [rxq EXCEPT ![0] = Tail(@)]
  /\ LET s == Head(rxq[0])
     IN  /\ IF s = Noise
            THEN UNCHANGED <<received, counted>>
            ELSE /\ received' = received + 1
                 /\ counted' = [counted EXCEPT ![s] = @ + 1]
         /\ pc' = IF ~ok THEN "failed"
                  ELSE IF s = Noise THEN "await"
                  ELSE IF sent < Count THEN "send" ELSE "ok"
  /\ UNCHANGED <<opts, slots, sent, inflight, cursor, wire, others, peer>>

AwaitTimeout ==
  /\ pc = "await"
  /\ rxq[0] = <<>>
  /\ Called(timed => ~ReplyUnderway)
  /\ pc' = "failed"
  /\ UNCHANGED <<opts, slots, sent, received, inflight, cursor, counted, peer, net>>

-------------------------------------------------------------------------------
(***************************************************************************)
(* raw-echo.  One turn of its loop receives a frame and posts the answer;  *)
(* frames that are no requests, its own answers among them, it only drops. *)
(* Nobody waits for an answer to be sent before the device is closed.      *)
(***************************************************************************)
Echo(s) ==
  /\ echo = "on"
  /\ s \in wire
  /\ wire' = wire \ {s}
  /\ posted' = posted \union {s}
  /\ echoed' = echoed + 1
  /\ echo' = IF echoed + 1 = echo_count THEN "closing" ELSE "on"
  /\ UNCHANGED <<opts, bench, rxq, others, dropped, faults>>

\* mlxnicd_tx_burst does not post the answer, or does and the received
\* buffer cannot be released.
EchoFails(s) ==
  /\ echo = "on"
  /\ s \in wire
  /\ Fault
  /\ wire' = wire \ {s}
  /\ \/ posted' = posted \union {s} /\ echoed' = echoed + 1
     \/ UNCHANGED <<posted, echoed>>
  /\ echo' = "closing"
  /\ UNCHANGED <<opts, bench, rxq, others, dropped>>

\* raw-bench has nothing to send, and nothing comes that would change that.
BenchQuiet ==
  /\ posted = {}
  /\ \A q \in DOMAIN rxq : rxq[q] = <<>>
  /\ pc = "await" \/ (pc \in {"fill", "poll"} /\ Batch = 0)

\* No frame came for --timeout-ms.
EchoTimeout ==
  /\ echo = "on"
  /\ wire = {}
  /\ Called(BenchQuiet)
  /\ echo' = "closing"
  /\ UNCHANGED <<opts, bench, echoed, posted, dropped, net>>

\* Mutant: raw-echo ends one answer early.
EchoClose_Early ==
  /\ echo = "closing" \/ (echo = "on" /\ echoed + 1 = echo_count)
  /\ echo' = "closed"
  /\ posted' = {}
  /\ dropped' = posted
  /\ UNCHANGED <<opts, bench, echoed, net, faults>>

\* mlxnicd_dev_close destroys the send queue with what is in it.
EchoClose ==
  /\ echo = "closing"
  /\ echo' = "closed"
  /\ posted' = {}
  /\ dropped' = posted
  /\ UNCHANGED <<opts, bench, echoed, net, faults>>

(***************************************************************************)
(* The network.  RSS may steer a reply to any queue.                       *)
(***************************************************************************)
Arrive(s, q) == rxq' = [rxq EXCEPT ![q] = Append(@, s)]

Reply(s, q) ==
  /\ s \in posted
  /\ Arrive(s, q)
  /\ posted' = posted \ {s}
  /\ UNCHANGED <<opts, bench, echo, echoed, dropped, wire, others, faults>>

ReplyTwice(s, q) ==
  /\ Fault
  /\ s \in posted
  /\ Arrive(s, q)
  /\ UNCHANGED <<opts, bench, peer, wire, others>>

Lose(s) ==
  /\ Fault
  /\ s \in wire \union posted
  /\ wire' = wire \ {s}
  /\ posted' = posted \ {s}
  /\ UNCHANGED <<opts, bench, echo, echoed, dropped, rxq, others>>

\* A local copy of a frame sent, which promiscuous reception lets in, or a
\* frame of somebody else: nothing is wrong.
OtherFrame(q) ==
  /\ others < MaxOthers
  /\ others' = others + 1
  /\ Arrive(Noise, q)
  /\ UNCHANGED <<opts, bench, peer, wire, faults>>

-------------------------------------------------------------------------------
Run == Fill \/ Poll(TRUE) \/ PollNothing \/ SendOne \/ AwaitOne(TRUE) \/ AwaitTimeout

Fail == FillFails \/ Poll(FALSE) \/ SendOneFails \/ AwaitOne(FALSE)

Answer == \E s \in Seqs : Echo(s)

Transmit == \E s \in posted, q \in DOMAIN rxq : Reply(s, q)

Network ==
  /\ pc \notin Ended
  /\ \/ Answer
     \/ \E s \in wire : EchoFails(s)
     \/ EchoTimeout
     \/ EchoClose
     \/ Transmit
     \/ \E s \in posted, q \in DOMAIN rxq : ReplyTwice(s, q)
     \/ \E s \in Seqs : Lose(s)
     \/ \E q \in DOMAIN rxq : OtherFrame(q)

Next == Run \/ Fail \/ Network

Spec == Init /\ [][Next]_vars

(***************************************************************************)
(* raw-bench and raw-echo are one thread each that keeps running, and a    *)
(* device sends what is posted until it is closed.                         *)
(***************************************************************************)
FairSpec ==
  /\ Spec
  /\ WF_vars(Run)
  /\ WF_vars(pc \notin Ended /\ Answer)
  /\ WF_vars(pc \notin Ended /\ Transmit)

-------------------------------------------------------------------------------
Waiting == {slots[i] : i \in DOMAIN slots} \ {Free}

(***************************************************************************)
(* The books of a windowed run: a frame in flight is in the slot of its    *)
(* number and among the last window frames sent, sent = received +         *)
(* inflight, and a poll always has something to wait for (a burst of 0     *)
(* frames would return at once, for ever).                                 *)
(***************************************************************************)
BenchAccounting ==
  /\ pc \in {"fill", "poll", "send", "await"} \union Ended
  /\ window > 1 /\ pc # "failed" =>
       /\ \A i \in DOMAIN slots : slots[i] = Free \/ slots[i] % window = i
       /\ Waiting \subseteq (sent - window)..(sent - 1)
       /\ inflight = Cardinality(Waiting)
       /\ sent = received + inflight
       /\ pc = "poll" => inflight > 0

(***************************************************************************)
(* With a window of more than 1, a reply is counted once for each frame,   *)
(* whatever comes twice or late, and a run that ends well has counted one  *)
(* for every frame.                                                        *)
(***************************************************************************)
EachReplyOnce ==
  window > 1 => \A s \in Seqs : counted[s] <= 1 /\ (pc = "ok" => counted[s] = 1)

(***************************************************************************)
(* Every run ends, with one exception: a frame whose reply was lost, or    *)
(* that raw-echo did not answer before it closed its device, stays in its  *)
(* slot for ever, and raw-bench polls for ever, if there are               *)
(* several queues or no timeout, so that no poll ever gives up, or if the  *)
(* frame holds the slot the next one needs while the window has room, so   *)
(* that raw-bench polls as if it could still send.                         *)
(***************************************************************************)
AnswerLost(s) ==
  /\ s \notin posted
  /\ s \in wire => echo # "on"
  /\ \A q \in DOMAIN rxq : \A k \in DOMAIN rxq[q] : rxq[q][k] # s

Stalled ==
  /\ pc \notin Ended
  /\ \E s \in Waiting :
       /\ AnswerLost(s)
       /\ \/ nq > 1 \/ ~timed
          \/ sent < Count /\ inflight < window /\ slots[sent % window] = s

EndsOrStalls == <>(pc \in Ended) \/ <>[]Stalled

(***************************************************************************)
(* A run in which nothing goes wrong does not fail if raw-echo has answers *)
(* to spare, or closed its device on none of them: every reply that is     *)
(* owed comes and is counted, whatever else is received.  The exception is *)
(* a window of 1, if the reply is on a queue that loop never polls or its  *)
(* poll has no timeout.                                                    *)
(***************************************************************************)
UnpolledOrUntimed == window = 1 /\ (nq > 1 \/ ~timed)

FailsOnlyIfUnpolled ==
  pc = "failed" /\ faults = 0 /\ (echo_count > Count \/ dropped = {}) =>
    UnpolledOrUntimed

(***************************************************************************)
(* By its description raw-echo includes a "TX completion wait" for every   *)
(* packet.  Then an answer it counted has left its device before that is   *)
(* closed, and a run in which nothing goes wrong does not fail either if   *)
(* both programs have the same --count, as in the README's example.  It    *)
(* does not hold: sample_raw_echo posts its last answer and closes.        *)
(***************************************************************************)
CountedAnswersArrive ==
  pc = "failed" /\ faults = 0 => UnpolledOrUntimed

===============================================================================
