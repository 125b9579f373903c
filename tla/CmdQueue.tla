------------------------------- MODULE CmdQueue -------------------------------
(***************************************************************************)
(* The firmware command interface: mlx5_cmd_exec and the firmware behind   *)
(* it.  There is one command descriptor in DMA memory.  The driver clears  *)
(* it and the mailboxes, fills them in, gives the descriptor to the        *)
(* firmware with its ownership bit, rings the doorbell and polls the bit   *)
(* for a bounded time.  The answer is written into the same descriptor.    *)
(*                                                                         *)
(* Commands are numbered from 1.  What a command asks and returns is left  *)
(* to its number; a descriptor carries the number of the command written   *)
(* into it and, once answered, the number of the command it answers.       *)
(* Mailbox chaining and the checksums are data; the token is kept.         *)
(***************************************************************************)
EXTENDS Integers

CONSTANTS
  TokMod,          \* 256: ctx->token is a uint8_t
  MaxCmds,         \* bound: commands executed
  Timeouts,        \* may the firmware take longer than the driver waits?
  DeliveryErrors   \* may the device fail to deliver a command?

(***************************************************************************)
(* A token of at least two bits.                                           *)
(***************************************************************************)
ASSUME CmdAssumption ==
  /\ TokMod \in Nat
  /\ TokMod > 2
  /\ MaxCmds \in Nat
  /\ Timeouts \in BOOLEAN
  /\ DeliveryErrors \in BOOLEAN

VARIABLES
  token,      \* ctx->token
  cmds,       \* commands started; the number of the current one
  desc,       \* the descriptor and its outbox
  dbell,      \* the doorbell was rung and the firmware has not looked yet
  jobs,       \* commands the firmware has fetched and not answered
  executed,   \* history: commands the firmware has carried out
  pc,         \* "idle", or "wait" while mlx5_cmd_exec polls
  ret,        \* result of the last mlx5_cmd_exec: "ok" or "fail"
  timedout    \* history: some command timed out

fwvars == <<jobs, executed>>
vars == <<token, cmds, desc, dbell, fwvars, pc, ret, timedout>>

Cmds == 1..MaxCmds

(***************************************************************************)
(* owner is the ownership bit, delivery the other seven bits of the same   *)
(* byte, status the first byte of the output.  answers is 0 as long as the *)
(* output area is as the driver cleared it.                                *)
(***************************************************************************)
Desc ==
  [owner : {"sw", "hw"}, cmd : 0..MaxCmds, token : 0..(TokMod - 1),
   answers : 0..MaxCmds, delivery : {"ok", "err"}, status : {"ok", "err"}]

Init ==
  /\ token = 0
  /\ cmds = 0
  /\ desc = [owner |-> "sw", cmd |-> 0, token |-> 0,
             answers |-> 0, delivery |-> "ok", status |-> "ok"]
  /\ dbell = FALSE
  /\ jobs = {}
  /\ executed = {}
  /\ pc = "idle"
  /\ ret = "ok"
  /\ timedout = FALSE

-------------------------------------------------------------------------------
\* Mutant: token 0 is not skipped when the counter wraps.
Bump_ThroughZero(t) == (t + 1) % TokMod

(***************************************************************************)
(* The token of the next command: ctx->token counts through 1..255.  It is *)
(* 0 only before the first command, which then takes 1.                    *)
(***************************************************************************)
Bump(t) == IF (t + 1) % TokMod = 0 THEN 1 ELSE t + 1

TokenFor(t) == IF t = 0 THEN Bump(t) ELSE t

TokenAfter(t) == IF t = 0 THEN (Bump(t) + 1) % TokMod ELSE Bump(t)

\* Mutant: the output area keeps the last answer.
ExecStart_OutputKept ==
  /\ pc = "idle"
  /\ cmds < MaxCmds
  /\ cmds' = cmds + 1
  /\ token' = TokenAfter(token)
  /\ desc' = [desc EXCEPT !.owner = "hw", !.cmd = cmds + 1, !.token = TokenFor(token)]
  /\ dbell' = TRUE
  /\ pc' = "wait"
  /\ UNCHANGED <<fwvars, ret, timedout>>

(***************************************************************************)
(* mlx5_cmd_exec up to its poll loop.  Nothing here looks at the ownership *)
(* bit: the descriptor is cleared and filled in whoever owns it.           *)
(***************************************************************************)
ExecStart ==
  /\ pc = "idle"
  /\ cmds < MaxCmds
  /\ cmds' = cmds + 1
  /\ token' = TokenAfter(token)
  /\ desc' = [owner |-> "hw", cmd |-> cmds + 1, token |-> TokenFor(token),
              answers |-> 0, delivery |-> "ok", status |-> "ok"]
  /\ dbell' = TRUE
  /\ pc' = "wait"
  /\ UNCHANGED <<fwvars, ret, timedout>>

(***************************************************************************)
(* The command does not fit the mailboxes: only the token is used up.      *)
(***************************************************************************)
ExecTooLarge ==
  /\ pc = "idle"
  /\ cmds < MaxCmds
  /\ cmds' = cmds + 1
  /\ token' = TokenAfter(token)
  /\ ret' = "fail"
  /\ UNCHANGED <<desc, dbell, fwvars, pc, timedout>>

\* Mutant: the ownership bit is not waited for.
ExecDone_NotWaiting ==
  /\ pc = "wait"
  /\ pc' = "idle"
  /\ ret' = IF desc.status = "ok" THEN "ok" ELSE "fail"
  /\ UNCHANGED <<token, cmds, desc, dbell, fwvars, timedout>>

\* Mutant: the status byte of the output is not looked at.
ExecDone_AnyStatus ==
  /\ pc = "wait"
  /\ desc.owner = "sw"
  /\ pc' = "idle"
  /\ ret' = "ok"
  /\ UNCHANGED <<token, cmds, desc, dbell, fwvars, timedout>>

(***************************************************************************)
(* The ownership bit is clear: the output is copied, and the first byte of *)
(* the output alone decides.  The delivery status is only printed.         *)
(***************************************************************************)
ExecDone ==
  /\ pc = "wait"
  /\ desc.owner = "sw"
  /\ pc' = "idle"
  /\ ret' = IF desc.status = "ok" THEN "ok" ELSE "fail"
  /\ UNCHANGED <<token, cmds, desc, dbell, fwvars, timedout>>

\* Mutant: the poll loop has no limit.
ExecTimeout_Never ==
  /\ pc = "wait"
  /\ desc.owner = "hw"
  /\ UNCHANGED vars

(***************************************************************************)
(* The million polls are used up.  The descriptor stays with the firmware. *)
(***************************************************************************)
ExecTimeout ==
  /\ pc = "wait"
  /\ Timeouts
  /\ desc.owner = "hw"
  /\ pc' = "idle"
  /\ ret' = "fail"
  /\ timedout' = TRUE
  /\ UNCHANGED <<token, cmds, desc, dbell, fwvars>>

-------------------------------------------------------------------------------
(***************************************************************************)
(* The firmware (external).  It reads the descriptor some time after the   *)
(* doorbell if the bit is its own, and answers into the same place, some   *)
(* time later, with the command carried out or refused.  A command that    *)
(* cannot be delivered is never read: the ownership bit comes back with a  *)
(* delivery status and the output as the driver cleared it.                *)
(***************************************************************************)
FwFetch ==
  /\ dbell
  /\ desc.owner = "hw"
  /\ dbell' = FALSE
  /\ jobs' = jobs \union {desc.cmd}
  /\ UNCHANGED <<token, cmds, desc, executed, pc, ret, timedout>>

FwReject ==
  /\ dbell
  /\ DeliveryErrors
  /\ desc.owner = "hw"
  /\ dbell' = FALSE
  /\ desc' = [desc EXCEPT !.owner = "sw", !.delivery = "err"]
  /\ UNCHANGED <<token, cmds, fwvars, pc, ret, timedout>>

FwAnswer(c, status) ==
  /\ c \in jobs
  /\ jobs' = jobs \ {c}
  /\ executed' = IF status = "ok" THEN executed \union {c} ELSE executed
  /\ desc' = [desc EXCEPT !.owner = "sw", !.answers = c, !.status = status]
  /\ UNCHANGED <<token, cmds, dbell, pc, ret, timedout>>

Driver == ExecDone \/ ExecTimeout

Firmware ==
  \/ FwFetch
  \/ FwReject
  \/ \E c \in Cmds, status \in {"ok", "err"} : FwAnswer(c, status)

Next ==
  \/ ExecStart
  \/ ExecTooLarge
  \/ Driver
  \/ Firmware

Spec == Init /\ [][Next]_vars

(***************************************************************************)
(* The poll loop is bounded: with Timeouts it ends whatever the firmware   *)
(* does.                                                                   *)
(***************************************************************************)
FairSpec == Spec /\ WF_vars(Driver)

-------------------------------------------------------------------------------
TypeOK ==
  /\ token \in 0..(TokMod - 1)
  /\ cmds \in 0..MaxCmds
  /\ desc \in Desc
  /\ dbell \in BOOLEAN
  /\ jobs \subseteq Cmds
  /\ executed \subseteq Cmds
  /\ pc \in {"idle", "wait"}
  /\ ret \in {"ok", "fail"}
  /\ timedout \in BOOLEAN

(***************************************************************************)
(* mlx5_cmd_exec returns 0 only for a command the firmware carried out, as *)
(* long as no earlier command timed out and this one was delivered.        *)
(***************************************************************************)
OkMeansExecuted ==
  [][pc = "wait" /\ pc' = "idle" /\ ret' = "ok" /\ ~timedout /\ desc.delivery = "ok"
       => cmds \in executed]_vars

(***************************************************************************)
(* Until a command times out, the driver never writes a descriptor the     *)
(* firmware owns and the firmware never has two commands at a time: the    *)
(* single descriptor is enough.                                            *)
(***************************************************************************)
OneAtATime ==
  ~timedout => /\ pc = "idle" => desc.owner = "sw" /\ jobs = {} /\ ~dbell
               /\ jobs \subseteq {cmds}

(***************************************************************************)
(* A command the driver saw fail by its status is never carried out later: *)
(* only a timeout leaves that open, so only after a timeout may a create   *)
(* command that failed still have created something.                       *)
(***************************************************************************)
FailIsFinal ==
  [][\A c \in executed' \ executed : timedout \/ (c = cmds /\ pc = "wait")]_vars

(***************************************************************************)
(* Tokens run through 1..255 over and over: never 0, and no two of 255     *)
(* commands in a row share one.                                            *)
(***************************************************************************)
TokenCycle ==
  /\ token = IF cmds = 0 THEN 0 ELSE (cmds % (TokMod - 1)) + 1
  /\ pc = "wait" => desc.token = ((cmds - 1) % (TokMod - 1)) + 1

(***************************************************************************)
(* "firmware / timeout / transport failure: -1": 0 means that the firmware *)
(* carried the command out.                                                *)
(***************************************************************************)
ZeroMeansExecuted ==
  [][pc = "wait" /\ pc' = "idle" /\ ret' = "ok" => cmds \in executed]_vars

(***************************************************************************)
(* mlx5_cmd_exec returns, even if the firmware never answers.              *)
(***************************************************************************)
ExecReturns == pc = "wait" ~> pc = "idle"

(***************************************************************************)
(* The inductive invariant: before the first timeout, the descriptor, the  *)
(* doorbell and the firmware are in one of four phases.                    *)
(***************************************************************************)
CmdInv ==
  /\ TypeOK
  /\ desc.owner = "hw" => desc.cmd \in Cmds
  /\ TokenCycle
  /\ OneAtATime
  /\ ~timedout /\ pc = "wait" =>
       /\ desc.cmd = cmds
       /\ desc.answers \in {0, cmds}
       /\ \/ desc.owner = "hw" /\ dbell /\ jobs = {}
          \/ desc.owner = "hw" /\ ~dbell /\ jobs = {cmds}
          \/ /\ desc.owner = "sw" /\ ~dbell /\ jobs = {}
             /\ desc.delivery = "ok" =>
                  desc.answers = cmds /\ (desc.status = "ok" => cmds \in executed)
===============================================================================
