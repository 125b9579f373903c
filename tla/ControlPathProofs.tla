-------------------------- MODULE ControlPathProofs --------------------------
(***************************************************************************)
(* The two components that are used before and around the data path: the   *)
(* firmware command interface (CmdQueue) and the binding of the function   *)
(* to vfio-pci (VfioBinding).                                              *)
(*                                                                         *)
(* CmdInv is an inductive invariant of the command interface for every     *)
(* token width and number of commands, with timeouts and undeliverable     *)
(* commands or without.  What mlx5_cmd_exec's answer means follows.        *)
(*                                                                         *)
(* VfioInv is one of the binding, for every set of processes: the record   *)
(* of the kernel driver survives any number of vfio-bind and vfio-restore  *)
(* commands.                                                               *)
(***************************************************************************)
EXTENDS CmdQueue, VfioBinding, RingArithmetic

-------------------------------------------------------------------------------
LEMMA CmdInitInv == Init => CmdInv
<1> SUFFICES ASSUME Init PROVE CmdInv
  OBVIOUS
<1>1. 0 \in 0..MaxCmds /\ 0 \in 0..(TokMod - 1)  BY CmdAssumption
<1>2. TypeOK  BY <1>1 DEF Init, TypeOK, Desc
<1>3. TokenCycle /\ OneAtATime  BY DEF Init, TokenCycle, OneAtATime
<1>  QED  BY <1>2, <1>3 DEF Init, CmdInv

(***************************************************************************)
(* The token arithmetic of mlx5_cmd_exec: from the token left by command n *)
(* it takes the next of 1..255 and leaves the one after that.              *)
(***************************************************************************)
LEMMA TokenStep ==
  ASSUME NEW n \in Nat, NEW t \in 0..(TokMod - 1),
         t = IF n = 0 THEN 0 ELSE (n % (TokMod - 1)) + 1
  PROVE  /\ TokenFor(t) = (n % (TokMod - 1)) + 1
         /\ TokenAfter(t) = ((n + 1) % (TokMod - 1)) + 1
         /\ TokenFor(t) \in 0..(TokMod - 1)
         /\ TokenAfter(t) \in 0..(TokMod - 1)
<1> DEFINE m == TokMod - 1
           r == n % m
<1>0. TokMod \in Nat /\ TokMod > 2 /\ m \in Nat \ {0} /\ m >= 2 /\ n \in Int /\ TokMod = m + 1
  BY CmdAssumption
<1> HIDE DEF m
<1>1. r \in 0..(m - 1)  BY ONLY <1>0, DivMod
<1>2. (n + 1) % m = IF r + 1 < m THEN r + 1 ELSE r + 1 - m
  <2>1. 1 \in 0..(m - 1)  BY <1>0
  <2>  QED  BY ONLY <1>0, <2>1, ModAddSmall
<1>3. t = IF n = 0 THEN 0 ELSE r + 1  BY DEF m
<1>4. CASE n = 0
  <2>1. 0 \in 0..(m - 1) /\ 1 \in 0..(TokMod - 1) /\ 2 \in 0..(TokMod - 1)  BY <1>0
  <2>2. r = 0  BY ONLY <1>0, <1>4, <2>1, ModSelf
  <2>3. 1 % TokMod = 1 /\ 2 % TokMod = 2
    <3>1. TokMod \in Nat \ {0}  BY <1>0
    <3>  QED  BY ONLY <2>1, <3>1, ModSelf
  <2>4. t = 0 /\ (0 + 1) % TokMod = 1 /\ (1 + 1) % TokMod = 2
    BY <1>3, <1>4, <2>3
  <2>5. TokenFor(t) = 1 /\ TokenAfter(t) = 2
    BY <2>4 DEF TokenFor, TokenAfter, Bump
  <2>6. (n + 1) % m = 1  BY <1>0, <1>2, <2>2
  <2> HIDE DEF r
  <2>  QED  BY <2>1, <2>2, <2>5, <2>6 DEF m, r
<1>5. CASE n # 0
  <2> HIDE DEF r
  <2>1. t = r + 1 /\ t # 0 /\ t \in 1..m  BY <1>0, <1>1, <1>3, <1>5
  <2>2. TokenFor(t) = t /\ TokenAfter(t) = Bump(t)
    BY <2>1 DEF TokenFor, TokenAfter
  <2>3. CASE r + 1 < m
    <3>1. t + 1 \in 0..(TokMod - 1) /\ TokMod \in Nat \ {0}  BY <1>0, <2>1, <2>3
    <3>2. (t + 1) % TokMod = t + 1  BY ONLY <3>1, ModSelf
    <3>3. Bump(t) = t + 1  BY <1>0, <2>1, <3>2 DEF Bump
    <3>  QED  BY <1>0, <1>2, <2>1, <2>2, <2>3, <3>1, <3>3 DEF m, r
  <2>4. CASE ~(r + 1 < m)
    <3>1. t + 1 = TokMod /\ r + 1 = m  BY <1>0, <1>1, <2>1, <2>4
    <3>2. TokMod % TokMod = 0
      <4>1. TokMod \in Nat \ {0} /\ 0 \in 0..(TokMod - 1) /\ 0 \in Int  BY <1>0
      <4>2. 0 % TokMod = 0  BY ONLY <4>1, ModSelf
      <4>3. (0 + TokMod) % TokMod = 0 % TokMod  BY ONLY <4>1, ModTurn
      <4>4. 0 + TokMod = TokMod  BY <1>0
      <4>  QED  BY <4>2, <4>3, <4>4
    <3>3. Bump(t) = 1  BY <3>1, <3>2 DEF Bump
    <3>4. (n + 1) % m = 0  BY <1>0, <1>1, <1>2, <2>4, <3>1
    <3>  QED  BY <1>0, <2>1, <2>2, <3>1, <3>3, <3>4 DEF m, r
  <2>  QED  BY <2>3, <2>4
<1>  QED  BY <1>4, <1>5

LEMMA CmdNextInv == CmdInv /\ [Next]_vars => CmdInv'
<1> SUFFICES ASSUME CmdInv, [Next]_vars PROVE CmdInv'
  OBVIOUS
<1> USE DEF CmdInv
<1>0. /\ TypeOK /\ TokMod \in Nat /\ TokMod > 2 /\ MaxCmds \in Nat
      /\ cmds \in Nat /\ token \in 0..(TokMod - 1)
  BY CmdAssumption DEF TypeOK
<1>1. CASE ExecStart \/ ExecTooLarge
  <2>1. /\ cmds' = cmds + 1 /\ cmds + 1 \in 1..MaxCmds
        /\ token' = TokenAfter(token)
    BY <1>0, <1>1 DEF ExecStart, ExecTooLarge
  <2>2. /\ TokenFor(token) = (cmds % (TokMod - 1)) + 1
        /\ TokenAfter(token) = ((cmds + 1) % (TokMod - 1)) + 1
        /\ TokenFor(token) \in 0..(TokMod - 1)
        /\ TokenAfter(token) \in 0..(TokMod - 1)
    <3>1. token = IF cmds = 0 THEN 0 ELSE (cmds % (TokMod - 1)) + 1
      BY DEF TokenCycle
    <3>  QED  BY ONLY <1>0, <3>1, TokenStep
  <2>3. (cmds + 1) - 1 = cmds /\ cmds + 1 # 0  BY <1>0
  <2>4. CASE ExecStart
    <3>1. /\ desc' = [owner |-> "hw", cmd |-> cmds + 1, token |-> TokenFor(token),
                      answers |-> 0, delivery |-> "ok", status |-> "ok"]
          /\ dbell' = TRUE /\ pc = "idle" /\ pc' = "wait"
          /\ UNCHANGED <<jobs, executed, ret, timedout>>
      BY <2>4 DEF ExecStart, fwvars
    <3>2. desc' \in Desc
      BY <1>0, <2>1, <2>2, <3>1 DEF Desc
    <3>3. TypeOK'
      BY <1>0, <2>1, <2>2, <3>1, <3>2 DEF TypeOK
    <3>4. TokenCycle'
      BY <2>1, <2>2, <2>3, <3>1 DEF TokenCycle
    <3>5. ~timedout => jobs = {}
      BY <3>1 DEF OneAtATime
    <3>  QED  BY <2>1, <3>1, <3>3, <3>4, <3>5 DEF OneAtATime, Cmds
  <2>5. CASE ExecTooLarge
    <3>1. /\ pc = "idle" /\ ret' = "fail"
          /\ UNCHANGED <<desc, dbell, jobs, executed, pc, timedout>>
      BY <2>5 DEF ExecTooLarge, fwvars
    <3>2. TypeOK'
      BY <1>0, <2>1, <2>2, <3>1 DEF TypeOK
    <3>3. TokenCycle'
      BY <2>1, <2>2, <2>3, <3>1 DEF TokenCycle
    <3>  QED  BY <3>1, <3>2, <3>3 DEF OneAtATime
  <2>  QED  BY <1>1, <2>4, <2>5
<1>2. CASE ExecDone
  BY <1>2 DEF ExecDone, fwvars, TypeOK, TokenCycle, OneAtATime
<1>3. CASE ExecTimeout
  BY <1>3 DEF ExecTimeout, fwvars, TypeOK, TokenCycle, OneAtATime
<1>4. CASE FwFetch
  <2>1. /\ dbell /\ desc.owner = "hw" /\ dbell' = FALSE
        /\ jobs' = jobs \union {desc.cmd}
        /\ UNCHANGED <<token, cmds, desc, executed, pc, ret, timedout>>
    BY <1>4 DEF FwFetch
  <2>2. desc.cmd \in Cmds  BY <2>1
  <2>3. TypeOK' /\ TokenCycle'
    BY <2>1, <2>2 DEF TypeOK, TokenCycle
  <2>4. ~timedout => pc = "wait" /\ jobs = {} /\ desc.cmd = cmds
    BY <2>1 DEF OneAtATime, TypeOK
  <2>  QED  BY <2>1, <2>2, <2>3, <2>4 DEF OneAtATime
<1>5. CASE FwReject
  <2>1. /\ dbell /\ desc.owner = "hw" /\ dbell' = FALSE
        /\ desc' = [desc EXCEPT !.owner = "sw", !.delivery = "err"]
        /\ UNCHANGED <<token, cmds, jobs, executed, pc, ret, timedout>>
    BY <1>5 DEF FwReject, fwvars
  <2>  QED
    BY <2>1 DEF TypeOK, TokenCycle, OneAtATime, Desc
<1>6. ASSUME NEW c \in Cmds, NEW status \in {"ok", "err"}, FwAnswer(c, status)
      PROVE  CmdInv'
  <2>1. /\ c \in jobs /\ jobs' = jobs \ {c}
        /\ executed' = IF status = "ok" THEN executed \union {c} ELSE executed
        /\ desc' = [desc EXCEPT !.owner = "sw", !.answers = c, !.status = status]
        /\ UNCHANGED <<token, cmds, dbell, pc, ret, timedout>>
    BY <1>6 DEF FwAnswer
  <2>2. TypeOK'
    <3>1. c \in 0..MaxCmds  BY DEF Cmds
    <3>2. desc' \in Desc  BY <2>1, <3>1 DEF TypeOK, Desc
    <3>3. jobs' \subseteq Cmds /\ executed' \subseteq Cmds  BY <2>1 DEF TypeOK
    <3>  QED  BY <2>1, <3>2, <3>3 DEF TypeOK
  <2>3. TokenCycle'
    BY <2>1 DEF TokenCycle, TypeOK, Desc
  <2>4. ASSUME ~timedout PROVE pc = "wait" /\ c = cmds /\ jobs = {cmds} /\ ~dbell
    BY <2>1, <2>4 DEF OneAtATime, TypeOK
  <2>  QED  BY <2>1, <2>2, <2>3, <2>4 DEF OneAtATime, TypeOK, Desc
<1>7. CASE UNCHANGED vars
  BY <1>7 DEF vars, fwvars, TypeOK, TokenCycle, OneAtATime
<1>  QED
  BY <1>1, <1>2, <1>3, <1>4, <1>5, <1>6, <1>7 DEF Next, Driver, Firmware

(***************************************************************************)
(* The inductive invariant holds of every behaviour of the command         *)
(* interface.                                                              *)
(***************************************************************************)
THEOREM CmdInvariant == Spec => []CmdInv
<1>1. Init => CmdInv  BY CmdInitInv
<1>2. CmdInv /\ [Next]_vars => CmdInv'  BY CmdNextInv
<1>  QED  BY <1>1, <1>2, PTL DEF Spec

(***************************************************************************)
(* Until the first timeout mlx5_cmd_exec never touches a descriptor the    *)
(* firmware owns, and the firmware has at most one command.                *)
(***************************************************************************)
THEOREM OneCommandAtATime == Spec => []OneAtATime
<1>1. CmdInv => OneAtATime  BY DEF CmdInv
<1>  QED  BY <1>1, CmdInvariant, PTL

(***************************************************************************)
(* Tokens cycle through 1..TokMod-1, whatever the width.                   *)
(***************************************************************************)
THEOREM TokensCycle == Spec => []TokenCycle
<1>1. CmdInv => TokenCycle  BY DEF CmdInv
<1>  QED  BY <1>1, CmdInvariant, PTL

(***************************************************************************)
(* A delivered command that mlx5_cmd_exec reports as successful before any *)
(* timeout was carried out by the firmware.                                *)
(***************************************************************************)
THEOREM OkIsExecuted == Spec => OkMeansExecuted
<1>1. ASSUME CmdInv, [Next]_vars
      PROVE  [pc = "wait" /\ pc' = "idle" /\ ret' = "ok" /\ ~timedout
                /\ desc.delivery = "ok" => cmds \in executed]_vars
  <2> SUFFICES ASSUME Next, pc = "wait", pc' = "idle", ret' = "ok", ~timedout,
                      desc.delivery = "ok"
               PROVE  cmds \in executed
    BY <1>1
  <2>1. CASE ExecDone
    BY <1>1, <2>1 DEF ExecDone, CmdInv, TypeOK, Desc
  <2>2. CASE ExecTimeout
    BY <2>2 DEF ExecTimeout
  <2>  QED
    BY <2>1, <2>2
    DEF Next, Driver, Firmware, ExecStart, ExecTooLarge, FwFetch, FwReject, FwAnswer
<1>  QED  BY <1>1, CmdInvariant, PTL DEF Spec, OkMeansExecuted

(***************************************************************************)
(* Before any timeout the firmware carries out only the command that       *)
(* mlx5_cmd_exec is waiting for.                                           *)
(***************************************************************************)
THEOREM FailuresAreFinal == Spec => FailIsFinal
<1>1. ASSUME CmdInv, [Next]_vars
      PROVE  [\A c \in executed' \ executed : timedout \/ (c = cmds /\ pc = "wait")]_vars
  <2> SUFFICES ASSUME Next, NEW c \in executed' \ executed, ~timedout
               PROVE  c = cmds /\ pc = "wait"
    BY <1>1
  <2>1. PICK d \in Cmds, status \in {"ok", "err"} : FwAnswer(d, status)
    BY DEF Next, Driver, Firmware, ExecStart, ExecTooLarge, ExecDone, ExecTimeout,
       FwFetch, FwReject, fwvars
  <2>2. c = d /\ c \in jobs
    BY <2>1 DEF FwAnswer
  <2>  QED  BY <1>1, <2>2 DEF CmdInv, OneAtATime, TypeOK
<1>  QED  BY <1>1, CmdInvariant, PTL DEF Spec, FailIsFinal

-------------------------------------------------------------------------------

(***************************************************************************)
(* The action of one process keeps the invariant.  Most steps touch the    *)
(* record only by handing the duty to have one to the next step.           *)
(***************************************************************************)
LEMMA VfioStep ==
  ASSUME VfioInv, NEW p \in Procs, Step(p)
  PROVE  VfioInv'
<1>t. VfioTypeOK /\ VfioTypeOK'
  BY DEF VfioInv, VfioTypeOK, Steps, Step, Continue, Go, Fails, At,
         BindStart, BindCheck, BindCheckFails, BindTruncate, BindWrite,
         BindWriteLost, BindNewId, BindNewIdKnown, BindUnbind, BindVfio,
         BindSysfsFails, RestoreRead, RestoreCurrent, RestoreUnbind,
         RestoreBind, RestoreSysfsFails, Kill
<1>1. CASE BindTruncate(p)
  <2>1. Rewriting'
    BY <1>1, <1>t DEF BindTruncate, Go, Rewriting, VfioTypeOK
  <2> QED
    BY <1>1, <1>t, <2>1 DEF BindTruncate, Go, At, VfioInv, Recoverable, Recorded,
                            VfioTypeOK
<1>2. CASE BindWrite(p)
  <2>1. record' = "kernel"
    BY <1>2 DEF BindWrite, At, VfioInv
  <2> QED
    BY <1>2, <1>t, <2>1 DEF BindWrite, Go, At, VfioInv, Recoverable, Recorded, VfioTypeOK
<1>3. CASE BindWriteLost(p) \/ Kill(p)
  <2>1. record' = record /\ driver' = driver /\ name' = name
    BY <1>3 DEF BindWriteLost, Kill
  <2>2. Recorded => Recorded'
    <3>1. CASE record = "kernel" \/ torn
      BY <1>3, <2>1, <3>1 DEF BindWriteLost, Kill, Recorded
    <3>2. CASE syscall[p] = "write"
      BY <1>3, <1>t, <2>1, <3>2 DEF BindWriteLost, Kill, Recorded, At, VfioTypeOK, VfioInv,
                                    Recoverable, Rewriting
    <3>3. ASSUME NEW q \in Procs, syscall[q] = "write", q # p
          PROVE  Recorded'
      BY <1>3, <1>t, <3>3 DEF BindWriteLost, Kill, Recorded, Rewriting, Go, VfioTypeOK
    <3> QED
      BY <3>1, <3>2, <3>3 DEF Recorded, Rewriting
  <2>3. BindWriteLost(p) => Recorded
    BY DEF BindWriteLost, At, Recorded, Rewriting
  <2> QED
    BY <1>3, <1>t, <2>1, <2>2, <2>3
    DEF BindWriteLost, Kill, Go, At, VfioInv, Recoverable, VfioTypeOK
<1>4. CASE ~(BindTruncate(p) \/ BindWrite(p) \/ BindWriteLost(p) \/ Kill(p))
  <2> USE <1>4 DEF Step, Continue, Go, Fails, At, BindStart, BindCheck,
         BindCheckFails, BindNewId, BindNewIdKnown, BindUnbind, BindVfio,
         BindSysfsFails, RestoreRead, RestoreCurrent, RestoreUnbind,
         RestoreBind, RestoreSysfsFails
  <2>1. record' = record /\ torn' = torn /\ syscall[p] # "write"
    OBVIOUS
  <2>2. \A q \in Procs : q # p => syscall'[q] = syscall[q] /\ name'[q] = name[q]
    BY <1>t DEF VfioTypeOK
  <2>3. Recorded => Recorded'
    BY <2>1, <2>2 DEF Recorded, Rewriting
  <2>4. Recoverable'
    BY <2>3 DEF VfioInv, Recoverable
  <2>5. /\ syscall'[p] \in {"truncate", "write"} => name'[p] = "kernel"
        /\ syscall'[p] # "write"
        /\ syscall'[p] \in {"new_id", "unbind", "bind"} => Recorded'
    BY <1>t, <2>3 DEF VfioInv, VfioTypeOK
  <2> QED
    BY <1>t, <2>1, <2>2, <2>3, <2>4, <2>5 DEF VfioInv
<1> QED
  BY <1>1, <1>2, <1>3, <1>4

(***************************************************************************)
(* The invariant holds throughout, for any number of concurrent commands.  *)
(***************************************************************************)
THEOREM VfioInvariant == VfioSpec => []VfioInv
<1>1. VfioInit => VfioInv
  BY DEF VfioInit, VfioInv, VfioTypeOK, Steps, Recoverable
<1>2. VfioInv /\ [VfioNext]_vfiovars => VfioInv'
  <2> SUFFICES ASSUME VfioInv, [VfioNext]_vfiovars
               PROVE  VfioInv'
    OBVIOUS
  <2>1. ASSUME NEW p \in Procs, Step(p)
        PROVE  VfioInv'
    BY <2>1, VfioStep
  <2>2. CASE Recover \/ UNCHANGED vfiovars
    BY <2>2 DEF Recover, vfiovars, VfioInv, VfioTypeOK, Recoverable, Recorded,
                Rewriting
  <2> QED
    BY <2>1, <2>2 DEF VfioNext
<1> QED
  BY <1>1, <1>2, PTL DEF VfioSpec

(***************************************************************************)
(* While the function is off its kernel driver vfio-restore finds that     *)
(* driver's name in the file, or somebody is about to write it there, or   *)
(* a write was lost.                                                       *)
(***************************************************************************)
THEOREM RecordSurvives == VfioSpec => []Recoverable
<1>1. VfioInv => Recoverable
  BY DEF VfioInv
<1> QED
  BY <1>1, VfioInvariant, PTL

===============================================================================
