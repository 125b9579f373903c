----------------------------- MODULE VfioBinding -----------------------------
(***************************************************************************)
(* vfio-bind and vfio-restore: moving one PCI function from its kernel     *)
(* driver to vfio-pci and back through sysfs, with the kernel driver's     *)
(* name kept in a file in between.                                         *)
(*                                                                         *)
(* Each command is a process that reads and writes sysfs and the file in   *)
(* separate system calls, takes no lock, and may be killed between any two *)
(* of them.  The function is on its kernel driver when the story begins,   *)
(* and all the commands are run in one directory, which the path of the    *)
(* file is relative to.                                                    *)
(***************************************************************************)
EXTENDS Integers

CONSTANT Procs   \* processes of the command line tool that may run at once

ASSUME ProcsAssumption == Procs # {}

VARIABLES
  driver,      \* the driver link: "kernel", "vfio-pci" or "none"
  record,      \* the state file: "absent", "empty", or the driver it names
  torn,        \* history: the last write of the file was lost
  syscall,     \* next system call of each process, "idle" if it has ended
  name,        \* the local variable driver of each process
  recovering   \* the operator now only restores, and nothing fails any more

vfiovars == <<driver, record, torn, syscall, name, recovering>>

Steps ==
  {"idle", "check", "truncate", "write", "new_id", "unbind", "bind",
   "current", "unbind_vfio", "rebind"}

VfioTypeOK ==
  /\ driver \in {"kernel", "vfio-pci", "none"}
  /\ record \in {"absent", "empty", "kernel"}
  /\ torn \in BOOLEAN
  /\ syscall \in [Procs -> Steps]
  /\ name \in [Procs -> {"empty", "kernel"}]
  /\ recovering \in BOOLEAN

VfioInit ==
  /\ driver = "kernel"
  /\ record = "absent"
  /\ torn = FALSE
  /\ syscall = [p \in Procs |-> "idle"]
  /\ name = [p \in Procs |-> "empty"]
  /\ recovering = FALSE

-------------------------------------------------------------------------------
At(p, here) == syscall[p] = here
Go(p, there) == syscall' = [syscall EXCEPT ![p] = there]

\* The system call fails without effect, and the process with it.
Fails(p) ==
  /\ Go(p, "idle")
  /\ UNCHANGED <<driver, record, torn, name, recovering>>

Fault == ~recovering

(***************************************************************************)
(* vfio_bind.  vfio_check only reads, and may find the host not ready.     *)
(***************************************************************************)
BindStart(p) ==
  /\ ~recovering
  /\ At(p, "idle")
  /\ Go(p, "check")
  /\ UNCHANGED <<driver, record, torn, name, recovering>>

\* Mutant: vfio_bind records whatever driver the function is on.
BindCheck_AnyDriver(p) ==
  /\ At(p, "check")
  /\ IF driver # "none"
     THEN Go(p, "truncate") /\ name' = [name EXCEPT ![p] = driver]
     ELSE Go(p, "idle") /\ UNCHANGED name
  /\ UNCHANGED <<driver, record, torn, recovering>>

\* It refuses a function without a driver, and one on vfio-pci is done.
BindCheck(p) ==
  /\ At(p, "check")
  /\ IF driver = "kernel"
     THEN Go(p, "truncate") /\ name' = [name EXCEPT ![p] = driver]
     ELSE Go(p, "idle") /\ UNCHANGED name
  /\ UNCHANGED <<driver, record, torn, recovering>>

BindCheckFails(p) ==
  /\ Fault
  /\ syscall[p] \in {"check", "truncate"}
  /\ Fails(p)

\* open(state, O_WRONLY | O_CREAT | O_TRUNC).
BindTruncate(p) ==
  /\ At(p, "truncate")
  /\ record' = "empty"
  /\ Go(p, "write")
  /\ UNCHANGED <<driver, torn, name, recovering>>

BindWrite(p) ==
  /\ At(p, "write")
  /\ record' = name[p]
  /\ torn' = FALSE
  /\ Go(p, "new_id")
  /\ UNCHANGED <<driver, name, recovering>>

\* dprintf's result is not looked at: vfio_bind goes on without a record.
BindWriteLost(p) ==
  /\ Fault
  /\ At(p, "write")
  /\ torn' = (torn \/ record = "empty")
  /\ Go(p, "new_id")
  /\ UNCHANGED <<driver, record, name, recovering>>

(***************************************************************************)
(* A new id makes the kernel probe vfio-pci on a matching function that    *)
(* has no driver.  EEXIST, the id known already, is not a failure.         *)
(***************************************************************************)
BindNewId(p) ==
  /\ At(p, "new_id")
  /\ driver' = IF driver = "none" THEN "vfio-pci" ELSE driver
  /\ Go(p, "unbind")
  /\ UNCHANGED <<record, torn, name, recovering>>

BindNewIdKnown(p) ==
  /\ At(p, "new_id")
  /\ Go(p, "unbind")
  /\ UNCHANGED <<driver, record, torn, name, recovering>>

\* sysfs takes an unbind from the function's own driver only.
BindUnbind(p) ==
  /\ At(p, "unbind")
  /\ driver = "kernel"
  /\ driver' = "none"
  /\ Go(p, "bind")
  /\ UNCHANGED <<record, torn, name, recovering>>

\* sysfs takes a bind of a function that has no driver only.
BindVfio(p) ==
  /\ At(p, "bind")
  /\ driver = "none"
  /\ driver' = "vfio-pci"
  /\ Go(p, "idle")
  /\ UNCHANGED <<record, torn, name, recovering>>

BindSysfsFails(p) ==
  /\ \/ At(p, "new_id") /\ Fault
     \/ At(p, "unbind") /\ (Fault \/ driver # "kernel")
     \/ At(p, "bind") /\ (Fault \/ driver # "none")
  /\ Fails(p)

-------------------------------------------------------------------------------
(***************************************************************************)
(* vfio_restore.  An empty file names the driver "", which does not exist: *)
(* the bind at the end fails, after the function has left vfio-pci.        *)
(***************************************************************************)
RestoreRead(p) ==
  /\ At(p, "idle")
  /\ record # "absent"
  /\ name' = [name EXCEPT ![p] = record]
  /\ Go(p, "current")
  /\ UNCHANGED <<driver, record, torn, recovering>>

\* Mutant: the function is unbound from vfio-pci without a look at its driver.
RestoreCurrent_Unlooked(p) ==
  /\ At(p, "current")
  /\ Go(p, "unbind_vfio")
  /\ UNCHANGED <<driver, record, torn, name, recovering>>

RestoreCurrent(p) ==
  /\ At(p, "current")
  /\ Go(p, IF driver = "vfio-pci" THEN "unbind_vfio" ELSE "rebind")
  /\ UNCHANGED <<driver, record, torn, name, recovering>>

RestoreUnbind(p) ==
  /\ At(p, "unbind_vfio")
  /\ driver = "vfio-pci"
  /\ driver' = "none"
  /\ Go(p, "rebind")
  /\ UNCHANGED <<record, torn, name, recovering>>

RestoreBind(p) ==
  /\ At(p, "rebind")
  /\ name[p] = "kernel"
  /\ driver = "none"
  /\ driver' = "kernel"
  /\ Go(p, "idle")
  /\ UNCHANGED <<record, torn, name, recovering>>

RestoreSysfsFails(p) ==
  /\ \/ At(p, "unbind_vfio") /\ (Fault \/ driver # "vfio-pci")
     \/ At(p, "rebind") /\ (Fault \/ driver # "none" \/ name[p] # "kernel")
  /\ Fails(p)

-------------------------------------------------------------------------------
\* The process dies where it is.
Kill(p) ==
  /\ Fault
  /\ syscall[p] # "idle"
  /\ torn' = (torn \/ (At(p, "write") /\ record = "empty"))
  /\ Go(p, "idle")
  /\ UNCHANGED <<driver, record, name, recovering>>

\* From now on the operator does nothing but vfio-restore.
Recover ==
  /\ ~recovering
  /\ recovering' = TRUE
  /\ UNCHANGED <<driver, record, torn, syscall, name>>

\* What a process that has been started goes on to do.
Continue(p) ==
  \/ BindCheck(p) \/ BindTruncate(p) \/ BindWrite(p)
  \/ BindNewId(p) \/ BindNewIdKnown(p) \/ BindUnbind(p) \/ BindVfio(p)
  \/ BindSysfsFails(p)
  \/ RestoreCurrent(p) \/ RestoreUnbind(p) \/ RestoreBind(p)
  \/ RestoreSysfsFails(p)

Step(p) ==
  \/ BindStart(p) \/ BindCheckFails(p) \/ BindWriteLost(p)
  \/ RestoreRead(p) \/ Continue(p) \/ Kill(p)

VfioNext == Recover \/ \E p \in Procs : Step(p)

VfioSpec == VfioInit /\ [][VfioNext]_vfiovars

(***************************************************************************)
(* A process is straight-line code and runs to its end; an operator who    *)
(* wants the kernel driver back runs vfio-restore until it works.          *)
(***************************************************************************)
VfioFairSpec ==
  /\ VfioSpec
  /\ \A p \in Procs : WF_vfiovars(Continue(p)) /\ WF_vfiovars(recovering /\ RestoreRead(p))

-------------------------------------------------------------------------------
(***************************************************************************)
(* Whenever the function is off its kernel driver the file names that      *)
(* driver, so that vfio-restore can find it, however many commands run at  *)
(* once and wherever they are killed; the exceptions are a process about   *)
(* to rewrite the file, and a rewrite that was lost.                       *)
(***************************************************************************)
Rewriting == \E p \in Procs : syscall[p] = "write"

Recorded == record = "kernel" \/ torn \/ Rewriting

Recoverable == driver # "kernel" => Recorded

(***************************************************************************)
(* Unless the record was lost, an operator who keeps running vfio-restore  *)
(* gets the function back to its kernel driver for good, from wherever the *)
(* commands before left it, those that are still running included.         *)
(***************************************************************************)
RestoreWorks == (recovering /\ ~torn) ~> [](driver = "kernel")

-------------------------------------------------------------------------------
(***************************************************************************)
(* The inductive invariant: a process that is past its write of the file   *)
(* may rely on the record, even when another one has truncated it since.   *)
(***************************************************************************)
VfioInv ==
  /\ VfioTypeOK
  /\ Recoverable
  /\ \A p \in Procs :
       /\ syscall[p] \in {"truncate", "write"} => name[p] = "kernel"
       /\ syscall[p] = "write" => record # "absent"
       /\ syscall[p] \in {"new_id", "unbind", "bind"} => Recorded

===============================================================================
