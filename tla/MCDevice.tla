------------------------------- MODULE MCDevice -------------------------------
(***************************************************************************)
(* Device for TLC: two faults with one queue, one with more, which keeps   *)
(* the run short; and page counts on both sides of the room there is for   *)
(* them.                                                                   *)
(***************************************************************************)
EXTENDS Device

FaultBudget == [n \in 1..MaxQueues |-> IF n = 1 THEN 2 ELSE 1]

Demands == {FwRoom, FwRoom + 1}

\* Start, stop and close end with an assignment to last_error and do not read
\* it before: until then, states that differ in it only are the same.
DeviceView ==
  <<IF pc \in {"none", "idle"} THEN last_error ELSE "OK",
    pc, goal, step, rc, call, ctxvars, config, started, outstanding, rtvars,
    fwvars, history>>

===============================================================================
