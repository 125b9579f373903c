---------------------------- MODULE CompletionFifo ----------------------------
(***************************************************************************)
(* What a completion queue promises: completions come out in the order     *)
(* they were made, each once, from a queue of bounded depth.  A completion *)
(* made while the queue cannot take it is lost, and the queue is then      *)
(* broken for good (the mlx5 CQ error state).                              *)
(***************************************************************************)
EXTENDS Sequences, Naturals

CONSTANTS
  Depth,         \* completions the queue can hold
  Completions    \* what a completion says

VARIABLES
  fifo,      \* completions made and not yet taken
  broken     \* a completion was lost

fvars == <<fifo, broken>>

FifoInit == fifo = <<>> /\ broken = FALSE

Make(c) ==
  /\ ~broken
  /\ Len(fifo) < Depth
  /\ fifo' = Append(fifo, c)
  /\ UNCHANGED broken

Take ==
  /\ fifo # <<>>
  /\ fifo' = Tail(fifo)
  /\ UNCHANGED broken

Lose ==
  /\ broken' = TRUE
  /\ UNCHANGED fifo

FifoNext ==
  \/ \E c \in Completions : Make(c)
  \/ Take
  \/ Lose

FifoSpec == FifoInit /\ [][FifoNext]_fvars
===============================================================================
