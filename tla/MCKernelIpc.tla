----------------------------- MODULE MCKernelIpc -----------------------------
(* Two processes write: one with two threads, which share a connection, and one  *)
(* with one thread.                                                              *)
EXTENDS KernelIpc, TLC

CONSTANTS w1, w2, w3

TwoProcesses == (w1 :> "one") @@ (w2 :> "one") @@ (w3 :> "other")
=============================================================================
