------------------------------ MODULE KernelRun ------------------------------
(***************************************************************************)
(* What greenhouse/cycle.py and kernels/cli.py take for granted of          *)
(* kernel.run(): it makes requests one by one, never more than             *)
(* config.max_requests of them, and it returns.  GreenhouseCycle is built  *)
(* on this promise (its Request and KernelEnds); IslandKernel is shown to  *)
(* keep it.                                                                *)
(***************************************************************************)
EXTENDS Integers

CONSTANTS
  Budget,   (* config.max_requests, or Unlimited for None *)
  Unlimited

VARIABLES
  spent,    (* requests made so far *)
  running   (* whether run() has not returned yet *)

runVars == <<spent, running>>

Init == spent = 0 /\ running = TRUE

Request ==
  /\ running
  /\ Budget # Unlimited => spent < Budget
  /\ spent' = spent + 1
  /\ UNCHANGED running

Return ==
  /\ running
  /\ running' = FALSE
  /\ UNCHANGED spent

Next == Request \/ Return

Spec == Init /\ [][Next]_runVars /\ WF_runVars(Return)
=============================================================================
