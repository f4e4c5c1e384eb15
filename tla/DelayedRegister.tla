--------------------------- MODULE DelayedRegister ---------------------------
(***************************************************************************)
(* A register that captures its input one cycle after load and forwards it *)
(* meanwhile (Delayed_Register_N.vhd): it holds what a block memory puts   *)
(* out for one cycle only.                                                 *)
(***************************************************************************)

DelayedReg(Data) == [use_saved : BOOLEAN, saved : Data]

DelayedReset(zero) == [use_saved |-> FALSE, saved |-> zero]

DelayedOutput(r, input) == IF r.use_saved THEN r.saved ELSE input

(* Fault: the memory's output is never captured.                           *)
DelayedNext_no_capture(r, load, input) == r

DelayedNext(r, load, input) ==
  [use_saved |-> ~load,
   saved |-> IF ~load /\ ~r.use_saved THEN input ELSE r.saved]
=============================================================================
