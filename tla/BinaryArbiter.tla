---------------------------- MODULE BinaryArbiter ----------------------------
(***************************************************************************)
(* The arbiter of a memory two clients share (Binary_Arbiter.vhd).  The    *)
(* grants are combinational; the only state is PRIO, the client that wins  *)
(* when both ask.  Client 0 is the core, client 1 the AXI controller.      *)
(***************************************************************************)
EXTENDS Integers

Client == {0, 1}

(* Fault: a client is granted only in its own turn, also when it is alone. *)
Granted_own_turn(PRIO, bus_frame, req, c) == ~bus_frame /\ req[c] /\ PRIO = c

(* Fault: both clients are granted when both ask.                          *)
Granted_both(PRIO, bus_frame, req, c) == ~bus_frame /\ req[c]

(* sig_granted: nobody is granted while the bus is framed; of two          *)
(* requesters the one PRIO names is granted.                               *)
Granted(PRIO, bus_frame, req, c) ==
  /\ ~bus_frame
  /\ req[c]
  /\ PRIO = c \/ ~req[1 - c]

(* Fault: the client just granted wins the next tie.                       *)
NextPRIO_winner(PRIO, bus_frame, req) ==
  IF Granted(PRIO, bus_frame, req, 0) THEN 0
  ELSE IF Granted(PRIO, bus_frame, req, 1) THEN 1
  ELSE PRIO

(* Fault: PRIO counts the grants instead of toggling.                      *)
NextPRIO_count(PRIO, bus_frame, req) ==
  IF \E c \in Client : Granted(PRIO, bus_frame, req, c) THEN PRIO + 1 ELSE PRIO

(* The client just granted loses the next tie.                             *)
NextPRIO(PRIO, bus_frame, req) ==
  IF Granted(PRIO, bus_frame, req, 0) THEN 1
  ELSE IF Granted(PRIO, bus_frame, req, 1) THEN 0
  ELSE PRIO
=============================================================================
