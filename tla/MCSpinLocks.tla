---------------------------- MODULE MCSpinLocks -----------------------------
(***************************************************************************)
(* The spin locks with three processes, with and without timeouts.         *)
(***************************************************************************)
EXTENDS SpinLocks

AllBuilds == [proto : {"RPSPIN", "WPSPIN"}, timeouts : BOOLEAN]
=============================================================================
