------------------------------ MODULE MCIoAll ------------------------------
(***************************************************************************)
(* The instance of IoAll for TLC.                                          *)
(***************************************************************************)
EXTENDS IoAll

AllFaults == {"EINTR", "ECONNRESET", "ETIMEDOUT"}
=============================================================================
