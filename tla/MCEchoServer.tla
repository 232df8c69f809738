---------------------------- MODULE MCEchoServer ----------------------------
(***************************************************************************)
(* Instance of EchoServer for TLC.                                         *)
(***************************************************************************)
EXTENDS EchoServer

SomeFds == {3, 4, 5}
NoTimeouts == {}
=============================================================================
