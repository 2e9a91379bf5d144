----------------------------- MODULE MCPosSync ------------------------------
(***************************************************************************)
(* Instances of PosSync for TLC.                                           *)
(***************************************************************************)
EXTENDS PosSync

\* Every intent asks for one unit, which the device saw at the price 10.
OneEach == [o \in Ops |-> 1]
SeenTen == [o \in Ops |-> 10]
=============================================================================
