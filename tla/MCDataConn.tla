----------------------------- MODULE MCDataConn -----------------------------
(* Instances of DataConn for TLC.                                          *)
EXTENDS DataConn, TLC

CONSTANTS write1, read1

MCOp == write1 :> "write" @@ read1 :> "read"
MCVal == write1 :> 1 @@ read1 :> 0

=============================================================================
