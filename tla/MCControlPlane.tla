---- MODULE MCControlPlane ----
EXTENDS ControlPlane, TLC
CONSTANTS v1, v2
MCDC == [h \in Host |-> h % 2]
V2OfV1 == v2 :> v1
====
