--------------------------- MODULE MCPushDelivery ---------------------------
(* Instances of PushDelivery for TLC. *)
EXTENDS PushPromise, TLC

CONSTANTS i1, i2, d1, d2, c1, c2, c3, m1, m2

\* Connections are interchangeable, and so are devices and instances.
Symmetry == Permutations(Conn) \cup Permutations(Device) \cup Permutations(Inst)
=============================================================================
