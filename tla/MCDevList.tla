------------------------------ MODULE MCDevList ------------------------------
(* Four bus ids, three of which share a chain, a pool of three, and three   *)
(* drivers, one with two devices, for a table of two.                       *)
EXTENDS DevList

CONSTANTS n1, n2, n3, n4, c1, v1, v2, v3

MCNames == {n1, n2, n3, n4}
MCConns == {c1}
MCDrivers == {v1, v2, v3}
MCHash == [n \in MCNames |-> IF n = n4 THEN 1 ELSE 0]
MCBuckets == {0, 1}
MCDevicesOf == [d \in MCDrivers |-> IF d = v1 THEN <<n1, n2>>
                                    ELSE IF d = v2 THEN <<n4>> ELSE <<>>]

=============================================================================
