----------------------------- MODULE MCUsbipConn -----------------------------
(* Instances of UsbipConn: one device or two, and the events of each run.   *)
EXTENDS UsbipConn

LOCAL INSTANCE TLC

CONSTANTS d1, d2

One == {d1}
Two == {d1, d2}
SymmetricDevices == Permutations(Two)

Leave == {"leave"}
StopAndThread == {"signal", "thread"}
AllEvents == EventKinds

=============================================================================
