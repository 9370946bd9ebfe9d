----------------------------- MODULE DevRegistry -----------------------------
(***************************************************************************)
(* What the device manager promises about exported devices, with the hash  *)
(* table, the entry pool and the device lock of usbip_devmgr.c left out: a *)
(* finite map from bus ids to the connection that owns the device.  A      *)
(* device that is not in the map is available.                             *)
(***************************************************************************)
EXTENDS Naturals, FiniteSets

CONSTANTS
  Devices,   \* bus ids
  Owners,    \* connections
  Absent,    \* no entry: the device is available
  NoOwner,   \* an entry whose owner pointer is NULL
  Capacity   \* MAX_BUSY_DEVICES

VARIABLE registry

TypeOK ==
  /\ registry \in [Devices -> Owners \cup {Absent, NoOwner}]
  /\ Cardinality({d \in Devices : registry[d] # Absent}) <= Capacity

Available(d) == registry[d] = Absent

Room == Cardinality({d \in Devices : registry[d] # Absent}) < Capacity

(* usbip_bind_device succeeds for an available device when an entry is free. *)
CanBind(d) == Available(d) /\ Room

Bind(d, o) == CanBind(d) /\ registry' = [registry EXCEPT ![d] = o]

(* usbip_set_device_busy: an entry stays as it is, a missing one is made     *)
(* without an owner when there is room.                                     *)
SetBusy(d) ==
  registry' = IF CanBind(d) THEN [registry EXCEPT ![d] = NoOwner] ELSE registry

(* usbip_unbind_device and usbip_set_device_available both drop the entry.   *)
Release(d) == registry' = [registry EXCEPT ![d] = Absent]

Init == registry = [d \in Devices |-> Absent]

Next ==
  \E d \in Devices :
    \/ \E o \in Owners : Bind(d, o)
    \/ SetBusy(d)
    \/ Release(d)

Spec == Init /\ [][Next]_registry

=============================================================================
