-------------------------------- MODULE DevMgr --------------------------------
(***************************************************************************)
(* The device manager of usbip_devmgr.c: a table of registered drivers and *)
(* the registry of exported devices, a hash table with chaining whose      *)
(* entries come from a fixed pool.  Every call takes the manager's mutex   *)
(* for all it does, so a call is one step.                                 *)
(*                                                                         *)
(* An entry is free when its busid is empty.  Entries in use are always    *)
(* EXPORTED: nothing stores another state in them, and the branches of     *)
(* bind, is_available and is_busy that look for one are not modelled.      *)
(***************************************************************************)
EXTENDS Naturals, Sequences, FiniteSets, SequencesExt

CONSTANTS
  Names,      \* bus ids, shorter than SYSFS_BUS_ID_SIZE
  Conns,      \* connections
  Drivers,    \* drivers
  Capacity,   \* MAX_BUSY_DEVICES
  MaxDrivers, \* CONFIG_USBIP_MAX_DRIVERS
  Buckets,    \* indices of the hash table
  Hash,       \* dev_hash, a function from Names to Buckets
  None        \* NULL, the empty busid

ASSUME DevMgrAssumption ==
  /\ Capacity \in Nat \ {0} /\ MaxDrivers \in Nat \ {0}
  /\ Hash \in [Names -> Buckets]
  /\ None \notin Names \cup Conns \cup (1 .. Capacity)
  /\ <<None>> # None

Entries == 1 .. Capacity

VARIABLES
  busid, owner, next,   \* the fields of device_entries
  table,                \* hash_table: the first entry of each chain
  count,                \* device_count
  drivers,              \* the registered drivers, in order
  ready                 \* the drivers initialised and not cleaned up

devices == <<busid, owner, next, table, count>>
vars == <<busid, owner, next, table, count, drivers, ready>>

Init ==
  /\ busid = [e \in Entries |-> None]
  /\ owner = [e \in Entries |-> None]
  /\ next = [e \in Entries |-> None]
  /\ table = [b \in Buckets |-> None]
  /\ count = 0
  /\ drivers = <<>> /\ ready = {}

-----------------------------------------------------------------------------
(* Walking a chain.                                                         *)

(* The entry i links after the head of the chain of bucket b, None behind   *)
(* the end.                                                                 *)
Link(b) ==
  LET at[i \in 0 .. Capacity] ==
        IF i = 0 THEN table[b]
        ELSE IF at[i - 1] = None THEN None ELSE next[at[i - 1]]
  IN  at

Chain(b) == {Link(b)[i] : i \in 0 .. Capacity} \ {None}

(* dev_hash_find: the first entry of the chain with that busid.             *)
Find(n) ==
  LET at == Link(Hash[n])
      hits == {i \in 0 .. Capacity : at[i] # None /\ busid[at[i]] = n}
  IN  IF hits = {} THEN None
      ELSE at[CHOOSE i \in hits : \A j \in hits : i <= j]

(* dev_alloc_entry: the first free entry of the pool, if the count allows.  *)
FreeEntries == {e \in Entries : busid[e] = None}
CanAlloc == count < Capacity /\ FreeEntries # {}
Alloc == CHOOSE e \in FreeEntries : \A f \in FreeEntries : e <= f

-----------------------------------------------------------------------------
(* The registry's operations.                                               *)

(* Mutant of Insert: the chain is cut off.                                  *)
InsertAlone(n, o) ==
  LET e == Alloc IN
  /\ CanAlloc
  /\ busid' = [busid EXCEPT ![e] = n]
  /\ owner' = [owner EXCEPT ![e] = o]
  /\ next' = [next EXCEPT ![e] = None]
  /\ table' = [table EXCEPT ![Hash[n]] = e]
  /\ count' = count + 1
  /\ UNCHANGED <<drivers, ready>>

(* A new entry for n, put at the head of its chain.  dev_hash_insert looks  *)
(* for a duplicate once more, which Find has just ruled out.                *)
Insert(n, o) ==
  LET e == Alloc IN
  /\ CanAlloc
  /\ busid' = [busid EXCEPT ![e] = n]
  /\ owner' = [owner EXCEPT ![e] = o]
  /\ next' = [next EXCEPT ![e] = table[Hash[n]]]
  /\ table' = [table EXCEPT ![Hash[n]] = e]
  /\ count' = count + 1
  /\ UNCHANGED <<drivers, ready>>

(* usbip_bind_device; it fails, and changes nothing, for a device that is   *)
(* registered and when the pool is used up.                                 *)
Bind(n, o) == Find(n) = None /\ Insert(n, o)

(* usbip_set_device_busy leaves an entry that exists as it is.              *)
SetBusy(n) == Find(n) = None /\ Insert(n, None)

(* dev_hash_remove and the clearing of next in dev_free_entry: the link     *)
(* that led to n's entry, in the table or in its predecessor, leads past it.*)
Unlink(n) ==
  LET e == Find(n) IN
  /\ table' = [table EXCEPT ![Hash[n]] = IF @ = e THEN next[e] ELSE @]
  /\ next' = [f \in Entries |->
                IF f = e THEN None
                ELSE IF f \in Chain(Hash[n]) /\ next[f] = e THEN next[e]
                ELSE next[f]]

(* Mutant of Release: the entry is taken out of its chain, not given back.  *)
ReleaseLeak(n) ==
  /\ Find(n) # None
  /\ Unlink(n)
  /\ UNCHANGED <<busid, owner, count, drivers, ready>>

(* usbip_unbind_device and usbip_set_device_available.                      *)
Release(n) ==
  LET e == Find(n) IN
  /\ e # None
  /\ Unlink(n)
  /\ busid' = [busid EXCEPT ![e] = None]
  /\ owner' = [owner EXCEPT ![e] = None]
  /\ count' = count - 1
  /\ UNCHANGED <<drivers, ready>>

-----------------------------------------------------------------------------
(* Drivers.                                                                 *)

Registered(d) == \E i \in DOMAIN drivers : drivers[i] = d

(* usbip_register_driver.  When the driver's init fails, or is refused as   *)
(* full or registered, the table is as before.                              *)
Register(d) ==
  /\ Len(drivers) < MaxDrivers /\ ~Registered(d)
  /\ drivers' = Append(drivers, d) /\ ready' = ready \cup {d}
  /\ UNCHANGED devices

(* usbip_unregister_driver closes the gap, keeping the order.               *)
Unregister(d) ==
  /\ \E i \in DOMAIN drivers : drivers[i] = d /\ drivers' = RemoveAt(drivers, i)
  /\ ready' = ready \ {d}
  /\ UNCHANGED devices

Next ==
  \/ \E n \in Names, o \in Conns : Bind(n, o)
  \/ \E n \in Names : SetBusy(n) \/ Release(n)
  \/ \E d \in Drivers : Register(d) \/ Unregister(d)

Spec == Init /\ [][Next]_vars

-----------------------------------------------------------------------------
(* Properties                                                               *)

(* Entries link to entries, and neither the pool nor the table of drivers   *)
(* takes more than its fixed size (usbip_devmgr.c:46-101).                  *)
TypeOK ==
  /\ busid \in [Entries -> Names \cup {None}]
  /\ owner \in [Entries -> Conns \cup {None}]
  /\ next \in [Entries -> Entries \cup {None}]
  /\ table \in [Buckets -> Entries \cup {None}]
  /\ count \in 0 .. Capacity
  /\ drivers \in Seq(Drivers) /\ Len(drivers) <= MaxDrivers
  /\ ready \subseteq Drivers

(* The chains end, no entry is in two of them, and together they hold the   *)
(* entries in use, each in the chain of its busid: an entry is neither lost *)
(* to a lookup nor reachable after it was freed.  No bus id has two, and    *)
(* the counter that guards the pool, kept apart from the entries, is their  *)
(* number: it refuses a device only when no entry is free                   *)
(* (usbip_devmgr.c:143-224).                                                *)
TableSound ==
  LET Used == Entries \ FreeEntries IN
  /\ \A b \in Buckets : Link(b)[Capacity] = None
  /\ \A b \in Buckets : \A e \in Chain(b) : busid[e] \in Names /\ Hash[busid[e]] = b
  /\ UNION {Chain(b) : b \in Buckets} = Used
  /\ \A e, f \in Used : busid[e] = busid[f] => e = f
  /\ count = Cardinality(Used)

(* The registry read through the lookup.                                    *)
NoOwner == <<None>>
Entry(n) == IF owner[Find(n)] = None THEN NoOwner ELSE owner[Find(n)]
Registry == INSTANCE DevRegistry
              WITH Devices <- Names, Owners <- Conns, Absent <- None,
                   registry <- [n \in Names |-> IF Find(n) = None THEN None
                                                ELSE Entry(n)]

(* Hash table, chains and pool implement the map from bus ids to owners:    *)
(* every call changes what a lookup finds for its own bus id and for no     *)
(* other, whichever bus ids share a chain (usbip_devmgr.c:490-662).         *)
ImplementsRegistry == Registry!Spec

=============================================================================
