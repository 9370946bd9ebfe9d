------------------------------- MODULE DevList -------------------------------
(***************************************************************************)
(* OP_REQ_DEVLIST (usbip_server.c:90-190) over the device manager.  The    *)
(* server's thread counts the devices that are available, sends the count, *)
(* and then asks again for every device before it sends its record.        *)
(* ConnCleanup gives devices back while this goes on; only the server's    *)
(* thread itself takes one.  Drivers come and go while it is idle.         *)
(***************************************************************************)
EXTENDS DevMgr

CONSTANT DevicesOf   \* the bus ids of each driver's devices, in order

ASSUME DevicesOfAssumption ==
  /\ DevicesOf \in [Drivers -> Seq(Names)]
  /\ \A d, e \in Drivers : \A i \in DOMAIN DevicesOf[d], j \in DOMAIN DevicesOf[e] :
       DevicesOf[d][i] = DevicesOf[e][j] => d = e /\ i = j

VARIABLES
  pc,        \* what the server's thread does next
  at,        \* its position among the devices
  announced, \* device_count
  sent       \* the records sent to the client, in order

walk == <<pc, at, announced, sent>>

(* The devices of the drivers in the snapshot, in the order of the loops.   *)
Offered == FlattenSeq([k \in DOMAIN drivers |-> DevicesOf[drivers[k]]])

ListInit ==
  /\ Init
  /\ pc = "idle" /\ at = 1 /\ announced = 0 /\ sent = <<>>

-----------------------------------------------------------------------------
(* What else happens to the registry.                                       *)

Serve ==
  \/ \E n \in Names, o \in Conns : Bind(n, o)
  \/ \E n \in Names : SetBusy(n)
  \/ \E d \in Drivers : Register(d) \/ Unregister(d)

(* Mutant of Import: every client has a thread of its own.                  *)
ImportAnytime == Serve /\ UNCHANGED walk

(* The server's thread serves a client that imports a device.               *)
Import == pc = "idle" /\ Serve /\ UNCHANGED walk

(* ConnCleanup gives a device back.                                         *)
GiveBack == (\E n \in Names : Release(n)) /\ UNCHANGED walk

-----------------------------------------------------------------------------
(* The list.                                                                *)

(* A client asks, the reply's header is sent.                               *)
Ask ==
  /\ pc = "idle" /\ pc' = "count"
  /\ at' = 1 /\ announced' = 0 /\ sent' = <<>>
  /\ UNCHANGED vars

(* usbip_is_device_available *)
Available(n) == Find(n) = None

(* The device at the position is looked at, the loop goes on with the next. *)
Advance(from, to) ==
  /\ pc = from
  /\ IF at < Len(Offered) THEN at' = at + 1 /\ pc' = from ELSE at' = 1 /\ pc' = to

(* The device the loop is at is one and it is available.                    *)
Listed == at \in DOMAIN Offered /\ Available(Offered[at])

Count ==
  /\ Advance("count", "announce")
  /\ announced' = announced + (IF Listed THEN 1 ELSE 0)
  /\ UNCHANGED <<vars, sent>>

SendCount ==
  /\ pc = "announce" /\ pc' = "list"
  /\ UNCHANGED <<vars, at, announced, sent>>

(* The record and its interface are sent for an available device.           *)
SendDevice ==
  /\ Advance("list", "done")
  /\ sent' = IF Listed THEN Append(sent, Offered[at]) ELSE sent
  /\ UNCHANGED <<vars, announced>>

(* The connection is closed; what was sent no longer matters.               *)
Forget ==
  /\ pc' = "idle" /\ at' = 1 /\ announced' = 0 /\ sent' = <<>>
  /\ UNCHANGED vars

Close == pc = "done" /\ Forget

(* A send fails: the request is given up and the connection closed.         *)
SendFails == pc \in {"announce", "list"} /\ Forget

ListNext ==
  \/ Import \/ GiveBack
  \/ Ask \/ Count \/ SendCount \/ SendDevice \/ Close \/ SendFails

ListSpec == ListInit /\ [][ListNext]_<<vars, walk>>

-----------------------------------------------------------------------------

(* A client that reads as many records as it was announced gets them, and   *)
(* they are different devices: while the list is made devices come back but *)
(* none goes away, because imports are served by the same thread            *)
(* (usbip_server.c:110-129, 142-187).  It may get more: a device that comes *)
(* back between the two loops.                                              *)
NoneMissing ==
  /\ IsInjective(sent)
  /\ pc = "done" => Len(sent) >= announced

=============================================================================
