------------------------------ MODULE UsbSession ------------------------------
(***************************************************************************)
(* One client and its device, from end to end: the client's URBs as a byte *)
(* stream of headers and data, the RX thread that cuts the stream into     *)
(* URBs again, the queue, the processor thread with the driver's handler   *)
(* (vdap_handle_urb of hid_dap.c, vdap_v2_handle_urb of bulk_dap.c), the   *)
(* stream of replies and the client's reading of it.  Both sides find the  *)
(* end of a message by the length that its header gives.                   *)
(*                                                                         *)
(* The client keeps to USB: what it sends has the length it says and fits  *)
(* a packet, it reads an endpoint with a buffer of a packet's size, and it *)
(* asks for no more words than a response can hold.  The threads and the   *)
(* import are UsbipConn's; two clients side by side are DapDriver's.       *)
(***************************************************************************)
EXTENDS DapCommand, UsbControl

CONSTANTS None, Seqnums, QueueCapacity, UrbDataMax,
          Setups,     \* of each kind, the control requests a client makes
          Commands    \* of each kind, the DAP commands a client sends

(* A command whose response fits a packet.                                  *)
Fits(k, c) ==
  /\ ResponseLengths(c) \subseteq 1 .. PacketSize(k)
  /\ c.id = "SWJ_Clock" => c.clock \in Nat

ASSUME SessionAssumption ==
  /\ UrbDataMax \in Nat /\ None \notin Seqnums \cup Nat
  /\ \A k \in Kinds : \A s \in Setups[k] :
       /\ s.wLength \in Nat
       /\ ~s.in => s.wLength <= UrbDataMax
  /\ \A k \in Kinds : \A c \in Commands[k] : c.length \in 0 .. UrbDataMax /\ Fits(k, c)

VARIABLES kind, dap, response, asked, up, queue, down, outstanding
vars == <<kind, dap, response, asked, up, queue, down, outstanding>>

(* response: the length of the response that waits, or None                 *)
(* asked: the clock that dap's settings were last made for                  *)
(* outstanding: what the client still waits for, by seqnum                  *)

-----------------------------------------------------------------------------
(* Streams                                                                  *)

Flip(order) == IF order = "host" THEN "net" ELSE "host"

Converted == {"CMD_SUBMIT", "CMD_UNLINK", "RET_SUBMIT", "RET_UNLINK"}

(* The common fields and, if the command can be read and is known, those of *)
(* its own change their byte order.                                         *)
PackHeader(h, to_network) ==
  LET base == Flip(h.base)
      readable == (IF to_network THEN h.base ELSE base) = "host"
  IN  [h EXCEPT !.base = base,
                !.body = IF readable /\ h.command \in Converted THEN Flip(@) ELSE @]

HeaderItem(h) == [what |-> "header", h |-> PackHeader(h, TRUE)]
DataItem(n) == [what |-> "data", n |-> n]

Message(h, n) == <<HeaderItem(h)>> \o IF n > 0 THEN <<DataItem(n)>> ELSE <<>>

-----------------------------------------------------------------------------
(* The client                                                               *)

Init ==
  /\ kind \in Kinds
  /\ dap = DAPSetup /\ asked = DefaultClock
  /\ response = None
  /\ up = <<>> /\ queue = <<>> /\ down = <<>>
  /\ outstanding = <<>>

Header(command, seqnum, ep, direction, length, request) ==
  [command |-> command, seqnum |-> seqnum, ep |-> ep, direction |-> direction,
   length |-> length, request |-> request, status |-> "OK", base |-> "host", body |-> "host"]

(* A number is used again only when nothing refers to its last use.         *)
Fresh(q) ==
  q \notin DOMAIN outstanding /\ \A r \in DOMAIN outstanding : outstanding[r].unlinks # q

Send(h, n, waits) ==
  /\ Fresh(h.seqnum)
  /\ outstanding' = [q \in DOMAIN outstanding \cup {h.seqnum} |->
                       IF q = h.seqnum THEN waits ELSE outstanding[q]]
  /\ up' = up \o Message(h, n)
  /\ UNCHANGED <<kind, dap, response, asked, queue, down>>

Waits(direction, length) == [direction |-> direction, length |-> length, unlinks |-> None]

ControlRead(s, q) ==
  /\ s.in
  /\ Send(Header("CMD_SUBMIT", q, 0, "IN", s.wLength, s), 0, Waits("IN", s.wLength))

(* A request with no data, or SET_REPORT with its report.                   *)
ControlWrite(s, q) ==
  /\ ~s.in
  /\ Send(Header("CMD_SUBMIT", q, 0, "OUT", s.wLength, s), s.wLength, Waits("OUT", s.wLength))

EndpointWrite(c, q) ==
  Send(Header("CMD_SUBMIT", q, 1, "OUT", c.length, c), c.length, Waits("OUT", c.length))

EndpointRead(q) ==
  Send(Header("CMD_SUBMIT", q, 1, "IN", PacketSize(kind), None), 0, Waits("IN", PacketSize(kind)))

(* The header of CMD_UNLINK has no length: the field is zero.               *)
Unlink(q, target) ==
  /\ target \in DOMAIN outstanding /\ outstanding[target].unlinks = None
  /\ \A r \in DOMAIN outstanding : outstanding[r].unlinks # target
  /\ Send(Header("CMD_UNLINK", q, 0, "OUT", 0, None), 0,
          [direction |-> "OUT", length |-> 0, unlinks |-> target])

(* The bytes the client takes after a header: those that an IN URB brings.  *)
Reads(h) ==
  IF h.command = "RET_SUBMIT" /\ outstanding[h.seqnum].direction = "IN" THEN h.length ELSE 0

Skip(h) == IF Reads(h) > 0 THEN 2 ELSE 1

Receive ==
  /\ down # <<>>
  /\ LET h == Head(down).h
     IN  /\ outstanding' = Restrict(outstanding, DOMAIN outstanding \ {h.seqnum})
         /\ down' = SubSeq(down, 1 + Skip(h), Len(down))
  /\ UNCHANGED <<kind, dap, response, asked, up, queue>>

(* The client goes away and comes back: streams and queue are gone, the     *)
(* driver keeps what it has.                                                *)
Leave ==
  /\ outstanding # <<>>
  /\ up' = <<>> /\ queue' = <<>> /\ down' = <<>> /\ outstanding' = <<>>
  /\ UNCHANGED <<kind, dap, response, asked>>

-----------------------------------------------------------------------------
(* The RX thread                                                            *)

(* Mutant of Push: there is no use in keeping an unlink waiting.            *)
PushUnlinkFirst(urb) ==
  queue' = IF urb.h.command = "CMD_UNLINK" THEN <<urb>> \o queue ELSE Append(queue, urb)

Push(urb) == queue' = Append(queue, urb)

(* The data is cut to the buffer; what is left of it stays in the stream.   *)
RxThread ==
  /\ up # <<>> /\ Len(queue) < QueueCapacity
  /\ LET h == PackHeader(Head(up).h, FALSE)
         n == IF h.direction # "OUT" THEN 0
              ELSE IF h.length > UrbDataMax THEN UrbDataMax ELSE h.length
         left == IF n > 0 THEN up[2].n - n ELSE 0
         rest == SubSeq(up, IF n > 0 THEN 3 ELSE 2, Len(up))
     IN  /\ Push([h |-> h, n |-> n])
         /\ up' = IF left > 0 THEN <<DataItem(left)>> \o rest ELSE rest
  /\ UNCHANGED <<kind, dap, response, asked, down, outstanding>>

-----------------------------------------------------------------------------
(* The processor thread and the driver                                      *)

Ret(h, length, status) ==
  [Header(IF h.command = "CMD_UNLINK" THEN "RET_UNLINK" ELSE "RET_SUBMIT",
          h.seqnum, h.ep, h.direction, length, None) EXCEPT !.status = status]

(* usbip_connection_send_reply                                              *)
SendReply(h, n) == down' = down \o Message(h, n)

(* The command is executed and its response takes the place of the last     *)
(* one.  The HID driver allocates a buffer first; without it the command is *)
(* dropped and the URB answered as if nothing had happened.                 *)
Execute(c) ==
  \/ /\ \E n \in ResponseLengths(c) : response' = n
     /\ dap' = ProcessCommand(SetPacketSize(dap, PacketSize(kind)), c)
     /\ asked' = IF SetsClock(c) THEN c.clock ELSE asked
  \/ kind = "hid" /\ AllocFails /\ UNCHANGED <<response, dap, asked>>

NoCommand == UNCHANGED <<response, dap, asked>>

(* ep 0, IN                                                                 *)
HandleControlIn(urb) ==
  /\ urb.h.command = "CMD_SUBMIT" /\ urb.h.ep = 0 /\ urb.h.direction = "IN"
  /\ \E a \in ControlIn(kind, urb.h.request) :
       SendReply(Ret(urb.h, a.length, Status(a)), a.length)
  /\ NoCommand

(* ep 0, OUT: everything is agreed to and nothing carried out.  A SET_REPORT *)
(* of the HID device would be, but is not recognised: its type is compared  *)
(* as in HandleSetup.                                                       *)
HandleControlOut(urb) ==
  /\ urb.h.command = "CMD_SUBMIT" /\ urb.h.ep = 0 /\ urb.h.direction = "OUT"
  /\ NoCommand
  /\ SendReply(Ret(urb.h, 0, "OK"), 0)

(* ep 1, OUT: a command.                                                    *)
HandleOut(urb) ==
  /\ urb.h.command = "CMD_SUBMIT" /\ urb.h.ep = 1 /\ urb.h.direction = "OUT"
  /\ IF urb.n > 0 THEN Execute(urb.h.request) ELSE NoCommand
  /\ SendReply(Ret(urb.h, urb.n, "OK"), 0)

(* Mutant of TakeResponse: it is taken before there is memory for it.       *)
TakeResponseEarly(urb) ==
  /\ response # None
  /\ response' = None
  /\ \/ SendReply(Ret(urb.h, response, "OK"), response)
     \/ AllocFails /\ SendReply(Ret(urb.h, 0, "ENOMEM"), 0)

(* The response is handed out if there is memory for a copy, and kept       *)
(* otherwise.                                                               *)
TakeResponse(urb) ==
  /\ response # None
  /\ \/ SendReply(Ret(urb.h, response, "OK"), response) /\ response' = None
     \/ /\ AllocFails /\ UNCHANGED response
        /\ SendReply(Ret(urb.h, 0, "ENOMEM"), 0)

(* ep 1, IN: the response that waits, or no bytes.                          *)
HandleIn(urb) ==
  /\ urb.h.command = "CMD_SUBMIT" /\ urb.h.ep = 1 /\ urb.h.direction = "IN"
  /\ \/ TakeResponse(urb)
     \/ response = None /\ SendReply(Ret(urb.h, 0, "OK"), 0) /\ UNCHANGED response
  /\ UNCHANGED <<dap, asked>>

HandleUnlink(urb) ==
  /\ urb.h.command = "CMD_UNLINK"
  /\ SendReply(Ret(urb.h, 0, "OK"), 0)
  /\ NoCommand

ProcessorThread ==
  /\ queue # <<>> /\ queue' = Tail(queue)
  /\ LET urb == Head(queue)
     IN  \/ HandleControlIn(urb) \/ HandleControlOut(urb)
         \/ HandleOut(urb) \/ HandleIn(urb) \/ HandleUnlink(urb)
  /\ UNCHANGED <<kind, up, outstanding>>

Client ==
  \/ \E q \in Seqnums :
       \/ \E s \in Setups[kind] : ControlRead(s, q) \/ ControlWrite(s, q)
       \/ \E c \in Commands[kind] : EndpointWrite(c, q)
       \/ EndpointRead(q)
       \/ \E target \in Seqnums : Unlink(q, target)
  \/ Receive \/ Leave

Next == Client \/ RxThread \/ ProcessorThread

Spec == Init /\ [][Next]_vars

-----------------------------------------------------------------------------
(* Properties                                                               *)

(* A stream is a sequence of messages: each header in network order and     *)
(* followed by the data its reader will take, and by nothing else.          *)
Framed(stream, Takes(_)) ==
  \A i \in DOMAIN stream :
    IF stream[i].what = "data"
    THEN i > 1 /\ stream[i - 1].what = "header"
    ELSE LET h == stream[i].h
         IN  /\ h.base = "net" /\ h.body = "net"
             /\ Takes(h) > 0 => /\ i < Len(stream) /\ stream[i + 1].what = "data"
                                /\ stream[i + 1].n = Takes(h)
             /\ Takes(h) = 0 => i = Len(stream) \/ stream[i + 1].what = "header"

(* Client and server agree where messages begin, whatever URBs, unlinks and *)
(* failed allocations are in flight: data is sent exactly when the other    *)
(* side, from the header and what it asked for, reads it, and no answer     *)
(* overflows the client's buffer (usbip_conn.c:485-527, 572-592,            *)
(* usbip_pack.c:74-137, hid_dap.c:469-596, bulk_dap.c:294-434).             *)
InStep ==
  /\ Framed(up, LAMBDA h : IF h.direction = "OUT" THEN h.length ELSE 0)
  /\ \A i \in DOMAIN queue : queue[i].h.base = "host" /\ queue[i].h.body = "host"
  /\ \A i \in DOMAIN down : down[i].what = "header" =>
       /\ down[i].h.seqnum \in DOMAIN outstanding
       /\ Reads(down[i].h) <= outstanding[down[i].h.seqnum].length
  /\ Framed(down, Reads)

(* An unlink is answered with status 0, on which a client that still waits  *)
(* for the URB completes it without data; that is right only because the    *)
(* URB's own answer always comes first (hid_dap.c:591-594,                  *)
(* bulk_dap.c:433-436, usbip_conn.c:631-657).                               *)
UnlinkTrue ==
  down # <<>> /\ Head(down).h.command = "RET_UNLINK" =>
    outstanding[Head(down).h.seqnum].unlinks \notin DOMAIN outstanding

(* A response disappears only with the answer that carries all of it: not   *)
(* with a failed allocation, an unlink or a session's end                   *)
(* (hid_dap.c:546-566, bulk_dap.c:386-407).                                 *)
ResponseKept ==
  [][response # None /\ response' = None =>
       /\ Last(down') = DataItem(response)
       /\ Head(queue).h.ep = 1 /\ down'[Len(down') - 1].h.length = response]_vars

(* However commands follow each other, the clock's settings are those of    *)
(* the last clock asked for: not faster, and no slower than the delay loop  *)
(* makes necessary (DAP.c:76-95, 420-442).                                  *)
ClockHeld == ClockMeets(dap, asked)

=============================================================================
