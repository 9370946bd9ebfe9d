------------------------------ MODULE UsbControl ------------------------------
(***************************************************************************)
(* Control requests of the two devices: usb_control_handle_setup of        *)
(* usbip_control.c and the answers the drivers give themselves, to         *)
(* requests for the Microsoft OS 2.0 descriptors.  What a request returns  *)
(* is how long it is: contents are constant, and all settings keep the     *)
(* values they were initialised with, because the drivers do not pass      *)
(* requests without data on.  Class requests have a handler in usbip_hid.c *)
(* that is never called.                                                   *)
(*                                                                         *)
(* A request is a record: its type, what it asks for, the descriptor or    *)
(* index it is about, and wLength.                                         *)
(***************************************************************************)
EXTENDS Integers, Sequences

CONSTANTS AllocFails,     \* may osal_malloc return NULL?
          StringLengths   \* of each kind, the lengths of its string descriptors

Kinds == {"hid", "bulk"}

ASSUME UsbAssumption ==
  /\ AllocFails \in BOOLEAN
  /\ \A k \in Kinds : \A i \in DOMAIN StringLengths[k] : StringLengths[k][i] \in 4 .. 255

-----------------------------------------------------------------------------
(* Descriptors                                                              *)

PacketSize(kind) == IF kind = "hid" THEN 64 ELSE 512

(* The lengths of the descriptors with their parts: configuration,          *)
(* interface, the HID descriptor, endpoints OUT and IN;                     *)
ConfigLength(kind) == IF kind = "hid" THEN 9 + 9 + 9 + 7 + 7 ELSE 9 + 9 + 7 + 7
(* header, platform capability;                                             *)
BosLength == 5 + 28
(* set header, compatible id, registry property;                            *)
MsOsLength == 10 + 20 + 132
(* header, output report, input report, end of collection.                  *)
ReportLength == 7 + 13 + 13 + 1

-----------------------------------------------------------------------------
(* usbip_control.c                                                          *)

Data(n) == [ret |-> "ok", length |-> n]
STALL == [ret |-> "stall", length |-> 0]
ERROR == [ret |-> "error", length |-> 0]

(* An answer of n allocated bytes, or the one given when there are none.    *)
Allocated(n, failed) == {Data(n)} \cup IF AllocFails THEN {failed} ELSE {}

GetString(kind, index) ==
  CASE index = 0                               -> Allocated(4, STALL)
    [] index \in DOMAIN StringLengths[kind] -> Allocated(StringLengths[kind][index], STALL)
    [] OTHER                                   -> {STALL}

DescriptorHandler(kind, descriptor) ==
  CASE kind = "hid" /\ descriptor = "hid"    -> Allocated(9, ERROR)
    [] kind = "hid" /\ descriptor = "report" -> Allocated(ReportLength, ERROR)
    [] OTHER                                 -> {STALL}

(* There is one configuration.                                              *)
GetDescriptor(kind, s) ==
  CASE s.descriptor = "device"              -> Allocated(18, STALL)
    [] s.descriptor = "config" /\ s.index = 0 -> Allocated(ConfigLength(kind), STALL)
    [] s.descriptor = "string"              -> GetString(kind, s.index)
    [] s.descriptor = "bos"                 -> Allocated(BosLength, STALL)
    [] s.descriptor \in {"hid", "report"}   -> DescriptorHandler(kind, s.descriptor)
    [] OTHER                                -> {STALL}

StandardRequest(kind, s) ==
  CASE s.request = "GET_DESCRIPTOR"    -> GetDescriptor(kind, s)
    [] s.request = "GET_CONFIGURATION" -> Allocated(1, ERROR)
    [] s.request = "GET_STATUS"        -> Allocated(2, ERROR)
    [] s.request = "GET_INTERFACE"     -> IF s.index < 4 THEN Allocated(1, ERROR) ELSE {STALL}
    [] OTHER                           -> {STALL}

(* Mutant of Limited: the answer is given whole.                            *)
WholeAnswer(answer, wLength) == answer

(* No more is returned than was asked for.                                  *)
Limited(answer, wLength) ==
  [answer EXCEPT !.length = IF @ > wLength THEN wLength ELSE @]

(* The type of a request, which USB_SETUP_TYPE has shifted down to 0 .. 3, is *)
(* compared with constants that are not: only that of standard requests,    *)
(* zero, is ever found equal.                                               *)
HandleSetup(kind, s) ==
  LET answers == IF s.type = "standard" THEN StandardRequest(kind, s) ELSE {STALL}
  IN  {Limited(a, s.wLength) : a \in answers}

-----------------------------------------------------------------------------
(* The control endpoint of the drivers                                      *)

NoMemory == [ret |-> "nomem", length |-> 0]

(* The descriptor set by wIndex 7; the bulk device is also told to switch   *)
(* its descriptors, by wIndex 8, which it agrees to and does not do.        *)
IsMsOs(kind, s) ==
  s.type = "vendor" /\ s.request = "MS_OS_20" /\ s.index \in IF kind = "hid" THEN {7} ELSE {7, 8}

MsOsRequest(s) ==
  IF s.index = 7
  THEN {Limited(a, s.wLength) : a \in Allocated(MsOsLength, NoMemory)}
  ELSE {Data(0)}

ControlIn(kind, s) == IF IsMsOs(kind, s) THEN MsOsRequest(s) ELSE HandleSetup(kind, s)

(* An answer that reports an error of the code has status 0 all the same.   *)
Status(answer) ==
  CASE answer.ret = "stall" -> "EPIPE"
    [] answer.ret = "nomem" -> "ENOMEM"
    [] OTHER                -> "OK"

=============================================================================
