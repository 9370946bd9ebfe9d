----------------------------- MODULE MCUsbSession -----------------------------
EXTENDS UsbSession, TLC

(* "RPI5", the product, the serial number, the bulk interface.              *)
MCStringLengths == [hid |-> <<10, 28, 22>>, bulk |-> <<10, 28, 22, 26>>]

Get(type, request, descriptor, index, wLength) ==
  [in |-> TRUE, type |-> type, request |-> request, descriptor |-> descriptor,
   index |-> index, wLength |-> wLength]
Descriptor(descriptor, index, wLength) ==
  Get("standard", "GET_DESCRIPTOR", descriptor, index, wLength)
Set(type, request, wLength) == [Get(type, request, None, 0, wLength) EXCEPT !.in = FALSE]

(* A header and the whole, absent descriptors, the single bytes.            *)
Standard ==
  { Descriptor("device", 0, 18), Descriptor("config", 0, 9), Descriptor("config", 0, 255),
    Descriptor("bos", 0, 5), Descriptor("string", 2, 255), Descriptor("qualifier", 0, 10),
    Descriptor("report", 0, 255), Get("standard", "GET_CONFIGURATION", None, 0, 1),
    Get("standard", "GET_INTERFACE", None, 0, 1), Get("vendor", "MS_OS_20", None, 7, 162),
    Set("standard", "SET_CONFIGURATION", 0) }

(* A command, its length in the stream as the device's driver sends it, and *)
(* the longest response that its packets have room for.                     *)
Cmd(id, length) == [id |-> id, length |-> length]
Of(length, words) ==
  { Cmd("Info", length) @@ ("what" :> "PRODUCT"), Cmd("Connect", length), Cmd("unknown", length),
    Cmd("TransferBlock", length) @@ ("n" :> words),
    Cmd("SWD_Sequence", length) @@ ("captured" :> <<0, 5>>),
    Cmd("SWJ_Clock", length) @@ ("clock" :> 7000000),
    Cmd("SWJ_Clock", length) @@ ("clock" :> 120000000),
    Cmd("SWJ_Clock", length) @@ ("clock" :> 0) }

MCCommands == [hid |-> Of(64, 15), bulk |-> Of(5, 127)]

MCSetups ==
  [hid |-> Standard \cup
           { Descriptor("hid", 0, 9), Get("class", "GET_REPORT", None, 0, 64),
             Get("class", "GET_IDLE", None, 0, 1),
             Set("class", "SET_REPORT", 63) },
   bulk |-> Standard \cup
           { Get("vendor", "MS_OS_20", None, 8, 0), Get("vendor", "MS_OS_20", None, 7, 10),
             Descriptor("string", 4, 255), Get("class", "GET_REPORT", None, 0, 64) }]

=============================================================================
