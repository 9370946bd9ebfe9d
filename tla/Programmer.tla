------------------------------ MODULE Programmer ------------------------------
(***************************************************************************)
(* A file is written to the target's flash: file_programmer.cpp reads it   *)
(* block by block, or a client of stream_programmer.cpp delivers the       *)
(* blocks; hex_program.cpp has them parsed and hands what was decoded to   *)
(* the flash accessor, bin_program.cpp hands them on as they are.          *)
(*                                                                         *)
(* A hex file is its records, a binary file its data and the address that  *)
(* the caller gives for it.  One session follows another: the accessor is  *)
(* a singleton.                                                            *)
(***************************************************************************)
EXTENDS HexParser, FlashAccessor

CONSTANTS
  HexFiles,     \* sequences of records
  Universal,    \* those of them with data for several versions
  BinFiles,     \* addresses and data
  FileBlock,    \* sizeof(_buffer) of FileProgrammer
  StreamBlocks, \* lengths of the blocks a client delivers
  Blank         \* what is in the flash before

ASSUME ProgrammerAssumption ==
  /\ FileBlock \in Nat \ {0} /\ StreamBlocks \subseteq Nat \ {0}
  /\ Blank \in [Addresses -> Bytes]
  /\ None \notin BOOLEAN

VARIABLES
  front,   \* "file" or "stream"
  kind,    \* "hex" or "bin"
  file,
  pc,      \* "idle", "connected", "ready" for a block, "parse", "write"
  rest,    \* the characters or bytes not read yet
  addr,    \* _program_addr of a binary file
  result,  \* what the session reported, None while it runs
  handed   \* history: the bytes handed to the accessor, with their addresses

(* Data with its addresses from a on.                                       *)
Addressed(a, data) == [i \in DOMAIN data |-> <<a + i - 1, data[i]>>]

session == <<front, kind, file>>
vars == <<session, pc, rest, addr, result, handed, parserVars, accessorVars>>

Init ==
  /\ front = "file" /\ kind = "hex" /\ file = <<>>
  /\ pc = "idle" /\ rest = <<>> /\ addr = 0 /\ result = None /\ handed = <<>>
  /\ hp = ResetParser /\ blob = <<>> /\ bin = <<>> /\ address = 0 /\ status = "ok"
  /\ InitialAccessor(Blank)

-----------------------------------------------------------------------------
(* The beginning of a session.                                              *)

Opened ==
  /\ Open
  /\ \/ err' = None /\ pc' = "ready" /\ result' = None
     \/ err' # None /\ pc' = "idle" /\ result' = FALSE
  /\ UNCHANGED handed

(* HexProgram::init                                                         *)
StartHex(f) ==
  /\ pc = "connected"
  /\ kind' = "hex" /\ file' = f /\ rest' = Text(f)
  /\ hp' = ResetParser
  /\ Opened
  /\ UNCHANGED <<addr, blob, bin, address, status>>

(* BinaryProgram::init refuses a file without an address.                   *)
StartBin(f) ==
  /\ pc = "connected"
  /\ kind' = "bin" /\ file' = f /\ rest' = f.data
  /\ \/ /\ f.addr = 0
        /\ result' = FALSE /\ pc' = "idle"
        /\ UNCHANGED <<addr, handed, accessorVars>>
     \/ /\ f.addr # 0
        /\ addr' = f.addr
        /\ Opened
  /\ UNCHANGED parserVars

(* A target is connected to the probe.                                      *)
Connect ==
  /\ pc = "idle" /\ pc' = "connected"
  /\ target' = [target EXCEPT !.mem = Blank, !.loaded = None, !.inited = FALSE]
  /\ result' = None /\ err' = None /\ handed' = <<>> /\ rest' = <<>>
  /\ UNCHANGED <<session, addr, parserVars, flash_state, current_sector_valid,
                 last_packet_addr, block, sector, page, at, todo, overrun>>

Start ==
  /\ front' \in {"file", "stream"}
  /\ \/ \E f \in HexFiles : (front' = "stream" => f \notin Universal) /\ StartHex(f)
     \/ \E f \in BinFiles : StartBin(f)

-----------------------------------------------------------------------------
(* A block.                                                                 *)

Lengths == IF front = "file" THEN {FileBlock} ELSE StreamBlocks

TakeBlock(n) ==
  LET taken == SubSeq(rest, 1, n) IN
  /\ pc = "ready" /\ rest # <<>>
  /\ n = Len(rest) \/ (n < Len(rest) /\ n \in Lengths)
  /\ \E m \in Lengths : n <= m
  /\ rest' = SubSeq(rest, n + 1, Len(rest))
  /\ \/ /\ kind = "hex" /\ Begin(file, taken) /\ pc' = "parse"
        /\ UNCHANGED <<addr, handed, accessorVars>>
     \/ /\ kind = "bin" /\ Write(addr, taken) /\ pc' = "write"
        /\ handed' = handed \o Addressed(addr, taken)
        /\ addr' = addr + n
        /\ UNCHANGED parserVars
  /\ UNCHANGED <<session, result>>

ParseStep ==
  /\ pc = "parse" /\ Parse(file)
  /\ UNCHANGED <<session, pc, rest, addr, result, handed, accessorVars>>

(* write_hex: what a call of the parser has decoded is written.             *)
HandOver ==
  /\ pc = "parse" /\ status \in {"ok", "unaligned", "eof"} /\ bin # <<>>
  /\ Write(address, bin)
  /\ handed' = handed \o Addressed(address, bin)
  /\ pc' = "write"
  /\ UNCHANGED <<session, rest, addr, result, parserVars>>

WriteGoesOn ==
  /\ pc = "write" /\ WriteStep
  /\ UNCHANGED <<session, pc, rest, addr, result, handed, parserVars>>

(* The parser goes on behind what it has consumed, or the block is done.    *)
Parsed ==
  \/ pc = "parse" /\ status # "parsing" /\ bin = <<>>
  \/ pc = "write" /\ at = None /\ err = None

NextCall ==
  /\ Parsed /\ kind = "hex" /\ status = "unaligned"
  /\ Begin(file, blob) /\ pc' = "parse"
  /\ UNCHANGED <<session, rest, addr, result, handed, accessorVars>>

BlockDone ==
  /\ Parsed /\ (kind = "hex" => status \in {"ok", "eof"})
  /\ pc' = "ready"
  /\ UNCHANGED <<session, rest, addr, result, handed, parserVars, accessorVars>>

(* A checksum or a write failed: both programmers clean up and report it.   *)
BlockFails ==
  /\ \/ pc = "parse" /\ status = "checksum"
     \/ pc = "write" /\ at = None /\ err # None
  /\ Close
  /\ pc' = "idle" /\ result' = FALSE /\ addr' = 0
  /\ UNCHANGED <<session, rest, handed, parserVars>>

(* The file has ended.  clean() drops what uninit returns.                  *)
Finished ==
  /\ pc = "ready" /\ rest = <<>>
  /\ Close
  /\ pc' = "idle" /\ result' = TRUE /\ addr' = 0
  /\ UNCHANGED <<session, rest, handed, parserVars>>

Step ==
  \/ \E n \in 1 .. Len(rest) : TakeBlock(n)
  \/ ParseStep \/ HandOver \/ WriteGoesOn \/ NextCall \/ BlockDone
  \/ BlockFails \/ Finished

Next == Connect \/ Start \/ Step

Spec == Init /\ [][Next]_vars

(* The calls of FileProgrammer::program run to their ends; a client of the  *)
(* stream programmer may stop delivering.                                   *)
FairSpec == Spec /\ WF_vars(front = "file" /\ Step)

-----------------------------------------------------------------------------
(* What a file says.                                                        *)

(* What record r says after those before it: an address, a version, or      *)
(* bytes with their addresses unless they are for another version.          *)
Said(before, r) ==
  CASE r.type \in {"segment", "linear"} -> [before EXCEPT !.base = Base(r)]
    [] r.type = "meta" -> [before EXCEPT !.version = r.value]
    [] r.type \in DataTypes /\ before.version = 0 ->
         [before EXCEPT !.bytes = @ \o Addressed(before.base + r.addr, r.data)]
    [] OTHER -> before

(* What the first k records of a file say.                                  *)
Told(f) ==
  LET told[k \in 0 .. Len(f)] ==
        IF k = 0 THEN [base |-> 0, version |-> 0, bytes |-> <<>>]
        ELSE Said(told[k - 1], f[k])
  IN  told

HexBytes(f) == Told(f)[Len(f)].bytes

Record ==
  [type : {"data", "custom", "eof", "segment", "linear", "meta", "other"},
   addr : Nat, data : Seq(Bytes), value : Nat, ok : BOOLEAN]

Extended == {"segment", "linear"}

(* A hex file ends with its end of file record.  Its data stays in the      *)
(* segment its address is in, and what follows the last byte of a segment   *)
(* has an address of its own; of an extended address the parser keeps what  *)
(* is a multiple of a segment (hex_parser.c:199, 216, 250, 267).            *)
ASSUME HexFilesAssumption ==
  \A f \in HexFiles :
    /\ f \in Seq(Record) /\ f # <<>>
    /\ \A k \in DOMAIN f : f[k].type = "eof" <=> k = Len(f)
    /\ \A k \in DOMAIN f : f[k].type \in Extended => Base(f[k]) % Segment = 0
    /\ \A k \in DOMAIN f : f[k].type \in DataTypes =>
         /\ f[k].data # <<>>
         /\ f[k].addr + Len(f[k].data) <= Segment
         /\ \A j \in 1 .. k - 1 :
              /\ f[j].type \in DataTypes
              /\ \A i \in j + 1 .. k - 1 : f[i].type \notin Extended
              => f[j].addr + Len(f[j].data) < Segment

(* Data for another version is in files only that are made for it: what     *)
(* follows it is such data too, up to a block that begins with a record     *)
(* (hex_parser.c:224-227).                                                  *)
Foreign(f, k) == f[k].type \in DataTypes /\ Told(f)[k].version # 0

ASSUME UniversalAssumption ==
  \A f \in HexFiles :
    /\ f \notin Universal => \A k \in DOMAIN f : ~Foreign(f, k)
    /\ \A p, q \in DOMAIN Text(f) :
         /\ Foreign(f, Text(f)[p].rec)
         /\ p < q /\ Text(f)[q].rec # Text(f)[p].rec
         /\ \A s \in p + 1 .. q : (s - 1) % FileBlock = 0 => ~IsColon(Text(f)[s])
         => f[Text(f)[q].rec].type \in DataTypes \cup {"other"}

(* Every byte of a file has its place.                                      *)
ASSUME AddressesAssumption ==
  /\ \A f \in HexFiles : \A i \in DOMAIN HexBytes(f) : HexBytes(f)[i][1] \in Addresses
  /\ \A f \in BinFiles : f \in [addr : Nat, data : Seq(Bytes)]
  /\ \A f \in BinFiles : \A i \in DOMAIN f.data : f.addr + i - 1 \in Addresses

FileBytes ==
  IF kind = "hex" THEN HexBytes(file)
  ELSE Addressed(file.addr, file.data)

(* A byte enters its sector when the byte before it is in another one, or   *)
(* was the last of this one: the accessor has left it then.                 *)
Enters(k) ==
  LET before == handed[k - 1][1]
  IN  {SectorOf(before), SectorOf(before + 1)} # {SectorOf(handed[k][1])}

(* The i-th byte's sector was entered again.                                *)
Revisited(i) ==
  \E k \in DOMAIN handed :
    i < k /\ Enters(k) /\ SectorOf(handed[k][1]) = SectorOf(handed[i][1])

Overwritten(i) ==
  \E j \in DOMAIN handed : i < j /\ handed[i][1] = handed[j][1]

-----------------------------------------------------------------------------
(* Properties                                                               *)

(* Between sessions the accessor is closed, whatever became of the last one *)
(* (flash_accessor.cpp:236-278, stream_programmer.cpp:42-53).               *)
TypeOK ==
  /\ pc \in {"idle", "connected", "ready", "parse", "write"}
  /\ result \in BOOLEAN \cup {None}
  /\ flash_state \in {"CLOSED", "OPEN", "ERROR"}
  /\ target.mem \in [Addresses -> Bytes \cup {Garbled}]
  /\ page_buffer \in [1 .. PageBuffer -> Bytes]
  /\ pc \in {"idle", "connected"} => flash_state = "CLOSED"

(* The parser writes behind its line only for a record with more data than  *)
(* the line has room for, or for an extended address that fills it: its     *)
(* last digit is stored a second time by the next call (hex_parser.c:167,   *)
(* 237-270).  No cut into blocks, and nothing that an earlier record left   *)
(* behind, takes it there.  HEX_PARSE_LINE_OVERRUN is never returned.       *)
LineKept ==
  status = "beyond" =>
    LET r == file[hp.rec] IN
    \/ Len(r.data) > LineData
    \/ Len(r.data) = LineData /\ r.type \in Extended

(* However the file is cut into blocks, the bytes handed to the accessor    *)
(* are those of the file, in its order, at their addresses: no record is    *)
(* lost, repeated or moved by the end of a block (hex_parser.c:103-309,     *)
(* hex_program.cpp:51-117).  When the session succeeds they are all.  The   *)
(* scan for the start address, a second reader of the same text, names the  *)
(* address that the parser gives to the first byte, in a file without the   *)
(* records that only the parser knows (hex_parser.c:311-412).  A parser     *)
(* that has written behind its line is not followed, and only the records   *)
(* that its line has no room for take it there.                             *)
ParsedAsWritten ==
  /\ LineKept
  /\ IsPrefix(handed, FileBytes)
  /\ result = TRUE => handed = FileBytes
  /\ kind = "hex" /\ handed # <<>>
     /\ (\A k \in DOMAIN file : file[k].type \notin {"segment", "meta", "custom"})
       => StartAddress(file, None) = handed[1][1]

(* A session that reports success, and whose last flush did not fail, has   *)
(* left each byte of the file in flash, except that a sector entered again  *)
(* was erased again (flash_accessor.cpp:139-234, 236-279).                  *)
SuccessMeansWritten ==
  pc = "idle" /\ result = TRUE /\ err = None =>
    \A i \in DOMAIN handed : ~Overwritten(i) =>
      target.mem[handed[i][1]] = IF Revisited(i) THEN FF ELSE handed[i][2]

(* No flash function runs but after Init, by the algorithm of the region it *)
(* works on (target_flash.cpp:57-79, 366-393).                              *)
AlgorithmReady == ~target.strayed

(* A copy leaves the page buffer only when the last packet ended with its   *)
(* sector, the next one begins behind it, no further than a sector of that  *)
(* size would reach, and not in the first block of its own sector           *)
(* (flash_accessor.cpp:176-222).                                            *)
OverrunKnown ==
  overrun => /\ last_packet_addr = SectorOf(last_packet_addr)
             /\ RoundDown(todo.addr, SectorSize(last_packet_addr - 1)) = last_packet_addr
             /\ todo.addr >= SectorOf(todo.addr) + current_write_block_size

(* A step changes the flash only in sectors that bytes of the file go to    *)
(* (flash_accessor.cpp:63-104).                                             *)
OthersKept ==
  [][\A a \in Addresses : target.mem[a] # target'.mem[a] =>
       \E i \in DOMAIN handed : SectorOf(handed[i][1]) = SectorOf(a)]_vars

(* FileProgrammer::program returns, unless it has left the page buffer or   *)
(* the parser its line: no call of the parser repeats for ever              *)
(* (hex_program.cpp:51-115).  The file can be read: after a read error feof *)
(* stays 0, and the loop of file_programmer.cpp:87-103 does not end.        *)
SessionEnds ==
  front = "file" /\ pc \in {"ready", "parse", "write"}
    ~> pc = "idle" \/ overrun \/ status = "beyond"

=============================================================================
