------------------------------ MODULE HexParser ------------------------------
(***************************************************************************)
(* parse_hex_blob of hex_parser.c: Intel HEX text, given in blocks that    *)
(* may end at any character, becomes runs of bytes at consecutive          *)
(* addresses.  A call returns when the block is used up, when a record     *)
(* does not continue the run or does not fit, when the upper address       *)
(* changes and at the end of the file; the next call goes on from what is  *)
(* left in the parser.                                                     *)
(*                                                                         *)
(* A file is a sequence of records, a record its type, address, data and   *)
(* whether its checksum is right.  A character is its record and its place *)
(* in it: the colon is 0, the digits follow, a line end is last.  Digits   *)
(* are not added up: a byte is right when its two digits are where they    *)
(* belong.                                                                 *)
(***************************************************************************)
EXTENDS Naturals, Sequences, SequencesExt, FiniteSetsExt

CONSTANTS
  Segment,   \* 2^16: what the 16 bits of a record's address can tell apart
  Paragraph, \* 16, the unit of a segment
  LineData,  \* 32, the data bytes that hex_line_t has room for
  BinBuf     \* size of the caller's buffer, not less (hex_parser.c:89-94)

ASSUME HexParserAssumption ==
  /\ {Segment, Paragraph, LineData, BinBuf} \subseteq Nat \ {0}
  /\ LineData <= BinBuf

VARIABLES
  hp,      \* struct hex_parser_t
  blob,    \* the characters of the block not looked at yet
  bin,     \* the bytes in bin_buf
  address, \* *bin_buf_address
  status   \* the call's result, "parsing" while it runs, "beyond" when it
           \* has written behind the line

parserVars == <<hp, blob, bin, address, status>>

Upper(a) == a - (a % Segment)

(* Bytes of a record on its line: count, address, type, data, checksum; and *)
(* those that hex_line_t has.                                               *)
LineBytes(r) == Len(r.data) + 5
LineSize == LineData + 5

(* HEX_DATA_RECORD and HEX_CUSTOM_DATA_RECORD are one to the parser.        *)
DataTypes == {"data", "custom"}

(* The characters of record k of a file.                                    *)
Line(file, k) ==
  [at \in 1 .. 2 * LineBytes(file[k]) + 2 |-> [rec |-> k, at |-> at - 1]]

Text(file) == FlattenSeq([k \in DOMAIN file |-> Line(file, k)])

IsColon(c) == c.at = 0
IsLineEnd(file, c) == c.at = 2 * LineBytes(file[c.rec]) + 1

-----------------------------------------------------------------------------

(* reset_hex_parser: rec is the record whose colon was seen last, sound     *)
(* says that its digits so far are in their places.                         *)
ResetParser ==
  [rec |-> 0, idx |-> 0, low_nibble |-> FALSE, record_processed |-> FALSE,
   load_unaligned_record |-> FALSE, skip_until_aligned |-> FALSE,
   binary_version |-> 0, next |-> 0, sound |-> FALSE]

(* The address that an extended address record sets.                        *)
Base(r) == r.value * (IF r.type = "segment" THEN Paragraph ELSE Segment)

(* Where data at address a of the current upper half goes.                  *)
Placed(a) == Upper(hp.next) + a

Finish(result) ==
  /\ status' = result
  /\ address' = hp'.next - Len(bin')

(* Mutant of Begin: the record that ended the last call is not taken over.  *)
BeginAnew(file, block) ==
  /\ blob' = block /\ bin' = <<>>
  /\ hp' = [hp EXCEPT !.skip_until_aligned = FALSE, !.load_unaligned_record = FALSE]
  /\ status' = "parsing" /\ UNCHANGED address

(* The head of the function: a block that does not begin with a record is   *)
(* passed over while skipping, a record left over is put in the buffer, no  *)
(* more of it than its line and the buffer hold.                            *)
Begin(file, block) ==
  LET r == file[hp.rec] IN
  /\ blob' = block
  /\ \/ /\ hp.skip_until_aligned /\ ~IsColon(Head(block))
        /\ bin' = <<>> /\ UNCHANGED hp
        /\ Finish("ok")
     \/ /\ hp.skip_until_aligned => IsColon(Head(block))
        /\ status' = "parsing" /\ UNCHANGED address
        /\ IF hp.load_unaligned_record
           THEN /\ bin' = SubSeq(r.data, 1, Min({Len(r.data), BinBuf, LineData}))
                /\ hp' = [hp EXCEPT !.skip_until_aligned = FALSE,
                                    !.load_unaligned_record = FALSE,
                                    !.next = Placed(r.addr) + Len(r.data)]
           ELSE bin' = <<>> /\ hp' = [hp EXCEPT !.skip_until_aligned = FALSE]

(* The block is used up.                                                    *)
BlobEnd ==
  /\ status = "parsing" /\ blob = <<>>
  /\ UNCHANGED <<hp, blob, bin>>
  /\ Finish("ok")

(* '\r', '\n'                                                               *)
LineEnd(file) ==
  /\ status = "parsing" /\ blob # <<>> /\ IsLineEnd(file, Head(blob))
  /\ blob' = Tail(blob)
  /\ UNCHANGED <<hp, bin, address, status>>

(* ':' starts a record.                                                     *)
Colon ==
  /\ status = "parsing" /\ blob # <<>> /\ IsColon(Head(blob))
  /\ blob' = Tail(blob)
  /\ hp' = [hp EXCEPT !.rec = Head(blob).rec, !.idx = 0, !.low_nibble = FALSE,
                      !.record_processed = FALSE, !.sound = TRUE]
  /\ UNCHANGED <<bin, address, status>>

DigitNext(file) ==
  /\ status = "parsing" /\ blob # <<>>
  /\ ~IsColon(Head(blob)) /\ ~IsLineEnd(file, Head(blob))

(* The second digit of a byte is stored wherever idx is (hex_parser.c:167), *)
(* the first one only on the line (281).  Behind the line are the fields of *)
(* hex_parser_t and what follows it: no step from there on is described.    *)
OffLine == hp.low_nibble /\ hp.idx >= LineSize

LeaveLine(file) ==
  /\ DigitNext(file) /\ OffLine
  /\ status' = "beyond"
  /\ UNCHANGED <<hp, blob, bin, address>>

(* The next character is a digit with a place on the line.  The place is    *)
(* idx and low_nibble; what lies behind the record's bytes does not count.  *)
Digit(file) == DigitNext(file) /\ ~OffLine

InPlace(file) ==
  \/ hp.idx >= LineBytes(file[hp.rec])
  \/ Head(blob) = [rec |-> hp.rec,
                   at |-> 2 * hp.idx + (IF hp.low_nibble THEN 2 ELSE 1)]

Stored(file) ==
  [hp EXCEPT !.sound = @ /\ InPlace(file),
             !.idx = IF hp.low_nibble THEN @ + 1 ELSE @]

(* The record has all its bytes with this digit, or had them before it.     *)
Completes(file) == hp.low_nibble /\ hp.idx + 1 >= LineBytes(file[hp.rec])

ChecksumValid(file) == Stored(file).sound /\ file[hp.rec].ok

(* A digit within a record, and one after a record that was dealt with.     *)
DigitInside(file) ==
  /\ Digit(file)
  /\ Completes(file) => hp.record_processed /\ ChecksumValid(file)
  /\ hp' = [Stored(file) EXCEPT !.low_nibble = ~@]
  /\ blob' = Tail(blob)
  /\ UNCHANGED <<bin, address, status>>

BadChecksum(file) ==
  /\ Digit(file) /\ Completes(file) /\ ~ChecksumValid(file)
  /\ hp' = Stored(file)
  /\ UNCHANGED <<blob, bin>>
  /\ Finish("checksum")

(* The last digit of a record of one of the given types.                    *)
Complete(file, types) ==
  /\ Digit(file) /\ Completes(file) /\ ChecksumValid(file)
  /\ ~hp.record_processed
  /\ file[hp.rec].type \in types

Processed(file) == [Stored(file) EXCEPT !.record_processed = TRUE]

(* Metadata, and the types the parser does not know.                        *)
Metadata(file) ==
  /\ Complete(file, {"meta", "other"})
  /\ hp' = [Processed(file) EXCEPT
              !.low_nibble = FALSE,
              !.binary_version =
                IF file[hp.rec].type = "meta" THEN file[hp.rec].value ELSE @]
  /\ blob' = Tail(blob)
  /\ UNCHANGED <<bin, address, status>>

(* Data for another version: the rest of the block is passed over.          *)
ForeignData(file) ==
  /\ Complete(file, DataTypes) /\ hp.binary_version # 0
  /\ hp' = [Processed(file) EXCEPT !.skip_until_aligned = TRUE]
  /\ UNCHANGED <<blob, bin>>
  /\ Finish("ok")

Continues(r) == Placed(r.addr) = hp.next /\ Len(bin) + Len(r.data) <= BinBuf

Data(file) ==
  LET r == file[hp.rec] IN
  /\ Complete(file, DataTypes) /\ hp.binary_version = 0 /\ Continues(r)
  /\ bin' = bin \o r.data
  /\ hp' = [Processed(file) EXCEPT !.low_nibble = FALSE,
                                   !.next = Placed(r.addr) + Len(r.data)]
  /\ blob' = Tail(blob)
  /\ UNCHANGED <<address, status>>

(* Data that does not continue the run waits for the next call.             *)
UnalignedData(file) ==
  /\ Complete(file, DataTypes) /\ hp.binary_version = 0
  /\ ~Continues(file[hp.rec])
  /\ hp' = [Processed(file) EXCEPT !.load_unaligned_record = TRUE]
  /\ blob' = Tail(blob)
  /\ UNCHANGED bin
  /\ Finish("unaligned")

EndOfFile(file) ==
  /\ Complete(file, {"eof"})
  /\ hp' = Processed(file)
  /\ UNCHANGED <<blob, bin>>
  /\ Finish("eof")

(* Mutant of UpperAddress: it returns before it has stored the digit.       *)
UpperAddressAgain(file) ==
  /\ Complete(file, {"segment", "linear"})
  /\ hp' = [hp EXCEPT !.next = Base(file[hp.rec])]
  /\ UNCHANGED <<blob, bin>>
  /\ status' = "unaligned" /\ address' = hp.next - Len(bin)

(* A new upper address.  The run so far is returned with the old one.  The  *)
(* digit is not consumed: the next call sees it again, and by               *)
(* record_processed knows the record.                                       *)
UpperAddress(file) ==
  /\ Complete(file, {"segment", "linear"})
  /\ hp' = [Processed(file) EXCEPT !.next = Base(file[hp.rec])]
  /\ UNCHANGED <<blob, bin>>
  /\ status' = "unaligned" /\ address' = hp.next - Len(bin)

Parse(file) ==
  \/ BlobEnd \/ LineEnd(file) \/ Colon \/ LeaveLine(file) \/ DigitInside(file)
  \/ BadChecksum(file) \/ Metadata(file) \/ ForeignData(file) \/ Data(file)
  \/ UnalignedData(file) \/ EndOfFile(file) \/ UpperAddress(file)

-----------------------------------------------------------------------------

(* get_hex_start_address, parse_hex_addr: the address of the first data     *)
(* record, by the linear addresses before it; absent is 0xFFFFFFFF.  The    *)
(* scan does not take HEX_CUSTOM_DATA_RECORD for data.                      *)
StartAddress(file, absent) ==
  LET k == Min({j \in DOMAIN file : file[j].type \in {"data", "eof"}})
      uppers == {j \in 1 .. k - 1 : file[j].type = "linear"}
  IN  IF file[k].type = "eof" THEN absent
      ELSE (IF uppers = {} THEN 0 ELSE Base(file[Max(uppers)])) + file[k].addr

=============================================================================
