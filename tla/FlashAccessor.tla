---------------------------- MODULE FlashAccessor ----------------------------
(***************************************************************************)
(* flash_accessor.cpp: bytes are collected in a page buffer, which is      *)
(* programmed when the addresses leave it; a sector is erased when the     *)
(* addresses enter it.  A write is taken apart into its calls of the flash *)
(* and its copies into the buffer; todo is what is left of it.             *)
(***************************************************************************)
EXTENDS TargetFlash

CONSTANT PageBuffer   \* _page_size

(* The page buffer takes a small sector, or a whole part of a large one.    *)
ASSUME FlashAccessorAssumption ==
  /\ PageBuffer \in Nat \ {0}
  /\ None \notin {"first", "block", "sector", "flush", "end", "copy", "lost"}
  /\ \A i \in DOMAIN Sectors :
       Sectors[i].size > PageBuffer => Sectors[i].size % PageBuffer = 0

VARIABLES
  target,                        \* the TargetFlash it inherits from
  flash_state,                   \* "CLOSED", "OPEN" or "ERROR"
  current_sector_valid, last_packet_addr,
  current_write_block_addr, current_write_block_size,
  current_sector_addr, current_sector_size,
  page_buf_empty, page_buffer,
  at,       \* the next statement of write, None when it is not running
  todo,     \* address and data still to be written
  err,      \* the result of the last call
  overrun   \* a copy went beyond the page buffer

block == <<current_write_block_addr, current_write_block_size>>
sector == <<current_sector_addr, current_sector_size>>
page == <<page_buf_empty, page_buffer>>
accessorVars == <<target, flash_state, current_sector_valid, last_packet_addr,
                  block, sector, page, at, todo, err, overrun>>

(* Mutant of RoundDown: the macro beside it is taken.                       *)
RoundUp(a, size) == a + (((size - (a % size)) % size))

RoundDown(a, size) == a - (a % size)

EmptyPage == [i \in 1 .. PageBuffer |-> FF]
BlockEnd == current_write_block_addr + current_write_block_size
SectorEnd == current_sector_addr + current_sector_size

InitialAccessor(mem) ==
  /\ target = InitialTarget(mem)
  /\ flash_state = "CLOSED" /\ current_sector_valid = FALSE
  /\ last_packet_addr = 0
  /\ current_write_block_addr = 0 /\ current_write_block_size = 0
  /\ current_sector_addr = 0 /\ current_sector_size = 0
  /\ page_buf_empty = TRUE /\ page_buffer = EmptyPage
  /\ at = None /\ todo = [addr |-> 0, data |-> <<>>] /\ err = None
  /\ overrun = FALSE

ResetFields ==
  /\ current_sector_valid' = FALSE /\ last_packet_addr' = 0
  /\ current_write_block_addr' = 0 /\ current_write_block_size' = 0
  /\ current_sector_addr' = 0 /\ current_sector_size' = 0
  /\ page_buf_empty' = TRUE /\ page_buffer' = EmptyPage

(* init: an accessor that is in use is refused.                             *)
Open ==
  /\ at = None
  /\ \/ /\ flash_state # "CLOSED"
        /\ err' = "internal"
        /\ UNCHANGED <<target, flash_state, current_sector_valid, last_packet_addr,
                       block, sector, page>>
     \/ /\ flash_state = "CLOSED"
        /\ \E o \in FlashInit(target) :
             /\ target' = o.t /\ err' = o.err
             /\ flash_state' = IF o.err = None THEN "OPEN" ELSE "CLOSED"
        /\ ResetFields
  /\ UNCHANGED <<at, todo, overrun>>

-----------------------------------------------------------------------------
(* The calls that a write makes.                                            *)

(* A failed call ends the write and puts the accessor in ERROR.             *)
Proceed(o, then) ==
  /\ target' = o.t /\ err' = o.err
  /\ \/ o.err = None /\ at' = then /\ UNCHANGED flash_state
     \/ o.err # None /\ at' = None /\ flash_state' = "ERROR"

(* Mutant of Flush: the next block's address is not set.                    *)
FlushStay(then) ==
  /\ \E o \in IF page_buf_empty THEN {Done(target)}
              ELSE ProgramPage(target, current_write_block_addr,
                               SubSeq(page_buffer, 1, current_write_block_size)) :
       Proceed(o, then)
  /\ page_buf_empty' = TRUE /\ page_buffer' = EmptyPage
  /\ UNCHANGED <<block, sector, current_sector_valid, last_packet_addr, todo, overrun>>

(* flush_current_block                                                      *)
Flush(then) ==
  /\ \E o \in IF page_buf_empty THEN {Done(target)}
              ELSE ProgramPage(target, current_write_block_addr,
                               SubSeq(page_buffer, 1, current_write_block_size)) :
       Proceed(o, then)
  /\ page_buf_empty' = TRUE /\ page_buffer' = EmptyPage
  /\ current_write_block_addr' = RoundDown(todo.addr, current_write_block_size)
  /\ UNCHANGED <<current_write_block_size, sector, current_sector_valid,
                 last_packet_addr, todo, overrun>>

(* After a failed setup the flash is closed; what that returns is dropped.  *)
Uninited(outs) ==
  UNION {IF o.err = None THEN {o} ELSE {Failed(o.err, u.t) : u \in FlashUninit(o.t)}
         : o \in outs}

(* setup_next_sector: the algorithm of the sector is loaded, the sector     *)
(* erased.                                                                  *)
SetupSector(then) ==
  LET size == SectorSize(todo.addr)
      start == RoundDown(todo.addr, size)
  IN
  \/ /\ size = 0
     /\ Proceed(Failed("internal", target), then)
     /\ UNCHANGED <<block, sector, page_buffer>>
  \/ /\ size # 0
     /\ current_sector_addr' = start /\ current_sector_size' = size
     /\ current_write_block_addr' = start
     /\ current_write_block_size' = IF size <= PageBuffer THEN size ELSE PageBuffer
     /\ \E o \in Uninited(Then(AlgoSet(target, start), LAMBDA u : EraseSector(u, start))) :
          /\ Proceed(o, then)
          /\ page_buffer' = IF o.err = None THEN EmptyPage ELSE page_buffer

-----------------------------------------------------------------------------
(* write                                                                    *)

(* A write to an accessor that is not open fails.                           *)
Write(a, data) ==
  /\ at = None
  /\ \/ /\ flash_state # "OPEN"
        /\ err' = "internal" /\ UNCHANGED <<at, todo>>
     \/ /\ flash_state = "OPEN"
        /\ at' = IF current_sector_valid THEN "block" ELSE "first"
        /\ todo' = [addr |-> a, data |-> data] /\ err' = None
  /\ UNCHANGED <<target, flash_state, current_sector_valid, last_packet_addr,
                 block, sector, page, overrun>>

(* The first sector of a session.                                           *)
WriteFirst ==
  /\ at = "first"
  /\ SetupSector("block")
  /\ current_sector_valid' = (err' = None)
  /\ last_packet_addr' = IF err' = None THEN todo.addr ELSE last_packet_addr
  /\ UNCHANGED <<page_buf_empty, todo, overrun>>

(* The packet is in another block, in another sector, than the last ended.  *)
Left(size) == RoundDown(todo.addr, size) # RoundDown(last_packet_addr, size)

Skip(then) ==
  /\ at' = then
  /\ UNCHANGED <<target, flash_state, current_sector_valid, last_packet_addr,
                 block, sector, page, todo, err, overrun>>

WriteBlock ==
  /\ at = "block"
  /\ \/ Left(current_write_block_size) /\ Flush("sector")
     \/ ~Left(current_write_block_size) /\ Skip("sector")

WriteSector ==
  /\ at = "sector"
  /\ \/ /\ Left(current_sector_size) /\ SetupSector("flush")
        /\ UNCHANGED <<current_sector_valid, last_packet_addr, page_buf_empty, todo, overrun>>
     \/ ~Left(current_sector_size) /\ Skip("flush")

(* The loop: a full block is flushed, ...                                   *)
WriteFlush ==
  /\ at = "flush"
  /\ \/ todo.addr >= BlockEnd /\ Flush("end")
     \/ todo.addr < BlockEnd /\ Skip("end")

(* ... the write ends when nothing is left, ...                             *)
WriteEnd ==
  /\ at = "end" /\ todo.data = <<>>
  /\ at' = None /\ last_packet_addr' = todo.addr
  /\ UNCHANGED <<target, flash_state, current_sector_valid, block, sector,
                 page, todo, err, overrun>>

(* ... the next sector is set up when the last one is full, ...             *)
WriteChange ==
  /\ at = "end" /\ todo.data # <<>>
  /\ \/ /\ todo.addr >= SectorEnd /\ SetupSector("copy")
        /\ UNCHANGED <<current_sector_valid, last_packet_addr, page_buf_empty, todo, overrun>>
     \/ todo.addr < SectorEnd /\ Skip("copy")

(* Where the copy begins in the page buffer.                                *)
CopyStart == todo.addr - current_write_block_addr

(* ... and as much is copied as the buffer takes.                           *)
WriteCopy ==
  /\ at = "copy"
  /\ CopyStart < current_write_block_size
  /\ LET left == current_write_block_size - CopyStart
         n == IF Len(todo.data) < left THEN Len(todo.data) ELSE left
     IN  /\ page_buffer' = [i \in 1 .. PageBuffer |->
                              IF i > CopyStart /\ i <= CopyStart + n
                              THEN todo.data[i - CopyStart] ELSE page_buffer[i]]
         /\ todo' = [addr |-> todo.addr + n, data |-> SubSeq(todo.data, n + 1, Len(todo.data))]
  /\ page_buf_empty' = FALSE
  /\ at' = "flush"
  /\ UNCHANGED <<target, flash_state, current_sector_valid, last_packet_addr,
                 block, sector, err, overrun>>

(* The room left in the buffer is computed without a check; when the block  *)
(* does not contain the address it wraps, and the copy leaves the buffer.   *)
(* What the program does then is not followed.                              *)
WriteBeyond ==
  /\ at = "copy"
  /\ CopyStart >= current_write_block_size
  /\ overrun' = TRUE
  /\ at' = "lost"
  /\ UNCHANGED <<target, flash_state, current_sector_valid, last_packet_addr,
                 block, sector, page, todo, err>>

WriteStep ==
  \/ WriteFirst \/ WriteBlock \/ WriteSector \/ WriteFlush \/ WriteEnd
  \/ WriteChange \/ WriteCopy \/ WriteBeyond

-----------------------------------------------------------------------------

(* Mutant of Close: the last page is not programmed.                        *)
CloseUnflushed ==
  /\ at = None /\ flash_state # "CLOSED"
  /\ \E u \in FlashUninit(target) : target' = u.t /\ err' = u.err
  /\ flash_state' = "CLOSED"
  /\ ResetFields
  /\ UNCHANGED <<at, todo, overrun>>

(* The last page is programmed unless a call has failed before.             *)
LastFlush ==
  IF flash_state = "ERROR" THEN {Done(target)}
  ELSE IF current_write_block_size = 0 THEN {Failed("internal", target)}
  ELSE IF page_buf_empty THEN {Done(target)}
  ELSE ProgramPage(target, current_write_block_addr,
                   SubSeq(page_buffer, 1, current_write_block_size))

(* uninit: the flash is closed in any case; a failure of either call is     *)
(* returned.                                                                *)
Close ==
  /\ at = None
  /\ \/ /\ flash_state = "CLOSED"
        /\ err' = "internal"
        /\ UNCHANGED <<target, flash_state, current_sector_valid, last_packet_addr,
                       block, sector, page>>
     \/ /\ flash_state # "CLOSED"
        /\ \E o \in LastFlush :
           \E u \in FlashUninit(o.t) :
             /\ target' = u.t
             /\ err' = IF u.err # None THEN u.err ELSE o.err
        /\ flash_state' = "CLOSED"
        /\ ResetFields
  /\ UNCHANGED <<at, todo, overrun>>

=============================================================================
