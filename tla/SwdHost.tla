------------------------------- MODULE SwdHost -------------------------------
(***************************************************************************)
(* The debug probe as host of a target: swd_host.c, and swd_iface.cpp,     *)
(* which is the same code in C++ but for its retries.  It reads and writes *)
(* the target's memory, runs flash algorithms there and brings the core    *)
(* into a state, and remembers the last values it sent to SELECT and CSW.  *)
(*                                                                         *)
(* A call is an operator that yields the set of its outcomes: whether it   *)
(* succeeded, what it read, and the state it leaves.  set_target_state is  *)
(* a sequence of steps, since the core moves while it runs.                *)
(***************************************************************************)
EXTENDS SwdTarget, SequencesExt

CONSTANTS
  Hosts,     \* "hw" and "sw" (swd_host.c), "cpp" (swd_iface.cpp)
  Accesses   \* to memory: address and size

ASSUME SwdHostAssumption ==
  /\ Hosts \subseteq {"hw", "sw", "cpp"}
  /\ \A x \in Accesses : x[1] \in Cells /\ x[2] \in Nat \ {0}
                          /\ x[1] .. x[1] + x[2] - 1 \subseteq Cells

VARIABLES
  host,  \* which of the three functions set_target_state is
  s,     \* the target and what the host remembers of it
  todo,  \* the steps of set_target_state that are left
  last   \* the last call: what it was asked and what it returned

Yes(v, t) == [ok |-> TRUE, val |-> v, t |-> t]
No(t) == [ok |-> FALSE, val |-> None, t |-> t]

(* Op is called with the value and the state of each outcome that is good.  *)
Then(outs, Op(_, _)) ==
  UNION {IF o.ok THEN Op(o.val, o.t) ELSE {o} : o \in outs}

-----------------------------------------------------------------------------
(* Transfers.                                                               *)

(* swd_transfer_retry, for a write.  WAIT is retried, by the C++ any answer *)
(* but OK; what was not accepted had no effect.                             *)
WriteReg(t, reg, v) ==
  {No([t EXCEPT !.trouble = TRUE])} \cup
  (IF Answering(t, reg) THEN {Yes(None, u) : u \in Written(t, reg, v)} ELSE {})

(* For a read, whose answer may be garbled after it was given.  The C++     *)
(* then reads once more, which is a second access.                          *)
ReadReg(t, reg) ==
  LET failed(u) == [u EXCEPT !.trouble = TRUE]
      again(u) == [failed(u) EXCEPT !.repeated = TRUE]
  IN  {No(failed(t))} \cup
      (IF ~Answering(t, reg) THEN {}
       ELSE UNION {{Yes(a.val, a.t), No(failed(a.t))} \cup
                   (IF host = "cpp" /\ Answering(a.t, reg)
                    THEN {Yes(b.val, again(b.t)) : b \in Answers(a.t, reg)} ELSE {})
                   : a \in Answers(t, reg)})

Confirm(t) == ReadReg(t, "RDBUFF")

(* swd_write_dp, for SELECT, which is sent when it changes; the value is    *)
(* remembered before.                                                       *)
Select(t, bank) ==
  IF t.select = bank THEN {Yes(None, t)}
  ELSE WriteReg([t EXCEPT !.select = bank], "SELECT", bank)

(* swd_read_ap: the first of two reads is not looked at.                    *)
ReadAP(t, reg) ==
  Then(Select(t, 1),
       LAMBDA v, u : UNION {ReadReg(o.t, reg) : o \in ReadReg(u, reg)})

(* swd_write_ap, for CSW, in the same way.                                  *)
SetCSW(t, size) ==
  Then(Select(t, 0),
       LAMBDA v, u :
         IF u.csw = size THEN {Yes(None, u)}
         ELSE Then(WriteReg([u EXCEPT !.csw = size], "CSW", size),
                   LAMBDA w, x : Confirm(x)))

-----------------------------------------------------------------------------
(* Memory.                                                                  *)

(* swd_write_data, swd_read_data                                            *)
WriteData(t, a, v) ==
  Then(WriteReg(t, "TAR", a),
       LAMBDA x, u : Then(WriteReg(u, "DRW", v), LAMBDA y, w : Confirm(w)))

ReadData(t, a) ==
  Then(WriteReg(t, "TAR", a),
       LAMBDA x, u : Then(ReadReg(u, "DRW"), LAMBDA y, w : Confirm(w)))

(* A byte of a word that was read, None when it is no byte.                 *)
Lane(v, lane) == IF v[1] = "lanes" THEN v[2][lane] ELSE None

(* swd_write_word, swd_read_word                                            *)
WriteWord(t, a, v) == Then(SetCSW(t, 32), LAMBDA x, u : WriteData(u, a, v))
ReadWord(t, a) == Then(SetCSW(t, 32), LAMBDA x, u : ReadData(u, a))

(* swd_write_byte: the byte in its lane, zeroes in the others.              *)
WriteByte(t, a, v) ==
  Then(SetCSW(t, 8),
       LAMBDA x, u : WriteData(u, a, [lane \in 0 .. Word - 1 |->
                                        IF lane = a % Word THEN v ELSE 0]))

(* swd_read_byte                                                            *)
ReadByte(t, a) ==
  Then(Then(SetCSW(t, 8), LAMBDA x, u : ReadData(u, a)),
       LAMBDA v, u : {Yes(<<Lane(v, a % Word)>>, u)})

Lanes(v) == [i \in 1 .. Word |-> Lane(v, i - 1)]
WordAt(data, k) == [lane \in 0 .. Word - 1 |-> data[k * Word + lane + 1]]

(* swd_write_block: TAR is written once and moves along.                    *)
WriteBlock(t, a, data) ==
  Then(Then(SetCSW(t, 32), LAMBDA x, u : WriteReg(u, "TAR", a)),
       LAMBDA x, u :
         Then(FoldLeft(LAMBDA outs, k : Then(outs, LAMBDA y, w : WriteReg(w, "DRW", WordAt(data, k))),
                       {Yes(None, u)}, [i \in 1 .. Len(data) \div Word |-> i - 1]),
              LAMBDA y, w : Confirm(w)))

(* swd_read_block: each read returns what the one before has fetched.       *)
ReadBlock(t, a, n) ==
  LET more(outs) ==
        Then(outs, LAMBDA got, u :
          Then(ReadReg(u, "DRW"), LAMBDA v, w : {Yes(got \o Lanes(v), w)}))
      tar(outs) == Then(outs, LAMBDA x, u : WriteReg(u, "TAR", a))
      first(outs) ==
        Then(outs, LAMBDA x, u : Then(ReadReg(u, "DRW"), LAMBDA v, w : {Yes(<<>>, w)}))
      words == FoldLeft(LAMBDA outs, k : more(outs), first(tar(SetCSW(t, 32))),
                        [i \in 1 .. (n \div Word) - 1 |-> i])
  IN  Then(words, LAMBDA got, u :
             Then(Confirm(u), LAMBDA v, w : {Yes(got \o Lanes(v), w)}))

(* Mutant of Room: a block does not end with the auto-increment page.       *)
RoomEndless(a, size) == size - (size % Word)

(* What is left of the auto-increment page, or as many whole words as are   *)
(* left to do.                                                              *)
Room(a, size) ==
  LET n == AutoPage - (a % AutoPage)
  IN  IF size < n THEN size - (size % Word) ELSE n

(* How swd_read_memory and swd_write_memory take an access apart: bytes to  *)
(* the first word, blocks of words, bytes.                                  *)
Pieces(addr, length) ==
  LET from[a \in addr .. addr + length] ==
        LET size == addr + length - a IN
        IF size = 0 THEN <<>>
        ELSE IF a % Word # 0 \/ size < Word
        THEN <<[a |-> a, n |-> 1, byte |-> TRUE]>> \o from[a + 1]
        ELSE LET n == Room(a, size)
             IN  <<[a |-> a, n |-> n, byte |-> FALSE]>> \o from[a + n]
  IN  from[addr]

ReadMemory(t, addr, length) ==
  FoldLeft(LAMBDA outs, p :
             Then(outs, LAMBDA got, u :
               Then(IF p.byte THEN ReadByte(u, p.a) ELSE ReadBlock(u, p.a, p.n),
                    LAMBDA v, w : {Yes(got \o v, w)})),
           {Yes(<<>>, t)}, Pieces(addr, length))

WriteMemory(t, addr, data) ==
  FoldLeft(LAMBDA outs, p :
             Then(outs, LAMBDA x, u :
               IF p.byte THEN WriteByte(u, p.a, data[p.a - addr + 1])
               ELSE WriteBlock(u, p.a, SubSeq(data, p.a - addr + 1, p.a - addr + p.n))),
           {Yes(None, t)}, Pieces(addr, Len(data)))

-----------------------------------------------------------------------------
(* Core registers and syscalls.                                             *)

(* Reads of DHCSR until S_REGRDY is set, at most a hundred: the core is     *)
(* ready in the end or not.                                                 *)
RegisterReady(t) ==
  Then(ReadWord(t, DHCSR), LAMBDA v, u : {Yes(None, u), No(u)})

(* swd_write_core_register, swd_read_core_register                          *)
WriteCoreRegister(t, n) ==
  Then(WriteWord(t, DCRDR, n),
       LAMBDA x, u : Then(WriteWord(u, DCRSR, [reg |-> n, write |-> TRUE]),
                          LAMBDA y, w : RegisterReady(w)))

ReadCoreRegister(t, n) ==
  Then(Then(WriteWord(t, DCRSR, [reg |-> n, write |-> FALSE]),
            LAMBDA x, u : RegisterReady(u)),
       LAMBDA x, u : ReadWord(u, DCRDR))

(* swd_write_debug_state: the core is released when all registers are       *)
(* written; then the port is asked for errors.                              *)
WriteDebugState(t) ==
  LET registers ==
        FoldLeft(LAMBDA outs, n : Then(outs, LAMBDA x, u : WriteCoreRegister(u, n)),
                 Select(t, 0), SetToSeq(CoreRegs))
  IN  Then(Then(registers, LAMBDA x, u : WriteWord(u, DHCSR, {"C_DEBUGEN"})),
           LAMBDA x, u : Then(ReadReg(u, "CTRL_STAT"),
                              LAMBDA v, w : {IF v = <<"sticky", TRUE>> THEN No(w) ELSE Yes(None, w)}))

(* Whether a word read from DHCSR shows S_HALT; junk shows anything.        *)
ShowsHalt(v) == IF v[1] = "bits" THEN {"S_HALT" \in v[2]} ELSE BOOLEAN

(* Whether r0 was read as zero; what no algorithm has left may be anything. *)
ShowsZero(v) == IF v[1] = "r0" /\ v[2] # None THEN {v[2] = 0} ELSE BOOLEAN

(* Mutant of WaitUntilHalted: it succeeds when the time is over.            *)
WaitUntilSomething(t) ==
  LET later == {t} \cup (IF CanEnd(t) THEN Ended(t) ELSE {})
  IN  UNION {ReadWord(u, DHCSR) : u \in later}

(* swd_wait_until_halted: reads of DHCSR, of which one shows S_HALT, or     *)
(* fails, or none shows it within MAX_TIMEOUT; the core may get to its      *)
(* breakpoint meanwhile.                                                    *)
WaitUntilHalted(t) ==
  LET later == {t} \cup (IF CanEnd(t) THEN Ended(t) ELSE {})
      seen(v, u) == {IF h THEN Yes(None, u) ELSE No(u) : h \in ShowsHalt(v)}
  IN  UNION {Then(ReadWord(u, DHCSR), seen) : u \in later}

(* swd_flash_syscall_exec: it succeeds when the algorithm returned 0.       *)
SyscallExec(t) ==
  LET begun == [t EXCEPT !.given = {}, !.r0 = None, !.run = IF @ = "algo" THEN "other" ELSE @]
      done == Then(Then(WriteDebugState(begun), LAMBDA x, u : WaitUntilHalted(u)),
                   LAMBDA x, u : ReadCoreRegister(u, 0))
      returned(v, u) ==
        {IF z THEN Yes(None, u) ELSE No(u) : z \in ShowsZero(v)}
  IN  Then(done, returned)

-----------------------------------------------------------------------------
(* The debug connection.                                                    *)

SwdInit(t) == [t EXCEPT !.port = TRUE]
SwdOff(t) == [t EXCEPT !.port = FALSE]

(* A line reset, the switch to SWD, a line reset, and the IDCODE is read.   *)
JTAG2SWD(t) ==
  ReadReg([t EXCEPT !.swd = t.port \/ @], "IDCODE")

(* Power is asked for, and CTRL_STAT read until it is there, at most a      *)
(* hundred times.                                                           *)
PowerUp(t) ==
  Then(Then(WriteReg(t, "CTRL_STAT", None), LAMBDA x, u : ReadReg(u, "CTRL_STAT")),
       LAMBDA v, u : {Yes(None, [u EXCEPT !.power = TRUE]), No(u)})

(* Mutant of InitDebug: what is remembered stays.                           *)
InitDebugKeeping(t) ==
  LET start == [SwdInit(t) EXCEPT !.trouble = FALSE, !.repeated = FALSE]
      cleared == Then(JTAG2SWD(start), LAMBDA x, u : WriteReg(u, "ABORT", None))
      powered == Then(Then(cleared, LAMBDA x, u : Select(u, 0)), LAMBDA x, u : PowerUp(u))
  IN  Then(powered, LAMBDA x, u : WriteReg(u, "CTRL_STAT", None))

(* swd_init_debug                                                           *)
InitDebug(t) ==
  LET start == [SwdInit(t) EXCEPT !.select = None, !.csw = None,
                                  !.trouble = FALSE, !.repeated = FALSE]
      cleared == Then(JTAG2SWD(start), LAMBDA x, u : WriteReg(u, "ABORT", None))
      powered == Then(Then(cleared, LAMBDA x, u : Select(u, 0)), LAMBDA x, u : PowerUp(u))
      normal == Then(powered, LAMBDA x, u : WriteReg(u, "CTRL_STAT", None))
  IN  Then(normal, LAMBDA x, u : Select(u, 0))

=============================================================================
