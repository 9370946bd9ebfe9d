------------------------------ MODULE DapCommand ------------------------------
(***************************************************************************)
(* The commands of DAP.c by what they mean to a driver: how long the       *)
(* response to each is, and the settings they leave behind, the clock and  *)
(* the packet size.  Only SWD is built (DAP_config.h:60-63): the commands  *)
(* for JTAG answer with an error, those for SWO and UART are unknown.      *)
(* What transfers do to the target is DapTransfer's.                       *)
(*                                                                         *)
(* A command is a record: its id and what its length depends on.           *)
(***************************************************************************)
EXTENDS Integers, Sequences, SequencesExt

CONSTANTS HalfClock,    \* CPU_CLOCK / 2
          PortCycles,   \* IO_PORT_WRITE_CYCLES
          FastCycles,   \* DELAY_FAST_CYCLES
          SlowCycles,   \* DELAY_SLOW_CYCLES
          DefaultClock  \* DAP_DEFAULT_SWJ_CLOCK

ASSUME ClockAssumption ==
  /\ HalfClock \in Nat /\ PortCycles \in Nat \ {0}
  /\ FastCycles \in Nat /\ SlowCycles \in Nat \ {0}
  /\ DefaultClock \in Nat \ {0}

-----------------------------------------------------------------------------

(* n / d, rounded up.                                                       *)
Ceiling(n, d) == (n + (d - 1)) \div d

MaxClock(cycles) == HalfClock \div (PortCycles + cycles)

(* Mutant of SlowDelay: the last quotient is rounded down.                  *)
SlowDelayShort(clock) ==
  LET cycles == Ceiling(HalfClock, clock)
  IN  IF cycles > PortCycles THEN (cycles - PortCycles) \div SlowCycles ELSE 1

(* The number of delay loops that make a half period long enough.           *)
SlowDelay(clock) ==
  LET cycles == Ceiling(HalfClock, clock)
  IN  IF cycles > PortCycles THEN Ceiling(cycles - PortCycles, SlowCycles) ELSE 1

SetClockDelay(dap, clock) ==
  IF clock >= MaxClock(FastCycles)
  THEN [dap EXCEPT !.fast_clock = TRUE, !.clock_delay = 1]
  ELSE [dap EXCEPT !.fast_clock = FALSE, !.clock_delay = SlowDelay(clock)]

SetPacketSize(dap, size) ==
  IF size \in 64 .. 32768 THEN [dap EXCEPT !.packet_size = size] ELSE dap

(* DAP_Setup, after the variables' initial values.                          *)
DAPSetup ==
  SetClockDelay([packet_size |-> 64, fast_clock |-> FALSE, clock_delay |-> 0], DefaultClock)

-----------------------------------------------------------------------------

(* The length of what DAP_Info tells: of strings with their zero, none if   *)
(* the thing asked for is not there.                                        *)
InfoLength(what) ==
  CASE what = "VENDOR"  -> 13
    [] what = "PRODUCT" -> 14
    [] what = "FW_VER"  -> 6
    [] what \in {"CAPABILITIES", "PACKET_SIZE"} -> 2
    [] what = "PACKET_COUNT" -> 1
    [] OTHER -> 0

(* The bytes of one part of a DAP_SWD_Sequence; no clocks mean 64.          *)
SequenceBytes(clocks) == Ceiling(IF clocks = 0 THEN 64 ELSE clocks, 8)

SequenceSum(parts) == FoldLeft(LAMBDA sum, p : sum + SequenceBytes(p), 0, parts)

(* A transfer ends at the first failure: the words before it are answered.  *)
(* None and all stand for any number of them.                               *)
WordsRead(n) == {0, n}

(* The lengths that the response to a command can have, with its id.        *)
ResponseLengths(c) ==
  CASE c.id = "Info"          -> {2 + InfoLength(c.what)}
    [] c.id = "SWD_Sequence"  -> {2 + SequenceSum(c.captured)}
    [] c.id = "Transfer"      -> {3 + 4 * k : k \in WordsRead(c.n)}
    [] c.id = "TransferBlock" -> {4 + 4 * k : k \in WordsRead(c.n)}
    [] c.id = "ResetTarget"   -> {3}
    [] c.id \in {"Vendor", "ExecuteCommands", "unknown"} -> {1}
    [] OTHER                  -> {2}

(* The command changes the clock; zero is refused.                          *)
SetsClock(c) == c.id = "SWJ_Clock" /\ c.clock # 0

ProcessCommand(dap, c) == IF SetsClock(c) THEN SetClockDelay(dap, c.clock) ELSE dap

-----------------------------------------------------------------------------

(* A clock of the settings is not faster than the one asked for, and no     *)
(* shorter delay would do, nor one that the loop of PIN_DELAY_SLOW would    *)
(* count down from zero.                                                    *)
ClockMeets(dap, clock) ==
  /\ dap.clock_delay >= 1
  /\ IF dap.fast_clock
     THEN HalfClock < (clock + 1) * (PortCycles + FastCycles)
     ELSE /\ HalfClock <= clock * (PortCycles + SlowCycles * dap.clock_delay)
          /\ dap.clock_delay > 1 =>
               clock * (PortCycles + SlowCycles * (dap.clock_delay - 1)) < HalfClock

=============================================================================
