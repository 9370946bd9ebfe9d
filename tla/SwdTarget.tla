------------------------------ MODULE SwdTarget ------------------------------
(***************************************************************************)
(* What a target does with the transfers of a debug probe: its debug port, *)
(* one access port onto memory and the debug registers of its core.  None  *)
(* of it is code of the repository; it is modelled as far as swd_host.c    *)
(* and swd_iface.cpp rely on it.                                           *)
(*                                                                         *)
(* The state is a record t that also holds what the host remembers of the  *)
(* target (select and csw).                                                *)
(***************************************************************************)
EXTENDS Naturals, Sequences, FiniteSets

CONSTANTS
  Cells,     \* the addresses of its memory, an interval from 0
  Word,      \* bytes of a word
  AutoPage,  \* TAR is incremented within blocks of so many bytes
  DHCSR, DEMCR, AIRCR, DCRDR, DCRSR, \* addresses of debug registers
  CoreRegs,  \* the core registers that a syscall sets
  None

Registers == {DHCSR, DEMCR, AIRCR, DCRDR, DCRSR}

ASSUME SwdTargetAssumption ==
  /\ Word \in Nat \ {0} /\ AutoPage \in Nat \ {0} /\ AutoPage % Word = 0
  /\ Cells = 0 .. Cardinality(Cells) - 1 /\ Cardinality(Cells) % AutoPage = 0
  /\ Cardinality(Registers \cup {None}) = 6 /\ (Registers \cup {None}) \cap Cells = {}
  /\ IsFiniteSet(Cells) /\ IsFiniteSet(CoreRegs) /\ 0 \in CoreRegs
  /\ None \notin Nat /\ None \notin BOOLEAN

(* What a read returns: lanes of bytes, or what a register holds.  A lane   *)
(* that the access does not drive has no value.                             *)
LanesOf(f) == <<"lanes", f>>
Junk == LanesOf([lane \in 0 .. Word - 1 |-> None])

(* A word of memory as distinct bytes: each cell holds its own address.     *)
Fresh == [c \in Cells |-> c]

Aligned(a) == a - (a % Word)

(* Auto-increment stays in the block.                                       *)
Next_TAR(a, step) == (a - (a % AutoPage)) + ((a + step) % AutoPage)

InitialTarget ==
  [\* the host's cache, the port and its pins
   select |-> 0, csw |-> None, port |-> FALSE,
   \* the debug port and the access port
   swd |-> FALSE, power |-> FALSE, sticky |-> FALSE, tselect |-> 0, tcsw |-> 32,
   tar |-> None, posted |-> Junk, mem |-> Fresh,
   \* the core: what it runs, its debug registers, a reset under way or held,
   \* whether it stands at its reset vector, registers given by this call, what
   \* an algorithm has left in r0
   run |-> "app", debugen |-> FALSE, haltreq |-> FALSE, vc |-> FALSE,
   resetting |-> FALSE, held |-> FALSE, fresh |-> FALSE,
   dcrdr |-> Junk, given |-> {}, r0 |-> None,
   \* whether the reset pin is wired
   wired |-> FALSE,
   \* history: since init_debug a transfer was not answered with OK, or the
   \* target was exchanged; a read that the target had answered was repeated
   trouble |-> FALSE, repeated |-> FALSE]

(* Another target at the probe, or the same one after a loss of power.      *)
Replugged(t) ==
  [InitialTarget EXCEPT !.select = t.select, !.csw = t.csw, !.port = t.port,
                        !.wired = t.wired, !.trouble = TRUE, !.repeated = t.repeated]

-----------------------------------------------------------------------------
(* The core.                                                                *)

Halted(t) == t.run = "halted"

(* Debug logic keeps DEBUGEN and the vector catch over a reset.             *)
AfterReset(t) ==
  LET caught == t.vc /\ t.debugen
  IN  [t EXCEPT !.run = IF caught THEN "halted" ELSE "app", !.fresh = caught,
                !.haltreq = caught, !.resetting = FALSE]

(* What the core does when it is released.                                  *)
Resumed(t) ==
  [t EXCEPT !.run = IF ~Halted(t) THEN @
                    ELSE IF t.given = CoreRegs THEN "algo"
                    ELSE IF t.given = {} THEN "app" ELSE "other",
            !.fresh = FALSE, !.haltreq = FALSE]

(* A halted core takes the value in DCRDR; a running one may not.           *)
RegisterTaken(t, n) ==
  [t EXCEPT !.given = IF t.dcrdr = <<"arg", n>> THEN @ \cup {n} ELSE @ \ {n}]

RegWrite(t, reg, v) ==
  CASE reg = DHCSR ->
         LET u == [t EXCEPT !.debugen = "C_DEBUGEN" \in v]
         IN  {IF {"C_DEBUGEN", "C_HALT"} \subseteq v
              THEN [u EXCEPT !.haltreq = TRUE] ELSE Resumed(u)}
    [] reg = DEMCR -> {[t EXCEPT !.vc = "VC_CORERESET" \in v]}
    [] reg = AIRCR -> {[t EXCEPT !.resetting = TRUE]}
    [] reg = DCRDR -> {[t EXCEPT !.dcrdr = <<"arg", v>>]}
    [] reg = DCRSR ->
         IF v.write
         THEN {RegisterTaken(t, v.reg)} \cup (IF Halted(t) THEN {} ELSE {t})
         ELSE {[t EXCEPT !.dcrdr = IF Halted(t) THEN <<"r0", t.r0>> ELSE Junk]}

RegRead(t, reg) ==
  CASE reg = DHCSR -> <<"bits", IF Halted(t) THEN {"S_HALT"} ELSE {}>>
    [] reg = DCRDR -> t.dcrdr
    [] OTHER -> <<"bits", {}>>

(* The steps of its own: a request to halt and one to reset are met.        *)
CanHalt(t) == t.haltreq /\ t.debugen /\ ~Halted(t) /\ ~t.held /\ ~t.resetting
HaltedByRequest(t) == [t EXCEPT !.run = "halted"]

(* A flash algorithm reaches its breakpoint.                                *)
CanEnd(t) == t.run \in {"algo", "other"} /\ t.debugen
Ended(t) == {[t EXCEPT !.run = "halted", !.r0 = r] : r \in {0, 1}}

-----------------------------------------------------------------------------
(* The access port.  Its registers answer only when their bank is selected. *)

Driven(t) == IF t.tcsw = 32 THEN {Aligned(t.tar) + lane : lane \in 0 .. Word - 1}
             ELSE {t.tar}

Advanced(t) ==
  [t EXCEPT !.tar = IF @ \in Cells THEN Next_TAR(@, IF t.tcsw = 32 THEN Word ELSE 1)
                    ELSE None]

(* Debug registers take whole words; TAR has left them after an access.     *)
Stored(t, v) ==
  IF t.tar \in Cells
  THEN {Advanced([t EXCEPT !.mem = [c \in Cells |-> IF c \in Driven(t) THEN v[c % Word] ELSE @[c]]])}
  ELSE IF t.tar \in Registers /\ t.tcsw = 32
  THEN {Advanced(u) : u \in RegWrite(t, t.tar, v)}
  ELSE {Advanced(t)}

Fetched(t) ==
  Advanced([t EXCEPT !.posted =
    IF t.tar \in Cells
    THEN LanesOf([lane \in 0 .. Word - 1 |->
            IF Aligned(t.tar) + lane \in Driven(t) THEN t.mem[Aligned(t.tar) + lane] ELSE None])
    ELSE IF t.tar \in Registers /\ t.tcsw = 32 THEN RegRead(t, t.tar)
    ELSE Junk])

(* An access to memory may end in a bus error, which the answer to a later  *)
(* transfer reports.                                                        *)
BusError(t) == IF t.tar \in Cells THEN {[t EXCEPT !.sticky = TRUE]} ELSE {}

Written(t, reg, v) ==
  CASE reg = "ABORT" -> {[t EXCEPT !.sticky = FALSE]}
    [] reg = "SELECT" -> {[t EXCEPT !.tselect = v]}
    [] reg = "CTRL_STAT" -> {t}
    [] OTHER ->
         IF t.tselect # 0 THEN {t}
         ELSE CASE reg = "CSW" -> {[t EXCEPT !.tcsw = v]}
                [] reg = "TAR" -> {[t EXCEPT !.tar = v]}
                [] reg = "DRW" -> Stored(t, v) \cup BusError(t)

(* What a read returns, and the state it leaves.                            *)
Answers(t, reg) ==
  CASE reg = "DRW" ->
         {[val |-> t.posted, t |-> u] :
            u \in IF t.tselect # 0 THEN {[t EXCEPT !.posted = Junk]} ELSE {Fetched(t)} \cup BusError(t)}
    [] reg = "IDR" ->
         {[val |-> t.posted, t |-> [t EXCEPT !.posted = IF t.tselect = 1 THEN <<"IDR">> ELSE Junk]]}
    [] reg = "RDBUFF" -> {[val |-> t.posted, t |-> t]}
    [] reg = "IDCODE" -> {[val |-> <<"IDCODE">>, t |-> t]}
    [] reg = "CTRL_STAT" -> {[val |-> <<"sticky", t.sticky>>, t |-> t]}

(* Without power or with a sticky error the port answers little else than   *)
(* what is needed to come out of that.                                      *)
Answering(t, reg) ==
  /\ t.port /\ t.swd
  /\ t.sticky => reg \in {"ABORT", "IDCODE", "CTRL_STAT"}
  /\ reg \in {"CSW", "TAR", "DRW", "IDR"} => t.power

=============================================================================
