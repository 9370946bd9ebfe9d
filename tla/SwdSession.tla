------------------------------ MODULE SwdSession ------------------------------
(***************************************************************************)
(* A host that uses a target: its calls in any order, while the core goes  *)
(* on by itself and targets are exchanged.  set_target_state is modelled   *)
(* as the sequence of its calls, one step each.                            *)
(***************************************************************************)
EXTENDS SwdHost

vars == <<host, s, todo, last>>

States == {"RESET_HOLD", "RESET_PROGRAM", "RESET_RUN", "NO_DEBUG", "DEBUG", "HALT", "RUN"}

Agrees(t) ==
  /\ t.select \in {None, t.tselect}
  /\ t.csw \in {None, t.tcsw}

(* Between two calls; TAR, what was posted and what is in memory and DCRDR  *)
(* is written by each call before it is used, and is forgotten.             *)
Idle == [call |-> "none", a |-> 0, n |-> 0, ok |-> None, val |-> None,
         agreed |-> TRUE, before |-> [stopped |-> FALSE, vc |-> FALSE]]

Forgotten(t) ==
  [t EXCEPT !.tar = None, !.posted = Junk, !.mem = Fresh, !.dcrdr = Junk,
            !.given = {}, !.r0 = None, !.fresh = FALSE, !.repeated = FALSE]

(* What a call leaves for the properties: whether caches agreed and how the *)
(* core was when it began.                                                  *)
Called(call, a, n) ==
  [Idle EXCEPT !.call = call, !.a = a, !.n = n, !.agreed = Agrees(s),
               !.before = [stopped |-> Halted(s), vc |-> s.vc]]

Init ==
  /\ host \in Hosts
  /\ \E w \in BOOLEAN : s = [InitialTarget EXCEPT !.wired = w]
  /\ todo = <<>>
  /\ last = Idle

-----------------------------------------------------------------------------
(* The steps of set_target_state.                                           *)

Step(op) == [op |-> op, reg |-> None, val |-> None]
Put(reg, v) == [op |-> "write", reg |-> reg, val |-> v]
Get(reg) == [op |-> "read", reg |-> reg, val |-> None]

Enable == Put(DHCSR, {"C_DEBUGEN"})
Disable == Put(DHCSR, {})
HaltCore == <<Put(DHCSR, {"C_DEBUGEN", "C_HALT"}), Step("wait")>>
PinReset == <<Step("assert"), Step("delay"), Step("release"), Step("delay")>>
Uncatch == Put(DEMCR, {})

(* Mutant of SoftReset: the reset is not given time.                        *)
SoftResetHasty == <<Get(AIRCR), Put(AIRCR, {"SYSRESETREQ"})>>

SoftReset == <<Get(AIRCR), Put(AIRCR, {"SYSRESETREQ"}), Step("delay")>>

(* Mutant of CatchReset: the core is not stopped at its reset.              *)
CatchResetNot == Put(DEMCR, {})

CatchReset == Put(DEMCR, {"VC_CORERESET"})

Connect == <<Step("jtag2swd"), Step("abort"), Step("select"), Step("power"), Enable>>

(* swd_set_target_state_hw: by the reset pin.                               *)
HwSteps(st) ==
  CASE st = "RESET_HOLD" -> <<Step("init"), Step("assert")>>
    [] st = "RESET_RUN" -> <<Step("init")>> \o PinReset \o <<Step("off")>>
    [] st = "RESET_PROGRAM" ->
         <<Step("init"), Step("init_debug"), [Enable EXCEPT !.op = "try twice"], CatchReset>>
         \o PinReset \o <<Step("wait"), Uncatch>>
    [] st = "NO_DEBUG" -> <<Step("init"), Disable>>
    [] st = "DEBUG" -> <<Step("init")>> \o Connect
    [] st = "HALT" -> <<Step("init"), Step("init_debug")>> \o HaltCore
    [] st = "RUN" -> <<Disable, Step("off")>>

(* swd_set_target_state_sw: by the core's reset request.                    *)
SwSteps(st) ==
  CASE st = "RESET_RUN" ->
         <<Step("init")>> \o HaltCore \o SoftReset \o <<Step("off")>>
    [] st = "RESET_PROGRAM" ->
         <<Step("init"), Step("init_debug")>> \o HaltCore \o <<CatchReset>>
         \o SoftReset \o <<Step("wait"), Uncatch>>
    [] OTHER -> HwSteps(st)

(* SWDIface::set_target_state                                               *)
CppSteps(st) ==
  CASE st = "RESET_HOLD" -> <<Step("init"), Step("assert")>>
    [] st = "RESET_RUN" ->
         <<Step("init")>> \o HaltCore \o SoftReset \o <<Step("off")>>
    [] st = "RESET_PROGRAM" ->
         <<Step("init"), Step("init_debug")>> \o HaltCore \o <<CatchReset>>
         \o SoftReset \o <<Step("wait"), Uncatch>>
    [] st = "NO_DEBUG" -> <<Step("init"), Disable>>
    [] st = "DEBUG" -> <<Step("init")>> \o Connect
    [] st = "HALT" -> <<Step("init"), Step("init_debug")>> \o HaltCore
    [] st = "RUN" -> <<Disable, Step("off")>>

Steps(st) ==
  CASE host = "hw" -> HwSteps(st) [] host = "sw" -> SwSteps(st) [] host = "cpp" -> CppSteps(st)

(* What a step may come to.  A wait reads DHCSR until it shows S_HALT.      *)
Outcomes(step) ==
  CASE step.op = "init" -> {Yes(None, SwdInit(s))}
    [] step.op = "off" -> {Yes(None, SwdOff(s))}
    [] step.op = "init_debug" -> InitDebug(s)
    [] step.op = "jtag2swd" -> JTAG2SWD(s)
    [] step.op = "abort" -> WriteReg(s, "ABORT", None)
    [] step.op = "select" -> Select(s, 0)
    [] step.op = "power" -> WriteReg(s, "CTRL_STAT", None)
    [] step.op \in {"write", "try twice", "try again"} -> WriteWord(s, step.reg, step.val)
    [] step.op = "read" -> ReadWord(s, step.reg)
    [] step.op = "wait" -> ReadWord(s, DHCSR)
    [] step.op = "assert" -> {Yes(None, IF s.wired THEN [s EXCEPT !.held = TRUE] ELSE s)}
    [] step.op = "release" ->
         {Yes(None, IF s.held THEN [AfterReset(s) EXCEPT !.held = FALSE] ELSE s)}
    [] step.op = "delay" -> IF s.resetting THEN {} ELSE {Yes(None, s)}

-----------------------------------------------------------------------------
(* The calls.                                                               *)

Atomic(call, a, n, outs(_)) ==
  /\ last = Idle
  /\ \E o \in outs(s) :
       /\ s' = o.t
       /\ last' = [Called(call, a, n) EXCEPT !.ok = o.ok, !.val = o.val]
  /\ UNCHANGED <<host, todo>>

New(c) == Cardinality(Cells) + c

Read(a, n) == Atomic("read", a, n, LAMBDA t : ReadMemory(t, a, n))
Write(a, n) ==
  Atomic("write", a, n, LAMBDA t : WriteMemory(t, a, [i \in 1 .. n |-> New(a + i - 1)]))
ReadIDR == Atomic("read_ap", 0, 0, LAMBDA t : ReadAP(t, "IDR"))
Exec == Atomic("exec", 0, 0, LAMBDA t : SyscallExec(t))
Debug == Atomic("init_debug", 0, 0, LAMBDA t : InitDebug(t))

SetState(st) ==
  /\ last = Idle
  /\ todo' = Steps(st)
  /\ last' = Called(st, 0, 0)
  /\ UNCHANGED <<host, s>>

(* A step that fails ends the call, but the first try to enable debug in    *)
(* the hw variant, which is repeated after a reset.                         *)
StateStep ==
  /\ todo # <<>>
  /\ \E o \in Outcomes(Head(todo)) :
       /\ s' = o.t
       /\ IF ~o.ok /\ Head(todo).op = "try twice"
          THEN /\ todo' = PinReset \o <<[Head(todo) EXCEPT !.op = "try again"]>> \o Tail(todo)
               /\ UNCHANGED last
          ELSE IF ~o.ok
          THEN todo' = <<>> /\ last' = [last EXCEPT !.ok = FALSE]
          ELSE /\ \/ todo' = Tail(todo) /\ (Head(todo).op = "wait" => TRUE \in ShowsHalt(o.val))
                  \/ todo' = todo /\ Head(todo).op = "wait" /\ FALSE \in ShowsHalt(o.val)
               /\ last' = [last EXCEPT !.ok = IF todo' = <<>> THEN TRUE ELSE None,
                                       !.agreed = @ \/ Head(todo).op = "init_debug"]
  /\ UNCHANGED host

(* The target by itself, before, between and, in set_target_state, within   *)
(* the calls.                                                               *)
CoreHalts ==
  /\ CanHalt(s) /\ last.ok = None
  /\ s' = HaltedByRequest(s)
  /\ UNCHANGED <<host, todo, last>>

AlgorithmEnds ==
  /\ CanEnd(s) /\ last = Idle
  /\ s' \in Ended(s)
  /\ UNCHANGED <<host, todo, last>>

ResetHappens ==
  /\ s.resetting
  /\ s' = AfterReset(s)
  /\ UNCHANGED <<host, todo, last>>

(* The next call comes later than a reset that was asked for.               *)
Forget ==
  /\ todo = <<>> /\ last # Idle /\ ~s.resetting
  /\ s' = Forgotten(s) /\ last' = Idle
  /\ UNCHANGED <<host, todo>>

Replug ==
  /\ last = Idle
  /\ s' = Replugged(s)
  /\ UNCHANGED <<host, todo, last>>

Call ==
  \/ \E x \in Accesses : Read(x[1], x[2]) \/ Write(x[1], x[2])
  \/ ReadIDR \/ Exec \/ Debug
  \/ \E st \in States : SetState(st)

Next == Call \/ StateStep \/ CoreHalts \/ AlgorithmEnds \/ ResetHappens \/ Forget \/ Replug

Spec == Init /\ [][Next]_vars

(* The code of a call goes on, and the target does what it was asked to.    *)
(* Steps may fail, but no fairness says that one will: a wait is not ended  *)
(* by a transfer that must fail in the end.                                 *)
GoesOn ==
  StateStep /\ (last'.ok = FALSE => \A o \in Outcomes(Head(todo)) : ~o.ok)

FairSpec == Spec /\ WF_vars(GoesOn) /\ WF_vars(CoreHalts) /\ WF_vars(ResetHappens)

-----------------------------------------------------------------------------
(* Properties                                                               *)

(* last describes a call that has returned, or one that is under way.       *)
TypeOK ==
  /\ s.select \in {None, 0, 1} /\ s.csw \in {None, 8, 32}
  /\ s.tselect \in {0, 1} /\ s.tcsw \in {8, 32}
  /\ s.run \in {"app", "halted", "algo", "other"}
  /\ s.given \subseteq CoreRegs
  /\ last.call \in {"none", "read", "write", "read_ap", "exec", "init_debug"} \cup States
  /\ todo # <<>> => last.call \in States /\ last.ok = None

(* What the host remembers of SELECT and CSW is what the target has, unless *)
(* a transfer has failed since swd_init_debug, or the target was exchanged: *)
(* both values are remembered before they are sent (swd_host.c:138-156,     *)
(* 191-230, 824-895).                                                       *)
CacheAgrees == ~s.trouble => Agrees(s)

(* A write that begins with a cache that agrees changes no byte beside its  *)
(* own, even if it fails; when it succeeds they are all written             *)
(* (swd_host.c:234-279, 418-470, 523-568).                                  *)
WritesExact ==
  last.call = "write" /\ last.agreed =>
    \A c \in Cells :
      IF c \in last.a .. last.a + last.n - 1
      THEN last.ok => s.mem[c] = New(c)
      ELSE s.mem[c] = c

(* A read that succeeds returns its bytes, in order, if the cache agreed    *)
(* and no answered read was repeated, which moves TAR twice                 *)
(* (swd_host.c:283-370, 434-450, 474-519; swd_iface.cpp:65-82).             *)
ReadsExact ==
  last.call = "read" /\ last.ok = TRUE /\ last.agreed /\ ~s.repeated =>
    last.val = [i \in 1 .. last.n |-> last.a + i - 1]

(* A syscall that succeeds, begun with the core halted, has run its own     *)
(* algorithm with all its arguments, and that returned 0                    *)
(* (swd_host.c:571-753).                                                    *)
SyscallRan ==
  last.call = "exec" /\ last.ok = TRUE /\ last.agreed /\ last.before.stopped /\ ~s.repeated =>
    s.given = CoreRegs /\ Halted(s) /\ s.r0 = 0

ResetWorks == host = "hw" => s.wired

(* A call of set_target_state that succeeds leaves the core in that state,  *)
(* unless since swd_init_debug a transfer has failed or the target was      *)
(* exchanged, or the reset pin does nothing                                 *)
(* (swd_host.c:912-1246, swd_iface.cpp:807-987).                            *)
StateReached ==
  last.ok = TRUE /\ ~s.trouble =>
    /\ last.call = "RESET_PROGRAM" /\ ResetWorks =>
         s.debugen /\ ~s.vc /\ Halted(s) /\ s.fresh
    /\ last.call = "HALT" => s.debugen /\ Halted(s)
    /\ last.call = "DEBUG" => s.debugen
    /\ last.call \in {"NO_DEBUG", "RUN"} => ~s.debugen /\ ~Halted(s)
    /\ last.call = "RESET_RUN" /\ ResetWorks /\ ~last.before.vc => ~Halted(s)

(* What swd_host.h:17 says of the state: "Enable debug on running target".  *)
(* It does not hold: a CSW that was remembered but not accepted makes the   *)
(* write to DHCSR one of a byte, which the core ignores, and the call       *)
(* succeeds (swd_host.c:211, 992-1021).                                     *)
DebugEnabled == last.call = "DEBUG" /\ last.ok = TRUE => s.debugen

(* A call of set_target_state returns although its waits for the core have  *)
(* no limit, unless the cache did not agree, a transfer failed, or the core *)
(* is held in reset or should be reset by a pin that does nothing           *)
(* (swd_host.c:967-973, 1036-1042, 1087-1093, 1119-1125, 1150-1156).        *)
Hopeless ==
  ~last.agreed \/ s.trouble \/ s.held \/ ~ResetWorks
StateCallsEnd == todo # <<>> ~> todo = <<>> \/ Hopeless

=============================================================================
