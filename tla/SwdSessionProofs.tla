--------------------------- MODULE SwdSessionProofs ---------------------------
(***************************************************************************)
(* Proofs about SwdSession, for every memory, word, auto-increment page,   *)
(* set of core registers and set of accesses: whatever its transfers come  *)
(* to, a call leaves what the host remembers of SELECT and CSW as true as  *)
(* it was; an access that finds it true writes its bytes and no others or  *)
(* returns the bytes it was asked for, a syscall that also finds the core  *)
(* halted runs its algorithm, and set_target_state leaves the core in the  *)
(* state it names.                                                         *)
(* A call is a set of outcomes, so each operator of SwdHost gets a lemma   *)
(* about all its outcomes.                                                 *)
(***************************************************************************)
EXTENDS SwdSession, FiniteSetTheorems, SequenceTheorems, WellFoundedInduction, TLAPS

-----------------------------------------------------------------------------
(* The states of the target                                                 *)

Fields ==
  {"select", "csw", "port", "swd", "power", "sticky", "tselect", "tcsw",
   "tar", "posted", "mem", "run", "debugen", "haltreq", "vc", "resetting",
   "held", "fresh", "dcrdr", "given", "r0", "wired", "trouble", "repeated"}

Typed(t) ==
  /\ DOMAIN t = Fields
  /\ t.select \in {None, 0, 1} /\ t.csw \in {None, 8, 32}
  /\ t.tselect \in {0, 1} /\ t.tcsw \in {8, 32}
  /\ t.run \in {"app", "halted", "algo", "other"}
  /\ t.given \subseteq CoreRegs
  /\ t.trouble \in BOOLEAN

(* CacheAgrees, of any state of the target; a read that was repeated was    *)
(* not answered with OK before.                                             *)
Sound(t) == Typed(t) /\ (~t.trouble => Agrees(t) /\ ~t.repeated)

(* All outcomes of a call are sound.                                        *)
Kept(outs) == \A o \in outs : Sound(o.t)

(* What a transfer leaves alone that is none to SELECT or CSW.              *)
Follows(t, u) ==
  /\ Typed(u)
  /\ u.select = t.select /\ u.csw = t.csw
  /\ u.tselect = t.tselect /\ u.tcsw = t.tcsw
  /\ t.trouble => u.trouble
  /\ t.repeated => u.repeated
  /\ u.repeated => t.repeated \/ u.trouble

AllFollow(t, outs) == \A o \in outs : Follows(t, o.t)

(* The core is left as it was, and its reset.                               *)
SameCore(t, u) ==
  /\ u.run = t.run /\ u.debugen = t.debugen /\ u.haltreq = t.haltreq /\ u.vc = t.vc
  /\ u.resetting = t.resetting /\ u.held = t.held /\ u.fresh = t.fresh
  /\ u.dcrdr = t.dcrdr /\ u.given = t.given /\ u.r0 = t.r0 /\ u.wired = t.wired

LEMMA FollowsSound ==
  ASSUME NEW t, NEW u, Sound(t), Follows(t, u)
  PROVE  Sound(u)
  BY DEF Sound, Follows, Agrees

LEMMA FollowsChain ==
  ASSUME NEW t, NEW u, NEW w, Follows(t, u), Follows(u, w)
  PROVE  Follows(t, w)
  BY DEF Follows

LEMMA FollowsSelf ==
  ASSUME NEW t, Typed(t)
  PROVE  Follows(t, t)
  BY DEF Follows

LEMMA AdvancedFollows ==
  ASSUME NEW t, Typed(t)
  PROVE  Follows(t, Advanced(t))
  BY DEF Follows, Typed, Advanced, Fields

LEMMA ResumedFollows ==
  ASSUME NEW t, Typed(t)
  PROVE  Follows(t, Resumed(t))
  BY DEF Follows, Typed, Resumed, Fields

LEMMA FiveAtMost ==
  ASSUME NEW a, NEW b, NEW c, NEW d, NEW e
  PROVE  Cardinality({a, b, c, d, e}) # 6
<1>1. IsFiniteSet({}) /\ Cardinality({}) = 0
  BY FS_EmptySet
<1>2. IsFiniteSet({a}) /\ Cardinality({a}) = 1
  BY FS_Singleton
<1>3. IsFiniteSet({a} \cup {b}) /\ Cardinality({a} \cup {b}) \in {1, 2}
  BY <1>2, FS_AddElement, SMT
<1>4. /\ IsFiniteSet(({a} \cup {b}) \cup {c})
      /\ Cardinality(({a} \cup {b}) \cup {c}) \in {1, 2, 3}
  BY <1>3, FS_AddElement, SMT
<1>5. /\ IsFiniteSet((({a} \cup {b}) \cup {c}) \cup {d})
      /\ Cardinality((({a} \cup {b}) \cup {c}) \cup {d}) \in {1, 2, 3, 4}
  BY <1>4, FS_AddElement, SMT
<1>6. Cardinality(((({a} \cup {b}) \cup {c}) \cup {d}) \cup {e}) \in {1, 2, 3, 4, 5}
  BY <1>5, FS_AddElement, SMT
<1>7. {a, b, c, d, e} = ((({a} \cup {b}) \cup {c}) \cup {d}) \cup {e}
  OBVIOUS
<1> QED BY <1>6, <1>7

LEMMA RegistersDiffer ==
  /\ DHCSR \notin {DEMCR, AIRCR, DCRDR, DCRSR}
  /\ DEMCR \notin {AIRCR, DCRDR, DCRSR}
  /\ AIRCR \notin {DCRDR, DCRSR} /\ DCRDR # DCRSR
  /\ None \notin Registers
<1> DEFINE S == {DHCSR, DEMCR, AIRCR, DCRDR, DCRSR, None}
<1>1. Cardinality(S) = 6
  <2>1. S = Registers \cup {None}
    BY DEF Registers
  <2> QED BY <2>1, SwdTargetAssumption
<1>2. ASSUME NEW a, NEW b, NEW c, NEW d, NEW e, S = {a, b, c, d, e}
      PROVE  FALSE
  <2> HIDE DEF S
  <2> QED BY <1>1, <1>2, FiveAtMost
<1>3. /\ DHCSR \notin {DEMCR, AIRCR, DCRDR, DCRSR, None}
      /\ DEMCR \notin {AIRCR, DCRDR, DCRSR, None}
  <2>1. DHCSR \in {DEMCR, AIRCR, DCRDR, DCRSR, None} => S = {DEMCR, AIRCR, DCRDR, DCRSR, None}
    OBVIOUS
  <2>2. DEMCR \in {AIRCR, DCRDR, DCRSR, None} => S = {DHCSR, AIRCR, DCRDR, DCRSR, None}
    OBVIOUS
  <2> HIDE DEF S
  <2> QED BY <1>2, <2>1, <2>2
<1>4. AIRCR \notin {DCRDR, DCRSR, None} /\ DCRDR \notin {DCRSR, None} /\ DCRSR # None
  <2>1. AIRCR \in {DCRDR, DCRSR, None} => S = {DHCSR, DEMCR, DCRDR, DCRSR, None}
    OBVIOUS
  <2>2. DCRDR \in {DCRSR, None} => S = {DHCSR, DEMCR, AIRCR, DCRSR, None}
    OBVIOUS
  <2>3. DCRSR = None => S = {DHCSR, DEMCR, AIRCR, DCRDR, None}
    OBVIOUS
  <2> HIDE DEF S
  <2> QED BY <1>2, <2>1, <2>2, <2>3
<1> QED BY <1>3, <1>4 DEF Registers

(* A word that is written names a core register when it goes to DCRSR.      *)
Names(t, v) == t.tselect = 0 /\ t.tar = DCRSR /\ v.write => v.reg \in CoreRegs

LEMMA RegWriteFollows ==
  ASSUME NEW t, Typed(t), NEW reg \in Registers, NEW v,
         reg = DCRSR /\ v.write => v.reg \in CoreRegs
  PROVE  \A u \in RegWrite(t, reg, v) : Follows(t, u)
<1> USE RegistersDiffer
<1>2. CASE reg = DHCSR
  <2> DEFINE u == [t EXCEPT !.debugen = "C_DEBUGEN" \in v]
  <2>1. RegWrite(t, reg, v) =
          {IF {"C_DEBUGEN", "C_HALT"} \subseteq v THEN [u EXCEPT !.haltreq = TRUE] ELSE Resumed(u)}
    BY <1>2 DEF RegWrite
  <2>2. Follows(t, u)
    BY DEF Follows, Typed, Fields
  <2>3. Follows(t, [u EXCEPT !.haltreq = TRUE])
    BY DEF Follows, Typed, Fields
  <2>4. Follows(u, Resumed(u))
    BY <2>2, ResumedFollows DEF Follows
  <2> HIDE DEF u
  <2> QED BY <2>1, <2>2, <2>3, <2>4, FollowsChain
<1>3. CASE reg = DEMCR
  <2>1. RegWrite(t, reg, v) = {[t EXCEPT !.vc = "VC_CORERESET" \in v]}
    BY <1>3 DEF RegWrite, Registers
  <2> QED BY <2>1 DEF Follows, Typed, Fields
<1>4. CASE reg = AIRCR
  <2>1. RegWrite(t, reg, v) = {[t EXCEPT !.resetting = TRUE]}
    BY <1>4 DEF RegWrite, Registers
  <2> QED BY <2>1 DEF Follows, Typed, Fields
<1>5. CASE reg = DCRDR
  <2>1. RegWrite(t, reg, v) = {[t EXCEPT !.dcrdr = <<"arg", v>>]}
    BY <1>5 DEF RegWrite, Registers
  <2> QED BY <2>1 DEF Follows, Typed, Fields
<1>6. CASE reg = DCRSR /\ v.write
  <2>1. \A u \in RegWrite(t, reg, v) : u = t \/ u = RegisterTaken(t, v.reg)
    BY <1>6 DEF RegWrite, Registers
  <2>2. Follows(t, RegisterTaken(t, v.reg))
    BY <1>6 DEF Follows, Typed, Fields, RegisterTaken
  <2> QED BY <2>1, <2>2, FollowsSelf
<1>7. CASE reg = DCRSR /\ ~v.write
  <2>1. \A u \in RegWrite(t, reg, v) :
           u = [t EXCEPT !.dcrdr = IF Halted(t) THEN <<"r0", t.r0>> ELSE Junk]
    BY <1>7 DEF RegWrite, Registers
  <2> QED BY <2>1 DEF Follows, Typed, Fields
<1> QED BY <1>2, <1>3, <1>4, <1>5, <1>6, <1>7 DEF Registers

LEMMA StoredFollows ==
  ASSUME NEW t, Typed(t), NEW v, t.tar = DCRSR /\ v.write => v.reg \in CoreRegs
  PROVE  \A u \in Stored(t, v) : Follows(t, u)
<1>1. CASE t.tar \in Cells
  <2> DEFINE m == [c \in Cells |-> IF c \in Driven(t) THEN v[c % Word] ELSE t.mem[c]]
             u == [t EXCEPT !.mem = m]
  <2>1. Stored(t, v) = {Advanced(u)}
    BY <1>1 DEF Stored
  <2> HIDE DEF m
  <2>2. Follows(t, u)
    BY DEF Follows, Typed, Fields
  <2>3. Follows(u, Advanced(u))
    BY <2>2, AdvancedFollows DEF Follows
  <2> HIDE DEF u
  <2> QED BY <2>1, <2>2, <2>3, FollowsChain
<1>2. CASE t.tar \notin Cells /\ t.tar \in Registers /\ t.tcsw = 32
  <2>1. Stored(t, v) = {Advanced(u) : u \in RegWrite(t, t.tar, v)}
    BY <1>2 DEF Stored
  <2>2. \A u \in RegWrite(t, t.tar, v) : Follows(t, u)
    BY <1>2, RegWriteFollows
  <2>3. \A u \in RegWrite(t, t.tar, v) : Follows(u, Advanced(u))
    BY <2>2, AdvancedFollows DEF Follows
  <2> QED BY <2>1, <2>2, <2>3, FollowsChain
<1>3. CASE t.tar \notin Cells /\ ~(t.tar \in Registers /\ t.tcsw = 32)
  <2>1. Stored(t, v) = {Advanced(t)}
    BY <1>3 DEF Stored
  <2> QED BY <2>1, AdvancedFollows
<1> QED BY <1>1, <1>2, <1>3

LEMMA BusErrorFollows ==
  ASSUME NEW t, Typed(t)
  PROVE  \A u \in BusError(t) : Follows(t, u)
  BY DEF BusError, Follows, Typed, Fields

LEMMA FetchedFollows ==
  ASSUME NEW t, Typed(t)
  PROVE  Follows(t, Fetched(t))
<1> DEFINE p == IF t.tar \in Cells
    THEN LanesOf([lane \in 0 .. Word - 1 |->
            IF Aligned(t.tar) + lane \in Driven(t) THEN t.mem[Aligned(t.tar) + lane] ELSE None])
    ELSE IF t.tar \in Registers /\ t.tcsw = 32 THEN RegRead(t, t.tar)
    ELSE Junk
           u == [t EXCEPT !.posted = p]
<1>1. Fetched(t) = Advanced(u)
  BY DEF Fetched
<1> HIDE DEF p
<1>2. Follows(t, u)
  BY DEF Follows, Typed, Fields
<1>3. Follows(u, Advanced(u))
  BY <1>2, AdvancedFollows DEF Follows
<1> HIDE DEF u
<1> QED BY <1>1, <1>2, <1>3, FollowsChain

LEMMA WrittenFollows ==
  ASSUME NEW t, Typed(t), NEW reg \in {"ABORT", "CTRL_STAT", "TAR", "DRW"}, NEW v,
         reg = "DRW" => Names(t, v)
  PROVE  \A u \in Written(t, reg, v) : Follows(t, u)
<1>1. CASE reg = "ABORT"
  BY <1>1 DEF Written, Follows, Typed, Fields
<1>2. CASE reg = "CTRL_STAT"
  BY <1>2 DEF Written, Follows, Typed, Fields
<1>3. CASE reg \in {"TAR", "DRW"} /\ t.tselect # 0
  BY <1>3, FollowsSelf DEF Written
<1>4. CASE reg = "TAR" /\ t.tselect = 0
  BY <1>4 DEF Written, Follows, Typed, Fields
<1>5. CASE reg = "DRW" /\ t.tselect = 0
  <2>1. Written(t, reg, v) = Stored(t, v) \cup BusError(t)
    BY <1>5 DEF Written
  <2> QED BY <1>5, <2>1, StoredFollows, BusErrorFollows DEF Names
<1> QED BY <1>1, <1>2, <1>3, <1>4, <1>5

Readable == {"DRW", "IDR", "RDBUFF", "IDCODE", "CTRL_STAT"}

LEMMA AnswersFollow ==
  ASSUME NEW t, Typed(t), NEW reg \in Readable
  PROVE  \A a \in Answers(t, reg) : Follows(t, a.t)
<1>1. CASE reg = "DRW"
  <2>1. \A a \in Answers(t, reg) :
           a.t = [t EXCEPT !.posted = Junk] \/ a.t = Fetched(t) \/ a.t \in BusError(t)
    BY <1>1 DEF Answers
  <2>2. Follows(t, [t EXCEPT !.posted = Junk])
    BY DEF Follows, Typed, Fields
  <2> QED BY <2>1, <2>2, FetchedFollows, BusErrorFollows
<1>2. CASE reg = "IDR"
  <2>1. \A a \in Answers(t, reg) :
           a.t = [t EXCEPT !.posted = IF t.tselect = 1 THEN <<"IDR">> ELSE Junk]
    BY <1>2 DEF Answers
  <2> QED BY <2>1 DEF Follows, Typed, Fields
<1>3. CASE reg \in {"RDBUFF", "IDCODE", "CTRL_STAT"}
  <2>1. \A a \in Answers(t, reg) : a.t = t
    BY <1>3 DEF Answers
  <2> QED BY <2>1, FollowsSelf
<1> QED BY <1>1, <1>2, <1>3 DEF Readable

-----------------------------------------------------------------------------
(* Transfers                                                                *)

LEMMA OutcomeFields ==
  ASSUME NEW v, NEW t
  PROVE  /\ Yes(v, t).ok /\ Yes(v, t).val = v /\ Yes(v, t).t = t
         /\ ~No(t).ok /\ No(t).t = t
  BY DEF Yes, No

(* How a write to a register ends.                                          *)
LEMMA WriteRegEnds ==
  ASSUME NEW t, NEW reg, NEW v
  PROVE  \A o \in WriteReg(t, reg, v) :
           \/ ~o.ok /\ o.t = [t EXCEPT !.trouble = TRUE]
           \/ o.ok /\ o.t \in Written(t, reg, v)
<1> DEFINE failed == [t EXCEPT !.trouble = TRUE]
           good == {Yes(None, u) : u \in Written(t, reg, v)}
<1>1. WriteReg(t, reg, v) = {No(failed)} \cup (IF Answering(t, reg) THEN good ELSE {})
  BY DEF WriteReg
<1>2. \A o \in good : \E u \in Written(t, reg, v) : o = Yes(None, u)
  OBVIOUS
<1>3. \A o \in good : o.ok /\ o.t \in Written(t, reg, v)
  <2> HIDE DEF good
  <2> QED BY <1>2, OutcomeFields
<1>4. ~No(failed).ok /\ No(failed).t = failed
  BY DEF No
<1> HIDE DEF good, failed
<1>5. \A o \in WriteReg(t, reg, v) :
         (~o.ok /\ o.t = failed) \/ (o.ok /\ o.t \in Written(t, reg, v))
  BY <1>1, <1>3, <1>4
<1> QED BY <1>5 DEF failed

LEMMA WriteRegFollows ==
  ASSUME NEW t, Typed(t), NEW reg \in {"ABORT", "CTRL_STAT", "TAR", "DRW"}, NEW v,
         reg = "DRW" => Names(t, v)
  PROVE  AllFollow(t, WriteReg(t, reg, v))
<1>1. Follows(t, [t EXCEPT !.trouble = TRUE])
  BY DEF Follows, Typed, Fields
<1> QED BY <1>1, WriteRegEnds, WrittenFollows DEF AllFollow

LEMMA ReadRegFollows ==
  ASSUME NEW t, Typed(t), NEW reg \in Readable
  PROVE  AllFollow(t, ReadReg(t, reg))
<1> DEFINE failed(u) == [u EXCEPT !.trouble = TRUE]
           again(u) == [failed(u) EXCEPT !.repeated = TRUE]
<1>0. ReadReg(t, reg) =
        {No(failed(t))} \cup
        (IF ~Answering(t, reg) THEN {}
         ELSE UNION {{Yes(a.val, a.t), No(failed(a.t))} \cup
                     (IF host = "cpp" /\ Answering(a.t, reg)
                      THEN {Yes(b.val, again(b.t)) : b \in Answers(a.t, reg)} ELSE {})
                     : a \in Answers(t, reg)})
  BY DEF ReadReg
<1>a. \A u : Typed(u) => Follows(u, failed(u)) /\ Follows(u, again(u))
  BY DEF Follows, Typed, Fields
<1> HIDE DEF failed, again
<1>1. \A o \in ReadReg(t, reg) :
         \/ o.t = failed(t)
         \/ \E a \in Answers(t, reg) :
              \/ o.t = a.t \/ o.t = failed(a.t)
              \/ \E b \in Answers(a.t, reg) : o.t = again(b.t)
  BY <1>0, OutcomeFields
<1>2. \A u : Typed(u) => Follows(u, failed(u)) /\ Follows(u, again(u))
  BY <1>a
<1>3. \A a \in Answers(t, reg) : Follows(t, a.t) /\ Typed(a.t)
  BY AnswersFollow DEF Follows
<1>4. \A a \in Answers(t, reg) : \A b \in Answers(a.t, reg) :
         Follows(a.t, b.t) /\ Typed(b.t)
  BY <1>3, AnswersFollow DEF Follows
<1>5. ASSUME NEW o \in ReadReg(t, reg)
      PROVE  Follows(t, o.t)
  <2>1. CASE o.t = failed(t)
    BY <1>2, <2>1
  <2>2. ASSUME NEW a \in Answers(t, reg), o.t = a.t \/ o.t = failed(a.t)
        PROVE  Follows(t, o.t)
    BY <1>2, <1>3, <2>2, FollowsChain
  <2>3. ASSUME NEW a \in Answers(t, reg), NEW b \in Answers(a.t, reg), o.t = again(b.t)
        PROVE  Follows(t, o.t)
    <3>1. Follows(t, b.t)
      BY <1>3, <1>4, FollowsChain
    <3> QED BY <1>2, <1>4, <2>3, <3>1, FollowsChain
  <2> QED BY <1>1, <2>1, <2>2, <2>3
<1> QED BY <1>1, <1>5 DEF AllFollow

LEMMA ConfirmFollows ==
  ASSUME NEW t, Typed(t)
  PROVE  AllFollow(t, Confirm(t))
  BY ReadRegFollows DEF Confirm, Readable

-----------------------------------------------------------------------------
(* The host's cache                                                         *)

(* What Select leaves when it succeeds.                                     *)
Selected(t, bank) == t.select = bank /\ (~t.trouble => t.tselect = bank)

LEMMA SelectKeeps ==
  ASSUME NEW t, Sound(t), NEW bank \in {0, 1}
  PROVE  \A o \in Select(t, bank) :
           Sound(o.t) /\ (o.ok => Selected(o.t, bank)) /\ o.t.tcsw = t.tcsw /\ o.t.csw = t.csw
<1> DEFINE u == [t EXCEPT !.select = bank]
<1>1. CASE t.select = bank
  <2>1. Select(t, bank) = {Yes(None, t)}
    BY <1>1 DEF Select
  <2>2. Selected(t, bank)
    BY <1>1, SwdTargetAssumption DEF Selected, Sound, Agrees
  <2> QED BY <2>1, <2>2, OutcomeFields
<1>2. CASE t.select # bank
  <2>1. Select(t, bank) = WriteReg(u, "SELECT", bank)
    BY <1>2 DEF Select
  <2>2. Typed(u) /\ u.select = bank /\ u.csw = t.csw /\ u.tcsw = t.tcsw /\ u.tselect = t.tselect
        /\ u.trouble = t.trouble /\ (~u.trouble => ~u.repeated)
    BY DEF Sound, Typed, Fields
  <2>3. Written(u, "SELECT", bank) = {[u EXCEPT !.tselect = bank]}
    BY DEF Written
  <2> HIDE DEF u
  <2> DEFINE w == [u EXCEPT !.tselect = bank]
             f == [u EXCEPT !.trouble = TRUE]
  <2>4. Sound(w) /\ Selected(w, bank) /\ w.tcsw = t.tcsw /\ w.csw = t.csw
    BY <2>2 DEF Sound, Typed, Fields, Selected, Agrees
  <2>5. Sound(f) /\ f.tcsw = t.tcsw /\ f.csw = t.csw
    BY <2>2 DEF Sound, Typed, Fields
  <2> HIDE DEF w, f
  <2>6. \A o \in WriteReg(u, "SELECT", bank) : (~o.ok /\ o.t = f) \/ (o.ok /\ o.t = w)
    BY <2>3, WriteRegEnds DEF w, f
  <2> QED BY <2>1, <2>4, <2>5, <2>6
<1> QED BY <1>1, <1>2

(* What SetCSW leaves when it succeeds.                                     *)
Ready(t, size) == Selected(t, 0) /\ t.csw = size /\ (~t.trouble => t.tcsw = size)

LEMMA ReadyFollows ==
  ASSUME NEW t, NEW u, NEW size, Ready(t, size), Follows(t, u)
  PROVE  Ready(u, size)
  BY DEF Ready, Selected, Follows

LEMMA SetCSWKeeps ==
  ASSUME NEW t, Sound(t), NEW size \in {8, 32}
  PROVE  \A o \in SetCSW(t, size) : Sound(o.t) /\ (o.ok => Ready(o.t, size))
<1> DEFINE C(u) == Then(WriteReg([u EXCEPT !.csw = size], "CSW", size), LAMBDA w, x : Confirm(x))
           B(u) == IF u.csw = size THEN {Yes(None, u)} ELSE C(u)
<1>1. \A o \in SetCSW(t, size) :
        \E p \in Select(t, 0) : (p.ok /\ o \in B(p.t)) \/ (~p.ok /\ o = p)
  <2>1. SetCSW(t, size) = UNION {IF o.ok THEN B(o.t) ELSE {o} : o \in Select(t, 0)}
    BY DEF SetCSW, Then
  <2> HIDE DEF B
  <2> QED BY <2>1
<1>2. ASSUME NEW u, Sound(u), Selected(u, 0), NEW o \in B(u)
      PROVE  Sound(o.t) /\ (o.ok => Ready(o.t, size))
  <2>1. CASE u.csw = size
    <3>1. o = Yes(None, u)
      BY <2>1, <1>2
    <3>2. Ready(u, size)
      BY <1>2, <2>1, SwdTargetAssumption DEF Ready, Sound, Agrees
    <3>3. o.t = u
      BY <3>1 DEF Yes
    <3> QED BY <1>2, <3>2, <3>3
  <2>2. CASE u.csw # size
    <3> DEFINE n == [u EXCEPT !.csw = size]
               f == [n EXCEPT !.trouble = TRUE]
               w == [n EXCEPT !.tcsw = size]
    <3>1. o \in C(u)
      BY <2>2, <1>2
    <3>2. \E p \in WriteReg(n, "CSW", size) : (p.ok /\ o \in Confirm(p.t)) \/ (~p.ok /\ o = p)
      BY <3>1 DEF Then
    <3>3. /\ Typed(n) /\ n.select = 0 /\ n.csw = size /\ n.tselect = u.tselect
          /\ n.trouble = u.trouble /\ (~n.trouble => n.tselect = 0 /\ ~n.repeated)
      BY <1>2 DEF Sound, Selected, Typed, Fields
    <3> HIDE DEF n, C, B
    <3>4. Sound(f)
      BY <3>3 DEF Sound, Typed, Fields
    <3>5. n.trouble => Sound(n) /\ Ready(n, size)
      BY <3>3 DEF Sound, Ready, Selected, Typed
    <3>6. Sound(w) /\ Ready(w, size)
      BY <3>3 DEF Sound, Typed, Fields, Ready, Selected, Agrees
    <3>7. \A x \in Written(n, "CSW", size) : (n.tselect # 0 /\ x = n) \/ x = w
      BY DEF Written
    <3>8. ASSUME NEW p \in WriteReg(n, "CSW", size)
          PROVE  Sound(p.t) /\ (p.ok => Ready(p.t, size))
      BY <3>3, <3>4, <3>5, <3>6, <3>7, WriteRegEnds
    <3>9. \A p \in WriteReg(n, "CSW", size) : p.ok =>
             \A q \in Confirm(p.t) : Sound(q.t) /\ Ready(q.t, size)
      BY <3>8, ConfirmFollows, FollowsSound, ReadyFollows DEF AllFollow, Sound
    <3> QED BY <3>2, <3>8, <3>9
  <2> QED BY <2>1, <2>2
<1>3. \A p \in Select(t, 0) : Sound(p.t) /\ (p.ok => Selected(p.t, 0))
  BY SelectKeeps
<1> HIDE DEF B
<1> QED BY <1>1, <1>2, <1>3

-----------------------------------------------------------------------------
(* Memory                                                                   *)

LEMMA WriteDataFollows ==
  ASSUME NEW t, Typed(t), NEW a, NEW v, a = DCRSR /\ v.write => v.reg \in CoreRegs
  PROVE  AllFollow(t, WriteData(t, a, v))
<1>1. \A o \in WriteData(t, a, v) :
        \E p \in WriteReg(t, "TAR", a) :
          \/ ~p.ok /\ o = p
          \/ p.ok /\ \E q \in WriteReg(p.t, "DRW", v) :
               (q.ok /\ o \in Confirm(q.t)) \/ (~q.ok /\ o = q)
  BY DEF WriteData, Then
<1>2. \A p \in WriteReg(t, "TAR", a) : Follows(t, p.t)
  BY WriteRegFollows DEF AllFollow
<1>3. \A p \in WriteReg(t, "TAR", a) : p.ok => Names(p.t, v)
  <2>1. \A u \in Written(t, "TAR", a) : u.tselect = 0 => u.tar = a
    BY DEF Written, Typed, Fields
  <2> QED BY <2>1, WriteRegEnds DEF Names
<1>4. \A p \in WriteReg(t, "TAR", a) : p.ok =>
        \A q \in WriteReg(p.t, "DRW", v) : Follows(t, q.t)
  BY <1>2, <1>3, WriteRegFollows, FollowsChain DEF AllFollow, Follows
<1>5. \A p \in WriteReg(t, "TAR", a) : p.ok =>
        \A q \in WriteReg(p.t, "DRW", v) : \A o \in Confirm(q.t) : Follows(t, o.t)
  BY <1>4, ConfirmFollows, FollowsChain DEF AllFollow, Follows
<1> QED BY <1>1, <1>2, <1>4, <1>5 DEF AllFollow

LEMMA ReadDataFollows ==
  ASSUME NEW t, Typed(t), NEW a
  PROVE  AllFollow(t, ReadData(t, a))
<1>1. \A o \in ReadData(t, a) :
        \E p \in WriteReg(t, "TAR", a) :
          \/ ~p.ok /\ o = p
          \/ p.ok /\ \E q \in ReadReg(p.t, "DRW") :
               (q.ok /\ o \in Confirm(q.t)) \/ (~q.ok /\ o = q)
  BY DEF ReadData, Then
<1>2. \A p \in WriteReg(t, "TAR", a) : Follows(t, p.t)
  BY WriteRegFollows DEF AllFollow
<1>3. \A p \in WriteReg(t, "TAR", a) :
        \A q \in ReadReg(p.t, "DRW") : Follows(t, q.t)
  BY <1>2, ReadRegFollows, FollowsChain DEF AllFollow, Follows, Readable
<1>4. \A p \in WriteReg(t, "TAR", a) :
        \A q \in ReadReg(p.t, "DRW") : \A o \in Confirm(q.t) : Follows(t, o.t)
  BY <1>3, ConfirmFollows, FollowsChain DEF AllFollow, Follows
<1> QED BY <1>1, <1>2, <1>3, <1>4 DEF AllFollow

LEMMA WriteWordKeeps ==
  ASSUME NEW t, Sound(t), NEW a, NEW v, a = DCRSR /\ v.write => v.reg \in CoreRegs
  PROVE  Kept(WriteWord(t, a, v))
<1>1. \A o \in WriteWord(t, a, v) :
        \E p \in SetCSW(t, 32) : (p.ok /\ o \in WriteData(p.t, a, v)) \/ (~p.ok /\ o = p)
  BY DEF WriteWord, Then
<1>2. \A p \in SetCSW(t, 32) : Sound(p.t)
  BY SetCSWKeeps
<1> QED BY <1>1, <1>2, WriteDataFollows, FollowsSound DEF Kept, AllFollow, Sound

LEMMA ReadWordKeeps ==
  ASSUME NEW t, Sound(t), NEW a
  PROVE  Kept(ReadWord(t, a))
<1>1. \A o \in ReadWord(t, a) :
        \E p \in SetCSW(t, 32) : (p.ok /\ o \in ReadData(p.t, a)) \/ (~p.ok /\ o = p)
  BY DEF ReadWord, Then
<1>2. \A p \in SetCSW(t, 32) : Sound(p.t)
  BY SetCSWKeeps
<1> QED BY <1>1, <1>2, ReadDataFollows, FollowsSound DEF Kept, AllFollow, Sound

LEMMA WriteByteKeeps ==
  ASSUME NEW t, Sound(t), NEW a \in Cells, NEW v
  PROVE  Kept(WriteByte(t, a, v))
<1> DEFINE w == [lane \in 0 .. Word - 1 |-> IF lane = a % Word THEN v ELSE 0]
<1>1. \A o \in WriteByte(t, a, v) :
        \E p \in SetCSW(t, 8) : (p.ok /\ o \in WriteData(p.t, a, w)) \/ (~p.ok /\ o = p)
  BY DEF WriteByte, Then
<1>2. \A p \in SetCSW(t, 8) : Sound(p.t)
  BY SetCSWKeeps
<1>3. a # DCRSR
  BY SwdTargetAssumption DEF Registers
<1> HIDE DEF w
<1> QED BY <1>1, <1>2, <1>3, WriteDataFollows, FollowsSound DEF Kept, AllFollow, Sound

LEMMA ReadByteKeeps ==
  ASSUME NEW t, Sound(t), NEW a
  PROVE  Kept(ReadByte(t, a))
<1> DEFINE D == Then(SetCSW(t, 8), LAMBDA x, u : ReadData(u, a))
<1>1. \A o \in D :
        \E p \in SetCSW(t, 8) : (p.ok /\ o \in ReadData(p.t, a)) \/ (~p.ok /\ o = p)
  BY DEF Then
<1>2. \A p \in SetCSW(t, 8) : Sound(p.t)
  BY SetCSWKeeps
<1>3. Kept(D)
  <2> HIDE DEF D
  <2> QED BY <1>1, <1>2, ReadDataFollows, FollowsSound DEF Kept, AllFollow, Sound
<1>4. ReadByte(t, a) = Then(D, LAMBDA v, u : {Yes(<<Lane(v, a % Word)>>, u)})
  BY DEF ReadByte
<1> HIDE DEF D
<1>5. \A o \in ReadByte(t, a) :
        \E p \in D : o = Yes(<<Lane(p.val, a % Word)>>, p.t) \/ o = p
  BY <1>4 DEF Then
<1>6. \A o \in ReadByte(t, a) : \E p \in D : o.t = p.t
  BY <1>5 DEF Yes
<1> QED BY <1>3, <1>6 DEF Kept

LEMMA ReadAPKeeps ==
  ASSUME NEW t, Sound(t), NEW reg \in Readable
  PROVE  Kept(ReadAP(t, reg))
<1>1. \A o \in ReadAP(t, reg) :
        \E p \in Select(t, 1) :
          \/ p.ok /\ \E q \in ReadReg(p.t, reg) : o \in ReadReg(q.t, reg)
          \/ ~p.ok /\ o = p
  BY DEF ReadAP, Then
<1>2. \A p \in Select(t, 1) : Sound(p.t)
  BY SelectKeeps
<1>3. \A p \in Select(t, 1) : \A q \in ReadReg(p.t, reg) : Sound(q.t)
  BY <1>2, ReadRegFollows, FollowsSound DEF AllFollow, Sound
<1>4. \A p \in Select(t, 1) : \A q \in ReadReg(p.t, reg) :
        \A o \in ReadReg(q.t, reg) : Sound(o.t)
  BY <1>3, ReadRegFollows, FollowsSound DEF AllFollow, Sound
<1> QED BY <1>1, <1>2, <1>4 DEF Kept

-----------------------------------------------------------------------------
(* Folds                                                                    *)

(* What each fold of the model does with the outcomes so far, by the data p *)
(* of the call and an element x of its sequence.                            *)
FoldStep(kind, p, outs, x) ==
  CASE kind = "put" -> Then(outs, LAMBDA y, w : WriteReg(w, "DRW", WordAt(p, x)))
    [] kind = "get" ->
         Then(outs, LAMBDA got, u :
           Then(ReadReg(u, "DRW"), LAMBDA v, w : {Yes(got \o Lanes(v), w)}))
    [] kind = "read" ->
         Then(outs, LAMBDA got, u :
           Then(IF x.byte THEN ReadByte(u, x.a) ELSE ReadBlock(u, x.a, x.n),
                LAMBDA v, w : {Yes(got \o v, w)}))
    [] kind = "write" ->
         Then(outs, LAMBDA y, u :
           IF x.byte THEN WriteByte(u, x.a, p.data[x.a - p.addr + 1])
           ELSE WriteBlock(u, x.a, SubSeq(p.data, x.a - p.addr + 1, x.a - p.addr + x.n)))
    [] kind = "register" -> Then(outs, LAMBDA y, u : WriteCoreRegister(u, x))

FoldIter(kind, p, base, seq, n, g) ==
  g = [S \in SUBSET (1 .. n) |->
         IF S = {} THEN base ELSE FoldStep(kind, p, g[S \ {Max(S)}], seq[Max(S)])]

(* Induction by the least counterexample.                                   *)

LEMMA NatMin ==
  ASSUME NEW T, T \subseteq Nat, T # {}
  PROVE  \E x \in T : \A y \in T : x <= y
<1>1. IsWellFoundedOn(OpToRel(<, Nat), Nat)
  BY NatLessThanWellFounded
<1>2. PICK x \in T : \A y \in T : ~ (<<y, x>> \in OpToRel(<, Nat))
  BY <1>1, WFMin
<1>3. ASSUME NEW y \in T PROVE x <= y
  <2>1. ~(y < x)
    <3>1. ASSUME y < x PROVE <<y, x>> \in OpToRel(<, Nat)
      BY <3>1 DEF OpToRel
    <3> QED BY <1>2, <3>1
  <2> QED BY <2>1
<1> QED BY <1>3

(* What is so at 0 and goes on is so everywhere up to m.                    *)
LEMMA Induction ==
  ASSUME NEW m \in Nat, NEW T, 0 \in T,
         \A i \in 0 .. m : i + 1 \in 0 .. m /\ i \in T => i + 1 \in T
  PROVE  0 .. m \subseteq T
<1> DEFINE Bad == {i \in 0 .. m : i \notin T}
<1>1. SUFFICES ASSUME Bad # {} PROVE FALSE
  OBVIOUS
<1>2. Bad \subseteq Nat
  OBVIOUS
<1>3. PICK x \in Bad : \A y \in Bad : x <= y
  <2> HIDE DEF Bad
  <2> QED BY <1>1, <1>2, NatMin
<1>4. x \in 0 .. m /\ x # 0 /\ x \notin T
  OBVIOUS
<1>5. PICK n \in 0 .. m : x = n + 1
  <2>1. x - 1 \in 0 .. m /\ x = (x - 1) + 1
    BY <1>4
  <2> QED BY <2>1
<1>6. n \notin Bad
  <2>1. ~(x <= n)
    BY <1>4, <1>5
  <2> QED BY <1>3, <2>1
<1>7. n \in T
  BY <1>6
<1> QED BY <1>4, <1>5, <1>7

LEMMA MaxOfUpTo ==
  ASSUME NEW n \in Nat, NEW S \in SUBSET (1 .. n + 1), n + 1 \in S
  PROVE  Max(S) = n + 1
<1>1. \A y \in S : n + 1 >= y
  OBVIOUS
<1>2. \E x \in S : \A y \in S : x >= y
  BY <1>1
<1>3. Max(S) \in S /\ \A y \in S : Max(S) >= y
  BY <1>2 DEF Max
<1>4. Max(S) \in 1 .. n + 1 /\ Max(S) >= n + 1
  BY <1>3
<1> QED BY <1>4

LEMMA FoldExists ==
  ASSUME NEW kind, NEW p, NEW base, NEW seq, NEW n \in Nat
  PROVE  \E g : FoldIter(kind, p, base, seq, n, g)
<1> DEFINE St(S, x) == IF S = {} THEN base ELSE FoldStep(kind, p, x, seq[Max(S)])
           T == {m \in Nat : \E g : g = [S \in SUBSET (1 .. m) |-> St(S, g[S \ {Max(S)}])]}
<1>1. 0 \in T
  <2> DEFINE g == [S \in SUBSET (1 .. 0) |-> base]
  <2>1. \A S \in SUBSET (1 .. 0) : \A x : St(S, x) = base
    OBVIOUS
  <2> HIDE DEF St
  <2>2. g = [S \in SUBSET (1 .. 0) |-> St(S, g[S \ {Max(S)}])]
    BY <2>1
  <2> HIDE DEF g
  <2> QED BY <2>2
<1>2. ASSUME NEW m \in 0 .. n, m \in T
      PROVE  m + 1 \in T
  <2> HIDE DEF St
  <2>1. PICK g : g = [S \in SUBSET (1 .. m) |-> St(S, g[S \ {Max(S)}])]
    BY <1>2
  <2>2. m \in Nat /\ m + 1 \in Nat
    OBVIOUS
  <2>a. \A S \in SUBSET (1 .. m) : g[S] = St(S, g[S \ {Max(S)}])
    BY <2>1, Zenon
  <2> DEFINE h == [S \in SUBSET (1 .. m + 1) |->
                     IF m + 1 \in S THEN St(S, g[S \ {m + 1}]) ELSE g[S]]
  <2>3. \A S \in SUBSET (1 .. m) : S \in SUBSET (1 .. m + 1) /\ m + 1 \notin S
    BY <2>2
  <2>4. \A S \in SUBSET (1 .. m) : h[S] = g[S]
    BY <2>3
  <2>5. ASSUME NEW S \in SUBSET (1 .. m + 1)
        PROVE  h[S] = St(S, h[S \ {Max(S)}])
    <3>1. CASE m + 1 \in S
      <4>1. Max(S) = m + 1
        BY <2>2, <3>1, MaxOfUpTo
      <4>2. S \ {m + 1} \in SUBSET (1 .. m)
        BY <2>2
      <4>3. h[S] = St(S, g[S \ {m + 1}])
        BY <3>1
      <4> HIDE DEF h
      <4> QED BY <2>4, <4>1, <4>2, <4>3
    <3>2. CASE m + 1 \notin S
      <4>0. ASSUME NEW x \in S PROVE x \in 1 .. m
        <5>1. x \in 1 .. m + 1 /\ x # m + 1
          BY <3>2
        <5> QED BY <2>2, <5>1
      <4>1. S \in SUBSET (1 .. m) /\ S \ {Max(S)} \in SUBSET (1 .. m)
        BY <4>0
      <4> HIDE DEF h
      <4> QED BY <2>a, <2>4, <4>1
    <3> QED BY <3>1, <3>2
  <2>6. h = [S \in SUBSET (1 .. m + 1) |-> h[S]]
    OBVIOUS
  <2> HIDE DEF h
  <2>7. h = [S \in SUBSET (1 .. m + 1) |-> St(S, h[S \ {Max(S)}])]
    BY <2>5, <2>6
  <2> QED BY <2>2, <2>7
<1> HIDE DEF T
<1>3. n \in T
  BY <1>1, <1>2, Induction
<1> QED BY <1>3 DEF FoldIter, T

Unrolled(kind, p, base, seq, n, g) ==
  /\ g[{}] = base
  /\ \A m \in 0 .. n : m + 1 \in 0 .. n =>
       g[1 .. m + 1] = FoldStep(kind, p, g[1 .. m], seq[m + 1])

LEMMA FoldUnrolls ==
  ASSUME NEW kind, NEW p, NEW base, NEW seq, NEW n \in Nat, NEW g,
         FoldIter(kind, p, base, seq, n, g)
  PROVE  Unrolled(kind, p, base, seq, n, g)
<1>1. \A S \in SUBSET (1 .. n) :
         g[S] = IF S = {} THEN base ELSE FoldStep(kind, p, g[S \ {Max(S)}], seq[Max(S)])
  BY Zenon DEF FoldIter
<1>2. 1 .. 0 = {} /\ {} \in SUBSET (1 .. n)
  OBVIOUS
<1>3. ASSUME NEW m \in 0 .. n, m + 1 \in 0 .. n
      PROVE  g[1 .. m + 1] = FoldStep(kind, p, g[1 .. m], seq[m + 1])
  <2> DEFINE S == 1 .. m + 1
  <2>1. m \in Nat /\ m + 1 \in S /\ S \in SUBSET (1 .. n) /\ S \ {m + 1} = 1 .. m
    BY <1>3
  <2>2. Max(S) = m + 1
    BY <2>1, MaxOfUpTo
  <2> HIDE DEF S
  <2>3. S # {}
    BY <2>1
  <2>4. g[S] = FoldStep(kind, p, g[1 .. m], seq[m + 1])
    BY <1>1, <2>1, <2>2, <2>3
  <2> QED BY <2>4 DEF S
<1> QED BY <1>1, <1>2, <1>3 DEF Unrolled

(* What holds of the outcomes of a fold.  Within a block TAR stays on       *)
(* memory.                                                                  *)
OnMemory(t) == t.tselect = 0 => t.tar \notin Registers
FoldKept(kind, outs) == \A o \in outs : Sound(o.t) /\ (kind = "put" /\ o.ok => OnMemory(o.t))

True(t) == Typed(t) /\ Agrees(t)

(* The access port is selected, with accesses of that size.                 *)
Aimed(t, size) ==
  Typed(t) /\ t.select = 0 /\ t.tselect = 0 /\ t.csw = size /\ t.tcsw = size

(* A block q is written to up to its m-th word: nothing beside it has       *)
(* changed, the words are there, or an error is pending.                    *)
Place(q, m) == q.a + m * Word

BlockAt(q, m, o) ==
  /\ \A c \in Cells : c \notin q.a .. q.a + Len(q.data) - 1 => o.t.mem[c] = q.mem[c]
  /\ o.ok => /\ Aimed(o.t, 32)
             /\ \/ o.t.sticky
                \/ /\ Place(q, m) < q.a + Len(q.data) => o.t.tar = Place(q, m)
                   /\ \A c \in Cells : c \in q.a .. Place(q, m) - 1 =>
                        o.t.mem[c] = q.data[c - q.a + 1]

(* An access q of which m pieces are done.                                   *)
Done(q, m) == IF m = Len(q.seq) THEN q.addr + q.size ELSE q.seq[m + 1].a

WriteAt(q, m, o) ==
  /\ \A c \in Cells : c \notin q.addr .. q.addr + Len(q.data) - 1 => o.t.mem[c] = q.mem[c]
  /\ o.ok => /\ True(o.t)
             /\ \A c \in Cells : c \in q.addr .. Done(q, m) - 1 =>
                  o.t.mem[c] = q.data[c - q.addr + 1]

(* Memory f from an address: a word of it, and so many bytes in order.      *)
WordIn(f, a) == [lane \in 0 .. Word - 1 |-> f[a + lane]]
Bytes(f, a, n) == [i \in 1 .. n |-> f[a + i - 1]]

(* A block q is read up to its m-th word: those before it were returned and *)
(* it is posted, or an error is pending, or a read was repeated.            *)
FetchAt(q, m, o) ==
  o.ok => /\ Aimed(o.t, 32) /\ (q.repeated => o.t.repeated)
          /\ \/ o.t.repeated
             \/ /\ o.t.mem = q.mem /\ o.val = Bytes(q.mem, q.a, m * Word)
                /\ \/ o.t.sticky
                   \/ /\ o.t.posted = LanesOf(WordIn(q.mem, Place(q, m)))
                      /\ Place(q, m + 1) < q.a + Len(q.data) => o.t.tar = Place(q, m + 1)

ReadAt(q, m, o) ==
  o.ok => /\ True(o.t) /\ (q.repeated => o.t.repeated)
          /\ \/ o.t.repeated
             \/ o.t.mem = q.mem /\ o.val = Bytes(q.mem, q.addr, Done(q, m) - q.addr)

(* The registers of a syscall are given up to the m-th of q.seq.            *)
GivenAt(q, m, o) ==
  o.ok => /\ True(o.t) /\ (q.repeated => o.t.repeated)
          /\ Halted(o.t) /\ o.t.given = {q.seq[i] : i \in 1 .. m}
          /\ o.t.r0 = q.r0 /\ o.t.resetting = q.resetting

(* The folds of which it is said how far they are.                          *)
FoldAt(kind, goal, q, m, outs) ==
  CASE goal = "sound" -> FoldKept(kind, outs)
    [] goal = "block" -> \A o \in outs : BlockAt(q, m, o)
    [] goal = "write" -> \A o \in outs : WriteAt(q, m, o)
    [] goal = "fetch" -> \A o \in outs : FetchAt(q, m, o)
    [] goal = "read" -> \A o \in outs : ReadAt(q, m, o)
    [] goal = "given" -> \A o \in outs : GivenAt(q, m, o)

LEMMA FoldReaches ==
  ASSUME NEW kind, NEW p, NEW goal, NEW q, NEW base, NEW seq, NEW n \in Nat, NEW g,
         FoldIter(kind, p, base, seq, n, g), FoldAt(kind, goal, q, 0, base),
         \A m \in 0 .. n : m + 1 \in 0 .. n => \A outs :
           FoldAt(kind, goal, q, m, outs) =>
             FoldAt(kind, goal, q, m + 1, FoldStep(kind, p, outs, seq[m + 1]))
  PROVE  FoldAt(kind, goal, q, n, g[1 .. n])
<1> DEFINE T == {m \in 0 .. n : FoldAt(kind, goal, q, m, g[1 .. m])}
<1>a. Unrolled(kind, p, base, seq, n, g)
  BY FoldUnrolls
<1>0. /\ g[{}] = base
      /\ \A m \in 0 .. n : m + 1 \in 0 .. n =>
           g[1 .. m + 1] = FoldStep(kind, p, g[1 .. m], seq[m + 1])
  BY <1>a DEF Unrolled
<1>1. 0 \in T
  <2>1. g[{}] = base
    BY <1>0
  <2>3. 1 .. 0 = {}
    OBVIOUS
  <2>2. 0 \in 0 .. n
    OBVIOUS
  <2> QED BY <2>1, <2>2, <2>3
<1>2. ASSUME NEW m \in 0 .. n, m + 1 \in 0 .. n, m \in T
      PROVE  m + 1 \in T
  <2>2. g[1 .. m + 1] = FoldStep(kind, p, g[1 .. m], seq[m + 1])
    BY <1>0, <1>2
  <2> QED BY <1>2, <2>2
<1> HIDE DEF T
<1>3. 0 .. n \subseteq T
  BY <1>1, <1>2, Induction
<1>4. n \in 0 .. n
  OBVIOUS
<1>5. n \in T
  BY <1>3, <1>4
<1> QED BY <1>5 DEF T

LEMMA FoldKeeps ==
  ASSUME NEW kind, NEW p, NEW base, NEW seq, NEW n \in Nat, NEW g,
         FoldIter(kind, p, base, seq, n, g), FoldKept(kind, base),
         \A i \in 1 .. n : \A outs :
           FoldKept(kind, outs) => FoldKept(kind, FoldStep(kind, p, outs, seq[i]))
  PROVE  FoldKept(kind, g[1 .. n])
<1>1. \A m, outs : FoldAt(kind, "sound", None, m, outs) <=> FoldKept(kind, outs)
  BY DEF FoldAt
<1>2. \A m \in 0 .. n : m + 1 \in 0 .. n => m + 1 \in 1 .. n
  OBVIOUS
<1>3. FoldAt(kind, "sound", None, 0, base)
  BY <1>1
<1>4. \A m \in 0 .. n : m + 1 \in 0 .. n => \A outs :
        FoldAt(kind, "sound", None, m, outs) =>
          FoldAt(kind, "sound", None, m + 1, FoldStep(kind, p, outs, seq[m + 1]))
  BY <1>1, <1>2
<1>5. FoldAt(kind, "sound", None, n, g[1 .. n])
  BY ONLY n \in Nat, FoldIter(kind, p, base, seq, n, g), <1>3, <1>4, FoldReaches
<1> QED BY <1>1, <1>5

-----------------------------------------------------------------------------
(* Blocks                                                                   *)

LEMMA TimesMonotone ==
  ASSUME NEW a \in Nat, NEW b \in Nat, NEW d \in Nat, a <= b
  PROVE  d * a <= d * b
  OBVIOUS

LEMMA NextInside ==
  ASSUME NEW a \in Cells, NEW step \in Nat
  PROVE  Next_TAR(a, step) \in Cells
<1> DEFINE N == Cardinality(Cells)
           k == a \div AutoPage
           q == N \div AutoPage
           r == (a + step) % AutoPage
<1>1. /\ N \in Nat /\ Cells = 0 .. N - 1 /\ AutoPage \in Nat \ {0} /\ N % AutoPage = 0
  BY FS_CardinalityType, SwdTargetAssumption
<1> HIDE DEF N
<1>2. a \in Nat /\ a < N
  BY <1>1
<1>3. k \in Nat /\ a - (a % AutoPage) = AutoPage * k /\ AutoPage * k <= a
  BY <1>1, <1>2
<1>4. q \in Nat /\ N = AutoPage * q
  BY <1>1
<1>5. r \in Nat /\ r < AutoPage
  BY <1>1, <1>2
<1> HIDE DEF k, q, r
<1>6. k < q
  <2>1. SUFFICES ASSUME q <= k PROVE FALSE
    BY <1>3, <1>4
  <2>2. AutoPage * q <= AutoPage * k
    BY <1>1, <1>3, <1>4, <2>1, TimesMonotone
  <2> QED BY <1>1, <1>2, <1>3, <1>4, <2>2
<1>7. AutoPage * (k + 1) <= AutoPage * q
  BY <1>1, <1>3, <1>4, <1>6, TimesMonotone
<1>8. AutoPage * (k + 1) = AutoPage * k + AutoPage
  BY <1>1, <1>3
<1>9. AutoPage * k + r \in 0 .. N - 1
  BY <1>1, <1>3, <1>4, <1>5, <1>7, <1>8
<1> QED BY <1>1, <1>3, <1>9 DEF Next_TAR, r

LEMMA PutKeeps ==
  ASSUME NEW data, NEW k, NEW outs, FoldKept("put", outs)
  PROVE  FoldKept("put", FoldStep("put", data, outs, k))
<1> DEFINE v == WordAt(data, k)
<1>1. \A o \in FoldStep("put", data, outs, k) :
        \E p \in outs : (p.ok /\ o \in WriteReg(p.t, "DRW", v)) \/ (~p.ok /\ o = p)
  BY DEF FoldStep, Then
<1> HIDE DEF v
<1>2. ASSUME NEW p \in outs, p.ok
      PROVE  \A o \in WriteReg(p.t, "DRW", v) : Sound(o.t) /\ (o.ok => OnMemory(o.t))
  <2> DEFINE t == p.t
  <2>1. Sound(t) /\ Typed(t) /\ OnMemory(t)
    BY <1>2 DEF FoldKept, Sound
  <2> HIDE DEF t
  <2>2. DCRSR \in Registers
    BY DEF Registers
  <2>3. Names(t, v)
    BY <2>1, <2>2 DEF OnMemory, Names
  <2>4. \A o \in WriteReg(t, "DRW", v) : Sound(o.t)
    BY <2>1, <2>3, WriteRegFollows, FollowsSound DEF AllFollow
  <2>5. \A u \in Written(t, "DRW", v) : OnMemory(u)
    <3>1. CASE t.tselect # 0
      BY <2>1, <3>1 DEF Written
    <3>2. CASE t.tselect = 0
      <4>1. \A u \in Written(t, "DRW", v) : u \in Stored(t, v) \/ u \in BusError(t)
        BY <3>2 DEF Written
      <4>2. \A u \in BusError(t) : OnMemory(u)
        BY <2>1 DEF BusError, OnMemory, Typed, Fields
      <4>3. \A u : DOMAIN u = Fields /\ u.tar \notin Registers => Advanced(u).tar \notin Registers
        <5>1. \A a \in Cells : \A step \in Nat : Next_TAR(a, step) \notin Registers
          BY NextInside, SwdTargetAssumption
        <5>2. None \notin Registers /\ Word \in Nat
          BY RegistersDiffer, SwdTargetAssumption
        <5>3. ASSUME NEW u, DOMAIN u = Fields, u.tar \in Cells
              PROVE  \E step \in Nat : Advanced(u).tar = Next_TAR(u.tar, step)
          <6>1. Advanced(u).tar = Next_TAR(u.tar, IF u.tcsw = 32 THEN Word ELSE 1)
            BY <5>3 DEF Advanced, Fields
          <6>2. (IF u.tcsw = 32 THEN Word ELSE 1) \in Nat
            BY <5>2
          <6> QED BY <6>1, <6>2
        <5>4. \A u : DOMAIN u = Fields /\ u.tar \notin Cells => Advanced(u).tar = None
          BY DEF Advanced, Fields
        <5> QED BY <5>1, <5>2, <5>3, <5>4
      <4>4. ASSUME NEW u \in Stored(t, v) PROVE OnMemory(u)
        <5> DEFINE m == [c \in Cells |-> IF c \in Driven(t) THEN v[c % Word] ELSE t.mem[c]]
                   w == [t EXCEPT !.mem = m]
        <5>1. t.tar \notin Registers
          BY <2>1, <3>2 DEF OnMemory
        <5>2. u = Advanced(w) \/ u = Advanced(t)
          BY <5>1 DEF Stored
        <5> HIDE DEF m
        <5>3. DOMAIN w = Fields /\ w.tar = t.tar /\ DOMAIN t = Fields
          BY <2>1 DEF Typed, Fields
        <5> HIDE DEF w
        <5> QED BY <4>3, <5>1, <5>2, <5>3 DEF OnMemory
      <4> QED BY <4>1, <4>2, <4>4
    <3> QED BY <3>1, <3>2
  <2> QED BY <2>4, <2>5, WriteRegEnds DEF t
<1> QED BY <1>1, <1>2 DEF FoldKept

LEMMA PutsFold ==
  ASSUME NEW data, Len(data) \in Nat, NEW u
  PROVE  LET n == Len(data) \div Word
             seq == [i \in 1 .. n |-> i - 1]
         IN  \E g : /\ FoldIter("put", data, {Yes(None, u)}, seq, n, g)
                    /\ FoldLeft(LAMBDA outs, k :
                                  Then(outs, LAMBDA y, w : WriteReg(w, "DRW", WordAt(data, k))),
                                {Yes(None, u)}, seq) = g[1 .. n]
<1> DEFINE n == Len(data) \div Word
           seq == [i \in 1 .. n |-> i - 1]
           base == {Yes(None, u)}
           op(outs, k) == Then(outs, LAMBDA y, w : WriteReg(w, "DRW", WordAt(data, k)))
           iter[S \in SUBSET DOMAIN seq] ==
             IF S = {} THEN base ELSE op(iter[S \ {Max(S)}], seq[Max(S)])
           F == FoldLeft(LAMBDA outs, k :
                  Then(outs, LAMBDA y, w : WriteReg(w, "DRW", WordAt(data, k))), base, seq)
<1>1. n \in Nat /\ DOMAIN seq = 1 .. n
  BY SwdTargetAssumption
<1>2. F = iter[DOMAIN seq]
  BY DEF FoldLeft, MapThenFoldSet
<1>3. PICK g : FoldIter("put", data, base, seq, n, g)
  <2> HIDE DEF seq, base, n
  <2> QED BY <1>1, FoldExists
<1>4. \A outs, k : FoldStep("put", data, outs, k) = op(outs, k)
  BY DEF FoldStep
<1>5. g = [S \in SUBSET DOMAIN seq |->
             IF S = {} THEN base ELSE op(g[S \ {Max(S)}], seq[Max(S)])]
  <2> HIDE DEF seq, base, n, op, iter, F
  <2> QED BY <1>1, <1>3, <1>4 DEF FoldIter
<1>6. iter = [S \in SUBSET DOMAIN seq |->
                IF S = {} THEN base ELSE op(iter[S \ {Max(S)}], seq[Max(S)])]
  <2> HIDE DEF seq, base, n, op, F
  <2> QED BY <1>5
<1>7. FoldIter("put", data, base, seq, n, iter)
  <2> HIDE DEF seq, base, n, op, iter, F
  <2> QED BY <1>1, <1>4, <1>6 DEF FoldIter
<1>8. F = iter[1 .. n]
  <2> HIDE DEF seq, base, n, op, iter, F
  <2> QED BY <1>1, <1>2
<1> HIDE DEF iter, op
<1> QED BY <1>7, <1>8

LEMMA PutsKeep ==
  ASSUME NEW data, Len(data) \in Nat, NEW u, Sound(u), OnMemory(u)
  PROVE  FoldKept("put",
           FoldLeft(LAMBDA outs, k : Then(outs, LAMBDA y, w : WriteReg(w, "DRW", WordAt(data, k))),
                    {Yes(None, u)}, [i \in 1 .. Len(data) \div Word |-> i - 1]))
<1> DEFINE n == Len(data) \div Word
           seq == [i \in 1 .. n |-> i - 1]
           base == {Yes(None, u)}
           F == FoldLeft(LAMBDA outs, k :
                  Then(outs, LAMBDA y, w : WriteReg(w, "DRW", WordAt(data, k))), base, seq)
<1>1. PICK g : FoldIter("put", data, base, seq, n, g) /\ F = g[1 .. n]
  BY PutsFold
<1>2. FoldKept("put", base)
  BY DEF FoldKept, Yes
<1>3. n \in Nat
  BY SwdTargetAssumption
<1>4. FoldKept("put", F)
  <2> HIDE DEF n, seq, base, F
  <2> QED BY <1>1, <1>2, <1>3, PutKeeps, FoldKeeps
<1> QED BY <1>4

LEMMA WriteBlockKeeps ==
  ASSUME NEW t, Sound(t), NEW a \in Cells, NEW data, Len(data) \in Nat
  PROVE  Kept(WriteBlock(t, a, data))
<1> DEFINE X == Then(SetCSW(t, 32), LAMBDA x, u : WriteReg(u, "TAR", a))
           F(u) == FoldLeft(LAMBDA outs, k : Then(outs, LAMBDA y, w : WriteReg(w, "DRW", WordAt(data, k))),
                            {Yes(None, u)}, [i \in 1 .. Len(data) \div Word |-> i - 1])
           R(u) == Then(F(u), LAMBDA y, w : Confirm(w))
<1>1. WriteBlock(t, a, data) = Then(X, LAMBDA x, u : R(u))
  BY DEF WriteBlock
<1>2. \A o \in X : Sound(o.t) /\ (o.ok => OnMemory(o.t))
  <2>1. \A o \in X :
          \E p \in SetCSW(t, 32) : (p.ok /\ o \in WriteReg(p.t, "TAR", a)) \/ (~p.ok /\ o = p)
    BY DEF Then
  <2>2. \A p \in SetCSW(t, 32) : Sound(p.t)
    BY SetCSWKeeps
  <2>3. a \notin Registers
    BY SwdTargetAssumption
  <2>4. ASSUME NEW p \in SetCSW(t, 32)
        PROVE  \A o \in WriteReg(p.t, "TAR", a) : Sound(o.t) /\ (o.ok => OnMemory(o.t))
    <3> DEFINE w == p.t
    <3>1. Sound(w) /\ Typed(w)
      BY <2>2 DEF Sound
    <3> HIDE DEF w
    <3>2. \A o \in WriteReg(w, "TAR", a) : Sound(o.t)
      BY <3>1, WriteRegFollows, FollowsSound DEF AllFollow
    <3>3. \A u \in Written(w, "TAR", a) : OnMemory(u)
      BY <2>3, <3>1 DEF Written, Typed, Fields, OnMemory
    <3> QED BY <3>2, <3>3, WriteRegEnds DEF w
  <2> HIDE DEF X
  <2> QED BY <2>1, <2>2, <2>4, SetCSWKeeps
<1>3. ASSUME NEW u, Sound(u), OnMemory(u)
      PROVE  \A o \in R(u) : Sound(o.t)
  <2>1. \A o \in F(u) : Sound(o.t)
    <3>1. FoldKept("put", F(u))
      BY <1>3, PutsKeep
    <3> HIDE DEF F
    <3> QED BY <3>1 DEF FoldKept
  <2>2. \A o \in R(u) : \E p \in F(u) : (p.ok /\ o \in Confirm(p.t)) \/ (~p.ok /\ o = p)
    <3> HIDE DEF F
    <3> QED BY DEF Then
  <2> HIDE DEF R, F
  <2> QED BY <2>1, <2>2, ConfirmFollows, FollowsSound DEF AllFollow, Sound
<1> HIDE DEF X, R
<1>4. \A o \in WriteBlock(t, a, data) :
        \E p \in X : (p.ok /\ o \in R(p.t)) \/ (~p.ok /\ o = p)
  BY <1>1 DEF Then
<1> QED BY <1>2, <1>3, <1>4 DEF Kept

LEMMA GetKeeps ==
  ASSUME NEW p, NEW k, NEW outs, FoldKept("get", outs)
  PROVE  FoldKept("get", FoldStep("get", p, outs, k))
<1> DEFINE B(got, u) == Then(ReadReg(u, "DRW"), LAMBDA v, w : {Yes(got \o Lanes(v), w)})
<1>1. \A o \in FoldStep("get", p, outs, k) :
        \E q \in outs : (q.ok /\ o \in B(q.val, q.t)) \/ (~q.ok /\ o = q)
  <2> HIDE DEF B
  <2>1. FoldStep("get", p, outs, k) = Then(outs, LAMBDA got, u : B(got, u))
    BY DEF FoldStep, B
  <2> QED BY <2>1 DEF Then
<1>2. \A got, u : \A o \in B(got, u) :
        \E q \in ReadReg(u, "DRW") : o = Yes(got \o Lanes(q.val), q.t) \/ o = q
  BY DEF Then
<1> HIDE DEF B
<1>3. \A got, u : \A o \in B(got, u) : \E q \in ReadReg(u, "DRW") : o.t = q.t
  BY <1>2 DEF Yes
<1>4. ASSUME NEW q \in outs PROVE \A o \in ReadReg(q.t, "DRW") : Sound(o.t)
  BY ReadRegFollows, FollowsSound DEF AllFollow, FoldKept, Sound, Readable
<1> QED BY <1>1, <1>3, <1>4 DEF FoldKept

LEMMA GetsFold ==
  ASSUME NEW n \in Nat, NEW base
  PROVE  \E g : /\ FoldIter("get", None, base, [i \in 1 .. n |-> i], n, g)
                /\ FoldLeft(LAMBDA outs, k : Then(outs, LAMBDA got, u :
                      Then(ReadReg(u, "DRW"), LAMBDA v, w : {Yes(got \o Lanes(v), w)})),
                    base, [i \in 1 .. n |-> i]) = g[1 .. n]
<1> DEFINE seq == [i \in 1 .. n |-> i]
           op(outs, k) == Then(outs, LAMBDA got, u :
                      Then(ReadReg(u, "DRW"), LAMBDA v, w : {Yes(got \o Lanes(v), w)}))
           iter[S \in SUBSET DOMAIN seq] ==
             IF S = {} THEN base ELSE op(iter[S \ {Max(S)}], seq[Max(S)])
<1>1. DOMAIN seq = 1 .. n
  OBVIOUS
<1>2. FoldLeft(LAMBDA outs, k : Then(outs, LAMBDA got, u :
                 Then(ReadReg(u, "DRW"), LAMBDA v, w : {Yes(got \o Lanes(v), w)})),
               base, seq) = iter[DOMAIN seq]
  BY DEF FoldLeft, MapThenFoldSet
<1>3. PICK g : FoldIter("get", None, base, seq, n, g)
  <2> HIDE DEF seq
  <2> QED BY <1>1, FoldExists
<1>4. \A outs, k : FoldStep("get", None, outs, k) = op(outs, k)
  BY DEF FoldStep
<1>5. g = [S \in SUBSET DOMAIN seq |->
             IF S = {} THEN base ELSE op(g[S \ {Max(S)}], seq[Max(S)])]
  <2> HIDE DEF seq, op, iter
  <2> QED BY <1>1, <1>3, <1>4 DEF FoldIter
<1>6. iter = [S \in SUBSET DOMAIN seq |->
                IF S = {} THEN base ELSE op(iter[S \ {Max(S)}], seq[Max(S)])]
  <2> HIDE DEF seq, op
  <2> QED BY <1>5
<1>7. FoldIter("get", None, base, seq, n, iter)
  <2> HIDE DEF seq, op, iter
  <2> QED BY <1>1, <1>4, <1>6 DEF FoldIter
<1> HIDE DEF iter, op
<1> QED BY <1>1, <1>2, <1>7

LEMMA GetsKeep ==
  ASSUME NEW n \in Nat, NEW base, FoldKept("get", base)
  PROVE  FoldKept("get",
           FoldLeft(LAMBDA outs, k : Then(outs, LAMBDA got, u :
                      Then(ReadReg(u, "DRW"), LAMBDA v, w : {Yes(got \o Lanes(v), w)})),
                    base, [i \in 1 .. n |-> i]))
<1> DEFINE seq == [i \in 1 .. n |-> i]
           F == FoldLeft(LAMBDA outs, k : Then(outs, LAMBDA got, u :
                      Then(ReadReg(u, "DRW"), LAMBDA v, w : {Yes(got \o Lanes(v), w)})),
                    base, seq)
<1>1. PICK g : FoldIter("get", None, base, seq, n, g) /\ F = g[1 .. n]
  BY GetsFold
<1>2. FoldKept("get", g[1 .. n])
  <2> HIDE DEF seq, F
  <2> QED BY <1>1, GetKeeps, FoldKeeps
<1> HIDE DEF seq
<1>3. FoldKept("get", F)
  BY <1>1, <1>2
<1> QED BY <1>3 DEF seq

LEMMA ReadBlockKeeps ==
  ASSUME NEW t, Sound(t), NEW a, NEW n \in Nat
  PROVE  Kept(ReadBlock(t, a, n))
<1> DEFINE T == Then(SetCSW(t, 32), LAMBDA x, u : WriteReg(u, "TAR", a))
           B(u) == Then(ReadReg(u, "DRW"), LAMBDA v, w : {Yes(<<>>, w)})
           F == Then(T, LAMBDA x, u : B(u))
           W == FoldLeft(LAMBDA outs, k : Then(outs, LAMBDA got, u :
                   Then(ReadReg(u, "DRW"), LAMBDA v, w : {Yes(got \o Lanes(v), w)})),
                 F, [i \in 1 .. (n \div Word) - 1 |-> i])
           D(got, u) == Then(Confirm(u), LAMBDA v, w : {Yes(got \o Lanes(v), w)})
<1>1. ReadBlock(t, a, n) = Then(W, LAMBDA got, u : D(got, u))
  BY DEF ReadBlock
<1>2. \A o \in T : Sound(o.t)
  <2>1. \A o \in T :
          \E p \in SetCSW(t, 32) : (p.ok /\ o \in WriteReg(p.t, "TAR", a)) \/ (~p.ok /\ o = p)
    BY DEF Then
  <2>2. \A p \in SetCSW(t, 32) : Sound(p.t)
    BY SetCSWKeeps
  <2> HIDE DEF T
  <2> QED BY <2>1, <2>2, WriteRegFollows, FollowsSound DEF AllFollow, Sound
<1>3. \A o \in F : Sound(o.t)
  <2> HIDE DEF T, B
  <2>1. \A o \in F : \E p \in T : (p.ok /\ o \in B(p.t)) \/ (~p.ok /\ o = p)
    BY DEF Then
  <2>2. \A u : \A o \in B(u) : \E q \in ReadReg(u, "DRW") : o = Yes(<<>>, q.t) \/ o = q
    BY DEF Then, B
  <2>3. \A u : \A o \in B(u) : \E q \in ReadReg(u, "DRW") : o.t = q.t
    BY <2>2 DEF Yes
  <2>4. \A p \in T : \A q \in ReadReg(p.t, "DRW") : Sound(q.t)
    BY <1>2, ReadRegFollows, FollowsSound DEF AllFollow, Sound, Readable
  <2> HIDE DEF F
  <2> QED BY <1>2, <2>1, <2>3, <2>4
<1>4. PICK m \in Nat : [i \in 1 .. m |-> i] = [i \in 1 .. (n \div Word) - 1 |-> i]
  <2>1. n \div Word \in Nat
    BY SwdTargetAssumption
  <2>2. CASE n \div Word = 0
    <3>1. 1 .. (n \div Word) - 1 = 1 .. 0
      BY <2>2
    <3> QED BY <3>1
  <2>3. CASE n \div Word # 0
    BY <2>1, <2>3
  <2> QED BY <2>2, <2>3
<1>5. FoldKept("get", W)
  <2>1. FoldKept("get", F)
    <3> HIDE DEF F
    <3> QED BY <1>3 DEF FoldKept
  <2> HIDE DEF F
  <2> QED BY <1>4, <2>1, GetsKeep
<1> HIDE DEF W
<1>6. \A o \in ReadBlock(t, a, n) :
        \E p \in W : (p.ok /\ o \in D(p.val, p.t)) \/ (~p.ok /\ o = p)
  <2> HIDE DEF D
  <2> QED BY <1>1 DEF Then
<1>7. \A got, u : \A o \in D(got, u) :
        \E q \in Confirm(u) : o = Yes(got \o Lanes(q.val), q.t) \/ o = q
  BY DEF Then
<1> HIDE DEF D
<1>8. \A got, u : \A o \in D(got, u) : \E q \in Confirm(u) : o.t = q.t
  BY <1>7 DEF Yes
<1>9. \A p \in W : Sound(p.t)
  BY <1>5 DEF FoldKept
<1>10. \A p \in W : \A q \in Confirm(p.t) : Sound(q.t)
  BY <1>9, ConfirmFollows, FollowsSound DEF AllFollow, Sound
<1> QED BY <1>6, <1>8, <1>9, <1>10 DEF Kept

-----------------------------------------------------------------------------
(* Accesses                                                                 *)

PieceSet == [a : Cells, n : Nat, byte : BOOLEAN]

(* A piece begins with its first byte, and the next behind its last.        *)
Bytewise(a, size) == a % Word # 0 \/ size < Word
PieceAt(a, size) ==
  IF Bytewise(a, size) THEN [a |-> a, n |-> 1, byte |-> TRUE]
  ELSE [a |-> a, n |-> Room(a, size), byte |-> FALSE]

LEMMA PieceInside ==
  ASSUME NEW a \in Cells, a \in Nat, NEW size \in Nat \ {0}
  PROVE  /\ PieceAt(a, size) \in PieceSet
         /\ PieceAt(a, size).n \in 1 .. size
<1>1. Word \in Nat \ {0} /\ AutoPage \in Nat \ {0}
  BY SwdTargetAssumption
<1>2. CASE Bytewise(a, size)
  BY <1>2 DEF PieceAt, PieceSet
<1>3. CASE ~Bytewise(a, size)
  <2> DEFINE n == AutoPage - (a % AutoPage)
  <2>1. n \in Nat \ {0}
    BY <1>1
  <2>2. size % Word \in Nat /\ size % Word < Word /\ size >= Word
    BY <1>1, <1>3 DEF Bytewise
  <2>3. Room(a, size) = IF size < n THEN size - (size % Word) ELSE n
    BY DEF Room
  <2> HIDE DEF n
  <2>4. Room(a, size) \in 1 .. size
    BY <1>1, <2>1, <2>2, <2>3
  <2>5. PieceAt(a, size) = [a |-> a, n |-> Room(a, size), byte |-> FALSE]
    BY <1>3 DEF PieceAt
  <2> QED BY <2>4, <2>5 DEF PieceSet
<1> QED BY <1>2, <1>3

(* Pieces that cover the addresses from a up to e without gap or overlap.   *)
Row(seq, a, e) ==
  /\ seq \in Seq(PieceSet)
  /\ \A i \in 1 .. Len(seq) :
       /\ seq[i].a \in a .. e - 1
       /\ seq[i] = PieceAt(seq[i].a, e - seq[i].a)
       /\ seq[i].a + seq[i].n = IF i = Len(seq) THEN e ELSE seq[i + 1].a
  /\ IF Len(seq) = 0 THEN a = e ELSE seq[1].a = a

LEMMA RowBegins ==
  ASSUME NEW a \in Nat, NEW e \in Nat, a < e, NEW p \in PieceSet,
         p = PieceAt(a, e - a), p.a = a, p.n \in 1 .. e - a,
         NEW r, Row(r, a + p.n, e)
  PROVE  Row(<<p>> \o r, a, e)
<1> DEFINE seq == <<p>> \o r
           n == Len(r)
<1>1. /\ r \in Seq(PieceSet) /\ n \in Nat /\ seq \in Seq(PieceSet) /\ Len(seq) = n + 1
      /\ seq[1] = p /\ \A i \in 1 .. n : seq[i + 1] = r[i]
  BY DEF Row
<1>2. /\ \A i \in 1 .. n :
           /\ r[i].a \in a + p.n .. e - 1
           /\ r[i] = PieceAt(r[i].a, e - r[i].a)
           /\ r[i].a + r[i].n = IF i = n THEN e ELSE r[i + 1].a
      /\ IF n = 0 THEN a + p.n = e ELSE r[1].a = a + p.n
  BY DEF Row
<1> HIDE DEF seq, n
<1>3. ASSUME NEW i \in 1 .. n + 1
      PROVE  /\ seq[i].a \in a .. e - 1
             /\ seq[i] = PieceAt(seq[i].a, e - seq[i].a)
             /\ seq[i].a + seq[i].n = IF i = n + 1 THEN e ELSE seq[i + 1].a
  <2>1. CASE i = 1
    <3>1. n = 0 => seq[i].a + seq[i].n = e
      BY <1>1, <1>2, <2>1
    <3>2. n # 0 => seq[2] = r[1] /\ seq[i].a + seq[i].n = seq[2].a
      <4>1. n # 0 => 1 \in 1 .. n
        BY <1>1
      <4> QED BY <1>1, <1>2, <2>1, <4>1
    <3> QED BY <1>1, <2>1, <3>1, <3>2
  <2>2. CASE i # 1
    <3>1. PICK j \in 1 .. n : i = j + 1
      <4>1. i - 1 \in 1 .. n /\ i = (i - 1) + 1
        BY <1>1, <2>2
      <4> QED BY <4>1
    <3>2. seq[i] = r[j] /\ (i = n + 1 <=> j = n)
      BY <1>1, <3>1
    <3>3. j # n => seq[i + 1] = r[j + 1]
      <4>1. j # n => j + 1 \in 1 .. n /\ i + 1 = (j + 1) + 1
        BY <1>1, <3>1
      <4> QED BY <1>1, <4>1
    <3>4. r[j].a \in a + p.n .. e - 1 => r[j].a \in a .. e - 1
      <4>1. a + p.n \in Nat /\ a + p.n >= a
        OBVIOUS
      <4> QED BY <4>1
    <3> QED BY <1>2, <3>1, <3>2, <3>3, <3>4
  <2> QED BY <2>1, <2>2
<1> QED BY <1>1, <1>3 DEF Row, seq

LEMMA PiecesInRow ==
  ASSUME NEW addr \in Nat, NEW length \in Nat, addr .. addr + length - 1 \subseteq Cells
  PROVE  Row(Pieces(addr, length), addr, addr + length)
<1> DEFINE E == addr + length
           P(a) == PieceAt(a, E - a)
           St(a, x) == IF a = E THEN <<>> ELSE <<P(a)>> \o x
           T == {m \in 0 .. length : \E g : g = [a \in E - m .. E |-> St(a, g[a + P(a).n])]}
<1>1. \A a \in addr .. E : a # E =>
        P(a) \in PieceSet /\ P(a).n \in 1 .. E - a
  <2>1. ASSUME NEW a \in addr .. E, a # E
        PROVE  a \in Cells /\ a \in Nat /\ E - a \in Nat \ {0}
    <3>1. a \in addr .. E - 1
      BY <2>1
    <3> QED BY <2>1, <3>1
  <2> HIDE DEF E
  <2> QED BY <2>1, PieceInside
<1>2. 0 \in T
  <2> DEFINE g == [a \in E - 0 .. E |-> <<>>]
  <2>1. \A a \in E - 0 .. E : a = E /\ g[a] = <<>>
    OBVIOUS
  <2>2. g = [a \in E - 0 .. E |-> St(a, g[a + P(a).n])]
    <3> HIDE DEF P
    <3> QED BY <2>1
  <2>3. 0 \in 0 .. length
    OBVIOUS
  <2> HIDE DEF g, St, P, E
  <2> QED BY <2>2, <2>3
<1>3. ASSUME NEW m \in 0 .. length, m + 1 \in 0 .. length, m \in T
      PROVE  m + 1 \in T
  <2> HIDE DEF P
  <2>1. PICK g : g = [a \in E - m .. E |-> St(a, g[a + P(a).n])]
    BY <1>3
  <2> DEFINE b == E - (m + 1)
             h == [a \in b .. E |-> IF a = b THEN St(a, g[a + P(a).n]) ELSE g[a]]
  <2>2. /\ b \in Nat /\ E \in Nat /\ b \in addr .. E /\ b # E /\ E - m = b + 1
        /\ \A a \in E - m .. E : a \in b .. E /\ a # b /\ a \in addr .. E
    BY <1>3
  <2>3. \A a \in E - m .. E : h[a] = g[a]
    BY <2>2
  <2>4. P(b) \in PieceSet /\ b + P(b).n \in E - m .. E
    <3>1. P(b) \in PieceSet /\ P(b).n \in 1 .. E - b
      BY <1>1, <2>2
    <3> HIDE DEF b, E
    <3> QED BY <2>2, <3>1
  <2>5. h[b] = St(b, g[b + P(b).n]) /\ b \in b .. E
    BY <2>2
  <2>6. \A a \in E - m .. E : g[a] = St(a, g[a + P(a).n])
    BY <2>1, Zenon
  <2>7. \A a \in E - m .. E : a # E => a + P(a).n \in E - m .. E
    <3>1. ASSUME NEW a \in E - m .. E, a # E PROVE a + P(a).n \in E - m .. E
      <4>1. a \in addr .. E /\ P(a).n \in 1 .. E - a
        BY <1>1, <2>2, <3>1
      <4> HIDE DEF b, E
      <4>2. a \in Nat /\ a >= b + 1
        BY <2>2, <3>1
      <4> QED BY <2>2, <4>1, <4>2
    <3> QED BY <3>1
  <2>8. ASSUME NEW a \in b .. E
        PROVE  h[a] = St(a, h[a + P(a).n])
    <3>1. CASE a = b
      <4> HIDE DEF h
      <4> QED BY <2>2, <2>3, <2>4, <2>5, <3>1
    <3>2. CASE a # b
      <4>1. a \in E - m .. E
        BY <2>2, <3>2
      <4> HIDE DEF h
      <4>2. CASE a = E
        BY <2>3, <2>6, <4>1, <4>2
      <4>3. CASE a # E
        BY <2>3, <2>6, <2>7, <4>1, <4>3
      <4> QED BY <4>2, <4>3
    <3> QED BY <3>1, <3>2
  <2>9. h = [a \in b .. E |-> h[a]]
    OBVIOUS
  <2> HIDE DEF h, St
  <2>10. h = [a \in b .. E |-> St(a, h[a + P(a).n])]
    BY <2>8, <2>9
  <2> QED BY <1>3, <2>10
<1>4. length \in T
  <2>1. 0 .. length \subseteq T
    <3> HIDE DEF T
    <3> QED BY <1>2, <1>3, Induction
  <2>2. length \in 0 .. length
    OBVIOUS
  <2> HIDE DEF T
  <2> QED BY <2>1, <2>2
<1> DEFINE from[a \in addr .. addr + length] ==
        LET size == addr + length - a IN
        IF size = 0 THEN <<>>
        ELSE IF a % Word # 0 \/ size < Word
        THEN <<[a |-> a, n |-> 1, byte |-> TRUE]>> \o from[a + 1]
        ELSE LET n == Room(a, size)
             IN  <<[a |-> a, n |-> n, byte |-> FALSE]>> \o from[a + n]
<1>5. Pieces(addr, length) = from[addr]
  BY DEF Pieces
<1>6. PICK g : g = [a \in addr .. E |-> St(a, g[a + P(a).n])]
  <2>1. E - length = addr
    OBVIOUS
  <2> HIDE DEF St, P, E
  <2> QED BY <1>4, <2>1
<1> DEFINE Body(f, a) ==
        LET size == addr + length - a IN
        IF size = 0 THEN <<>>
        ELSE IF a % Word # 0 \/ size < Word
        THEN <<[a |-> a, n |-> 1, byte |-> TRUE]>> \o f[a + 1]
        ELSE LET n == Room(a, size)
             IN  <<[a |-> a, n |-> n, byte |-> FALSE]>> \o f[a + n]
<1>7. ASSUME NEW f, NEW a \in addr .. E
      PROVE  Body(f, a) = St(a, f[a + P(a).n])
  <2>1. (addr + length - a = 0) <=> (a = E)
    OBVIOUS
  <2>2. CASE a = E
    BY <2>1, <2>2
  <2>3. CASE a # E /\ Bytewise(a, E - a)
    <3>1. P(a) = [a |-> a, n |-> 1, byte |-> TRUE] /\ P(a).n = 1
      BY <2>3 DEF PieceAt
    <3>2. Body(f, a) = <<[a |-> a, n |-> 1, byte |-> TRUE]>> \o f[a + 1]
      BY <2>1, <2>3 DEF Bytewise
    <3> HIDE DEF P, Body
    <3> QED BY <2>3, <3>1, <3>2
  <2>4. CASE a # E /\ ~Bytewise(a, E - a)
    <3> DEFINE n == Room(a, E - a)
    <3>1. P(a) = [a |-> a, n |-> n, byte |-> FALSE]
      BY <2>4 DEF PieceAt
    <3>2. Body(f, a) = <<[a |-> a, n |-> n, byte |-> FALSE]>> \o f[a + n]
      BY <2>1, <2>4 DEF Bytewise
    <3> HIDE DEF P, Body, n
    <3>3. P(a).n = n
      BY <3>1
    <3> QED BY <2>4, <3>1, <3>2, <3>3
  <2> QED BY <2>2, <2>3, <2>4
<1>8. from = [a \in addr .. E |-> St(a, from[a + P(a).n])]
  <2>1. g = [a \in addr .. E |-> Body(g, a)]
    <3> HIDE DEF St, P, Body
    <3> QED BY <1>6, <1>7
  <2>2. from = [a \in addr .. E |-> Body(from, a)]
    BY <2>1
  <2> HIDE DEF St, P, Body, from
  <2> QED BY <1>7, <2>2
<1> HIDE DEF from
<1> DEFINE V == {m \in 0 .. length : \A a \in E - m .. E : Row(from[a], a, E)}
<1>9. \A a \in addr .. E : from[a] = St(a, from[a + P(a).n])
  <2> HIDE DEF St, P
  <2> QED BY <1>8, Zenon
<1>10. 0 \in V
  <2>1. \A a \in E - 0 .. E : a = E /\ a \in addr .. E
    OBVIOUS
  <2>2. \A a \in E - 0 .. E : from[a] = <<>>
    BY <1>9, <2>1
  <2>3. Row(<<>>, E, E) /\ 0 \in 0 .. length
    BY DEF Row
  <2> HIDE DEF E, P, St
  <2> QED BY <2>1, <2>2, <2>3
<1>11. ASSUME NEW m \in 0 .. length, m + 1 \in 0 .. length, m \in V
       PROVE  m + 1 \in V
  <2> SUFFICES ASSUME NEW a \in E - (m + 1) .. E
               PROVE  Row(from[a], a, E)
    BY <1>11
  <2> HIDE DEF P
  <2>1. a \in addr .. E /\ a \in Nat
    BY <1>11
  <2>2. CASE a = E
    <3>1. from[a] = <<>>
      BY <1>9, <2>1, <2>2
    <3>2. Row(<<>>, E, E)
      BY DEF Row
    <3> QED BY <2>2, <3>1, <3>2
  <2>3. CASE a # E
    <3>1. P(a) \in PieceSet /\ P(a).n \in 1 .. E - a
      BY <1>1, <2>1, <2>3
    <3>2. a + P(a).n \in E - m .. E
      BY <1>11, <2>1, <2>3, <3>1
    <3>3. from[a] = <<P(a)>> \o from[a + P(a).n] /\ Row(from[a + P(a).n], a + P(a).n, E)
      BY <1>9, <1>11, <2>1, <2>3, <3>2
    <3>4. P(a) = PieceAt(a, E - a) /\ P(a).a = a
      BY DEF P, PieceAt
    <3>5. E \in Nat /\ a < E
      BY <2>1, <2>3
    <3> HIDE DEF E, St
    <3> QED BY <2>1, <3>1, <3>3, <3>4, <3>5, RowBegins
  <2> QED BY <2>2, <2>3
<1>12. length \in V
  <2>1. 0 .. length \subseteq V
    <3> HIDE DEF V
    <3> QED BY <1>10, <1>11, Induction
  <2>2. length \in 0 .. length
    OBVIOUS
  <2> HIDE DEF V
  <2> QED BY <2>1, <2>2
<1>13. addr \in E - length .. E /\ E = addr + length
  OBVIOUS
<1> HIDE DEF E
<1>14. Row(from[addr], addr, E)
  BY <1>12, <1>13
<1> HIDE DEF V, P, St
<1> QED BY <1>5, <1>13, <1>14

LEMMA PiecesOfCells ==
  ASSUME NEW addr \in Nat, NEW length \in Nat, addr .. addr + length - 1 \subseteq Cells
  PROVE  Pieces(addr, length) \in Seq(PieceSet)
  BY PiecesInRow DEF Row

LEMMA PieceRead ==
  ASSUME NEW p, NEW x \in PieceSet, NEW outs, FoldKept("read", outs)
  PROVE  FoldKept("read", FoldStep("read", p, outs, x))
<1> DEFINE A(u) == IF x.byte THEN ReadByte(u, x.a) ELSE ReadBlock(u, x.a, x.n)
           B(got, u) == Then(A(u), LAMBDA v, w : {Yes(got \o v, w)})
<1>1. \A o \in FoldStep("read", p, outs, x) :
        \E q \in outs : (q.ok /\ o \in B(q.val, q.t)) \/ (~q.ok /\ o = q)
  <2> HIDE DEF B
  <2>1. FoldStep("read", p, outs, x) = Then(outs, LAMBDA got, u : B(got, u))
    BY DEF FoldStep, B
  <2> QED BY <2>1 DEF Then
<1>2. \A got, u : \A o \in B(got, u) : \E q \in A(u) : o = Yes(got \o q.val, q.t) \/ o = q
  <2> HIDE DEF A
  <2> QED BY DEF Then
<1>3. \A got, u : \A o \in B(got, u) : \E q \in A(u) : o.t = q.t
  <2> HIDE DEF A, B
  <2> QED BY <1>2 DEF Yes
<1>4. x.n \in Nat
  BY DEF PieceSet
<1>5. ASSUME NEW q \in outs PROVE \A o \in A(q.t) : Sound(o.t)
  <2>1. Sound(q.t)
    BY DEF FoldKept
  <2> QED BY <1>4, <2>1, ReadByteKeeps, ReadBlockKeeps DEF Kept
<1> HIDE DEF A, B
<1> QED BY <1>1, <1>3, <1>5 DEF FoldKept

LEMMA ReadsFold ==
  ASSUME NEW t, NEW addr, NEW length, LET seq == Pieces(addr, length)
                                      IN  Len(seq) \in Nat /\ DOMAIN seq = 1 .. Len(seq)
  PROVE  LET seq == Pieces(addr, length)
         IN  \E g : /\ FoldIter("read", None, {Yes(<<>>, t)}, seq, Len(seq), g)
                    /\ ReadMemory(t, addr, length) = g[1 .. Len(seq)]
<1> DEFINE seq == Pieces(addr, length)
           base == {Yes(<<>>, t)}
           n == Len(seq)
           op(outs, p) == Then(outs, LAMBDA got, u :
               Then(IF p.byte THEN ReadByte(u, p.a) ELSE ReadBlock(u, p.a, p.n),
                    LAMBDA v, w : {Yes(got \o v, w)}))
           iter[S \in SUBSET DOMAIN seq] ==
             IF S = {} THEN base ELSE op(iter[S \ {Max(S)}], seq[Max(S)])
<1>1. n \in Nat /\ DOMAIN seq = 1 .. n
  OBVIOUS
<1>2. ReadMemory(t, addr, length) = iter[DOMAIN seq]
  BY DEF ReadMemory, FoldLeft, MapThenFoldSet
<1>3. PICK g : FoldIter("read", None, base, seq, n, g)
  <2> HIDE DEF seq, base, n
  <2> QED BY <1>1, FoldExists
<1>4. \A outs, k : FoldStep("read", None, outs, k) = op(outs, k)
  BY DEF FoldStep
<1>5. g = [S \in SUBSET DOMAIN seq |->
             IF S = {} THEN base ELSE op(g[S \ {Max(S)}], seq[Max(S)])]
  <2> HIDE DEF seq, base, n, op, iter
  <2> QED BY <1>1, <1>3, <1>4 DEF FoldIter
<1>6. iter = [S \in SUBSET DOMAIN seq |->
                IF S = {} THEN base ELSE op(iter[S \ {Max(S)}], seq[Max(S)])]
  <2> HIDE DEF seq, base, n, op
  <2> QED BY <1>5
<1>7. FoldIter("read", None, base, seq, n, iter)
  <2> HIDE DEF seq, base, n, op, iter
  <2> QED BY <1>1, <1>4, <1>6 DEF FoldIter
<1>8. ReadMemory(t, addr, length) = iter[1 .. n]
  <2> HIDE DEF seq, base, n, op, iter
  <2> QED BY <1>1, <1>2
<1> HIDE DEF iter, op
<1> QED BY <1>7, <1>8

LEMMA ReadMemoryKeeps ==
  ASSUME NEW t, Sound(t), NEW addr \in Nat, NEW length \in Nat,
         addr .. addr + length - 1 \subseteq Cells
  PROVE  Kept(ReadMemory(t, addr, length))
<1> DEFINE seq == Pieces(addr, length)
           base == {Yes(<<>>, t)}
           n == Len(seq)
<1>1. /\ seq \in Seq(PieceSet) /\ n \in Nat /\ DOMAIN seq = 1 .. n
      /\ \A i \in 1 .. n : seq[i] \in PieceSet
  <2>1. seq \in Seq(PieceSet)
    BY PiecesOfCells
  <2> HIDE DEF seq
  <2> QED BY <2>1
<1>2. PICK g : /\ FoldIter("read", None, base, seq, n, g)
               /\ ReadMemory(t, addr, length) = g[1 .. n]
  BY <1>1, ReadsFold
<1>3. FoldKept("read", base)
  BY DEF FoldKept, Yes
<1>4. FoldKept("read", g[1 .. n])
  <2> HIDE DEF seq, base, n
  <2> QED BY <1>1, <1>2, <1>3, PieceRead, FoldKeeps
<1> HIDE DEF seq, base, n
<1> QED BY <1>2, <1>4 DEF FoldKept, Kept

LEMMA CellsAreNumbers == Cells \subseteq Nat
<1>1. Cardinality(Cells) \in Nat
  BY FS_CardinalityType, SwdTargetAssumption
<1> QED BY <1>1, SwdTargetAssumption

LEMMA PartLength ==
  ASSUME NEW d \in Seq(Nat), NEW i \in Int, NEW j \in Int
  PROVE  Len(SubSeq(d, i, j)) \in Nat
  OBVIOUS

LEMMA PieceWritten ==
  ASSUME NEW p, p.addr \in Nat, p.data \in Seq(Nat), NEW x \in PieceSet, NEW outs,
         FoldKept("write", outs)
  PROVE  FoldKept("write", FoldStep("write", p, outs, x))
<1> DEFINE d == SubSeq(p.data, x.a - p.addr + 1, x.a - p.addr + x.n)
           e == p.data[x.a - p.addr + 1]
           A(u) == IF x.byte THEN WriteByte(u, x.a, e) ELSE WriteBlock(u, x.a, d)
<1>1. \A o \in FoldStep("write", p, outs, x) :
        \E q \in outs : (q.ok /\ o \in A(q.t)) \/ (~q.ok /\ o = q)
  <2> HIDE DEF A
  <2>1. FoldStep("write", p, outs, x) = Then(outs, LAMBDA y, u : A(u))
    BY DEF FoldStep, A
  <2> QED BY <2>1 DEF Then
<1>2. x.n \in Nat /\ x.a \in Cells /\ x.a \in Int
  <2>1. x.n \in Nat /\ x.a \in Cells
    BY DEF PieceSet
  <2>2. \A c \in Cells : c \in Int
    BY CellsAreNumbers
  <2> QED BY <2>1, <2>2
<1>3. Len(d) \in Nat
  <2> DEFINE i == x.a - p.addr + 1
             j == x.a - p.addr + x.n
             D == p.data
  <2>1. i \in Int /\ j \in Int
    BY <1>2
  <2>2. d = SubSeq(D, i, j) /\ D \in Seq(Nat)
    OBVIOUS
  <2> HIDE DEF i, j, d, D
  <2> QED BY <2>1, <2>2, PartLength
<1>5. ASSUME NEW q \in outs PROVE \A o \in A(q.t) : Sound(o.t)
  <2>1. Sound(q.t)
    BY DEF FoldKept
  <2> HIDE DEF d, e
  <2> QED BY <1>2, <1>3, <2>1, WriteByteKeeps, WriteBlockKeeps DEF Kept
<1> HIDE DEF A
<1> QED BY <1>1, <1>5 DEF FoldKept

LEMMA WritesFold ==
  ASSUME NEW t, NEW p, LET seq == Pieces(p.addr, Len(p.data))
                       IN  Len(seq) \in Nat /\ DOMAIN seq = 1 .. Len(seq)
  PROVE  LET seq == Pieces(p.addr, Len(p.data))
         IN  \E g : /\ FoldIter("write", p, {Yes(None, t)}, seq, Len(seq), g)
                    /\ WriteMemory(t, p.addr, p.data) = g[1 .. Len(seq)]
<1> DEFINE seq == Pieces(p.addr, Len(p.data))
           base == {Yes(None, t)}
           n == Len(seq)
           op(outs, x) == Then(outs, LAMBDA y, u :
               IF x.byte THEN WriteByte(u, x.a, p.data[x.a - p.addr + 1])
               ELSE WriteBlock(u, x.a, SubSeq(p.data, x.a - p.addr + 1, x.a - p.addr + x.n)))
           iter[S \in SUBSET DOMAIN seq] ==
             IF S = {} THEN base ELSE op(iter[S \ {Max(S)}], seq[Max(S)])
<1>1. n \in Nat /\ DOMAIN seq = 1 .. n
  OBVIOUS
<1>2. WriteMemory(t, p.addr, p.data) = iter[DOMAIN seq]
  BY DEF WriteMemory, FoldLeft, MapThenFoldSet
<1>3. PICK g : FoldIter("write", p, base, seq, n, g)
  <2> HIDE DEF seq, base, n
  <2> QED BY <1>1, FoldExists
<1>4. \A outs, k : FoldStep("write", p, outs, k) = op(outs, k)
  BY DEF FoldStep
<1>5. g = [S \in SUBSET DOMAIN seq |->
             IF S = {} THEN base ELSE op(g[S \ {Max(S)}], seq[Max(S)])]
  <2> HIDE DEF seq, base, n, op, iter
  <2> QED BY <1>1, <1>3, <1>4 DEF FoldIter
<1>6. iter = [S \in SUBSET DOMAIN seq |->
                IF S = {} THEN base ELSE op(iter[S \ {Max(S)}], seq[Max(S)])]
  <2> HIDE DEF seq, base, n, op
  <2> QED BY <1>5
<1>7. FoldIter("write", p, base, seq, n, iter)
  <2> HIDE DEF seq, base, n, op, iter
  <2> QED BY <1>1, <1>4, <1>6 DEF FoldIter
<1>8. WriteMemory(t, p.addr, p.data) = iter[1 .. n]
  <2> HIDE DEF seq, base, n, op, iter
  <2> QED BY <1>1, <1>2
<1> HIDE DEF iter, op
<1> QED BY <1>7, <1>8

LEMMA WritesKeep ==
  ASSUME NEW t, Sound(t), NEW p, p.addr \in Nat, p.data \in Seq(Nat),
         p.addr .. p.addr + Len(p.data) - 1 \subseteq Cells
  PROVE  Kept(WriteMemory(t, p.addr, p.data))
<1> DEFINE seq == Pieces(p.addr, Len(p.data))
           base == {Yes(None, t)}
           n == Len(seq)
<1>1. /\ seq \in Seq(PieceSet) /\ n \in Nat /\ DOMAIN seq = 1 .. n
      /\ \A i \in 1 .. n : seq[i] \in PieceSet
  <2>0. Len(p.data) \in Nat
    OBVIOUS
  <2>1. seq \in Seq(PieceSet)
    BY <2>0, PiecesOfCells
  <2> HIDE DEF seq
  <2> QED BY <2>1
<1>2. PICK g : /\ FoldIter("write", p, base, seq, n, g)
               /\ WriteMemory(t, p.addr, p.data) = g[1 .. n]
  BY <1>1, WritesFold
<1>3. FoldKept("write", base)
  BY DEF FoldKept, Yes
<1>4. FoldKept("write", g[1 .. n])
  <2> HIDE DEF seq, base, n
  <2> QED BY <1>1, <1>2, <1>3, PieceWritten, FoldKeeps
<1> HIDE DEF seq, base, n
<1> QED BY <1>2, <1>4 DEF FoldKept, Kept

LEMMA WriteMemoryKeeps ==
  ASSUME NEW t, Sound(t), NEW addr \in Nat, NEW data \in Seq(Nat),
         addr .. addr + Len(data) - 1 \subseteq Cells
  PROVE  Kept(WriteMemory(t, addr, data))
<1> DEFINE p == [addr |-> addr, data |-> data]
<1>1. p.addr = addr /\ p.data = data
  OBVIOUS
<1> HIDE DEF p
<1>2. Kept(WriteMemory(t, p.addr, p.data))
  BY <1>1, WritesKeep
<1> QED BY <1>1, <1>2

-----------------------------------------------------------------------------
(* Core registers                                                           *)

LEMMA RegisterReadyKeeps ==
  ASSUME NEW t, Sound(t)
  PROVE  Kept(RegisterReady(t))
<1>1. \A o \in RegisterReady(t) :
        \E p \in ReadWord(t, DHCSR) : o = p \/ o = Yes(None, p.t) \/ o = No(p.t)
  BY DEF RegisterReady, Then
<1>2. \A o \in RegisterReady(t) : \E p \in ReadWord(t, DHCSR) : o.t = p.t
  BY <1>1 DEF Yes, No
<1> QED BY <1>2, ReadWordKeeps DEF Kept

LEMMA WriteCoreRegisterKeeps ==
  ASSUME NEW t, Sound(t), NEW n \in CoreRegs
  PROVE  Kept(WriteCoreRegister(t, n))
<1> DEFINE r == [reg |-> n, write |-> TRUE]
           B(u) == Then(WriteWord(u, DCRSR, r), LAMBDA y, w : RegisterReady(w))
<1>1. \A o \in WriteCoreRegister(t, n) :
        \E p \in WriteWord(t, DCRDR, n) : (p.ok /\ o \in B(p.t)) \/ (~p.ok /\ o = p)
  <2>1. WriteCoreRegister(t, n) = Then(WriteWord(t, DCRDR, n), LAMBDA x, u : B(u))
    BY DEF WriteCoreRegister
  <2> HIDE DEF B
  <2> QED BY <2>1 DEF Then
<1>2. \A u : \A o \in B(u) :
        \E p \in WriteWord(u, DCRSR, r) : (p.ok /\ o \in RegisterReady(p.t)) \/ (~p.ok /\ o = p)
  <2> HIDE DEF r
  <2> QED BY DEF Then
<1>3. r.reg = n
  OBVIOUS
<1> HIDE DEF r, B
<1>4. \A p \in WriteWord(t, DCRDR, n) : Sound(p.t)
  BY RegistersDiffer, WriteWordKeeps DEF Kept
<1>5. \A p \in WriteWord(t, DCRDR, n) : \A q \in WriteWord(p.t, DCRSR, r) : Sound(q.t)
  BY <1>3, <1>4, WriteWordKeeps DEF Kept
<1> QED BY <1>1, <1>2, <1>4, <1>5, RegisterReadyKeeps DEF Kept

LEMMA ReadCoreRegisterKeeps ==
  ASSUME NEW t, Sound(t), NEW n \in CoreRegs
  PROVE  Kept(ReadCoreRegister(t, n))
<1> DEFINE r == [reg |-> n, write |-> FALSE]
           A == Then(WriteWord(t, DCRSR, r), LAMBDA x, u : RegisterReady(u))
<1>1. \A o \in ReadCoreRegister(t, n) :
        \E p \in A : (p.ok /\ o \in ReadWord(p.t, DCRDR)) \/ (~p.ok /\ o = p)
  <2>1. ReadCoreRegister(t, n) = Then(A, LAMBDA x, u : ReadWord(u, DCRDR))
    BY DEF ReadCoreRegister
  <2> HIDE DEF A
  <2> QED BY <2>1 DEF Then
<1>2. \A o \in A :
        \E p \in WriteWord(t, DCRSR, r) : (p.ok /\ o \in RegisterReady(p.t)) \/ (~p.ok /\ o = p)
  <2> HIDE DEF r
  <2> QED BY DEF Then
<1>3. ~r.write
  OBVIOUS
<1> HIDE DEF r, A
<1>4. \A p \in WriteWord(t, DCRSR, r) : Sound(p.t)
  BY <1>3, WriteWordKeeps DEF Kept
<1>5. \A p \in A : Sound(p.t)
  BY <1>2, <1>4, RegisterReadyKeeps DEF Kept
<1> QED BY <1>1, <1>5, ReadWordKeeps DEF Kept

LEMMA RegisterStep ==
  ASSUME NEW p, NEW x \in CoreRegs, NEW outs, FoldKept("register", outs)
  PROVE  FoldKept("register", FoldStep("register", p, outs, x))
<1>1. \A o \in FoldStep("register", p, outs, x) :
        \E q \in outs : (q.ok /\ o \in WriteCoreRegister(q.t, x)) \/ (~q.ok /\ o = q)
  <2>1. FoldStep("register", p, outs, x) = Then(outs, LAMBDA y, u : WriteCoreRegister(u, x))
    BY DEF FoldStep
  <2> QED BY <2>1 DEF Then
<1> QED BY <1>1, WriteCoreRegisterKeeps DEF FoldKept, Kept

LEMMA RegistersInRow ==
  /\ Cardinality(CoreRegs) \in Nat
  /\ SetToSeq(CoreRegs) \in [1 .. Cardinality(CoreRegs) -> CoreRegs]
  /\ \A r \in CoreRegs : \E i \in 1 .. Cardinality(CoreRegs) : SetToSeq(CoreRegs)[i] = r
<1>1. PICK n \in Nat : ExistsBijection(1 .. n, CoreRegs)
  BY FS_NatBijection, SwdTargetAssumption
<1>2. Cardinality(CoreRegs) = n
  BY <1>1, FS_CountingElements
<1>3. PICK f \in [1 .. n -> CoreRegs] : IsInjective(f)
  BY <1>1 DEF ExistsBijection, Bijection, Injection
<1> DEFINE q == SetToSeq(CoreRegs)
<1>4. q \in [1 .. n -> CoreRegs] /\ IsInjective(q)
  BY <1>2, <1>3 DEF SetToSeq
<1> HIDE DEF q
<1>5. q \in Injection(1 .. n, CoreRegs)
  BY <1>4 DEF Injection
<1>6. IsFiniteSet(1 .. n) /\ Cardinality(1 .. n) = n
  BY FS_Interval
<1>7. q \in Surjection(1 .. n, CoreRegs)
  BY <1>2, <1>5, <1>6, FS_Injection, SwdTargetAssumption
<1>8. \A r \in CoreRegs : \E i \in 1 .. n : q[i] = r
  BY <1>7 DEF Surjection
<1> QED BY <1>2, <1>4, <1>8 DEF q

LEMMA RegistersFold ==
  ASSUME NEW base
  PROVE  LET seq == SetToSeq(CoreRegs)
             n == Cardinality(CoreRegs)
         IN  \E g : /\ FoldIter("register", None, base, seq, n, g)
                    /\ FoldLeft(LAMBDA outs, k : Then(outs, LAMBDA x, u : WriteCoreRegister(u, k)),
                                base, seq) = g[1 .. n]
<1> DEFINE seq == SetToSeq(CoreRegs)
           n == Cardinality(CoreRegs)
           op(outs, k) == Then(outs, LAMBDA x, u : WriteCoreRegister(u, k))
           iter[S \in SUBSET DOMAIN seq] ==
             IF S = {} THEN base ELSE op(iter[S \ {Max(S)}], seq[Max(S)])
<1>1. n \in Nat /\ DOMAIN seq = 1 .. n /\ \A i \in 1 .. n : seq[i] \in CoreRegs
  BY RegistersInRow
<1>2. FoldLeft(LAMBDA outs, k : Then(outs, LAMBDA x, u : WriteCoreRegister(u, k)),
               base, seq) = iter[DOMAIN seq]
  BY DEF FoldLeft, MapThenFoldSet
<1>3. PICK g : FoldIter("register", None, base, seq, n, g)
  <2> HIDE DEF seq, n
  <2> QED BY <1>1, FoldExists
<1>4. \A outs, k : FoldStep("register", None, outs, k) = op(outs, k)
  BY DEF FoldStep
<1>5. g = [S \in SUBSET DOMAIN seq |->
             IF S = {} THEN base ELSE op(g[S \ {Max(S)}], seq[Max(S)])]
  <2> HIDE DEF seq, n, op, iter
  <2> QED BY <1>1, <1>3, <1>4 DEF FoldIter
<1>6. iter = [S \in SUBSET DOMAIN seq |->
                IF S = {} THEN base ELSE op(iter[S \ {Max(S)}], seq[Max(S)])]
  <2> HIDE DEF seq, n, op
  <2> QED BY <1>5
<1>7. FoldIter("register", None, base, seq, n, iter)
  <2> HIDE DEF seq, n, op, iter
  <2> QED BY <1>1, <1>4, <1>6 DEF FoldIter
<1>8. FoldLeft(LAMBDA outs, k : Then(outs, LAMBDA x, u : WriteCoreRegister(u, k)),
               base, seq) = iter[1 .. n]
  BY <1>1, <1>2
<1> HIDE DEF iter, op
<1> QED BY <1>7, <1>8

LEMMA RegistersKeep ==
  ASSUME NEW base, FoldKept("register", base)
  PROVE  FoldKept("register",
           FoldLeft(LAMBDA outs, n : Then(outs, LAMBDA x, u : WriteCoreRegister(u, n)),
                    base, SetToSeq(CoreRegs)))
<1> DEFINE seq == SetToSeq(CoreRegs)
           n == Cardinality(CoreRegs)
           F == FoldLeft(LAMBDA outs, k : Then(outs, LAMBDA x, u : WriteCoreRegister(u, k)),
                         base, seq)
<1>1. n \in Nat /\ \A i \in 1 .. n : seq[i] \in CoreRegs
  BY RegistersInRow
<1>2. PICK g : FoldIter("register", None, base, seq, n, g) /\ F = g[1 .. n]
  BY RegistersFold
<1>3. FoldKept("register", F)
  <2> HIDE DEF seq, n, F
  <2> QED BY <1>1, <1>2, RegisterStep, FoldKeeps
<1> QED BY <1>3

LEMMA WriteDebugStateKeeps ==
  ASSUME NEW t, Sound(t)
  PROVE  Kept(WriteDebugState(t))
<1> DEFINE A == FoldLeft(LAMBDA outs, n : Then(outs, LAMBDA x, u : WriteCoreRegister(u, n)),
                         Select(t, 0), SetToSeq(CoreRegs))
           B == Then(A, LAMBDA x, u : WriteWord(u, DHCSR, {"C_DEBUGEN"}))
           C(u) == Then(ReadReg(u, "CTRL_STAT"),
                        LAMBDA v, w : {IF v = <<"sticky", TRUE>> THEN No(w) ELSE Yes(None, w)})
<1>1. WriteDebugState(t) = Then(B, LAMBDA x, u : C(u))
  BY DEF WriteDebugState
<1>2. \A o \in A : Sound(o.t)
  <2>1. FoldKept("register", Select(t, 0))
    BY SelectKeeps DEF FoldKept
  <2>2. FoldKept("register", A)
    BY <2>1, RegistersKeep
  <2> HIDE DEF A
  <2> QED BY <2>2 DEF FoldKept
<1>3. \A o \in B : Sound(o.t)
  <2> HIDE DEF A
  <2>1. \A o \in B :
          \E p \in A : (p.ok /\ o \in WriteWord(p.t, DHCSR, {"C_DEBUGEN"})) \/ (~p.ok /\ o = p)
    BY DEF Then
  <2> HIDE DEF B
  <2> QED BY <1>2, <2>1, WriteWordKeeps, RegistersDiffer DEF Kept
<1>4. \A u : \A o \in C(u) : \E p \in ReadReg(u, "CTRL_STAT") : o = No(p.t) \/ o = Yes(None, p.t) \/ o = p
  BY DEF Then
<1> HIDE DEF B, C
<1>5. \A u : \A o \in C(u) : \E p \in ReadReg(u, "CTRL_STAT") : o.t = p.t
  BY <1>4 DEF Yes, No
<1>6. \A o \in WriteDebugState(t) : \E p \in B : (p.ok /\ o \in C(p.t)) \/ (~p.ok /\ o = p)
  BY <1>1 DEF Then
<1>7. \A p \in B : \A q \in ReadReg(p.t, "CTRL_STAT") : Sound(q.t)
  BY <1>3, ReadRegFollows, FollowsSound DEF AllFollow, Sound, Readable
<1> QED BY <1>3, <1>5, <1>6, <1>7 DEF Kept

LEMMA EndedSound ==
  ASSUME NEW t, Sound(t)
  PROVE  \A u \in Ended(t) : Sound(u)
<1> DEFINE w(r) == [t EXCEPT !.run = "halted", !.r0 = r]
<1>1. \A r : Sound(w(r))
  BY DEF Sound, Typed, Fields, Agrees
<1>2. \A u \in Ended(t) : \E r \in {0, 1} : u = w(r)
  BY DEF Ended
<1> HIDE DEF w
<1> QED BY <1>1, <1>2

LEMMA WaitUntilHaltedKeeps ==
  ASSUME NEW t, Sound(t)
  PROVE  Kept(WaitUntilHalted(t))
<1> DEFINE later == {t} \cup (IF CanEnd(t) THEN Ended(t) ELSE {})
           seen(v, u) == {IF h THEN Yes(None, u) ELSE No(u) : h \in ShowsHalt(v)}
<1>1. WaitUntilHalted(t) = UNION {Then(ReadWord(u, DHCSR), seen) : u \in later}
  BY DEF WaitUntilHalted
<1>2. \A u \in later : Sound(u)
  BY EndedSound
<1> HIDE DEF later
<1>3. \A v, u : \A o \in seen(v, u) : o = Yes(None, u) \/ o = No(u)
  OBVIOUS
<1>4. \A v, u : \A o \in seen(v, u) : o.t = u
  <2> HIDE DEF seen
  <2> QED BY <1>3 DEF Yes, No
<1> HIDE DEF seen
<1>5. \A o \in WaitUntilHalted(t) : \E u \in later : \E p \in ReadWord(u, DHCSR) :
        o \in seen(p.val, p.t) \/ o = p
  BY <1>1 DEF Then
<1> QED BY <1>2, <1>4, <1>5, ReadWordKeeps DEF Kept

LEMMA SyscallExecKeeps ==
  ASSUME NEW t, Sound(t)
  PROVE  Kept(SyscallExec(t))
<1> DEFINE begun == [t EXCEPT !.given = {}, !.r0 = None, !.run = IF @ = "algo" THEN "other" ELSE @]
           A == Then(WriteDebugState(begun), LAMBDA x, u : WaitUntilHalted(u))
           B == Then(A, LAMBDA x, u : ReadCoreRegister(u, 0))
           returned(v, u) == {IF z THEN Yes(None, u) ELSE No(u) : z \in ShowsZero(v)}
<1>1. SyscallExec(t) = Then(B, returned)
  BY DEF SyscallExec
<1>2. Sound(begun)
  BY DEF Sound, Typed, Fields, Agrees
<1> HIDE DEF begun
<1>3. \A o \in A : Sound(o.t)
  <2>1. \A o \in A :
          \E p \in WriteDebugState(begun) : (p.ok /\ o \in WaitUntilHalted(p.t)) \/ (~p.ok /\ o = p)
    BY DEF Then
  <2> HIDE DEF A
  <2> QED BY <1>2, <2>1, WriteDebugStateKeeps, WaitUntilHaltedKeeps DEF Kept
<1>4. \A o \in B : Sound(o.t)
  <2> HIDE DEF A
  <2>1. \A o \in B :
          \E p \in A : (p.ok /\ o \in ReadCoreRegister(p.t, 0)) \/ (~p.ok /\ o = p)
    BY DEF Then
  <2> HIDE DEF B
  <2> QED BY <1>3, <2>1, ReadCoreRegisterKeeps, SwdTargetAssumption DEF Kept
<1> HIDE DEF B
<1>5. \A v, u : \A o \in returned(v, u) : o = Yes(None, u) \/ o = No(u)
  OBVIOUS
<1> HIDE DEF returned
<1>6. \A v, u : \A o \in returned(v, u) : o.t = u
  BY <1>5 DEF Yes, No
<1>7. \A o \in SyscallExec(t) : \E p \in B : o \in returned(p.val, p.t) \/ o = p
  BY <1>1 DEF Then
<1> QED BY <1>4, <1>6, <1>7 DEF Kept

-----------------------------------------------------------------------------
(* The debug connection                                                     *)

LEMMA JTAG2SWDKeeps ==
  ASSUME NEW t, Sound(t)
  PROVE  Kept(JTAG2SWD(t))
<1> DEFINE u == [t EXCEPT !.swd = t.port \/ @]
<1>1. Sound(u) /\ Typed(u)
  BY DEF Sound, Typed, Fields, Agrees
<1>2. JTAG2SWD(t) = ReadReg(u, "IDCODE")
  BY DEF JTAG2SWD
<1> HIDE DEF u
<1> QED BY <1>1, <1>2, ReadRegFollows, FollowsSound DEF AllFollow, Kept, Readable

LEMMA WriteRegKeeps ==
  ASSUME NEW t, Sound(t), NEW reg \in {"ABORT", "CTRL_STAT"}, NEW v
  PROVE  Kept(WriteReg(t, reg, v))
  BY WriteRegFollows, FollowsSound DEF AllFollow, Kept, Sound

LEMMA PowerUpKeeps ==
  ASSUME NEW t, Sound(t)
  PROVE  Kept(PowerUp(t))
<1> DEFINE A == Then(WriteReg(t, "CTRL_STAT", None), LAMBDA x, u : ReadReg(u, "CTRL_STAT"))
           on(u) == [u EXCEPT !.power = TRUE]
           B(u) == {Yes(None, on(u)), No(u)}
<1>1. PowerUp(t) = Then(A, LAMBDA v, u : B(u))
  BY DEF PowerUp
<1>2. \A o \in A : Sound(o.t)
  <2>1. \A o \in A :
          \E p \in WriteReg(t, "CTRL_STAT", None) :
            (p.ok /\ o \in ReadReg(p.t, "CTRL_STAT")) \/ (~p.ok /\ o = p)
    BY DEF Then
  <2>2. \A p \in WriteReg(t, "CTRL_STAT", None) : Sound(p.t)
    BY WriteRegKeeps DEF Kept
  <2> HIDE DEF A
  <2> QED BY <2>1, <2>2, ReadRegFollows, FollowsSound DEF AllFollow, Sound, Readable
<1> HIDE DEF A
<1>3. \A u : Sound(u) => Sound(on(u))
  BY DEF Sound, Typed, Fields, Agrees
<1> HIDE DEF on
<1>4. \A u : \A o \in B(u) : o.t = on(u) \/ o.t = u
  BY DEF Yes, No
<1> HIDE DEF B
<1>5. \A o \in PowerUp(t) : \E p \in A : o \in B(p.t) \/ o = p
  BY <1>1 DEF Then
<1> QED BY <1>2, <1>3, <1>4, <1>5 DEF Kept

LEMMA InitDebugKeeps ==
  ASSUME NEW t, Typed(t)
  PROVE  Kept(InitDebug(t))
<1> DEFINE start == [SwdInit(t) EXCEPT !.select = None, !.csw = None,
                                  !.trouble = FALSE, !.repeated = FALSE]
           J == JTAG2SWD(start)
           cleared == Then(J, LAMBDA x, u : WriteReg(u, "ABORT", None))
           chosen == Then(cleared, LAMBDA x, u : Select(u, 0))
           powered == Then(chosen, LAMBDA x, u : PowerUp(u))
           normal == Then(powered, LAMBDA x, u : WriteReg(u, "CTRL_STAT", None))
<1>1. InitDebug(t) = Then(normal, LAMBDA x, u : Select(u, 0))
  BY DEF InitDebug
<1>2. Sound(start)
  BY DEF Sound, Typed, Fields, Agrees, SwdInit
<1> HIDE DEF start
<1>3. \A o \in J : Sound(o.t)
  BY <1>2, JTAG2SWDKeeps DEF Kept
<1> HIDE DEF J
<1>4. \A o \in cleared : Sound(o.t)
  <2>1. \A o \in cleared :
          \E p \in J : (p.ok /\ o \in WriteReg(p.t, "ABORT", None)) \/ (~p.ok /\ o = p)
    BY DEF Then
  <2> HIDE DEF cleared
  <2> QED BY <1>3, <2>1, WriteRegKeeps DEF Kept
<1> HIDE DEF cleared
<1>5. \A o \in chosen : Sound(o.t)
  <2>1. \A o \in chosen :
          \E p \in cleared : (p.ok /\ o \in Select(p.t, 0)) \/ (~p.ok /\ o = p)
    BY DEF Then
  <2> HIDE DEF chosen
  <2> QED BY <1>4, <2>1, SelectKeeps
<1> HIDE DEF chosen
<1>6. \A o \in powered : Sound(o.t)
  <2>1. \A o \in powered :
          \E p \in chosen : (p.ok /\ o \in PowerUp(p.t)) \/ (~p.ok /\ o = p)
    BY DEF Then
  <2> HIDE DEF powered
  <2> QED BY <1>5, <2>1, PowerUpKeeps DEF Kept
<1> HIDE DEF powered
<1>7. \A o \in normal : Sound(o.t)
  <2>1. \A o \in normal :
          \E p \in powered : (p.ok /\ o \in WriteReg(p.t, "CTRL_STAT", None)) \/ (~p.ok /\ o = p)
    BY DEF Then
  <2> HIDE DEF normal
  <2> QED BY <1>6, <2>1, WriteRegKeeps DEF Kept
<1> HIDE DEF normal
<1>8. \A o \in InitDebug(t) :
        \E p \in normal : (p.ok /\ o \in Select(p.t, 0)) \/ (~p.ok /\ o = p)
  BY <1>1 DEF Then
<1> QED BY <1>7, <1>8, SelectKeeps DEF Kept

-----------------------------------------------------------------------------
(* The target by itself                                                     *)

LEMMA OwnStepsSound ==
  ASSUME NEW t, Sound(t)
  PROVE  /\ Sound(HaltedByRequest(t)) /\ Sound(AfterReset(t)) /\ Sound(Forgotten(t))
         /\ Sound([AfterReset(t) EXCEPT !.held = FALSE]) /\ Sound([t EXCEPT !.held = TRUE])
         /\ Sound(SwdInit(t)) /\ Sound(SwdOff(t))
<1>1. Sound(HaltedByRequest(t))
  BY DEF Sound, Typed, Fields, Agrees, HaltedByRequest
<1>2. Sound(AfterReset(t))
  BY DEF Sound, Typed, Fields, Agrees, AfterReset
<1>3. Sound(Forgotten(t))
  BY DEF Sound, Typed, Fields, Agrees, Forgotten
<1>4. Sound([AfterReset(t) EXCEPT !.held = FALSE])
  BY <1>2 DEF Sound, Typed, Fields, Agrees
<1>5. Sound([t EXCEPT !.held = TRUE])
  BY DEF Sound, Typed, Fields, Agrees
<1>6. Sound(SwdInit(t)) /\ Sound(SwdOff(t))
  BY DEF Sound, Typed, Fields, Agrees, SwdInit, SwdOff
<1> QED BY <1>1, <1>2, <1>3, <1>4, <1>5, <1>6

LEMMA ReplugSound ==
  ASSUME NEW t, Typed(t)
  PROVE  Sound(Replugged(t))
  BY DEF Sound, Typed, Fields, Replugged, InitialTarget

LEMMA InitialSound == \A w : Sound([InitialTarget EXCEPT !.wired = w])
  BY DEF Sound, Typed, Fields, Agrees, InitialTarget

-----------------------------------------------------------------------------
(* The steps of set_target_state                                            *)

Ops == {"init", "off", "init_debug", "jtag2swd", "abort", "select", "power",
        "write", "try twice", "try again", "read", "wait", "assert", "release", "delay"}

(* Those that access a debug register; none of them writes DCRSR.           *)
Accessing == {"write", "try twice", "try again", "read"}

StepSet ==
  {x \in [op : Ops, reg : {DHCSR, DEMCR, AIRCR, None},
          val : {None} \cup SUBSET {"C_DEBUGEN", "C_HALT", "VC_CORERESET", "SYSRESETREQ"}] :
     x.op \in Accessing => x.reg # None}

LEMMA StepIsStep ==
  /\ \A op \in Ops \ Accessing : Step(op) \in StepSet
  /\ Enable \in StepSet /\ Disable \in StepSet /\ Uncatch \in StepSet /\ CatchReset \in StepSet
  /\ Put(DHCSR, {"C_DEBUGEN", "C_HALT"}) \in StepSet
  /\ Get(AIRCR) \in StepSet /\ Put(AIRCR, {"SYSRESETREQ"}) \in StepSet
  /\ [Enable EXCEPT !.op = "try twice"] \in StepSet
<1> DEFINE S == [op : Ops, reg : {DHCSR, DEMCR, AIRCR, None},
                 val : {None} \cup SUBSET {"C_DEBUGEN", "C_HALT", "VC_CORERESET", "SYSRESETREQ"}]
           again == [Enable EXCEPT !.op = "try twice"]
<1>1. /\ \A op \in Ops : Step(op) \in S
      /\ Enable \in S /\ Disable \in S /\ Uncatch \in S /\ CatchReset \in S
      /\ Put(DHCSR, {"C_DEBUGEN", "C_HALT"}) \in S
      /\ Get(AIRCR) \in S /\ Put(AIRCR, {"SYSRESETREQ"}) \in S /\ again \in S
  BY DEF Step, Enable, Disable, Uncatch, CatchReset, Put, Get, Ops
<1>2. \A op \in Ops : Step(op).op = op
  BY DEF Step
<1>3. /\ Enable.reg # None /\ Disable.reg # None /\ Uncatch.reg # None /\ CatchReset.reg # None
      /\ Put(DHCSR, {"C_DEBUGEN", "C_HALT"}).reg # None
      /\ Get(AIRCR).reg # None /\ Put(AIRCR, {"SYSRESETREQ"}).reg # None /\ again.reg # None
  BY RegistersDiffer DEF Enable, Disable, Uncatch, CatchReset, Put, Get, Registers
<1> HIDE DEF again
<1>4. /\ Enable \in StepSet /\ Disable \in StepSet /\ Uncatch \in StepSet
      /\ CatchReset \in StepSet /\ Put(DHCSR, {"C_DEBUGEN", "C_HALT"}) \in StepSet
      /\ Get(AIRCR) \in StepSet /\ Put(AIRCR, {"SYSRESETREQ"}) \in StepSet /\ again \in StepSet
  BY <1>1, <1>3 DEF StepSet
<1>5. \A op \in Ops \ Accessing : Step(op) \in StepSet
  BY <1>1, <1>2 DEF StepSet
<1> QED BY <1>4, <1>5 DEF again

LEMMA Joined ==
  ASSUME NEW S, NEW p \in Seq(S), NEW q \in Seq(S)
  PROVE  p \o q \in Seq(S)
  OBVIOUS

LEMMA Singly ==
  ASSUME NEW S, NEW a \in S, NEW b \in S, NEW c \in S, NEW d \in S, NEW e \in S
  PROVE  /\ <<a>> \in Seq(S) /\ <<a, b>> \in Seq(S) /\ <<a, b, c>> \in Seq(S)
         /\ <<a, b, c, d>> \in Seq(S) /\ <<a, b, c, d, e>> \in Seq(S)
  OBVIOUS

LEMMA PartsAreSteps ==
  /\ HaltCore \in Seq(StepSet) /\ PinReset \in Seq(StepSet)
  /\ SoftReset \in Seq(StepSet) /\ Connect \in Seq(StepSet)
<1>1. /\ Step("wait") \in StepSet /\ Step("assert") \in StepSet
      /\ Step("delay") \in StepSet /\ Step("release") \in StepSet
      /\ Step("jtag2swd") \in StepSet /\ Step("abort") \in StepSet
      /\ Step("select") \in StepSet /\ Step("power") \in StepSet
  BY StepIsStep DEF Ops, Accessing
<1>2. HaltCore \in Seq(StepSet)
  BY <1>1, StepIsStep, Singly DEF HaltCore
<1>3. PinReset \in Seq(StepSet)
  BY <1>1, Singly DEF PinReset
<1>4. SoftReset \in Seq(StepSet)
  BY <1>1, StepIsStep, Singly DEF SoftReset
<1>5. Connect \in Seq(StepSet)
  BY <1>1, StepIsStep, Singly DEF Connect
<1> QED BY <1>2, <1>3, <1>4, <1>5

LEMMA StatesHaveSteps ==
  ASSUME NEW st \in States, host \in Hosts
  PROVE  Steps(st) \in Seq(StepSet)
<1> DEFINE Q == Seq(StepSet)
<1>1. \A op \in Ops \ Accessing : <<Step(op)>> \in Q
  BY StepIsStep, Singly
<1>2. \A a \in Ops \ Accessing, b \in Ops \ Accessing : <<Step(a), Step(b)>> \in Q
  BY StepIsStep, Singly
<1>3. /\ <<Step("init"), Disable>> \in Q /\ <<Disable, Step("off")>> \in Q
      /\ <<CatchReset>> \in Q /\ <<Step("wait"), Uncatch>> \in Q
      /\ <<Step("init"), Step("init_debug"), [Enable EXCEPT !.op = "try twice"], CatchReset>> \in Q
  <2>1. Step("init") \in StepSet /\ Step("off") \in StepSet /\ Step("wait") \in StepSet
        /\ Step("init_debug") \in StepSet
    BY StepIsStep DEF Ops, Accessing
  <2> QED BY <2>1, StepIsStep, Singly
<1>4. /\ <<Step("init"), Step("assert")>> \in Q /\ <<Step("init")>> \in Q /\ <<Step("off")>> \in Q
      /\ <<Step("init"), Step("init_debug")>> \in Q
  BY <1>1, <1>2 DEF Ops, Accessing
<1>5. \A p \in Q, q \in Q : p \o q \in Q
  BY Joined
<1> HIDE DEF Q
<1>6. HaltCore \in Q /\ PinReset \in Q /\ SoftReset \in Q /\ Connect \in Q
  BY PartsAreSteps DEF Q
<1>7. HwSteps(st) \in Q
  BY <1>3, <1>4, <1>5, <1>6 DEF HwSteps, States
<1>8. SwSteps(st) \in Q
  BY <1>3, <1>4, <1>5, <1>6, <1>7 DEF SwSteps, States
<1>9. CppSteps(st) \in Q
  BY <1>3, <1>4, <1>5, <1>6 DEF CppSteps, States
<1> QED BY <1>7, <1>8, <1>9, SwdHostAssumption DEF Steps, Q

LEMMA OutcomesKept ==
  ASSUME Sound(s), NEW step \in StepSet
  PROVE  Kept(Outcomes(step))
<1>1. step.op \in Ops /\ step.reg # DCRSR
  BY RegistersDiffer DEF StepSet, Registers
<1>2. \A t : Sound(t) => Kept({Yes(None, t)})
  BY DEF Kept, Yes
<1>3. CASE step.op \in {"init", "off", "assert", "release", "delay"}
  <2>1. \E t : Sound(t) /\ Outcomes(step) \subseteq {Yes(None, t)}
    <3>1. CASE step.op = "init"
      BY <3>1, OwnStepsSound DEF Outcomes
    <3>2. CASE step.op = "off"
      BY <3>2, OwnStepsSound DEF Outcomes
    <3>3. CASE step.op = "assert"
      BY <3>3, OwnStepsSound DEF Outcomes
    <3>4. CASE step.op = "release"
      BY <3>4, OwnStepsSound DEF Outcomes
    <3>5. CASE step.op = "delay"
      BY <3>5 DEF Outcomes
    <3> QED BY <1>3, <3>1, <3>2, <3>3, <3>4, <3>5
  <2> QED BY <1>2, <2>1 DEF Kept
<1>4. CASE step.op = "init_debug"
  BY <1>4, InitDebugKeeps DEF Outcomes, Sound
<1>5. CASE step.op = "jtag2swd"
  BY <1>5, JTAG2SWDKeeps DEF Outcomes
<1>6. CASE step.op \in {"abort", "power"}
  BY <1>6, WriteRegKeeps DEF Outcomes
<1>7. CASE step.op = "select"
  BY <1>7, SelectKeeps DEF Outcomes, Kept
<1>8. CASE step.op \in {"write", "try twice", "try again"}
  BY <1>1, <1>8, WriteWordKeeps DEF Outcomes
<1>9. CASE step.op \in {"read", "wait"}
  BY <1>9, ReadWordKeeps DEF Outcomes
<1> QED BY <1>1, <1>3, <1>4, <1>5, <1>6, <1>7, <1>8, <1>9 DEF Ops

-----------------------------------------------------------------------------
(* Memory as a write leaves it                                              *)

LEMMA AimedFollows ==
  ASSUME NEW t, NEW u, NEW size, Aimed(t, size), Follows(t, u)
  PROVE  Aimed(u, size) /\ True(u)
  BY DEF Aimed, Follows, True, Agrees

LEMMA ConfirmExact ==
  ASSUME NEW t, Typed(t)
  PROVE  \A o \in Confirm(t) : Follows(t, o.t) /\ o.t.mem = t.mem /\ SameCore(t, o.t)
                            /\ (o.ok => ~t.sticky)
<1> DEFINE failed(u) == [u EXCEPT !.trouble = TRUE]
           again(u) == [failed(u) EXCEPT !.repeated = TRUE]
           reg == "RDBUFF"
<1>1. Confirm(t) =
        {No(failed(t))} \cup
        (IF ~Answering(t, reg) THEN {}
         ELSE UNION {{Yes(a.val, a.t), No(failed(a.t))} \cup
                     (IF host = "cpp" /\ Answering(a.t, reg)
                      THEN {Yes(b.val, again(b.t)) : b \in Answers(a.t, reg)} ELSE {})
                     : a \in Answers(t, reg)})
  BY DEF Confirm, ReadReg
<1>2. /\ failed(t).mem = t.mem /\ again(t).mem = t.mem
      /\ SameCore(t, t) /\ SameCore(t, failed(t)) /\ SameCore(t, again(t))
  BY DEF Typed, Fields, SameCore
<1>3. \A a \in Answers(t, reg) : a.t = t
  BY DEF Answers
<1>4. Answering(t, reg) => ~t.sticky
  BY DEF Answering
<1> HIDE DEF failed, again, reg
<1>5. \A o \in Confirm(t) :
         \/ o = No(failed(t))
         \/ Answering(t, reg) /\ \E a \in Answers(t, reg) :
              \/ o = Yes(a.val, a.t) \/ o = No(failed(a.t))
              \/ \E b \in Answers(a.t, reg) : o = Yes(b.val, again(b.t))
  BY <1>1
<1>6. \A o \in Confirm(t) :
         \/ ~o.ok /\ o.t = failed(t)
         \/ Answering(t, reg) /\ (o.t = t \/ o.t = failed(t) \/ o.t = again(t))
  BY <1>3, <1>5, OutcomeFields
<1> QED BY <1>2, <1>4, <1>6, ConfirmFollows DEF AllFollow

LEMMA SelectTrue ==
  ASSUME NEW t, True(t), NEW bank \in {0, 1}
  PROVE  \A o \in Select(t, bank) :
           /\ o.t.mem = t.mem /\ (t.repeated => o.t.repeated) /\ SameCore(t, o.t)
           /\ o.ok => True(o.t) /\ o.t.select = bank /\ o.t.tselect = bank
<1> DEFINE u == [t EXCEPT !.select = bank]
<1>1. CASE t.select = bank
  <2>1. Select(t, bank) = {Yes(None, t)}
    BY <1>1 DEF Select
  <2>2. t.tselect = bank
    BY <1>1, SwdTargetAssumption DEF True, Agrees
  <2> QED BY <1>1, <2>1, <2>2, OutcomeFields DEF SameCore
<1>2. CASE t.select # bank
  <2>1. Select(t, bank) = WriteReg(u, "SELECT", bank)
    BY <1>2 DEF Select
  <2>2. Typed(u) /\ u.select = bank /\ u.csw = t.csw /\ u.tcsw = t.tcsw /\ u.mem = t.mem
        /\ u.repeated = t.repeated /\ SameCore(t, u)
    BY DEF True, Typed, Fields, SameCore
  <2>3. Written(u, "SELECT", bank) = {[u EXCEPT !.tselect = bank]}
    BY DEF Written
  <2> HIDE DEF u
  <2> DEFINE w == [u EXCEPT !.tselect = bank]
             f == [u EXCEPT !.trouble = TRUE]
  <2>4. True(w) /\ w.select = bank /\ w.tselect = bank /\ w.mem = t.mem
        /\ w.repeated = t.repeated /\ SameCore(t, w)
    BY <2>2 DEF True, Typed, Fields, Agrees, SameCore
  <2>5. f.mem = t.mem /\ f.repeated = t.repeated /\ SameCore(t, f)
    BY <2>2 DEF Typed, Fields, SameCore
  <2> HIDE DEF w, f
  <2>6. \A o \in WriteReg(u, "SELECT", bank) : (~o.ok /\ o.t = f) \/ (o.ok /\ o.t = w)
    BY <2>3, WriteRegEnds DEF w, f
  <2> QED BY <2>1, <2>4, <2>5, <2>6
<1> QED BY <1>1, <1>2

LEMMA SetCSWTrue ==
  ASSUME NEW t, True(t), NEW size \in {8, 32}
  PROVE  \A o \in SetCSW(t, size) :
           /\ o.t.mem = t.mem /\ (t.repeated => o.t.repeated) /\ SameCore(t, o.t)
           /\ o.ok => Aimed(o.t, size)
<1> DEFINE C(u) == Then(WriteReg([u EXCEPT !.csw = size], "CSW", size), LAMBDA w, x : Confirm(x))
           B(u) == IF u.csw = size THEN {Yes(None, u)} ELSE C(u)
<1>1. \A o \in SetCSW(t, size) :
        \E p \in Select(t, 0) : (p.ok /\ o \in B(p.t)) \/ (~p.ok /\ o = p)
  <2>1. SetCSW(t, size) = UNION {IF o.ok THEN B(o.t) ELSE {o} : o \in Select(t, 0)}
    BY DEF SetCSW, Then
  <2> HIDE DEF B
  <2> QED BY <2>1
<1>2. ASSUME NEW u, True(u), u.select = 0, u.tselect = 0, NEW o \in B(u)
      PROVE  /\ o.t.mem = u.mem /\ (u.repeated => o.t.repeated) /\ SameCore(u, o.t)
             /\ o.ok => Aimed(o.t, size)
  <2>1. CASE u.csw = size
    <3>1. o = Yes(None, u)
      BY <2>1, <1>2
    <3>2. Aimed(u, size)
      BY <1>2, <2>1, SwdTargetAssumption DEF Aimed, True, Agrees
    <3>3. o.t = u
      BY <3>1 DEF Yes
    <3> QED BY <1>2, <3>2, <3>3 DEF SameCore
  <2>2. CASE u.csw # size
    <3> DEFINE n == [u EXCEPT !.csw = size]
               f == [n EXCEPT !.trouble = TRUE]
               w == [n EXCEPT !.tcsw = size]
    <3>1. o \in C(u)
      BY <2>2, <1>2
    <3>2. \E p \in WriteReg(n, "CSW", size) : (p.ok /\ o \in Confirm(p.t)) \/ (~p.ok /\ o = p)
      BY <3>1 DEF Then
    <3>3. /\ Typed(n) /\ n.select = 0 /\ n.csw = size /\ n.tselect = 0 /\ n.mem = u.mem
          /\ n.repeated = u.repeated /\ SameCore(u, n)
      BY <1>2 DEF True, Typed, Fields, SameCore
    <3> HIDE DEF n, C, B
    <3>4. f.mem = u.mem /\ f.repeated = u.repeated /\ SameCore(u, f)
      BY <3>3 DEF Typed, Fields, SameCore
    <3>5. Aimed(w, size) /\ w.mem = u.mem /\ w.repeated = u.repeated /\ SameCore(u, w)
      BY <3>3 DEF Aimed, Typed, Fields, SameCore
    <3>6. Written(n, "CSW", size) = {w}
      BY <3>3 DEF Written
    <3> HIDE DEF w, f
    <3>7. \A p \in WriteReg(n, "CSW", size) : (~p.ok /\ p.t = f) \/ (p.ok /\ p.t = w)
      BY <3>6, WriteRegEnds DEF f
    <3>8. \A q \in Confirm(w) :
            /\ Aimed(q.t, size) /\ q.t.mem = u.mem /\ (u.repeated => q.t.repeated)
            /\ SameCore(u, q.t)
      <4>1. \A q \in Confirm(w) : Follows(w, q.t) /\ q.t.mem = w.mem /\ SameCore(w, q.t)
        BY <3>5, ConfirmExact DEF Aimed
      <4> QED BY <3>5, <4>1, AimedFollows DEF Follows, SameCore
    <3> QED BY <3>2, <3>4, <3>7, <3>8
  <2> QED BY <2>1, <2>2
<1>3. \A p \in Select(t, 0) :
        /\ p.t.mem = t.mem /\ (t.repeated => p.t.repeated) /\ SameCore(t, p.t)
        /\ p.ok => True(p.t) /\ p.t.select = 0 /\ p.t.tselect = 0
  BY SelectTrue
<1> HIDE DEF B
<1> QED BY <1>1, <1>2, <1>3 DEF SameCore

(* TAR is where it was set to, and no error is pending.                     *)
LEMMA TargetSet ==
  ASSUME NEW t, NEW size, Aimed(t, size), NEW a
  PROVE  \A o \in WriteReg(t, "TAR", a) :
           /\ o.t.mem = t.mem /\ SameCore(t, o.t)
           /\ o.ok => Aimed(o.t, size) /\ o.t.tar = a /\ ~o.t.sticky
<1> DEFINE f == [t EXCEPT !.trouble = TRUE]
           w == [t EXCEPT !.tar = a]
<1>1. f.mem = t.mem /\ SameCore(t, f)
  BY DEF Aimed, Typed, Fields, SameCore
<1>2. Aimed(w, size) /\ w.tar = a /\ w.mem = t.mem /\ w.sticky = t.sticky /\ SameCore(t, w)
  BY DEF Aimed, Typed, Fields, SameCore
<1>3. Written(t, "TAR", a) = {w}
  BY DEF Written, Aimed
<1>4. WriteReg(t, "TAR", a) =
        {No(f)} \cup (IF Answering(t, "TAR") THEN {Yes(None, u) : u \in Written(t, "TAR", a)} ELSE {})
  BY DEF WriteReg
<1>5. Answering(t, "TAR") => ~t.sticky
  BY DEF Answering
<1> HIDE DEF f, w
<1>6. \A o \in WriteReg(t, "TAR", a) : o = No(f) \/ (Answering(t, "TAR") /\ o = Yes(None, w))
  BY <1>3, <1>4
<1> QED BY <1>1, <1>2, <1>5, <1>6, OutcomeFields

(* What is written through DRW is in the driven cells and nowhere else, or  *)
(* an error is pending.                                                     *)
LEMMA CellsSet ==
  ASSUME NEW t, NEW size, Aimed(t, size), t.tar \in Cells, NEW v
  PROVE  \A o \in WriteReg(t, "DRW", v) :
           \/ ~o.ok /\ o.t.mem = t.mem
           \/ o.ok /\ Aimed(o.t, size) /\ ~t.sticky /\ o.t.sticky /\ o.t.mem = t.mem
           \/ /\ o.ok /\ Aimed(o.t, size) /\ ~t.sticky
              /\ o.t.tar = Next_TAR(t.tar, IF size = 32 THEN Word ELSE 1)
              /\ \A c \in Cells :
                   o.t.mem[c] = IF c \in Driven(t) THEN v[c % Word] ELSE t.mem[c]
<1> DEFINE m == [c \in Cells |-> IF c \in Driven(t) THEN v[c % Word] ELSE t.mem[c]]
           f == [t EXCEPT !.trouble = TRUE]
           e == [t EXCEPT !.sticky = TRUE]
           w == [t EXCEPT !.mem = m]
           x == Advanced(w)
<1>1. Written(t, "DRW", v) = {x} \cup {e}
  <2>1. Written(t, "DRW", v) = Stored(t, v) \cup BusError(t)
    BY DEF Written, Aimed
  <2>2. Stored(t, v) = {x}
    BY DEF Stored
  <2>3. BusError(t) = {e}
    BY DEF BusError
  <2> QED BY <2>1, <2>2, <2>3
<1>2. \A c \in Cells : m[c] = IF c \in Driven(t) THEN v[c % Word] ELSE t.mem[c]
  OBVIOUS
<1> HIDE DEF m
<1>3. f.mem = t.mem
  BY DEF Aimed, Typed, Fields
<1>4. Aimed(e, size) /\ e.mem = t.mem /\ e.sticky
  BY DEF Aimed, Typed, Fields
<1>5. Aimed(w, size) /\ w.tar = t.tar /\ w.mem = m
  BY DEF Aimed, Typed, Fields
<1> HIDE DEF w
<1>6. Aimed(x, size) /\ x.mem = m /\ x.tar = Next_TAR(t.tar, IF size = 32 THEN Word ELSE 1)
  BY <1>5 DEF Aimed, Typed, Fields, Advanced
<1>7. WriteReg(t, "DRW", v) =
        {No(f)} \cup (IF Answering(t, "DRW") THEN {Yes(None, u) : u \in Written(t, "DRW", v)} ELSE {})
  BY DEF WriteReg
<1>8. Answering(t, "DRW") => ~t.sticky
  BY DEF Answering
<1> HIDE DEF f, e, x
<1>9. \A o \in WriteReg(t, "DRW", v) :
        \/ o = No(f) \/ (Answering(t, "DRW") /\ o = Yes(None, x))
        \/ (Answering(t, "DRW") /\ o = Yes(None, e))
  BY <1>1, <1>7
<1>10. \A o \in WriteReg(t, "DRW", v) :
        \/ ~o.ok /\ o.t = f
        \/ o.ok /\ Answering(t, "DRW") /\ (o.t = x \/ o.t = e)
  BY <1>9, OutcomeFields
<1> QED BY <1>2, <1>3, <1>4, <1>6, <1>8, <1>10

-----------------------------------------------------------------------------
(* Addresses                                                                *)

LEMMA DivisionUnique ==
  ASSUME NEW a \in Nat, NEW d \in Nat \ {0}, NEW q \in Nat, NEW r \in 0 .. d - 1, a = d * q + r
  PROVE  a % d = r
<1> DEFINE Q == a \div d
           R == a % d
<1>1. Q \in Nat /\ R \in 0 .. d - 1 /\ a = d * Q + R
  OBVIOUS
<1> HIDE DEF Q, R
<1>2. d * (q + 1) = d * q + d /\ d * (Q + 1) = d * Q + d /\ d * q \in Nat /\ d * Q \in Nat
  BY <1>1
<1>3. ~(q < Q)
  <2>1. SUFFICES ASSUME q + 1 <= Q PROVE FALSE
    BY <1>1
  <2>2. d * (q + 1) <= d * Q
    BY <1>1, <2>1, TimesMonotone
  <2> QED BY <1>1, <1>2, <2>2
<1>4. ~(Q < q)
  <2>1. SUFFICES ASSUME Q + 1 <= q PROVE FALSE
    BY <1>1
  <2>2. d * (Q + 1) <= d * q
    BY <1>1, <2>1, TimesMonotone
  <2> QED BY <1>1, <1>2, <2>2
<1>5. q = Q
  BY <1>1, <1>3, <1>4
<1> QED BY <1>1, <1>2, <1>5 DEF R

LEMMA Division ==
  ASSUME NEW a \in Nat, NEW d \in Nat \ {0}
  PROVE  \E q \in Nat : a = d * q + (a % d) /\ a % d \in 0 .. d - 1
<1>1. a \div d \in Nat /\ a = d * (a \div d) + (a % d) /\ a % d \in 0 .. d - 1
  OBVIOUS
<1> QED BY <1>1

(* The next address of a page.                                              *)
LEMMA PageStep ==
  ASSUME NEW a \in Nat, NEW n \in Nat, (a % AutoPage) + n < AutoPage
  PROVE  (a + n) % AutoPage = (a % AutoPage) + n /\ Next_TAR(a, n) = a + n
<1>1. AutoPage \in Nat \ {0}
  BY SwdTargetAssumption
<1> DEFINE r == a % AutoPage
<1>2. PICK q \in Nat : a = AutoPage * q + r /\ r \in 0 .. AutoPage - 1
  BY <1>1, Division
<1>3. r + n < AutoPage
  OBVIOUS
<1>5. Next_TAR(a, n) = (a - r) + ((a + n) % AutoPage)
  BY DEF Next_TAR
<1> HIDE DEF r
<1>4. (a + n) % AutoPage = r + n
  <2>1. AutoPage * q \in Nat
    BY <1>1
  <2>2. a + n = AutoPage * q + (r + n) /\ r + n \in 0 .. AutoPage - 1 /\ a + n \in Nat
    BY <1>1, <1>2, <1>3, <2>1
  <2> QED BY <1>1, <2>2, DivisionUnique
<1>6. Next_TAR(a, n) = a + n
  BY <1>2, <1>4, <1>5
<1> QED BY <1>4, <1>6 DEF r

(* Words one behind the other, and their bytes.                             *)
LEMMA WordStep ==
  ASSUME NEW a \in Nat, a % Word = 0, NEW m \in Nat
  PROVE  /\ a + m * Word \in Nat /\ (a + m * Word) % Word = 0
         /\ \A lane \in 0 .. Word - 1 : (a + lane) % Word = lane
         /\ Aligned(a) = a
<1>1. Word \in Nat \ {0}
  BY SwdTargetAssumption
<1>2. PICK q \in Nat : a = Word * q + (a % Word)
  BY <1>1, Division
<1>3. Word * (q + m) = Word * q + Word * m /\ m * Word = Word * m /\ m * Word \in Nat
  BY <1>1
<1>4. a + m * Word = Word * (q + m) + 0
  BY <1>1, <1>2, <1>3
<1>5. (a + m * Word) % Word = 0
  <2>1. a + m * Word \in Nat /\ q + m \in Nat /\ 0 \in 0 .. Word - 1
    BY <1>1, <1>3
  <2> QED BY <1>1, <1>4, <2>1, DivisionUnique
<1>6. ASSUME NEW lane \in 0 .. Word - 1
      PROVE  (a + lane) % Word = lane
  <2>1. a + lane \in Nat /\ a + lane = Word * q + lane
    BY <1>1, <1>2
  <2> QED BY <1>1, <2>1, DivisionUnique
<1> QED BY <1>3, <1>5, <1>6 DEF Aligned

-----------------------------------------------------------------------------
(* A byte                                                                   *)

LEMMA ByteSet ==
  ASSUME NEW t, Aimed(t, 8), NEW a \in Cells, NEW v
  PROVE  \A o \in WriteData(t, a, v) :
           /\ \A c \in Cells : c # a => o.t.mem[c] = t.mem[c]
           /\ o.ok => True(o.t) /\ o.t.mem[a] = v[a % Word]
<1>1. \A o \in WriteData(t, a, v) :
        \E p \in WriteReg(t, "TAR", a) :
          \/ ~p.ok /\ o = p
          \/ p.ok /\ \E q \in WriteReg(p.t, "DRW", v) :
               (q.ok /\ o \in Confirm(q.t)) \/ (~q.ok /\ o = q)
  BY DEF WriteData, Then
<1>2. \A p \in WriteReg(t, "TAR", a) :
        p.t.mem = t.mem /\ (p.ok => Aimed(p.t, 8) /\ p.t.tar = a)
  BY TargetSet
<1>3. ASSUME NEW w, Aimed(w, 8), w.tar = a, w.mem = t.mem,
             NEW q \in WriteReg(w, "DRW", v)
      PROVE  /\ \A c \in Cells : c # a => q.t.mem[c] = t.mem[c]
             /\ q.ok => Aimed(q.t, 8) /\ (q.t.sticky \/ q.t.mem[a] = v[a % Word])
  <2>1. Driven(w) = {a}
    BY <1>3 DEF Driven, Aimed
  <2> QED BY <1>3, <2>1, CellsSet
<1>4. ASSUME NEW u, Aimed(u, 8), NEW o \in Confirm(u)
      PROVE  o.t.mem = u.mem /\ True(o.t) /\ (o.ok => ~u.sticky)
  BY <1>4, ConfirmExact, AimedFollows DEF Aimed
<1> QED BY <1>1, <1>2, <1>3, <1>4

LEMMA WriteByteExact ==
  ASSUME NEW t, True(t), NEW a \in Cells, NEW v
  PROVE  \A o \in WriteByte(t, a, v) :
           /\ \A c \in Cells : c # a => o.t.mem[c] = t.mem[c]
           /\ o.ok => True(o.t) /\ o.t.mem[a] = v
<1> DEFINE w == [lane \in 0 .. Word - 1 |-> IF lane = a % Word THEN v ELSE 0]
<1>1. \A o \in WriteByte(t, a, v) :
        \E p \in SetCSW(t, 8) : (p.ok /\ o \in WriteData(p.t, a, w)) \/ (~p.ok /\ o = p)
  BY DEF WriteByte, Then
<1>2. \A p \in SetCSW(t, 8) : p.t.mem = t.mem /\ (p.ok => Aimed(p.t, 8))
  BY SetCSWTrue
<1>3. w[a % Word] = v
  <2>1. a \in Nat /\ Word \in Nat \ {0}
    BY CellsAreNumbers, SwdTargetAssumption
  <2>2. a % Word \in 0 .. Word - 1
    BY <2>1
  <2> QED BY <2>2
<1> HIDE DEF w
<1> QED BY <1>1, <1>2, <1>3, ByteSet

-----------------------------------------------------------------------------
(* A block                                                                  *)

(* Whole words that end with the page.                                      *)
IsBlock(q) ==
  /\ q.a \in Nat /\ q.a % Word = 0
  /\ Len(q.data) \in Nat /\ Len(q.data) % Word = 0
  /\ (q.a % AutoPage) + Len(q.data) <= AutoPage
  /\ q.a .. q.a + Len(q.data) - 1 \subseteq Cells

LEMMA WordsOf ==
  ASSUME NEW n \in Nat, n % Word = 0
  PROVE  /\ n \div Word \in Nat /\ (n \div Word) * Word = n
         /\ \A m \in 0 .. (n \div Word) : m + 1 \in 0 .. (n \div Word) =>
              /\ m * Word \in Nat /\ (m + 1) * Word = m * Word + Word
              /\ m * Word + Word <= n
<1>1. Word \in Nat \ {0}
  BY SwdTargetAssumption
<1> DEFINE k == n \div Word
<1>2. k \in Nat /\ n = Word * k
  BY <1>1
<1> HIDE DEF k
<1>3. ASSUME NEW m \in 0 .. k, m + 1 \in 0 .. k
      PROVE  /\ m * Word \in Nat /\ (m + 1) * Word = m * Word + Word
             /\ m * Word + Word <= n
  <2>1. m \in Nat /\ m + 1 <= k
    BY <1>2, <1>3
  <2>2. Word * (m + 1) <= Word * k
    BY <1>1, <1>2, <2>1, TimesMonotone
  <2> QED BY <1>1, <1>2, <2>1, <2>2
<1>4. k * Word = n
  BY <1>1, <1>2
<1> QED BY <1>2, <1>3, <1>4 DEF k

(* The word k of the data at the address of its first byte.                 *)
LEMMA WordWritten ==
  ASSUME NEW w, Aimed(w, 32), NEW b \in Nat, w.tar = b, b % Word = 0, NEW c \in Cells
  PROVE  /\ c \in Driven(w) <=> c \in b .. b + Word - 1
         /\ c \in b .. b + Word - 1 => c % Word = c - b /\ c - b \in 0 .. Word - 1
<1>1. Word \in Nat \ {0} /\ c \in Nat
  BY SwdTargetAssumption, CellsAreNumbers
<1>2. Driven(w) = {b + lane : lane \in 0 .. Word - 1}
  BY WordStep DEF Driven, Aimed
<1>3. c \in b .. b + Word - 1 => c - b \in 0 .. Word - 1 /\ c = b + (c - b)
  BY <1>1
<1>4. c \in b .. b + Word - 1 => c % Word = c - b
  BY <1>3, WordStep
<1> QED BY <1>1, <1>2, <1>3, <1>4

LEMMA WordAtPlace ==
  ASSUME NEW data, NEW m \in Nat, m * Word \in Nat, NEW i \in 0 .. Word - 1
  PROVE  WordAt(data, m)[i] = data[m * Word + i + 1]
  BY DEF WordAt

LEMMA StickyRefuses ==
  ASSUME NEW t, Typed(t), t.sticky, NEW v
  PROVE  \A o \in WriteReg(t, "DRW", v) : ~o.ok /\ o.t.mem = t.mem
<1> DEFINE f == [t EXCEPT !.trouble = TRUE]
<1>1. f.mem = t.mem
  BY DEF Typed, Fields
<1>2. WriteReg(t, "DRW", v) = {No(f)}
  BY DEF WriteReg, Answering
<1> HIDE DEF f
<1> QED BY <1>1, <1>2, OutcomeFields

LEMMA PlaceFacts ==
  ASSUME NEW q, IsBlock(q), NEW m \in 0 .. Len(q.data) \div Word,
         m + 1 \in 0 .. Len(q.data) \div Word
  PROVE  LET b == Place(q, m)
             e == Place(q, m + 1)
         IN  /\ b \in Cells /\ b \in Nat /\ b % Word = 0 /\ b >= q.a
             /\ e = b + Word /\ e <= q.a + Len(q.data)
             /\ \A i \in 0 .. Word - 1 : WordAt(q.data, m)[i] = q.data[b - q.a + i + 1]
             /\ e < q.a + Len(q.data) => Next_TAR(b, Word) = e
<1> DEFINE L == Len(q.data)
           x == m * Word
           b == q.a + x
<1>1. /\ Word \in Nat \ {0} /\ AutoPage \in Nat \ {0}
      /\ q.a \in Nat /\ L \in Nat /\ q.a % Word = 0 /\ m \in Nat
      /\ (q.a % AutoPage) + L <= AutoPage /\ q.a .. q.a + L - 1 \subseteq Cells
  BY SwdTargetAssumption DEF IsBlock
<1>2. x \in Nat /\ (m + 1) * Word = x + Word /\ x + Word <= L
  BY <1>1, WordsOf DEF IsBlock
<1>3. Place(q, m) = b /\ Place(q, m + 1) = b + Word
  BY <1>1, <1>2 DEF Place
<1>4. b \in Nat /\ b % Word = 0
  BY <1>1, WordStep
<1>5. \A i \in 0 .. Word - 1 : WordAt(q.data, m)[i] = q.data[x + i + 1]
  BY <1>1, <1>2, WordAtPlace
<1> HIDE DEF x
<1>6. b \in q.a .. q.a + L - 1
  BY <1>1, <1>2
<1>7. \A i \in 0 .. Word - 1 : x + i + 1 = b - q.a + i + 1
  BY <1>1, <1>2
<1>8. b + Word < q.a + L => Next_TAR(b, Word) = b + Word
  <2>1. SUFFICES ASSUME b + Word < q.a + L PROVE Next_TAR(b, Word) = b + Word
    OBVIOUS
  <2> DEFINE r == q.a % AutoPage
  <2>2. r \in Nat /\ r + L <= AutoPage
    BY <1>1
  <2>a. b + Word < q.a + L => x + Word < L
    BY <1>1, <1>2
  <2> HIDE DEF r, L
  <2>3. r + x < AutoPage /\ r + x + Word < AutoPage
    BY <1>1, <1>2, <2>1, <2>2, <2>a
  <2>4. b % AutoPage = r + x
    BY <1>1, <1>2, <2>3, PageStep DEF r
  <2>5. (b % AutoPage) + Word < AutoPage
    BY <2>3, <2>4
  <2> HIDE DEF b
  <2> QED BY <1>1, <1>4, <2>5, PageStep
<1>9. b >= q.a /\ b + Word <= q.a + L
  BY <1>1, <1>2
<1> HIDE DEF b, L
<1> QED BY <1>1, <1>3, <1>4, <1>5, <1>6, <1>7, <1>8, <1>9 DEF L

LEMMA BlockStep ==
  ASSUME NEW q, IsBlock(q), NEW m \in 0 .. Len(q.data) \div Word,
         m + 1 \in 0 .. Len(q.data) \div Word, NEW outs, \A o \in outs : BlockAt(q, m, o)
  PROVE  \A o \in FoldStep("put", q.data, outs, m) : BlockAt(q, m + 1, o)
<1> DEFINE v == WordAt(q.data, m)
           b == Place(q, m)
           e == Place(q, m + 1)
           L == Len(q.data)
           out(c) == c \notin q.a .. q.a + L - 1
<1>1. \A o \in FoldStep("put", q.data, outs, m) :
        \E p \in outs : (p.ok /\ o \in WriteReg(p.t, "DRW", v)) \/ (~p.ok /\ o = p)
  BY DEF FoldStep, Then
<1>2. /\ b \in Cells /\ b \in Nat /\ b % Word = 0 /\ b >= q.a
      /\ e = b + Word /\ e <= q.a + L
      /\ \A i \in 0 .. Word - 1 : v[i] = q.data[b - q.a + i + 1]
      /\ e < q.a + L => Next_TAR(b, Word) = e
  BY PlaceFacts
<1>3. Word \in Nat \ {0} /\ q.a \in Nat /\ L \in Nat
  BY SwdTargetAssumption DEF IsBlock
<1>6. \A c \in Cells : c \in Nat
  BY CellsAreNumbers
<1> HIDE DEF v, b, e, L
<1>8. ASSUME NEW p \in outs, p.ok, NEW o \in WriteReg(p.t, "DRW", v)
      PROVE  BlockAt(q, m + 1, o)
  <2> DEFINE t == p.t
  <2>1. /\ Aimed(t, 32) /\ \A c \in Cells : out(c) => t.mem[c] = q.mem[c]
        /\ \/ t.sticky
           \/ t.tar = b /\ \A c \in Cells : c \in q.a .. b - 1 => t.mem[c] = q.data[c - q.a + 1]
    <3>1. b < q.a + L
      BY <1>2, <1>3
    <3>2. BlockAt(q, m, p)
      OBVIOUS
    <3> QED BY <1>8, <3>1, <3>2 DEF BlockAt, b, L
  <2>2. o \in WriteReg(t, "DRW", v)
    BY <1>8
  <2> HIDE DEF t
  <2>3. ASSUME ~o.ok, o.t.mem = t.mem
        PROVE  BlockAt(q, m + 1, o)
    BY <2>1, <2>3 DEF BlockAt, L
  <2>4. CASE t.sticky
    BY <2>1, <2>2, <2>3, <2>4, StickyRefuses DEF Aimed
  <2>5. CASE ~t.sticky
    <3>1. t.tar = b /\ \A c \in Cells : c \in q.a .. b - 1 => t.mem[c] = q.data[c - q.a + 1]
      BY <2>1, <2>5
    <3>2. \/ ~o.ok /\ o.t.mem = t.mem
          \/ o.ok /\ Aimed(o.t, 32) /\ o.t.sticky /\ o.t.mem = t.mem
          \/ /\ o.ok /\ Aimed(o.t, 32) /\ o.t.tar = Next_TAR(b, Word)
             /\ \A c \in Cells : o.t.mem[c] = IF c \in Driven(t) THEN v[c % Word] ELSE t.mem[c]
      BY <1>2, <2>1, <2>2, <3>1, CellsSet
    <3>3. CASE o.ok /\ Aimed(o.t, 32) /\ o.t.sticky /\ o.t.mem = t.mem
      BY <2>1, <3>3 DEF BlockAt, L
    <3>4. CASE /\ o.ok /\ Aimed(o.t, 32) /\ o.t.tar = Next_TAR(b, Word)
               /\ \A c \in Cells : o.t.mem[c] = IF c \in Driven(t) THEN v[c % Word] ELSE t.mem[c]
      <4>1. \A c \in Cells :
              /\ c \in Driven(t) <=> c \in b .. b + Word - 1
              /\ c \in b .. b + Word - 1 => c % Word = c - b /\ c - b \in 0 .. Word - 1
        BY <1>2, <2>1, <3>1, WordWritten
      <4>2. \A c \in Cells : out(c) => o.t.mem[c] = q.mem[c]
        <5>1. \A c \in Cells : out(c) => c \notin b .. b + Word - 1
          BY <1>2, <1>3, <1>6
        <5> HIDE DEF out
        <5> QED BY <2>1, <3>4, <4>1, <5>1
      <4>3. ASSUME NEW c \in Cells, c \in q.a .. e - 1
            PROVE  o.t.mem[c] = q.data[c - q.a + 1]
        <5>1. CASE c \in b .. b + Word - 1
          <6>1. o.t.mem[c] = v[c - b] /\ c - b \in 0 .. Word - 1
            BY <3>4, <4>1, <5>1
          <6>0. b \in Int /\ q.a \in Int /\ c \in Int
            BY <1>2, <1>3, <1>6
          <6>a. \A x, y, z \in Int : x - y + (z - x) + 1 = z - y + 1
            OBVIOUS
          <6>2. b - q.a + (c - b) + 1 = c - q.a + 1
            BY <6>0, <6>a
          <6> QED BY <1>2, <6>1, <6>2
        <5>2. CASE c \notin b .. b + Word - 1
          <6>1. c \in q.a .. b - 1
            BY <1>2, <1>3, <1>6, <4>3, <5>2
          <6> QED BY <3>1, <3>4, <4>1, <5>2, <6>1
        <5> QED BY <5>1, <5>2
      <4> QED BY <1>2, <3>4, <4>2, <4>3 DEF BlockAt, e, L
    <3> QED BY <2>3, <3>2, <3>3, <3>4
  <2> QED BY <2>4, <2>5
<1>9. ASSUME NEW p \in outs, ~p.ok
      PROVE  BlockAt(q, m + 1, p)
  BY <1>9 DEF BlockAt
<1> QED BY <1>1, <1>8, <1>9

LEMMA PlaceEnds ==
  ASSUME NEW q, IsBlock(q)
  PROVE  LET n == Len(q.data) \div Word
         IN  n \in Nat /\ Place(q, 0) = q.a /\ Place(q, n) = q.a + Len(q.data)
<1>1. Word \in Nat \ {0} /\ q.a \in Nat
  BY SwdTargetAssumption DEF IsBlock
<1>2. 0 * Word = 0
  BY <1>1
<1>3. /\ Len(q.data) \div Word \in Nat
      /\ (Len(q.data) \div Word) * Word = Len(q.data)
  BY WordsOf DEF IsBlock
<1>4. Place(q, 0) = q.a
  <2>1. Place(q, 0) = q.a + 0 * Word
    BY DEF Place
  <2> QED BY <1>1, <1>2, <2>1
<1>5. Place(q, Len(q.data) \div Word) = q.a + Len(q.data)
  <2>1. Place(q, Len(q.data) \div Word) = q.a + (Len(q.data) \div Word) * Word
    BY DEF Place
  <2> QED BY <1>3, <2>1
<1> QED BY <1>3, <1>4, <1>5

(* A piece writes its part of the data, and nothing else.                   *)
PieceDone(a, n, data, from, t, o) ==
  /\ \A c \in Cells : c \notin a .. a + n - 1 => o.t.mem[c] = t.mem[c]
  /\ o.ok => /\ True(o.t)
             /\ \A c \in Cells : c \in a .. a + n - 1 => o.t.mem[c] = data[c - from + 1]

LEMMA BlockSplit ==
  ASSUME NEW q, NEW n, NEW o, BlockAt(q, n, o)
  PROVE  /\ \A c \in Cells : c \notin q.a .. q.a + Len(q.data) - 1 => o.t.mem[c] = q.mem[c]
         /\ o.ok => Aimed(o.t, 32)
         /\ o.ok /\ ~o.t.sticky => \A c \in Cells : c \in q.a .. Place(q, n) - 1 =>
              o.t.mem[c] = q.data[c - q.a + 1]
  BY DEF BlockAt

LEMMA BlockDone ==
  ASSUME NEW q, IsBlock(q), NEW n, Place(q, n) = q.a + Len(q.data), NEW o, BlockAt(q, n, o)
  PROVE  o.ok /\ ~o.t.sticky => \A c \in Cells : c \in q.a .. q.a + Len(q.data) - 1 =>
           o.t.mem[c] = q.data[c - q.a + 1]
<1> DEFINE x == Place(q, n)
           y == q.a + Len(q.data)
           X == q.a .. x - 1
           Y == q.a .. q.a + Len(q.data) - 1
<1>1. o.ok /\ ~o.t.sticky => \A c \in Cells : c \in X => o.t.mem[c] = q.data[c - q.a + 1]
  BY BlockSplit
<1>2. X = Y
  <2>1. x = y
    OBVIOUS
  <2>2. Y = q.a .. y - 1
    BY DEF IsBlock
  <2> HIDE DEF x, y, Y
  <2> QED BY <2>1, <2>2
<1> HIDE DEF X, Y
<1>3. o.ok /\ ~o.t.sticky => \A c \in Cells : c \in Y => o.t.mem[c] = q.data[c - q.a + 1]
  BY <1>1, <1>2
<1> QED BY <1>3 DEF Y

LEMMA WriteBlockExact ==
  ASSUME NEW t, True(t), NEW q, IsBlock(q), q.mem = t.mem
  PROVE  \A o \in WriteBlock(t, q.a, q.data) :
           PieceDone(q.a, Len(q.data), q.data, q.a, t, o)
<1> DEFINE X == Then(SetCSW(t, 32), LAMBDA x, u : WriteReg(u, "TAR", q.a))
           n == Len(q.data) \div Word
           seq == [i \in 1 .. n |-> i - 1]
           F(u) == FoldLeft(LAMBDA outs, k : Then(outs, LAMBDA y, w : WriteReg(w, "DRW", WordAt(q.data, k))),
                            {Yes(None, u)}, [i \in 1 .. Len(q.data) \div Word |-> i - 1])
           R(u) == Then(F(u), LAMBDA y, w : Confirm(w))
<1>1. WriteBlock(t, q.a, q.data) = Then(X, LAMBDA x, u : R(u))
  BY DEF WriteBlock
<1>2. \A o \in X : o.t.mem = t.mem /\ (o.ok => Aimed(o.t, 32) /\ o.t.tar = q.a)
  <2>1. \A o \in X :
          \E p \in SetCSW(t, 32) : (p.ok /\ o \in WriteReg(p.t, "TAR", q.a)) \/ (~p.ok /\ o = p)
    BY DEF Then
  <2>2. \A p \in SetCSW(t, 32) : p.t.mem = t.mem /\ (p.ok => Aimed(p.t, 32))
    BY SetCSWTrue
  <2> HIDE DEF X
  <2> QED BY <2>1, <2>2, TargetSet
<1>3. n \in Nat /\ Place(q, 0) = q.a /\ Place(q, n) = q.a + Len(q.data)
  BY PlaceEnds
<1>4. ASSUME NEW u, Aimed(u, 32), u.tar = q.a, u.mem = t.mem
      PROVE  \A o \in F(u) : BlockAt(q, n, o)
  <2> DEFINE base == {Yes(None, u)}
  <2>1. PICK g : FoldIter("put", q.data, base, seq, n, g) /\ F(u) = g[1 .. n]
    BY PutsFold DEF IsBlock
  <2>2. BlockAt(q, 0, Yes(None, u))
    <3>1. Yes(None, u).ok /\ Yes(None, u).t = u
      BY OutcomeFields
    <3>2. \A c \in Cells : c \notin q.a .. Place(q, 0) - 1
      BY <1>3, CellsAreNumbers DEF IsBlock
    <3> QED BY <1>3, <1>4, <3>1, <3>2 DEF BlockAt
  <2>3. FoldAt("put", "block", q, 0, base)
    BY <2>2 DEF FoldAt
  <2>4. ASSUME NEW m \in 0 .. n, m + 1 \in 0 .. n, NEW outs, FoldAt("put", "block", q, m, outs)
        PROVE  FoldAt("put", "block", q, m + 1, FoldStep("put", q.data, outs, seq[m + 1]))
    <3>1. seq[m + 1] = m
      <4>1. m + 1 \in 1 .. n
        BY <1>3, <2>4
      <4> QED BY <4>1
    <3>2. \A o \in outs : BlockAt(q, m, o)
      BY <2>4 DEF FoldAt
    <3>3. \A o \in FoldStep("put", q.data, outs, m) : BlockAt(q, m + 1, o)
      BY <2>4, <3>2, BlockStep
    <3> HIDE DEF seq
    <3> QED BY <3>1, <3>3 DEF FoldAt
  <2> HIDE DEF base, n, seq, F
  <2>5. FoldAt("put", "block", q, n, g[1 .. n])
    BY <1>3, <2>1, <2>3, <2>4, FoldReaches
  <2> QED BY <2>1, <2>5 DEF FoldAt
<1>5. \A u : \A o \in R(u) : \E p \in F(u) : (p.ok /\ o \in Confirm(p.t)) \/ (~p.ok /\ o = p)
  <2> HIDE DEF F
  <2> QED BY DEF Then
<1> HIDE DEF R, F, X, n
<1>6. \A o \in WriteBlock(t, q.a, q.data) :
        \E p \in X : (p.ok /\ o \in R(p.t)) \/ (~p.ok /\ o = p)
  BY <1>1 DEF Then
<1>7. ASSUME NEW p, BlockAt(q, n, p)
      PROVE  /\ \A c \in Cells :
                  c \notin q.a .. q.a + Len(q.data) - 1 => p.t.mem[c] = t.mem[c]
             /\ p.ok => /\ Aimed(p.t, 32)
                        /\ ~p.t.sticky => \A c \in Cells : c \in q.a .. q.a + Len(q.data) - 1 =>
                             p.t.mem[c] = q.data[c - q.a + 1]
  BY <1>3, <1>7, BlockSplit, BlockDone
<1>8. ASSUME NEW u, Aimed(u, 32), NEW o \in Confirm(u)
      PROVE  o.t.mem = u.mem /\ True(o.t) /\ (o.ok => ~u.sticky)
  BY <1>8, ConfirmExact, AimedFollows DEF Aimed
<1>9. ASSUME NEW u, Aimed(u, 32), u.tar = q.a, u.mem = t.mem, NEW o \in R(u)
      PROVE  /\ \A c \in Cells :
                  c \notin q.a .. q.a + Len(q.data) - 1 => o.t.mem[c] = t.mem[c]
             /\ o.ok => /\ True(o.t)
                        /\ \A c \in Cells : c \in q.a .. q.a + Len(q.data) - 1 =>
                             o.t.mem[c] = q.data[c - q.a + 1]
  <2>1. PICK p \in F(u) : (p.ok /\ o \in Confirm(p.t)) \/ (~p.ok /\ o = p)
    BY <1>5
  <2>2. BlockAt(q, n, p)
    BY <1>4, <1>9
  <2> QED BY <1>7, <1>8, <2>1, <2>2
<1> QED BY <1>2, <1>6, <1>9 DEF PieceDone

-----------------------------------------------------------------------------
(* An access                                                                *)

(* Words that are no bytes end with the page.                               *)
LEMMA PieceFits ==
  ASSUME NEW a \in Nat, NEW size \in Nat \ {0}, ~PieceAt(a, size).byte
  PROVE  /\ a % Word = 0 /\ PieceAt(a, size).n % Word = 0
         /\ (a % AutoPage) + PieceAt(a, size).n <= AutoPage
<1> DEFINE r == a % AutoPage
           n == AutoPage - r
           k == size % Word
<1>1. Word \in Nat \ {0} /\ AutoPage \in Nat \ {0} /\ AutoPage % Word = 0
  BY SwdTargetAssumption
<1>2. ~Bytewise(a, size)
  BY DEF PieceAt
<1>3. PieceAt(a, size).n = IF size < n THEN size - k ELSE n
  BY <1>2 DEF PieceAt, Room
<1>4. a % Word = 0
  BY <1>2 DEF Bytewise
<1>5. PICK x \in Nat : a = Word * x + 0
  BY <1>1, <1>4, Division
<1>6. PICK y \in Nat : AutoPage = Word * y + 0
  BY <1>1, Division
<1>7. PICK z \in Nat : a = AutoPage * z + r /\ r \in 0 .. AutoPage - 1
  BY <1>1, Division
<1>8. PICK w \in Nat : size = Word * w + k /\ k \in 0 .. Word - 1
  BY <1>1, Division
<1> HIDE DEF r, k
<1>9. (size - k) % Word = 0
  <2>1. size - k = Word * w + 0 /\ size - k \in Nat /\ 0 \in 0 .. Word - 1
    BY <1>1, <1>8
  <2> QED BY <1>1, <2>1, DivisionUnique
<1>10. n \in Nat /\ n > 0 /\ r + n = AutoPage
  BY <1>1, <1>7
<1>11. n % Word = 0
  <2>1. AutoPage * (z + 1) = a + n
    <3>1. AutoPage * (z + 1) = AutoPage * z + AutoPage
      BY <1>1
    <3> QED BY <1>1, <1>7, <1>10, <3>1
  <2>2. AutoPage * (z + 1) = Word * (y * (z + 1))
    BY <1>1, <1>6
  <2> DEFINE Y == y * (z + 1)
  <2>3. Y \in Nat
    OBVIOUS
  <2>4. n = Word * Y - Word * x
    BY <1>1, <1>5, <1>7, <1>10, <2>1, <2>2
  <2> HIDE DEF Y, n
  <2>5. x <= Y
    <3>1. SUFFICES ASSUME Y <= x PROVE Word * Y <= Word * x
      BY <1>1, <1>10, <2>3, <2>4
    <3> QED BY <1>1, <2>3, <3>1, TimesMonotone
  <2>6. Y - x \in Nat /\ n = Word * (Y - x) + 0
    BY <1>1, <2>3, <2>4, <2>5
  <2>7. 0 \in 0 .. Word - 1
    BY <1>1
  <2> QED BY <1>1, <1>10, <2>6, <2>7, DivisionUnique
<1>12. r + PieceAt(a, size).n <= AutoPage
  BY <1>1, <1>3, <1>7, <1>8, <1>10
<1> QED BY <1>3, <1>4, <1>9, <1>11, <1>12 DEF r

(* An access to memory, and its pieces.                                     *)
IsAccess(q) ==
  /\ q.addr \in Nat /\ q.size \in Nat
  /\ q.addr .. q.addr + q.size - 1 \subseteq Cells
  /\ Row(q.seq, q.addr, q.addr + q.size)

IsWrite(q) == IsAccess(q) /\ q.data \in Seq(Nat) /\ q.size = Len(q.data)

LEMMA PieceOf ==
  ASSUME NEW q, IsAccess(q), NEW m \in 0 .. Len(q.seq), m + 1 \in 0 .. Len(q.seq)
  PROVE  LET x == q.seq[m + 1]
             e == q.addr + q.size
         IN  /\ x = PieceAt(x.a, e - x.a) /\ x.a \in Cells /\ x.a \in q.addr .. e - 1
             /\ x.n \in 1 .. e - x.a
             /\ Done(q, m) = x.a /\ Done(q, m + 1) = x.a + x.n
<1> DEFINE n == Len(q.seq)
           i == m + 1
           x == q.seq[i]
           L == q.size
           e == q.addr + L
<1>1. n \in Nat /\ q.addr \in Nat /\ L \in Nat /\ i \in 1 .. n /\ e \in Nat
  BY DEF IsAccess, Row
<1>2. /\ x.a \in q.addr .. e - 1 /\ x = PieceAt(x.a, e - x.a)
      /\ x.a + x.n = IF i = n THEN e ELSE q.seq[i + 1].a
  BY <1>1 DEF IsAccess, Row
<1>3. e - 1 = q.addr + L - 1
  <2> HIDE DEF L
  <2> QED BY <1>1
<1>4. x.a \in Cells
  BY <1>2, <1>3 DEF IsAccess
<1>5. Done(q, m) = x.a /\ Done(q, m + 1) = x.a + x.n
  <2>1. m # n
    BY <1>1
  <2>2. Done(q, m + 1) = IF i = n THEN e ELSE q.seq[i + 1].a
    BY DEF Done
  <2> QED BY <1>2, <2>1, <2>2 DEF Done
<1> HIDE DEF x, e, n, i, L
<1>6. x.n \in 1 .. e - x.a
  <2>1. x.a \in Nat /\ e - x.a \in Nat \ {0}
    BY <1>1, <1>2
  <2>2. PieceAt(x.a, e - x.a).n \in 1 .. e - x.a
    BY <1>4, <2>1, PieceInside
  <2> QED BY <1>2, <2>2
<1> QED BY <1>2, <1>4, <1>5, <1>6 DEF x, e, i, L

LEMMA PartOf ==
  ASSUME NEW d \in Seq(Nat), NEW b \in Nat, NEW a \in Nat, NEW n \in Nat,
         a >= b, a + n <= b + Len(d)
  PROVE  /\ Len(SubSeq(d, a - b + 1, a - b + n)) = n
         /\ \A k \in 1 .. n : SubSeq(d, a - b + 1, a - b + n)[k] = d[a - b + k]
<1> DEFINE i == a - b + 1
           j == a - b + n
<1>1. /\ i \in Int /\ j \in Int /\ \A k \in i .. j : k \in 1 .. Len(d)
      /\ j - i + 1 = n /\ (i <= j <=> n # 0)
  OBVIOUS
<1>2. \A k \in 1 .. n : i + k - 1 = a - b + k
  OBVIOUS
<1> HIDE DEF i, j
<1>3. /\ Len(SubSeq(d, i, j)) = IF i <= j THEN j - i + 1 ELSE 0
      /\ \A k \in 1 .. j - i + 1 : SubSeq(d, i, j)[k] = d[i + k - 1]
  <2>1. \A k \in i .. j : d[k] \in Nat
    BY <1>1
  <2> QED BY <1>1, <2>1, SubSeqProperties
<1> QED BY <1>1, <1>2, <1>3 DEF i, j

(* What becomes of a piece.                                                 *)
PieceOutcomes(q, x, t) ==
  IF x.byte THEN WriteByte(t, x.a, q.data[x.a - q.addr + 1])
  ELSE WriteBlock(t, x.a, SubSeq(q.data, x.a - q.addr + 1, x.a - q.addr + x.n))

LEMMA ByteDone ==
  ASSUME NEW a \in Cells, NEW data, NEW from, NEW t, True(t)
  PROVE  \A o \in WriteByte(t, a, data[a - from + 1]) : PieceDone(a, 1, data, from, t, o)
<1>1. \A c \in Cells : c \in a .. a + 1 - 1 <=> c = a
  BY CellsAreNumbers
<1>2. \A o \in WriteByte(t, a, data[a - from + 1]) :
        /\ \A c \in Cells : c # a => o.t.mem[c] = t.mem[c]
        /\ o.ok => True(o.t) /\ o.t.mem[a] = data[a - from + 1]
  BY WriteByteExact
<1> QED BY <1>1, <1>2 DEF PieceDone

LEMMA BlockPieceDone ==
  ASSUME NEW data \in Seq(Nat), NEW from \in Nat, NEW a \in Nat, NEW n \in Nat,
         a >= from, a + n <= from + Len(data), a .. a + n - 1 \subseteq Cells,
         a % Word = 0, n % Word = 0, (a % AutoPage) + n <= AutoPage, NEW t, True(t)
  PROVE  \A o \in WriteBlock(t, a, SubSeq(data, a - from + 1, a - from + n)) :
           PieceDone(a, n, data, from, t, o)
<1> DEFINE d == SubSeq(data, a - from + 1, a - from + n)
           b == [a |-> a, data |-> d, mem |-> t.mem]
<1>1. Len(d) = n /\ \A k \in 1 .. n : d[k] = data[a - from + k]
  BY PartOf
<1> HIDE DEF d
<1>2. b.a = a /\ b.data = d /\ b.mem = t.mem
  OBVIOUS
<1> HIDE DEF b
<1>3. IsBlock(b)
  BY <1>1, <1>2 DEF IsBlock
<1>4. \A o \in WriteBlock(t, b.a, b.data) :
        PieceDone(b.a, Len(b.data), b.data, b.a, t, o)
  BY <1>2, <1>3, WriteBlockExact
<1>5. \A o \in WriteBlock(t, a, d) :
        /\ \A c \in Cells : c \notin a .. a + n - 1 => o.t.mem[c] = t.mem[c]
        /\ o.ok => /\ True(o.t)
                   /\ \A c \in Cells : c \in a .. a + n - 1 => o.t.mem[c] = d[c - a + 1]
  BY <1>1, <1>2, <1>4 DEF PieceDone
<1>6. ASSUME NEW c \in Cells, c \in a .. a + n - 1
      PROVE  d[c - a + 1] = data[c - from + 1]
  <2>1. c \in Int
    BY CellsAreNumbers
  <2>2. \A x, y, z \in Int : x - y + (z - x + 1) = z - y + 1
    OBVIOUS
  <2>3. c - a + 1 \in 1 .. n /\ a - from + (c - a + 1) = c - from + 1
    BY <1>6, <2>1, <2>2
  <2> QED BY <1>1, <2>3
<1> QED BY <1>5, <1>6 DEF PieceDone, d

LEMMA PieceExact ==
  ASSUME NEW q, IsWrite(q), NEW m \in 0 .. Len(q.seq), m + 1 \in 0 .. Len(q.seq),
         NEW t, True(t)
  PROVE  LET x == q.seq[m + 1]
         IN  \A o \in PieceOutcomes(q, x, t) : PieceDone(x.a, x.n, q.data, q.addr, t, o)
<1> DEFINE x == q.seq[m + 1]
           a == x.a
           n == x.n
           z == q.addr + Len(q.data) - x.a
<1>0. /\ x = PieceAt(a, (q.addr + Len(q.data)) - a) /\ a \in Cells
      /\ a \in q.addr .. (q.addr + Len(q.data)) - 1
      /\ n \in 1 .. (q.addr + Len(q.data)) - a
  BY PieceOf DEF IsWrite
<1>1. /\ q.addr \in Nat /\ Len(q.data) \in Nat /\ q.data \in Seq(Nat)
      /\ q.addr .. q.addr + Len(q.data) - 1 \subseteq Cells
  BY DEF IsWrite, IsAccess
<1>2. PieceOutcomes(q, x, t) =
        IF x.byte THEN WriteByte(t, a, q.data[a - q.addr + 1])
        ELSE WriteBlock(t, a, SubSeq(q.data, a - q.addr + 1, a - q.addr + n))
  BY DEF PieceOutcomes
<1> DEFINE L == Len(q.data)
           b == q.addr
<1>3. z = (b + L) - a /\ b \in Nat /\ L \in Nat
  <2>1. a \in Int
    BY <1>0, <1>1
  <2> HIDE DEF x, L, a, b
  <2>2. \A i, j, k \in Int : i + j - k = (i + j) - k
    OBVIOUS
  <2> QED BY <1>1, <2>1, <2>2 DEF a, b, L
<1>4. x = PieceAt(a, z) /\ a \in Cells /\ a \in b .. (b + L) - 1 /\ n \in 1 .. z
  BY <1>0, <1>3
<1> HIDE DEF x, a, n, z, b, L
<1>5. a \in Nat /\ z \in Nat \ {0} /\ n \in Nat /\ a >= b /\ a + n <= b + L
  BY <1>3, <1>4
<1>6. CASE x.byte
  <2>1. n = 1
    <3>1. Bytewise(a, z)
      BY <1>4, <1>6 DEF PieceAt
    <3> QED BY <1>4, <3>1 DEF PieceAt, n
  <2> QED BY <1>2, <1>4, <1>6, <2>1, ByteDone DEF x, a, n
<1>7. CASE ~x.byte
  <2>1. ~PieceAt(a, z).byte /\ n = PieceAt(a, z).n
    BY <1>4, <1>7 DEF n
  <2>2. a % Word = 0 /\ n % Word = 0 /\ (a % AutoPage) + n <= AutoPage
    BY <1>5, <2>1, PieceFits
  <2>3. a .. a + n - 1 \subseteq Cells
    <3>1. b .. b + L - 1 \subseteq Cells
      BY <1>1 DEF b, L
    <3> QED BY <1>3, <1>5, <3>1
  <2>4. a >= q.addr /\ a + n <= q.addr + Len(q.data)
    BY <1>5 DEF b, L
  <2>5. \A o \in WriteBlock(t, a, SubSeq(q.data, a - q.addr + 1, a - q.addr + n)) :
          PieceDone(a, n, q.data, q.addr, t, o)
    BY <1>1, <1>5, <2>2, <2>3, <2>4, BlockPieceDone
  <2> QED BY <1>2, <1>7, <2>5 DEF x, a, n
<1> QED BY <1>6, <1>7

LEMMA PieceStep ==
  ASSUME NEW q, IsWrite(q), NEW m \in 0 .. Len(q.seq), m + 1 \in 0 .. Len(q.seq),
         NEW outs, \A o \in outs : WriteAt(q, m, o)
  PROVE  \A o \in FoldStep("write", q, outs, q.seq[m + 1]) : WriteAt(q, m + 1, o)
<1> DEFINE x == q.seq[m + 1]
           b == q.addr
           e == b + Len(q.data)
           a == x.a
           n == x.n
           A(u) == PieceOutcomes(q, x, u)
<1>1. \A o \in FoldStep("write", q, outs, x) :
        \E p \in outs : (p.ok /\ o \in A(p.t)) \/ (~p.ok /\ o = p)
  <2>1. FoldStep("write", q, outs, x) = Then(outs, LAMBDA y, u : A(u))
    BY DEF FoldStep, PieceOutcomes
  <2> HIDE DEF A, x
  <2> QED BY <2>1 DEF Then
<1>2. /\ a \in b .. e - 1 /\ n \in 1 .. e - a
      /\ Done(q, m) = a /\ Done(q, m + 1) = a + n
  BY PieceOf DEF IsWrite
<1>3. \A u : True(u) => \A o \in A(u) : PieceDone(a, n, q.data, b, u, o)
  BY PieceExact
<1>4. b \in Nat /\ Len(q.data) \in Nat /\ e \in Nat
  BY DEF IsWrite, IsAccess
<1>5. \A c \in Cells : c \in Int
  BY CellsAreNumbers
<1>6. \A c \in Cells : c \notin b .. b + Len(q.data) - 1 <=> c \notin b .. e - 1
  <2> DEFINE L == Len(q.data)
  <2> HIDE DEF L
  <2> QED BY <1>4 DEF L
<1> HIDE DEF x, A, a, n, e, b
<1>7. ASSUME NEW o, WriteAt(q, m, o)
      PROVE  /\ \A c \in Cells : c \notin b .. e - 1 => o.t.mem[c] = q.mem[c]
             /\ o.ok => /\ True(o.t)
                        /\ \A c \in Cells : c \in b .. a - 1 => o.t.mem[c] = q.data[c - b + 1]
  BY <1>2, <1>6, <1>7 DEF WriteAt, b
<1>8. ASSUME NEW o, \A c \in Cells : c \notin b .. e - 1 => o.t.mem[c] = q.mem[c],
             o.ok => /\ True(o.t)
                     /\ \A c \in Cells : c \in b .. a + n - 1 => o.t.mem[c] = q.data[c - b + 1]
      PROVE  WriteAt(q, m + 1, o)
  BY <1>2, <1>6, <1>8 DEF WriteAt, b
<1>9. ASSUME NEW p \in outs, p.ok, NEW o \in A(p.t)
      PROVE  WriteAt(q, m + 1, o)
  <2>1. WriteAt(q, m, p)
    OBVIOUS
  <2>2. PieceDone(a, n, q.data, b, p.t, o)
    BY <1>3, <1>7, <1>9, <2>1
  <2>3. /\ \A c \in Cells : c \notin a .. a + n - 1 => o.t.mem[c] = p.t.mem[c]
        /\ o.ok => /\ True(o.t)
                   /\ \A c \in Cells : c \in a .. a + n - 1 => o.t.mem[c] = q.data[c - b + 1]
    BY <2>2 DEF PieceDone
  <2>4. ASSUME NEW c \in Cells, c \notin b .. e - 1
        PROVE  o.t.mem[c] = q.mem[c]
    <3>1. c \notin a .. a + n - 1
      BY <1>2, <1>4, <1>5, <2>4
    <3> QED BY <1>7, <2>1, <2>3, <2>4, <3>1
  <2>5. ASSUME o.ok, NEW c \in Cells, c \in b .. a + n - 1
        PROVE  o.t.mem[c] = q.data[c - b + 1]
    <3>1. c \in b .. a - 1 \/ c \in a .. a + n - 1
      BY <1>2, <1>4, <1>5, <2>5
    <3>2. CASE c \in a .. a + n - 1
      BY <2>3, <2>5, <3>2
    <3>3. CASE c \notin a .. a + n - 1
      BY <1>7, <1>9, <2>1, <2>3, <3>1, <3>3
    <3> QED BY <3>2, <3>3
  <2> QED BY <1>8, <2>3, <2>4, <2>5
<1>10. ASSUME NEW p \in outs, ~p.ok
       PROVE  WriteAt(q, m + 1, p)
  <2>1. WriteAt(q, m, p)
    OBVIOUS
  <2> QED BY <1>7, <1>8, <1>10, <2>1
<1> QED BY <1>1, <1>9, <1>10 DEF x

LEMMA WriteMemoryExact ==
  ASSUME NEW t, True(t), NEW addr \in Nat, NEW data \in Seq(Nat),
         addr .. addr + Len(data) - 1 \subseteq Cells
  PROVE  \A o \in WriteMemory(t, addr, data) : PieceDone(addr, Len(data), data, addr, t, o)
<1> DEFINE seq == Pieces(addr, Len(data))
           q == [addr |-> addr, size |-> Len(data), data |-> data, mem |-> t.mem, seq |-> seq]
           n == Len(seq)
           base == {Yes(None, t)}
<1>1. Len(data) \in Nat
  OBVIOUS
<1>2. Row(seq, addr, addr + Len(data))
  BY <1>1, PiecesInRow
<1>3. n \in Nat /\ DOMAIN seq = 1 .. n
  <2> HIDE DEF seq
  <2> QED BY <1>2 DEF Row
<1>4. q.addr = addr /\ q.size = Len(data) /\ q.data = data /\ q.mem = t.mem /\ q.seq = seq
  OBVIOUS
<1> HIDE DEF q
<1>5. PICK g : /\ FoldIter("write", q, base, seq, n, g)
               /\ WriteMemory(t, addr, data) = g[1 .. n]
  BY <1>3, <1>4, WritesFold
<1> HIDE DEF seq
<1>6. IsWrite(q)
  BY <1>1, <1>2, <1>4 DEF IsWrite, IsAccess
<1>7. Done(q, 0) = addr /\ Done(q, n) = addr + Len(data)
  <2>1. n = 0 => addr = addr + Len(data)
    BY <1>2 DEF Row
  <2>2. n # 0 => seq[1].a = addr
    BY <1>2 DEF Row
  <2>3. Done(q, n) = addr + Len(data)
    BY <1>4 DEF Done
  <2>4. Done(q, 0) = IF 0 = n THEN addr + Len(data) ELSE seq[1].a
    BY <1>4 DEF Done
  <2> QED BY <2>1, <2>2, <2>3, <2>4
<1>8. WriteAt(q, 0, Yes(None, t))
  <2>1. Yes(None, t).t = t
    BY DEF Yes
  <2>2. \A c \in Cells : c \notin addr .. addr - 1
    BY CellsAreNumbers
  <2> QED BY <1>4, <1>7, <2>1, <2>2 DEF WriteAt
<1>9. FoldAt("write", "write", q, 0, base)
  BY <1>8 DEF FoldAt
<1> HIDE DEF base, n
<1>10. ASSUME NEW m \in 0 .. n, m + 1 \in 0 .. n, NEW outs, FoldAt("write", "write", q, m, outs)
       PROVE  FoldAt("write", "write", q, m + 1, FoldStep("write", q, outs, seq[m + 1]))
  <2>1. \A o \in outs : WriteAt(q, m, o)
    BY <1>10 DEF FoldAt
  <2>2. \A o \in FoldStep("write", q, outs, q.seq[m + 1]) : WriteAt(q, m + 1, o)
    BY <1>4, <1>6, <1>10, <2>1, PieceStep DEF n
  <2> QED BY <1>4, <2>2 DEF FoldAt
<1>11. FoldAt("write", "write", q, n, g[1 .. n])
  BY <1>3, <1>5, <1>9, <1>10, FoldReaches
<1>12. \A o \in WriteMemory(t, addr, data) : WriteAt(q, n, o)
  BY <1>5, <1>11 DEF FoldAt
<1>13. \A c \in Cells : c \in addr .. addr + Len(data) - 1 => c \in addr .. (addr + Len(data)) - 1
  <2> DEFINE L == Len(data)
  <2> HIDE DEF L
  <2> QED BY <1>1, CellsAreNumbers DEF L
<1>14. ASSUME NEW o, WriteAt(q, n, o)
       PROVE  PieceDone(addr, Len(data), data, addr, t, o)
  <2> DEFINE e == addr + Len(data)
  <2>1. /\ \A c \in Cells : c \notin q.addr .. q.addr + Len(q.data) - 1 => o.t.mem[c] = q.mem[c]
        /\ o.ok => /\ True(o.t)
                   /\ \A c \in Cells : c \in q.addr .. Done(q, n) - 1 =>
                        o.t.mem[c] = q.data[c - q.addr + 1]
    BY <1>14 DEF WriteAt
  <2>2. Done(q, n) = e
    BY <1>7
  <2>3. \A c \in Cells : c \in addr .. addr + Len(data) - 1 => c \in addr .. e - 1
    BY <1>13
  <2> HIDE DEF e
  <2> QED BY <1>4, <2>1, <2>2, <2>3 DEF PieceDone
<1> QED BY <1>12, <1>14

-----------------------------------------------------------------------------
(* What a read returns                                                      *)

(* A transfer that is repeated says so to the end of the call.              *)
LEMMA FetchExact ==
  ASSUME NEW t, NEW size, Aimed(t, size), t.tar \in Cells
  PROVE  \A o \in ReadReg(t, "DRW") :
           o.ok => \/ o.t.repeated
                   \/ /\ o.val = t.posted /\ ~t.sticky /\ Aimed(o.t, size) /\ o.t.mem = t.mem
                      /\ \/ o.t.sticky
                         \/ /\ o.t.tar = Next_TAR(t.tar, IF size = 32 THEN Word ELSE 1)
                            /\ o.t.posted = LanesOf([lane \in 0 .. Word - 1 |->
                                 IF Aligned(t.tar) + lane \in Driven(t)
                                 THEN t.mem[Aligned(t.tar) + lane] ELSE None])
<1> DEFINE p == LanesOf([lane \in 0 .. Word - 1 |->
                  IF Aligned(t.tar) + lane \in Driven(t)
                  THEN t.mem[Aligned(t.tar) + lane] ELSE None])
           step == IF size = 32 THEN Word ELSE 1
           failed(u) == [u EXCEPT !.trouble = TRUE]
           again(u) == [failed(u) EXCEPT !.repeated = TRUE]
           reg == "DRW"
           e == [t EXCEPT !.sticky = TRUE]
           x == [t EXCEPT !.posted = p]
           w == Advanced(x)
<1>1. ReadReg(t, reg) =
        {No(failed(t))} \cup
        (IF ~Answering(t, reg) THEN {}
         ELSE UNION {{Yes(a.val, a.t), No(failed(a.t))} \cup
                     (IF host = "cpp" /\ Answering(a.t, reg)
                      THEN {Yes(b.val, again(b.t)) : b \in Answers(a.t, reg)} ELSE {})
                     : a \in Answers(t, reg)})
  BY DEF ReadReg
<1>2. Fetched(t) = w
  BY DEF Fetched
<1>3. \A a \in Answers(t, reg) : a.val = t.posted /\ (a.t = w \/ a.t = e)
  <2>1. Answers(t, reg) = {[val |-> t.posted, t |-> u] : u \in {w} \cup {e}}
    BY <1>2 DEF Answers, BusError, Aimed
  <2> HIDE DEF w, e
  <2> QED BY <2>1
<1>4. Typed(t) /\ reg \in Readable
  BY DEF Aimed, Readable
<1>5. \A u : Typed(u) => again(u).repeated
  BY DEF Typed, Fields
<1>6. Aimed(e, size) /\ e.mem = t.mem /\ e.sticky
  BY DEF Aimed, Typed, Fields
<1> HIDE DEF p
<1>7. Aimed(x, size) /\ x.tar = t.tar /\ x.mem = t.mem /\ x.posted = p
  BY DEF Aimed, Typed, Fields
<1> HIDE DEF x
<1>8. Aimed(w, size) /\ w.mem = t.mem /\ w.posted = p /\ w.tar = Next_TAR(t.tar, step)
  BY <1>7 DEF Aimed, Typed, Fields, Advanced
<1>9. Answering(t, reg) => ~t.sticky
  BY DEF Answering
<1> HIDE DEF failed, again, e, w, reg
<1>10. \A o \in ReadReg(t, reg) :
         \/ o = No(failed(t))
         \/ /\ Answering(t, reg)
            /\ \E a \in Answers(t, reg) :
                 \/ o = Yes(a.val, a.t) \/ o = No(failed(a.t))
                 \/ \E b \in Answers(a.t, reg) : o = Yes(b.val, again(b.t))
  BY <1>1
<1>11. \A o \in ReadReg(t, reg) :
         o.ok => /\ Answering(t, reg)
                 /\ \E a \in Answers(t, reg) :
                      \/ o.val = a.val /\ o.t = a.t
                      \/ \E b \in Answers(a.t, reg) : o.t = again(b.t)
  BY <1>10, OutcomeFields
<1>12. \A a \in Answers(t, reg) : \A b \in Answers(a.t, reg) : Typed(b.t)
  BY <1>4, AnswersFollow DEF Follows
<1>13. \A o \in ReadReg(t, reg) :
         o.ok => \/ o.t.repeated
                 \/ ~t.sticky /\ o.val = t.posted /\ (o.t = w \/ o.t = e)
  BY <1>3, <1>5, <1>9, <1>11, <1>12
<1> HIDE DEF step
<1>14. \A o \in ReadReg(t, reg) :
         o.ok => \/ o.t.repeated
                 \/ /\ o.val = t.posted /\ ~t.sticky /\ Aimed(o.t, size) /\ o.t.mem = t.mem
                    /\ o.t.sticky \/ (o.t.tar = Next_TAR(t.tar, step) /\ o.t.posted = p)
  BY <1>6, <1>8, <1>13
<1> QED BY <1>14 DEF p, step, reg

LEMMA ConfirmReturns ==
  ASSUME NEW t, Typed(t)
  PROVE  \A o \in Confirm(t) :
           o.ok => ~t.sticky /\ (o.t.repeated \/ (o.val = t.posted /\ o.t = t))
<1> DEFINE failed(u) == [u EXCEPT !.trouble = TRUE]
           again(u) == [failed(u) EXCEPT !.repeated = TRUE]
           reg == "RDBUFF"
<1>1. Confirm(t) =
        {No(failed(t))} \cup
        (IF ~Answering(t, reg) THEN {}
         ELSE UNION {{Yes(a.val, a.t), No(failed(a.t))} \cup
                     (IF host = "cpp" /\ Answering(a.t, reg)
                      THEN {Yes(b.val, again(b.t)) : b \in Answers(a.t, reg)} ELSE {})
                     : a \in Answers(t, reg)})
  BY DEF Confirm, ReadReg
<1>2. again(t).repeated
  BY DEF Typed, Fields
<1>3. \A a \in Answers(t, reg) : a.t = t /\ a.val = t.posted
  BY DEF Answers
<1>4. Answering(t, reg) => ~t.sticky
  BY DEF Answering
<1> HIDE DEF failed, again, reg
<1>5. \A o \in Confirm(t) :
         \/ o = No(failed(t))
         \/ Answering(t, reg) /\ \E a \in Answers(t, reg) :
              \/ o = Yes(a.val, a.t) \/ o = No(failed(a.t))
              \/ \E b \in Answers(a.t, reg) : o = Yes(b.val, again(b.t))
  BY <1>1
<1>6. \A o \in Confirm(t) :
         o.ok => Answering(t, reg) /\ (o.t = again(t) \/ (o.val = t.posted /\ o.t = t))
  BY <1>3, <1>5, OutcomeFields
<1> QED BY <1>2, <1>4, <1>6

(* A call on t that succeeds returns v and leaves memory alone, unless a    *)
(* read was repeated.                                                       *)
Gives(t, o, v) ==
  o.ok => /\ True(o.t) /\ (t.repeated => o.t.repeated)
          /\ o.t.repeated \/ (o.t.mem = t.mem /\ o.val = v)

LEMMA LaneOf ==
  ASSUME NEW f, NEW lane
  PROVE  Lane(LanesOf(f), lane) = f[lane]
  BY DEF Lane, LanesOf

LEMMA ReadDataExact ==
  ASSUME NEW t, Aimed(t, 8), NEW a \in Cells
  PROVE  \A o \in ReadData(t, a) :
           o.ok => /\ True(o.t) /\ (t.repeated => o.t.repeated)
                   /\ \/ o.t.repeated
                      \/ o.t.mem = t.mem /\ Lane(o.val, a % Word) = t.mem[a]
<1>1. \A o \in ReadData(t, a) :
        \E p \in WriteReg(t, "TAR", a) :
          \/ ~p.ok /\ o = p
          \/ p.ok /\ \E q \in ReadReg(p.t, "DRW") :
               (q.ok /\ o \in Confirm(q.t)) \/ (~q.ok /\ o = q)
  BY DEF ReadData, Then
<1>2. \A p \in WriteReg(t, "TAR", a) :
        /\ p.t.mem = t.mem /\ (p.ok => Aimed(p.t, 8) /\ p.t.tar = a)
        /\ t.repeated => p.t.repeated
  BY TargetSet, WriteRegFollows DEF AllFollow, Follows, Aimed
<1>3. ASSUME NEW w, Aimed(w, 8), w.tar = a, NEW q \in ReadReg(w, "DRW"), q.ok
      PROVE  /\ Aimed(q.t, 8) /\ (w.repeated => q.t.repeated)
             /\ \/ q.t.repeated
                \/ /\ q.t.mem = w.mem
                   /\ q.t.sticky \/ Lane(q.t.posted, a % Word) = w.mem[a]
  <2>1. Aimed(q.t, 8) /\ (w.repeated => q.t.repeated)
    <3>1. Follows(w, q.t)
      BY <1>3, ReadRegFollows DEF AllFollow, Aimed, Readable
    <3> QED BY <1>3, <3>1, AimedFollows DEF Follows
  <2> DEFINE f == [lane \in 0 .. Word - 1 |->
                    IF Aligned(w.tar) + lane \in Driven(w)
                    THEN w.mem[Aligned(w.tar) + lane] ELSE None]
  <2>2. \/ q.t.repeated
        \/ /\ q.t.mem = w.mem
           /\ q.t.sticky \/ q.t.posted = LanesOf(f)
    BY <1>3, FetchExact
  <2>3. f[a % Word] = w.mem[a]
    <3>1. a \in Nat /\ Word \in Nat \ {0}
      BY CellsAreNumbers, SwdTargetAssumption
    <3>2. a % Word \in 0 .. Word - 1 /\ Aligned(a) + (a % Word) = a
      BY <3>1 DEF Aligned
    <3>3. Driven(w) = {a}
      BY <1>3 DEF Driven, Aimed
    <3> QED BY <1>3, <3>2, <3>3
  <2> HIDE DEF f
  <2>4. Lane(LanesOf(f), a % Word) = w.mem[a]
    BY <2>3, LaneOf
  <2> QED BY <2>1, <2>2, <2>4
<1>4. ASSUME NEW u, Aimed(u, 8), NEW o \in Confirm(u), o.ok
      PROVE  /\ True(o.t) /\ (u.repeated => o.t.repeated)
             /\ o.t.repeated \/ (o.val = u.posted /\ o.t = u /\ ~u.sticky)
  <2>1. Follows(u, o.t) /\ Typed(u)
    BY <1>4, ConfirmFollows DEF AllFollow, Aimed
  <2> QED BY <1>4, <2>1, ConfirmReturns, AimedFollows DEF Follows
<1> QED BY <1>1, <1>2, <1>3, <1>4

LEMMA ReadByteExact ==
  ASSUME NEW t, True(t), NEW a \in Cells
  PROVE  \A o \in ReadByte(t, a) : Gives(t, o, <<t.mem[a]>>)
<1> DEFINE R == Then(SetCSW(t, 8), LAMBDA x, u : ReadData(u, a))
<1>1. \A o \in R :
        \E p \in SetCSW(t, 8) : (p.ok /\ o \in ReadData(p.t, a)) \/ (~p.ok /\ o = p)
  BY DEF Then
<1>2. \A p \in SetCSW(t, 8) :
        p.t.mem = t.mem /\ (t.repeated => p.t.repeated) /\ (p.ok => Aimed(p.t, 8))
  BY SetCSWTrue
<1>3. \A o \in ReadByte(t, a) :
        \E p \in R : (p.ok /\ o = Yes(<<Lane(p.val, a % Word)>>, p.t)) \/ (~p.ok /\ o = p)
  <2>1. ReadByte(t, a) = Then(R, LAMBDA v, u : {Yes(<<Lane(v, a % Word)>>, u)})
    BY DEF ReadByte
  <2> HIDE DEF R
  <2> QED BY <2>1 DEF Then
<1> HIDE DEF R
<1>4. \A p \in R :
        p.ok => /\ True(p.t) /\ (t.repeated => p.t.repeated)
                /\ \/ p.t.repeated
                   \/ p.t.mem = t.mem /\ Lane(p.val, a % Word) = t.mem[a]
  BY <1>1, <1>2, ReadDataExact
<1>5. \A o \in ReadByte(t, a) :
        o.ok => \E p \in R : p.ok /\ o.val = <<Lane(p.val, a % Word)>> /\ o.t = p.t
  <2>1. SUFFICES ASSUME NEW o \in ReadByte(t, a), o.ok
                 PROVE  \E p \in R : p.ok /\ o.val = <<Lane(p.val, a % Word)>> /\ o.t = p.t
    OBVIOUS
  <2>2. PICK p \in R : (p.ok /\ o = Yes(<<Lane(p.val, a % Word)>>, p.t)) \/ (~p.ok /\ o = p)
    BY <1>3
  <2>3. p.ok /\ o = Yes(<<Lane(p.val, a % Word)>>, p.t)
    BY <2>1, <2>2
  <2> QED BY <2>3 DEF Yes
<1> QED BY <1>4, <1>5 DEF Gives

-----------------------------------------------------------------------------
(* A block that is read                                                     *)

LEMMA LengthOf ==
  ASSUME NEW n \in Nat, NEW g, DOMAIN g = 1 .. n
  PROVE  Len(g) = n
  OBVIOUS

LEMMA BytesAre ==
  ASSUME NEW f, NEW a, NEW n \in Nat
  PROVE  /\ DOMAIN Bytes(f, a, n) = 1 .. n /\ Len(Bytes(f, a, n)) = n
         /\ Bytes(f, a, n) = [i \in 1 .. n |-> Bytes(f, a, n)[i]]
         /\ \A i \in 1 .. n : Bytes(f, a, n)[i] = f[a + i - 1]
<1> DEFINE g == Bytes(f, a, n)
<1>1. /\ DOMAIN g = 1 .. n /\ g = [i \in 1 .. n |-> g[i]]
      /\ \A i \in 1 .. n : g[i] = f[a + i - 1]
  BY DEF Bytes
<1> HIDE DEF g
<1>2. Len(g) = n
  BY <1>1, LengthOf
<1> QED BY <1>1, <1>2 DEF g

Joins(f, a, k, b, n, m) == Bytes(f, a, k) \o Bytes(f, b, n) = Bytes(f, a, m)

LEMMA BytesJoined ==
  ASSUME NEW f, NEW a \in Nat, NEW k \in Nat, NEW n \in Nat,
         NEW b, b = a + k, NEW m, m = k + n
  PROVE  Joins(f, a, k, b, n, m)
<1> DEFINE p == Bytes(f, a, k)
           q == Bytes(f, b, n)
           r == Bytes(f, a, m)
           S == {p[i] : i \in 1 .. k} \cup {q[i] : i \in 1 .. n}
<1>0. m \in Nat
  OBVIOUS
<1>1. /\ DOMAIN p = 1 .. k /\ Len(p) = k /\ \A i \in 1 .. k : p[i] = f[a + i - 1]
      /\ p = [i \in 1 .. k |-> p[i]]
  BY BytesAre
<1>2. /\ DOMAIN q = 1 .. n /\ Len(q) = n /\ \A i \in 1 .. n : q[i] = f[b + i - 1]
      /\ q = [i \in 1 .. n |-> q[i]]
  BY BytesAre
<1>3. /\ DOMAIN r = 1 .. m /\ Len(r) = m /\ \A i \in 1 .. m : r[i] = f[a + i - 1]
      /\ r = [i \in 1 .. m |-> r[i]]
  BY ONLY <1>0, BytesAre
<1> HIDE DEF p, q, r
<1>4. p \in Seq(S) /\ q \in Seq(S)
  <2>1. (\A i \in 1 .. k : p[i] \in S) /\ (\A i \in 1 .. n : q[i] \in S)
    OBVIOUS
  <2> HIDE DEF S
  <2>2. p \in [1 .. k -> S] /\ q \in [1 .. n -> S]
    BY <1>1, <1>2, <2>1, Zenon
  <2> QED BY <2>2
<1> HIDE DEF S
<1>5. /\ p \o q \in Seq(S) /\ Len(p \o q) = Len(p) + Len(q)
      /\ \A i \in 1 .. Len(p) + Len(q) :
           (p \o q)[i] = IF i <= Len(p) THEN p[i] ELSE q[i - Len(p)]
  BY <1>4, ConcatProperties
<1> DEFINE w == p \o q
<1>6. /\ w \in Seq(S) /\ Len(w) = m
      /\ \A i \in 1 .. m : w[i] = IF i <= k THEN p[i] ELSE q[i - k]
  BY <1>1, <1>2, <1>5
<1> HIDE DEF w
<1>7. w = [i \in 1 .. m |-> w[i]]
  BY <1>0, <1>6
<1>8. ASSUME NEW i \in 1 .. m
      PROVE  w[i] = r[i]
  <2>1. CASE i <= k
    BY <1>1, <1>3, <1>6, <2>1
  <2>2. CASE ~(i <= k)
    <3>1. PICK j \in 1 .. n : j = i - k /\ b + j - 1 = a + i - 1
      BY <2>2
    <3>2. w[i] = q[j]
      BY <1>6, <2>2, <3>1
    <3> QED BY <1>2, <1>3, <3>1, <3>2
  <2> QED BY <2>1, <2>2
<1> QED BY <1>3, <1>7, <1>8 DEF p, q, r, w, Joins

LEMMA LanesOfWord ==
  ASSUME NEW f, NEW b \in Nat
  PROVE  Lanes(LanesOf(WordIn(f, b))) = Bytes(f, b, Word)
<1>1. Word \in Nat \ {0}
  BY SwdTargetAssumption
<1>2. ASSUME NEW i \in 1 .. Word
      PROVE  Lane(LanesOf(WordIn(f, b)), i - 1) = f[b + i - 1]
  <2>1. i - 1 \in 0 .. Word - 1
    BY <1>1
  <2>2. Lane(LanesOf(WordIn(f, b)), i - 1) = WordIn(f, b)[i - 1]
    BY LaneOf
  <2>3. WordIn(f, b)[i - 1] = f[b + (i - 1)]
    BY <2>1 DEF WordIn
  <2>4. b + (i - 1) = b + i - 1
    OBVIOUS
  <2> QED BY <2>2, <2>3, <2>4
<1> QED BY <1>2 DEF Lanes, Bytes

(* The read of the word at b, aimed at words.                               *)
LEMMA WordFetched ==
  ASSUME NEW t, Aimed(t, 32), NEW b \in Cells, t.tar = b, b % Word = 0
  PROVE  \A o \in ReadReg(t, "DRW") :
           o.ok => \/ o.t.repeated
                   \/ /\ o.val = t.posted /\ ~t.sticky /\ o.t.mem = t.mem
                      /\ \/ o.t.sticky
                         \/ /\ o.t.tar = Next_TAR(b, Word)
                            /\ o.t.posted = LanesOf(WordIn(t.mem, b))
<1>1. b \in Nat
  BY CellsAreNumbers
<1>2. Aligned(b) = b /\ Driven(t) = {b + lane : lane \in 0 .. Word - 1}
  BY <1>1, WordStep DEF Driven, Aimed
<1> DEFINE f == [lane \in 0 .. Word - 1 |->
                   IF Aligned(t.tar) + lane \in Driven(t)
                   THEN t.mem[Aligned(t.tar) + lane] ELSE None]
<1>3. f = WordIn(t.mem, b)
  BY <1>2 DEF WordIn
<1>4. \A o \in ReadReg(t, "DRW") :
        o.ok => \/ o.t.repeated
                \/ /\ o.val = t.posted /\ ~t.sticky /\ o.t.mem = t.mem
                   /\ \/ o.t.sticky
                      \/ o.t.tar = Next_TAR(b, Word) /\ o.t.posted = LanesOf(f)
  BY FetchExact
<1> HIDE DEF f
<1> QED BY <1>3, <1>4

(* An error that is pending, or a repetition, stays so.                     *)
LEMMA PendingFetch ==
  ASSUME NEW t, Aimed(t, 32)
  PROVE  \A o \in ReadReg(t, "DRW") :
           /\ Aimed(o.t, 32) /\ (t.repeated => o.t.repeated)
           /\ o.ok => ~t.sticky
<1>1. \A o \in ReadReg(t, "DRW") : Follows(t, o.t)
  BY ReadRegFollows DEF AllFollow, Aimed, Readable
<1>2. ASSUME t.sticky
      PROVE  \A o \in ReadReg(t, "DRW") : ~o.ok
  <2>1. ReadReg(t, "DRW") = {No([t EXCEPT !.trouble = TRUE])}
    BY <1>2 DEF ReadReg, Answering
  <2> QED BY <2>1, OutcomeFields
<1> QED BY <1>1, <1>2, AimedFollows DEF Follows

Shown(f, a, k, c, l) == Bytes(f, a, k) \o Lanes(LanesOf(WordIn(f, c))) = Bytes(f, a, l)

LEMMA WordJoined ==
  ASSUME NEW f, NEW a \in Nat, NEW k \in Nat, NEW c, c = a + k, NEW l, l = k + Word
  PROVE  Shown(f, a, k, c, l)
<1>1. Word \in Nat
  BY SwdTargetAssumption
<1>2. c \in Nat
  OBVIOUS
<1>3. Lanes(LanesOf(WordIn(f, c))) = Bytes(f, c, Word)
  BY <1>2, LanesOfWord
<1>4. Joins(f, a, k, c, Word, l)
  BY <1>1, BytesJoined
<1> QED BY <1>3, <1>4 DEF Joins, Shown

(* A read of one more word keeps the account.                               *)
LEMMA FetchStep ==
  ASSUME NEW q, IsBlock(q), NEW m \in Nat, m + 1 \in 0 .. Len(q.data) \div Word,
         m + 2 \in 0 .. Len(q.data) \div Word,
         NEW outs, \A o \in outs : FetchAt(q, m, o), NEW x
  PROVE  \A o \in FoldStep("get", None, outs, x) : FetchAt(q, m + 1, o)
<1> DEFINE L == Len(q.data)
           c == Place(q, m)
           b == Place(q, m + 1)
           e == Place(q, m + 2)
           k == m * Word
           l == (m + 1) * Word
           A(u, got) == Then(ReadReg(u, "DRW"), LAMBDA v, w : {Yes(got \o Lanes(v), w)})
<1>1. \A o \in FoldStep("get", None, outs, x) :
        \E p \in outs : (p.ok /\ o \in A(p.t, p.val)) \/ (~p.ok /\ o = p)
  <2>1. FoldStep("get", None, outs, x) = Then(outs, LAMBDA got, u : A(u, got))
    BY DEF FoldStep
  <2> HIDE DEF A
  <2> QED BY <2>1 DEF Then
<1>2. \A u, got : \A o \in A(u, got) :
        \E r \in ReadReg(u, "DRW") : (r.ok /\ o = Yes(got \o Lanes(r.val), r.t)) \/ (~r.ok /\ o = r)
  BY DEF Then
<1>3. /\ b \in Cells /\ b \in Nat /\ b % Word = 0 /\ b < q.a + L
      /\ e < q.a + L => Next_TAR(b, Word) = e
  <2>1. m + 1 \in 0 .. L \div Word /\ (m + 1) + 1 \in 0 .. L \div Word /\ (m + 1) + 1 = m + 2
    OBVIOUS
  <2>2. /\ b \in Cells /\ b \in Nat /\ b % Word = 0 /\ b >= q.a
        /\ e = b + Word /\ e <= q.a + L
        /\ e < q.a + L => Next_TAR(b, Word) = e
    BY <2>1, PlaceFacts
  <2>3. Word \in Nat \ {0} /\ q.a \in Nat /\ L \in Nat
    BY SwdTargetAssumption DEF IsBlock
  <2> HIDE DEF b, e, L
  <2> QED BY <2>2, <2>3
<1>4. Word \in Nat \ {0} /\ q.a \in Nat /\ k \in Nat /\ l = k + Word /\ c = q.a + k
  <2>1. m \in 0 .. L \div Word
    BY WordsOf DEF IsBlock
  <2>2. Word \in Nat \ {0} /\ q.a \in Nat
    BY SwdTargetAssumption DEF IsBlock
  <2>3. k \in Nat /\ l = k + Word
    BY <2>1, WordsOf DEF IsBlock
  <2> QED BY <2>2, <2>3 DEF Place
<1>5. \A o : FetchAt(q, m, o) <=>
        (o.ok => /\ Aimed(o.t, 32) /\ (q.repeated => o.t.repeated)
                 /\ \/ o.t.repeated
                    \/ /\ o.t.mem = q.mem /\ o.val = Bytes(q.mem, q.a, k)
                       /\ \/ o.t.sticky
                          \/ /\ o.t.posted = LanesOf(WordIn(q.mem, c))
                             /\ b < q.a + L => o.t.tar = b)
  BY DEF FetchAt
<1>6. \A o : FetchAt(q, m + 1, o) <=>
        (o.ok => /\ Aimed(o.t, 32) /\ (q.repeated => o.t.repeated)
                 /\ \/ o.t.repeated
                    \/ /\ o.t.mem = q.mem /\ o.val = Bytes(q.mem, q.a, l)
                       /\ \/ o.t.sticky
                          \/ /\ o.t.posted = LanesOf(WordIn(q.mem, b))
                             /\ e < q.a + L => o.t.tar = e)
  <2>1. (m + 1) + 1 = m + 2
    OBVIOUS
  <2> QED BY <2>1 DEF FetchAt
<1> HIDE DEF A, b, c, e, k, l, L
<1>7. Bytes(q.mem, q.a, k) \o Lanes(LanesOf(WordIn(q.mem, c))) = Bytes(q.mem, q.a, l)
  <2>1. Shown(q.mem, q.a, k, c, l)
    BY <1>4, WordJoined
  <2> QED BY <2>1 DEF Shown
<1>8. ASSUME NEW p \in outs, p.ok, NEW r \in ReadReg(p.t, "DRW"), r.ok,
             NEW o, o.t = r.t, o.val = p.val \o Lanes(r.val)
      PROVE  FetchAt(q, m + 1, o)
  <2>1. /\ Aimed(p.t, 32) /\ (q.repeated => p.t.repeated)
        /\ \/ p.t.repeated
           \/ /\ p.t.mem = q.mem /\ p.val = Bytes(q.mem, q.a, k)
              /\ \/ p.t.sticky
                 \/ p.t.posted = LanesOf(WordIn(q.mem, c)) /\ p.t.tar = b
    BY <1>3, <1>5, <1>8
  <2>2. Aimed(r.t, 32) /\ (p.t.repeated => r.t.repeated) /\ ~p.t.sticky
    BY <1>8, <2>1, PendingFetch
  <2>3. CASE r.t.repeated
    BY <1>6, <1>8, <2>1, <2>2, <2>3
  <2>4. CASE ~r.t.repeated
    <3>1. /\ p.t.mem = q.mem /\ p.val = Bytes(q.mem, q.a, k)
          /\ p.t.posted = LanesOf(WordIn(q.mem, c)) /\ p.t.tar = b
      BY <2>1, <2>2, <2>4
    <3>2. /\ r.val = p.t.posted /\ r.t.mem = p.t.mem
          /\ \/ r.t.sticky
             \/ /\ r.t.tar = Next_TAR(b, Word)
                /\ r.t.posted = LanesOf(WordIn(p.t.mem, b))
      BY <1>3, <1>8, <2>1, <2>4, <3>1, WordFetched
    <3>3. o.t.mem = q.mem /\ o.val = Bytes(q.mem, q.a, l)
      BY <1>7, <1>8, <3>1, <3>2
    <3> QED BY <1>3, <1>6, <1>8, <2>1, <2>2, <3>1, <3>2, <3>3
  <2> QED BY <2>3, <2>4
<1>9. ASSUME NEW o, ~o.ok PROVE FetchAt(q, m + 1, o)
  BY <1>6, <1>9
<1>10. \A y, z : Yes(y, z).ok /\ Yes(y, z).val = y /\ Yes(y, z).t = z
  BY DEF Yes
<1> SUFFICES ASSUME NEW o \in FoldStep("get", None, outs, x), o.ok
             PROVE  FetchAt(q, m + 1, o)
  BY <1>9
<1>11. PICK p \in outs : (p.ok /\ o \in A(p.t, p.val)) \/ (~p.ok /\ o = p)
  BY <1>1
<1>12. PICK r \in ReadReg(p.t, "DRW") :
         (r.ok /\ o = Yes(p.val \o Lanes(r.val), r.t)) \/ (~r.ok /\ o = r)
  BY <1>2, <1>11
<1>13. CASE ~p.ok
  BY <1>9, <1>11, <1>13
<1>14. CASE p.ok /\ ~r.ok
  BY <1>9, <1>12, <1>14
<1>15. CASE p.ok /\ r.ok
  <2>1. o = Yes(p.val \o Lanes(r.val), r.t)
    BY <1>12, <1>15
  <2>2. o.t = r.t /\ o.val = p.val \o Lanes(r.val)
    BY <1>10, <2>1
  <2> QED BY <1>8, <1>15, <2>2
<1> QED BY <1>13, <1>14, <1>15

LEMMA NoBytes ==
  ASSUME NEW f, NEW a
  PROVE  Bytes(f, a, 0) = <<>>
<1>1. 1 .. 0 = {}
  OBVIOUS
<1> QED BY <1>1 DEF Bytes

(* The first read of a block posts its first word.                          *)
LEMMA FetchStart ==
  ASSUME NEW q, IsBlock(q), Len(q.data) # 0, NEW u, Aimed(u, 32), u.tar = q.a, u.mem = q.mem,
         q.repeated => u.repeated, NEW r \in ReadReg(u, "DRW"), r.ok,
         NEW o, o.t = r.t, o.val = <<>>
  PROVE  FetchAt(q, 0, o)
<1> DEFINE L == Len(q.data)
           n == L \div Word
           b == Place(q, 0)
           e == Place(q, 1)
<1>1. Word \in Nat \ {0} /\ q.a \in Nat /\ L \in Nat /\ L # 0 /\ L % Word = 0
  BY SwdTargetAssumption DEF IsBlock
<1>2. n \in Nat /\ n # 0
  <2>1. n \in Nat /\ n * Word = L
    BY <1>1, WordsOf
  <2>2. 0 * Word = 0
    BY <1>1
  <2> HIDE DEF n, L
  <2> QED BY <1>1, <2>1, <2>2
<1>3. /\ b \in Cells /\ b \in Nat /\ b % Word = 0
      /\ e < q.a + L => Next_TAR(b, Word) = e
  <2>1. 0 \in 0 .. n /\ 0 + 1 \in 0 .. n /\ 0 + 1 = 1
    <3> HIDE DEF n
    <3> QED BY <1>2
  <2> QED BY <2>1, PlaceFacts
<1>4. b = q.a
  BY PlaceEnds
<1>5. Bytes(q.mem, q.a, 0 * Word) = <<>>
  <2>1. 0 * Word = 0
    BY <1>1
  <2> QED BY <2>1, NoBytes
<1>6. FetchAt(q, 0, o) <=>
        (o.ok => /\ Aimed(o.t, 32) /\ (q.repeated => o.t.repeated)
                 /\ \/ o.t.repeated
                    \/ /\ o.t.mem = q.mem /\ o.val = <<>>
                       /\ \/ o.t.sticky
                          \/ /\ o.t.posted = LanesOf(WordIn(q.mem, b))
                             /\ e < q.a + L => o.t.tar = e)
  <2>1. 0 + 1 = 1
    OBVIOUS
  <2> QED BY <1>5, <2>1 DEF FetchAt
<1> HIDE DEF b, e, n, L
<1>7. Aimed(r.t, 32) /\ (u.repeated => r.t.repeated)
  BY PendingFetch
<1>8. \/ r.t.repeated
      \/ /\ r.t.mem = u.mem
         /\ r.t.sticky \/ (r.t.tar = Next_TAR(b, Word) /\ r.t.posted = LanesOf(WordIn(u.mem, b)))
  BY <1>3, <1>4, WordFetched
<1> QED BY <1>3, <1>6, <1>7, <1>8

(* A block of words is read as it is in memory.                             *)
LEMMA ReadBlockExact ==
  ASSUME NEW t, True(t), NEW a \in Nat, NEW n \in Nat \ {0}, a .. a + n - 1 \subseteq Cells,
         a % Word = 0, n % Word = 0, (a % AutoPage) + n <= AutoPage
  PROVE  \A o \in ReadBlock(t, a, n) : Gives(t, o, Bytes(t.mem, a, n))
<1> DEFINE X == Then(SetCSW(t, 32), LAMBDA x, u : WriteReg(u, "TAR", a))
           B(u) == Then(ReadReg(u, "DRW"), LAMBDA v, w : {Yes(<<>>, w)})
           F == Then(X, LAMBDA x, u : B(u))
           N == (n \div Word) - 1
           seq == [i \in 1 .. N |-> i]
           W == FoldLeft(LAMBDA outs, k : Then(outs, LAMBDA got, u :
                   Then(ReadReg(u, "DRW"), LAMBDA v, w : {Yes(got \o Lanes(v), w)})),
                 F, [i \in 1 .. (n \div Word) - 1 |-> i])
           D(got, u) == Then(Confirm(u), LAMBDA v, w : {Yes(got \o Lanes(v), w)})
           J(got, v) == got \o Lanes(v)
           d == Bytes(t.mem, a, n)
           q == [a |-> a, data |-> d, mem |-> t.mem, repeated |-> t.repeated]
<1>1. ReadBlock(t, a, n) = Then(W, LAMBDA got, u : D(got, u))
  BY DEF ReadBlock
<1>2. \A o \in X : o.ok => /\ Aimed(o.t, 32) /\ o.t.tar = a /\ o.t.mem = t.mem
                           /\ t.repeated => o.t.repeated
  <2>1. \A o \in X :
          \E p \in SetCSW(t, 32) : (p.ok /\ o \in WriteReg(p.t, "TAR", a)) \/ (~p.ok /\ o = p)
    BY DEF Then
  <2>2. \A p \in SetCSW(t, 32) :
          p.t.mem = t.mem /\ (t.repeated => p.t.repeated) /\ (p.ok => Aimed(p.t, 32))
    BY SetCSWTrue
  <2>3. \A p : Aimed(p, 32) => \A o \in WriteReg(p, "TAR", a) : p.repeated => o.t.repeated
    BY WriteRegFollows DEF AllFollow, Follows, Aimed
  <2> HIDE DEF X
  <2> QED BY <2>1, <2>2, <2>3, TargetSet
<1>3. /\ q.a = a /\ q.data = d /\ q.mem = t.mem /\ q.repeated = t.repeated
      /\ Len(d) = n
  BY BytesAre
<1> HIDE DEF d, q
<1>4. IsBlock(q) /\ Len(q.data) = n
  BY <1>3 DEF IsBlock
<1>5. Word \in Nat \ {0} /\ N \in Nat /\ (N + 1) * Word = n /\ n \div Word = N + 1
  <2>1. Word \in Nat \ {0} /\ n \div Word \in Nat /\ (n \div Word) * Word = n
    BY WordsOf, SwdTargetAssumption
  <2> DEFINE k == n \div Word
  <2>2. 0 * Word = 0
    BY <2>1
  <2> HIDE DEF k
  <2>3. k # 0
    BY <2>1, <2>2 DEF k
  <2> QED BY <2>1, <2>3 DEF k
<1>6. \A o \in F : FetchAt(q, 0, o)
  <2>1. \A o \in F : \E p \in X : (p.ok /\ o \in B(p.t)) \/ (~p.ok /\ o = p)
    <3> HIDE DEF X, B
    <3> QED BY DEF Then
  <2>2. \A u : \A o \in B(u) :
          \E r \in ReadReg(u, "DRW") : (r.ok /\ o = Yes(<<>>, r.t)) \/ (~r.ok /\ o = r)
    BY DEF Then
  <2>3. \A x, y : Yes(x, y).val = x /\ Yes(x, y).t = y
    BY DEF Yes
  <2> HIDE DEF F, B, X, N
  <2>4. \A u : \A o \in B(u) :
          o.ok => \E r \in ReadReg(u, "DRW") : r.ok /\ o.val = <<>> /\ o.t = r.t
    BY <2>2, <2>3
  <2>5. ASSUME NEW o, ~o.ok PROVE FetchAt(q, 0, o)
    BY <2>5 DEF FetchAt
  <2>6. ASSUME NEW p \in X, p.ok, NEW o \in B(p.t), o.ok PROVE FetchAt(q, 0, o)
    <3>1. PICK r \in ReadReg(p.t, "DRW") : r.ok /\ o.val = <<>> /\ o.t = r.t
      BY <2>4, <2>6
    <3>2. Aimed(p.t, 32) /\ p.t.tar = q.a /\ p.t.mem = q.mem /\ (q.repeated => p.t.repeated)
      BY <1>2, <1>3, <2>6
    <3>3. Len(q.data) # 0
      BY <1>4
    <3> QED BY <1>4, <3>1, <3>2, <3>3, FetchStart
  <2> QED BY <2>1, <2>5, <2>6
<1>7. PICK g : FoldIter("get", None, F, seq, N, g) /\ W = g[1 .. N]
  <2> HIDE DEF F
  <2> QED BY <1>5, GetsFold
<1> HIDE DEF X, B, F, W, D
<1>8. ASSUME NEW m \in 0 .. N, m + 1 \in 0 .. N, NEW outs, FoldAt("get", "fetch", q, m, outs)
      PROVE  FoldAt("get", "fetch", q, m + 1, FoldStep("get", None, outs, seq[m + 1]))
  <2>1. /\ m \in Nat /\ m + 1 \in 0 .. Len(q.data) \div Word
        /\ m + 2 \in 0 .. Len(q.data) \div Word
    <3> DEFINE R == Len(q.data) \div Word
    <3>1. R = N + 1
      BY <1>4, <1>5
    <3>2. N \in Nat /\ m \in 0 .. N /\ m + 1 \in 0 .. N
      BY <1>5, <1>8
    <3> HIDE DEF N, R
    <3>3. m \in Nat /\ m + 1 \in 0 .. R /\ m + 2 \in 0 .. R
      BY ONLY <3>1, <3>2
    <3> QED BY <3>3 DEF R
  <2>2. \A o \in outs : FetchAt(q, m, o)
    BY <1>8 DEF FoldAt
  <2>3. \A x : \A o \in FoldStep("get", None, outs, x) : FetchAt(q, m + 1, o)
    BY <1>4, <2>1, <2>2, FetchStep
  <2> HIDE DEF seq
  <2> QED BY <2>3 DEF FoldAt
<1>9. FoldAt("get", "fetch", q, 0, F)
  BY <1>6 DEF FoldAt
<1>10. \A o \in W : FetchAt(q, N, o)
  <2> HIDE DEF seq, N
  <2>1. FoldAt("get", "fetch", q, N, g[1 .. N])
    BY <1>5, <1>7, <1>8, <1>9, FoldReaches
  <2> QED BY <1>7, <2>1 DEF FoldAt
<1>11. \A o \in ReadBlock(t, a, n) :
         \E p \in W : (p.ok /\ o \in D(p.val, p.t)) \/ (~p.ok /\ o = p)
  BY <1>1 DEF Then
<1>12. \A got, u : \A o \in D(got, u) :
         o.ok => \E r \in Confirm(u) : r.ok /\ o.val = J(got, r.val) /\ o.t = r.t
  <2>1. \A got, u : \A o \in D(got, u) :
          \E r \in Confirm(u) : (r.ok /\ o = Yes(got \o Lanes(r.val), r.t)) \/ (~r.ok /\ o = r)
    BY DEF Then, D
  <2>2. \A x, y : Yes(x, y).val = x /\ Yes(x, y).t = y
    BY DEF Yes
  <2> SUFFICES ASSUME NEW got, NEW u, NEW o \in D(got, u), o.ok
               PROVE  \E r \in Confirm(u) : r.ok /\ o.val = got \o Lanes(r.val) /\ o.t = r.t
    OBVIOUS
  <2>3. PICK r \in Confirm(u) : r.ok /\ o = Yes(got \o Lanes(r.val), r.t)
    BY <2>1
  <2>4. o.val = got \o Lanes(r.val) /\ o.t = r.t
    BY <2>2, <2>3
  <2> QED BY <2>3, <2>4
<1> DEFINE k == N * Word
           c == Place(q, N)
<1>13. Bytes(q.mem, a, k) \o Lanes(LanesOf(WordIn(q.mem, c))) = Bytes(q.mem, a, n)
  <2>1. k \in Nat /\ n = k + Word /\ c = a + k
    <3>1. c = a + k
      BY <1>3 DEF Place
    <3> HIDE DEF N
    <3>2. k \in Nat /\ (N + 1) * Word = k + Word
      BY <1>5
    <3> QED BY <1>5, <3>1, <3>2
  <2> HIDE DEF k, c
  <2>2. Shown(q.mem, a, k, c, n)
    BY <2>1, WordJoined
  <2> QED BY <2>2 DEF Shown
<1>14. ASSUME NEW p \in W, p.ok
       PROVE  /\ Aimed(p.t, 32) /\ (t.repeated => p.t.repeated)
              /\ \/ p.t.repeated
                 \/ /\ p.t.mem = t.mem /\ p.val = Bytes(q.mem, a, k)
                    /\ p.t.sticky \/ p.t.posted = LanesOf(WordIn(q.mem, c))
  BY <1>3, <1>10, <1>14 DEF FetchAt
<1> HIDE DEF N, k, c, J
<1>15. ASSUME NEW u, Aimed(u, 32), NEW r \in Confirm(u), r.ok
       PROVE  /\ True(r.t) /\ (u.repeated => r.t.repeated)
              /\ r.t.repeated \/ (r.val = u.posted /\ r.t = u /\ ~u.sticky)
  <2>1. Follows(u, r.t) /\ Typed(u)
    BY <1>15, ConfirmFollows DEF AllFollow, Aimed
  <2> QED BY <1>15, <2>1, ConfirmReturns, AimedFollows DEF Follows
<1>16. ASSUME NEW o \in ReadBlock(t, a, n), o.ok
       PROVE  /\ True(o.t) /\ (t.repeated => o.t.repeated)
              /\ o.t.repeated \/ (o.t.mem = t.mem /\ o.val = Bytes(q.mem, a, n))
  <2>1. PICK p \in W : p.ok /\ o \in D(p.val, p.t)
    BY <1>11, <1>16
  <2>2. PICK r \in Confirm(p.t) : r.ok /\ o.val = J(p.val, r.val) /\ o.t = r.t
    BY <1>12, <1>16, <2>1
  <2>3. /\ True(r.t) /\ (p.t.repeated => r.t.repeated)
        /\ r.t.repeated \/ (r.val = p.t.posted /\ r.t = p.t /\ ~p.t.sticky)
    BY <1>14, <1>15, <2>1, <2>2
  <2>4. CASE r.t.repeated
    BY <1>14, <2>1, <2>2, <2>3, <2>4
  <2>5. CASE ~r.t.repeated
    <3>1. /\ p.t.mem = t.mem /\ p.val = Bytes(q.mem, a, k) /\ r.t = p.t
          /\ r.val = LanesOf(WordIn(q.mem, c))
      BY <1>14, <2>1, <2>3, <2>5
    <3>2. o.val = Bytes(q.mem, a, n)
      BY <1>13, <2>2, <3>1 DEF J
    <3> QED BY <1>14, <2>1, <2>2, <2>3, <3>1, <3>2
  <2> QED BY <2>4, <2>5
<1> QED BY <1>3, <1>16 DEF Gives

-----------------------------------------------------------------------------
(* An access that is read                                                   *)

LEMMA OneByte ==
  ASSUME NEW f, NEW a \in Nat
  PROVE  Bytes(f, a, 1) = <<f[a]>>
<1>1. \A i \in 1 .. 1 : i = 1 /\ a + i - 1 = a
  OBVIOUS
<1>2. Bytes(f, a, 1) = [i \in 1 .. 1 |-> f[a]]
  BY <1>1 DEF Bytes
<1> QED BY <1>2

(* What becomes of a piece.                                                 *)
PieceReads(x, t) == IF x.byte THEN ReadByte(t, x.a) ELSE ReadBlock(t, x.a, x.n)

LEMMA PieceGiven ==
  ASSUME NEW q, IsAccess(q), NEW m \in 0 .. Len(q.seq), m + 1 \in 0 .. Len(q.seq),
         NEW t, True(t)
  PROVE  LET x == q.seq[m + 1]
         IN  \A o \in PieceReads(x, t) : Gives(t, o, Bytes(t.mem, x.a, x.n))
<1> DEFINE x == q.seq[m + 1]
           a == x.a
           n == x.n
           b == q.addr
           L == q.size
           z == (b + L) - a
<1>1. x = PieceAt(a, z) /\ a \in Cells /\ a \in b .. (b + L) - 1 /\ n \in 1 .. z
  BY PieceOf
<1>2. b \in Nat /\ L \in Nat /\ b .. b + L - 1 \subseteq Cells
  BY DEF IsAccess
<1>3. PieceReads(x, t) = IF x.byte THEN ReadByte(t, a) ELSE ReadBlock(t, a, n)
  BY DEF PieceReads
<1> HIDE DEF x, a, n, z, b, L
<1>4. a \in Nat /\ z \in Nat \ {0} /\ n \in Nat \ {0} /\ a >= b /\ a + n <= b + L
  BY <1>1, <1>2 DEF z
<1>5. CASE x.byte
  <2>1. n = 1
    <3>1. Bytewise(a, z)
      BY <1>1, <1>5 DEF PieceAt
    <3> QED BY <1>1, <3>1 DEF PieceAt, n
  <2>2. Bytes(t.mem, a, n) = <<t.mem[a]>>
    BY <1>4, <2>1, OneByte
  <2> QED BY <1>1, <1>3, <1>5, <2>2, ReadByteExact DEF x, a, n
<1>6. CASE ~x.byte
  <2>1. ~PieceAt(a, z).byte /\ n = PieceAt(a, z).n
    BY <1>1, <1>6 DEF n
  <2>2. a % Word = 0 /\ n % Word = 0 /\ (a % AutoPage) + n <= AutoPage
    BY <1>4, <2>1, PieceFits
  <2>3. a .. a + n - 1 \subseteq Cells
    BY <1>2, <1>4
  <2>4. \A o \in ReadBlock(t, a, n) : Gives(t, o, Bytes(t.mem, a, n))
    BY <1>4, <2>2, <2>3, ReadBlockExact
  <2> QED BY <1>3, <1>6, <2>4 DEF x, a, n
<1> QED BY <1>5, <1>6

LEMMA ReadStep ==
  ASSUME NEW q, IsAccess(q), NEW m \in 0 .. Len(q.seq), m + 1 \in 0 .. Len(q.seq),
         NEW outs, \A o \in outs : ReadAt(q, m, o)
  PROVE  \A o \in FoldStep("read", None, outs, q.seq[m + 1]) : ReadAt(q, m + 1, o)
<1> DEFINE x == q.seq[m + 1]
           b == q.addr
           a == x.a
           n == x.n
           A(u) == PieceReads(x, u)
           B(got, u) == Then(A(u), LAMBDA v, w : {Yes(got \o v, w)})
           J(got, v) == got \o v
<1>1. \A o \in FoldStep("read", None, outs, x) :
        \E p \in outs : (p.ok /\ o \in B(p.val, p.t)) \/ (~p.ok /\ o = p)
  <2>1. FoldStep("read", None, outs, x) = Then(outs, LAMBDA got, u : B(got, u))
    BY DEF FoldStep, PieceReads
  <2> HIDE DEF B, x
  <2> QED BY <2>1 DEF Then
<1>2. ASSUME NEW got, NEW u, NEW o \in B(got, u), o.ok
      PROVE  \E r \in A(u) : r.ok /\ o.val = J(got, r.val) /\ o.t = r.t
  <2> HIDE DEF A
  <2>1. \E r \in A(u) : (r.ok /\ o = Yes(got \o r.val, r.t)) \/ (~r.ok /\ o = r)
    BY <1>2 DEF Then, B
  <2>2. \A y, z : Yes(y, z).val = y /\ Yes(y, z).t = z
    BY DEF Yes
  <2>3. PICK r \in A(u) : r.ok /\ o = Yes(got \o r.val, r.t)
    BY <1>2, <2>1
  <2>4. o.val = got \o r.val /\ o.t = r.t
    BY <2>2, <2>3
  <2> QED BY <2>3, <2>4
<1>3. /\ a \in b .. (b + q.size) - 1 /\ n \in 1 .. (b + q.size) - a
      /\ Done(q, m) = a /\ Done(q, m + 1) = a + n
  BY PieceOf
<1>4. \A u : True(u) => \A r \in A(u) : Gives(u, r, Bytes(u.mem, a, n))
  BY PieceGiven
<1>5. b \in Nat /\ q.size \in Nat
  BY DEF IsAccess
<1> DEFINE k == a - b
           l == (a + n) - b
<1>6. \A o : ReadAt(q, m, o) <=>
        (o.ok => /\ True(o.t) /\ (q.repeated => o.t.repeated)
                 /\ o.t.repeated \/ (o.t.mem = q.mem /\ o.val = Bytes(q.mem, b, k)))
  BY <1>3 DEF ReadAt
<1>7. \A o : ReadAt(q, m + 1, o) <=>
        (o.ok => /\ True(o.t) /\ (q.repeated => o.t.repeated)
                 /\ o.t.repeated \/ (o.t.mem = q.mem /\ o.val = Bytes(q.mem, b, l)))
  BY <1>3 DEF ReadAt
<1> HIDE DEF x, A, B, a, n, b
<1>8. J(Bytes(q.mem, b, k), Bytes(q.mem, a, n)) = Bytes(q.mem, b, l)
  <2>1. k \in Nat /\ n \in Nat /\ b \in Nat /\ a = b + k /\ l = k + n
    BY <1>3, <1>5
  <2> HIDE DEF k, l
  <2>2. Joins(q.mem, b, k, a, n, l)
    BY <2>1, BytesJoined
  <2> QED BY <2>2 DEF Joins
<1> HIDE DEF J, k, l
<1>9. ASSUME NEW o, ~o.ok PROVE ReadAt(q, m + 1, o)
  BY <1>7, <1>9
<1>10. ASSUME NEW o \in FoldStep("read", None, outs, x), o.ok
       PROVE  ReadAt(q, m + 1, o)
  <2>1. PICK p \in outs : p.ok /\ o \in B(p.val, p.t)
    BY <1>1, <1>10
  <2>2. PICK r \in A(p.t) : r.ok /\ o.val = J(p.val, r.val) /\ o.t = r.t
    BY <1>2, <1>10, <2>1
  <2>3. /\ True(p.t) /\ (q.repeated => p.t.repeated)
        /\ p.t.repeated \/ (p.t.mem = q.mem /\ p.val = Bytes(q.mem, b, k))
    BY <1>6, <2>1
  <2>4. /\ True(r.t) /\ (p.t.repeated => r.t.repeated)
        /\ r.t.repeated \/ (r.t.mem = p.t.mem /\ r.val = Bytes(p.t.mem, a, n))
    BY <1>4, <2>2, <2>3 DEF Gives
  <2> QED BY <1>7, <1>8, <2>2, <2>3, <2>4
<1> QED BY <1>9, <1>10 DEF x

LEMMA ReadMemoryExact ==
  ASSUME NEW t, True(t), NEW addr \in Nat, NEW length \in Nat,
         addr .. addr + length - 1 \subseteq Cells
  PROVE  \A o \in ReadMemory(t, addr, length) : Gives(t, o, Bytes(t.mem, addr, length))
<1> DEFINE seq == Pieces(addr, length)
           q == [addr |-> addr, size |-> length, mem |-> t.mem, repeated |-> t.repeated,
                 seq |-> seq]
           n == Len(seq)
           base == {Yes(<<>>, t)}
<1>1. Row(seq, addr, addr + length)
  BY PiecesInRow
<1>2. n \in Nat /\ DOMAIN seq = 1 .. n
  <2> HIDE DEF seq
  <2> QED BY <1>1 DEF Row
<1>3. /\ q.addr = addr /\ q.size = length /\ q.mem = t.mem /\ q.repeated = t.repeated
      /\ q.seq = seq
  OBVIOUS
<1> HIDE DEF q
<1>4. PICK g : /\ FoldIter("read", None, base, seq, n, g)
               /\ ReadMemory(t, addr, length) = g[1 .. n]
  BY <1>2, ReadsFold
<1> HIDE DEF seq
<1>5. IsAccess(q)
  BY <1>1, <1>3 DEF IsAccess
<1>6. Done(q, 0) = addr /\ Done(q, n) = addr + length
  <2>1. n = 0 => addr = addr + length
    BY <1>1 DEF Row
  <2>2. n # 0 => seq[1].a = addr
    BY <1>1 DEF Row
  <2>3. Done(q, n) = addr + length
    BY <1>3 DEF Done
  <2>4. Done(q, 0) = IF 0 = n THEN addr + length ELSE seq[1].a
    BY <1>3 DEF Done
  <2> QED BY <2>1, <2>2, <2>3, <2>4
<1>7. \A o, m, e : Done(q, m) = addr + e /\ e \in Nat =>
        (ReadAt(q, m, o) <=>
           (o.ok => /\ True(o.t) /\ (t.repeated => o.t.repeated)
                    /\ o.t.repeated \/ (o.t.mem = t.mem /\ o.val = Bytes(t.mem, addr, e))))
  <2>1. \A e \in Nat : (addr + e) - addr = e
    OBVIOUS
  <2> QED BY <1>3, <2>1 DEF ReadAt
<1>8. ReadAt(q, 0, Yes(<<>>, t))
  <2>1. Yes(<<>>, t).t = t /\ Yes(<<>>, t).val = <<>>
    BY DEF Yes
  <2>2. Bytes(t.mem, addr, 0) = <<>>
    BY NoBytes
  <2>3. Done(q, 0) = addr + 0 /\ 0 \in Nat
    BY <1>6
  <2> QED BY <1>7, <2>1, <2>2, <2>3
<1>9. FoldAt("read", "read", q, 0, base)
  BY <1>8 DEF FoldAt
<1> HIDE DEF base, n
<1>10. ASSUME NEW m \in 0 .. n, m + 1 \in 0 .. n, NEW outs, FoldAt("read", "read", q, m, outs)
       PROVE  FoldAt("read", "read", q, m + 1, FoldStep("read", None, outs, seq[m + 1]))
  <2>1. \A o \in outs : ReadAt(q, m, o)
    BY <1>10 DEF FoldAt
  <2>2. \A o \in FoldStep("read", None, outs, q.seq[m + 1]) : ReadAt(q, m + 1, o)
    BY <1>3, <1>5, <1>10, <2>1, ReadStep DEF n
  <2> QED BY <1>3, <2>2 DEF FoldAt
<1>11. FoldAt("read", "read", q, n, g[1 .. n])
  BY <1>2, <1>4, <1>9, <1>10, FoldReaches
<1>12. \A o \in ReadMemory(t, addr, length) : ReadAt(q, n, o)
  BY <1>4, <1>11 DEF FoldAt
<1> QED BY <1>6, <1>7, <1>12 DEF Gives

-----------------------------------------------------------------------------
(* The core, as words reach its registers                                   *)

LEMMA CoreChain ==
  ASSUME NEW t, NEW u, NEW w, SameCore(t, u), SameCore(u, w)
  PROVE  SameCore(t, w)
  BY DEF SameCore

LEMMA AdvancedCore ==
  ASSUME NEW t, Typed(t)
  PROVE  SameCore(t, Advanced(t)) /\ Advanced(t).posted = t.posted
  BY DEF Typed, Fields, Advanced, SameCore

(* Reading a register shows it and leaves the core alone.                   *)
LEMMA FetchedCore ==
  ASSUME NEW t, Typed(t)
  PROVE  /\ SameCore(t, Fetched(t))
         /\ t.tar \in Registers /\ t.tcsw = 32 => Fetched(t).posted = RegRead(t, t.tar)
<1> DEFINE p == IF t.tar \in Cells
    THEN LanesOf([lane \in 0 .. Word - 1 |->
            IF Aligned(t.tar) + lane \in Driven(t) THEN t.mem[Aligned(t.tar) + lane] ELSE None])
    ELSE IF t.tar \in Registers /\ t.tcsw = 32 THEN RegRead(t, t.tar)
    ELSE Junk
           u == [t EXCEPT !.posted = p]
<1>1. Fetched(t) = Advanced(u)
  BY DEF Fetched
<1>2. t.tar \in Registers /\ t.tcsw = 32 => p = RegRead(t, t.tar)
  BY SwdTargetAssumption
<1> HIDE DEF p
<1>3. Typed(u) /\ SameCore(t, u) /\ u.posted = p
  BY DEF Typed, Fields, SameCore
<1> HIDE DEF u
<1> QED BY <1>1, <1>2, <1>3, AdvancedCore, CoreChain

LEMMA AnswersCore ==
  ASSUME NEW t, Typed(t), NEW reg \in Readable
  PROVE  \A a \in Answers(t, reg) : SameCore(t, a.t)
<1>1. CASE reg = "DRW"
  <2>1. \A a \in Answers(t, reg) :
           a.t = [t EXCEPT !.posted = Junk] \/ a.t = Fetched(t) \/ a.t \in BusError(t)
    BY <1>1 DEF Answers
  <2>2. SameCore(t, [t EXCEPT !.posted = Junk])
    BY DEF SameCore, Typed, Fields
  <2>3. \A u \in BusError(t) : SameCore(t, u)
    BY DEF BusError, SameCore, Typed, Fields
  <2> QED BY <2>1, <2>2, <2>3, FetchedCore
<1>2. CASE reg = "IDR"
  <2>1. \A a \in Answers(t, reg) :
           a.t = [t EXCEPT !.posted = IF t.tselect = 1 THEN <<"IDR">> ELSE Junk]
    BY <1>2 DEF Answers
  <2> QED BY <2>1 DEF SameCore, Typed, Fields
<1>3. CASE reg \in {"RDBUFF", "IDCODE", "CTRL_STAT"}
  <2>1. \A a \in Answers(t, reg) : a.t = t
    BY <1>3 DEF Answers
  <2> QED BY <2>1 DEF SameCore
<1> QED BY <1>1, <1>2, <1>3 DEF Readable

LEMMA ReadRegCore ==
  ASSUME NEW t, Typed(t), NEW reg \in Readable
  PROVE  \A o \in ReadReg(t, reg) : SameCore(t, o.t)
<1> DEFINE failed(u) == [u EXCEPT !.trouble = TRUE]
           again(u) == [failed(u) EXCEPT !.repeated = TRUE]
<1>0. ReadReg(t, reg) =
        {No(failed(t))} \cup
        (IF ~Answering(t, reg) THEN {}
         ELSE UNION {{Yes(a.val, a.t), No(failed(a.t))} \cup
                     (IF host = "cpp" /\ Answering(a.t, reg)
                      THEN {Yes(b.val, again(b.t)) : b \in Answers(a.t, reg)} ELSE {})
                     : a \in Answers(t, reg)})
  BY DEF ReadReg
<1>1. \A u : Typed(u) => SameCore(u, failed(u)) /\ SameCore(u, again(u))
  BY DEF SameCore, Typed, Fields
<1> HIDE DEF failed, again
<1>2. \A o \in ReadReg(t, reg) :
         \/ o.t = failed(t)
         \/ \E a \in Answers(t, reg) :
              \/ o.t = a.t \/ o.t = failed(a.t)
              \/ \E b \in Answers(a.t, reg) : o.t = again(b.t)
  BY <1>0, OutcomeFields
<1>3. \A a \in Answers(t, reg) : SameCore(t, a.t) /\ Typed(a.t)
  BY AnswersCore, AnswersFollow DEF Follows
<1>4. \A a \in Answers(t, reg) : \A b \in Answers(a.t, reg) : SameCore(a.t, b.t) /\ Typed(b.t)
  BY <1>3, AnswersCore, AnswersFollow DEF Follows
<1>5. \A a \in Answers(t, reg) : SameCore(t, failed(a.t))
  BY <1>1, <1>3, CoreChain
<1>6. \A a \in Answers(t, reg) : \A b \in Answers(a.t, reg) : SameCore(t, b.t)
  BY <1>3, <1>4, CoreChain
<1>7. \A a \in Answers(t, reg) : \A b \in Answers(a.t, reg) : SameCore(t, again(b.t))
  BY <1>1, <1>4, <1>6, CoreChain
<1> QED BY <1>1, <1>2, <1>3, <1>5, <1>7

LEMMA RegisterFetched ==
  ASSUME NEW t, Aimed(t, 32), t.tar \in Registers
  PROVE  \A o \in ReadReg(t, "DRW") :
           o.ok => o.t.repeated \/ o.t.posted = RegRead(t, t.tar)
<1> DEFINE failed(u) == [u EXCEPT !.trouble = TRUE]
           again(u) == [failed(u) EXCEPT !.repeated = TRUE]
           reg == "DRW"
<1>1. ReadReg(t, reg) =
        {No(failed(t))} \cup
        (IF ~Answering(t, reg) THEN {}
         ELSE UNION {{Yes(a.val, a.t), No(failed(a.t))} \cup
                     (IF host = "cpp" /\ Answering(a.t, reg)
                      THEN {Yes(b.val, again(b.t)) : b \in Answers(a.t, reg)} ELSE {})
                     : a \in Answers(t, reg)})
  BY DEF ReadReg
<1>2. \A a \in Answers(t, reg) : a.t = Fetched(t)
  <2>1. BusError(t) = {}
    BY SwdTargetAssumption DEF BusError
  <2> QED BY <2>1 DEF Answers, Aimed
<1>3. Typed(t) /\ reg \in Readable /\ t.tcsw = 32
  BY DEF Aimed, Readable
<1>4. \A u : Typed(u) => again(u).repeated
  BY DEF Typed, Fields
<1> HIDE DEF failed, again, reg
<1>5. \A o \in ReadReg(t, reg) :
         o.ok => \E a \in Answers(t, reg) :
                   o.t = a.t \/ \E b \in Answers(a.t, reg) : o.t = again(b.t)
  BY <1>1, OutcomeFields
<1>6. \A a \in Answers(t, reg) : \A b \in Answers(a.t, reg) : Typed(b.t)
  BY <1>3, AnswersFollow DEF Follows
<1> QED BY <1>2, <1>3, <1>4, <1>5, <1>6, FetchedCore DEF reg

LEMMA SameRegisters ==
  ASSUME NEW t, NEW u, SameCore(t, u), NEW reg
  PROVE  RegRead(u, reg) = RegRead(t, reg)
  BY DEF SameCore, RegRead, Halted

(* A word read from a register is what it holds.                            *)
LEMMA ReadWordExact ==
  ASSUME NEW t, True(t), NEW reg \in Registers
  PROVE  \A o \in ReadWord(t, reg) :
           /\ SameCore(t, o.t) /\ (t.repeated => o.t.repeated)
           /\ o.ok => True(o.t) /\ (o.t.repeated \/ o.val = RegRead(t, reg))
<1>1. \A o \in ReadWord(t, reg) :
        \E p \in SetCSW(t, 32) : (p.ok /\ o \in ReadData(p.t, reg)) \/ (~p.ok /\ o = p)
  BY DEF ReadWord, Then
<1>2. \A p \in SetCSW(t, 32) :
        /\ SameCore(t, p.t) /\ (t.repeated => p.t.repeated)
        /\ p.ok => Aimed(p.t, 32)
  BY SetCSWTrue
<1>3. ASSUME NEW u, Aimed(u, 32), NEW o \in ReadData(u, reg)
      PROVE  /\ SameCore(u, o.t) /\ Follows(u, o.t)
             /\ o.ok => o.t.repeated \/ o.val = RegRead(u, reg)
  <2>0. Typed(u)
    BY <1>3 DEF Aimed
  <2>1. PICK p \in WriteReg(u, "TAR", reg) :
          \/ ~p.ok /\ o = p
          \/ p.ok /\ \E q \in ReadReg(p.t, "DRW") :
               (q.ok /\ o \in Confirm(q.t)) \/ (~q.ok /\ o = q)
    BY <1>3 DEF ReadData, Then
  <2>2. Follows(u, p.t) /\ Typed(p.t)
    BY <2>0, WriteRegFollows DEF AllFollow, Follows
  <2>3. SameCore(u, p.t) /\ (p.ok => Aimed(p.t, 32) /\ p.t.tar = reg)
    BY <1>3, TargetSet
  <2>4. Follows(u, o.t)
    BY <1>3, <2>0, ReadDataFollows DEF AllFollow
  <2>5. CASE ~p.ok
    BY <2>1, <2>3, <2>4, <2>5
  <2>6. CASE p.ok
    <3>1. PICK q \in ReadReg(p.t, "DRW") : (q.ok /\ o \in Confirm(q.t)) \/ (~q.ok /\ o = q)
      BY <2>1, <2>6
    <3>2. SameCore(p.t, q.t) /\ Typed(q.t)
      BY <2>2, ReadRegCore, ReadRegFollows DEF Readable, AllFollow, Follows
    <3>3. SameCore(u, q.t)
      BY <2>3, <3>2, CoreChain
    <3>4. q.ok => q.t.repeated \/ q.t.posted = RegRead(u, reg)
      BY <2>3, <2>6, RegisterFetched, SameRegisters
    <3>5. ASSUME o \in Confirm(q.t)
          PROVE  /\ SameCore(q.t, o.t) /\ (q.t.repeated => o.t.repeated)
                 /\ o.ok => o.t.repeated \/ o.val = q.t.posted
      BY <3>2, <3>5, ConfirmExact, ConfirmReturns DEF Follows
    <3> QED BY <2>4, <3>1, <3>3, <3>4, <3>5, CoreChain
  <2> QED BY <2>5, <2>6
<1>4. ASSUME NEW o \in ReadWord(t, reg)
      PROVE  /\ SameCore(t, o.t) /\ (t.repeated => o.t.repeated)
             /\ o.ok => True(o.t) /\ (o.t.repeated \/ o.val = RegRead(t, reg))
  <2>1. PICK p \in SetCSW(t, 32) : (p.ok /\ o \in ReadData(p.t, reg)) \/ (~p.ok /\ o = p)
    BY <1>1
  <2>2. CASE ~p.ok
    BY <1>2, <2>1, <2>2
  <2>3. CASE p.ok
    <3>1. /\ SameCore(p.t, o.t) /\ Follows(p.t, o.t) /\ Aimed(p.t, 32)
          /\ o.ok => o.t.repeated \/ o.val = RegRead(p.t, reg)
      BY <1>2, <1>3, <2>1, <2>3
    <3>2. True(o.t) /\ (p.t.repeated => o.t.repeated)
      BY <3>1, AimedFollows DEF Follows
    <3> QED BY <1>2, <3>1, <3>2, CoreChain, SameRegisters
  <2> QED BY <2>2, <2>3
<1> QED BY <1>4

LEMMA RegisterSet ==
  ASSUME NEW t, Aimed(t, 32), t.tar \in Registers, NEW v
  PROVE  \A o \in WriteReg(t, "DRW", v) :
           o.ok => \E w \in RegWrite(t, t.tar, v) : o.t = Advanced(w)
<1>1. Written(t, "DRW", v) = {Advanced(w) : w \in RegWrite(t, t.tar, v)}
  <2>1. t.tar \notin Cells
    BY SwdTargetAssumption
  <2>2. BusError(t) = {}
    BY <2>1 DEF BusError
  <2>3. Stored(t, v) = {Advanced(w) : w \in RegWrite(t, t.tar, v)}
    BY <2>1 DEF Stored, Aimed
  <2> QED BY <2>2, <2>3 DEF Written, Aimed
<1> QED BY <1>1, WriteRegEnds

(* A word written to a register has its effect on the core as it stands.    *)
Takes(t, reg, v, o) ==
  /\ True(o.t) /\ (t.repeated => o.t.repeated)
  /\ \E u : Typed(u) /\ SameCore(t, u) /\ \E w \in RegWrite(u, reg, v) : SameCore(w, o.t)

LEMMA WriteWordExact ==
  ASSUME NEW t, True(t), NEW reg \in Registers, NEW v, reg = DCRSR /\ v.write => v.reg \in CoreRegs
  PROVE  \A o \in WriteWord(t, reg, v) : o.ok => Takes(t, reg, v, o)
<1>1. SUFFICES ASSUME NEW o \in WriteWord(t, reg, v), o.ok
               PROVE  Takes(t, reg, v, o)
  OBVIOUS
<1>2. PICK p \in SetCSW(t, 32) : (p.ok /\ o \in WriteData(p.t, reg, v)) \/ (~p.ok /\ o = p)
  BY DEF WriteWord, Then
<1>3. /\ p.ok /\ o \in WriteData(p.t, reg, v)
      /\ SameCore(t, p.t) /\ (t.repeated => p.t.repeated) /\ Aimed(p.t, 32) /\ Typed(p.t)
  BY <1>1, <1>2, SetCSWTrue DEF Aimed
<1>4. PICK q \in WriteReg(p.t, "TAR", reg) :
        \/ ~q.ok /\ o = q
        \/ q.ok /\ \E r \in WriteReg(q.t, "DRW", v) :
             (r.ok /\ o \in Confirm(r.t)) \/ (~r.ok /\ o = r)
  BY <1>3 DEF WriteData, Then
<1>5. PICK r \in WriteReg(q.t, "DRW", v) : r.ok /\ o \in Confirm(r.t)
  BY <1>1, <1>4
<1>6. q.ok /\ SameCore(p.t, q.t) /\ Aimed(q.t, 32) /\ q.t.tar = reg /\ Typed(q.t)
  BY <1>1, <1>3, <1>4, TargetSet DEF Aimed
<1>7. PICK w \in RegWrite(q.t, reg, v) : r.t = Advanced(w)
  BY <1>5, <1>6, RegisterSet
<1>8. Follows(q.t, w) /\ Typed(w)
  BY <1>6, <1>7, RegWriteFollows DEF Follows
<1>9. SameCore(w, r.t) /\ Typed(r.t)
  BY <1>7, <1>8, AdvancedCore, AdvancedFollows DEF Follows
<1>10. SameCore(w, o.t)
  BY <1>5, <1>9, ConfirmExact, CoreChain
<1>11. Follows(p.t, o.t)
  BY <1>3, WriteDataFollows DEF AllFollow
<1>12. True(o.t) /\ (t.repeated => o.t.repeated)
  BY <1>3, <1>11, AimedFollows DEF Follows
<1>13. SameCore(t, q.t)
  BY <1>3, <1>6, CoreChain
<1> QED BY <1>6, <1>7, <1>10, <1>12, <1>13 DEF Takes

(* The four words of a syscall.                                             *)

LEMMA ArgumentSet ==
  ASSUME NEW t, True(t), NEW n
  PROVE  \A o \in WriteWord(t, DCRDR, n) :
           o.ok => /\ True(o.t) /\ (t.repeated => o.t.repeated)
                   /\ o.t.dcrdr = <<"arg", n>> /\ o.t.run = t.run /\ o.t.given = t.given
                   /\ o.t.r0 = t.r0 /\ o.t.resetting = t.resetting
<1>1. DCRDR \in Registers /\ DCRDR \notin {DHCSR, DEMCR, AIRCR, DCRSR}
  BY RegistersDiffer DEF Registers
<1>2. \A o \in WriteWord(t, DCRDR, n) : o.ok => Takes(t, DCRDR, n, o)
  BY <1>1, WriteWordExact
<1>3. ASSUME NEW u, Typed(u), NEW w \in RegWrite(u, DCRDR, n)
      PROVE  /\ w.dcrdr = <<"arg", n>> /\ w.run = u.run /\ w.given = u.given
             /\ w.r0 = u.r0 /\ w.resetting = u.resetting
  <2>1. w = [u EXCEPT !.dcrdr = <<"arg", n>>]
    BY <1>1 DEF RegWrite
  <2> QED BY <1>3, <2>1 DEF Typed, Fields
<1> QED BY <1>2, <1>3 DEF Takes, SameCore

LEMMA RegisterGiven ==
  ASSUME NEW t, True(t), Halted(t), NEW n \in CoreRegs, t.dcrdr = <<"arg", n>>
  PROVE  \A o \in WriteWord(t, DCRSR, [reg |-> n, write |-> TRUE]) :
           o.ok => /\ True(o.t) /\ (t.repeated => o.t.repeated)
                   /\ Halted(o.t) /\ o.t.given = t.given \cup {n}
                   /\ o.t.r0 = t.r0 /\ o.t.resetting = t.resetting
<1> DEFINE v == [reg |-> n, write |-> TRUE]
<1>1. DCRSR \in Registers /\ DCRSR \notin {DHCSR, DEMCR, AIRCR, DCRDR}
  BY RegistersDiffer DEF Registers
<1>2. v.reg = n /\ v.write
  OBVIOUS
<1> HIDE DEF v
<1>3. \A o \in WriteWord(t, DCRSR, v) : o.ok => Takes(t, DCRSR, v, o)
  BY <1>1, <1>2, WriteWordExact
<1>4. ASSUME NEW u, Typed(u), Halted(u), u.dcrdr = <<"arg", n>>, NEW w \in RegWrite(u, DCRSR, v)
      PROVE  /\ w.run = u.run /\ w.given = u.given \cup {n}
             /\ w.r0 = u.r0 /\ w.resetting = u.resetting
  <2>1. RegWrite(u, DCRSR, v) =
          {RegisterTaken(u, n)} \cup (IF Halted(u) THEN {} ELSE {u})
    BY <1>1, <1>2 DEF RegWrite
  <2>2. w = RegisterTaken(u, n)
    BY <1>4, <2>1
  <2>3. w = [u EXCEPT !.given = u.given \cup {n}]
    BY <1>4, <2>2 DEF RegisterTaken
  <2> QED BY <1>4, <2>3 DEF Typed, Fields
<1>5. \A o \in WriteWord(t, DCRSR, v) :
        o.ok => /\ True(o.t) /\ (t.repeated => o.t.repeated)
                /\ Halted(o.t) /\ o.t.given = t.given \cup {n}
                /\ o.t.r0 = t.r0 /\ o.t.resetting = t.resetting
  BY <1>3, <1>4 DEF Takes, SameCore, Halted
<1> QED BY <1>5 DEF v

LEMMA ResultAsked ==
  ASSUME NEW t, True(t), Halted(t), NEW n
  PROVE  \A o \in WriteWord(t, DCRSR, [reg |-> n, write |-> FALSE]) :
           o.ok => /\ True(o.t) /\ (t.repeated => o.t.repeated)
                   /\ Halted(o.t) /\ o.t.dcrdr = <<"r0", t.r0>> /\ o.t.given = t.given
                   /\ o.t.r0 = t.r0 /\ o.t.resetting = t.resetting
<1> DEFINE v == [reg |-> n, write |-> FALSE]
<1>1. DCRSR \in Registers /\ DCRSR \notin {DHCSR, DEMCR, AIRCR, DCRDR}
  BY RegistersDiffer DEF Registers
<1>2. ~v.write
  OBVIOUS
<1> HIDE DEF v
<1>3. \A o \in WriteWord(t, DCRSR, v) : o.ok => Takes(t, DCRSR, v, o)
  BY <1>1, <1>2, WriteWordExact
<1>4. ASSUME NEW u, Typed(u), Halted(u), NEW w \in RegWrite(u, DCRSR, v)
      PROVE  /\ w.run = u.run /\ w.dcrdr = <<"r0", u.r0>> /\ w.given = u.given
             /\ w.r0 = u.r0 /\ w.resetting = u.resetting
  <2>1. w = [u EXCEPT !.dcrdr = <<"r0", u.r0>>]
    BY <1>1, <1>2, <1>4 DEF RegWrite
  <2> QED BY <1>4, <2>1 DEF Typed, Fields
<1>5. \A o \in WriteWord(t, DCRSR, v) :
        o.ok => /\ True(o.t) /\ (t.repeated => o.t.repeated)
                /\ Halted(o.t) /\ o.t.dcrdr = <<"r0", t.r0>> /\ o.t.given = t.given
                /\ o.t.r0 = t.r0 /\ o.t.resetting = t.resetting
  BY <1>3, <1>4 DEF Takes, SameCore, Halted
<1> QED BY <1>5 DEF v

LEMMA CoreReleased ==
  ASSUME NEW t, True(t), Halted(t), t.given = CoreRegs
  PROVE  \A o \in WriteWord(t, DHCSR, {"C_DEBUGEN"}) :
           o.ok => /\ True(o.t) /\ (t.repeated => o.t.repeated)
                   /\ o.t.run = "algo" /\ o.t.given = CoreRegs
                   /\ o.t.r0 = t.r0 /\ o.t.resetting = t.resetting
<1> DEFINE v == {"C_DEBUGEN"}
<1>1. DHCSR \in Registers /\ DHCSR # DCRSR
  BY RegistersDiffer DEF Registers
<1>2. ~({"C_DEBUGEN", "C_HALT"} \subseteq v)
  OBVIOUS
<1> HIDE DEF v
<1>3. \A o \in WriteWord(t, DHCSR, v) : o.ok => Takes(t, DHCSR, v, o)
  BY <1>1, WriteWordExact
<1>4. ASSUME NEW u, Typed(u), Halted(u), u.given = CoreRegs, NEW w \in RegWrite(u, DHCSR, v)
      PROVE  /\ w.run = "algo" /\ w.given = CoreRegs
             /\ w.r0 = u.r0 /\ w.resetting = u.resetting
  <2> DEFINE x == [u EXCEPT !.debugen = "C_DEBUGEN" \in v]
  <2>1. RegWrite(u, DHCSR, v) =
          {IF {"C_DEBUGEN", "C_HALT"} \subseteq v THEN [x EXCEPT !.haltreq = TRUE] ELSE Resumed(x)}
    BY RegistersDiffer DEF RegWrite
  <2>2. /\ Typed(x) /\ Halted(x) /\ x.given = CoreRegs
        /\ x.r0 = u.r0 /\ x.resetting = u.resetting
    BY <1>4 DEF Typed, Fields, Halted
  <2> HIDE DEF x
  <2>3. w = Resumed(x)
    BY <1>2, <2>1
  <2> QED BY <2>2, <2>3 DEF Resumed, Typed, Fields
<1>5. \A o \in WriteWord(t, DHCSR, v) :
        o.ok => /\ True(o.t) /\ (t.repeated => o.t.repeated)
                /\ o.t.run = "algo" /\ o.t.given = CoreRegs
                /\ o.t.r0 = t.r0 /\ o.t.resetting = t.resetting
  BY <1>3, <1>4 DEF Takes, SameCore, Halted
<1> QED BY <1>5 DEF v

LEMMA RegisterReadyExact ==
  ASSUME NEW t, True(t)
  PROVE  \A o \in RegisterReady(t) :
           SameCore(t, o.t) /\ (o.ok => True(o.t) /\ (t.repeated => o.t.repeated))
<1>1. \A o \in RegisterReady(t) :
        \E p \in ReadWord(t, DHCSR) :
          (p.ok /\ (o = Yes(None, p.t) \/ o = No(p.t))) \/ (~p.ok /\ o = p)
  BY DEF RegisterReady, Then
<1>2. \A o \in RegisterReady(t) :
        \E p \in ReadWord(t, DHCSR) : o.t = p.t /\ (o.ok => p.ok)
  BY <1>1, OutcomeFields
<1>3. DHCSR \in Registers
  BY DEF Registers
<1> QED BY <1>2, <1>3, ReadWordExact

(* A register is given its argument.                                        *)
LEMMA WriteCoreRegisterExact ==
  ASSUME NEW t, True(t), Halted(t), NEW n \in CoreRegs
  PROVE  \A o \in WriteCoreRegister(t, n) :
           o.ok => /\ True(o.t) /\ (t.repeated => o.t.repeated)
                   /\ Halted(o.t) /\ o.t.given = t.given \cup {n}
                   /\ o.t.r0 = t.r0 /\ o.t.resetting = t.resetting
<1> DEFINE r == [reg |-> n, write |-> TRUE]
           B(u) == Then(WriteWord(u, DCRSR, r), LAMBDA y, w : RegisterReady(w))
<1>1. \A o \in WriteCoreRegister(t, n) :
        \E p \in WriteWord(t, DCRDR, n) : (p.ok /\ o \in B(p.t)) \/ (~p.ok /\ o = p)
  <2>1. WriteCoreRegister(t, n) = Then(WriteWord(t, DCRDR, n), LAMBDA x, u : B(u))
    BY DEF WriteCoreRegister
  <2> HIDE DEF B
  <2> QED BY <2>1 DEF Then
<1>2. \A u : \A o \in B(u) :
        \E p \in WriteWord(u, DCRSR, r) : (p.ok /\ o \in RegisterReady(p.t)) \/ (~p.ok /\ o = p)
  <2> HIDE DEF r
  <2> QED BY DEF Then
<1>3. \A u : True(u) /\ Halted(u) /\ u.dcrdr = <<"arg", n>> =>
        \A q \in WriteWord(u, DCRSR, r) :
          q.ok => /\ True(q.t) /\ (u.repeated => q.t.repeated)
                  /\ Halted(q.t) /\ q.t.given = u.given \cup {n}
                  /\ q.t.r0 = u.r0 /\ q.t.resetting = u.resetting
  BY RegisterGiven
<1> HIDE DEF r, B
<1>4. SUFFICES ASSUME NEW o \in WriteCoreRegister(t, n), o.ok
               PROVE  /\ True(o.t) /\ (t.repeated => o.t.repeated)
                      /\ Halted(o.t) /\ o.t.given = t.given \cup {n}
                      /\ o.t.r0 = t.r0 /\ o.t.resetting = t.resetting
  OBVIOUS
<1>5. PICK p \in WriteWord(t, DCRDR, n) : p.ok /\ o \in B(p.t)
  BY <1>1, <1>4
<1>6. /\ True(p.t) /\ (t.repeated => p.t.repeated) /\ Halted(p.t)
      /\ p.t.dcrdr = <<"arg", n>> /\ p.t.given = t.given
      /\ p.t.r0 = t.r0 /\ p.t.resetting = t.resetting
  BY <1>5, ArgumentSet DEF Halted
<1>7. PICK q \in WriteWord(p.t, DCRSR, r) : q.ok /\ o \in RegisterReady(q.t)
  BY <1>2, <1>4, <1>5
<1>8. /\ True(q.t) /\ (p.t.repeated => q.t.repeated)
      /\ Halted(q.t) /\ q.t.given = p.t.given \cup {n}
      /\ q.t.r0 = p.t.r0 /\ q.t.resetting = p.t.resetting
  BY <1>3, <1>6, <1>7
<1>9. SameCore(q.t, o.t) /\ True(o.t) /\ (q.t.repeated => o.t.repeated)
  BY <1>4, <1>7, <1>8, RegisterReadyExact
<1> QED BY <1>6, <1>8, <1>9 DEF SameCore, Halted

(* All registers are.                                                       *)
LEMMA RegistersExact ==
  ASSUME NEW t, True(t), Halted(t), t.given = {}
  PROVE  \A o \in FoldLeft(LAMBDA outs, n : Then(outs, LAMBDA x, u : WriteCoreRegister(u, n)),
                           Select(t, 0), SetToSeq(CoreRegs)) :
           o.ok => /\ True(o.t) /\ (t.repeated => o.t.repeated)
                   /\ Halted(o.t) /\ o.t.given = CoreRegs
                   /\ o.t.r0 = t.r0 /\ o.t.resetting = t.resetting
<1> DEFINE seq == SetToSeq(CoreRegs)
           n == Cardinality(CoreRegs)
           base == Select(t, 0)
           q == [seq |-> seq, repeated |-> t.repeated, r0 |-> t.r0, resetting |-> t.resetting]
           F == FoldLeft(LAMBDA outs, k : Then(outs, LAMBDA x, u : WriteCoreRegister(u, k)),
                         base, seq)
<1>1. /\ n \in Nat /\ \A i \in 1 .. n : seq[i] \in CoreRegs
      /\ \A r \in CoreRegs : \E i \in 1 .. n : seq[i] = r
  BY RegistersInRow
<1>2. PICK g : FoldIter("register", None, base, seq, n, g) /\ F = g[1 .. n]
  BY RegistersFold
<1>3. /\ q.seq = seq /\ q.repeated = t.repeated /\ q.r0 = t.r0
      /\ q.resetting = t.resetting
  OBVIOUS
<1> HIDE DEF q, F, seq, n
<1>4. FoldAt("register", "given", q, 0, base)
  <2>1. {q.seq[i] : i \in 1 .. 0} = {}
    OBVIOUS
  <2>2. \A o \in base : SameCore(t, o.t) /\ (t.repeated => o.t.repeated) /\ (o.ok => True(o.t))
    BY SelectTrue
  <2> HIDE DEF base
  <2>3. \A o \in base : GivenAt(q, 0, o)
    BY <1>3, <2>1, <2>2 DEF GivenAt, SameCore, Halted
  <2> QED BY <2>3 DEF FoldAt
<1> HIDE DEF base
<1>5. ASSUME NEW m \in 0 .. n, m + 1 \in 0 .. n, NEW outs,
             FoldAt("register", "given", q, m, outs)
      PROVE  FoldAt("register", "given", q, m + 1, FoldStep("register", None, outs, seq[m + 1]))
  <2> DEFINE x == seq[m + 1]
             G == {q.seq[i] : i \in 1 .. m}
  <2>1. x \in CoreRegs
    <3>1. m + 1 \in 1 .. n
      BY <1>1, <1>5
    <3> QED BY <1>1, <3>1
  <2>2. {q.seq[i] : i \in 1 .. m + 1} = G \cup {x}
    <3>1. 1 .. m + 1 = (1 .. m) \cup {m + 1}
      OBVIOUS
    <3> QED BY <1>3, <3>1
  <2>3. \A o \in outs : GivenAt(q, m, o)
    BY <1>5 DEF FoldAt
  <2>4. \A o \in FoldStep("register", None, outs, x) :
          \E p \in outs : (p.ok /\ o \in WriteCoreRegister(p.t, x)) \/ (~p.ok /\ o = p)
    <3>1. FoldStep("register", None, outs, x) = Then(outs, LAMBDA y, u : WriteCoreRegister(u, x))
      BY DEF FoldStep
    <3> HIDE DEF x
    <3> QED BY <3>1 DEF Then
  <2>5. \A o \in outs :
          o.ok => /\ True(o.t) /\ (q.repeated => o.t.repeated)
                  /\ Halted(o.t) /\ o.t.given = G
                  /\ o.t.r0 = q.r0 /\ o.t.resetting = q.resetting
    BY <2>3 DEF GivenAt
  <2> HIDE DEF x, G
  <2>6. ASSUME NEW o \in FoldStep("register", None, outs, x)
        PROVE  GivenAt(q, m + 1, o)
    <3>1. SUFFICES ASSUME o.ok
                   PROVE  /\ True(o.t) /\ (q.repeated => o.t.repeated)
                          /\ Halted(o.t) /\ o.t.given = G \cup {x}
                          /\ o.t.r0 = q.r0 /\ o.t.resetting = q.resetting
      BY <2>2 DEF GivenAt
    <3>2. PICK p \in outs : p.ok /\ o \in WriteCoreRegister(p.t, x)
      BY <2>4, <3>1
    <3> QED BY <2>1, <2>5, <3>1, <3>2, WriteCoreRegisterExact
  <2>7. \A o \in FoldStep("register", None, outs, seq[m + 1]) : GivenAt(q, m + 1, o)
    BY <2>6 DEF x
  <2> QED BY <2>7 DEF FoldAt
<1>6. FoldAt("register", "given", q, n, g[1 .. n])
  <2>1. \A m \in 0 .. n : m + 1 \in 0 .. n => \A outs :
          FoldAt("register", "given", q, m, outs) =>
            FoldAt("register", "given", q, m + 1, FoldStep("register", None, outs, seq[m + 1]))
    BY <1>5
  <2>2. n \in Nat
    BY <1>1
  <2>3. FoldIter("register", None, base, seq, n, g)
    BY <1>2
  <2> QED BY ONLY <1>4, <2>1, <2>2, <2>3, FoldReaches
<1>7. \A o \in F : GivenAt(q, n, o)
  BY <1>2, <1>6 DEF FoldAt
<1>8. {q.seq[i] : i \in 1 .. n} = CoreRegs
  BY <1>1, <1>3
<1>9. \A o \in F :
        o.ok => /\ True(o.t) /\ (t.repeated => o.t.repeated)
                /\ Halted(o.t) /\ o.t.given = CoreRegs
                /\ o.t.r0 = t.r0 /\ o.t.resetting = t.resetting
  BY <1>3, <1>7, <1>8 DEF GivenAt
<1> QED BY <1>9 DEF F, base, seq

(* The core runs the algorithm with its arguments.                          *)
LEMMA WriteDebugStateExact ==
  ASSUME NEW t, True(t), Halted(t), t.given = {}
  PROVE  \A o \in WriteDebugState(t) :
           o.ok => /\ True(o.t) /\ (t.repeated => o.t.repeated)
                   /\ o.t.run = "algo" /\ o.t.given = CoreRegs
                   /\ o.t.r0 = t.r0 /\ o.t.resetting = t.resetting
<1> DEFINE A == FoldLeft(LAMBDA outs, n : Then(outs, LAMBDA x, u : WriteCoreRegister(u, n)),
                         Select(t, 0), SetToSeq(CoreRegs))
           B == Then(A, LAMBDA x, u : WriteWord(u, DHCSR, {"C_DEBUGEN"}))
           C(u) == Then(ReadReg(u, "CTRL_STAT"),
                        LAMBDA v, w : {IF v = <<"sticky", TRUE>> THEN No(w) ELSE Yes(None, w)})
<1>1. WriteDebugState(t) = Then(B, LAMBDA x, u : C(u))
  BY DEF WriteDebugState
<1>2. \A o \in A : o.ok =>
        /\ True(o.t) /\ (t.repeated => o.t.repeated)
        /\ Halted(o.t) /\ o.t.given = CoreRegs
        /\ o.t.r0 = t.r0 /\ o.t.resetting = t.resetting
  BY RegistersExact
<1>3. \A o \in B : o.ok => \E p \in A : p.ok /\ o \in WriteWord(p.t, DHCSR, {"C_DEBUGEN"})
  <2> HIDE DEF A
  <2> QED BY DEF Then
<1>4. \A u : \A o \in C(u) : \E p \in ReadReg(u, "CTRL_STAT") : o = No(p.t) \/ o = Yes(None, p.t) \/ o = p
  BY DEF Then
<1> HIDE DEF A, B, C
<1>5. \A u : \A o \in C(u) : \E p \in ReadReg(u, "CTRL_STAT") : o.t = p.t
  BY <1>4 DEF Yes, No
<1>6. SUFFICES ASSUME NEW o \in WriteDebugState(t), o.ok
               PROVE  /\ True(o.t) /\ (t.repeated => o.t.repeated)
                      /\ o.t.run = "algo" /\ o.t.given = CoreRegs
                      /\ o.t.r0 = t.r0 /\ o.t.resetting = t.resetting
  OBVIOUS
<1>7. PICK b \in B : b.ok /\ o \in C(b.t)
  BY <1>1, <1>6 DEF Then
<1>8. PICK a \in A : a.ok /\ b \in WriteWord(a.t, DHCSR, {"C_DEBUGEN"})
  BY <1>3, <1>7
<1>9. /\ True(b.t) /\ (a.t.repeated => b.t.repeated)
      /\ b.t.run = "algo" /\ b.t.given = CoreRegs
      /\ b.t.r0 = a.t.r0 /\ b.t.resetting = a.t.resetting
  BY <1>2, <1>7, <1>8, CoreReleased
<1>10. PICK p \in ReadReg(b.t, "CTRL_STAT") : o.t = p.t
  BY <1>5, <1>7
<1>11. SameCore(b.t, o.t) /\ Follows(b.t, o.t)
  BY <1>9, <1>10, ReadRegCore, ReadRegFollows DEF True, Readable, AllFollow
<1>12. True(o.t)
  BY <1>9, <1>11 DEF True, Follows, Agrees
<1> QED BY <1>2, <1>8, <1>9, <1>11, <1>12 DEF SameCore, Follows

(* It is seen to halt only when the algorithm has ended.                    *)
LEMMA WaitUntilHaltedExact ==
  ASSUME NEW t, True(t), t.run = "algo"
  PROVE  \A o \in WaitUntilHalted(t) :
           o.ok => /\ True(o.t) /\ (t.repeated => o.t.repeated)
                   /\ \/ o.t.repeated
                      \/ /\ Halted(o.t) /\ o.t.r0 \in {0, 1}
                         /\ o.t.given = t.given /\ o.t.resetting = t.resetting
<1> DEFINE later == {t} \cup (IF CanEnd(t) THEN Ended(t) ELSE {})
           seen(v, u) == {IF h THEN Yes(None, u) ELSE No(u) : h \in ShowsHalt(v)}
<1>1. WaitUntilHalted(t) = UNION {Then(ReadWord(u, DHCSR), seen) : u \in later}
  BY DEF WaitUntilHalted
<1>2. \A u \in later :
        /\ True(u) /\ u.repeated = t.repeated
        /\ u.given = t.given /\ u.resetting = t.resetting
        /\ u = t \/ (Halted(u) /\ u.r0 \in {0, 1})
  <2> DEFINE w(r) == [t EXCEPT !.run = "halted", !.r0 = r]
  <2>1. \A r : /\ True(w(r)) /\ w(r).repeated = t.repeated
               /\ w(r).given = t.given /\ w(r).resetting = t.resetting
               /\ Halted(w(r)) /\ w(r).r0 = r
    BY DEF True, Typed, Fields, Agrees, Halted
  <2>2. \A u \in Ended(t) : \E r \in {0, 1} : u = w(r)
    BY DEF Ended
  <2> HIDE DEF w
  <2> QED BY <2>1, <2>2
<1> HIDE DEF later
<1>3. \A v, u : \A o \in seen(v, u) :
        (TRUE \in ShowsHalt(v) /\ o = Yes(None, u)) \/ o = No(u)
  OBVIOUS
<1> HIDE DEF seen
<1>4. \A v, u : \A o \in seen(v, u) : o.t = u /\ (o.ok => TRUE \in ShowsHalt(v))
  <2> SUFFICES ASSUME NEW v, NEW u, NEW o \in seen(v, u)
               PROVE  o.t = u /\ (o.ok => TRUE \in ShowsHalt(v))
    OBVIOUS
  <2>1. (TRUE \in ShowsHalt(v) /\ o = Yes(None, u)) \/ o = No(u)
    BY <1>3
  <2>2. CASE TRUE \in ShowsHalt(v) /\ o = Yes(None, u)
    <3>1. o.t = u
      BY <2>2 DEF Yes
    <3> QED BY <2>2, <3>1
  <2>3. CASE o = No(u)
    BY <2>3, OutcomeFields
  <2> QED BY <2>1, <2>2, <2>3
<1>5. SUFFICES ASSUME NEW o \in WaitUntilHalted(t), o.ok
               PROVE  /\ True(o.t) /\ (t.repeated => o.t.repeated)
                      /\ \/ o.t.repeated
                         \/ /\ Halted(o.t) /\ o.t.r0 \in {0, 1}
                            /\ o.t.given = t.given /\ o.t.resetting = t.resetting
  OBVIOUS
<1>6. PICK u \in later : o \in Then(ReadWord(u, DHCSR), seen)
  BY <1>1
<1>7. PICK p \in ReadWord(u, DHCSR) : p.ok /\ o \in seen(p.val, p.t)
  BY <1>5, <1>6 DEF Then
<1>8. DHCSR \in Registers
  BY DEF Registers
<1>9. /\ SameCore(u, p.t) /\ True(p.t) /\ (u.repeated => p.t.repeated)
      /\ p.t.repeated \/ p.val = RegRead(u, DHCSR)
  BY <1>2, <1>7, <1>8, ReadWordExact
<1>10. o.t = p.t /\ TRUE \in ShowsHalt(p.val)
  BY <1>4, <1>5, <1>7
<1>11. TRUE \in ShowsHalt(RegRead(u, DHCSR)) => Halted(u)
  <2> DEFINE e == IF Halted(u) THEN {"S_HALT"} ELSE {}
  <2>1. RegRead(u, DHCSR) = <<"bits", e>>
    BY RegistersDiffer DEF RegRead
  <2>2. "S_HALT" \in e => Halted(u)
    OBVIOUS
  <2> HIDE DEF e
  <2>3. ShowsHalt(<<"bits", e>>) = {"S_HALT" \in e}
    BY DEF ShowsHalt
  <2> QED BY <2>1, <2>2, <2>3
<1>12. CASE p.t.repeated
  BY <1>2, <1>9, <1>10, <1>12
<1>13. CASE ~p.t.repeated
  <2>1. Halted(u)
    BY <1>9, <1>10, <1>11, <1>13
  <2>2. u # t
    BY <2>1 DEF Halted
  <2> QED BY <1>2, <1>9, <1>10, <2>1, <2>2 DEF SameCore, Halted
<1> QED BY <1>12, <1>13

(* What the algorithm left in r0 is read.                                   *)
Returns(t, o) ==
  /\ Halted(o.t) /\ o.t.given = t.given
  /\ o.t.r0 = t.r0 /\ o.t.resetting = t.resetting
  /\ o.t.repeated \/ o.val = <<"r0", t.r0>>

LEMMA ReadCoreRegisterExact ==
  ASSUME NEW t, True(t), NEW n
  PROVE  \A o \in ReadCoreRegister(t, n) :
           o.ok => /\ True(o.t) /\ (t.repeated => o.t.repeated)
                   /\ Halted(t) => Returns(t, o)
<1> DEFINE r == [reg |-> n, write |-> FALSE]
           A == Then(WriteWord(t, DCRSR, r), LAMBDA x, u : RegisterReady(u))
<1>1. \A o \in ReadCoreRegister(t, n) :
        \E p \in A : (p.ok /\ o \in ReadWord(p.t, DCRDR)) \/ (~p.ok /\ o = p)
  <2>1. ReadCoreRegister(t, n) = Then(A, LAMBDA x, u : ReadWord(u, DCRDR))
    BY DEF ReadCoreRegister
  <2> HIDE DEF A
  <2> QED BY <2>1 DEF Then
<1>2. \A o \in A :
        \E p \in WriteWord(t, DCRSR, r) : (p.ok /\ o \in RegisterReady(p.t)) \/ (~p.ok /\ o = p)
  <2> HIDE DEF r
  <2> QED BY DEF Then
<1>3. \A q \in WriteWord(t, DCRSR, r) :
        q.ok => /\ True(q.t) /\ (t.repeated => q.t.repeated)
                /\ Halted(t) =>
                     /\ Halted(q.t) /\ q.t.dcrdr = <<"r0", t.r0>> /\ q.t.given = t.given
                     /\ q.t.r0 = t.r0 /\ q.t.resetting = t.resetting
  <2>1. ~r.write /\ DCRSR \in Registers
    BY DEF Registers
  <2>2. \A q \in WriteWord(t, DCRSR, r) :
          q.ok => True(q.t) /\ (t.repeated => q.t.repeated)
    <3> HIDE DEF r
    <3> QED BY <2>1, WriteWordExact DEF Takes
  <2> QED BY <2>2, ResultAsked
<1> HIDE DEF r, A
<1>4. SUFFICES ASSUME NEW o \in ReadCoreRegister(t, n), o.ok
               PROVE  /\ True(o.t) /\ (t.repeated => o.t.repeated)
                      /\ Halted(t) => Returns(t, o)
  OBVIOUS
<1>5. PICK p \in A : p.ok /\ o \in ReadWord(p.t, DCRDR)
  BY <1>1, <1>4
<1>6. PICK q \in WriteWord(t, DCRSR, r) : q.ok /\ p \in RegisterReady(q.t)
  BY <1>2, <1>5
<1>7. SameCore(q.t, p.t) /\ True(p.t) /\ (q.t.repeated => p.t.repeated)
  BY <1>3, <1>5, <1>6, RegisterReadyExact
<1>8. DCRDR \in Registers /\ RegRead(p.t, DCRDR) = p.t.dcrdr
  BY RegistersDiffer DEF Registers, RegRead
<1>9. /\ SameCore(p.t, o.t) /\ True(o.t) /\ (p.t.repeated => o.t.repeated)
      /\ o.t.repeated \/ o.val = p.t.dcrdr
  BY <1>4, <1>5, <1>7, <1>8, ReadWordExact
<1> QED BY <1>3, <1>6, <1>7, <1>9 DEF SameCore, Halted, Returns

(* A syscall that finds the core halted has run its algorithm.              *)
LEMMA SyscallExecExact ==
  ASSUME NEW t, True(t), Halted(t)
  PROVE  \A o \in SyscallExec(t) :
           o.ok => \/ o.t.repeated
                   \/ /\ o.t.given = CoreRegs /\ Halted(o.t) /\ o.t.r0 = 0
                      /\ o.t.resetting = t.resetting
<1> DEFINE begun == [t EXCEPT !.given = {}, !.r0 = None, !.run = IF @ = "algo" THEN "other" ELSE @]
           A == Then(WriteDebugState(begun), LAMBDA x, u : WaitUntilHalted(u))
           B == Then(A, LAMBDA x, u : ReadCoreRegister(u, 0))
           returned(v, u) == {IF z THEN Yes(None, u) ELSE No(u) : z \in ShowsZero(v)}
<1>1. SyscallExec(t) = Then(B, returned)
  BY DEF SyscallExec
<1>2. True(begun) /\ Halted(begun) /\ begun.given = {} /\ begun.resetting = t.resetting
  BY DEF True, Typed, Fields, Agrees, Halted
<1> HIDE DEF begun
<1>3. \A o \in A : o.ok => \E p \in WriteDebugState(begun) : p.ok /\ o \in WaitUntilHalted(p.t)
  BY DEF Then
<1> HIDE DEF A
<1>4. \A o \in B : o.ok => \E p \in A : p.ok /\ o \in ReadCoreRegister(p.t, 0)
  BY DEF Then
<1> HIDE DEF B
<1>5. \A v, u : \A o \in returned(v, u) : (TRUE \in ShowsZero(v) /\ o = Yes(None, u)) \/ o = No(u)
  OBVIOUS
<1> HIDE DEF returned
<1>6. \A v, u : \A o \in returned(v, u) : o.t = u /\ (o.ok => TRUE \in ShowsZero(v))
  <2> SUFFICES ASSUME NEW v, NEW u, NEW o \in returned(v, u)
               PROVE  o.t = u /\ (o.ok => TRUE \in ShowsZero(v))
    OBVIOUS
  <2>1. (TRUE \in ShowsZero(v) /\ o = Yes(None, u)) \/ o = No(u)
    BY <1>5
  <2>2. CASE TRUE \in ShowsZero(v) /\ o = Yes(None, u)
    <3>1. o.t = u
      BY <2>2 DEF Yes
    <3> QED BY <2>2, <3>1
  <2>3. CASE o = No(u)
    BY <2>3, OutcomeFields
  <2> QED BY <2>1, <2>2, <2>3
<1>7. SUFFICES ASSUME NEW o \in SyscallExec(t), o.ok, ~o.t.repeated
               PROVE  /\ o.t.given = CoreRegs /\ Halted(o.t) /\ o.t.r0 = 0
                      /\ o.t.resetting = t.resetting
  OBVIOUS
<1>8. PICK b \in B : b.ok /\ o \in returned(b.val, b.t)
  BY <1>1, <1>7 DEF Then
<1>9. o.t = b.t /\ TRUE \in ShowsZero(b.val)
  BY <1>6, <1>7, <1>8
<1>10. PICK a \in A : a.ok /\ b \in ReadCoreRegister(a.t, 0)
  BY <1>4, <1>8
<1>11. PICK d \in WriteDebugState(begun) : d.ok /\ a \in WaitUntilHalted(d.t)
  BY <1>3, <1>10
<1>12. /\ True(d.t) /\ d.t.run = "algo" /\ d.t.given = CoreRegs
       /\ d.t.resetting = t.resetting
  BY <1>2, <1>11, WriteDebugStateExact
<1>13. /\ True(a.t)
       /\ \/ a.t.repeated
          \/ /\ Halted(a.t) /\ a.t.r0 \in {0, 1}
             /\ a.t.given = CoreRegs /\ a.t.resetting = t.resetting
  BY <1>10, <1>11, <1>12, WaitUntilHaltedExact
<1>14. (a.t.repeated => b.t.repeated) /\ (Halted(a.t) => Returns(a.t, b))
  BY <1>8, <1>10, <1>13, ReadCoreRegisterExact
<1>15. /\ ~a.t.repeated /\ Halted(b.t) /\ b.t.given = CoreRegs /\ b.t.r0 \in {0, 1}
       /\ b.t.resetting = t.resetting /\ b.val = <<"r0", b.t.r0>>
  BY <1>7, <1>9, <1>13, <1>14 DEF Returns
<1>16. b.t.r0 = 0
  <2>1. b.t.r0 # None
    BY <1>15, SwdTargetAssumption
  <2>2. ShowsZero(b.val) = {b.t.r0 = 0}
    BY <1>15, <2>1 DEF ShowsZero
  <2> QED BY <1>9, <2>2
<1> QED BY <1>9, <1>15, <1>16

-----------------------------------------------------------------------------
(* The inductive invariant: the state of the target is sound, between two   *)
(* calls and between two steps of one, and what is left of a call is none   *)
(* but such steps.                                                          *)

Calls == {"none", "read", "write", "read_ap", "exec", "init_debug"} \cup States

LastOK ==
  /\ DOMAIN last = {"call", "a", "n", "ok", "val", "agreed", "before"}
  /\ last.call \in Calls

UnderWay == todo # <<>> => last.call \in States /\ last.ok = None

Inv ==
  /\ host \in Hosts
  /\ Sound(s)
  /\ todo \in Seq(StepSet)
  /\ LastOK
  /\ UnderWay

LEMMA InitInv == Init => Inv
<1> SUFFICES ASSUME Init PROVE Inv
  OBVIOUS
<1>1. Sound(s)
  BY InitialSound DEF Init
<1> QED BY <1>1 DEF Init, Inv, LastOK, UnderWay, Idle, Calls

LEMMA IdleHasNothing ==
  ASSUME Inv, last = Idle
  PROVE  todo = <<>>
  BY DEF Inv, UnderWay, Idle, States

(* A call that is one step.                                                 *)
LEMMA AtomicKeeps ==
  ASSUME Inv, last = Idle, NEW outs, Kept(outs), NEW call \in Calls, NEW a, NEW n,
         NEW o \in outs, s' = o.t,
         last' = [Called(call, a, n) EXCEPT !.ok = o.ok, !.val = o.val],
         UNCHANGED <<host, todo>>
  PROVE  Inv'
<1>1. Sound(s')
  BY DEF Kept
<1>2. todo' = <<>>
  BY IdleHasNothing
<1>3. LastOK'
  BY DEF LastOK, Called, Idle
<1> QED BY <1>1, <1>2, <1>3 DEF Inv, UnderWay

LEMMA AccessFits ==
  ASSUME NEW x \in Accesses
  PROVE  /\ x[1] \in Nat /\ x[2] \in Nat
         /\ x[1] .. x[1] + x[2] - 1 \subseteq Cells
         /\ [i \in 1 .. x[2] |-> New(x[1] + i - 1)] \in Seq(Nat)
         /\ Len([i \in 1 .. x[2] |-> New(x[1] + i - 1)]) = x[2]
<1>1. /\ x[1] \in Nat /\ x[2] \in Nat
      /\ x[1] .. x[1] + x[2] - 1 \subseteq Cells
  BY SwdHostAssumption, CellsAreNumbers
<1>2. Cardinality(Cells) \in Nat
  BY SwdTargetAssumption, FS_CardinalityType
<1>3. \A i \in 1 .. x[2] : New(x[1] + i - 1) \in Nat
  BY <1>1, <1>2 DEF New
<1> QED BY <1>1, <1>3

LEMMA CallInv ==
  ASSUME Inv, Call
  PROVE  Inv'
<1> USE DEF Calls
<1>1. Sound(s)
  BY DEF Inv
<1>2. ASSUME NEW x \in Accesses, Read(x[1], x[2])
      PROVE  Inv'
  <2>1. PICK o \in ReadMemory(s, x[1], x[2]) :
          s' = o.t /\ last' = [Called("read", x[1], x[2]) EXCEPT !.ok = o.ok, !.val = o.val]
    BY <1>2 DEF Read, Atomic
  <2>2. Kept(ReadMemory(s, x[1], x[2]))
    BY <1>1, AccessFits, ReadMemoryKeeps
  <2>3. last = Idle /\ UNCHANGED <<host, todo>>
    BY <1>2 DEF Read, Atomic
  <2> QED BY <2>1, <2>2, <2>3, AtomicKeeps
<1>3. ASSUME NEW x \in Accesses, Write(x[1], x[2])
      PROVE  Inv'
  <2> DEFINE data == [i \in 1 .. x[2] |-> New(x[1] + i - 1)]
  <2>1. PICK o \in WriteMemory(s, x[1], data) :
          s' = o.t /\ last' = [Called("write", x[1], x[2]) EXCEPT !.ok = o.ok, !.val = o.val]
    BY <1>3 DEF Write, Atomic
  <2>2. data \in Seq(Nat) /\ Len(data) = x[2]
    BY AccessFits
  <2> HIDE DEF data
  <2>3. Kept(WriteMemory(s, x[1], data))
    BY <1>1, <2>2, AccessFits, WriteMemoryKeeps
  <2>4. last = Idle /\ UNCHANGED <<host, todo>>
    BY <1>3 DEF Write, Atomic
  <2> QED BY <2>1, <2>3, <2>4, AtomicKeeps
<1>4. ASSUME ReadIDR
      PROVE  Inv'
  <2>1. PICK o \in ReadAP(s, "IDR") :
          s' = o.t /\ last' = [Called("read_ap", 0, 0) EXCEPT !.ok = o.ok, !.val = o.val]
    BY <1>4 DEF ReadIDR, Atomic
  <2>2. Kept(ReadAP(s, "IDR"))
    BY <1>1, ReadAPKeeps DEF Readable
  <2>3. last = Idle /\ UNCHANGED <<host, todo>>
    BY <1>4 DEF ReadIDR, Atomic
  <2> QED BY <2>1, <2>2, <2>3, AtomicKeeps
<1>5. ASSUME Exec
      PROVE  Inv'
  <2>1. PICK o \in SyscallExec(s) :
          s' = o.t /\ last' = [Called("exec", 0, 0) EXCEPT !.ok = o.ok, !.val = o.val]
    BY <1>5 DEF Exec, Atomic
  <2>2. last = Idle /\ UNCHANGED <<host, todo>>
    BY <1>5 DEF Exec, Atomic
  <2> QED BY <1>1, <2>1, <2>2, SyscallExecKeeps, AtomicKeeps
<1>6. ASSUME Debug
      PROVE  Inv'
  <2>1. PICK o \in InitDebug(s) :
          s' = o.t /\ last' = [Called("init_debug", 0, 0) EXCEPT !.ok = o.ok, !.val = o.val]
    BY <1>6 DEF Debug, Atomic
  <2>2. Kept(InitDebug(s))
    BY <1>1, InitDebugKeeps DEF Sound
  <2>3. last = Idle /\ UNCHANGED <<host, todo>>
    BY <1>6 DEF Debug, Atomic
  <2> QED BY <2>1, <2>2, <2>3, AtomicKeeps
<1>7. ASSUME NEW st \in States, SetState(st)
      PROVE  Inv'
  <2>1. todo' \in Seq(StepSet)
    BY <1>7, StatesHaveSteps DEF SetState, Inv
  <2>2. LastOK' /\ UnderWay'
    BY <1>7 DEF SetState, LastOK, UnderWay, Called, Idle
  <2> QED BY <1>7, <2>1, <2>2 DEF SetState, Inv
<1> QED BY <1>2, <1>3, <1>4, <1>5, <1>6, <1>7 DEF Call

LEMMA StateStepInv ==
  ASSUME Inv, StateStep
  PROVE  Inv'
<1> DEFINE h == Head(todo)
<1>1. todo \in Seq(StepSet) /\ todo # <<>> /\ Sound(s) /\ LastOK
      /\ last.call \in States /\ last.ok = None
  BY DEF Inv, UnderWay, StateStep
<1>2. h \in StepSet /\ Tail(todo) \in Seq(StepSet)
  BY <1>1
<1>3. PICK o \in Outcomes(h) :
       /\ s' = o.t
       /\ IF ~o.ok /\ h.op = "try twice"
          THEN /\ todo' = PinReset \o <<[h EXCEPT !.op = "try again"]>> \o Tail(todo)
               /\ UNCHANGED last
          ELSE IF ~o.ok
          THEN todo' = <<>> /\ last' = [last EXCEPT !.ok = FALSE]
          ELSE /\ \/ todo' = Tail(todo) /\ (h.op = "wait" => TRUE \in ShowsHalt(o.val))
                  \/ todo' = todo /\ h.op = "wait" /\ FALSE \in ShowsHalt(o.val)
               /\ last' = [last EXCEPT !.ok = IF todo' = <<>> THEN TRUE ELSE None,
                                       !.agreed = @ \/ h.op = "init_debug"]
  BY DEF StateStep
<1>4. host' = host
  BY DEF StateStep
<1>5. h.op = "try twice" => [h EXCEPT !.op = "try again"] \in StepSet
  BY <1>2 DEF StepSet, Ops, Accessing
<1> HIDE DEF h
<1>6. Sound(s')
  BY <1>1, <1>2, <1>3, OutcomesKept DEF Kept
<1>7. CASE ~o.ok /\ h.op = "try twice"
  <2> DEFINE r == [h EXCEPT !.op = "try again"]
  <2>1. <<r>> \in Seq(StepSet)
    BY <1>5, <1>7, Singly
  <2>2. todo' = PinReset \o <<r>> \o Tail(todo) /\ last' = last
    BY <1>3, <1>7
  <2> HIDE DEF r
  <2>3. todo' \in Seq(StepSet)
    BY <1>2, <2>1, <2>2, PartsAreSteps, Joined
  <2>4. LastOK' /\ UnderWay'
    BY <1>1, <2>2 DEF LastOK, UnderWay
  <2> QED BY <1>4, <1>6, <2>3, <2>4 DEF Inv
<1>8. CASE ~o.ok /\ h.op # "try twice"
  <2>1. todo' = <<>>
    BY <1>3, <1>8
  <2>2. last' = [last EXCEPT !.ok = FALSE]
    BY <1>3, <1>8
  <2>3. LastOK'
    BY <1>1, <2>2 DEF LastOK
  <2> QED BY <1>4, <1>6, <2>1, <2>3 DEF Inv, UnderWay
<1>9. CASE o.ok
  <2>1. todo' \in Seq(StepSet)
    BY <1>1, <1>2, <1>3, <1>9
  <2>2. last' = [last EXCEPT !.ok = IF todo' = <<>> THEN TRUE ELSE None,
                             !.agreed = @ \/ h.op = "init_debug"]
    BY <1>3, <1>9
  <2>3. DOMAIN last' = DOMAIN last /\ last'.call = last.call
    BY <2>2
  <2>4. todo' # <<>> => last'.ok = None
    BY <1>1, <2>2 DEF LastOK
  <2> QED BY <1>1, <1>4, <1>6, <2>1, <2>3, <2>4 DEF Inv, LastOK, UnderWay
<1> QED BY <1>7, <1>8, <1>9

LEMMA NextInv == Inv /\ [Next]_vars => Inv'
<1> SUFFICES ASSUME Inv, [Next]_vars PROVE Inv'
  OBVIOUS
<1>1. Sound(s)
  BY DEF Inv
<1>2. ASSUME Sound(s'), UNCHANGED <<host, todo, last>>
      PROVE  Inv'
  BY <1>2 DEF Inv, LastOK, UnderWay
<1>3. CASE Call
  BY <1>3, CallInv
<1>4. CASE StateStep
  BY <1>4, StateStepInv
<1>5. CASE CoreHalts
  BY <1>1, <1>2, <1>5, OwnStepsSound DEF CoreHalts
<1>6. CASE AlgorithmEnds
  BY <1>1, <1>2, <1>6, EndedSound DEF AlgorithmEnds
<1>7. CASE ResetHappens
  BY <1>1, <1>2, <1>7, OwnStepsSound DEF ResetHappens
<1>8. CASE Forget
  <2>1. Sound(s') /\ todo = <<>> /\ todo' = todo /\ host' = host /\ last' = Idle
    BY <1>1, <1>8, OwnStepsSound DEF Forget
  <2> QED BY <2>1 DEF Inv, LastOK, UnderWay, Idle, Calls
<1>9. CASE Replug
  <2>1. Sound(s')
    BY <1>1, <1>9, ReplugSound DEF Replug, Sound
  <2> QED BY <1>2, <1>9, <2>1 DEF Replug
<1>10. CASE UNCHANGED vars
  BY <1>1, <1>2, <1>10 DEF vars
<1> QED BY <1>3, <1>4, <1>5, <1>6, <1>7, <1>8, <1>9, <1>10 DEF Next

LEMMA Invariant == Spec => []Inv
<1> QED BY InitInv, NextInv, PTL DEF Spec

(* Every state of a host and its target is one that the types allow, and a  *)
(* call of set_target_state that is under way has returned nothing yet      *)
(* (swd_host.c:912-1246).                                                   *)
THEOREM TypeCorrect == Spec => []TypeOK
<1>1. Inv => TypeOK
  BY DEF Inv, TypeOK, Sound, Typed, LastOK, UnderWay, Calls
<1> QED BY <1>1, Invariant, PTL

(* What the host remembers of SELECT and CSW is what the target has, unless *)
(* a transfer has failed since swd_init_debug or the target was exchanged,  *)
(* for every memory, word, auto-increment page, set of core registers and   *)
(* of accesses, in all three variants of set_target_state                   *)
(* (swd_host.c:138-156, 191-230, 824-895).                                  *)
THEOREM CacheStaysTrue == Spec => []CacheAgrees
<1>1. Inv => CacheAgrees
  BY DEF Inv, CacheAgrees, Sound
<1> QED BY <1>1, Invariant, PTL

-----------------------------------------------------------------------------
(* Between two calls memory is as new, after a write it is as the write     *)
(* should leave it, and a read has returned what is there.                  *)
Exact == (last = Idle => s.mem = Fresh) /\ WritesExact /\ ReadsExact

(* A step that leaves last, the memory and the history of reads alone keeps *)
(* this.                                                                    *)
LEMMA ExactStays ==
  ASSUME Exact, last' = last, s'.mem = s.mem, s'.repeated = s.repeated
  PROVE  Exact'
  BY DEF Exact, WritesExact, ReadsExact

LEMMA OtherCallExact ==
  ASSUME last'.call \notin {"none", "read", "write"}
  PROVE  Exact'
  BY DEF Exact, WritesExact, ReadsExact, Idle

LEMMA ReadExact ==
  ASSUME Inv, Exact, NEW x \in Accesses, Read(x[1], x[2])
  PROVE  Exact'
<1> DEFINE a == x[1]
           n == x[2]
<1>1. PICK o \in ReadMemory(s, a, n) :
        s' = o.t /\ last' = [Called("read", a, n) EXCEPT !.ok = o.ok, !.val = o.val]
  BY DEF Read, Atomic
<1>2. a \in Nat /\ n \in Nat /\ a .. a + n - 1 \subseteq Cells
  BY AccessFits
<1>3. s.mem = Fresh
  BY DEF Exact, Read, Atomic
<1> HIDE DEF a, n
<1>4. /\ last'.call = "read" /\ last'.a = a /\ last'.n = n /\ last'.ok = o.ok
      /\ last'.val = o.val /\ last'.agreed = Agrees(s) /\ last' # Idle
  BY <1>1 DEF Called, Idle
<1>5. Bytes(Fresh, a, n) = [i \in 1 .. n |-> a + i - 1]
  <2>1. \A i \in 1 .. n : a + i - 1 \in Cells
    BY <1>2
  <2> QED BY <2>1 DEF Bytes, Fresh
<1>6. ASSUME Agrees(s), o.ok = TRUE, ~o.t.repeated
      PROVE  o.val = [i \in 1 .. n |-> a + i - 1]
  <2>1. True(s)
    BY <1>6 DEF Inv, Sound, True
  <2>2. Gives(s, o, Bytes(s.mem, a, n))
    BY <1>1, <1>2, <2>1, ReadMemoryExact
  <2> QED BY <1>3, <1>5, <1>6, <2>2 DEF Gives
<1>7. ReadsExact'
  BY <1>1, <1>4, <1>6 DEF ReadsExact
<1> QED BY <1>4, <1>7 DEF Exact, WritesExact

LEMMA WriteExact ==
  ASSUME Inv, Exact, NEW x \in Accesses, Write(x[1], x[2])
  PROVE  Exact'
<1> DEFINE a == x[1]
           n == x[2]
           data == [i \in 1 .. n |-> New(a + i - 1)]
<1>1. PICK o \in WriteMemory(s, a, data) :
        s' = o.t /\ last' = [Called("write", a, n) EXCEPT !.ok = o.ok, !.val = o.val]
  BY DEF Write, Atomic
<1>2. /\ a \in Nat /\ n \in Nat /\ a .. a + n - 1 \subseteq Cells
      /\ data \in Seq(Nat) /\ Len(data) = n
  BY AccessFits
<1>3. s.mem = Fresh
  BY DEF Exact, Write, Atomic
<1>4. \A c \in Cells : c \in a .. a + n - 1 => data[c - a + 1] = New(c)
  <2>1. SUFFICES ASSUME NEW c \in Cells, c \in a .. a + n - 1
                 PROVE  data[c - a + 1] = New(c)
    OBVIOUS
  <2>2. c - a + 1 \in 1 .. n /\ a + (c - a + 1) - 1 = c
    <3>1. c \in Int
      BY CellsAreNumbers
    <3> HIDE DEF a, n
    <3> QED BY <1>2, <2>1, <3>1
  <2> HIDE DEF a, n
  <2> QED BY <2>2
<1> HIDE DEF data, a, n
<1>5. /\ last'.call = "write" /\ last'.a = a /\ last'.n = n /\ last'.ok = o.ok
      /\ last'.agreed = Agrees(s) /\ last' # Idle
  BY <1>1 DEF Called, Idle
<1>6. ASSUME Agrees(s)
      PROVE  PieceDone(a, n, data, a, s, o)
  <2>1. True(s)
    BY <1>6 DEF Inv, Sound, True
  <2> QED BY <1>1, <1>2, <2>1, WriteMemoryExact
<1>7. ASSUME Agrees(s), NEW c \in Cells
      PROVE  IF c \in a .. a + n - 1 THEN o.ok => s'.mem[c] = New(c) ELSE s'.mem[c] = c
  BY <1>1, <1>3, <1>4, <1>6, <1>7 DEF PieceDone, Fresh
<1>8. WritesExact'
  BY <1>5, <1>7 DEF WritesExact
<1> QED BY <1>5, <1>8 DEF Exact, ReadsExact

(* The target by itself writes no memory and repeats no read.               *)
LEMMA OwnStepsMemory ==
  ASSUME NEW t, Typed(t)
  PROVE  /\ HaltedByRequest(t).mem = t.mem /\ AfterReset(t).mem = t.mem
         /\ HaltedByRequest(t).repeated = t.repeated /\ AfterReset(t).repeated = t.repeated
         /\ \A u \in Ended(t) : u.mem = t.mem /\ u.repeated = t.repeated
         /\ Forgotten(t).mem = Fresh
         /\ Replugged(t).mem = Fresh /\ Replugged(t).repeated = t.repeated
  BY DEF Typed, Fields, HaltedByRequest, AfterReset, Ended, Forgotten, Replugged, InitialTarget

LEMMA NextExact == Inv /\ Exact /\ [Next]_vars => Exact'
<1> SUFFICES ASSUME Inv, Exact, [Next]_vars PROVE Exact'
  OBVIOUS
<1>1. Typed(s)
  BY DEF Inv, Sound
<1>2. ASSUME NEW x \in Accesses, Read(x[1], x[2])
      PROVE  Exact'
  BY <1>2, ReadExact
<1>3. ASSUME NEW x \in Accesses, Write(x[1], x[2])
      PROVE  Exact'
  BY <1>3, WriteExact
<1>4. CASE ReadIDR
  <2>1. last'.call = "read_ap"
    BY <1>4 DEF ReadIDR, Atomic, Called, Idle
  <2> QED BY <2>1, OtherCallExact
<1>5. CASE Exec
  <2>1. last'.call = "exec"
    BY <1>5 DEF Exec, Atomic, Called, Idle
  <2> QED BY <2>1, OtherCallExact
<1>6. CASE Debug
  <2>1. last'.call = "init_debug"
    BY <1>6 DEF Debug, Atomic, Called, Idle
  <2> QED BY <2>1, OtherCallExact
<1>7. ASSUME NEW st \in States, SetState(st)
      PROVE  Exact'
  <2>1. last'.call = st
    BY <1>7 DEF SetState, Called, Idle
  <2> QED BY <2>1, OtherCallExact DEF States
<1>8. CASE StateStep
  <2>1. last.call \in States /\ "call" \in DOMAIN last
    BY <1>8 DEF Inv, UnderWay, LastOK, StateStep
  <2>2. last'.call = last.call
    <3>1. \/ last' = last
          \/ \E k : last' = [last EXCEPT !.ok = k]
          \/ \E k, v : last' = [last EXCEPT !.ok = k, !.agreed = v]
      BY <1>8 DEF StateStep
    <3> QED BY <2>1, <3>1
  <2> QED BY <2>1, <2>2, OtherCallExact DEF States
<1>9. CASE CoreHalts \/ ResetHappens
  BY <1>1, <1>9, OwnStepsMemory, ExactStays DEF CoreHalts, ResetHappens
<1>10. CASE AlgorithmEnds
  BY <1>1, <1>10, OwnStepsMemory, ExactStays DEF AlgorithmEnds
<1>11. CASE Forget
  <2>1. last' = Idle /\ s'.mem = Fresh
    BY <1>1, <1>11, OwnStepsMemory DEF Forget
  <2> QED BY <2>1 DEF Exact, WritesExact, ReadsExact, Idle
<1>12. CASE Replug
  <2>1. s.mem = Fresh /\ s'.mem = Fresh /\ last' = last /\ s'.repeated = s.repeated
    BY <1>1, <1>12, OwnStepsMemory DEF Replug, Exact
  <2> QED BY <2>1, ExactStays
<1>13. CASE UNCHANGED vars
  BY <1>13, ExactStays DEF vars
<1> QED BY <1>2, <1>3, <1>4, <1>5, <1>6, <1>7, <1>8, <1>9, <1>10, <1>11, <1>12, <1>13
        DEF Next, Call

LEMMA ExactAlways == Spec => []Exact
<1>1. Init => Exact
  BY DEF Init, Exact, WritesExact, ReadsExact, Idle, InitialTarget
<1> QED BY <1>1, Invariant, NextExact, PTL DEF Spec

(* A write that begins with a cache that agrees changes no byte beside its  *)
(* own, even if a transfer fails, and when it succeeds all its bytes are    *)
(* there, for every memory, word, auto-increment page and access within the *)
(* memory: bytes up to a word, blocks of words up to the page's end, bytes  *)
(* (swd_host.c:234-279, 418-470, 523-568).                                  *)
THEOREM WritesAreExact == Spec => []WritesExact
<1>1. Exact => WritesExact
  BY DEF Exact
<1> QED BY <1>1, ExactAlways, PTL

(* A read that begins with a cache that agrees and succeeds returns the     *)
(* bytes of its addresses in their order, although a block's reads each     *)
(* return what the one before has fetched, unless the C++ has repeated a    *)
(* read the target had answered (swd_host.c:283-370, 434-450, 474-519;      *)
(* swd_iface.cpp:65-82).                                                    *)
THEOREM ReadsAreExact == Spec => []ReadsExact
<1>1. Exact => ReadsExact
  BY DEF Exact
<1> QED BY <1>1, ExactAlways, PTL

-----------------------------------------------------------------------------
(* Between two calls no reset is under way, so none undoes what a syscall   *)
(* that has succeeded left.                                                 *)
Ran ==
  /\ last = Idle => ~s.resetting
  /\ last.call = "exec" /\ last.ok = TRUE /\ last.agreed /\ last.before.stopped /\ ~s.repeated =>
       s.given = CoreRegs /\ Halted(s) /\ s.r0 = 0 /\ ~s.resetting

LEMMA OtherCallRan ==
  ASSUME last'.call \notin {"none", "exec"}
  PROVE  Ran'
  BY DEF Ran, Idle

LEMMA ExecRan ==
  ASSUME Inv, Ran, Exec
  PROVE  Ran'
<1>1. PICK o \in SyscallExec(s) :
        s' = o.t /\ last' = [Called("exec", 0, 0) EXCEPT !.ok = o.ok, !.val = o.val]
  BY DEF Exec, Atomic
<1>2. ~s.resetting
  BY DEF Ran, Exec, Atomic
<1>3. /\ last'.call = "exec" /\ last'.ok = o.ok
      /\ last'.agreed = Agrees(s) /\ last'.before.stopped = Halted(s) /\ last' # Idle
  BY <1>1 DEF Called, Idle
<1>4. ASSUME Agrees(s), Halted(s), o.ok = TRUE, ~o.t.repeated
      PROVE  s'.given = CoreRegs /\ Halted(s') /\ s'.r0 = 0 /\ ~s'.resetting
  <2>1. True(s)
    BY <1>4 DEF Inv, Sound, True
  <2>2. o.t.given = CoreRegs /\ Halted(o.t) /\ o.t.r0 = 0 /\ o.t.resetting = s.resetting
    BY <1>1, <1>4, <2>1, SyscallExecExact
  <2> QED BY <1>1, <1>2, <2>2
<1> QED BY <1>1, <1>3, <1>4 DEF Ran, Halted

(* What the target does by itself to its core.                              *)
LEMMA OwnStepsReset ==
  ASSUME NEW t, Typed(t)
  PROVE  /\ HaltedByRequest(t).resetting = t.resetting
         /\ \A u \in Ended(t) : u.resetting = t.resetting
         /\ Forgotten(t).resetting = t.resetting
         /\ ~Replugged(t).resetting
  BY DEF Typed, Fields, HaltedByRequest, Ended, Forgotten, Replugged, InitialTarget

LEMMA NextRan == Inv /\ Ran /\ [Next]_vars => Ran'
<1> SUFFICES ASSUME Inv, Ran, [Next]_vars PROVE Ran'
  OBVIOUS
<1>1. Typed(s)
  BY DEF Inv, Sound
<1>2. ASSUME NEW x \in Accesses, Read(x[1], x[2]) \/ Write(x[1], x[2])
      PROVE  Ran'
  <2>1. last'.call \in {"read", "write"}
    BY <1>2 DEF Read, Write, Atomic, Called, Idle
  <2> QED BY <2>1, OtherCallRan
<1>3. CASE ReadIDR \/ Debug
  <2>1. last'.call \in {"read_ap", "init_debug"}
    BY <1>3 DEF ReadIDR, Debug, Atomic, Called, Idle
  <2> QED BY <2>1, OtherCallRan
<1>4. CASE Exec
  BY <1>4, ExecRan
<1>5. ASSUME NEW st \in States, SetState(st)
      PROVE  Ran'
  <2>1. last'.call = st
    BY <1>5 DEF SetState, Called, Idle
  <2> QED BY <2>1, OtherCallRan DEF States
<1>6. CASE StateStep
  <2>1. last.call \in States /\ "call" \in DOMAIN last
    BY <1>6 DEF Inv, UnderWay, LastOK, StateStep
  <2>2. last'.call = last.call
    <3>1. \/ last' = last
          \/ \E k : last' = [last EXCEPT !.ok = k]
          \/ \E k, v : last' = [last EXCEPT !.ok = k, !.agreed = v]
      BY <1>6 DEF StateStep
    <3> QED BY <2>1, <3>1
  <2> QED BY <2>1, <2>2, OtherCallRan DEF States
<1>7. CASE CoreHalts
  <2>1. last' = last /\ ~Halted(s) /\ s'.resetting = s.resetting /\ s'.repeated = s.repeated
    BY <1>1, <1>7, OwnStepsReset, OwnStepsMemory DEF CoreHalts, CanHalt
  <2> QED BY <2>1 DEF Ran
<1>8. CASE AlgorithmEnds
  <2>1. last = Idle /\ last' = last /\ s'.resetting = s.resetting
    BY <1>1, <1>8, OwnStepsReset DEF AlgorithmEnds
  <2> QED BY <2>1 DEF Ran, Idle
<1>9. CASE ResetHappens
  <2>1. s.resetting /\ last' = last /\ s'.repeated = s.repeated
    BY <1>1, <1>9, OwnStepsMemory DEF ResetHappens
  <2> QED BY <2>1 DEF Ran
<1>10. CASE Forget
  <2>1. ~s.resetting /\ last' = Idle /\ s'.resetting = s.resetting
    BY <1>1, <1>10, OwnStepsReset DEF Forget
  <2> QED BY <2>1 DEF Ran, Idle
<1>11. CASE Replug
  <2>1. last = Idle /\ last' = last /\ ~s'.resetting
    BY <1>1, <1>11, OwnStepsReset DEF Replug
  <2> QED BY <2>1 DEF Ran, Idle
<1>12. CASE UNCHANGED vars
  BY <1>12 DEF vars, Ran, Halted
<1> QED BY <1>2, <1>3, <1>4, <1>5, <1>6, <1>7, <1>8, <1>9, <1>10, <1>11, <1>12 DEF Next, Call

LEMMA RanAlways == Spec => []Ran
<1>1. Init => Ran
  BY DEF Init, Ran, Idle, InitialTarget
<1> QED BY <1>1, Invariant, NextRan, PTL DEF Spec

(* A syscall that succeeds, begun with the core halted and the cache true,  *)
(* has given its algorithm every register, released the core, seen it halt  *)
(* and read a zero that this algorithm left, for every set of core          *)
(* registers and whatever the transfers before it came to, unless the C++   *)
(* has repeated a read the target had answered (swd_host.c:571-753).        *)
THEOREM SyscallsRan == Spec => []SyscallRan
<1>1. Ran => SyscallRan
  BY DEF Ran, SyscallRan
<1> QED BY <1>1, RanAlways, PTL

-----------------------------------------------------------------------------
(* The steps of each state, one by one.                                     *)

Both(p, q) == p \o q

LEMMA JoinedAt ==
  ASSUME NEW S, NEW p \in Seq(S), NEW q \in Seq(S)
  PROVE  /\ Both(p, q) \in Seq(S) /\ Len(Both(p, q)) = Len(p) + Len(q)
         /\ \A x \in 1 .. Len(p) + Len(q) :
              Both(p, q)[x] = IF x <= Len(p) THEN p[x] ELSE q[x - Len(p)]
  BY ConcatProperties DEF Both

(* Sequences of two to five parts, element by element.                      *)
LEMMA PlanHalt ==
  ASSUME NEW S, NEW a \in S, NEW b \in S, NEW c \in S, NEW d \in S
  PROVE  LET p == <<a, b>> \o <<c, d>>
         IN  /\ Len(p) = 4
             /\ p[1] = a /\ p[2] = b /\ p[3] = c /\ p[4] = d
<1> DEFINE A == <<a, b>>
           B == <<c, d>>
<1>1. A \in Seq(S) /\ Len(A) = 2 /\ A[1] = a /\ A[2] = b
  OBVIOUS
<1>2. B \in Seq(S) /\ Len(B) = 2 /\ B[1] = c /\ B[2] = d
  OBVIOUS
<1> HIDE DEF A, B
<1> DEFINE W == Both(A, B)
<1>3. W \in Seq(S) /\ Len(W) = Len(A) + Len(B)
  BY <1>1, <1>2, JoinedAt
<1>4. \A x \in 1 .. Len(A) + Len(B) :
        W[x] = IF x <= Len(A) THEN A[x] ELSE B[x - Len(A)]
  BY <1>1, <1>2, JoinedAt
<1>5. \A x \in 1 .. 4 : W[x] = IF x <= 2 THEN A[x] ELSE B[x - 2]
  BY <1>1, <1>2, <1>4
<1> HIDE DEF W
<1>6. /\ W \in Seq(S) /\ Len(W) = 4
      /\ W[1] = a /\ W[2] = b /\ W[3] = c /\ W[4] = d
  BY <1>3, <1>5, <1>1, <1>2
<1> QED BY <1>6 DEF A, B, W, Both

LEMMA PlanDebug ==
  ASSUME NEW S, NEW a \in S, NEW b \in S, NEW c \in S, NEW d \in S, NEW e \in S,
         NEW f \in S
  PROVE  LET p == <<a>> \o <<b, c, d, e, f>>
         IN  /\ Len(p) = 6
             /\ p[1] = a /\ p[2] = b /\ p[3] = c /\ p[4] = d /\ p[5] = e
             /\ p[6] = f
<1> DEFINE A == <<a>>
           B == <<b, c, d, e, f>>
<1>1. A \in Seq(S) /\ Len(A) = 1 /\ A[1] = a
  OBVIOUS
<1>2. B \in Seq(S) /\ Len(B) = 5 /\ B[1] = b /\ B[2] = c /\ B[3] = d /\ B[4] = e /\ B[5] = f
  OBVIOUS
<1> HIDE DEF A, B
<1> DEFINE W == Both(A, B)
<1>3. W \in Seq(S) /\ Len(W) = Len(A) + Len(B)
  BY <1>1, <1>2, JoinedAt
<1>4. \A x \in 1 .. Len(A) + Len(B) :
        W[x] = IF x <= Len(A) THEN A[x] ELSE B[x - Len(A)]
  BY <1>1, <1>2, JoinedAt
<1>5. \A x \in 1 .. 6 : W[x] = IF x <= 1 THEN A[x] ELSE B[x - 1]
  BY <1>1, <1>2, <1>4
<1> HIDE DEF W
<1>6. /\ W \in Seq(S) /\ Len(W) = 6
      /\ W[1] = a /\ W[2] = b /\ W[3] = c /\ W[4] = d /\ W[5] = e
      /\ W[6] = f
  BY <1>3, <1>5, <1>1, <1>2
<1> QED BY <1>6 DEF A, B, W, Both

LEMMA PlanRunHw ==
  ASSUME NEW S, NEW a \in S, NEW b \in S, NEW c \in S, NEW d \in S, NEW e \in S,
         NEW f \in S
  PROVE  LET p == <<a>> \o <<b, c, d, e>> \o <<f>>
         IN  /\ Len(p) = 6
             /\ p[1] = a /\ p[2] = b /\ p[3] = c /\ p[4] = d /\ p[5] = e
             /\ p[6] = f
<1> DEFINE A == <<a>>
           B == <<b, c, d, e>>
           C == <<f>>
<1>1. A \in Seq(S) /\ Len(A) = 1 /\ A[1] = a
  OBVIOUS
<1>2. B \in Seq(S) /\ Len(B) = 4 /\ B[1] = b /\ B[2] = c /\ B[3] = d /\ B[4] = e
  OBVIOUS
<1>3. C \in Seq(S) /\ Len(C) = 1 /\ C[1] = f
  OBVIOUS
<1> HIDE DEF A, B, C
<1> DEFINE P == Both(A, B)
<1>4. P \in Seq(S) /\ Len(P) = Len(A) + Len(B)
  BY <1>1, <1>2, JoinedAt
<1>5. \A x \in 1 .. Len(A) + Len(B) :
        P[x] = IF x <= Len(A) THEN A[x] ELSE B[x - Len(A)]
  BY <1>1, <1>2, JoinedAt
<1>6. \A x \in 1 .. 5 : P[x] = IF x <= 1 THEN A[x] ELSE B[x - 1]
  BY <1>1, <1>2, <1>5
<1> HIDE DEF P
<1>7. /\ P \in Seq(S) /\ Len(P) = 5
      /\ P[1] = a /\ P[2] = b /\ P[3] = c /\ P[4] = d /\ P[5] = e
  BY <1>4, <1>6, <1>1, <1>2
<1> DEFINE W == Both(P, C)
<1>8. W \in Seq(S) /\ Len(W) = Len(P) + Len(C)
  BY <1>7, <1>3, JoinedAt
<1>9. \A x \in 1 .. Len(P) + Len(C) :
        W[x] = IF x <= Len(P) THEN P[x] ELSE C[x - Len(P)]
  BY <1>7, <1>3, JoinedAt
<1>10. \A x \in 1 .. 6 : W[x] = IF x <= 5 THEN P[x] ELSE C[x - 5]
  BY <1>7, <1>3, <1>9
<1> HIDE DEF W
<1>11. /\ W \in Seq(S) /\ Len(W) = 6
      /\ W[1] = a /\ W[2] = b /\ W[3] = c /\ W[4] = d /\ W[5] = e
      /\ W[6] = f
  BY <1>8, <1>10, <1>7, <1>3
<1> QED BY <1>11 DEF A, B, C, P, W, Both

LEMMA PlanRunSw ==
  ASSUME NEW S, NEW a \in S, NEW b \in S, NEW c \in S, NEW d \in S, NEW e \in S,
         NEW f \in S, NEW g \in S
  PROVE  LET p == <<a>> \o <<b, c>> \o <<d, e, f>> \o <<g>>
         IN  /\ Len(p) = 7
             /\ p[1] = a /\ p[2] = b /\ p[3] = c /\ p[4] = d /\ p[5] = e
             /\ p[6] = f /\ p[7] = g
<1> DEFINE A == <<a>>
           B == <<b, c>>
           C == <<d, e, f>>
           D == <<g>>
<1>1. A \in Seq(S) /\ Len(A) = 1 /\ A[1] = a
  OBVIOUS
<1>2. B \in Seq(S) /\ Len(B) = 2 /\ B[1] = b /\ B[2] = c
  OBVIOUS
<1>3. C \in Seq(S) /\ Len(C) = 3 /\ C[1] = d /\ C[2] = e /\ C[3] = f
  OBVIOUS
<1>4. D \in Seq(S) /\ Len(D) = 1 /\ D[1] = g
  OBVIOUS
<1> HIDE DEF A, B, C, D
<1> DEFINE P == Both(A, B)
<1>5. P \in Seq(S) /\ Len(P) = Len(A) + Len(B)
  BY <1>1, <1>2, JoinedAt
<1>6. \A x \in 1 .. Len(A) + Len(B) :
        P[x] = IF x <= Len(A) THEN A[x] ELSE B[x - Len(A)]
  BY <1>1, <1>2, JoinedAt
<1>7. \A x \in 1 .. 3 : P[x] = IF x <= 1 THEN A[x] ELSE B[x - 1]
  BY <1>1, <1>2, <1>6
<1> HIDE DEF P
<1>8. /\ P \in Seq(S) /\ Len(P) = 3
      /\ P[1] = a /\ P[2] = b /\ P[3] = c
  BY <1>5, <1>7, <1>1, <1>2
<1> DEFINE Q == Both(P, C)
<1>9. Q \in Seq(S) /\ Len(Q) = Len(P) + Len(C)
  BY <1>8, <1>3, JoinedAt
<1>10. \A x \in 1 .. Len(P) + Len(C) :
        Q[x] = IF x <= Len(P) THEN P[x] ELSE C[x - Len(P)]
  BY <1>8, <1>3, JoinedAt
<1>11. \A x \in 1 .. 6 : Q[x] = IF x <= 3 THEN P[x] ELSE C[x - 3]
  BY <1>8, <1>3, <1>10
<1> HIDE DEF Q
<1>12. /\ Q \in Seq(S) /\ Len(Q) = 6
      /\ Q[1] = a /\ Q[2] = b /\ Q[3] = c /\ Q[4] = d /\ Q[5] = e
      /\ Q[6] = f
  BY <1>9, <1>11, <1>8, <1>3
<1> DEFINE W == Both(Q, D)
<1>13. W \in Seq(S) /\ Len(W) = Len(Q) + Len(D)
  BY <1>12, <1>4, JoinedAt
<1>14. \A x \in 1 .. Len(Q) + Len(D) :
        W[x] = IF x <= Len(Q) THEN Q[x] ELSE D[x - Len(Q)]
  BY <1>12, <1>4, JoinedAt
<1>15. \A x \in 1 .. 7 : W[x] = IF x <= 6 THEN Q[x] ELSE D[x - 6]
  BY <1>12, <1>4, <1>14
<1> HIDE DEF W
<1>16. /\ W \in Seq(S) /\ Len(W) = 7
      /\ W[1] = a /\ W[2] = b /\ W[3] = c /\ W[4] = d /\ W[5] = e
      /\ W[6] = f /\ W[7] = g
  BY <1>13, <1>15, <1>12, <1>4
<1> QED BY <1>16 DEF A, B, C, D, P, Q, W, Both

LEMMA PlanProgramHw ==
  ASSUME NEW S, NEW a \in S, NEW b \in S, NEW c \in S, NEW d \in S, NEW e \in S,
         NEW f \in S, NEW g \in S, NEW h \in S, NEW i \in S, NEW j \in S
  PROVE  LET p == <<a, b, c, d>> \o <<e, f, g, h>> \o <<i, j>>
         IN  /\ Len(p) = 10
             /\ p[1] = a /\ p[2] = b /\ p[3] = c /\ p[4] = d /\ p[5] = e
             /\ p[6] = f /\ p[7] = g /\ p[8] = h /\ p[9] = i /\ p[10] = j
<1> DEFINE A == <<a, b, c, d>>
           B == <<e, f, g, h>>
           C == <<i, j>>
<1>1. A \in Seq(S) /\ Len(A) = 4 /\ A[1] = a /\ A[2] = b /\ A[3] = c /\ A[4] = d
  OBVIOUS
<1>2. B \in Seq(S) /\ Len(B) = 4 /\ B[1] = e /\ B[2] = f /\ B[3] = g /\ B[4] = h
  OBVIOUS
<1>3. C \in Seq(S) /\ Len(C) = 2 /\ C[1] = i /\ C[2] = j
  OBVIOUS
<1> HIDE DEF A, B, C
<1> DEFINE P == Both(A, B)
<1>4. P \in Seq(S) /\ Len(P) = Len(A) + Len(B)
  BY <1>1, <1>2, JoinedAt
<1>5. \A x \in 1 .. Len(A) + Len(B) :
        P[x] = IF x <= Len(A) THEN A[x] ELSE B[x - Len(A)]
  BY <1>1, <1>2, JoinedAt
<1>6. \A x \in 1 .. 8 : P[x] = IF x <= 4 THEN A[x] ELSE B[x - 4]
  BY <1>1, <1>2, <1>5
<1> HIDE DEF P
<1>7. /\ P \in Seq(S) /\ Len(P) = 8
      /\ P[1] = a /\ P[2] = b /\ P[3] = c /\ P[4] = d /\ P[5] = e
      /\ P[6] = f /\ P[7] = g /\ P[8] = h
  BY <1>4, <1>6, <1>1, <1>2
<1> DEFINE W == Both(P, C)
<1>8. W \in Seq(S) /\ Len(W) = Len(P) + Len(C)
  BY <1>7, <1>3, JoinedAt
<1>9. \A x \in 1 .. Len(P) + Len(C) :
        W[x] = IF x <= Len(P) THEN P[x] ELSE C[x - Len(P)]
  BY <1>7, <1>3, JoinedAt
<1>10. \A x \in 1 .. 10 : W[x] = IF x <= 8 THEN P[x] ELSE C[x - 8]
  BY <1>7, <1>3, <1>9
<1> HIDE DEF W
<1>11. /\ W \in Seq(S) /\ Len(W) = 10
      /\ W[1] = a /\ W[2] = b /\ W[3] = c /\ W[4] = d /\ W[5] = e
      /\ W[6] = f /\ W[7] = g /\ W[8] = h /\ W[9] = i /\ W[10] = j
  BY <1>8, <1>10, <1>7, <1>3
<1> QED BY <1>11 DEF A, B, C, P, W, Both

LEMMA PlanProgramSw ==
  ASSUME NEW S, NEW a \in S, NEW b \in S, NEW c \in S, NEW d \in S, NEW e \in S,
         NEW f \in S, NEW g \in S, NEW h \in S, NEW i \in S, NEW j \in S
  PROVE  LET p == <<a, b>> \o <<c, d>> \o <<e>> \o <<f, g, h>> \o <<i, j>>
         IN  /\ Len(p) = 10
             /\ p[1] = a /\ p[2] = b /\ p[3] = c /\ p[4] = d /\ p[5] = e
             /\ p[6] = f /\ p[7] = g /\ p[8] = h /\ p[9] = i /\ p[10] = j
<1> DEFINE A == <<a, b>>
           B == <<c, d>>
           C == <<e>>
           D == <<f, g, h>>
           E == <<i, j>>
<1>1. A \in Seq(S) /\ Len(A) = 2 /\ A[1] = a /\ A[2] = b
  OBVIOUS
<1>2. B \in Seq(S) /\ Len(B) = 2 /\ B[1] = c /\ B[2] = d
  OBVIOUS
<1>3. C \in Seq(S) /\ Len(C) = 1 /\ C[1] = e
  OBVIOUS
<1>4. D \in Seq(S) /\ Len(D) = 3 /\ D[1] = f /\ D[2] = g /\ D[3] = h
  OBVIOUS
<1>5. E \in Seq(S) /\ Len(E) = 2 /\ E[1] = i /\ E[2] = j
  OBVIOUS
<1> HIDE DEF A, B, C, D, E
<1> DEFINE P == Both(A, B)
<1>6. P \in Seq(S) /\ Len(P) = Len(A) + Len(B)
  BY <1>1, <1>2, JoinedAt
<1>7. \A x \in 1 .. Len(A) + Len(B) :
        P[x] = IF x <= Len(A) THEN A[x] ELSE B[x - Len(A)]
  BY <1>1, <1>2, JoinedAt
<1>8. \A x \in 1 .. 4 : P[x] = IF x <= 2 THEN A[x] ELSE B[x - 2]
  BY <1>1, <1>2, <1>7
<1> HIDE DEF P
<1>9. /\ P \in Seq(S) /\ Len(P) = 4
      /\ P[1] = a /\ P[2] = b /\ P[3] = c /\ P[4] = d
  BY <1>6, <1>8, <1>1, <1>2
<1> DEFINE Q == Both(P, C)
<1>10. Q \in Seq(S) /\ Len(Q) = Len(P) + Len(C)
  BY <1>9, <1>3, JoinedAt
<1>11. \A x \in 1 .. Len(P) + Len(C) :
        Q[x] = IF x <= Len(P) THEN P[x] ELSE C[x - Len(P)]
  BY <1>9, <1>3, JoinedAt
<1>12. \A x \in 1 .. 5 : Q[x] = IF x <= 4 THEN P[x] ELSE C[x - 4]
  BY <1>9, <1>3, <1>11
<1> HIDE DEF Q
<1>13. /\ Q \in Seq(S) /\ Len(Q) = 5
      /\ Q[1] = a /\ Q[2] = b /\ Q[3] = c /\ Q[4] = d /\ Q[5] = e
  BY <1>10, <1>12, <1>9, <1>3
<1> DEFINE R == Both(Q, D)
<1>14. R \in Seq(S) /\ Len(R) = Len(Q) + Len(D)
  BY <1>13, <1>4, JoinedAt
<1>15. \A x \in 1 .. Len(Q) + Len(D) :
        R[x] = IF x <= Len(Q) THEN Q[x] ELSE D[x - Len(Q)]
  BY <1>13, <1>4, JoinedAt
<1>16. \A x \in 1 .. 8 : R[x] = IF x <= 5 THEN Q[x] ELSE D[x - 5]
  BY <1>13, <1>4, <1>15
<1> HIDE DEF R
<1>17. /\ R \in Seq(S) /\ Len(R) = 8
      /\ R[1] = a /\ R[2] = b /\ R[3] = c /\ R[4] = d /\ R[5] = e
      /\ R[6] = f /\ R[7] = g /\ R[8] = h
  BY <1>14, <1>16, <1>13, <1>4
<1> DEFINE W == Both(R, E)
<1>18. W \in Seq(S) /\ Len(W) = Len(R) + Len(E)
  BY <1>17, <1>5, JoinedAt
<1>19. \A x \in 1 .. Len(R) + Len(E) :
        W[x] = IF x <= Len(R) THEN R[x] ELSE E[x - Len(R)]
  BY <1>17, <1>5, JoinedAt
<1>20. \A x \in 1 .. 10 : W[x] = IF x <= 8 THEN R[x] ELSE E[x - 8]
  BY <1>17, <1>5, <1>19
<1> HIDE DEF W
<1>21. /\ W \in Seq(S) /\ Len(W) = 10
      /\ W[1] = a /\ W[2] = b /\ W[3] = c /\ W[4] = d /\ W[5] = e
      /\ W[6] = f /\ W[7] = g /\ W[8] = h /\ W[9] = i /\ W[10] = j
  BY <1>18, <1>20, <1>17, <1>5
<1> QED BY <1>21 DEF A, B, C, D, E, P, Q, R, W, Both

(* The next step of j that are left, and the rest.                          *)
Rest(seq, j) == [i \in 1 .. j |-> seq[(Len(seq) - j) + i]]
NextOf(seq, j) == seq[(Len(seq) - j) + 1]

LEMMA RestSteps ==
  ASSUME NEW S, NEW seq \in Seq(S)
  PROVE  /\ seq = Rest(seq, Len(seq))
         /\ \A j \in 1 .. Len(seq) :
              /\ Rest(seq, j) # <<>> /\ Len(Rest(seq, j)) = j
              /\ Head(Rest(seq, j)) = NextOf(seq, j)
              /\ Tail(Rest(seq, j)) = Rest(seq, j - 1)
<1>1. seq = Rest(seq, Len(seq))
  BY DEF Rest
<1>2. ASSUME NEW j \in 1 .. Len(seq)
      PROVE  /\ Rest(seq, j) # <<>> /\ Len(Rest(seq, j)) = j
             /\ Head(Rest(seq, j)) = NextOf(seq, j)
             /\ Tail(Rest(seq, j)) = Rest(seq, j - 1)
  <2>1. j \in Nat /\ j >= 1 /\ Len(seq) \in Nat /\ j <= Len(seq)
    OBVIOUS
  <2>2. Rest(seq, j) \in Seq(S) /\ Len(Rest(seq, j)) = j
    BY <2>1 DEF Rest
  <2>3. Head(Rest(seq, j)) = NextOf(seq, j)
    BY <2>1, <2>2 DEF Rest, NextOf
  <2> DEFINE r == Rest(seq, j)
             q == Rest(seq, j - 1)
  <2>4. r \in Seq(S) /\ Len(r) = j /\ r # <<>>
    BY <2>1, <2>2
  <2>5. q \in Seq(S) /\ Len(q) = j - 1 /\ \A i \in 1 .. j - 1 : q[i] = r[i + 1]
    BY <2>1 DEF Rest
  <2> HIDE DEF r, q
  <2>6. Tail(r) = q
    <3>1. Tail(r) \in Seq(S) /\ Len(Tail(r)) = Len(q)
      BY <2>1, <2>4, <2>5
    <3>2. \A i \in 1 .. Len(Tail(r)) : Tail(r)[i] = q[i]
      BY <2>1, <2>4, <2>5, <3>1, HeadTailProperties
    <3> QED BY <2>5, <3>1, <3>2, SeqEqual
  <2>7. Tail(Rest(seq, j)) = Rest(seq, j - 1)
    BY <2>6 DEF r, q
  <2> QED BY <2>1, <2>2, <2>3, <2>7
<1> QED BY <1>1, <1>2

(* The first request of HaltCore.                                           *)
AskHalt == Put(DHCSR, {"C_DEBUGEN", "C_HALT"})
AskReset == Put(AIRCR, {"SYSRESETREQ"})
TryEnable == [Enable EXCEPT !.op = "try twice"]

LEMMA PlanSteps ==
  /\ \A op \in Ops \ Accessing : Step(op) \in StepSet
  /\ AskHalt \in StepSet /\ AskReset \in StepSet /\ TryEnable \in StepSet
  /\ Get(AIRCR) \in StepSet /\ Enable \in StepSet /\ Disable \in StepSet
  /\ CatchReset \in StepSet /\ Uncatch \in StepSet
  BY StepIsStep DEF AskHalt, AskReset, TryEnable

LEMMA ShortPlans ==
  ASSUME host \in Hosts
  PROVE  /\ Steps("RESET_HOLD") = <<Step("init"), Step("assert")>>
         /\ Steps("NO_DEBUG") = <<Step("init"), Disable>>
         /\ Steps("RUN") = <<Disable, Step("off")>>
  BY SwdHostAssumption DEF Steps, HwSteps, SwSteps, CppSteps

LEMMA HaltPlan ==
  ASSUME host \in Hosts
  PROVE  LET p == Steps("HALT")
         IN  /\ Len(p) = 4
             /\ NextOf(p, 4) = Step("init") /\ NextOf(p, 3) = Step("init_debug") /\ NextOf(p, 2) = AskHalt
             /\ NextOf(p, 1) = Step("wait")
<1>1. Steps("HALT") = <<Step("init"), Step("init_debug")>> \o <<AskHalt, Step("wait")>>
  BY SwdHostAssumption DEF Steps, HwSteps, SwSteps, CppSteps, HaltCore, AskHalt
<1>2. /\ Step("init") \in StepSet /\ Step("init_debug") \in StepSet
      /\ AskHalt \in StepSet /\ Step("wait") \in StepSet
  BY PlanSteps DEF Ops, Accessing
<1> DEFINE p == Steps("HALT")
<1>3. /\ Len(p) = 4
      /\ p[1] = Step("init") /\ p[2] = Step("init_debug") /\ p[3] = AskHalt
      /\ p[4] = Step("wait")
  BY <1>1, <1>2, PlanHalt
<1> HIDE DEF p
<1>4. /\ Len(p) = 4
      /\ NextOf(p, 4) = Step("init") /\ NextOf(p, 3) = Step("init_debug") /\ NextOf(p, 2) = AskHalt
      /\ NextOf(p, 1) = Step("wait")
  BY <1>3 DEF NextOf
<1> QED BY <1>4 DEF p

LEMMA DebugPlan ==
  ASSUME host \in Hosts
  PROVE  LET p == Steps("DEBUG")
         IN  /\ Len(p) = 6
             /\ NextOf(p, 6) = Step("init") /\ NextOf(p, 5) = Step("jtag2swd") /\ NextOf(p, 4) = Step("abort")
             /\ NextOf(p, 3) = Step("select") /\ NextOf(p, 2) = Step("power") /\ NextOf(p, 1) = Enable
<1>1. Steps("DEBUG") = <<Step("init")>> \o <<Step("jtag2swd"), Step("abort"), Step("select"),
                                              Step("power"), Enable>>
  BY SwdHostAssumption DEF Steps, HwSteps, SwSteps, CppSteps, Connect
<1>2. /\ Step("init") \in StepSet /\ Step("jtag2swd") \in StepSet /\ Step("abort") \in StepSet
      /\ Step("select") \in StepSet /\ Step("power") \in StepSet /\ Enable \in StepSet
  BY PlanSteps DEF Ops, Accessing
<1> DEFINE p == Steps("DEBUG")
<1>3. /\ Len(p) = 6
      /\ p[1] = Step("init") /\ p[2] = Step("jtag2swd") /\ p[3] = Step("abort")
      /\ p[4] = Step("select") /\ p[5] = Step("power") /\ p[6] = Enable
  BY <1>1, <1>2, PlanDebug
<1> HIDE DEF p
<1>4. /\ Len(p) = 6
      /\ NextOf(p, 6) = Step("init") /\ NextOf(p, 5) = Step("jtag2swd") /\ NextOf(p, 4) = Step("abort")
      /\ NextOf(p, 3) = Step("select") /\ NextOf(p, 2) = Step("power") /\ NextOf(p, 1) = Enable
  BY <1>3 DEF NextOf
<1> QED BY <1>4 DEF p

LEMMA RunPlanHw ==
  ASSUME host = "hw"
  PROVE  LET p == Steps("RESET_RUN")
         IN  /\ Len(p) = 6
             /\ NextOf(p, 6) = Step("init") /\ NextOf(p, 5) = Step("assert") /\ NextOf(p, 4) = Step("delay")
             /\ NextOf(p, 3) = Step("release") /\ NextOf(p, 2) = Step("delay") /\ NextOf(p, 1) = Step("off")
<1>1. Steps("RESET_RUN") =
        <<Step("init")>> \o <<Step("assert"), Step("delay"), Step("release"), Step("delay")>>
        \o <<Step("off")>>
  BY DEF Steps, HwSteps, PinReset
<1>2. /\ Step("init") \in StepSet /\ Step("assert") \in StepSet /\ Step("delay") \in StepSet
      /\ Step("release") \in StepSet /\ Step("off") \in StepSet
  BY PlanSteps DEF Ops, Accessing
<1> DEFINE p == Steps("RESET_RUN")
<1>3. /\ Len(p) = 6
      /\ p[1] = Step("init") /\ p[2] = Step("assert") /\ p[3] = Step("delay")
      /\ p[4] = Step("release") /\ p[5] = Step("delay") /\ p[6] = Step("off")
  BY <1>1, <1>2, PlanRunHw
<1> HIDE DEF p
<1>4. /\ Len(p) = 6
      /\ NextOf(p, 6) = Step("init") /\ NextOf(p, 5) = Step("assert") /\ NextOf(p, 4) = Step("delay")
      /\ NextOf(p, 3) = Step("release") /\ NextOf(p, 2) = Step("delay") /\ NextOf(p, 1) = Step("off")
  BY <1>3 DEF NextOf
<1> QED BY <1>4 DEF p

LEMMA RunPlanSw ==
  ASSUME host \in Hosts, host # "hw"
  PROVE  LET p == Steps("RESET_RUN")
         IN  /\ Len(p) = 7
             /\ NextOf(p, 7) = Step("init") /\ NextOf(p, 6) = AskHalt /\ NextOf(p, 5) = Step("wait")
             /\ NextOf(p, 4) = Get(AIRCR) /\ NextOf(p, 3) = AskReset /\ NextOf(p, 2) = Step("delay")
             /\ NextOf(p, 1) = Step("off")
<1>1. Steps("RESET_RUN") =
        <<Step("init")>> \o <<AskHalt, Step("wait")>> \o <<Get(AIRCR), AskReset, Step("delay")>>
        \o <<Step("off")>>
  BY SwdHostAssumption DEF Steps, SwSteps, CppSteps, HaltCore, SoftReset, AskHalt, AskReset
<1>2. /\ Step("init") \in StepSet /\ AskHalt \in StepSet /\ Step("wait") \in StepSet
      /\ Get(AIRCR) \in StepSet /\ AskReset \in StepSet /\ Step("delay") \in StepSet
      /\ Step("off") \in StepSet
  BY PlanSteps DEF Ops, Accessing
<1> DEFINE p == Steps("RESET_RUN")
<1>3. /\ Len(p) = 7
      /\ p[1] = Step("init") /\ p[2] = AskHalt /\ p[3] = Step("wait")
      /\ p[4] = Get(AIRCR) /\ p[5] = AskReset /\ p[6] = Step("delay")
      /\ p[7] = Step("off")
  BY <1>1, <1>2, PlanRunSw
<1> HIDE DEF p
<1>4. /\ Len(p) = 7
      /\ NextOf(p, 7) = Step("init") /\ NextOf(p, 6) = AskHalt /\ NextOf(p, 5) = Step("wait")
      /\ NextOf(p, 4) = Get(AIRCR) /\ NextOf(p, 3) = AskReset /\ NextOf(p, 2) = Step("delay")
      /\ NextOf(p, 1) = Step("off")
  BY <1>3 DEF NextOf
<1> QED BY <1>4 DEF p

LEMMA ProgramPlanHw ==
  ASSUME host = "hw"
  PROVE  LET p == Steps("RESET_PROGRAM")
         IN  /\ Len(p) = 10
             /\ NextOf(p, 10) = Step("init") /\ NextOf(p, 9) = Step("init_debug") /\ NextOf(p, 8) = TryEnable
             /\ NextOf(p, 7) = CatchReset /\ NextOf(p, 6) = Step("assert") /\ NextOf(p, 5) = Step("delay")
             /\ NextOf(p, 4) = Step("release") /\ NextOf(p, 3) = Step("delay") /\ NextOf(p, 2) = Step("wait")
             /\ NextOf(p, 1) = Uncatch
<1>1. Steps("RESET_PROGRAM") =
        <<Step("init"), Step("init_debug"), TryEnable, CatchReset>>
        \o <<Step("assert"), Step("delay"), Step("release"), Step("delay")>>
        \o <<Step("wait"), Uncatch>>
  BY DEF Steps, HwSteps, PinReset, TryEnable
<1>2. /\ Step("init") \in StepSet /\ Step("init_debug") \in StepSet /\ TryEnable \in StepSet
      /\ CatchReset \in StepSet /\ Step("assert") \in StepSet /\ Step("delay") \in StepSet
      /\ Step("release") \in StepSet /\ Step("wait") \in StepSet /\ Uncatch \in StepSet
  BY PlanSteps DEF Ops, Accessing
<1> DEFINE p == Steps("RESET_PROGRAM")
<1>3. /\ Len(p) = 10
      /\ p[1] = Step("init") /\ p[2] = Step("init_debug") /\ p[3] = TryEnable
      /\ p[4] = CatchReset /\ p[5] = Step("assert") /\ p[6] = Step("delay")
      /\ p[7] = Step("release") /\ p[8] = Step("delay") /\ p[9] = Step("wait")
      /\ p[10] = Uncatch
  BY <1>1, <1>2, PlanProgramHw
<1> HIDE DEF p
<1>4. /\ Len(p) = 10
      /\ NextOf(p, 10) = Step("init") /\ NextOf(p, 9) = Step("init_debug") /\ NextOf(p, 8) = TryEnable
      /\ NextOf(p, 7) = CatchReset /\ NextOf(p, 6) = Step("assert") /\ NextOf(p, 5) = Step("delay")
      /\ NextOf(p, 4) = Step("release") /\ NextOf(p, 3) = Step("delay") /\ NextOf(p, 2) = Step("wait")
      /\ NextOf(p, 1) = Uncatch
  BY <1>3 DEF NextOf
<1> QED BY <1>4 DEF p

LEMMA ProgramPlanSw ==
  ASSUME host \in Hosts, host # "hw"
  PROVE  LET p == Steps("RESET_PROGRAM")
         IN  /\ Len(p) = 10
             /\ NextOf(p, 10) = Step("init") /\ NextOf(p, 9) = Step("init_debug") /\ NextOf(p, 8) = AskHalt
             /\ NextOf(p, 7) = Step("wait") /\ NextOf(p, 6) = CatchReset /\ NextOf(p, 5) = Get(AIRCR)
             /\ NextOf(p, 4) = AskReset /\ NextOf(p, 3) = Step("delay") /\ NextOf(p, 2) = Step("wait")
             /\ NextOf(p, 1) = Uncatch
<1>1. Steps("RESET_PROGRAM") =
        <<Step("init"), Step("init_debug")>> \o <<AskHalt, Step("wait")>> \o <<CatchReset>>
        \o <<Get(AIRCR), AskReset, Step("delay")>> \o <<Step("wait"), Uncatch>>
  BY SwdHostAssumption DEF Steps, SwSteps, CppSteps, HaltCore, SoftReset, AskHalt, AskReset
<1>2. /\ Step("init") \in StepSet /\ Step("init_debug") \in StepSet /\ AskHalt \in StepSet
      /\ Step("wait") \in StepSet /\ CatchReset \in StepSet /\ Get(AIRCR) \in StepSet
      /\ AskReset \in StepSet /\ Step("delay") \in StepSet /\ Uncatch \in StepSet
  BY PlanSteps DEF Ops, Accessing
<1> DEFINE p == Steps("RESET_PROGRAM")
<1>3. /\ Len(p) = 10
      /\ p[1] = Step("init") /\ p[2] = Step("init_debug") /\ p[3] = AskHalt
      /\ p[4] = Step("wait") /\ p[5] = CatchReset /\ p[6] = Get(AIRCR)
      /\ p[7] = AskReset /\ p[8] = Step("delay") /\ p[9] = Step("wait")
      /\ p[10] = Uncatch
  BY <1>1, <1>2, PlanProgramSw
<1> HIDE DEF p
<1>4. /\ Len(p) = 10
      /\ NextOf(p, 10) = Step("init") /\ NextOf(p, 9) = Step("init_debug") /\ NextOf(p, 8) = AskHalt
      /\ NextOf(p, 7) = Step("wait") /\ NextOf(p, 6) = CatchReset /\ NextOf(p, 5) = Get(AIRCR)
      /\ NextOf(p, 4) = AskReset /\ NextOf(p, 3) = Step("delay") /\ NextOf(p, 2) = Step("wait")
      /\ NextOf(p, 1) = Uncatch
  BY <1>3 DEF NextOf
<1> QED BY <1>4 DEF p

-----------------------------------------------------------------------------
(* Failed transfers are accounted for                                       *)

(* What has failed is known to have, and is not forgotten.                  *)
Marks(t, o) == t.trouble \/ ~o.ok => o.t.trouble

LEMMA WriteRegMarks ==
  ASSUME NEW t, Typed(t), NEW reg \in {"ABORT", "CTRL_STAT", "TAR", "DRW", "SELECT", "CSW"}, NEW v,
         reg = "DRW" => Names(t, v)
  PROVE  \A o \in WriteReg(t, reg, v) : Marks(t, o)
<1>1. [t EXCEPT !.trouble = TRUE].trouble
  BY DEF Typed, Fields
<1>2. \A u \in Written(t, reg, v) : t.trouble => u.trouble
  <2>1. CASE reg \in {"ABORT", "CTRL_STAT", "TAR", "DRW"}
    BY <2>1, WrittenFollows DEF Follows
  <2>2. CASE reg \in {"SELECT", "CSW"}
    BY <2>2 DEF Written, Typed, Fields
  <2> QED BY <2>1, <2>2
<1> QED BY <1>1, <1>2, WriteRegEnds DEF Marks

LEMMA ReadRegMarks ==
  ASSUME NEW t, Typed(t), NEW reg \in Readable
  PROVE  \A o \in ReadReg(t, reg) : Marks(t, o)
<1> DEFINE failed(u) == [u EXCEPT !.trouble = TRUE]
           again(u) == [failed(u) EXCEPT !.repeated = TRUE]
<1>0. ReadReg(t, reg) =
        {No(failed(t))} \cup
        (IF ~Answering(t, reg) THEN {}
         ELSE UNION {{Yes(a.val, a.t), No(failed(a.t))} \cup
                     (IF host = "cpp" /\ Answering(a.t, reg)
                      THEN {Yes(b.val, again(b.t)) : b \in Answers(a.t, reg)} ELSE {})
                     : a \in Answers(t, reg)})
  BY DEF ReadReg
<1>1. \A u : Typed(u) => failed(u).trouble
  BY DEF Typed, Fields
<1> HIDE DEF failed, again
<1>2. \A o \in ReadReg(t, reg) :
         o.ok \/ o.t = failed(t) \/ \E a \in Answers(t, reg) : o.t = failed(a.t)
  BY <1>0, OutcomeFields
<1>3. \A a \in Answers(t, reg) : Typed(a.t)
  BY AnswersFollow DEF Follows
<1> QED BY <1>1, <1>2, <1>3, ReadRegFollows DEF AllFollow, Follows, Marks

LEMMA ConfirmMarks ==
  ASSUME NEW t, Typed(t)
  PROVE  \A o \in Confirm(t) : Marks(t, o)
  BY ReadRegMarks DEF Confirm, Readable

LEMMA SelectMarks ==
  ASSUME NEW t, Typed(t), NEW bank \in {0, 1}
  PROVE  \A o \in Select(t, bank) : Marks(t, o)
<1> DEFINE u == [t EXCEPT !.select = bank]
<1>1. CASE t.select = bank
  <2>1. Select(t, bank) = {Yes(None, t)}
    BY <1>1 DEF Select
  <2> QED BY <2>1, OutcomeFields DEF Marks
<1>2. CASE t.select # bank
  <2>1. Select(t, bank) = WriteReg(u, "SELECT", bank)
    BY <1>2 DEF Select
  <2>2. Typed(u) /\ u.trouble = t.trouble
    BY DEF Typed, Fields
  <2> HIDE DEF u
  <2> QED BY <2>1, <2>2, WriteRegMarks DEF Marks
<1> QED BY <1>1, <1>2

LEMMA SetCSWMarks ==
  ASSUME NEW t, Sound(t), NEW size \in {8, 32}
  PROVE  \A o \in SetCSW(t, size) : Marks(t, o)
<1> DEFINE C(u) == Then(WriteReg([u EXCEPT !.csw = size], "CSW", size), LAMBDA w, x : Confirm(x))
           B(u) == IF u.csw = size THEN {Yes(None, u)} ELSE C(u)
<1>1. \A o \in SetCSW(t, size) :
        \E p \in Select(t, 0) : (p.ok /\ o \in B(p.t)) \/ (~p.ok /\ o = p)
  <2>1. SetCSW(t, size) = UNION {IF o.ok THEN B(o.t) ELSE {o} : o \in Select(t, 0)}
    BY DEF SetCSW, Then
  <2> HIDE DEF B
  <2> QED BY <2>1
<1>2. ASSUME NEW u, Typed(u), NEW o \in B(u)
      PROVE  Marks(u, o)
  <2>1. CASE u.csw = size
    <3>1. o = Yes(None, u)
      BY <2>1, <1>2
    <3>2. o.ok /\ o.t = u
      BY <3>1 DEF Yes
    <3> QED BY <3>2 DEF Marks
  <2>2. CASE u.csw # size
    <3> DEFINE n == [u EXCEPT !.csw = size]
               w == [n EXCEPT !.tcsw = size]
    <3>1. o \in C(u)
      BY <2>2, <1>2
    <3>2. \E p \in WriteReg(n, "CSW", size) : (p.ok /\ o \in Confirm(p.t)) \/ (~p.ok /\ o = p)
      BY <3>1 DEF Then
    <3>3. Typed(n) /\ n.trouble = u.trouble /\ Typed(w)
      BY <1>2 DEF Typed, Fields
    <3>4. \A x \in Written(n, "CSW", size) : x = n \/ x = w
      BY DEF Written
    <3> HIDE DEF n, w, C, B
    <3>5. \A p \in WriteReg(n, "CSW", size) : Marks(n, p) /\ (p.ok => Typed(p.t))
      BY <3>3, <3>4, WriteRegMarks, WriteRegEnds
    <3> QED BY <3>2, <3>3, <3>5, ConfirmMarks DEF Marks
  <2> QED BY <2>1, <2>2
<1>3. \A p \in Select(t, 0) : Typed(p.t) /\ Marks(t, p)
  BY SelectKeeps, SelectMarks DEF Sound
<1> HIDE DEF B
<1> QED BY <1>1, <1>2, <1>3 DEF Marks

LEMMA WriteWordMarks ==
  ASSUME NEW t, Sound(t), NEW a, a # DCRSR, NEW v
  PROVE  \A o \in WriteWord(t, a, v) : Marks(t, o)
<1>1. SUFFICES ASSUME NEW o \in WriteWord(t, a, v)
               PROVE  Marks(t, o)
  OBVIOUS
<1>2. PICK p \in SetCSW(t, 32) : (p.ok /\ o \in WriteData(p.t, a, v)) \/ (~p.ok /\ o = p)
  BY DEF WriteWord, Then
<1>3. Marks(t, p) /\ Typed(p.t)
  BY SetCSWMarks, SetCSWKeeps DEF Sound
<1>4. CASE ~p.ok
  BY <1>2, <1>3, <1>4
<1>5. CASE p.ok
  <2>1. PICK q \in WriteReg(p.t, "TAR", a) :
          \/ ~q.ok /\ o = q
          \/ q.ok /\ \E r \in WriteReg(q.t, "DRW", v) :
               (r.ok /\ o \in Confirm(r.t)) \/ (~r.ok /\ o = r)
    BY <1>2, <1>5 DEF WriteData, Then
  <2>2. Marks(p.t, q) /\ Follows(p.t, q.t) /\ Typed(q.t)
    BY <1>3, WriteRegMarks, WriteRegFollows DEF AllFollow, Follows
  <2>3. CASE ~q.ok
    BY <1>3, <2>1, <2>2, <2>3 DEF Marks
  <2>4. CASE q.ok
    <3>1. PICK r \in WriteReg(q.t, "DRW", v) : (r.ok /\ o \in Confirm(r.t)) \/ (~r.ok /\ o = r)
      BY <2>1, <2>4
    <3>2. q.t.tselect = 0 => q.t.tar = a
      <4>1. q.t \in Written(p.t, "TAR", a)
        BY <2>1, <2>4, WriteRegEnds
      <4> QED BY <1>3, <4>1 DEF Written, Typed, Fields
    <3>3. Names(q.t, v)
      BY <3>2 DEF Names
    <3>4. Marks(q.t, r) /\ Typed(r.t)
      BY <2>2, <3>3, WriteRegMarks, WriteRegFollows DEF AllFollow, Follows
    <3>5. r.ok => Marks(r.t, o)
      BY <3>1, <3>4, ConfirmMarks
    <3> QED BY <1>3, <2>2, <3>1, <3>4, <3>5 DEF Marks
  <2> QED BY <2>3, <2>4
<1> QED BY <1>4, <1>5

LEMMA ReadWordMarks ==
  ASSUME NEW t, Sound(t), NEW a
  PROVE  \A o \in ReadWord(t, a) : t.trouble => o.t.trouble
<1>1. \A o \in ReadWord(t, a) :
        \E p \in SetCSW(t, 32) : (p.ok /\ o \in ReadData(p.t, a)) \/ (~p.ok /\ o = p)
  BY DEF ReadWord, Then
<1>2. \A p \in SetCSW(t, 32) : Marks(t, p) /\ Typed(p.t)
  BY SetCSWMarks, SetCSWKeeps DEF Sound
<1>3. \A p \in SetCSW(t, 32) : \A o \in ReadData(p.t, a) : p.t.trouble => o.t.trouble
  BY <1>2, ReadDataFollows DEF AllFollow, Follows
<1> QED BY <1>1, <1>2, <1>3 DEF Marks

-----------------------------------------------------------------------------
(* What the steps of set_target_state do to the core                        *)

LEMMA WriteRegCore ==
  ASSUME NEW t, Typed(t), NEW reg \in {"ABORT", "CTRL_STAT"}, NEW v
  PROVE  \A o \in WriteReg(t, reg, v) : SameCore(t, o.t)
<1>1. SameCore(t, [t EXCEPT !.trouble = TRUE])
  BY DEF SameCore, Typed, Fields
<1>2. \A u \in Written(t, reg, v) : SameCore(t, u)
  BY DEF Written, SameCore, Typed, Fields
<1> QED BY <1>1, <1>2, WriteRegEnds

LEMMA SelectCore ==
  ASSUME NEW t, Typed(t), NEW bank \in {0, 1}
  PROVE  \A o \in Select(t, bank) : SameCore(t, o.t)
<1> DEFINE u == [t EXCEPT !.select = bank]
           f == [u EXCEPT !.trouble = TRUE]
           w == [u EXCEPT !.tselect = bank]
<1>1. SameCore(t, t) /\ SameCore(t, f) /\ SameCore(t, w)
  BY DEF SameCore, Typed, Fields
<1>2. Select(t, bank) = IF t.select = bank THEN {Yes(None, t)} ELSE WriteReg(u, "SELECT", bank)
  BY DEF Select
<1>3. Written(u, "SELECT", bank) = {w}
  BY DEF Written
<1>4. \A o \in WriteReg(u, "SELECT", bank) : o.t = f \/ o.t = w
  BY <1>3, WriteRegEnds
<1> HIDE DEF u, f, w
<1> QED BY <1>1, <1>2, <1>4, OutcomeFields

LEMMA JTAG2SWDCore ==
  ASSUME NEW t, Typed(t)
  PROVE  \A o \in JTAG2SWD(t) : SameCore(t, o.t)
<1> DEFINE u == [t EXCEPT !.swd = t.port \/ @]
<1>1. Typed(u) /\ SameCore(t, u)
  BY DEF SameCore, Typed, Fields
<1>2. JTAG2SWD(t) = ReadReg(u, "IDCODE")
  BY DEF JTAG2SWD
<1> HIDE DEF u
<1> QED BY <1>1, <1>2, ReadRegCore, CoreChain DEF Readable

LEMMA PowerUpCore ==
  ASSUME NEW t, Typed(t)
  PROVE  \A o \in PowerUp(t) : SameCore(t, o.t)
<1> DEFINE A == Then(WriteReg(t, "CTRL_STAT", None), LAMBDA x, u : ReadReg(u, "CTRL_STAT"))
           on(u) == [u EXCEPT !.power = TRUE]
           B(u) == {Yes(None, on(u)), No(u)}
<1>1. PowerUp(t) = Then(A, LAMBDA v, u : B(u))
  BY DEF PowerUp
<1>2. \A o \in A : SameCore(t, o.t) /\ Typed(o.t)
  <2>1. \A o \in A :
          \E p \in WriteReg(t, "CTRL_STAT", None) :
            (p.ok /\ o \in ReadReg(p.t, "CTRL_STAT")) \/ (~p.ok /\ o = p)
    BY DEF Then
  <2>2. \A p \in WriteReg(t, "CTRL_STAT", None) : SameCore(t, p.t) /\ Typed(p.t)
    BY WriteRegCore, WriteRegFollows DEF AllFollow, Follows
  <2>3. \A p \in WriteReg(t, "CTRL_STAT", None) : \A o \in ReadReg(p.t, "CTRL_STAT") :
          SameCore(p.t, o.t) /\ Typed(o.t)
    BY <2>2, ReadRegCore, ReadRegFollows DEF Readable, AllFollow, Follows
  <2> HIDE DEF A
  <2> QED BY <2>1, <2>2, <2>3, CoreChain
<1> HIDE DEF A
<1>3. \A u : Typed(u) => SameCore(u, on(u)) /\ SameCore(u, u)
  BY DEF SameCore, Typed, Fields
<1> HIDE DEF on
<1>4. \A u : \A o \in B(u) : o.t = on(u) \/ o.t = u
  BY DEF Yes, No
<1> HIDE DEF B
<1>5. \A o \in PowerUp(t) : \E p \in A : o \in B(p.t) \/ o = p
  BY <1>1 DEF Then
<1> QED BY <1>2, <1>3, <1>4, <1>5, CoreChain

LEMMA InitDebugCore ==
  ASSUME NEW t, Typed(t)
  PROVE  \A o \in InitDebug(t) : SameCore(t, o.t)
<1> DEFINE start == [SwdInit(t) EXCEPT !.select = None, !.csw = None,
                                  !.trouble = FALSE, !.repeated = FALSE]
           J == JTAG2SWD(start)
           cleared == Then(J, LAMBDA x, u : WriteReg(u, "ABORT", None))
           chosen == Then(cleared, LAMBDA x, u : Select(u, 0))
           powered == Then(chosen, LAMBDA x, u : PowerUp(u))
           normal == Then(powered, LAMBDA x, u : WriteReg(u, "CTRL_STAT", None))
           Good(o) == Sound(o.t) /\ SameCore(t, o.t)
<1>1. InitDebug(t) = Then(normal, LAMBDA x, u : Select(u, 0))
  BY DEF InitDebug
<1>2. Sound(start) /\ SameCore(t, start)
  BY DEF Sound, Typed, Fields, Agrees, SwdInit, SameCore
<1> HIDE DEF start
<1>3. \A o \in J : Good(o)
  BY <1>2, JTAG2SWDKeeps, JTAG2SWDCore, CoreChain DEF Kept, Sound
<1> HIDE DEF J
<1>a. ASSUME NEW u, Sound(u), SameCore(t, u)
      PROVE  /\ \A reg \in {"ABORT", "CTRL_STAT"} : \A o \in WriteReg(u, reg, None) : Good(o)
             /\ \A o \in Select(u, 0) : Good(o)
             /\ \A o \in PowerUp(u) : Good(o)
  <2>1. \A reg \in {"ABORT", "CTRL_STAT"} : \A o \in WriteReg(u, reg, None) : Good(o)
    BY <1>a, WriteRegKeeps, WriteRegCore, CoreChain DEF Kept, Sound
  <2>2. \A o \in Select(u, 0) : Good(o)
    BY <1>a, SelectKeeps, SelectCore, CoreChain DEF Sound
  <2>3. \A o \in PowerUp(u) : Good(o)
    BY <1>a, PowerUpKeeps, PowerUpCore, CoreChain DEF Kept, Sound
  <2> QED BY <2>1, <2>2, <2>3
<1>4. \A o \in cleared : Good(o)
  <2>1. \A o \in cleared :
          \E p \in J : (p.ok /\ o \in WriteReg(p.t, "ABORT", None)) \/ (~p.ok /\ o = p)
    BY DEF Then
  <2> HIDE DEF cleared
  <2> QED BY <1>3, <1>a, <2>1
<1> HIDE DEF cleared
<1>5. \A o \in chosen : Good(o)
  <2>1. \A o \in chosen :
          \E p \in cleared : (p.ok /\ o \in Select(p.t, 0)) \/ (~p.ok /\ o = p)
    BY DEF Then
  <2> HIDE DEF chosen
  <2> QED BY <1>4, <1>a, <2>1
<1> HIDE DEF chosen
<1>6. \A o \in powered : Good(o)
  <2>1. \A o \in powered :
          \E p \in chosen : (p.ok /\ o \in PowerUp(p.t)) \/ (~p.ok /\ o = p)
    BY DEF Then
  <2> HIDE DEF powered
  <2> QED BY <1>5, <1>a, <2>1
<1> HIDE DEF powered
<1>7. \A o \in normal : Good(o)
  <2>1. \A o \in normal :
          \E p \in powered : (p.ok /\ o \in WriteReg(p.t, "CTRL_STAT", None)) \/ (~p.ok /\ o = p)
    BY DEF Then
  <2> HIDE DEF normal
  <2> QED BY <1>6, <1>a, <2>1
<1> HIDE DEF normal
<1>8. \A o \in InitDebug(t) :
        \E p \in normal : (p.ok /\ o \in Select(p.t, 0)) \/ (~p.ok /\ o = p)
  BY <1>1 DEF Then
<1> QED BY <1>7, <1>8, <1>a

Off(t) == ~t.debugen /\ ~t.haltreq /\ ~Halted(t)
Going(t) == ~t.haltreq /\ ~Halted(t)
Caught(t) == t.fresh /\ Halted(t)

Quiet == {"init", "off", "init_debug", "jtag2swd", "abort", "select", "power", "read", "wait", "delay"}
Writing == {"write", "try twice", "try again"}

(* What of the core is left alone by any write.                             *)
Besides(t, u) == u.held = t.held /\ u.wired = t.wired

(* What a step that succeeds without a failed transfer does to the core.    *)
Moves(step, t, u) ==
  /\ u.wired = t.wired
  /\ step.op \in Quiet => SameCore(t, u)
  /\ step.op = "delay" => ~t.resetting
  /\ step.op = "assert" =>
       /\ t.wired => u.held
       /\ u.debugen = t.debugen /\ u.vc = t.vc /\ u.resetting = t.resetting /\ u.wired = t.wired
  /\ step.op = "release" =>
       /\ u.debugen = t.debugen /\ u.vc = t.vc /\ u.wired = t.wired
       /\ ~t.resetting => ~u.resetting
       /\ t.held => IF t.vc /\ t.debugen THEN Caught(u) ELSE Going(u)
  /\ step.op \in Writing /\ step.reg = DHCSR =>
       /\ Besides(t, u) /\ u.vc = t.vc /\ u.resetting = t.resetting
       /\ u.debugen = ("C_DEBUGEN" \in step.val)
       /\ ~ {"C_DEBUGEN", "C_HALT"} \subseteq step.val => Going(u)
  /\ step.op \in Writing /\ step.reg = DEMCR =>
       /\ Besides(t, u) /\ u.run = t.run /\ u.fresh = t.fresh /\ u.haltreq = t.haltreq
       /\ u.debugen = t.debugen /\ u.resetting = t.resetting
       /\ u.vc = ("VC_CORERESET" \in step.val)
  /\ step.op \in Writing /\ step.reg = AIRCR =>
       /\ Besides(t, u) /\ u.debugen = t.debugen /\ u.vc = t.vc /\ u.resetting

LEMMA WrittenCore ==
  ASSUME NEW t, Typed(t), NEW v
  PROVE  /\ \A w \in RegWrite(t, DHCSR, v) :
              /\ Besides(t, w) /\ w.vc = t.vc /\ w.resetting = t.resetting
              /\ w.debugen = ("C_DEBUGEN" \in v)
              /\ ~ {"C_DEBUGEN", "C_HALT"} \subseteq v => Going(w)
         /\ \A w \in RegWrite(t, DEMCR, v) :
              /\ Besides(t, w) /\ w.run = t.run /\ w.fresh = t.fresh /\ w.haltreq = t.haltreq
              /\ w.debugen = t.debugen /\ w.resetting = t.resetting
              /\ w.vc = ("VC_CORERESET" \in v)
         /\ \A w \in RegWrite(t, AIRCR, v) :
              Besides(t, w) /\ w.debugen = t.debugen /\ w.vc = t.vc /\ w.resetting
<1>1. ASSUME NEW w \in RegWrite(t, DHCSR, v)
      PROVE  /\ Besides(t, w) /\ w.vc = t.vc /\ w.resetting = t.resetting
             /\ w.debugen = ("C_DEBUGEN" \in v)
             /\ ~ {"C_DEBUGEN", "C_HALT"} \subseteq v => Going(w)
  <2> DEFINE u == [t EXCEPT !.debugen = "C_DEBUGEN" \in v]
             asked == {"C_DEBUGEN", "C_HALT"} \subseteq v
  <2>1. RegWrite(t, DHCSR, v) = {IF asked THEN [u EXCEPT !.haltreq = TRUE] ELSE Resumed(u)}
    BY RegistersDiffer DEF RegWrite
  <2>2. Typed(u) /\ Besides(t, u) /\ u.vc = t.vc /\ u.resetting = t.resetting
        /\ u.debugen = ("C_DEBUGEN" \in v)
    BY DEF Typed, Fields, Besides
  <2> HIDE DEF u
  <2>3. LET x == [u EXCEPT !.haltreq = TRUE]
        IN  x.held = u.held /\ x.wired = u.wired /\ x.vc = u.vc /\ x.resetting = u.resetting
            /\ x.debugen = u.debugen
    BY <2>2 DEF Typed, Fields
  <2>4. LET x == Resumed(u)
        IN  x.held = u.held /\ x.wired = u.wired /\ x.vc = u.vc /\ x.resetting = u.resetting
            /\ x.debugen = u.debugen /\ ~x.haltreq /\ x.run # "halted"
    BY <2>2 DEF Typed, Fields, Resumed, Halted
  <2> HIDE DEF asked
  <2>5. CASE asked
    <3>1. w = [u EXCEPT !.haltreq = TRUE]
      BY <2>1, <2>5
    <3> QED BY <2>2, <2>3, <2>5, <3>1 DEF Besides, asked
  <2>6. CASE ~asked
    <3>1. w = Resumed(u)
      BY <2>1, <2>6
    <3> QED BY <2>2, <2>4, <3>1 DEF Besides, Going, Halted
  <2> QED BY <2>5, <2>6
<1>2. ASSUME NEW w \in RegWrite(t, DEMCR, v)
      PROVE  /\ Besides(t, w) /\ w.run = t.run /\ w.fresh = t.fresh /\ w.haltreq = t.haltreq
             /\ w.debugen = t.debugen /\ w.resetting = t.resetting
             /\ w.vc = ("VC_CORERESET" \in v)
  <2>1. RegWrite(t, DEMCR, v) = {[t EXCEPT !.vc = "VC_CORERESET" \in v]}
    BY RegistersDiffer DEF RegWrite
  <2> QED BY <2>1 DEF Typed, Fields, Besides
<1>3. ASSUME NEW w \in RegWrite(t, AIRCR, v)
      PROVE  Besides(t, w) /\ w.debugen = t.debugen /\ w.vc = t.vc /\ w.resetting
  <2>1. RegWrite(t, AIRCR, v) = {[t EXCEPT !.resetting = TRUE]}
    BY RegistersDiffer DEF RegWrite
  <2> QED BY <2>1 DEF Typed, Fields, Besides
<1> QED BY <1>1, <1>2, <1>3

LEMMA ShowsTheHalt ==
  ASSUME NEW u, TRUE \in ShowsHalt(RegRead(u, DHCSR))
  PROVE  Halted(u)
<1> DEFINE e == IF Halted(u) THEN {"S_HALT"} ELSE {}
<1>1. RegRead(u, DHCSR) = <<"bits", e>>
  BY RegistersDiffer DEF RegRead
<1>2. "S_HALT" \in e => Halted(u)
  OBVIOUS
<1> HIDE DEF e
<1>3. ShowsHalt(<<"bits", e>>) = {"S_HALT" \in e}
  BY DEF ShowsHalt
<1> QED BY <1>1, <1>2, <1>3

LEMMA TroubleStays ==
  ASSUME Sound(s), NEW step \in StepSet, step.op # "init_debug", NEW o \in Outcomes(step)
  PROVE  /\ s.trouble => o.t.trouble
         /\ step.op = "try twice" /\ ~o.ok => o.t.trouble
<1>0. Typed(s) /\ step.op \in Ops /\ step.reg # DCRSR
  BY RegistersDiffer DEF StepSet, Registers, Sound
<1>1. CASE step.op \in {"init", "off", "assert", "release", "delay"}
  <2> DEFINE a == [s EXCEPT !.held = TRUE]
             r == [AfterReset(s) EXCEPT !.held = FALSE]
  <2>1. /\ SwdInit(s).trouble = s.trouble /\ SwdOff(s).trouble = s.trouble
        /\ a.trouble = s.trouble /\ r.trouble = s.trouble
    BY <1>0 DEF Typed, Fields, SwdInit, SwdOff, AfterReset
  <2>2. \E t : t.trouble = s.trouble /\ Outcomes(step) \subseteq {Yes(None, t)}
    <3>1. CASE step.op = "init"
      BY <2>1, <3>1 DEF Outcomes
    <3>2. CASE step.op = "off"
      BY <2>1, <3>2 DEF Outcomes
    <3>3. CASE step.op = "assert"
      BY <2>1, <3>3 DEF Outcomes
    <3>4. CASE step.op = "release"
      BY <2>1, <3>4 DEF Outcomes
    <3>5. CASE step.op = "delay"
      BY <3>5 DEF Outcomes
    <3> QED BY <1>1, <3>1, <3>2, <3>3, <3>4, <3>5
  <2> HIDE DEF a, r
  <2>3. PICK t : t.trouble = s.trouble /\ Outcomes(step) \subseteq {Yes(None, t)}
    BY <2>2
  <2>4. o = Yes(None, t)
    BY <2>3
  <2>5. o.ok /\ o.t = t
    BY <2>4 DEF Yes
  <2> QED BY <1>1, <2>3, <2>5
<1>2. CASE step.op = "jtag2swd"
  <2> DEFINE u == [s EXCEPT !.swd = s.port \/ @]
  <2>1. Typed(u) /\ u.trouble = s.trouble
    BY <1>0 DEF Typed, Fields
  <2>2. Outcomes(step) = ReadReg(u, "IDCODE")
    BY <1>2 DEF Outcomes, JTAG2SWD
  <2> HIDE DEF u
  <2> QED BY <1>2, <2>1, <2>2, ReadRegMarks DEF Readable, Marks
<1>3. CASE step.op \in {"abort", "power"}
  <2>1. \E reg \in {"ABORT", "CTRL_STAT"} : Outcomes(step) = WriteReg(s, reg, None)
    BY <1>3 DEF Outcomes
  <2>2. PICK reg \in {"ABORT", "CTRL_STAT"} : Outcomes(step) = WriteReg(s, reg, None)
    BY <2>1
  <2>3. Marks(s, o)
    BY <1>0, <2>2, WriteRegMarks
  <2> QED BY <1>3, <2>3 DEF Marks
<1>4. CASE step.op = "select"
  <2>1. Outcomes(step) = Select(s, 0)
    BY <1>4 DEF Outcomes
  <2> QED BY <1>0, <1>4, <2>1, SelectMarks DEF Marks
<1>5. CASE step.op \in {"write", "try twice", "try again"}
  <2>1. Outcomes(step) = WriteWord(s, step.reg, step.val)
    BY <1>5 DEF Outcomes
  <2> QED BY <1>0, <2>1, WriteWordMarks DEF Marks
<1>6. CASE step.op \in {"read", "wait"}
  <2>1. \E reg : Outcomes(step) = ReadWord(s, reg)
    BY <1>6 DEF Outcomes
  <2> QED BY <1>6, <2>1, ReadWordMarks
<1> QED BY <1>0, <1>1, <1>2, <1>3, <1>4, <1>5, <1>6 DEF Ops

LEMMA TrueWithoutTrouble ==
  ASSUME NEW t, Sound(t), ~t.trouble
  PROVE  True(t)
  BY DEF Sound, True

LEMMA StepMoves ==
  ASSUME Sound(s), NEW step \in StepSet,
         NEW o \in Outcomes(step), o.ok, ~o.t.trouble \/ step.op = "init"
  PROVE  /\ Moves(step, s, o.t)
         /\ step.op = "wait" /\ TRUE \in ShowsHalt(o.val) => Halted(s)
<1>0. Typed(s) /\ step.op \in Ops
  BY DEF StepSet, Sound
<1>1. step.op \notin {"init", "init_debug"} => True(s)
  BY TroubleStays, TrueWithoutTrouble
<1>2. \A t : o = Yes(None, t) => o.t = t
  BY DEF Yes
<1>3. CASE step.op \in {"init", "off"}
  <2>1. SameCore(s, SwdInit(s)) /\ SameCore(s, SwdOff(s))
    BY <1>0 DEF SameCore, Typed, Fields, SwdInit, SwdOff
  <2>2. o.t = SwdInit(s) \/ o.t = SwdOff(s)
    <3>1. o = Yes(None, SwdInit(s)) \/ o = Yes(None, SwdOff(s))
      BY <1>3 DEF Outcomes
    <3> QED BY <1>2, <3>1
  <2> QED BY <1>3, <2>1, <2>2 DEF Moves, Writing, SameCore
<1>4. CASE step.op \in {"init_debug", "jtag2swd", "abort", "power", "select"}
  <2>1. SameCore(s, o.t)
    <3>1. CASE step.op = "init_debug"
      BY <1>0, <3>1, InitDebugCore DEF Outcomes
    <3>2. CASE step.op = "jtag2swd"
      BY <1>0, <3>2, JTAG2SWDCore DEF Outcomes
    <3>3. CASE step.op = "abort"
      BY <1>0, <3>3, WriteRegCore DEF Outcomes
    <3>4. CASE step.op = "power"
      BY <1>0, <3>4, WriteRegCore DEF Outcomes
    <3>5. CASE step.op = "select"
      BY <1>0, <3>5, SelectCore DEF Outcomes
    <3> QED BY <1>4, <3>1, <3>2, <3>3, <3>4, <3>5
  <2> QED BY <1>4, <2>1 DEF Moves, Writing, SameCore
<1>5. CASE step.op \in {"read", "wait"}
  <2> DEFINE reg == IF step.op = "read" THEN step.reg ELSE DHCSR
  <2>1. o \in ReadWord(s, reg) /\ reg \in Registers
    BY <1>5 DEF Outcomes, Registers, StepSet, Accessing
  <2> HIDE DEF reg
  <2>2. True(s)
    BY <1>1, <1>5
  <2>3. SameCore(s, o.t) /\ (o.t.repeated \/ o.val = RegRead(s, reg))
    BY <2>1, <2>2, ReadWordExact
  <2>4. ~o.t.repeated
    BY <1>5, OutcomesKept DEF Kept, Sound
  <2>5. step.op = "wait" => o.val = RegRead(s, DHCSR)
    BY <2>3, <2>4 DEF reg
  <2>6. step.op = "wait" /\ TRUE \in ShowsHalt(o.val) => Halted(s)
    BY <2>5, ShowsTheHalt
  <2> QED BY <1>5, <2>3, <2>6 DEF Moves, Writing, SameCore
<1>6. CASE step.op = "delay"
  <2>1. ~s.resetting /\ o = Yes(None, s)
    BY <1>6 DEF Outcomes
  <2>2. o.t = s
    BY <1>2, <2>1
  <2> QED BY <1>6, <2>1, <2>2 DEF Moves, Writing, SameCore
<1>7. CASE step.op = "assert"
  <2> DEFINE u == [s EXCEPT !.held = TRUE]
  <2>1. o = Yes(None, IF s.wired THEN u ELSE s)
    BY <1>7 DEF Outcomes
  <2>2. u.held /\ u.debugen = s.debugen /\ u.vc = s.vc /\ u.resetting = s.resetting
        /\ u.wired = s.wired
    BY <1>0 DEF Typed, Fields
  <2> HIDE DEF u
  <2>3. o.t = IF s.wired THEN u ELSE s
    BY <1>2, <2>1
  <2> QED BY <1>7, <2>2, <2>3 DEF Moves, Writing, Quiet
<1>8. CASE step.op = "release"
  <2> DEFINE u == [AfterReset(s) EXCEPT !.held = FALSE]
  <2>1. o = Yes(None, IF s.held THEN u ELSE s)
    BY <1>8 DEF Outcomes
  <2>2. /\ u.debugen = s.debugen /\ u.vc = s.vc /\ u.wired = s.wired /\ ~u.resetting
        /\ IF s.vc /\ s.debugen THEN Caught(u) ELSE Going(u)
    BY <1>0 DEF Typed, Fields, AfterReset, Caught, Going, Halted
  <2> HIDE DEF u
  <2>3. o.t = IF s.held THEN u ELSE s
    BY <1>2, <2>1
  <2> QED BY <1>8, <2>2, <2>3 DEF Moves, Writing, Quiet
<1>9. CASE step.op \in Writing
  <2>1. o \in WriteWord(s, step.reg, step.val)
    BY <1>9 DEF Outcomes, Writing
  <2>2. True(s) /\ step.reg \in {DHCSR, DEMCR, AIRCR}
    BY <1>1, <1>9 DEF Writing, StepSet, Accessing
  <2>3. Takes(s, step.reg, step.val, o)
    BY <2>1, <2>2, RegistersDiffer, WriteWordExact DEF Registers
  <2>4. PICK t : /\ Typed(t) /\ SameCore(s, t)
                 /\ \E w \in RegWrite(t, step.reg, step.val) : SameCore(w, o.t)
    BY <2>3 DEF Takes
  <2>5. step.reg = DHCSR =>
          /\ Besides(s, o.t) /\ o.t.vc = s.vc /\ o.t.resetting = s.resetting
          /\ o.t.debugen = ("C_DEBUGEN" \in step.val)
          /\ ~ {"C_DEBUGEN", "C_HALT"} \subseteq step.val => Going(o.t)
    BY <2>4, WrittenCore DEF SameCore, Besides, Going, Halted
  <2>6. step.reg = DEMCR =>
          /\ Besides(s, o.t) /\ o.t.run = s.run /\ o.t.fresh = s.fresh
          /\ o.t.haltreq = s.haltreq /\ o.t.debugen = s.debugen
          /\ o.t.resetting = s.resetting /\ o.t.vc = ("VC_CORERESET" \in step.val)
    BY <2>4, WrittenCore DEF SameCore, Besides
  <2>7. step.reg = AIRCR =>
          Besides(s, o.t) /\ o.t.debugen = s.debugen /\ o.t.vc = s.vc /\ o.t.resetting
    BY <2>4, WrittenCore DEF SameCore, Besides
  <2> QED BY <1>9, <2>2, <2>5, <2>6, <2>7 DEF Moves, Writing, Quiet, Besides
<1> QED BY <1>0, <1>3, <1>4, <1>5, <1>6, <1>7, <1>8, <1>9 DEF Ops, Writing

-----------------------------------------------------------------------------
(* The progress of set_target_state                                         *)

(* What is known of the core t when j steps to a state are left, h being    *)
(* the variant and vc whether the vector catch was set when the call began. *)
HaltAt(t, j) ==
  ~t.resetting /\ (j <= 1 => t.debugen) /\ (j = 0 => Halted(t))

RunAt(h, t, j) ==
  /\ ~t.vc
  /\ h = "hw" => (j \in {3, 4} => t.held) /\ (j <= 2 => Going(t))
  /\ h # "hw" => (j = 2 => t.resetting \/ Going(t)) /\ (j <= 1 => Going(t))

ProgramAt(h, t, j) ==
  /\ j <= 7 => t.debugen
  /\ j = 0 => ~t.vc
  /\ h = "hw" =>
       /\ ~t.resetting /\ (j \in 1 .. 6 => t.vc)
       /\ (j \in {4, 5} => t.held) /\ (j <= 3 => Caught(t))
  /\ h # "hw" =>
       /\ (j # 3 => ~t.resetting) /\ (j \in 1 .. 5 => t.vc)
       /\ (j = 3 => t.resetting \/ Caught(t)) /\ (j <= 2 => Caught(t))

(* ResetWorks, of any variant and target.                                   *)
Works(h, t) == h = "hw" => t.wired

Known(h, t, st, j, vc) ==
  /\ st = "HALT" => HaltAt(t, j)
  /\ st = "DEBUG" => (j = 0 => t.debugen)
  /\ st = "NO_DEBUG" => (j = 0 => Off(t))
  /\ st = "RUN" => (j <= 1 => Off(t))
  /\ st = "RESET_RUN" /\ Works(h, t) /\ ~vc => RunAt(h, t, j)
  /\ st = "RESET_PROGRAM" /\ Works(h, t) => ProgramAt(h, t, j)

LEMMA KnownSame ==
  ASSUME NEW h, NEW t, NEW u, NEW st, NEW j, NEW vc, SameCore(t, u), Known(h, t, st, j, vc)
  PROVE  Known(h, u, st, j, vc)
  BY DEF SameCore, Known, HaltAt, RunAt, ProgramAt, Works, Off, Going, Caught, Halted

(* What the core does by itself meanwhile takes nothing away.               *)
LEMMA KnownStays ==
  ASSUME NEW h, NEW t, NEW st, NEW j \in Nat, NEW vc, Typed(t), Known(h, t, st, j, vc)
  PROVE  /\ CanHalt(t) => Known(h, HaltedByRequest(t), st, j, vc)
         /\ t.resetting => Known(h, AfterReset(t), st, j, vc)
<1>1. ASSUME CanHalt(t)
      PROVE  Known(h, HaltedByRequest(t), st, j, vc)
  <2> DEFINE u == HaltedByRequest(t)
  <2>1. /\ Halted(u) /\ u.debugen = t.debugen /\ u.haltreq = t.haltreq /\ u.vc = t.vc
        /\ u.resetting = t.resetting /\ u.held = t.held /\ u.fresh = t.fresh /\ u.wired = t.wired
    BY DEF HaltedByRequest, Halted, Typed, Fields
  <2>2. t.haltreq /\ t.debugen /\ ~Halted(t) /\ ~t.held /\ ~t.resetting
    BY <1>1 DEF CanHalt
  <2> HIDE DEF u
  <2>3. Known(h, u, st, j, vc)
    BY <2>1, <2>2 DEF Known, HaltAt, RunAt, ProgramAt, Works, Off, Going, Caught
  <2> QED BY <2>3 DEF u
<1>2. ASSUME t.resetting
      PROVE  Known(h, AfterReset(t), st, j, vc)
  <2> DEFINE u == AfterReset(t)
  <2>1. /\ u.debugen = t.debugen /\ u.vc = t.vc /\ u.held = t.held /\ u.wired = t.wired
        /\ ~u.resetting
        /\ t.vc /\ t.debugen => Caught(u)
        /\ ~(t.vc /\ t.debugen) => Going(u)
    BY DEF AfterReset, Halted, Typed, Fields, Caught, Going
  <2> HIDE DEF u
  <2>3. Known(h, u, st, j, vc)
    BY <1>2, <2>1 DEF Known, HaltAt, RunAt, ProgramAt, Works, Off, Going
  <2> QED BY <2>3 DEF u
<1> QED BY <1>1, <1>2

(* The steps of the plans, by what they do.                                 *)
LEMMA QuietMoves ==
  ASSUME NEW t, NEW u, NEW op \in Quiet, Moves(Step(op), t, u)
  PROVE  SameCore(t, u) /\ (op = "delay" => ~t.resetting)
  BY DEF Moves, Step

LEMMA OtherMoves ==
  ASSUME NEW t, NEW u
  PROVE  /\ Moves(Get(AIRCR), t, u) => SameCore(t, u)
         /\ Moves(Step("assert"), t, u) =>
              /\ t.wired => u.held
              /\ u.debugen = t.debugen /\ u.vc = t.vc /\ u.resetting = t.resetting
              /\ u.wired = t.wired
         /\ Moves(Step("release"), t, u) =>
              /\ u.debugen = t.debugen /\ u.vc = t.vc /\ u.wired = t.wired
              /\ ~t.resetting => ~u.resetting
              /\ t.held => IF t.vc /\ t.debugen THEN Caught(u) ELSE Going(u)
         /\ Moves(AskHalt, t, u) =>
              Besides(t, u) /\ u.vc = t.vc /\ u.resetting = t.resetting /\ u.debugen
         /\ Moves(Enable, t, u) \/ Moves(TryEnable, t, u) =>
              Besides(t, u) /\ u.vc = t.vc /\ u.resetting = t.resetting /\ u.debugen
         /\ Moves(Disable, t, u) =>
              Besides(t, u) /\ Off(u)
         /\ Moves(CatchReset, t, u) =>
              /\ Besides(t, u) /\ u.debugen = t.debugen /\ u.resetting = t.resetting /\ u.vc
         /\ Moves(Uncatch, t, u) =>
              /\ Besides(t, u) /\ u.run = t.run /\ u.fresh = t.fresh
              /\ u.debugen = t.debugen /\ u.resetting = t.resetting /\ ~u.vc
         /\ Moves(AskReset, t, u) =>
              Besides(t, u) /\ u.debugen = t.debugen /\ u.vc = t.vc /\ u.resetting
<1>1. Moves(Get(AIRCR), t, u) => SameCore(t, u)
  BY DEF Moves, Get, Quiet
<1>2. Moves(Step("assert"), t, u) =>
        /\ t.wired => u.held
        /\ u.debugen = t.debugen /\ u.vc = t.vc /\ u.resetting = t.resetting
        /\ u.wired = t.wired
  BY DEF Moves, Step
<1>3. Moves(Step("release"), t, u) =>
        /\ u.debugen = t.debugen /\ u.vc = t.vc /\ u.wired = t.wired
        /\ ~t.resetting => ~u.resetting
        /\ t.held => IF t.vc /\ t.debugen THEN Caught(u) ELSE Going(u)
  BY DEF Moves, Step
<1>4. Moves(AskHalt, t, u) =>
        Besides(t, u) /\ u.vc = t.vc /\ u.resetting = t.resetting /\ u.debugen
  BY DEF Moves, AskHalt, Put, Writing
<1>5. Moves(Enable, t, u) \/ Moves(TryEnable, t, u) =>
        Besides(t, u) /\ u.vc = t.vc /\ u.resetting = t.resetting /\ u.debugen
  BY DEF Moves, Enable, TryEnable, Put, Writing
<1>6. Moves(Disable, t, u) => Besides(t, u) /\ Off(u)
  BY DEF Moves, Disable, Put, Writing, Going, Off
<1>7. Moves(CatchReset, t, u) =>
        Besides(t, u) /\ u.debugen = t.debugen /\ u.resetting = t.resetting /\ u.vc
  BY RegistersDiffer DEF Moves, CatchReset, Put, Writing
<1>8. Moves(Uncatch, t, u) =>
        /\ Besides(t, u) /\ u.run = t.run /\ u.fresh = t.fresh
        /\ u.debugen = t.debugen /\ u.resetting = t.resetting /\ ~u.vc
  BY RegistersDiffer DEF Moves, Uncatch, Put, Writing
<1>9. Moves(AskReset, t, u) =>
        Besides(t, u) /\ u.debugen = t.debugen /\ u.vc = t.vc /\ u.resetting
  BY RegistersDiffer DEF Moves, AskReset, Put, Writing
<1> QED BY <1>1, <1>2, <1>3, <1>4, <1>5, <1>6, <1>7, <1>8, <1>9

(* One step of each plan.  A wait that ends has seen the core halted.       *)
Goes(step, t, u) == Moves(step, t, u) /\ (step.op = "wait" => Halted(t))

LEMMA WaitGoes ==
  ASSUME NEW t, NEW u, Goes(Step("wait"), t, u)
  PROVE  SameCore(t, u) /\ Halted(t)
  BY QuietMoves DEF Goes, Step, Quiet

LEMMA QuietGoes ==
  ASSUME NEW t, NEW u, NEW op \in Quiet, Goes(Step(op), t, u)
  PROVE  SameCore(t, u) /\ (op = "delay" => ~t.resetting)
  BY QuietMoves DEF Goes

LEMMA HaltAdvances ==
  ASSUME host \in Hosts, NEW t, NEW u, NEW j \in 1 .. 4, HaltAt(t, j),
         Goes(NextOf(Steps("HALT"), j), t, u)
  PROVE  HaltAt(u, j - 1)
<1> DEFINE step == NextOf(Steps("HALT"), j)
<1>1. /\ j = 4 => step = Step("init")
      /\ j = 3 => step = Step("init_debug")
      /\ j = 2 => step = AskHalt
      /\ j = 1 => step = Step("wait")
  BY HaltPlan
<1>2. Goes(step, t, u)
  OBVIOUS
<1> HIDE DEF step
<1>3. CASE j \in {3, 4}
  <2>1. SameCore(t, u)
    BY <1>1, <1>2, <1>3, QuietGoes DEF Quiet
  <2> QED BY <1>3, <2>1 DEF HaltAt, SameCore
<1>4. CASE j = 2
  <2>1. u.resetting = t.resetting /\ u.debugen
    BY <1>1, <1>2, <1>4, OtherMoves DEF Goes
  <2> QED BY <1>4, <2>1 DEF HaltAt
<1>5. CASE j = 1
  <2>1. SameCore(t, u) /\ Halted(t)
    BY <1>1, <1>2, <1>5, WaitGoes
  <2> QED BY <1>5, <2>1 DEF HaltAt, SameCore, Halted
<1> QED BY <1>3, <1>4, <1>5

LEMMA ShortAdvance ==
  ASSUME host \in Hosts, NEW t, NEW u
  PROVE  /\ Goes(NextOf(Steps("NO_DEBUG"), 1), t, u) => Off(u)
         /\ Goes(NextOf(Steps("RUN"), 2), t, u) => Off(u)
         /\ Goes(NextOf(Steps("RUN"), 1), t, u) /\ Off(t) => Off(u)
         /\ Goes(NextOf(Steps("DEBUG"), 1), t, u) => u.debugen
<1>1. /\ NextOf(Steps("NO_DEBUG"), 1) = Disable /\ NextOf(Steps("RUN"), 2) = Disable
      /\ NextOf(Steps("RUN"), 1) = Step("off")
  BY ShortPlans DEF NextOf
<1>2. NextOf(Steps("DEBUG"), 1) = Enable
  BY DebugPlan
<1>3. Goes(Step("off"), t, u) /\ Off(t) => Off(u)
  BY QuietGoes DEF Quiet, Off, SameCore, Halted
<1> QED BY <1>1, <1>2, <1>3, OtherMoves DEF Goes

LEMMA RunAdvancesHw ==
  ASSUME host = "hw", NEW t, NEW u, NEW j \in 1 .. 6, RunAt(host, t, j), t.wired,
         Goes(NextOf(Steps("RESET_RUN"), j), t, u)
  PROVE  RunAt(host, u, j - 1)
<1> DEFINE step == NextOf(Steps("RESET_RUN"), j)
<1>1. /\ j = 6 => step = Step("init")
      /\ j = 5 => step = Step("assert")
      /\ j \in {2, 4} => step = Step("delay")
      /\ j = 3 => step = Step("release")
      /\ j = 1 => step = Step("off")
  BY RunPlanHw
<1>2. Goes(step, t, u)
  OBVIOUS
<1> HIDE DEF step
<1>3. CASE j \in {1, 2, 4, 6}
  <2>1. SameCore(t, u)
    BY <1>1, <1>2, <1>3, QuietGoes DEF Quiet
  <2> QED BY <1>3, <2>1 DEF RunAt, SameCore, Going, Halted
<1>4. CASE j = 5
  <2>1. u.held /\ u.vc = t.vc
    BY <1>1, <1>2, <1>4, OtherMoves DEF Goes
  <2> QED BY <1>4, <2>1 DEF RunAt
<1>5. CASE j = 3
  <2>1. t.held /\ ~t.vc
    BY <1>5 DEF RunAt
  <2>2. u.vc = t.vc /\ Going(u)
    BY <1>1, <1>2, <1>5, <2>1, OtherMoves DEF Goes
  <2> QED BY <1>5, <2>1, <2>2 DEF RunAt
<1> QED BY <1>3, <1>4, <1>5

LEMMA RunAdvancesSw ==
  ASSUME host \in Hosts, host # "hw", NEW t, NEW u, NEW j \in 1 .. 7, RunAt(host, t, j),
         Goes(NextOf(Steps("RESET_RUN"), j), t, u)
  PROVE  RunAt(host, u, j - 1)
<1> DEFINE step == NextOf(Steps("RESET_RUN"), j)
<1>1. /\ j = 7 => step = Step("init")
      /\ j = 6 => step = AskHalt
      /\ j = 5 => step = Step("wait")
      /\ j = 4 => step = Get(AIRCR)
      /\ j = 3 => step = AskReset
      /\ j = 2 => step = Step("delay")
      /\ j = 1 => step = Step("off")
  BY RunPlanSw
<1>2. Goes(step, t, u)
  OBVIOUS
<1> HIDE DEF step
<1>3. CASE j \in {1, 2, 5, 7}
  <2>1. SameCore(t, u) /\ (j = 2 => ~t.resetting)
    BY <1>1, <1>2, <1>3, QuietGoes DEF Quiet
  <2> QED BY <1>3, <2>1 DEF RunAt, SameCore, Going, Halted
<1>4. CASE j = 4
  <2>1. SameCore(t, u)
    BY <1>1, <1>2, <1>4, OtherMoves DEF Goes
  <2> QED BY <1>4, <2>1 DEF RunAt, SameCore
<1>5. CASE j = 6
  <2>1. u.vc = t.vc
    BY <1>1, <1>2, <1>5, OtherMoves DEF Goes
  <2> QED BY <1>5, <2>1 DEF RunAt
<1>6. CASE j = 3
  <2>1. u.vc = t.vc /\ u.resetting
    BY <1>1, <1>2, <1>6, OtherMoves DEF Goes
  <2> QED BY <1>6, <2>1 DEF RunAt
<1> QED BY <1>3, <1>4, <1>5, <1>6

LEMMA ProgramAdvancesHw ==
  ASSUME host = "hw", NEW t, NEW u, NEW j \in 1 .. 10, ProgramAt(host, t, j), t.wired,
         Goes(NextOf(Steps("RESET_PROGRAM"), j), t, u)
  PROVE  ProgramAt(host, u, j - 1)
<1> DEFINE step == NextOf(Steps("RESET_PROGRAM"), j)
<1>1. /\ j = 10 => step = Step("init")
      /\ j = 9 => step = Step("init_debug")
      /\ j = 8 => step = TryEnable
      /\ j = 7 => step = CatchReset
      /\ j = 6 => step = Step("assert")
      /\ j \in {3, 5} => step = Step("delay")
      /\ j = 4 => step = Step("release")
      /\ j = 2 => step = Step("wait")
      /\ j = 1 => step = Uncatch
  BY ProgramPlanHw
<1>2. Goes(step, t, u)
  OBVIOUS
<1> HIDE DEF step
<1>3. CASE j \in {2, 3, 5, 9, 10}
  <2>1. SameCore(t, u)
    BY <1>1, <1>2, <1>3, QuietGoes DEF Quiet
  <2> QED BY <1>3, <2>1 DEF ProgramAt, SameCore, Caught, Halted
<1>4. CASE j = 8
  <2>1. u.debugen /\ u.resetting = t.resetting
    BY <1>1, <1>2, <1>4, OtherMoves DEF Goes
  <2> QED BY <1>4, <2>1 DEF ProgramAt
<1>5. CASE j = 7
  <2>1. u.debugen = t.debugen /\ u.resetting = t.resetting /\ u.vc
    BY <1>1, <1>2, <1>5, OtherMoves DEF Goes
  <2> QED BY <1>5, <2>1 DEF ProgramAt
<1>6. CASE j = 6
  <2>1. u.held /\ u.debugen = t.debugen /\ u.resetting = t.resetting /\ u.vc = t.vc
    BY <1>1, <1>2, <1>6, OtherMoves DEF Goes
  <2> QED BY <1>6, <2>1 DEF ProgramAt
<1>7. CASE j = 4
  <2>1. t.held /\ t.vc /\ t.debugen /\ ~t.resetting
    BY <1>7 DEF ProgramAt
  <2>2. Moves(Step("release"), t, u)
    BY <1>1, <1>2, <1>7 DEF Goes
  <2>3. u.debugen = t.debugen /\ u.vc = t.vc /\ ~u.resetting /\ Caught(u)
    BY <2>1, <2>2, OtherMoves
  <2> QED BY <1>7, <2>1, <2>3 DEF ProgramAt
<1>8. CASE j = 1
  <2>1. /\ u.run = t.run /\ u.fresh = t.fresh
        /\ u.debugen = t.debugen /\ u.resetting = t.resetting /\ ~u.vc
    BY <1>1, <1>2, <1>8, OtherMoves DEF Goes
  <2> QED BY <1>8, <2>1 DEF ProgramAt, Caught, Halted
<1> QED BY <1>3, <1>4, <1>5, <1>6, <1>7, <1>8

LEMMA ProgramAdvancesSw ==
  ASSUME host \in Hosts, host # "hw", NEW t, NEW u, NEW j \in 1 .. 10, ProgramAt(host, t, j),
         Goes(NextOf(Steps("RESET_PROGRAM"), j), t, u)
  PROVE  ProgramAt(host, u, j - 1)
<1> DEFINE step == NextOf(Steps("RESET_PROGRAM"), j)
<1>1. /\ j = 10 => step = Step("init")
      /\ j = 9 => step = Step("init_debug")
      /\ j = 8 => step = AskHalt
      /\ j \in {2, 7} => step = Step("wait")
      /\ j = 6 => step = CatchReset
      /\ j = 5 => step = Get(AIRCR)
      /\ j = 4 => step = AskReset
      /\ j = 3 => step = Step("delay")
      /\ j = 1 => step = Uncatch
  BY ProgramPlanSw
<1>2. Goes(step, t, u)
  OBVIOUS
<1> HIDE DEF step
<1>3. CASE j \in {2, 3, 7, 9, 10}
  <2>1. SameCore(t, u) /\ (j = 3 => ~t.resetting)
    BY <1>1, <1>2, <1>3, QuietGoes DEF Quiet
  <2> QED BY <1>3, <2>1 DEF ProgramAt, SameCore, Caught, Halted
<1>4. CASE j = 8
  <2>1. u.debugen /\ u.resetting = t.resetting
    BY <1>1, <1>2, <1>4, OtherMoves DEF Goes
  <2> QED BY <1>4, <2>1 DEF ProgramAt
<1>5. CASE j = 6
  <2>1. u.debugen = t.debugen /\ u.resetting = t.resetting /\ u.vc
    BY <1>1, <1>2, <1>5, OtherMoves DEF Goes
  <2> QED BY <1>5, <2>1 DEF ProgramAt
<1>6. CASE j = 5
  <2>1. SameCore(t, u)
    BY <1>1, <1>2, <1>6, OtherMoves DEF Goes
  <2> QED BY <1>6, <2>1 DEF ProgramAt, SameCore
<1>7. CASE j = 4
  <2>1. u.debugen = t.debugen /\ u.vc = t.vc /\ u.resetting
    BY <1>1, <1>2, <1>7, OtherMoves DEF Goes
  <2> QED BY <1>7, <2>1 DEF ProgramAt
<1>8. CASE j = 1
  <2>1. /\ u.run = t.run /\ u.fresh = t.fresh
        /\ u.debugen = t.debugen /\ u.resetting = t.resetting /\ ~u.vc
    BY <1>1, <1>2, <1>8, OtherMoves DEF Goes
  <2> QED BY <1>8, <2>1 DEF ProgramAt, Caught, Halted
<1> QED BY <1>3, <1>4, <1>5, <1>6, <1>7, <1>8

(* Each step of a state that succeeds leads on to what is known next.       *)
LEMMA Advance ==
  ASSUME host \in Hosts, NEW t, NEW u, NEW st \in States, NEW j \in 1 .. Len(Steps(st)), NEW vc,
         Known(host, t, st, j, vc), Goes(NextOf(Steps(st), j), t, u)
  PROVE  Known(host, u, st, j - 1, vc)
<1>1. u.wired = t.wired
  BY DEF Goes, Moves
<1>2. Works(host, u) => Works(host, t)
  BY <1>1 DEF Works
<1>3. CASE st = "HALT"
  <2>1. j \in 1 .. 4 /\ HaltAt(t, j)
    BY <1>3, HaltPlan DEF Known
  <2>2. HaltAt(u, j - 1)
    BY <1>3, <2>1, HaltAdvances
  <2> QED BY <1>3, <2>2 DEF Known
<1>4. CASE st = "DEBUG"
  <2>1. j - 1 = 0 => u.debugen
    BY <1>4, ShortAdvance
  <2> QED BY <1>4, <2>1 DEF Known
<1>5. CASE st = "NO_DEBUG"
  <2>1. j - 1 = 0 => Off(u)
    BY <1>5, ShortAdvance
  <2> QED BY <1>5, <2>1 DEF Known
<1>6. CASE st = "RUN"
  <2>1. Len(Steps("RUN")) = 2
    BY ShortPlans
  <2>2. j \in 1 .. 2
    BY <1>6, <2>1
  <2>3. j = 1 => Off(t)
    BY <1>6 DEF Known
  <2>4. Off(u)
    BY <1>6, <2>2, <2>3, ShortAdvance
  <2> QED BY <1>6, <2>4 DEF Known
<1>7. CASE st = "RESET_RUN"
  <2>1. SUFFICES ASSUME Works(host, u), ~vc
                 PROVE  RunAt(host, u, j - 1)
    BY <1>7 DEF Known
  <2>2. RunAt(host, t, j)
    BY <1>2, <1>7, <2>1 DEF Known
  <2>3. CASE host = "hw"
    <3>1. t.wired /\ j \in 1 .. 6
      BY <1>2, <1>7, <2>1, <2>3, RunPlanHw DEF Works
    <3> QED BY <1>7, <2>2, <2>3, <3>1, RunAdvancesHw
  <2>4. CASE host # "hw"
    <3>1. j \in 1 .. 7
      BY <1>7, <2>4, RunPlanSw
    <3> QED BY <1>7, <2>2, <2>4, <3>1, RunAdvancesSw
  <2> QED BY <2>3, <2>4
<1>8. CASE st = "RESET_PROGRAM"
  <2>1. SUFFICES ASSUME Works(host, u)
                 PROVE  ProgramAt(host, u, j - 1)
    BY <1>8 DEF Known
  <2>2. ProgramAt(host, t, j)
    BY <1>2, <1>8, <2>1 DEF Known
  <2>3. CASE host = "hw"
    <3>1. t.wired /\ j \in 1 .. 10
      BY <1>2, <1>8, <2>1, <2>3, ProgramPlanHw DEF Works
    <3> QED BY <1>8, <2>2, <2>3, <3>1, ProgramAdvancesHw
  <2>4. CASE host # "hw"
    <3>1. j \in 1 .. 10
      BY <1>8, <2>4, ProgramPlanSw
    <3> QED BY <1>8, <2>2, <2>4, <3>1, ProgramAdvancesSw
  <2> QED BY <2>3, <2>4
<1>9. CASE st = "RESET_HOLD"
  BY <1>9 DEF Known
<1> QED BY <1>3, <1>4, <1>5, <1>6, <1>7, <1>8, <1>9 DEF States

(* swd_init_debug, which begins a new account of failed transfers, is the   *)
(* second step of a state or none.                                          *)
LEMMA InitDebugSecond ==
  ASSUME host \in Hosts, NEW st \in States, NEW k \in 1 .. Len(Steps(st)),
         NextOf(Steps(st), k).op = "init_debug"
  PROVE  k = Len(Steps(st)) - 1 /\ NextOf(Steps(st), Len(Steps(st))) = Step("init")
<1> DEFINE p == Steps(st)
           Other(x) == x.op # "init_debug"
<1>1. /\ Other(Step("init")) /\ Other(Step("assert")) /\ Other(Step("wait"))
      /\ Other(Step("off")) /\ Other(Step("delay")) /\ Other(Step("release"))
      /\ Other(Step("jtag2swd")) /\ Other(Step("abort")) /\ Other(Step("select"))
      /\ Other(Step("power")) /\ Other(AskHalt) /\ Other(AskReset) /\ Other(TryEnable)
      /\ Other(Enable) /\ Other(Disable) /\ Other(CatchReset) /\ Other(Uncatch)
      /\ Other(Get(AIRCR))
  BY DEF Step, AskHalt, AskReset, TryEnable, Enable, Disable, CatchReset, Uncatch, Put, Get
<1>2. ~Other(NextOf(p, k))
  OBVIOUS
<1> HIDE DEF Other
<1>3. CASE st \in {"RESET_HOLD", "NO_DEBUG", "RUN"}
  <2>1. \E a, b : p = <<a, b>> /\ Other(a) /\ Other(b)
    BY <1>1, <1>3, ShortPlans
  <2>2. PICK a, b : p = <<a, b>> /\ Other(a) /\ Other(b)
    BY <2>1
  <2>3. k \in {1, 2} /\ Len(p) = 2
    BY <2>2
  <2> HIDE DEF p
  <2>4. Other(NextOf(p, k))
    BY <2>2, <2>3 DEF NextOf
  <2> QED BY <1>2, <2>4
<1>4. CASE st = "HALT"
  <2>1. /\ Len(p) = 4 /\ NextOf(p, 4) = Step("init") /\ NextOf(p, 2) = AskHalt
        /\ NextOf(p, 1) = Step("wait")
    BY <1>4, HaltPlan
  <2>2. k \in 1 .. 4
    BY <2>1
  <2> HIDE DEF p
  <2>3. k = 3
    BY <1>1, <1>2, <2>1, <2>2
  <2> QED BY <2>1, <2>3 DEF p
<1>5. CASE st = "DEBUG"
  <2>1. /\ Len(p) = 6
        /\ NextOf(p, 6) = Step("init") /\ NextOf(p, 5) = Step("jtag2swd")
        /\ NextOf(p, 4) = Step("abort") /\ NextOf(p, 3) = Step("select")
        /\ NextOf(p, 2) = Step("power") /\ NextOf(p, 1) = Enable
    BY <1>5, DebugPlan
  <2>2. k \in 1 .. 6
    BY <2>1
  <2> HIDE DEF p
  <2> QED BY <1>1, <1>2, <2>1, <2>2
<1>6. CASE st = "RESET_RUN" /\ host = "hw"
  <2>1. /\ Len(p) = 6
        /\ NextOf(p, 6) = Step("init") /\ NextOf(p, 5) = Step("assert")
        /\ NextOf(p, 4) = Step("delay") /\ NextOf(p, 3) = Step("release")
        /\ NextOf(p, 2) = Step("delay") /\ NextOf(p, 1) = Step("off")
    BY <1>6, RunPlanHw
  <2>2. k \in 1 .. 6
    BY <2>1
  <2> HIDE DEF p
  <2> QED BY <1>1, <1>2, <2>1, <2>2
<1>7. CASE st = "RESET_RUN" /\ host # "hw"
  <2>1. /\ Len(p) = 7
        /\ NextOf(p, 7) = Step("init") /\ NextOf(p, 6) = AskHalt /\ NextOf(p, 5) = Step("wait")
        /\ NextOf(p, 4) = Get(AIRCR) /\ NextOf(p, 3) = AskReset /\ NextOf(p, 2) = Step("delay")
        /\ NextOf(p, 1) = Step("off")
    BY <1>7, RunPlanSw
  <2>2. k \in 1 .. 7
    BY <2>1
  <2> HIDE DEF p
  <2> QED BY <1>1, <1>2, <2>1, <2>2
<1>8. CASE st = "RESET_PROGRAM" /\ host = "hw"
  <2>1. /\ Len(p) = 10
        /\ NextOf(p, 10) = Step("init") /\ NextOf(p, 8) = TryEnable
        /\ NextOf(p, 7) = CatchReset /\ NextOf(p, 6) = Step("assert") /\ NextOf(p, 5) = Step("delay")
        /\ NextOf(p, 4) = Step("release") /\ NextOf(p, 3) = Step("delay")
        /\ NextOf(p, 2) = Step("wait") /\ NextOf(p, 1) = Uncatch
    BY <1>8, ProgramPlanHw
  <2>2. k \in 1 .. 10
    BY <2>1
  <2> HIDE DEF p
  <2>3. k = 9
    BY <1>1, <1>2, <2>1, <2>2
  <2> QED BY <2>1, <2>3 DEF p
<1>9. CASE st = "RESET_PROGRAM" /\ host # "hw"
  <2>1. /\ Len(p) = 10
        /\ NextOf(p, 10) = Step("init") /\ NextOf(p, 8) = AskHalt
        /\ NextOf(p, 7) = Step("wait") /\ NextOf(p, 6) = CatchReset /\ NextOf(p, 5) = Get(AIRCR)
        /\ NextOf(p, 4) = AskReset /\ NextOf(p, 3) = Step("delay")
        /\ NextOf(p, 2) = Step("wait") /\ NextOf(p, 1) = Uncatch
    BY <1>9, ProgramPlanSw
  <2>2. k \in 1 .. 10
    BY <2>1
  <2> HIDE DEF p
  <2>3. k = 9
    BY <1>1, <1>2, <2>1, <2>2
  <2> QED BY <2>1, <2>3 DEF p
<1> QED BY <1>3, <1>4, <1>5, <1>6, <1>7, <1>8, <1>9 DEF States

(* No swd_init_debug is left to do.                                         *)
Clear(q) == \A i \in 1 .. Len(q) : q[i].op # "init_debug"

LEMMA RestIsClear ==
  ASSUME host \in Hosts, NEW st \in States, NEW j \in 1 .. Len(Steps(st)),
         NextOf(Steps(st), j).op # "init"
  PROVE  /\ Clear(Rest(Steps(st), j - 1))
         /\ NextOf(Steps(st), j).op # "init_debug" => Clear(Rest(Steps(st), j))
<1> DEFINE p == Steps(st)
<1>1. p \in Seq(StepSet) /\ Len(p) \in Nat
  BY StatesHaveSteps
<1>2. \A k \in 1 .. Len(p) :
        NextOf(p, k).op = "init_debug" => k = Len(p) - 1 /\ NextOf(p, Len(p)) = Step("init")
  BY InitDebugSecond
<1>3. j \in 1 .. Len(p) /\ NextOf(p, j).op # "init"
  OBVIOUS
<1> HIDE DEF p
<1>4. NextOf(p, Len(p)) = Step("init") => j # Len(p)
  BY <1>3 DEF Step
<1>5. ASSUME NEW l \in {j - 1, j}, NEW i \in 1 .. Len(Rest(p, l)), Rest(p, l)[i].op = "init_debug"
      PROVE  j = Len(p) - 1 /\ l = j /\ i = 1
  <2>1. Len(Rest(p, l)) = l
    BY <1>3, <1>1 DEF Rest
  <2>2. l \in Int /\ i \in 1 .. l /\ l - i + 1 \in 1 .. Len(p)
    BY <1>1, <1>3, <1>5, <2>1
  <2>3. Rest(p, l)[i] = NextOf(p, l - i + 1)
    <3>1. Rest(p, l)[i] = p[(Len(p) - l) + i]
      BY <2>2 DEF Rest
    <3>2. (Len(p) - (l - i + 1)) + 1 = (Len(p) - l) + i
      BY <1>1, <2>2
    <3> QED BY <3>1, <3>2 DEF NextOf
  <2>4. l - i + 1 = Len(p) - 1 /\ j # Len(p)
    BY <1>2, <1>4, <1>5, <2>2, <2>3
  <2> QED BY <1>1, <1>3, <2>2, <2>4
<1>6. Clear(Rest(p, j - 1))
  BY <1>3, <1>5 DEF Clear
<1>7. ASSUME NextOf(p, j).op # "init_debug"
      PROVE  Clear(Rest(p, j))
  <2>1. \A i \in 1 .. Len(Rest(p, j)) : Rest(p, j)[i].op = "init_debug" => i = 1
    BY <1>5
  <2>2. Rest(p, j)[1] = NextOf(p, j)
    BY <1>1, <1>3 DEF Rest, NextOf
  <2> QED BY <1>7, <2>1, <2>2 DEF Clear
<1> QED BY <1>6, <1>7 DEF p

-----------------------------------------------------------------------------
(* A call of set_target_state that has not failed has either met with a     *)
(* failed transfer, which it will not forget, or has its last steps left    *)
(* and the core as it should be by then.                                    *)
Lost(t, q) == t.trouble /\ Clear(q)

OnTheWay(p, h, t, st, q, vc) ==
  Len(q) <= Len(p) /\ q = Rest(p, Len(q)) /\ Known(h, t, st, Len(q), vc)

Reaching ==
  last.call \in States /\ last.ok # FALSE =>
    Lost(s, todo) \/ OnTheWay(Steps(last.call), host, s, last.call, todo, last.before.vc)

LEMMA OtherCallReaches ==
  ASSUME last'.call \notin States
  PROVE  Reaching'
  BY DEF Reaching

(* When a call begins nothing is known of the core but that no reset is     *)
(* under way.                                                               *)
LEMMA SetStateReaches ==
  ASSUME Inv, Ran, NEW st \in States, SetState(st)
  PROVE  Reaching'
<1> DEFINE p == Steps(st)
<1>1. /\ host \in Hosts /\ ~s.resetting
      /\ host' = host /\ s' = s /\ todo' = p
  BY DEF Inv, Ran, SetState
<1>2. last'.call = st /\ last'.before.vc = s.vc
  BY DEF SetState, Called, Idle
<1>3. p \in Seq(StepSet)
  BY <1>1, StatesHaveSteps
<1>4. /\ st = "HALT" => Len(p) = 4
      /\ st = "DEBUG" => Len(p) = 6
      /\ st = "NO_DEBUG" => Len(p) = 2
      /\ st = "RUN" => Len(p) = 2
      /\ st = "RESET_RUN" => Len(p) = IF host = "hw" THEN 6 ELSE 7
      /\ st = "RESET_PROGRAM" => Len(p) = 10
  <2>1. Len(Steps("NO_DEBUG")) = 2 /\ Len(Steps("RUN")) = 2
    BY <1>1, ShortPlans
  <2>2. Len(Steps("HALT")) = 4 /\ Len(Steps("DEBUG")) = 6
    BY <1>1, HaltPlan, DebugPlan
  <2>3. host = "hw" => Len(Steps("RESET_RUN")) = 6 /\ Len(Steps("RESET_PROGRAM")) = 10
    BY RunPlanHw, ProgramPlanHw
  <2>4. host # "hw" => Len(Steps("RESET_RUN")) = 7 /\ Len(Steps("RESET_PROGRAM")) = 10
    BY <1>1, RunPlanSw, ProgramPlanSw
  <2> QED BY <2>1, <2>2, <2>3, <2>4
<1>5. p' = p
  BY <1>1 DEF Steps
<1> HIDE DEF p
<1>6. Known(host, s, st, Len(p), s.vc)
  <2>1. st = "HALT" => HaltAt(s, Len(p))
    BY <1>1, <1>4 DEF HaltAt
  <2>2. st = "RESET_RUN" /\ ~s.vc => RunAt(host, s, Len(p))
    BY <1>4 DEF RunAt
  <2>3. st = "RESET_PROGRAM" => ProgramAt(host, s, Len(p))
    <3>1. \A t : ~t.resetting => ProgramAt(host, t, 10)
      BY DEF ProgramAt
    <3> QED BY <1>1, <1>4, <3>1
  <2>4. st = "DEBUG" => Len(p) # 0
    BY <1>4
  <2>5. st = "NO_DEBUG" => Len(p) # 0
    BY <1>4
  <2>6. st = "RUN" => ~(Len(p) <= 1)
    BY <1>4
  <2> QED BY <2>1, <2>2, <2>3, <2>4, <2>5, <2>6 DEF Known
<1>7. p = Rest(p, Len(p)) /\ Len(p) \in Nat
  BY <1>3, RestSteps
<1>8. OnTheWay(p, host, s, st, p, s.vc)
  BY <1>6, <1>7 DEF OnTheWay
<1>9. Steps(last.call)' = p
  BY <1>2, <1>5 DEF p
<1> QED BY <1>1, <1>2, <1>8, <1>9 DEF Reaching

LEMMA ClearJoined ==
  ASSUME NEW S, NEW p \in Seq(S), NEW q \in Seq(S), Clear(p), Clear(q)
  PROVE  Both(p, q) \in Seq(S) /\ Clear(Both(p, q))
<1> DEFINE W == Both(p, q)
<1>1. W \in Seq(S) /\ Len(W) = Len(p) + Len(q)
  BY JoinedAt
<1>2. \A x \in 1 .. Len(p) + Len(q) : W[x] = IF x <= Len(p) THEN p[x] ELSE q[x - Len(p)]
  BY JoinedAt
<1>3. Len(p) \in Nat /\ Len(q) \in Nat
  OBVIOUS
<1> HIDE DEF W
<1>4. ASSUME NEW x \in 1 .. Len(p) + Len(q)
      PROVE  W[x].op # "init_debug"
  <2>1. CASE x <= Len(p)
    BY <1>2, <1>3, <2>1 DEF Clear
  <2>2. CASE x > Len(p)
    <3>1. x - Len(p) \in 1 .. Len(q) /\ ~(x <= Len(p))
      BY <1>3, <2>2
    <3> QED BY <1>2, <3>1 DEF Clear
  <2> QED BY <1>3, <2>1, <2>2
<1>5. Clear(W)
  BY <1>1, <1>4 DEF Clear
<1> QED BY <1>1, <1>5 DEF W

LEMMA StateStepReaches ==
  ASSUME Inv, Reaching, StateStep
  PROVE  Reaching'
<1> DEFINE h == Head(todo)
           st == last.call
           p == Steps(last.call)
           j == Len(todo)
           vc == last.before.vc
<1>1. /\ todo \in Seq(StepSet) /\ todo # <<>> /\ Sound(s) /\ LastOK /\ host \in Hosts
      /\ st \in States /\ last.ok = None
  BY DEF Inv, UnderWay, StateStep
<1>2. /\ h \in StepSet /\ Tail(todo) \in Seq(StepSet) /\ j \in Nat \ {0}
      /\ Len(Tail(todo)) = j - 1 /\ h = todo[1]
      /\ \A i \in 1 .. j - 1 : Tail(todo)[i] = todo[i + 1]
  BY <1>1
<1>3. PICK o \in Outcomes(h) :
       /\ s' = o.t
       /\ IF ~o.ok /\ h.op = "try twice"
          THEN /\ todo' = PinReset \o <<[h EXCEPT !.op = "try again"]>> \o Tail(todo)
               /\ UNCHANGED last
          ELSE IF ~o.ok
          THEN todo' = <<>> /\ last' = [last EXCEPT !.ok = FALSE]
          ELSE /\ \/ todo' = Tail(todo) /\ (h.op = "wait" => TRUE \in ShowsHalt(o.val))
                  \/ todo' = todo /\ h.op = "wait" /\ FALSE \in ShowsHalt(o.val)
               /\ last' = [last EXCEPT !.ok = IF todo' = <<>> THEN TRUE ELSE None,
                                       !.agreed = @ \/ h.op = "init_debug"]
  BY DEF StateStep
<1>4. host' = host
  BY DEF StateStep
<1>5. last.ok # FALSE
  BY <1>1, SwdTargetAssumption
<1>6. Lost(s, todo) \/ OnTheWay(p, host, s, st, todo, vc)
  BY <1>1, <1>5 DEF Reaching
<1>7. p \in Seq(StepSet)
  BY <1>1, StatesHaveSteps
<1>8. ASSUME OnTheWay(p, host, s, st, todo, vc)
      PROVE  /\ j \in 1 .. Len(p) /\ todo = Rest(p, j) /\ Known(host, s, st, j, vc)
             /\ h = NextOf(p, j) /\ Tail(todo) = Rest(p, j - 1) /\ Len(Rest(p, j - 1)) = j - 1
             /\ h.op # "init" => Clear(Tail(todo))
             /\ h.op \notin {"init", "init_debug"} => Clear(todo)
  <2>1. j \in 1 .. Len(p) /\ todo = Rest(p, j) /\ Known(host, s, st, j, vc)
    BY <1>2, <1>7, <1>8 DEF OnTheWay
  <2>2. h = NextOf(p, j) /\ Tail(todo) = Rest(p, j - 1)
    BY <1>7, <2>1, RestSteps
  <2>3. /\ h.op # "init" => Clear(Tail(todo))
        /\ h.op \notin {"init", "init_debug"} => Clear(todo)
    BY <1>1, <2>1, <2>2, RestIsClear
  <2> QED BY <1>2, <2>1, <2>2, <2>3
<1>9. last'.call = last.call /\ last'.before = last.before
  <2>1. {"call", "before"} \subseteq DOMAIN last
    BY <1>1 DEF LastOK
  <2>2. \/ last' = last
        \/ \E k : last' = [last EXCEPT !.ok = k]
        \/ \E k, v : last' = [last EXCEPT !.ok = k, !.agreed = v]
    BY <1>3
  <2> QED BY <2>1, <2>2
<1>10. Steps(last.call)' = p
  BY <1>4, <1>9 DEF Steps
<1>11. SUFFICES ASSUME last'.ok # FALSE
                PROVE  Lost(o.t, todo') \/ OnTheWay(p, host, o.t, st, todo', vc)
  BY <1>3, <1>4, <1>9, <1>10 DEF Reaching
<1> HIDE DEF h, st, p, j, vc
<1>12. h.op # "init_debug" => (s.trouble => o.t.trouble) /\ (h.op = "try twice" /\ ~o.ok => o.t.trouble)
  BY <1>1, <1>2, TroubleStays
<1>13. Lost(s, todo) => h.op # "init_debug" /\ Clear(Tail(todo))
  BY <1>2 DEF Lost, Clear, j
<1>14. CASE ~o.ok /\ h.op = "try twice"
  <2>1. Clear(Tail(todo)) /\ o.t.trouble
    BY <1>6, <1>8, <1>12, <1>13, <1>14
  <2> DEFINE r == [h EXCEPT !.op = "try again"]
             A == Both(PinReset, <<r>>)
  <2>2. todo' = Both(A, Tail(todo))
    BY <1>3, <1>14 DEF Both
  <2>3. /\ PinReset \in Seq(StepSet) /\ Len(PinReset) = 4
        /\ \A i \in 1 .. 4 : PinReset[i].op # "init_debug"
    BY PartsAreSteps DEF PinReset, Step
  <2>4. r.op # "init_debug" /\ r \in StepSet
    BY <1>2, <1>14 DEF StepSet, Ops, Accessing
  <2> HIDE DEF r
  <2> DEFINE R == <<r>>
  <2>5. R \in Seq(StepSet) /\ Clear(R)
    BY <2>4 DEF Clear
  <2> HIDE DEF R
  <2>6. Clear(PinReset)
    BY <2>3 DEF Clear
  <2>7. Both(PinReset, R) \in Seq(StepSet) /\ Clear(Both(PinReset, R))
    BY <2>3, <2>5, <2>6, ClearJoined
  <2>8. Clear(Both(Both(PinReset, R), Tail(todo)))
    BY <1>2, <2>1, <2>7, ClearJoined
  <2> QED BY <2>1, <2>2, <2>8 DEF Lost, R
<1>15. CASE ~o.ok /\ h.op # "try twice"
  <2>1. last' = [last EXCEPT !.ok = FALSE]
    BY <1>3, <1>15
  <2>2. last'.ok = FALSE
    BY <1>1, <2>1 DEF LastOK
  <2> QED BY <1>11, <2>2
<1>16. CASE o.ok /\ todo' = Tail(todo) /\ (h.op = "wait" => TRUE \in ShowsHalt(o.val))
  <2>1. CASE Lost(s, todo)
    BY <1>12, <1>13, <1>16, <2>1 DEF Lost
  <2>2. CASE OnTheWay(p, host, s, st, todo, vc)
    <3>1. CASE o.t.trouble /\ h.op # "init"
      BY <1>8, <1>16, <2>2, <3>1 DEF Lost
    <3>2. CASE ~o.t.trouble \/ h.op = "init"
      <4>1. Goes(h, s, o.t)
        BY <1>1, <1>2, <1>16, <3>2, StepMoves DEF Goes
      <4>2. Known(host, o.t, st, j - 1, vc)
        BY <1>1, <1>8, <2>2, <4>1, Advance DEF p, st
      <4> QED BY <1>2, <1>8, <1>16, <2>2, <4>2 DEF OnTheWay
    <3> QED BY <3>1, <3>2
  <2> QED BY <1>6, <2>1, <2>2
<1>17. CASE o.ok /\ todo' = todo /\ h.op = "wait"
  <2>1. CASE Lost(s, todo)
    BY <1>12, <1>13, <1>17, <2>1 DEF Lost
  <2>2. CASE OnTheWay(p, host, s, st, todo, vc)
    <3>1. CASE o.t.trouble
      BY <1>8, <1>17, <2>2, <3>1 DEF Lost
    <3>2. CASE ~o.t.trouble
      <4>1. Moves(h, s, o.t)
        BY <1>1, <1>2, <1>17, <3>2, StepMoves
      <4>2. SameCore(s, o.t)
        BY <1>17, <4>1 DEF Moves, Quiet
      <4>3. Known(host, o.t, st, j, vc)
        BY <1>8, <2>2, <4>2, KnownSame
      <4> QED BY <1>17, <2>2, <4>3 DEF OnTheWay, j
    <3> QED BY <3>1, <3>2
  <2> QED BY <1>6, <2>1, <2>2
<1> QED BY <1>3, <1>14, <1>15, <1>16, <1>17

(* What the core does by itself.                                            *)
LEMMA OwnStepsReach ==
  ASSUME Inv, Reaching, CoreHalts \/ ResetHappens
  PROVE  Reaching'
<1>1. Typed(s) /\ todo \in Seq(StepSet)
  BY DEF Inv, Sound
<1>2. host' = host /\ todo' = todo /\ last' = last
  BY DEF CoreHalts, ResetHappens
<1>3. Steps(last.call)' = Steps(last.call)
  BY <1>2 DEF Steps
<1>4. s'.trouble = s.trouble
  BY <1>1 DEF CoreHalts, ResetHappens, HaltedByRequest, AfterReset, Typed, Fields
<1>5. ASSUME NEW st, NEW vc, Known(host, s, st, Len(todo), vc)
      PROVE  Known(host, s', st, Len(todo), vc)
  <2>1. Len(todo) \in Nat
    BY <1>1
  <2>2. \/ CanHalt(s) /\ s' = HaltedByRequest(s)
        \/ s.resetting /\ s' = AfterReset(s)
    BY DEF CoreHalts, ResetHappens
  <2> QED BY <1>1, <1>5, <2>1, <2>2, KnownStays
<1>6. SUFFICES ASSUME last.call \in States, last.ok # FALSE
               PROVE  \/ Lost(s', todo)
                      \/ OnTheWay(Steps(last.call), host, s', last.call, todo, last.before.vc)
  BY <1>2, <1>3 DEF Reaching
<1>7. CASE Lost(s, todo)
  BY <1>4, <1>7 DEF Lost
<1>8. CASE OnTheWay(Steps(last.call), host, s, last.call, todo, last.before.vc)
  BY <1>5, <1>8 DEF OnTheWay
<1> QED BY <1>6, <1>7, <1>8 DEF Reaching

LEMMA NextReaches == Inv /\ Ran /\ Reaching /\ [Next]_vars => Reaching'
<1> SUFFICES ASSUME Inv, Ran, Reaching, [Next]_vars PROVE Reaching'
  OBVIOUS
<1>1. Idle.call \notin States
  BY DEF Idle, States
<1>2. ASSUME NEW x \in Accesses, Read(x[1], x[2]) \/ Write(x[1], x[2])
      PROVE  Reaching'
  <2>1. last'.call \in {"read", "write"}
    BY <1>2 DEF Read, Write, Atomic, Called, Idle
  <2> QED BY <2>1, OtherCallReaches DEF States
<1>3. CASE ReadIDR \/ Debug \/ Exec
  <2>1. last'.call \in {"read_ap", "init_debug", "exec"}
    BY <1>3 DEF ReadIDR, Debug, Exec, Atomic, Called, Idle
  <2> QED BY <2>1, OtherCallReaches DEF States
<1>4. ASSUME NEW st \in States, SetState(st)
      PROVE  Reaching'
  BY <1>4, SetStateReaches
<1>5. CASE StateStep
  BY <1>5, StateStepReaches
<1>6. CASE CoreHalts \/ ResetHappens
  BY <1>6, OwnStepsReach
<1>7. CASE AlgorithmEnds \/ Replug
  <2>1. last' = Idle
    BY <1>7 DEF AlgorithmEnds, Replug
  <2> QED BY <1>1, <2>1, OtherCallReaches
<1>8. CASE Forget
  BY <1>1, <1>8, OtherCallReaches DEF Forget
<1>9. CASE UNCHANGED vars
  <2>1. Steps(last.call)' = Steps(last.call)
    BY <1>9 DEF vars, Steps
  <2> QED BY <1>9, <2>1 DEF vars, Reaching
<1> QED BY <1>2, <1>3, <1>4, <1>5, <1>6, <1>7, <1>8, <1>9 DEF Next, Call

(* A call of set_target_state that succeeds, no transfer having failed and  *)
(* no target been exchanged since swd_init_debug, leaves the core as it was *)
(* asked to be: for every state, in all three variants, whenever the core   *)
(* halts or its reset happens meanwhile, and whatever the calls before it   *)
(* have left, if the reset pin does what the hw variant needs it for        *)
(* (swd_host.c:912-1246, swd_iface.cpp:807-987).                            *)
THEOREM StatesAreReached == Spec => []StateReached
<1>1. Init => Reaching
  BY DEF Init, Reaching, Idle, States
<1>2. Inv /\ Reaching => StateReached
  <2>1. SUFFICES ASSUME Inv, Reaching, last.ok = TRUE, ~s.trouble, last.call \in States
                 PROVE  /\ last.call = "RESET_PROGRAM" /\ ResetWorks =>
                             s.debugen /\ ~s.vc /\ Halted(s) /\ s.fresh
                        /\ last.call = "HALT" => s.debugen /\ Halted(s)
                        /\ last.call = "DEBUG" => s.debugen
                        /\ last.call \in {"NO_DEBUG", "RUN"} => ~s.debugen /\ ~Halted(s)
                        /\ last.call = "RESET_RUN" /\ ResetWorks /\ ~last.before.vc => ~Halted(s)
    BY DEF StateReached, States
  <2>2. todo = <<>>
    BY <2>1, SwdTargetAssumption DEF Inv, UnderWay
  <2>3. Len(todo) = 0
    BY <2>2
  <2>4. OnTheWay(Steps(last.call), host, s, last.call, todo, last.before.vc)
    BY <2>1 DEF Reaching, Lost
  <2>5. Known(host, s, last.call, 0, last.before.vc)
    BY <2>3, <2>4 DEF OnTheWay
  <2>6. ResetWorks => Works(host, s)
    BY DEF ResetWorks, Works
  <2>7. \A h, t : ProgramAt(h, t, 0) /\ h \in {"hw", "sw", "cpp"} => t.debugen /\ ~t.vc /\ Caught(t)
    BY DEF ProgramAt
  <2>8. \A h, t : RunAt(h, t, 0) => Going(t)
    BY DEF RunAt
  <2>9. \A t : HaltAt(t, 0) => t.debugen /\ Halted(t)
    BY DEF HaltAt
  <2>10. host \in {"hw", "sw", "cpp"}
    BY <2>1, SwdHostAssumption DEF Inv
  <2> QED BY <2>5, <2>6, <2>7, <2>8, <2>9, <2>10 DEF Known, Off, Going, Caught
<1> QED BY <1>1, <1>2, Invariant, RanAlways, NextReaches, PTL DEF Spec

===============================================================================
