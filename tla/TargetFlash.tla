----------------------------- MODULE TargetFlash -----------------------------
(***************************************************************************)
(* target_flash.cpp: erasing and programming the target's flash with an    *)
(* algorithm that is loaded into its memory, and the target itself as far  *)
(* as these calls change it.                                               *)
(*                                                                         *)
(* The state is a record t.  A call is an operator that yields the set of  *)
(* its outcomes, each an error (None is ERR_NONE) and the state it leaves. *)
(* Any access to the target may fail; one that fails may have taken effect.*)
(***************************************************************************)
EXTENDS Naturals, Sequences, FiniteSets, FiniteSetsExt

CONSTANTS
  Addresses,  \* of the cells
  Bytes, FF,  \* what a cell may hold; FF when erased
  Garbled,    \* a cell programmed twice
  Sectors,    \* sector_info: start and size, in ascending order
  Regions,    \* flash_regions: start, end, whether default, algorithm
  Algorithms, \* of which each has a program buffer and may have a verify
  BufferSize, \* program_buffer_size, a function of Algorithms
  HasVerify,  \* the algorithms that have a verify function
  Reliable,   \* no access to the target fails
  None

(* err_t, as far as a target and an accessor report it.                     *)
Errors == {"internal", "reset", "init", "uninit", "algo_missing", "algo_dl",
           "erase_sector", "write", "verify"}

ASSUME TargetFlashAssumption ==
  /\ Addresses \subseteq Nat
  /\ FF \in Bytes /\ Garbled \notin Bytes
  /\ BufferSize \in [Algorithms -> Nat \ {0}] /\ HasVerify \subseteq Algorithms
  /\ None \notin Algorithms \cup Errors /\ Reliable \in BOOLEAN

(* func, algo and default are _last_func_type, _current_flash_algo and      *)
(* _default_flash_region.  Of the target: the algorithm in its memory,      *)
(* whether Init was called and UnInit not yet, and its flash.  strayed      *)
(* records a call of an algorithm that was not prepared for it.             *)
InitialTarget(mem) ==
  [func |-> "nop", algo |-> None, default |-> None,
   loaded |-> None, inited |-> FALSE, mem |-> mem, strayed |-> FALSE]

Done(t) == [err |-> None, t |-> t]
Failed(e, t) == [err |-> e, t |-> t]
Fail(e, ts) == IF Reliable THEN {} ELSE {Failed(e, t) : t \in ts}

(* Op is called in every state in which outs did not fail.                  *)
Then(outs, Op(_)) ==
  UNION {IF o.err = None THEN Op(o.t) ELSE {o} : o \in outs}

-----------------------------------------------------------------------------
(* The configuration.                                                       *)

Indices(seq, P(_)) == {i \in DOMAIN seq : P(seq[i])}

(* flash_erase_sector_size: the last sector that begins at or before a.     *)
SectorSize(a) ==
  LET below == Indices(Sectors, LAMBDA s : a >= s.start)
  IN  IF below = {} THEN 0 ELSE Sectors[Max(below)].size

(* get_flash_algo: the first region with a in it, else the default one.     *)
AlgoIn(a, default) ==
  LET inside == Indices(Regions, LAMBDA r : a >= r.start /\ a <= r.end)
  IN  IF inside # {} THEN Regions[Min(inside)].algo ELSE default

AlgoFor(t, a) == AlgoIn(a, t.default)

DefaultAlgo ==
  LET dflt == Indices(Regions, LAMBDA r : r.default)
  IN  IF dflt = {} THEN None ELSE Regions[Min(dflt)].algo

(* The algorithm the configuration gives to an address.                     *)
AlgoAt(a) == AlgoIn(a, DefaultAlgo)

(* The flash consists of whole sectors, each at a multiple of its size.     *)
ASSUME SectorAssumption ==
  /\ Sectors \in Seq([start : Nat, size : Nat \ {0}])
  /\ \A i \in DOMAIN Sectors : Sectors[i].start % Sectors[i].size = 0
  /\ \A i, j \in DOMAIN Sectors : i < j => Sectors[i].start < Sectors[j].start
  /\ \A i, j \in DOMAIN Sectors : j = i + 1 => Sectors[j].start % Sectors[i].size = 0

(* "addresses with different flash algo should be sector aligned"           *)
(* (flash_accessor.cpp:82): where the algorithm changes, at the border of a *)
(* region, a sector begins.  A border between addresses of one algorithm    *)
(* may be anywhere: the region that algo_extractor.cpp:232 makes ends one   *)
(* byte behind the last sector, its end being inclusive.                    *)
ASSUME RegionAssumption ==
  /\ Regions \in Seq([start : Nat, end : Nat, default : BOOLEAN,
                      algo : Algorithms \cup {None}])
  /\ \A i \in DOMAIN Regions : \A a \in {Regions[i].start, Regions[i].end + 1} :
       a > 0 /\ SectorSize(a) # 0 /\ AlgoAt(a - 1) # AlgoAt(a)
         => a % SectorSize(a) = 0

-----------------------------------------------------------------------------
(* What the target does (external: the flash algorithm and the debug port). *)

Prepared(t, a) == t.inited /\ t.loaded = AlgoFor(t, a)

(* Where the sector of a begins; outside the flash there are none.          *)
SectorOf(a) ==
  LET below == Indices(Sectors, LAMBDA s : a >= s.start)
      info == Sectors[Max(below)]
  IN  IF below = {} THEN a ELSE a - ((a - info.start) % info.size)

Erased(t, s) ==
  [t EXCEPT !.strayed = @ \/ ~Prepared(t, s),
            !.mem = [a \in Addresses |-> IF SectorOf(a) = SectorOf(s) THEN FF ELSE @[a]]]

(* A cell of flash takes one value after it was erased; FF changes nothing. *)
Cell(old, new) ==
  IF new = FF THEN old ELSE IF old \in {FF, new} THEN new ELSE Garbled

Programmed(t, a, buf) ==
  [t EXCEPT !.strayed = @ \/ ~Prepared(t, a),
            !.mem = [x \in Addresses |->
                       IF x >= a /\ x < a + Len(buf)
                       THEN Cell(@[x], buf[x - a + 1]) ELSE @[x]]]

Holds(t, a, buf) == \A i \in DOMAIN buf : t.mem[a + i - 1] = buf[i]

-----------------------------------------------------------------------------
(* The calls.                                                               *)

(* flash_func_start: Init and UnInit are called when the first function is  *)
(* begun and the last one ended, not when one follows another.              *)
FuncStart(t, f) ==
  LET begun == [t EXCEPT !.func = f] IN
  IF t.func # "nop" /\ f = "nop"
  THEN LET ended == [t EXCEPT !.inited = FALSE]
       IN  {Done([ended EXCEPT !.func = f])} \cup Fail("uninit", {t, ended})
  ELSE IF t.func = "nop" /\ f # "nop"
  THEN LET inited == [t EXCEPT !.inited = TRUE]
       IN  {Done([inited EXCEPT !.func = f])} \cup Fail("init", {t, inited})
  ELSE {Done(begun)}

(* flash_init: the target is reset and halted.                              *)
FlashInit(t) ==
  LET reset == [t EXCEPT !.func = "nop", !.algo = None, !.inited = FALSE]
  IN  {Done([reset EXCEPT !.default = IF DefaultAlgo = None THEN @ ELSE DefaultAlgo])}
      \cup Fail("reset", {reset})

(* flash_uninit: what becomes of the two resets is not looked at.           *)
FlashUninit(t) ==
  Then(FuncStart(t, "nop"), LAMBDA u : {Done([u EXCEPT !.inited = FALSE])})

(* Mutant of AlgoSet: an algorithm once loaded is kept.                     *)
AlgoSetOnce(t, a) ==
  IF t.algo # None THEN {Done(t)}
  ELSE Then(FuncStart(t, "nop"),
            LAMBDA u : {Done([u EXCEPT !.loaded = AlgoFor(t, a), !.algo = AlgoFor(t, a)])})

(* flash_algo_set                                                           *)
AlgoSet(t, a) ==
  LET algo == AlgoFor(t, a) IN
  IF algo = None THEN {Failed("algo_missing", t)}
  ELSE IF algo = t.algo THEN {Done(t)}
  ELSE Then(FuncStart(t, "nop"),
            LAMBDA u : {Done([u EXCEPT !.loaded = algo, !.algo = algo])}
                       \cup Fail("algo_dl", {u, [u EXCEPT !.loaded = None]}))

(* flash_erase_sector                                                       *)
EraseSector(t, s) ==
  IF t.algo = None THEN {Failed("internal", t)}
  ELSE IF s % SectorSize(s) # 0 THEN {Failed("erase_sector", t)}
  ELSE Then(FuncStart(t, "erase"),
            LAMBDA u : {Done(Erased(u, s))} \cup Fail("erase_sector", {u, Erased(u, s)}))

(* One pass of the loop of flash_program_page: the buffer is written, the   *)
(* page function run, and the result checked by the algorithm's verify      *)
(* function or read back.                                                   *)
Verify(t, a, buf) ==
  LET check(u) == (IF Holds(u, a, buf) THEN {Done(u)} ELSE {Failed("verify", u)})
                  \cup Fail("verify", {u})
  IN  IF t.algo \in HasVerify THEN Then(FuncStart(t, "verify"), check) ELSE check(t)

ProgramPiece(t, a, buf) ==
  Then({Done(Programmed(t, a, buf))} \cup Fail("write", {t, Programmed(t, a, buf)}),
       LAMBDA u : Verify(u, a, buf))

(* flash_program_page, in pieces of the algorithm's buffer.                 *)
ProgramPage(t, a, buf) ==
  IF t.algo = None THEN {Failed("algo_missing", t)} ELSE
  LET n == BufferSize[t.algo]
      pieces == (Len(buf) + n - 1) \div n
      after[k \in 0 .. pieces] ==
        IF k = 0 THEN FuncStart(t, "program")
        ELSE Then(after[k - 1],
                  LAMBDA u : ProgramPiece(u, a + (k - 1) * n,
                                          SubSeq(buf, (k - 1) * n + 1,
                                                 IF k * n < Len(buf) THEN k * n ELSE Len(buf))))
  IN  after[pieces]

=============================================================================
