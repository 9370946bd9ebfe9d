--------------------------- MODULE UsbSessionProofs ---------------------------
(***************************************************************************)
(* Proofs about UsbSession; before them, that the clock settings which     *)
(* SetClockDelay of DapCommand makes meet the clock asked for, for every   *)
(* clock and every processor.                                              *)
(***************************************************************************)
EXTENDS UsbSession, TLAPS

-----------------------------------------------------------------------------
(* The clock                                                                *)

LEMMA DivisionBounds ==
  ASSUME NEW n \in Nat, NEW d \in Nat \ {0}
  PROVE  /\ n \div d \in Nat
         /\ d * (n \div d) <= n
         /\ n < d * ((n \div d) + 1)
  OBVIOUS

LEMMA TimesMonotone ==
  ASSUME NEW a \in Nat, NEW b \in Nat, NEW d \in Nat, a <= b
  PROVE  d * a <= d * b
  OBVIOUS

LEMMA CeilingBounds ==
  ASSUME NEW n \in Nat, NEW d \in Nat \ {0}
  PROVE  /\ Ceiling(n, d) \in Nat
         /\ n <= d * Ceiling(n, d)
         /\ n > 0 => Ceiling(n, d) > 0
         /\ Ceiling(n, d) > 0 => d * (Ceiling(n, d) - 1) < n
<1> DEFINE q == (n + (d - 1)) \div d
<1>1. n + (d - 1) \in Nat
  OBVIOUS
<1>2. q \in Nat /\ d * q <= n + (d - 1) /\ n + (d - 1) < d * (q + 1)
  BY <1>1, DivisionBounds
<1>3. d * (q + 1) = d * q + d /\ d * q \in Nat
  BY <1>2
<1>4. d * (q - 1) = d * q - d
  BY <1>2
<1>5. q = 0 => d * q = 0
  BY <1>2
<1>6. Ceiling(n, d) = q
  BY DEF Ceiling
<1> HIDE DEF q
<1> QED
  BY <1>2, <1>3, <1>4, <1>5, <1>6

Settings == [packet_size : Int, fast_clock : BOOLEAN, clock_delay : Int]

LEMMA FastMeets ==
  ASSUME NEW clock \in Nat, clock >= MaxClock(FastCycles)
  PROVE  HalfClock < (clock + 1) * (PortCycles + FastCycles)
<1> DEFINE d == PortCycles + FastCycles
           q == HalfClock \div d
<1>1. d \in Nat \ {0} /\ HalfClock \in Nat
  BY ClockAssumption
<1>2. q \in Nat /\ HalfClock < d * (q + 1)
  BY <1>1, DivisionBounds
<1>3. q <= clock
  BY DEF MaxClock
<1> HIDE DEF q, d
<1>4. d * (q + 1) <= d * (clock + 1)
  BY <1>1, <1>2, <1>3, TimesMonotone
<1>5. d * (clock + 1) = (clock + 1) * d
  BY <1>1
<1>6. HalfClock < (clock + 1) * d
  BY <1>1, <1>2, <1>4, <1>5
<1> QED
  BY <1>6 DEF d

LEMMA SlowMeets ==
  ASSUME NEW clock \in Nat \ {0}
  PROVE  /\ SlowDelay(clock) \in Nat \ {0}
         /\ HalfClock <= clock * (PortCycles + SlowCycles * SlowDelay(clock))
         /\ SlowDelay(clock) > 1 =>
              clock * (PortCycles + SlowCycles * (SlowDelay(clock) - 1)) < HalfClock
<1> DEFINE cycles == Ceiling(HalfClock, clock)
           delay == SlowDelay(clock)
<1>1. HalfClock \in Nat /\ PortCycles \in Nat \ {0} /\ SlowCycles \in Nat \ {0}
  BY ClockAssumption
<1>2. /\ cycles \in Nat
      /\ HalfClock <= clock * cycles
      /\ cycles > 0 => clock * (cycles - 1) < HalfClock
  BY <1>1, CeilingBounds
<1>3. CASE cycles > PortCycles
  <2> DEFINE rest == cycles - PortCycles
  <2>1. rest \in Nat /\ rest > 0
    BY <1>1, <1>2, <1>3
  <2>2. delay = Ceiling(rest, SlowCycles)
    BY <1>3 DEF SlowDelay
  <2> HIDE DEF rest, delay, cycles
  <2>3. /\ delay \in Nat \ {0}
        /\ rest <= SlowCycles * delay
        /\ SlowCycles * (delay - 1) < rest
    BY <1>1, <2>1, <2>2, CeilingBounds
  <2>4. SlowCycles * delay \in Nat /\ SlowCycles * (delay - 1) \in Nat
    BY <1>1, <2>3
  <2>5. /\ cycles <= PortCycles + SlowCycles * delay
        /\ PortCycles + SlowCycles * (delay - 1) <= cycles - 1
    BY <1>1, <1>2, <2>1, <2>3, <2>4 DEF rest
  <2>6. clock * cycles <= clock * (PortCycles + SlowCycles * delay)
    BY <1>1, <1>2, <2>4, <2>5, TimesMonotone
  <2>7. clock * (PortCycles + SlowCycles * (delay - 1)) <= clock * (cycles - 1)
    BY <1>1, <1>2, <2>4, <2>5, TimesMonotone
  <2>8. /\ clock * cycles \in Nat /\ clock * (cycles - 1) \in Int
        /\ clock * (PortCycles + SlowCycles * delay) \in Nat
        /\ clock * (PortCycles + SlowCycles * (delay - 1)) \in Nat
    BY <1>1, <1>2, <2>4
  <2>9. cycles > 0
    BY <1>1, <1>2, <1>3
  <2>10. /\ delay \in Nat \ {0}
         /\ HalfClock <= clock * (PortCycles + SlowCycles * delay)
         /\ clock * (PortCycles + SlowCycles * (delay - 1)) < HalfClock
    BY <1>1, <1>2, <2>3, <2>6, <2>7, <2>8, <2>9
  <2> QED
    BY <2>10 DEF delay
<1>4. CASE ~(cycles > PortCycles)
  <2>1. delay = 1
    BY <1>4 DEF SlowDelay
  <2> HIDE DEF delay, cycles
  <2>2. cycles <= PortCycles + SlowCycles * 1
    BY <1>1, <1>2, <1>4
  <2>3. clock * cycles <= clock * (PortCycles + SlowCycles * 1)
    BY <1>1, <1>2, <2>2, TimesMonotone
  <2>4. clock * cycles \in Nat /\ clock * (PortCycles + SlowCycles * 1) \in Nat
    BY <1>1, <1>2
  <2>5. HalfClock <= clock * (PortCycles + SlowCycles * 1)
    BY <1>1, <1>2, <2>3, <2>4
  <2>6. delay \in Nat \ {0} /\ ~(delay > 1)
    BY <2>1
  <2>7. HalfClock <= clock * (PortCycles + SlowCycles * delay)
    BY <2>1, <2>5
  <2> QED
    BY <2>6, <2>7 DEF delay
<1> QED
  BY <1>3, <1>4

LEMMA SettingsChange ==
  ASSUME NEW d \in Settings, NEW b \in BOOLEAN, NEW n \in Int
  PROVE  LET e == [d EXCEPT !.fast_clock = b, !.clock_delay = n]
         IN  e \in Settings /\ e.fast_clock = b /\ e.clock_delay = n
<1> DEFINE e == [d EXCEPT !.fast_clock = b, !.clock_delay = n]
<1>1. e \in Settings
  BY DEF Settings
<1>2. e.fast_clock = b
  BY DEF Settings
<1>3. e.clock_delay = n
  BY DEF Settings
<1> QED
  BY <1>1, <1>2, <1>3

LEMMA ClockSet ==
  ASSUME NEW d \in Settings, NEW clock \in Nat \ {0}
  PROVE  SetClockDelay(d, clock) \in Settings /\ ClockMeets(SetClockDelay(d, clock), clock)
<1> DEFINE e == SetClockDelay(d, clock)
<1>1. CASE clock >= MaxClock(FastCycles)
  <2> DEFINE one == 1
  <2>1. e = [d EXCEPT !.fast_clock = TRUE, !.clock_delay = one] /\ one \in Int /\ one = 1
    BY <1>1 DEF SetClockDelay
  <2> HIDE DEF e, one
  <2>2. e \in Settings /\ e.fast_clock = TRUE /\ e.clock_delay = 1
    BY <2>1, SettingsChange
  <2>3. HalfClock < (clock + 1) * (PortCycles + FastCycles)
    BY <1>1, FastMeets
  <2>4. ClockMeets(e, clock)
    BY <2>2, <2>3 DEF ClockMeets
  <2> QED
    BY <2>2, <2>4 DEF e
<1>2. CASE ~(clock >= MaxClock(FastCycles))
  <2> DEFINE n == SlowDelay(clock)
  <2>1. e = [d EXCEPT !.fast_clock = FALSE, !.clock_delay = n]
    BY <1>2 DEF SetClockDelay
  <2>2. n \in Int /\ n >= 1
    BY SlowMeets
  <2>3. /\ HalfClock <= clock * (PortCycles + SlowCycles * n)
        /\ n > 1 => clock * (PortCycles + SlowCycles * (n - 1)) < HalfClock
    BY SlowMeets
  <2> HIDE DEF e, n
  <2>4. e \in Settings /\ e.fast_clock = FALSE /\ e.clock_delay = n
    BY <2>1, <2>2, SettingsChange
  <2>5. ClockMeets(e, clock)
    BY <2>2, <2>3, <2>4 DEF ClockMeets
  <2> QED
    BY <2>4, <2>5 DEF e
<1> QED
  BY <1>1, <1>2

-----------------------------------------------------------------------------
(* Sequences                                                                *)

LEMMA Concatenation ==
  ASSUME NEW S, NEW s \in Seq(S), NEW m \in Seq(S)
  PROVE  /\ s \o m \in Seq(S) /\ Len(s \o m) = Len(s) + Len(m)
         /\ \A i \in 1 .. Len(s) : (s \o m)[i] = s[i]
         /\ \A i \in Len(s) + 1 .. Len(s) + Len(m) : (s \o m)[i] = m[i - Len(s)]
OBVIOUS

LEMMA Dropped ==
  ASSUME NEW S, NEW s \in Seq(S), NEW k \in Nat, k <= Len(s)
  PROVE  LET r == SubSeq(s, k + 1, Len(s))
         IN  /\ r \in Seq(S) /\ Len(r) = Len(s) - k
             /\ \A i \in 1 .. Len(r) : r[i] = s[i + k]
OBVIOUS

-----------------------------------------------------------------------------
(* Types                                                                    *)

Directions == {"IN", "OUT"}
Orders == {"host", "net"}
Requests ==
  (UNION {Setups[k] : k \in Kinds}) \cup (UNION {Commands[k] : k \in Kinds}) \cup {None}

Heads == [command : Converted, seqnum : Seqnums, ep : {0, 1}, direction : Directions,
          length : Nat, request : Requests, status : {"OK", "EPIPE", "ENOMEM"},
          base : Orders, body : Orders]

Items == [what : {"header"}, h : Heads] \cup [what : {"data"}, n : Nat]

IsHeader(x) == x.what = "header"

LEMMA ItemForms ==
  ASSUME NEW x \in Items
  PROVE  /\ x.what \in {"header", "data"}
         /\ IsHeader(x) => x.h \in Heads
         /\ ~IsHeader(x) => x.what = "data" /\ x.n \in Nat
<1>1. CASE x \in [what : {"header"}, h : Heads]
  BY <1>1 DEF IsHeader
<1>2. CASE x \in [what : {"data"}, n : Nat]
  BY <1>2 DEF IsHeader
<1> QED
  BY <1>1, <1>2 DEF Items

LEMMA DataForm ==
  ASSUME NEW n \in Nat
  PROVE  DataItem(n) \in Items /\ DataItem(n).what = "data" /\ DataItem(n).n = n
BY DEF DataItem, Items

(* Packing changes the byte order of a header and nothing else of it.       *)
SameBut(h, g, order) ==
  /\ h.command = g.command /\ h.seqnum = g.seqnum /\ h.ep = g.ep
  /\ h.direction = g.direction /\ h.length = g.length /\ h.request = g.request
  /\ h.status = g.status /\ h.base = order /\ h.body = order

LEMMA PackToNetwork ==
  ASSUME NEW h \in Heads, h.base = "host", h.body = "host"
  PROVE  PackHeader(h, TRUE) \in Heads /\ SameBut(PackHeader(h, TRUE), h, "net")
<1>1. PackHeader(h, TRUE) = [h EXCEPT !.base = "net", !.body = "net"]
  BY DEF PackHeader, Flip, Heads
<1> QED
  BY <1>1 DEF Heads, SameBut, Orders

LEMMA PackFromNetwork ==
  ASSUME NEW h \in Heads, h.base = "net", h.body = "net"
  PROVE  PackHeader(h, FALSE) \in Heads /\ SameBut(PackHeader(h, FALSE), h, "host")
<1>1. PackHeader(h, FALSE) = [h EXCEPT !.base = "host", !.body = "host"]
  BY DEF PackHeader, Flip, Heads
<1> QED
  BY <1>1 DEF Heads, SameBut, Orders

LEMMA HeaderForm ==
  ASSUME NEW h \in Heads, h.base = "host", h.body = "host"
  PROVE  /\ HeaderItem(h) \in Items /\ IsHeader(HeaderItem(h))
         /\ SameBut(HeaderItem(h).h, h, "net")
<1>1. HeaderItem(h).what = "header" /\ HeaderItem(h).h = PackHeader(h, TRUE)
  BY DEF HeaderItem
<1>2. HeaderItem(h) \in [what : {"header"}, h : Heads]
  BY PackToNetwork DEF HeaderItem
<1> QED
  BY <1>1, <1>2, PackToNetwork DEF Items, IsHeader

-----------------------------------------------------------------------------
(* Framing                                                                  *)

(* The data that follows a header in its stream, from the header alone.     *)
Carries(h) ==
  IF \/ h.command = "CMD_SUBMIT" /\ h.direction = "OUT"
     \/ h.command = "RET_SUBMIT" /\ h.direction = "IN"
  THEN h.length ELSE 0

CutAt(s, i) ==
  IF IsHeader(s[i])
  THEN /\ s[i].h.base = "net" /\ s[i].h.body = "net"
       /\ Carries(s[i].h) > 0 => /\ i < Len(s) /\ ~IsHeader(s[i + 1])
                                 /\ s[i + 1].n = Carries(s[i].h)
       /\ Carries(s[i].h) = 0 => i = Len(s) \/ IsHeader(s[i + 1])
  ELSE i > 1 /\ IsHeader(s[i - 1])

Cut(s) == \A i \in 1 .. Len(s) : CutAt(s, i)

LEMMA CarriesNat ==
  ASSUME NEW h \in Heads
  PROVE  Carries(h) \in Nat
BY DEF Carries, Heads

LEMMA CarriesSame ==
  ASSUME NEW h, NEW g, NEW order, SameBut(h, g, order)
  PROVE  Carries(h) = Carries(g)
BY DEF Carries, SameBut

(* What a message is in a stream that it is appended to.                    *)
LEMMA Appended ==
  ASSUME NEW s \in Seq(Items), NEW h \in Heads, h.base = "host", h.body = "host"
  PROVE  LET r == s \o Message(h, Carries(h))
             l == Len(s)
         IN  /\ r \in Seq(Items)
             /\ Len(r) = IF Carries(h) > 0 THEN l + 2 ELSE l + 1
             /\ \A i \in 1 .. l : r[i] = s[i]
             /\ IsHeader(r[l + 1]) /\ SameBut(r[l + 1].h, h, "net")
             /\ Carries(h) > 0 => /\ ~IsHeader(r[l + 2]) /\ r[l + 2].n = Carries(h)
                                  /\ r[l + 2] = DataItem(Carries(h))
<1> DEFINE m == Message(h, Carries(h))
           x == HeaderItem(h)
           d == DataItem(Carries(h))
<1>1. x \in Items /\ IsHeader(x) /\ SameBut(x.h, h, "net")
  BY HeaderForm
<1>2. d \in Items /\ ~IsHeader(d) /\ d.n = Carries(h)
  BY CarriesNat, DataForm DEF IsHeader
<1>3. CASE Carries(h) > 0
  <2>1. m = <<x>> \o <<d>>
    BY <1>3 DEF Message
  <2> HIDE DEF m, x, d
  <2>2. m \in Seq(Items) /\ Len(m) = 2 /\ m[1] = x /\ m[2] = d
    BY <1>1, <1>2, <2>1
  <2>3. /\ s \o m \in Seq(Items) /\ Len(s \o m) = Len(s) + 2
        /\ \A i \in 1 .. Len(s) : (s \o m)[i] = s[i]
        /\ (s \o m)[Len(s) + 1] = x /\ (s \o m)[Len(s) + 2] = d
    <3> DEFINE l == Len(s)
    <3>1. l + 1 \in l + 1 .. l + 2 /\ l + 2 \in l + 1 .. l + 2 /\ (l + 1) - l = 1 /\ (l + 2) - l = 2
      OBVIOUS
    <3> QED
      BY <2>2, <3>1, Concatenation
  <2> QED
    BY <1>1, <1>2, <1>3, <2>3 DEF m, x, d
<1>4. CASE ~(Carries(h) > 0)
  <2>1. m = <<x>> \o <<>>
    BY <1>4 DEF Message
  <2> HIDE DEF m, x, d
  <2>2. m \in Seq(Items) /\ Len(m) = 1 /\ m[1] = x
    BY <1>1, <2>1
  <2>3. /\ s \o m \in Seq(Items) /\ Len(s \o m) = Len(s) + 1
        /\ \A i \in 1 .. Len(s) : (s \o m)[i] = s[i]
        /\ (s \o m)[Len(s) + 1] = x
    <3> DEFINE l == Len(s)
    <3>1. l + 1 \in l + 1 .. l + 1 /\ (l + 1) - l = 1
      OBVIOUS
    <3> QED
      <4>1. /\ s \o m \in Seq(Items) /\ Len(s \o m) = Len(s) + Len(m)
            /\ \A i \in 1 .. Len(s) : (s \o m)[i] = s[i]
            /\ \A i \in Len(s) + 1 .. Len(s) + Len(m) : (s \o m)[i] = m[i - Len(s)]
        BY <2>2, Concatenation
      <4>2. (s \o m)[l + 1] = m[(l + 1) - l]
        BY <2>2, <3>1, <4>1
      <4> QED
        BY <2>2, <3>1, <4>1, <4>2
  <2> QED
    BY <1>1, <1>4, <2>3 DEF m, x
<1> QED
  BY <1>3, <1>4

LEMMA CutAppended ==
  ASSUME NEW s \in Seq(Items), Cut(s),
         NEW h \in Heads, h.base = "host", h.body = "host"
  PROVE  Cut(s \o Message(h, Carries(h)))
<1> DEFINE r == s \o Message(h, Carries(h))
           l == Len(s)
<1>1. /\ r \in Seq(Items)
      /\ Len(r) = IF Carries(h) > 0 THEN l + 2 ELSE l + 1
      /\ \A i \in 1 .. l : r[i] = s[i]
      /\ IsHeader(r[l + 1]) /\ SameBut(r[l + 1].h, h, "net")
      /\ Carries(h) > 0 => ~IsHeader(r[l + 2]) /\ r[l + 2].n = Carries(h)
  BY Appended
<1>2. Carries(h) \in Nat /\ l \in Nat
  BY CarriesNat
<1> HIDE DEF r
<1>3. Carries(r[l + 1].h) = Carries(h) /\ r[l + 1].h.base = "net" /\ r[l + 1].h.body = "net"
  BY <1>1, CarriesSame DEF SameBut
<1>4. ASSUME NEW i \in 1 .. l
      PROVE  CutAt(r, i)
  <2>1. CutAt(s, i)
    BY <1>4 DEF Cut
  <2>2. r[i] = s[i] /\ (i < l => r[i + 1] = s[i + 1]) /\ (i > 1 => r[i - 1] = s[i - 1])
    BY <1>1, <1>2
  <2>3. i < Len(r)
    BY <1>1, <1>2
  <2>4. i = l => IsHeader(r[i + 1])
    BY <1>1
  <2>5. CASE IsHeader(s[i])
    BY <1>2, <2>1, <2>2, <2>3, <2>4, <2>5 DEF CutAt
  <2>6. CASE ~IsHeader(s[i])
    BY <1>2, <2>1, <2>2, <2>6 DEF CutAt
  <2> QED
    BY <2>5, <2>6
<1>5. CutAt(r, l + 1)
  BY <1>1, <1>2, <1>3 DEF CutAt
<1>6. Carries(h) > 0 => CutAt(r, l + 2)
  BY <1>1, <1>2 DEF CutAt
<1>7. ASSUME NEW i \in 1 .. Len(r)
      PROVE  CutAt(r, i)
  BY <1>1, <1>2, <1>4, <1>5, <1>6
<1> QED
  BY <1>7 DEF Cut, r

(* The first message of a stream and the stream without it.                 *)
MessageLength(s) == IF Carries(s[1].h) > 0 THEN 2 ELSE 1
Rest(s) == SubSeq(s, MessageLength(s) + 1, Len(s))

LEMMA FirstMessage ==
  ASSUME NEW s \in Seq(Items), Cut(s), s # <<>>
  PROVE  /\ IsHeader(s[1]) /\ s[1].h \in Heads /\ Head(s) = s[1]
         /\ s[1].h.base = "net" /\ s[1].h.body = "net"
         /\ MessageLength(s) <= Len(s)
         /\ Carries(s[1].h) > 0 => ~IsHeader(s[2]) /\ s[2].n = Carries(s[1].h)
         /\ Rest(s) \in Seq(Items)
         /\ Len(Rest(s)) = Len(s) - MessageLength(s)
         /\ \A i \in 1 .. Len(Rest(s)) : Rest(s)[i] = s[i + MessageLength(s)]
         /\ Cut(Rest(s))
<1> DEFINE k == MessageLength(s)
           r == Rest(s)
<1>1. Len(s) \in Nat \ {0} /\ 1 \in 1 .. Len(s) /\ \A i \in 1 .. Len(s) : s[i] \in Items
  OBVIOUS
<1>2. CutAt(s, 1)
  BY <1>1 DEF Cut
<1>3. IsHeader(s[1]) /\ s[1].h \in Heads /\ Head(s) = s[1]
  BY <1>1, <1>2, ItemForms DEF CutAt
<1>4. Carries(s[1].h) \in Nat
  BY <1>3, CarriesNat
<1>5. /\ s[1].h.base = "net" /\ s[1].h.body = "net"
      /\ Carries(s[1].h) > 0 => 1 < Len(s) /\ ~IsHeader(s[2]) /\ s[2].n = Carries(s[1].h)
      /\ Carries(s[1].h) = 0 => 1 = Len(s) \/ IsHeader(s[2])
  BY <1>2, <1>3 DEF CutAt
<1>6. k \in {1, 2} /\ k <= Len(s) /\ (k = 2 <=> Carries(s[1].h) > 0)
  BY <1>1, <1>4, <1>5 DEF MessageLength
<1>7. /\ r \in Seq(Items) /\ Len(r) = Len(s) - k
      /\ \A i \in 1 .. Len(r) : r[i] = s[i + k]
  <2> HIDE DEF k
  <2>1. r = SubSeq(s, k + 1, Len(s))
    BY DEF Rest, k
  <2> QED
    BY <1>1, <1>6, <2>1, Dropped
<1> HIDE DEF k, r
<1>8. ASSUME NEW i \in 1 .. Len(r)
      PROVE  CutAt(r, i)
  <2>1. i + k \in 1 .. Len(s) /\ CutAt(s, i + k)
    BY <1>1, <1>6, <1>7 DEF Cut
  <2>2. /\ r[i] = s[i + k]
        /\ i < Len(r) => r[i + 1] = s[(i + k) + 1]
        /\ i > 1 => r[i - 1] = s[(i + k) - 1]
    <3>1. /\ i + 1 - k + k = i + 1 /\ (i + 1) + k = (i + k) + 1 /\ (i - 1) + k = (i + k) - 1
          /\ i < Len(r) => i + 1 \in 1 .. Len(r)
          /\ i > 1 => i - 1 \in 1 .. Len(r)
      BY <1>1, <1>6, <1>7
    <3> QED
      BY <1>7, <3>1
  <2>3. CASE IsHeader(s[i + k])
    <3>1. i < Len(r) <=> i + k < Len(s)
      BY <1>1, <1>6, <1>7
    <3>2. i = Len(r) <=> i + k = Len(s)
      BY <1>1, <1>6, <1>7
    <3> QED
      BY <2>1, <2>2, <2>3, <3>1, <3>2, <1>1, <1>6, <1>7 DEF CutAt
  <2>4. CASE ~IsHeader(s[i + k])
    <3>1. IsHeader(s[(i + k) - 1])
      BY <2>1, <2>4 DEF CutAt
    <3>2. i # 1
      <4>1. SUFFICES ASSUME i = 1 PROVE FALSE
        OBVIOUS
      <4>2. CASE k = 1
        BY <1>1, <1>4, <1>5, <1>6, <1>7, <2>4, <4>1, <4>2
      <4>3. CASE k = 2
        <5>1. (i + k) - 1 = 2
          BY <4>1, <4>3
        <5> QED
          BY <1>5, <1>6, <3>1, <4>3, <5>1
      <4> QED
        BY <1>6, <4>2, <4>3
    <3> QED
      BY <2>2, <2>4, <3>1, <3>2 DEF CutAt
  <2> QED
    BY <2>3, <2>4
<1>9. Cut(r)
  BY <1>8 DEF Cut
<1> QED
  BY <1>3, <1>5, <1>6, <1>7, <1>9 DEF k, r

-----------------------------------------------------------------------------
(* The headers of a stream                                                  *)

HeadersOf(s) == {i \in 1 .. Len(s) : IsHeader(s[i])}
Nums(s) == {s[i].h.seqnum : i \in HeadersOf(s)}
Distinct(s) == \A i, j \in HeadersOf(s) : s[i].h.seqnum = s[j].h.seqnum => i = j

LEMMA HeadersAppended ==
  ASSUME NEW s \in Seq(Items), NEW h \in Heads, h.base = "host", h.body = "host"
  PROVE  LET r == s \o Message(h, Carries(h))
             l == Len(s)
         IN  /\ HeadersOf(r) = HeadersOf(s) \cup {l + 1} /\ l + 1 \notin HeadersOf(s)
             /\ \A i \in HeadersOf(s) : r[i] = s[i]
             /\ SameBut(r[l + 1].h, h, "net")
             /\ Nums(r) = Nums(s) \cup {h.seqnum}
             /\ Distinct(s) /\ h.seqnum \notin Nums(s) => Distinct(r)
<1> DEFINE r == s \o Message(h, Carries(h))
           l == Len(s)
<1>1. /\ r \in Seq(Items)
      /\ Len(r) = IF Carries(h) > 0 THEN l + 2 ELSE l + 1
      /\ \A i \in 1 .. l : r[i] = s[i]
      /\ IsHeader(r[l + 1]) /\ SameBut(r[l + 1].h, h, "net")
      /\ Carries(h) > 0 => ~IsHeader(r[l + 2])
  BY Appended
<1>2. l \in Nat
  OBVIOUS
<1> HIDE DEF r, l
<1>3. HeadersOf(r) = HeadersOf(s) \cup {l + 1} /\ l + 1 \notin HeadersOf(s)
  <2>1. ASSUME NEW i \in HeadersOf(r)
        PROVE  i \in HeadersOf(s) \cup {l + 1}
    <3>1. i \in 1 .. Len(r) /\ IsHeader(r[i])
      BY <2>1 DEF HeadersOf
    <3>2. i \in 1 .. l \/ i = l + 1 \/ (Carries(h) > 0 /\ i = l + 2)
      BY <1>1, <1>2, <3>1
    <3> QED
      BY <1>1, <3>1, <3>2 DEF HeadersOf, l
  <2>2. ASSUME NEW i \in HeadersOf(s) \cup {l + 1}
        PROVE  i \in HeadersOf(r)
    <3>1. CASE i \in HeadersOf(s)
      <4>1. i \in 1 .. l /\ IsHeader(s[i])
        BY <3>1 DEF HeadersOf, l
      <4>2. i \in 1 .. Len(r)
        BY <1>1, <1>2, <4>1
      <4> QED
        BY <1>1, <4>1, <4>2 DEF HeadersOf
    <3>2. CASE i = l + 1
      <4>1. i \in 1 .. Len(r)
        BY <1>1, <1>2, <3>2
      <4> QED
        BY <1>1, <3>2, <4>1 DEF HeadersOf
    <3> QED
      BY <2>2, <3>1, <3>2
  <2>3. l + 1 \notin HeadersOf(s)
    BY <1>2 DEF HeadersOf, l
  <2> QED
    BY <2>1, <2>2, <2>3
<1>4. \A i \in HeadersOf(s) : r[i] = s[i]
  BY <1>1 DEF HeadersOf, l
<1>5. r[l + 1].h.seqnum = h.seqnum
  BY <1>1 DEF SameBut
<1>6. Nums(r) = Nums(s) \cup {h.seqnum}
  BY <1>3, <1>4, <1>5 DEF Nums
<1>7. ASSUME Distinct(s), h.seqnum \notin Nums(s)
      PROVE  Distinct(r)
  <2>1. \A i \in HeadersOf(s) : r[i].h.seqnum # h.seqnum
    BY <1>4, <1>7 DEF Nums
  <2> QED
    BY <1>3, <1>4, <1>5, <1>7, <2>1 DEF Distinct
<1> QED
  BY <1>1, <1>3, <1>4, <1>6, <1>7 DEF r, l

LEMMA HeadersRest ==
  ASSUME NEW s \in Seq(Items), Cut(s), s # <<>>
  PROVE  LET r == Rest(s)
             k == MessageLength(s)
         IN  /\ 1 \in HeadersOf(s) /\ k \in {1, 2}
             /\ \A i \in HeadersOf(r) : i + k \in HeadersOf(s) /\ r[i] = s[i + k]
             /\ \A j \in HeadersOf(s) \ {1} : j - k \in HeadersOf(r) /\ r[j - k] = s[j]
             /\ Nums(s) = {s[1].h.seqnum} \cup Nums(r)
             /\ Distinct(s) => Distinct(r) /\ s[1].h.seqnum \notin Nums(r)
<1> DEFINE r == Rest(s)
           k == MessageLength(s)
<1>1. /\ IsHeader(s[1]) /\ k <= Len(s)
      /\ Carries(s[1].h) > 0 => ~IsHeader(s[2])
      /\ Len(r) = Len(s) - k
      /\ \A i \in 1 .. Len(r) : r[i] = s[i + k]
  BY FirstMessage
<1>2. Len(s) \in Nat \ {0}
  OBVIOUS
<1>3. k \in {1, 2} /\ (k = 2 => ~IsHeader(s[2]))
  BY <1>1 DEF MessageLength
<1> HIDE DEF r, k
<1>4. 1 \in HeadersOf(s)
  BY <1>1, <1>2 DEF HeadersOf
<1>5. \A i \in HeadersOf(r) : i + k \in HeadersOf(s) /\ r[i] = s[i + k] /\ i + k # 1
  BY <1>1, <1>2, <1>3 DEF HeadersOf
<1>6. ASSUME NEW j \in HeadersOf(s) \ {1}
      PROVE  j - k \in HeadersOf(r) /\ r[j - k] = s[j]
  <2>1. j \in 1 .. Len(s) /\ j > k
    <3>1. j \in 1 .. Len(s) /\ j # 1 /\ IsHeader(s[j])
      BY <1>6 DEF HeadersOf
    <3>2. k = 2 => j # 2
      BY <1>3, <3>1
    <3> QED
      BY <1>3, <3>1, <3>2
  <2>2. j - k \in 1 .. Len(r) /\ (j - k) + k = j
    BY <1>1, <1>2, <1>3, <2>1
  <2>3. r[j - k] = s[j]
    BY <1>1, <2>2
  <2> QED
    BY <1>6, <2>2, <2>3 DEF HeadersOf
<1>7. Nums(s) = {s[1].h.seqnum} \cup Nums(r)
  BY <1>4, <1>5, <1>6 DEF Nums
<1>8. ASSUME Distinct(s)
      PROVE  Distinct(r) /\ s[1].h.seqnum \notin Nums(r)
  <2>1. \A i \in HeadersOf(r) : s[1].h.seqnum # r[i].h.seqnum
    BY <1>4, <1>5, <1>8 DEF Distinct
  <2>2. ASSUME NEW i \in HeadersOf(r), NEW j \in HeadersOf(r), r[i].h.seqnum = r[j].h.seqnum
        PROVE  i = j
    <3>1. i + k = j + k
      BY <1>5, <1>8, <2>2 DEF Distinct
    <3>2. i \in Nat /\ j \in Nat
      BY DEF HeadersOf
    <3> QED
      BY <1>3, <3>1, <3>2
  <2> QED
    BY <2>1, <2>2 DEF Distinct, Nums
<1> QED
  BY <1>3, <1>4, <1>5, <1>6, <1>7, <1>8 DEF r, k

-----------------------------------------------------------------------------
(* The invariant                                                            *)

Urbs == [h : Heads, n : Nat]
Waiting == [direction : Directions, length : Nat, unlinks : Seqnums \cup {None}]

Typed ==
  /\ kind \in Kinds
  /\ response \in {None} \cup 1 .. PacketSize(kind)
  /\ up \in Seq(Items) /\ queue \in Seq(Urbs) /\ down \in Seq(Items)
  /\ DOMAIN outstanding \subseteq Seqnums
  /\ \A q \in DOMAIN outstanding : outstanding[q] \in Waiting

(* What the client may send, to a device of this kind.                      *)
Sendable(k, h) ==
  /\ h.command \in {"CMD_SUBMIT", "CMD_UNLINK"}
  /\ h.command = "CMD_UNLINK" => h.direction = "OUT" /\ h.length = 0
  /\ h.command = "CMD_SUBMIT" /\ h.direction = "OUT" => h.length <= UrbDataMax
  /\ h.command = "CMD_SUBMIT" /\ h.ep = 0 => /\ h.request \in Setups[k]
                                            /\ h.request.wLength = h.length
  /\ h.command = "CMD_SUBMIT" /\ h.ep = 1 =>
       IF h.direction = "OUT" THEN h.request \in Commands[k] ELSE h.length = PacketSize(k)

(* The client waits for the answer to a header that is on its way, in the   *)
(* direction and with the length the header gives.                          *)
Awaited(waits, h) ==
  /\ h.seqnum \in DOMAIN waits
  /\ waits[h.seqnum].direction = h.direction
  /\ waits[h.seqnum].length = h.length

(* The same of an answer, which may be shorter.                             *)
Accepted(waits, h) ==
  /\ h.command \in {"RET_SUBMIT", "RET_UNLINK"}
  /\ h.seqnum \in DOMAIN waits
  /\ waits[h.seqnum].direction = h.direction
  /\ Carries(h) <= waits[h.seqnum].length

UpGood == \A i \in HeadersOf(up) : Sendable(kind, up[i].h) /\ Awaited(outstanding, up[i].h)
UrbGood(k, waits, urb) ==
  /\ Sendable(k, urb.h) /\ Awaited(waits, urb.h)
  /\ urb.h.base = "host" /\ urb.h.body = "host" /\ urb.n = Carries(urb.h)
QueueGood == \A i \in 1 .. Len(queue) : UrbGood(kind, outstanding, queue[i])
DownGood == \A i \in HeadersOf(down) : Accepted(outstanding, down[i].h)

(* No number is twice on its way.                                           *)
QueueNums == {queue[i].h.seqnum : i \in 1 .. Len(queue)}
Apart ==
  /\ Distinct(up) /\ Distinct(down)
  /\ \A i, j \in 1 .. Len(queue) : queue[i].h.seqnum = queue[j].h.seqnum => i = j
  /\ Nums(up) \cap QueueNums = {} /\ Nums(up) \cap Nums(down) = {}
  /\ QueueNums \cap Nums(down) = {}

(* The URB that a request unlinks, if it is still waited for, is on its way *)
(* in front of the request.                                                 *)
UpOrder ==
  \A i, j \in HeadersOf(up) :
    up[i].h.seqnum = outstanding[up[j].h.seqnum].unlinks => i < j
QueueOrder ==
  \A j \in 1 .. Len(queue) :
    LET target == outstanding[queue[j].h.seqnum].unlinks
    IN  /\ target \notin Nums(up)
        /\ \A i \in 1 .. Len(queue) : queue[i].h.seqnum = target => i < j
DownOrder ==
  \A j \in HeadersOf(down) :
    LET target == outstanding[down[j].h.seqnum].unlinks
    IN  /\ target \notin Nums(up) /\ target \notin QueueNums
        /\ \A i \in HeadersOf(down) : down[i].h.seqnum = target => i < j
Ordered ==
  /\ UpOrder /\ QueueOrder /\ DownOrder
  /\ DOMAIN outstanding \subseteq Nums(up) \cup QueueNums \cup Nums(down)

IInv ==
  Typed /\ Cut(up) /\ Cut(down) /\ UpGood /\ QueueGood /\ DownGood /\ Apart /\ Ordered

LEMMA InvImpliesInStep ==
  ASSUME IInv
  PROVE  InStep
<1>1. /\ up \in Seq(Items) /\ down \in Seq(Items)
      /\ Cut(up) /\ Cut(down) /\ UpGood /\ QueueGood /\ DownGood
  BY DEF IInv, Typed
<1>2. ASSUME NEW i \in 1 .. Len(up), up[i].what # "data"
      PROVE  /\ i \in HeadersOf(up) /\ up[i].h \in Heads
             /\ Carries(up[i].h) = IF up[i].h.direction = "OUT" THEN up[i].h.length ELSE 0
  <2>1. up[i] \in Items
    BY <1>1
  <2>2. i \in HeadersOf(up) /\ up[i].h \in Heads
    BY <1>2, <2>1, ItemForms DEF HeadersOf, IsHeader
  <2>3. Sendable(kind, up[i].h) /\ up[i].h.direction \in Directions
    BY <1>1, <2>2 DEF UpGood, Heads
  <2>4. up[i].h.command \in {"CMD_SUBMIT", "CMD_UNLINK"}
    BY <2>3 DEF Sendable
  <2>5. CASE up[i].h.command = "CMD_SUBMIT"
    BY <2>2, <2>5 DEF Carries
  <2>6. CASE up[i].h.command = "CMD_UNLINK"
    BY <2>2, <2>3, <2>6 DEF Carries, Sendable
  <2> QED
    BY <2>4, <2>5, <2>6
<1>3. ASSUME NEW i \in 1 .. Len(down), down[i].what # "data"
      PROVE  /\ i \in HeadersOf(down) /\ down[i].h \in Heads
             /\ Carries(down[i].h) = Reads(down[i].h)
  <2>1. down[i] \in Items
    BY <1>1
  <2>2. i \in HeadersOf(down) /\ down[i].h \in Heads
    BY <1>3, <2>1, ItemForms DEF HeadersOf, IsHeader
  <2> QED
    BY <1>1, <2>2 DEF DownGood, Accepted, Carries, Reads, Heads, Directions
<1>4. ASSUME NEW s \in Seq(Items), NEW i \in 1 .. Len(s)
      PROVE  /\ s[i].what = "data" <=> ~IsHeader(s[i])
             /\ i > 1 => (s[i - 1].what = "header" <=> IsHeader(s[i - 1]))
             /\ i < Len(s) => /\ s[i + 1].what = "header" <=> IsHeader(s[i + 1])
                              /\ s[i + 1].what = "data" <=> ~IsHeader(s[i + 1])
  <2>1. /\ i > 1 => i - 1 \in 1 .. Len(s)
        /\ i < Len(s) => i + 1 \in 1 .. Len(s)
    OBVIOUS
  <2>2. \A j \in 1 .. Len(s) : s[j] \in Items
    OBVIOUS
  <2> QED
    BY <2>1, <2>2, ItemForms DEF IsHeader
<1>5. Framed(up, LAMBDA h : IF h.direction = "OUT" THEN h.length ELSE 0)
  <2> SUFFICES ASSUME NEW i \in 1 .. Len(up)
               PROVE  IF up[i].what = "data"
                      THEN i > 1 /\ up[i - 1].what = "header"
                      ELSE LET h == up[i].h
                               n == IF h.direction = "OUT" THEN h.length ELSE 0
                           IN  /\ h.base = "net" /\ h.body = "net"
                               /\ n > 0 => /\ i < Len(up) /\ up[i + 1].what = "data"
                                           /\ up[i + 1].n = n
                               /\ n = 0 => i = Len(up) \/ up[i + 1].what = "header"
    BY <1>1 DEF Framed
  <2>1. CutAt(up, i)
    BY <1>1 DEF Cut
  <2>2. i < Len(up) \/ i = Len(up)
    BY <1>1
  <2> QED
    BY <1>1, <1>2, <1>4, <2>1, <2>2 DEF CutAt
<1>8. Framed(down, Reads)
  <2> SUFFICES ASSUME NEW i \in 1 .. Len(down)
               PROVE  IF down[i].what = "data"
                      THEN i > 1 /\ down[i - 1].what = "header"
                      ELSE LET h == down[i].h
                               n == Reads(h)
                           IN  /\ h.base = "net" /\ h.body = "net"
                               /\ n > 0 => /\ i < Len(down) /\ down[i + 1].what = "data"
                                           /\ down[i + 1].n = n
                               /\ n = 0 => i = Len(down) \/ down[i + 1].what = "header"
    BY <1>1 DEF Framed
  <2>1. CutAt(down, i)
    BY <1>1 DEF Cut
  <2>2. i < Len(down) \/ i = Len(down)
    BY <1>1
  <2> QED
    BY <1>1, <1>3, <1>4, <2>1, <2>2 DEF CutAt
<1>6. \A i \in DOMAIN queue : queue[i].h.base = "host" /\ queue[i].h.body = "host"
  BY DEF IInv, Typed, QueueGood, UrbGood
<1>7. \A i \in DOMAIN down : down[i].what = "header" =>
        /\ down[i].h.seqnum \in DOMAIN outstanding
        /\ Reads(down[i].h) <= outstanding[down[i].h.seqnum].length
  BY <1>1, <1>3 DEF DownGood, Accepted
<1> QED
  BY <1>5, <1>6, <1>7, <1>8 DEF InStep

-----------------------------------------------------------------------------
(* The client's steps                                                       *)

LEMMA SendKeepsInv ==
  ASSUME IInv,
         NEW h \in Heads, h.base = "host", h.body = "host", Sendable(kind, h),
         NEW waits \in Waiting, waits.direction = h.direction, waits.length = h.length,
         waits.unlinks \in DOMAIN outstanding \cup {None},
         Send(h, Carries(h), waits)
  PROVE  IInv'
<1> DEFINE q == h.seqnum
           l == Len(up)
<1>1. /\ Typed /\ Cut(up) /\ Cut(down) /\ UpGood /\ QueueGood /\ DownGood /\ Apart
      /\ Ordered /\ up \in Seq(Items)
  BY DEF IInv, Typed
<1>2. /\ q \notin DOMAIN outstanding /\ outstanding' = [r \in DOMAIN outstanding \cup {q} |->
                           IF r = q THEN waits ELSE outstanding[r]]
      /\ up' = up \o Message(h, Carries(h))
      /\ UNCHANGED <<kind, response, queue, down>>
  BY DEF Send, Fresh
<1>3. /\ DOMAIN outstanding' = DOMAIN outstanding \cup {q} /\ outstanding'[q] = waits
      /\ \A r \in DOMAIN outstanding : outstanding'[r] = outstanding[r]
  BY <1>2
<1>4. /\ HeadersOf(up') = HeadersOf(up) \cup {l + 1}
      /\ \A i \in HeadersOf(up) : up'[i] = up[i]
      /\ SameBut(up'[l + 1].h, h, "net")
      /\ Nums(up') = Nums(up) \cup {q}
      /\ Distinct(up) /\ q \notin Nums(up) => Distinct(up')
  BY <1>1, <1>2, HeadersAppended
<1>5. up' \in Seq(Items) /\ Cut(up')
  BY <1>1, <1>2, Appended, CutAppended
<1>6. q \notin Nums(up) /\ q \notin QueueNums /\ q \notin Nums(down)
  BY <1>1, <1>2 DEF Nums, QueueNums, UpGood, QueueGood, UrbGood, DownGood, Awaited, Accepted
<1>7. Typed'
  BY <1>1, <1>2, <1>3, <1>5 DEF Typed, Heads
<1>8. UpGood'
  <2>1. \A i \in HeadersOf(up) : Sendable(kind', up'[i].h) /\ Awaited(outstanding', up'[i].h)
    BY <1>1, <1>2, <1>3, <1>4 DEF UpGood, Awaited
  <2>2. Sendable(kind', up'[l + 1].h)
    BY <1>2, <1>4 DEF Sendable, SameBut
  <2>3. Awaited(outstanding', up'[l + 1].h)
    BY <1>3, <1>4 DEF Awaited, SameBut
  <2> QED
    BY <1>4, <2>1, <2>2, <2>3 DEF UpGood
<1>9. QueueGood' /\ DownGood'
  BY <1>1, <1>2, <1>3 DEF QueueGood, UrbGood, DownGood, Awaited, Accepted
<1>10. Apart'
  <2>1. QueueNums' = QueueNums /\ Nums(down') = Nums(down) /\ (Distinct(down') <=> Distinct(down))
    BY <1>2 DEF QueueNums
  <2>2. Nums(up') \cap QueueNums' = {} /\ Nums(up') \cap Nums(down') = {}
    BY <1>1, <1>4, <1>6, <2>1 DEF Apart
  <2>3. Distinct(up') /\ Distinct(down') /\ QueueNums' \cap Nums(down') = {}
    BY <1>1, <1>4, <1>6, <2>1 DEF Apart
  <2>4. \A i, j \in 1 .. Len(queue') : queue'[i].h.seqnum = queue'[j].h.seqnum => i = j
    BY <1>1, <1>2 DEF Apart
  <2> QED
    BY <2>2, <2>3, <2>4 DEF Apart
<1>11. Cut(down)'
  BY <1>1, <1>2
<1>12. Ordered'
  <2>1. waits.unlinks # q /\ \A r \in DOMAIN outstanding : outstanding[r].unlinks # q
    BY <1>2, SessionAssumption DEF Send, Fresh, Heads
  <2>2. /\ \A i \in HeadersOf(up) : /\ up[i].h.seqnum \in DOMAIN outstanding
                                    /\ up[i].h.seqnum # q /\ i < l + 1
        /\ \A i \in 1 .. Len(queue) : queue[i].h.seqnum \in DOMAIN outstanding
        /\ \A i \in HeadersOf(down) : down[i].h.seqnum \in DOMAIN outstanding
    BY <1>1, <1>6 DEF UpGood, QueueGood, UrbGood, DownGood, Awaited, Accepted, Nums, HeadersOf
  <2>3. up'[l + 1].h.seqnum = q
    BY <1>4 DEF SameBut
  <2>4. UpOrder'
    <3> SUFFICES ASSUME NEW i \in HeadersOf(up'), NEW j \in HeadersOf(up'),
                        up'[i].h.seqnum = outstanding'[up'[j].h.seqnum].unlinks
                 PROVE  i < j
      BY DEF UpOrder
    <3>1. CASE j = l + 1
      BY <1>3, <1>4, <2>1, <2>2, <2>3, <3>1
    <3>2. CASE i = l + 1 /\ j # l + 1
      BY <1>3, <1>4, <2>1, <2>2, <2>3, <3>2
    <3>3. CASE i # l + 1 /\ j # l + 1
      BY <1>1, <1>3, <1>4, <2>2, <3>3 DEF Ordered, UpOrder
    <3> QED
      BY <3>1, <3>2, <3>3
  <2>5. QueueNums' = QueueNums /\ Nums(down') = Nums(down)
    BY <1>2 DEF QueueNums
  <2>6. QueueOrder'
    BY <1>1, <1>2, <1>3, <1>4, <2>1, <2>2 DEF Ordered, QueueOrder
  <2>7. DownOrder'
    BY <1>1, <1>2, <1>3, <1>4, <2>1, <2>2, <2>5 DEF Ordered, DownOrder
  <2> QED
    BY <1>1, <1>3, <1>4, <2>4, <2>5, <2>6, <2>7 DEF Ordered
<1> QED
  BY <1>5, <1>7, <1>8, <1>9, <1>10, <1>11, <1>12 DEF IInv

LEMMA HeaderTyped ==
  ASSUME NEW command \in Converted, NEW q \in Seqnums, NEW ep \in {0, 1},
         NEW direction \in Directions, NEW length \in Nat, NEW request \in Requests
  PROVE  LET h == Header(command, q, ep, direction, length, request)
         IN  /\ h \in Heads /\ h.base = "host" /\ h.body = "host"
             /\ h.command = command /\ h.seqnum = q /\ h.ep = ep
             /\ h.direction = direction /\ h.length = length /\ h.request = request
BY DEF Header, Heads, Orders

LEMMA SizeTyped ==
  ASSUME NEW k \in Kinds
  PROVE  PacketSize(k) \in Nat \ {0}
BY DEF PacketSize

LEMMA ControlReadKeepsInv ==
  ASSUME IInv, NEW q \in Seqnums, NEW s \in Setups[kind], ControlRead(s, q)
  PROVE  IInv'
<1> DEFINE h == Header("CMD_SUBMIT", q, 0, "IN", s.wLength, s)
           w == Waits("IN", s.wLength)
<1>1. kind \in Kinds /\ s \in Requests /\ s.wLength \in Nat
  BY SessionAssumption DEF IInv, Typed, Requests
<1>2. /\ h \in Heads /\ h.base = "host" /\ h.body = "host"
      /\ h.command = "CMD_SUBMIT" /\ h.seqnum = q /\ h.ep = 0
      /\ h.direction = "IN" /\ h.length = s.wLength /\ h.request = s
  BY <1>1, HeaderTyped DEF Converted, Directions
<1>3. w \in Waiting /\ w.direction = "IN" /\ w.length = s.wLength /\ w.unlinks = None
  BY <1>1 DEF Waits, Waiting, Directions
<1>4. Send(h, 0, w)
  BY DEF ControlRead
<1> HIDE DEF h, w
<1>5. Carries(h) = 0 /\ Sendable(kind, h)
  BY <1>2 DEF Carries, Sendable
<1> QED
  BY <1>2, <1>3, <1>4, <1>5, SendKeepsInv

LEMMA ControlWriteKeepsInv ==
  ASSUME IInv, NEW q \in Seqnums, NEW s \in Setups[kind], ControlWrite(s, q)
  PROVE  IInv'
<1> DEFINE h == Header("CMD_SUBMIT", q, 0, "OUT", s.wLength, s)
           w == Waits("OUT", s.wLength)
<1>1. /\ kind \in Kinds /\ s \in Requests /\ s.wLength \in Nat
      /\ s.wLength <= UrbDataMax
  BY SessionAssumption DEF IInv, Typed, Requests, ControlWrite
<1>2. /\ h \in Heads /\ h.base = "host" /\ h.body = "host"
      /\ h.command = "CMD_SUBMIT" /\ h.seqnum = q /\ h.ep = 0
      /\ h.direction = "OUT" /\ h.length = s.wLength /\ h.request = s
  BY <1>1, HeaderTyped DEF Converted, Directions
<1>3. w \in Waiting /\ w.direction = "OUT" /\ w.length = s.wLength /\ w.unlinks = None
  BY <1>1 DEF Waits, Waiting, Directions
<1>4. Send(h, s.wLength, w)
  BY DEF ControlWrite
<1> HIDE DEF h, w
<1>5. Carries(h) = s.wLength /\ Sendable(kind, h)
  BY <1>1, <1>2 DEF Carries, Sendable
<1> QED
  BY <1>2, <1>3, <1>4, <1>5, SendKeepsInv

LEMMA EndpointWriteKeepsInv ==
  ASSUME IInv, NEW q \in Seqnums, NEW c \in Commands[kind], EndpointWrite(c, q)
  PROVE  IInv'
<1> DEFINE h == Header("CMD_SUBMIT", q, 1, "OUT", c.length, c)
           w == Waits("OUT", c.length)
<1>1. kind \in Kinds /\ c \in Requests /\ UrbDataMax \in Nat /\ c.length \in 0 .. UrbDataMax
  BY SessionAssumption DEF IInv, Typed, Requests
<1>2. /\ h \in Heads /\ h.base = "host" /\ h.body = "host"
      /\ h.command = "CMD_SUBMIT" /\ h.seqnum = q /\ h.ep = 1
      /\ h.direction = "OUT" /\ h.length = c.length /\ h.request = c
  BY <1>1, HeaderTyped DEF Converted, Directions
<1>3. w \in Waiting /\ w.direction = "OUT" /\ w.length = c.length /\ w.unlinks = None
  BY <1>1 DEF Waits, Waiting, Directions
<1>4. Send(h, c.length, w)
  BY DEF EndpointWrite
<1> HIDE DEF h, w
<1>5. Carries(h) = c.length /\ Sendable(kind, h)
  BY <1>1, <1>2 DEF Carries, Sendable
<1> QED
  BY <1>2, <1>3, <1>4, <1>5, SendKeepsInv

LEMMA EndpointReadKeepsInv ==
  ASSUME IInv, NEW q \in Seqnums, EndpointRead(q)
  PROVE  IInv'
<1> DEFINE n == PacketSize(kind)
           h == Header("CMD_SUBMIT", q, 1, "IN", n, None)
           w == Waits("IN", n)
<1>1. n \in Nat /\ None \in Requests
  BY SizeTyped DEF IInv, Typed, Requests
<1>2. Send(h, 0, w)
  BY DEF EndpointRead
<1> HIDE DEF n
<1>3. /\ h \in Heads /\ h.base = "host" /\ h.body = "host"
      /\ h.command = "CMD_SUBMIT" /\ h.seqnum = q /\ h.ep = 1
      /\ h.direction = "IN" /\ h.length = n
  BY <1>1, HeaderTyped DEF Converted, Directions
<1>4. w \in Waiting /\ w.direction = "IN" /\ w.length = n /\ w.unlinks = None
  BY <1>1 DEF Waits, Waiting, Directions
<1> HIDE DEF h, w
<1>5. Carries(h) = 0 /\ Sendable(kind, h)
  BY <1>3 DEF Carries, Sendable, n
<1> QED
  BY <1>2, <1>3, <1>4, <1>5, SendKeepsInv

LEMMA UnlinkKeepsInv ==
  ASSUME IInv, NEW q \in Seqnums, NEW target \in Seqnums, Unlink(q, target)
  PROVE  IInv'
<1> DEFINE h == Header("CMD_UNLINK", q, 0, "OUT", 0, None)
           w == [direction |-> "OUT", length |-> 0, unlinks |-> target]
<1>1. /\ h \in Heads /\ h.base = "host" /\ h.body = "host"
      /\ h.command = "CMD_UNLINK" /\ h.seqnum = q
      /\ h.direction = "OUT" /\ h.length = 0
  BY HeaderTyped DEF Converted, Directions, Requests
<1>2. w \in Waiting /\ w.direction = "OUT" /\ w.length = 0 /\ w.unlinks = target
  BY DEF Waiting, Directions
<1>3. Send(h, 0, w) /\ target \in DOMAIN outstanding
  BY DEF Unlink
<1> HIDE DEF h, w
<1>4. Carries(h) = 0 /\ Sendable(kind, h)
  BY <1>1 DEF Carries, Sendable
<1> QED
  BY <1>1, <1>2, <1>3, <1>4, SendKeepsInv

LEMMA EmptyStream ==
  /\ <<>> \in Seq(Items) /\ <<>> \in Seq(Urbs)
  /\ Cut(<<>>) /\ HeadersOf(<<>>) = {} /\ Nums(<<>>) = {} /\ Distinct(<<>>)
BY DEF Cut, HeadersOf, Nums, Distinct

LEMMA ReceiveKeepsInv ==
  ASSUME IInv, Receive
  PROVE  IInv'
<1> DEFINE h == down[1].h
           k == MessageLength(down)
           r == Rest(down)
           left == DOMAIN outstanding \ {h.seqnum}
<1>1. /\ Typed /\ Cut(up) /\ Cut(down) /\ UpGood /\ QueueGood /\ DownGood /\ Apart
      /\ Ordered /\ up \in Seq(Items) /\ down \in Seq(Items) /\ down # <<>>
  BY DEF IInv, Typed, Receive
<1>2. /\ Head(down) = down[1] /\ IsHeader(down[1]) /\ h \in Heads
      /\ r \in Seq(Items) /\ Cut(r)
  BY <1>1, FirstMessage
<1>3. /\ 1 \in HeadersOf(down)
      /\ \A i \in HeadersOf(r) : i + k \in HeadersOf(down) /\ r[i] = down[i + k]
      /\ Nums(down) = {h.seqnum} \cup Nums(r)
      /\ Distinct(down) => Distinct(r) /\ h.seqnum \notin Nums(r)
  BY <1>1, HeadersRest
<1>4. Skip(h) = k
  <2>1. Accepted(outstanding, h)
    BY <1>1, <1>3 DEF DownGood
  <2>2. Carries(h) = Reads(h)
    BY <1>2, <2>1 DEF Accepted, Carries, Reads, Heads, Directions
  <2> QED
    BY <2>2 DEF Skip, MessageLength
<1>5. /\ down' = r
      /\ outstanding' = Restrict(outstanding, left)
      /\ UNCHANGED <<kind, response, up, queue>>
  <2>1. Head(down).h = h
    BY <1>2
  <2>2. 1 + k = k + 1
    BY DEF MessageLength
  <2> QED
    BY <1>4, <2>1, <2>2 DEF Receive, Rest
<1>6. DOMAIN outstanding' = left /\ \A q \in left : outstanding'[q] = outstanding[q]
  BY <1>5 DEF Restrict
<1>7. Nums(up) \subseteq left /\ QueueNums \subseteq left /\ Nums(r) \subseteq left
  <2>1. /\ Nums(up) \subseteq DOMAIN outstanding /\ QueueNums \subseteq DOMAIN outstanding
        /\ Nums(down) \subseteq DOMAIN outstanding
    BY <1>1 DEF Nums, QueueNums, UpGood, QueueGood, UrbGood, DownGood, Awaited, Accepted
  <2>2. h.seqnum \notin Nums(up) /\ h.seqnum \notin QueueNums /\ h.seqnum \notin Nums(r)
    BY <1>1, <1>3 DEF Apart
  <2> QED
    BY <1>3, <2>1, <2>2
<1> HIDE DEF h, k, r, left
<1>8. Typed'
  BY <1>1, <1>2, <1>5, <1>6 DEF Typed, left
<1>9. UpGood'
  <2>1. \A i \in HeadersOf(up) : up[i].h.seqnum \in left
    BY <1>7 DEF Nums
  <2> QED
    BY <1>1, <1>5, <1>6, <2>1 DEF UpGood, Awaited
<1>10. QueueGood'
  <2>1. \A i \in 1 .. Len(queue) : queue[i].h.seqnum \in left
    BY <1>7 DEF QueueNums
  <2> QED
    BY <1>1, <1>5, <1>6, <2>1 DEF QueueGood, UrbGood, Awaited
<1>11. DownGood'
  <2>1. \A i \in HeadersOf(r) : r[i].h.seqnum \in left /\ Accepted(outstanding, r[i].h)
    BY <1>1, <1>3, <1>7 DEF Nums, DownGood
  <2> QED
    BY <1>5, <1>6, <2>1 DEF DownGood, Accepted
<1>12. Apart'
  <2>1. QueueNums' = QueueNums
    BY <1>5 DEF QueueNums
  <2>2. /\ Distinct(up') /\ Distinct(down') /\ Nums(up') \cap QueueNums' = {}
        /\ Nums(up') \cap Nums(down') = {} /\ QueueNums' \cap Nums(down') = {}
    BY <1>1, <1>3, <1>5, <2>1 DEF Apart
  <2>3. \A i, j \in 1 .. Len(queue') : queue'[i].h.seqnum = queue'[j].h.seqnum => i = j
    BY <1>1, <1>5 DEF Apart
  <2> QED
    BY <2>2, <2>3 DEF Apart
<1>13. Cut(up') /\ Cut(down')
  BY <1>1, <1>2, <1>5
<1>14. Ordered'
  <2>1. QueueNums' = QueueNums /\ Nums(up') = Nums(up) /\ Nums(down') = Nums(r)
    BY <1>5 DEF QueueNums
  <2>2. /\ \A i \in HeadersOf(up) : up[i].h.seqnum \in left
        /\ \A i \in 1 .. Len(queue) : queue[i].h.seqnum \in left
        /\ \A i \in HeadersOf(r) : r[i].h.seqnum \in left
    BY <1>7 DEF Nums, QueueNums
  <2>3. UpOrder'
    BY <1>1, <1>5, <1>6, <2>2 DEF Ordered, UpOrder
  <2>4. QueueOrder'
    BY <1>1, <1>5, <1>6, <2>2 DEF Ordered, QueueOrder
  <2>5. DownOrder'
    <3> SUFFICES ASSUME NEW j \in HeadersOf(r)
                 PROVE  LET target == outstanding'[r[j].h.seqnum].unlinks
                        IN  /\ target \notin Nums(up) /\ target \notin QueueNums
                            /\ \A i \in HeadersOf(r) : r[i].h.seqnum = target => i < j
      BY <1>5, <2>1 DEF DownOrder
    <3>1. /\ j + k \in HeadersOf(down) /\ r[j] = down[j + k]
          /\ outstanding'[r[j].h.seqnum] = outstanding[down[j + k].h.seqnum]
      BY <1>3, <1>6, <2>2
    <3>2. \A i \in HeadersOf(r) : i \in Int /\ (i + k < j + k => i < j)
      BY DEF HeadersOf, MessageLength, k
    <3> QED
      BY <1>1, <1>3, <3>1, <3>2 DEF Ordered, DownOrder
  <2>6. DOMAIN outstanding' \subseteq Nums(up') \cup QueueNums' \cup Nums(down')
    BY <1>1, <1>3, <1>6, <2>1 DEF Ordered, left
  <2> QED
    BY <2>3, <2>4, <2>5, <2>6 DEF Ordered
<1> QED
  BY <1>8, <1>9, <1>10, <1>11, <1>12, <1>13, <1>14 DEF IInv

LEMMA LeaveKeepsInv ==
  ASSUME IInv, Leave
  PROVE  IInv'
<1>1. /\ up' = <<>> /\ queue' = <<>> /\ down' = <<>> /\ outstanding' = <<>>
      /\ UNCHANGED <<kind, response>>
  BY DEF Leave
<1>2. DOMAIN outstanding' = {} /\ Len(queue') = 0
  BY <1>1
<1>3. Typed'
  BY <1>1, <1>2, EmptyStream DEF IInv, Typed
<1>4. Cut(up') /\ Cut(down') /\ UpGood' /\ DownGood'
  BY <1>1, EmptyStream DEF UpGood, DownGood
<1>5. QueueGood' /\ QueueNums' = {}
  BY <1>2 DEF QueueGood, QueueNums
<1>6. Apart'
  BY <1>1, <1>2, <1>5, EmptyStream DEF Apart
<1>7. Ordered'
  BY <1>1, <1>2, <1>5, EmptyStream DEF Ordered, UpOrder, QueueOrder, DownOrder
<1> QED
  BY <1>3, <1>4, <1>5, <1>6, <1>7 DEF IInv

-----------------------------------------------------------------------------
(* The RX thread                                                            *)

(* It takes a whole message and puts it into the queue as it was sent.      *)
LEMMA RxTakesMessage ==
  ASSUME IInv, RxThread
  PROVE  \E urb \in Urbs :
           /\ SameBut(urb.h, up[1].h, "host") /\ urb.n = Carries(urb.h)
           /\ queue' = Append(queue, urb) /\ up' = Rest(up)
           /\ UNCHANGED <<kind, response, down, outstanding>>
<1> DEFINE g == up[1].h
           h == PackHeader(g, FALSE)
           n == IF h.direction # "OUT" THEN 0
                ELSE IF h.length > UrbDataMax THEN UrbDataMax ELSE h.length
           left == IF n > 0 THEN up[2].n - n ELSE 0
           rest == SubSeq(up, IF n > 0 THEN 3 ELSE 2, Len(up))
           urb == [h |-> h, n |-> n]
<1>1. up \in Seq(Items) /\ Cut(up) /\ up # <<>> /\ UpGood /\ UrbDataMax \in Nat
  BY SessionAssumption DEF IInv, Typed, RxThread
<1>2. /\ Head(up) = up[1] /\ g \in Heads /\ g.base = "net" /\ g.body = "net"
      /\ Carries(g) > 0 => up[2].n = Carries(g)
      /\ 1 \in HeadersOf(up)
  BY <1>1, FirstMessage, HeadersRest
<1>3. h \in Heads /\ SameBut(h, g, "host") /\ Carries(h) = Carries(g)
  BY <1>2, PackFromNetwork, CarriesSame
<1>4. /\ queue' = Append(queue, urb)
      /\ up' = IF left > 0 THEN <<DataItem(left)>> \o rest ELSE rest
      /\ UNCHANGED <<kind, response, down, outstanding>>
  BY <1>2 DEF RxThread, Push
<1> HIDE DEF g, h
<1>5. n = Carries(g)
  <2>1. Sendable(kind, g)
    BY <1>1, <1>2 DEF UpGood, g
  <2>2. /\ h.length = g.length /\ h.direction = g.direction
        /\ g.length \in Nat /\ g.direction \in Directions
    BY <1>2, <1>3 DEF SameBut, Heads
  <2>3. g.command \in {"CMD_SUBMIT", "CMD_UNLINK"}
    BY <2>1 DEF Sendable
  <2>4. CASE g.command = "CMD_SUBMIT"
    BY <1>1, <2>1, <2>2, <2>4 DEF Carries, Sendable, Directions
  <2>5. CASE g.command = "CMD_UNLINK"
    BY <1>1, <2>1, <2>2, <2>5 DEF Carries, Sendable, Directions
  <2> QED
    BY <2>3, <2>4, <2>5
<1>6. Carries(g) \in Nat
  BY <1>2, CarriesNat
<1> HIDE DEF n
<1>7. ~(left > 0)
  BY <1>2, <1>5, <1>6
<1>8. rest = Rest(up)
  BY <1>5, <1>6 DEF Rest, MessageLength, g
<1>9. urb \in Urbs /\ urb.h = h /\ urb.n = n
  BY <1>3, <1>5, <1>6 DEF Urbs
<1> HIDE DEF left, rest, urb
<1>10. up' = Rest(up)
  BY <1>4, <1>7, <1>8
<1>11. SameBut(urb.h, up[1].h, "host") /\ urb.n = Carries(urb.h)
  BY <1>3, <1>5, <1>9 DEF g
<1> QED
  BY <1>4, <1>9, <1>10, <1>11

LEMMA RxThreadKeepsInv ==
  ASSUME IInv, RxThread
  PROVE  IInv'
<1> DEFINE g == up[1].h
           k == MessageLength(up)
           r == Rest(up)
           l == Len(queue)
<1>1. /\ Typed /\ Cut(up) /\ Cut(down) /\ UpGood /\ QueueGood /\ DownGood /\ Apart
      /\ Ordered /\ up \in Seq(Items) /\ up # <<>> /\ queue \in Seq(Urbs)
  BY DEF IInv, Typed, RxThread
<1>2. PICK urb \in Urbs :
        /\ SameBut(urb.h, g, "host") /\ urb.n = Carries(urb.h)
        /\ queue' = Append(queue, urb) /\ up' = r
        /\ UNCHANGED <<kind, response, down, outstanding>>
  BY RxTakesMessage
<1>3. r \in Seq(Items) /\ Cut(r)
  BY <1>1, FirstMessage
<1>4. /\ 1 \in HeadersOf(up)
      /\ \A i \in HeadersOf(r) : i + k \in HeadersOf(up) /\ r[i] = up[i + k]
      /\ Nums(up) = {g.seqnum} \cup Nums(r)
      /\ Distinct(up) => Distinct(r) /\ g.seqnum \notin Nums(r)
  BY <1>1, HeadersRest
<1>5. Sendable(kind, g) /\ Awaited(outstanding, g)
  BY <1>1, <1>4 DEF UpGood
<1> HIDE DEF g, k, r, l
<1>6. UrbGood(kind, outstanding, urb) /\ urb.h.seqnum = g.seqnum
  BY <1>2, <1>5 DEF UrbGood, SameBut, Sendable, Awaited
<1>7. /\ queue' \in Seq(Urbs) /\ Len(queue') = l + 1 /\ l \in Nat
      /\ \A i \in 1 .. l : queue'[i] = queue[i]
      /\ queue'[l + 1] = urb
  BY <1>1, <1>2 DEF l
<1>8. \A i \in 1 .. Len(queue') : i \in 1 .. l \/ i = l + 1
  BY <1>7
<1>9. QueueNums' = QueueNums \cup {g.seqnum}
  <2>1. QueueNums' = {queue'[i].h.seqnum : i \in 1 .. Len(queue')}
    BY DEF QueueNums
  <2>2. 1 .. Len(queue') = (1 .. l) \cup {l + 1}
    BY <1>7
  <2> QED
    BY <1>6, <1>7, <2>1, <2>2 DEF QueueNums, l
<1>10. Typed' /\ Cut(up') /\ Cut(down')
  BY <1>1, <1>2, <1>3, <1>7 DEF Typed
<1>11. UpGood'
  BY <1>1, <1>2, <1>4 DEF UpGood
<1>12. QueueGood'
  BY <1>1, <1>2, <1>6, <1>7, <1>8 DEF QueueGood, l
<1>13. DownGood'
  BY <1>1, <1>2 DEF DownGood
<1>14. Apart'
  <2>1. /\ Nums(up') = Nums(r) /\ Nums(down') = Nums(down)
        /\ Distinct(up') /\ (Distinct(down') <=> Distinct(down))
    BY <1>1, <1>2, <1>4 DEF Apart
  <2>2. /\ Nums(up') \cap QueueNums' = {} /\ Nums(up') \cap Nums(down') = {}
        /\ QueueNums' \cap Nums(down') = {}
    BY <1>1, <1>4, <1>9, <2>1 DEF Apart
  <2>3. \A i \in 1 .. l : queue[i].h.seqnum # g.seqnum
    BY <1>1, <1>4 DEF Apart, QueueNums, l
  <2>4. ASSUME NEW i \in 1 .. Len(queue'), NEW j \in 1 .. Len(queue'),
               queue'[i].h.seqnum = queue'[j].h.seqnum
        PROVE  i = j
    <3>1. i \in 1 .. l /\ j \in 1 .. l => i = j
      BY <1>1, <1>7, <2>4 DEF Apart, l
    <3> QED
      BY <1>6, <1>7, <1>8, <2>3, <2>4, <3>1
  <2> QED
    BY <1>1, <2>1, <2>2, <2>4 DEF Apart
<1>15. Ordered'
  <2>1. Nums(up') = Nums(r) /\ Nums(down') = Nums(down) /\ outstanding' = outstanding
    BY <1>2
  <2>2. k \in Nat /\ \A i \in HeadersOf(r) : i \in Nat \ {0}
    BY DEF HeadersOf, MessageLength, k
  <2>3. UpOrder'
    <3> SUFFICES ASSUME NEW i \in HeadersOf(r), NEW j \in HeadersOf(r),
                        r[i].h.seqnum = outstanding[r[j].h.seqnum].unlinks
                 PROVE  i < j
      BY <1>2 DEF UpOrder
    <3>1. i + k < j + k
      BY <1>1, <1>4 DEF Ordered, UpOrder
    <3> QED
      BY <2>2, <3>1
  <2>4. outstanding[g.seqnum].unlinks \notin Nums(up)
    <3>1. ASSUME NEW i \in HeadersOf(up), up[i].h.seqnum = outstanding[g.seqnum].unlinks
          PROVE  FALSE
      <4>1. i < 1
        BY <1>1, <1>4, <3>1 DEF Ordered, UpOrder, g
      <4> QED
        BY <4>1 DEF HeadersOf
    <3> QED
      BY <3>1 DEF Nums
  <2>5. QueueOrder'
    <3> SUFFICES ASSUME NEW j \in 1 .. Len(queue')
                 PROVE  LET target == outstanding[queue'[j].h.seqnum].unlinks
                        IN  /\ target \notin Nums(r)
                            /\ \A i \in 1 .. Len(queue') : queue'[i].h.seqnum = target => i < j
      BY <2>1 DEF QueueOrder
    <3>1. CASE j \in 1 .. l
      <4>1. /\ outstanding[queue[j].h.seqnum].unlinks \notin Nums(up) /\ queue'[j] = queue[j]
            /\ \A i \in 1 .. l : queue[i].h.seqnum = outstanding[queue[j].h.seqnum].unlinks => i < j
        BY <1>1, <1>7, <3>1 DEF Ordered, QueueOrder, l
      <4> QED
        BY <1>4, <1>6, <1>7, <1>8, <4>1
    <3>2. CASE j = l + 1
      <4>1. /\ outstanding[queue'[j].h.seqnum].unlinks \notin Nums(up)
            /\ \A i \in 1 .. l : i < j
        BY <1>6, <1>7, <2>4, <3>2
      <4> QED
        BY <1>4, <1>6, <1>7, <1>8, <4>1
    <3> QED
      BY <1>8, <3>1, <3>2
  <2>6. DownOrder'
    BY <1>1, <1>2, <1>4, <1>9, <2>1 DEF Ordered, DownOrder
  <2>7. DOMAIN outstanding' \subseteq Nums(up') \cup QueueNums' \cup Nums(down')
    BY <1>1, <1>4, <1>9, <2>1 DEF Ordered
  <2> QED
    BY <2>3, <2>5, <2>6, <2>7 DEF Ordered
<1> QED
  BY <1>10, <1>11, <1>12, <1>13, <1>14, <1>15 DEF IInv

-----------------------------------------------------------------------------
(* Control requests                                                         *)

Answers == [ret : {"ok", "stall", "error", "nomem"}, length : Nat]

LEMMA AnswersTyped ==
  /\ STALL \in Answers /\ ERROR \in Answers /\ NoMemory \in Answers
  /\ \A n \in Nat : Data(n) \in Answers
BY DEF Answers, STALL, ERROR, NoMemory, Data

LEMMA AllocatedTyped ==
  ASSUME NEW n \in Nat, NEW failed \in Answers
  PROVE  Allocated(n, failed) \subseteq Answers
BY AnswersTyped DEF Allocated

LEMMA DescriptorTyped ==
  ASSUME NEW k \in Kinds, NEW s
  PROVE  GetDescriptor(k, s) \subseteq Answers
<1>1. /\ ConfigLength(k) \in Nat /\ BosLength \in Nat /\ ReportLength \in Nat
      /\ 18 \in Nat /\ 4 \in Nat /\ 9 \in Nat
  BY DEF ConfigLength, BosLength, ReportLength
<1>2. GetString(k, s.index) \subseteq Answers
  <2>1. \A i \in DOMAIN StringLengths[k] : StringLengths[k][i] \in Nat
    BY UsbAssumption
  <2> QED
    BY <1>1, <2>1, AnswersTyped, AllocatedTyped DEF GetString
<1>3. DescriptorHandler(k, s.descriptor) \subseteq Answers
  BY <1>1, AnswersTyped, AllocatedTyped DEF DescriptorHandler
<1> QED
  BY <1>1, <1>2, <1>3, AnswersTyped, AllocatedTyped DEF GetDescriptor

LEMMA LimitedLength ==
  ASSUME NEW a \in Answers, NEW w \in Nat
  PROVE  Limited(a, w) \in Answers /\ Limited(a, w).length <= w
BY DEF Limited, Answers

(* No request is answered with more than was asked for.                     *)
LEMMA ControlInLength ==
  ASSUME NEW k \in Kinds, NEW s, s.wLength \in Nat, NEW a \in ControlIn(k, s)
  PROVE  a \in Answers /\ a.length <= s.wLength
<1>1. GetDescriptor(k, s) \subseteq Answers
  BY DescriptorTyped
<1>2. 1 \in Nat /\ 2 \in Nat /\ PacketSize(k) \in Nat /\ MsOsLength \in Nat
  BY SizeTyped DEF MsOsLength
<1>3. StandardRequest(k, s) \subseteq Answers
  BY <1>1, <1>2, AnswersTyped, AllocatedTyped DEF StandardRequest
<1>4. CASE IsMsOs(k, s)
  <2>1. Allocated(MsOsLength, NoMemory) \subseteq Answers
    BY <1>2, AnswersTyped, AllocatedTyped
  <2>2. CASE s.index = 7
    BY <1>4, <2>1, <2>2, LimitedLength DEF ControlIn, MsOsRequest
  <2>3. CASE s.index # 7
    BY <1>4, <2>3, AnswersTyped DEF ControlIn, MsOsRequest, Data
  <2> QED
    BY <2>2, <2>3
<1>5. CASE ~IsMsOs(k, s)
  <2> DEFINE answers == IF s.type = "standard" THEN StandardRequest(k, s) ELSE {STALL}
  <2>1. answers \subseteq Answers
    BY <1>3, AnswersTyped
  <2>2. a \in {Limited(b, s.wLength) : b \in answers}
    BY <1>5 DEF ControlIn, HandleSetup
  <2> HIDE DEF answers
  <2> QED
    BY <2>1, <2>2, LimitedLength
<1> QED
  BY <1>4, <1>5

-----------------------------------------------------------------------------
(* The processor thread                                                     *)

(* a is an answer to h that its client can read.                            *)
Fitting(h, a) ==
  /\ a.base = "host" /\ a.body = "host"
  /\ a.command \in {"RET_SUBMIT", "RET_UNLINK"}
  /\ a.seqnum = h.seqnum /\ a.direction = h.direction
  /\ Carries(a) <= h.length

LEMMA AnswerKeepsInv ==
  ASSUME IInv, queue # <<>>, queue' = Tail(queue),
         UNCHANGED <<kind, up, outstanding>>,
         response' \in {None} \cup 1 .. PacketSize(kind),
         NEW a \in Heads, Fitting(queue[1].h, a), SendReply(a, Carries(a))
  PROVE  IInv'
<1> DEFINE h == queue[1].h
           l == Len(down)
<1>1. /\ Typed /\ Cut(up) /\ Cut(down) /\ UpGood /\ QueueGood /\ DownGood /\ Apart
      /\ Ordered /\ down \in Seq(Items) /\ queue \in Seq(Urbs) /\ Len(queue) \in Nat \ {0}
      /\ 1 \in 1 .. Len(queue)
  BY DEF IInv, Typed
<1>2. /\ queue' \in Seq(Urbs) /\ Len(queue') = Len(queue) - 1
      /\ \A i \in 1 .. Len(queue') : queue'[i] = queue[i + 1] /\ i + 1 \in 1 .. Len(queue)
  BY <1>1
<1>3. /\ a.base = "host" /\ a.body = "host" /\ down' = down \o Message(a, Carries(a))
      /\ a.seqnum = h.seqnum
  BY DEF Fitting, SendReply
<1>4. down' \in Seq(Items) /\ Cut(down')
  BY <1>1, <1>3, Appended, CutAppended
<1>5. /\ HeadersOf(down') = HeadersOf(down) \cup {l + 1}
      /\ \A i \in HeadersOf(down) : down'[i] = down[i]
      /\ SameBut(down'[l + 1].h, a, "net")
      /\ Nums(down') = Nums(down) \cup {a.seqnum}
      /\ Distinct(down) /\ a.seqnum \notin Nums(down) => Distinct(down')
  BY <1>1, <1>3, HeadersAppended
<1>6. Awaited(outstanding, h) /\ h.length \in Nat
  <2>1. UrbGood(kind, outstanding, queue[1]) /\ queue[1] \in Urbs
    BY <1>1 DEF QueueGood
  <2> QED
    BY <2>1 DEF UrbGood, Urbs, Heads
<1>7. Accepted(outstanding, down'[l + 1].h)
  <2>1. Carries(down'[l + 1].h) = Carries(a)
    BY <1>5, CarriesSame
  <2> QED
    BY <1>5, <1>6, <2>1 DEF Accepted, Awaited, Fitting, SameBut
<1>8. QueueNums' \subseteq QueueNums /\ h.seqnum \in QueueNums /\ h.seqnum \notin QueueNums'
  <2>1. \A i \in 1 .. Len(queue') : i + 1 # 1
    OBVIOUS
  <2>2. QueueNums' = {queue'[i].h.seqnum : i \in 1 .. Len(queue')}
    BY DEF QueueNums
  <2>3. QueueNums' \subseteq QueueNums /\ h.seqnum \in QueueNums
    BY <1>1, <1>2, <2>2 DEF QueueNums
  <2>4. \A i \in 1 .. Len(queue') : queue[i + 1].h.seqnum # h.seqnum
    BY <1>1, <1>2, <2>1 DEF Apart
  <2> QED
    BY <1>2, <2>2, <2>3, <2>4
<1> HIDE DEF h, l
<1>9. Typed'
  BY <1>1, <1>2, <1>4 DEF Typed
<1>10. Cut(up')
  BY <1>1
<1>11. UpGood'
  BY <1>1 DEF UpGood
<1>12. QueueGood'
  BY <1>1, <1>2 DEF QueueGood
<1>13. DownGood'
  BY <1>1, <1>5, <1>7 DEF DownGood
<1>14. Apart'
  <2>1. h.seqnum \notin Nums(down) /\ h.seqnum \notin Nums(up)
    BY <1>1, <1>8 DEF Apart
  <2>2. Nums(up') = Nums(up) /\ (Distinct(up') <=> Distinct(up))
    BY <1>1
  <2>3. /\ Distinct(up') /\ Distinct(down') /\ Nums(up') \cap QueueNums' = {}
        /\ Nums(up') \cap Nums(down') = {} /\ QueueNums' \cap Nums(down') = {}
    BY <1>1, <1>3, <1>5, <1>8, <2>1, <2>2 DEF Apart
  <2>4. ASSUME NEW i \in 1 .. Len(queue'), NEW j \in 1 .. Len(queue'),
               queue'[i].h.seqnum = queue'[j].h.seqnum
        PROVE  i = j
    <3>1. i + 1 = j + 1
      BY <1>1, <1>2, <2>4 DEF Apart
    <3> QED
      BY <3>1
  <2> QED
    BY <2>3, <2>4 DEF Apart
<1>15. Ordered'
  <2>1. Nums(up') = Nums(up) /\ outstanding' = outstanding
    OBVIOUS
  <2>2. UpOrder'
    BY <1>1 DEF Ordered, UpOrder
  <2>3. QueueOrder'
    <3> SUFFICES ASSUME NEW j \in 1 .. Len(queue')
                 PROVE  LET target == outstanding[queue'[j].h.seqnum].unlinks
                        IN  /\ target \notin Nums(up)
                            /\ \A i \in 1 .. Len(queue') : queue'[i].h.seqnum = target => i < j
      BY <2>1 DEF QueueOrder
    <3>1. \A i \in 1 .. Len(queue') : i + 1 < j + 1 => i < j
      OBVIOUS
    <3> QED
      BY <1>1, <1>2, <3>1 DEF Ordered, QueueOrder
  <2>4. /\ outstanding[h.seqnum].unlinks \notin Nums(up)
        /\ outstanding[h.seqnum].unlinks \notin QueueNums
    <3>1. ASSUME NEW i \in 1 .. Len(queue), queue[i].h.seqnum = outstanding[h.seqnum].unlinks
          PROVE  FALSE
      <4>1. i < 1
        BY <1>1, <3>1 DEF Ordered, QueueOrder, h
      <4> QED
        BY <4>1
    <3>2. outstanding[h.seqnum].unlinks \notin Nums(up)
      BY <1>1 DEF Ordered, QueueOrder, h
    <3> QED
      BY <3>1, <3>2 DEF QueueNums
  <2>5. down'[l + 1].h.seqnum = h.seqnum /\ \A i \in HeadersOf(down) : i < l + 1
    BY <1>1, <1>3, <1>5 DEF SameBut, HeadersOf, l
  <2>6. DownOrder'
    <3> SUFFICES ASSUME NEW j \in HeadersOf(down')
                 PROVE  LET target == outstanding[down'[j].h.seqnum].unlinks
                        IN  /\ target \notin Nums(up) /\ target \notin QueueNums'
                            /\ \A i \in HeadersOf(down') : down'[i].h.seqnum = target => i < j
      BY <2>1 DEF DownOrder
    <3>1. CASE j = l + 1
      BY <1>5, <1>8, <2>4, <2>5, <3>1
    <3>2. CASE j \in HeadersOf(down)
      <4>1. /\ down'[j] = down[j]
            /\ outstanding[down[j].h.seqnum].unlinks \notin Nums(up)
            /\ outstanding[down[j].h.seqnum].unlinks \notin QueueNums
            /\ \A i \in HeadersOf(down) :
                 down[i].h.seqnum = outstanding[down[j].h.seqnum].unlinks => i < j
        BY <1>1, <1>5, <3>2 DEF Ordered, DownOrder
      <4> QED
        BY <1>5, <1>8, <2>5, <4>1
    <3> QED
      BY <1>5, <3>1, <3>2
  <2>7. DOMAIN outstanding' \subseteq Nums(up') \cup QueueNums' \cup Nums(down')
    <3>1. QueueNums \subseteq QueueNums' \cup {h.seqnum}
      <4>1. ASSUME NEW i \in 1 .. Len(queue), i # 1
            PROVE  queue[i].h.seqnum \in QueueNums'
        <5>1. i - 1 \in 1 .. Len(queue') /\ (i - 1) + 1 = i
          BY <1>1, <1>2, <4>1
        <5>2. queue'[i - 1] = queue[i]
          BY <1>2, <5>1
        <5> QED
          BY <5>1, <5>2 DEF QueueNums
      <4> QED
        BY <4>1 DEF QueueNums, h
    <3> QED
      BY <1>1, <1>3, <1>5, <3>1 DEF Ordered
  <2> QED
    BY <2>2, <2>3, <2>6, <2>7 DEF Ordered
<1> QED
  BY <1>4, <1>9, <1>10, <1>11, <1>12, <1>13, <1>14, <1>15 DEF IInv

LEMMA RetTyped ==
  ASSUME NEW h \in Heads, h.command \in {"CMD_SUBMIT", "CMD_UNLINK"},
         NEW n \in Nat, NEW status \in {"OK", "EPIPE", "ENOMEM"},
         NEW a, a = Ret(h, n, status)
  PROVE  /\ a \in Heads /\ a.base = "host" /\ a.body = "host"
         /\ a.command = IF h.command = "CMD_UNLINK" THEN "RET_UNLINK" ELSE "RET_SUBMIT"
         /\ a.seqnum = h.seqnum /\ a.direction = h.direction /\ a.length = n
<1> DEFINE command == IF h.command = "CMD_UNLINK" THEN "RET_UNLINK" ELSE "RET_SUBMIT"
<1>1. a = [command |-> command, seqnum |-> h.seqnum, ep |-> h.ep, direction |-> h.direction,
           length |-> n, request |-> None, status |-> status, base |-> "host", body |-> "host"]
  BY DEF Ret, Header
<1>2. None \in Requests /\ command \in Converted
  BY DEF Requests, Converted
<1> HIDE DEF command
<1>3. a \in Heads
  BY <1>1, <1>2 DEF Heads, Orders
<1>4. a.base = "host" /\ a.body = "host" /\ a.command = command
  BY <1>1
<1>5. a.seqnum = h.seqnum /\ a.direction = h.direction /\ a.length = n
  BY <1>1
<1> QED
  BY <1>3, <1>4, <1>5 DEF command

LEMMA FirstUrb ==
  ASSUME IInv, queue # <<>>
  PROVE  /\ Head(queue) = queue[1] /\ queue[1] \in Urbs /\ queue[1].h \in Heads
         /\ Sendable(kind, queue[1].h) /\ queue[1].n = Carries(queue[1].h)
         /\ queue[1].n \in Nat /\ queue[1].h.length \in Nat
<1>1. queue \in Seq(Urbs) /\ QueueGood /\ 1 \in 1 .. Len(queue)
  BY DEF IInv, Typed
<1>2. queue[1] \in Urbs /\ UrbGood(kind, outstanding, queue[1]) /\ Head(queue) = queue[1]
  BY <1>1 DEF QueueGood
<1> QED
  BY <1>2 DEF Urbs, Heads, UrbGood

LEMMA ExecuteTyped ==
  ASSUME IInv, NEW c, Fits(kind, c), Execute(c)
  PROVE  response' \in {None} \cup 1 .. PacketSize(kind)
BY DEF IInv, Typed, Fits, Execute

LEMMA ProcessorThreadKeepsInv ==
  ASSUME IInv, ProcessorThread
  PROVE  IInv'
<1> DEFINE urb == queue[1]
           h == urb.h
           Typed1 == response' \in {None} \cup 1 .. PacketSize(kind)
           Answered == \E a \in Heads : Fitting(h, a) /\ SendReply(a, Carries(a))
<1>1. /\ queue # <<>> /\ queue' = Tail(queue) /\ UNCHANGED <<kind, up, outstanding>>
      /\ Head(queue) = urb /\ urb \in Urbs /\ h \in Heads /\ Sendable(kind, h)
      /\ urb.n \in Nat /\ h.length \in Nat /\ urb.n = Carries(h)
  BY FirstUrb DEF ProcessorThread
<1>2. /\ kind \in Kinds /\ response \in {None} \cup 1 .. PacketSize(kind)
      /\ PacketSize(kind) \in Nat
  BY SizeTyped DEF IInv, Typed
<1>3. h.command \in {"CMD_SUBMIT", "CMD_UNLINK"}
  BY <1>1 DEF Sendable
<1>4. UNCHANGED response => Typed1
  BY <1>2
<1>5. CASE HandleControlIn(urb)
  <2> PICK answer \in ControlIn(kind, h.request) :
           SendReply(Ret(h, answer.length, Status(answer)), answer.length)
    BY <1>5 DEF HandleControlIn
  <2> DEFINE a == Ret(h, answer.length, Status(answer))
  <2>1. h.command = "CMD_SUBMIT" /\ h.ep = 0 /\ h.direction = "IN" /\ UNCHANGED response
    BY <1>5 DEF HandleControlIn, NoCommand
  <2>2. h.request.wLength = h.length
    BY <1>1, <2>1 DEF Sendable
  <2>3. answer \in Answers /\ answer.length <= h.length
    BY <1>1, <1>2, <2>2, ControlInLength
  <2>4. answer.length \in Nat /\ Status(answer) \in {"OK", "EPIPE", "ENOMEM"}
    BY <2>3 DEF Answers, Status
  <2>5. /\ a \in Heads /\ a.base = "host" /\ a.body = "host" /\ a.command = "RET_SUBMIT"
        /\ a.seqnum = h.seqnum /\ a.direction = "IN" /\ a.length = answer.length
    BY <1>1, <2>1, <2>4, RetTyped
  <2> HIDE DEF a
  <2>6. Carries(a) = answer.length
    BY <2>5 DEF Carries
  <2>7. Fitting(h, a) /\ SendReply(a, Carries(a))
    BY <2>1, <2>3, <2>5, <2>6 DEF Fitting, a
  <2> QED
    BY <1>1, <1>4, <2>1, <2>5, <2>7, AnswerKeepsInv
<1>6. ASSUME NEW n \in Nat, NEW status \in {"OK", "EPIPE", "ENOMEM"},
             SendReply(Ret(h, n, status), 0),
             (h.direction = "OUT" \/ n = 0)
      PROVE  Answered
  <2> DEFINE a == Ret(h, n, status)
  <2>1. /\ a \in Heads /\ a.base = "host" /\ a.body = "host"
        /\ a.command = (IF h.command = "CMD_UNLINK" THEN "RET_UNLINK" ELSE "RET_SUBMIT")
        /\ a.seqnum = h.seqnum /\ a.direction = h.direction /\ a.length = n
    BY <1>1, <1>3, RetTyped
  <2>2. SendReply(a, 0)
    BY <1>6
  <2> HIDE DEF a
  <2>3. Carries(a) = 0
    BY <1>6, <2>1 DEF Carries
  <2>4. Fitting(h, a)
    BY <1>1, <2>1, <2>3 DEF Fitting
  <2> QED
    BY <2>1, <2>2, <2>3, <2>4
<1>7. CASE HandleControlOut(urb)
  <2>1. /\ h.command = "CMD_SUBMIT" /\ h.ep = 0 /\ h.direction = "OUT"
        /\ NoCommand
        /\ SendReply(Ret(h, 0, "OK"), 0)
    BY <1>7 DEF HandleControlOut
  <2>2. Typed1
    BY <1>4, <2>1 DEF NoCommand
  <2>3. Answered
    BY <1>6, <2>1
  <2> QED
    BY <1>1, <2>2, <2>3, AnswerKeepsInv
<1>8. CASE HandleOut(urb)
  <2>1. /\ h.command = "CMD_SUBMIT" /\ h.ep = 1 /\ h.direction = "OUT"
        /\ IF urb.n > 0 THEN Execute(h.request) ELSE NoCommand
        /\ SendReply(Ret(h, urb.n, "OK"), 0)
    BY <1>8 DEF HandleOut
  <2>2. Typed1
    <3>1. Fits(kind, h.request)
      BY <1>1, <1>2, <2>1, SessionAssumption DEF Sendable
    <3> QED
      BY <1>4, <2>1, <3>1, ExecuteTyped DEF NoCommand
  <2>3. Answered
    BY <1>1, <1>6, <2>1
  <2> QED
    BY <1>1, <2>2, <2>3, AnswerKeepsInv
<1>9. CASE HandleIn(urb)
  <2>1. /\ h.command = "CMD_SUBMIT" /\ h.ep = 1 /\ h.direction = "IN"
        /\ TakeResponse(urb) \/ (SendReply(Ret(h, 0, "OK"), 0) /\ UNCHANGED response)
    BY <1>9 DEF HandleIn
  <2>2. h.length = PacketSize(kind)
    BY <1>1, <2>1 DEF Sendable
  <2>3. CASE response # None /\ SendReply(Ret(h, response, "OK"), response) /\ response' = None
    <3> DEFINE a == Ret(h, response, "OK")
    <3>1. response \in Nat /\ response <= h.length
      BY <1>2, <2>2, <2>3
    <3>2. /\ a \in Heads /\ a.base = "host" /\ a.body = "host" /\ a.command = "RET_SUBMIT"
          /\ a.seqnum = h.seqnum /\ a.direction = "IN" /\ a.length = response
      BY <1>1, <2>1, <3>1, RetTyped
    <3> HIDE DEF a
    <3>3. Carries(a) = response
      BY <3>2 DEF Carries
    <3>4. Fitting(h, a) /\ SendReply(a, Carries(a)) /\ Typed1
      BY <2>1, <2>3, <3>1, <3>2, <3>3 DEF Fitting, a
    <3> QED
      BY <1>1, <3>2, <3>4, AnswerKeepsInv
  <2>4. CASE SendReply(Ret(h, 0, "ENOMEM"), 0) /\ UNCHANGED response
    <3>1. Answered
      BY <1>6, <2>4
    <3> QED
      BY <1>1, <1>4, <2>4, <3>1, AnswerKeepsInv
  <2>5. CASE SendReply(Ret(h, 0, "OK"), 0) /\ UNCHANGED response
    <3>1. Answered
      BY <1>6, <2>5
    <3> QED
      BY <1>1, <1>4, <2>5, <3>1, AnswerKeepsInv
  <2> QED
    BY <2>1, <2>3, <2>4, <2>5 DEF TakeResponse
<1>10. CASE HandleUnlink(urb)
  <2>1. SendReply(Ret(h, 0, "OK"), 0) /\ UNCHANGED response
    BY <1>10 DEF HandleUnlink, NoCommand
  <2>2. Answered
    BY <1>6, <2>1
  <2> QED
    BY <1>1, <1>4, <2>1, <2>2, AnswerKeepsInv
<1> QED
  BY <1>1, <1>5, <1>7, <1>8, <1>9, <1>10 DEF ProcessorThread

-----------------------------------------------------------------------------
(* The theorems                                                             *)

LEMMA InitHasInv ==
  ASSUME Init
  PROVE  IInv
<1>1. /\ up = <<>> /\ queue = <<>> /\ down = <<>> /\ outstanding = <<>>
      /\ kind \in Kinds /\ response = None
  BY DEF Init
<1>2. DOMAIN outstanding = {} /\ Len(queue) = 0
  BY <1>1
<1>3. Typed
  BY <1>1, <1>2, EmptyStream DEF Typed
<1>4. Cut(up) /\ Cut(down) /\ UpGood /\ DownGood
  BY <1>1, EmptyStream DEF UpGood, DownGood
<1>5. QueueGood /\ QueueNums = {}
  BY <1>2 DEF QueueGood, QueueNums
<1>6. Apart
  BY <1>1, <1>2, <1>5, EmptyStream DEF Apart
<1>7. Ordered
  BY <1>1, <1>2, <1>5, EmptyStream DEF Ordered, UpOrder, QueueOrder, DownOrder
<1> QED
  BY <1>3, <1>4, <1>5, <1>6, <1>7 DEF IInv

LEMMA StutterKeepsInv ==
  ASSUME IInv, UNCHANGED vars
  PROVE  IInv'
BY DEF IInv, Typed, UpGood, QueueGood, DownGood, Apart, QueueNums, Ordered, UpOrder, QueueOrder,
       DownOrder, vars

LEMMA NextKeepsInv ==
  ASSUME IInv, [Next]_vars
  PROVE  IInv'
<1>1. CASE Client
  <2>1. CASE \E q \in Seqnums : \E s \in Setups[kind] : ControlRead(s, q) \/ ControlWrite(s, q)
    BY <2>1, ControlReadKeepsInv, ControlWriteKeepsInv
  <2>2. CASE \E q \in Seqnums : \E c \in Commands[kind] : EndpointWrite(c, q)
    BY <2>2, EndpointWriteKeepsInv
  <2>3. CASE \E q \in Seqnums : EndpointRead(q)
    BY <2>3, EndpointReadKeepsInv
  <2>4. CASE \E q, target \in Seqnums : Unlink(q, target)
    BY <2>4, UnlinkKeepsInv
  <2> QED
    BY <1>1, <2>1, <2>2, <2>3, <2>4, ReceiveKeepsInv, LeaveKeepsInv DEF Client
<1> QED
  BY <1>1, RxThreadKeepsInv, ProcessorThreadKeepsInv, StutterKeepsInv DEF Next

LEMMA InvHolds == Spec => []IInv
BY InitHasInv, NextKeepsInv, PTL DEF Spec

(* Client and server agree where messages begin, for every device, every    *)
(* buffer size, any number of requests in flight and any commands that fit  *)
(* a packet (usbip_conn.c:485-527, 572-592, usbip_pack.c:74-137,            *)
(* hid_dap.c:469-596, bulk_dap.c:294-434).                                  *)
THEOREM StaysInStep == Spec => []InStep
BY InvHolds, InvImpliesInStep, PTL

LEMMA InvImpliesUnlinkTrue ==
  ASSUME IInv
  PROVE  UnlinkTrue
<1> SUFFICES ASSUME down # <<>>, Head(down).h.command = "RET_UNLINK",
                    outstanding[Head(down).h.seqnum].unlinks \in DOMAIN outstanding
             PROVE  FALSE
  BY DEF UnlinkTrue
<1>1. down \in Seq(Items) /\ Cut(down) /\ Ordered
  BY DEF IInv, Typed
<1>2. Head(down) = down[1] /\ 1 \in HeadersOf(down)
  BY <1>1, FirstMessage, HeadersRest
<1> DEFINE target == outstanding[down[1].h.seqnum].unlinks
<1>3. /\ target \notin Nums(up) /\ target \notin QueueNums
      /\ \A i \in HeadersOf(down) : down[i].h.seqnum = target => i < 1
  BY <1>1, <1>2 DEF Ordered, DownOrder
<1>4. PICK i \in HeadersOf(down) : down[i].h.seqnum = target
  BY <1>1, <1>2, <1>3 DEF Ordered, Nums
<1> QED
  BY <1>3, <1>4 DEF HeadersOf

(* A client that is told that its unlink was in time waits for the URB no   *)
(* longer: the URB's own answer came first, for any number of URBs and of   *)
(* unlinks on their way (hid_dap.c:591-594, bulk_dap.c:433-436,             *)
(* usbip_conn.c:631-657).                                                   *)
THEOREM UnlinksAnsweredLast == Spec => []UnlinkTrue
BY InvHolds, InvImpliesUnlinkTrue, PTL

-----------------------------------------------------------------------------
(* The response                                                             *)

LEMMA NextKeepsResponse ==
  ASSUME IInv, [Next]_vars, response # None, response' = None
  PROVE  /\ Last(down') = DataItem(response)
         /\ Head(queue).h.ep = 1 /\ down'[Len(down') - 1].h.length = response
<1> DEFINE urb == queue[1]
           h == urb.h
           a == Ret(h, response, "OK")
           l == Len(down)
<1>1. /\ response \in Nat \ {0} /\ None \notin Nat /\ kind \in Kinds /\ down \in Seq(Items)
      /\ PacketSize(kind) \in Nat
  BY SizeTyped, SessionAssumption DEF IInv, Typed
<1>2. ~UNCHANGED response
  OBVIOUS
<1>3. ProcessorThread
  BY <1>2 DEF Next, Client, ControlRead, ControlWrite, EndpointRead, EndpointWrite, Unlink,
              Send, Receive, Leave, RxThread, vars
<1>4. /\ Head(queue) = urb /\ h \in Heads /\ Sendable(kind, h)
  BY <1>3, FirstUrb DEF ProcessorThread
<1>5. ASSUME NEW c, Fits(kind, c), Execute(c)
      PROVE  FALSE
  BY <1>1, <1>2, <1>5 DEF Execute, Fits
<1>6. ~HandleControlOut(urb)
  BY <1>2 DEF HandleControlOut, NoCommand
<1>7. ~HandleOut(urb)
  <2> SUFFICES ASSUME HandleOut(urb) PROVE FALSE
    OBVIOUS
  <2>1. Fits(kind, h.request)
    BY <1>1, <1>4, SessionAssumption DEF HandleOut, Sendable
  <2> QED
    BY <1>2, <1>5, <2>1 DEF HandleOut, NoCommand
<1>8. HandleIn(urb)
  BY <1>2, <1>3, <1>4, <1>6, <1>7 DEF ProcessorThread, HandleControlIn, HandleUnlink, NoCommand
<1>9. /\ h.command = "CMD_SUBMIT" /\ h.ep = 1 /\ h.direction = "IN"
      /\ SendReply(a, response)
  BY <1>2, <1>8 DEF HandleIn, TakeResponse
<1>10. /\ a \in Heads /\ a.base = "host" /\ a.body = "host" /\ a.command = "RET_SUBMIT"
       /\ a.direction = "IN" /\ a.length = response
  BY <1>1, <1>4, <1>9, RetTyped
<1> HIDE DEF a, h, urb
<1>11. Carries(a) = response
  BY <1>10 DEF Carries
<1>12. /\ down' \in Seq(Items) /\ Len(down') = l + 2
       /\ SameBut(down'[l + 1].h, a, "net") /\ down'[l + 2] = DataItem(response)
  BY <1>1, <1>9, <1>10, <1>11, Appended DEF SendReply
<1>13. Last(down') = DataItem(response)
  BY <1>12 DEF Last
<1>14. Len(down') - 1 = l + 1
  BY <1>1, <1>12
<1>15. down'[Len(down') - 1].h.length = response
  BY <1>10, <1>12, <1>14 DEF SameBut
<1> QED
  BY <1>4, <1>9, <1>13, <1>15 DEF h

(* A response disappears only with the answer that carries all of it, for   *)
(* any responses, failed allocations, unlinks and clients that leave        *)
(* (hid_dap.c:546-566, bulk_dap.c:386-407).                                 *)
THEOREM ResponsesKept == Spec => ResponseKept
<1>1. IInv /\ [Next]_vars =>
        [response # None /\ response' = None =>
           /\ Last(down') = DataItem(response)
           /\ Head(queue).h.ep = 1 /\ down'[Len(down') - 1].h.length = response]_vars
  BY NextKeepsResponse
<1> QED
  BY <1>1, InvHolds, PTL DEF Spec, ResponseKept

-----------------------------------------------------------------------------
(* The clock                                                                *)

ClockInv == dap \in Settings /\ asked \in Nat \ {0} /\ ClockHeld

LEMMA PacketSizeSet ==
  ASSUME NEW d \in Settings, NEW n \in Nat
  PROVE  LET e == SetPacketSize(d, n)
         IN  e \in Settings /\ e.fast_clock = d.fast_clock /\ e.clock_delay = d.clock_delay
<1> DEFINE f == [d EXCEPT !.packet_size = n]
<1>1. f \in Settings
  BY DEF Settings
<1>2. f.fast_clock = d.fast_clock
  BY DEF Settings
<1>3. f.clock_delay = d.clock_delay
  BY DEF Settings
<1>4. SetPacketSize(d, n) = f \/ SetPacketSize(d, n) = d
  BY DEF SetPacketSize
<1> QED
  BY <1>1, <1>2, <1>3, <1>4

LEMMA ExecuteKeepsClock ==
  ASSUME IInv, ClockInv, NEW c, Fits(kind, c), Execute(c)
  PROVE  ClockInv'
<1> DEFINE d == SetPacketSize(dap, PacketSize(kind))
<1>1. PacketSize(kind) \in Nat
  BY SizeTyped DEF IInv, Typed
<1>2. d \in Settings /\ d.fast_clock = dap.fast_clock /\ d.clock_delay = dap.clock_delay
  BY <1>1, PacketSizeSet DEF ClockInv
<1>3. ClockMeets(d, asked)
  BY <1>2 DEF ClockInv, ClockHeld, ClockMeets
<1>4. \/ UNCHANGED <<dap, asked>>
      \/ dap' = ProcessCommand(d, c) /\ asked' = IF SetsClock(c) THEN c.clock ELSE asked
  BY DEF Execute
<1> HIDE DEF d
<1>5. CASE UNCHANGED <<dap, asked>>
  BY <1>5 DEF ClockInv, ClockHeld
<1>6. CASE dap' = ProcessCommand(d, c) /\ asked' = IF SetsClock(c) THEN c.clock ELSE asked
  <2>1. CASE SetsClock(c)
    <3>1. c.clock \in Nat \ {0}
      BY <2>1 DEF SetsClock, Fits
    <3>2. dap' = SetClockDelay(d, c.clock) /\ asked' = c.clock
      BY <1>6, <2>1 DEF ProcessCommand
    <3>3. dap' \in Settings /\ ClockMeets(dap', asked')
      BY <1>2, <3>1, <3>2, ClockSet
    <3> QED
      BY <3>1, <3>2, <3>3 DEF ClockInv, ClockHeld
  <2>2. CASE ~SetsClock(c)
    BY <1>2, <1>3, <1>6, <2>2 DEF ProcessCommand, ClockInv, ClockHeld
  <2> QED
    BY <2>1, <2>2
<1> QED
  BY <1>4, <1>5, <1>6

LEMMA NextKeepsClock ==
  ASSUME IInv, ClockInv, [Next]_vars
  PROVE  ClockInv'
<1>1. CASE UNCHANGED <<dap, asked>>
  BY <1>1 DEF ClockInv, ClockHeld
<1>2. CASE ProcessorThread
  <2> DEFINE urb == queue[1]
  <2>1. /\ Head(queue) = urb /\ Sendable(kind, urb.h) /\ kind \in Kinds
    BY <1>2, FirstUrb DEF ProcessorThread, IInv, Typed
  <2>2. CASE HandleControlOut(urb)
    BY <1>1, <2>2 DEF HandleControlOut, NoCommand
  <2>3. CASE HandleOut(urb)
    <3>1. Fits(kind, urb.h.request)
      BY <2>1, <2>3, SessionAssumption DEF HandleOut, Sendable
    <3> QED
      BY <1>1, <2>3, <3>1, ExecuteKeepsClock DEF HandleOut, NoCommand
  <2>4. CASE HandleControlIn(urb) \/ HandleIn(urb) \/ HandleUnlink(urb)
    BY <1>1, <2>4 DEF HandleControlIn, HandleIn, HandleUnlink, NoCommand
  <2> QED
    BY <1>2, <2>1, <2>2, <2>3, <2>4 DEF ProcessorThread
<1>3. Client => UNCHANGED <<dap, asked>>
  BY DEF Client, ControlRead, ControlWrite, EndpointRead, EndpointWrite, Unlink, Send,
         Receive, Leave
<1> QED
  BY <1>1, <1>2, <1>3 DEF Next, RxThread, vars

(* However commands follow each other, the clock's settings are those of    *)
(* the last clock asked for, for every processor's cycles and every clock   *)
(* (DAP.c:76-95, 420-442).                                                  *)
THEOREM ClockAsAsked == Spec => []ClockHeld
<1>1. Init => ClockInv
  <2> DEFINE none == 0
             d == [packet_size |-> 64, fast_clock |-> FALSE, clock_delay |-> none]
  <2>1. d \in Settings
    BY DEF Settings
  <2> HIDE DEF d
  <2>2. SetClockDelay(d, DefaultClock) \in Settings /\ ClockMeets(SetClockDelay(d, DefaultClock), DefaultClock)
    BY <2>1, ClockAssumption, ClockSet
  <2> QED
    BY <2>2, ClockAssumption DEF Init, DAPSetup, ClockInv, ClockHeld, d
<1>2. IInv /\ ClockInv /\ [Next]_vars => ClockInv'
  BY NextKeepsClock
<1>3. ClockInv => ClockHeld
  BY DEF ClockInv
<1> QED
  BY <1>1, <1>2, <1>3, InvHolds, PTL DEF Spec

=============================================================================
