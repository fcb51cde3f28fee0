------------------------- MODULE DspProcessorsProofs --------------------------
(***************************************************************************)
(* What is proved of the processors, for every sample rate, every level of    *)
(* the controls, every filter and every length of a ramp or a crossfade.       *)
(*                                                                          *)
(* Every class of processor has a contract, the invariant it keeps between     *)
(* the calls of its device: which registers, keys and coefficients it has,      *)
(* that its ramps are between levels and on their way to the controls, and      *)
(* that a cached key stands for the inputs its coefficients were computed       *)
(* from.  Of each class five things are shown: preparing and setting it          *)
(* establishes the contract (Made), new controls keep it (Kept), a reset keeps   *)
(* it (Forgot), two that were given the same controls are one once reset         *)
(* (ResetsAlike), and a sample keeps it and leaves coefficients that are those   *)
(* of what it read (Ran).  The last two sections put the classes together.       *)
(***************************************************************************)
EXTENDS DspProcessors, TLAPS

-----------------------------------------------------------------------------
(* The fields of a processor, its ramps and its shape.                       *)

Fields == {"kind", "emu", "rate", "set", "ramp", "flag", "key", "coef", "mem", "now"}
Has(f, S) == f = [n \in S |-> f[n]]
Same(q, p, names) == \A f \in Fields \ names : q[f] = p[f]

Steps == ControlLevels \cup {0}
Gains == Steps \cup {MinimumGainDb, MaximumGainDb}
RampFields == {"current", "target", "left"}
Spans(r, L) == \E low, high \in L : r.current \in low..high /\ r.target \in low..high
RampIn(r, L) == Has(r, RampFields) /\ r.left \in 0..RampLength /\ Spans(r, L)

Allowed(c, names, L) == \A n \in names : c[n] \in L

\* The named ramps of q are those of p, set to the controls; the others are p's.
AimedAt(q, p, b, c, names) ==
    \A n \in DOMAIN b.ramp :
       /\ n \in names => q.ramp[n] = RampSetTarget(p.ramp[n], c[n]) /\ q.ramp[n].target = c[n]
       /\ n \notin names => q.ramp[n] = p.ramp[n]

Shape(p, b, L) ==
    /\ Has(p, Fields) /\ p.kind = b.kind /\ p.emu = b.emu
    /\ Has(p.ramp, DOMAIN b.ramp) /\ \A n \in DOMAIN b.ramp : RampIn(p.ramp[n], L)
    /\ Has(p.flag, DOMAIN b.flag) /\ Has(p.key, DOMAIN b.key)
    /\ Has(p.coef, DOMAIN b.coef) /\ Has(p.mem, DOMAIN b.mem)

\* The levels of a control and the gains are numbers.
LEMMA StepsAreNumbers == /\ RampLength \in Nat \ {0}
                         /\ \A x \in Gains : x \in Int
                         /\ \A x \in Steps : x \in 0..99
  BY LengthAssumption, GainAssumption, ControlAssumption DEF Steps, Gains, SslInvalidThreshold

\* A share of a step that is not complete stays between nothing and the whole.
LEMMA Shared == ASSUME NEW d \in Int, NEW n \in Nat, n > 1
                PROVE /\ d \div n \in Int
                      /\ d >= 0 => d \div n \in 0..d
                      /\ d < 0 => d \div n \in d..(-1)
  OBVIOUS

\* A ramp is a record, whatever of it is set.
LEMMA RampIs ==
    ASSUME NEW L, L \subseteq Int, NEW r, RampIn(r, L)
    PROVE  /\ Has(r, RampFields)
           /\ r.current \in Int /\ r.target \in Int /\ r.left \in Nat /\ r.left <= RampLength
BY LengthAssumption DEF RampIn, Spans

\* A ramp that is set to a level stays a ramp between levels (LinearSmoothedValue::setTargetValue).
LEMMA SetTargetIn ==
    ASSUME NEW L, L \subseteq Int, NEW r, RampIn(r, L), NEW v \in L
    PROVE  /\ RampIn(RampSetTarget(r, v), L)
           /\ RampSetTarget(r, v).target = v
           /\ RampSetTarget(r, v).current = r.current
<1>1. PICK low \in L, high \in L : r.current \in low..high /\ r.target \in low..high
  BY DEF RampIn, Spans
<1>2. low \in Int /\ high \in Int /\ v \in Int /\ Has(r, RampFields)
  BY DEF RampIn
<1>3. PICK n \in 0..RampLength : n = IF v = r.current THEN 0 ELSE RampLength
  BY LengthAssumption
<1>4. PICK q : q = RampSetTarget(r, v)
  OBVIOUS
<1>5. CASE v = r.target
  BY <1>5, <1>1 DEF RampSetTarget, RampIn
<1>6. CASE v # r.target
  <2>1. q = [r EXCEPT !.target = v, !.left = n]
    BY <1>3, <1>4, <1>6 DEF RampSetTarget
  <2>2. Has(q, RampFields) /\ q.target = v /\ q.left \in 0..RampLength /\ q.current = r.current
    BY <1>2, <1>3, <2>1 DEF Has, RampFields
  <2>3. v < low => Spans(q, L)
    BY <1>1, <1>2, <2>2 DEF Spans
  <2>4. v > high => Spans(q, L)
    <3> HAVE v > high
    <3>1. r.current \in low..v /\ v \in low..v
      BY <1>1, <1>2
    <3> QED
      BY <2>2, <3>1 DEF Spans
  <2>5. (v >= low /\ v <= high) => Spans(q, L)
    BY <1>1, <1>2, <2>2 DEF Spans
  <2>6. Spans(q, L)
    BY <1>2, <2>3, <2>4, <2>5
  <2> QED
    BY <1>4, <2>2, <2>6 DEF RampIn
<1> QED
  BY <1>5, <1>6

\* A ramp that is reset is at its target, which it keeps.
LEMMA ResetIn ==
    ASSUME NEW L, NEW r, RampIn(r, L)
    PROVE  /\ RampIn(RampReset(r), L)
           /\ RampReset(r).target = r.target /\ RampReset(r).current = r.target
           /\ RampReset(r).left = 0
<1>1. PICK q : q = RampReset(r)
  OBVIOUS
<1>3. 0 \in 0..RampLength
  BY LengthAssumption
<1> QED
  BY <1>1, <1>3 DEF RampIn, Spans, RampReset, Has, RampFields

\* A ramp that advances stays between the levels and keeps its target.
LEMMA AdvanceIn ==
    ASSUME NEW L, L \subseteq Int, NEW r, RampIn(r, L)
    PROVE  RampIn(RampAdvance(r), L) /\ RampAdvance(r).target = r.target
<1>1. PICK low \in L, high \in L : r.current \in low..high /\ r.target \in low..high
  BY DEF RampIn, Spans
<1>2. /\ low \in Int /\ high \in Int /\ Has(r, RampFields)
      /\ r.current \in Int /\ r.target \in Int /\ r.left \in Nat /\ r.left <= RampLength
  BY RampIs
<1>3. CASE r.left = 0
  BY <1>3 DEF RampAdvance
<1>4. ASSUME r.left # 0, NEW x \in low..high, RampAdvance(r) = [r EXCEPT !.current = x, !.left = r.left - 1]
      PROVE  RampIn(RampAdvance(r), L) /\ RampAdvance(r).target = r.target
  <2>1. PICK n \in 0..RampLength : n = r.left - 1
    BY <1>2, <1>4, LengthAssumption
  <2>2. PICK q : q = [r EXCEPT !.current = x, !.left = n]
    OBVIOUS
  <2>3. Has(q, RampFields) /\ q.current = x /\ q.left = n /\ q.target = r.target
    BY <1>2, <2>2 DEF Has, RampFields
  <2>4. RampIn(q, L)
    BY <1>1, <2>1, <2>3 DEF RampIn, Spans
  <2> QED
    BY <1>4, <2>1, <2>2, <2>3, <2>4
<1>5. CASE r.left = 1
  BY <1>1, <1>4, <1>5 DEF RampAdvance
<1>6. CASE r.left > 1
  <2>1. PICK d \in Int : d = r.target - r.current
    BY <1>2
  <2>2. PICK e \in Int : e = d \div r.left
    BY <2>1, <1>2, <1>6, Shared
  <2>3. (d >= 0 => e \in 0..d) /\ (d < 0 => e \in d..(-1))
    BY <1>2, <2>1, <2>2, <1>6, Shared
  <2>4. PICK x \in low..high : x = r.current + e
    BY <2>1, <2>3, <1>1, <1>2
  <2>5. x = r.current + (r.target - r.current) \div r.left /\ r.left # 0 /\ r.left # 1
    BY <2>1, <2>2, <2>4, <1>6, <1>2
  <2>6. RampAdvance(r) = [r EXCEPT !.current = x, !.left = r.left - 1]
    BY <2>5 DEF RampAdvance
  <2> QED
    BY <1>4, <2>5, <2>6
<1> QED
  BY <1>2, <1>3, <1>5, <1>6

\* Advancing every ramp keeps the shape and the targets.
LEMMA AdvancedShape ==
    ASSUME NEW b, NEW L, L \subseteq Int, NEW p, Shape(p, b, L)
    PROVE  LET q == AdvanceRamps(p)
           IN  /\ Shape(q, b, L) /\ Same(q, p, {"ramp"})
               /\ \A n \in DOMAIN b.ramp : q.ramp[n] = RampAdvance(p.ramp[n])
               /\ \A n \in DOMAIN b.ramp : q.ramp[n].target = p.ramp[n].target
<1> PICK r : r = [n \in DOMAIN b.ramp |-> RampAdvance(p.ramp[n])]
  OBVIOUS
<1>1. PICK q : q = [p EXCEPT !.ramp = r]
  OBVIOUS
<1>2. DOMAIN p.ramp = DOMAIN b.ramp
  BY DEF Shape, Has
<1>3. q = AdvanceRamps(p)
  BY <1>1, <1>2 DEF AdvanceRamps
<1>4. Has(q, Fields) /\ q.ramp = r /\ Same(q, p, {"ramp"})
  BY <1>1 DEF Fields, Has, Same, Shape
<1>6. \A n \in DOMAIN b.ramp : RampIn(r[n], L) /\ r[n].target = p.ramp[n].target
  BY AdvanceIn DEF Shape
<1>7. Has(r, DOMAIN b.ramp)
  BY DEF Has
<1> QED
  BY <1>3, <1>4, <1>6, <1>7 DEF Shape, Same, Fields

\* Resetting every ramp keeps the shape and the targets, and forgets the reading.
LEMMA ResetShape ==
    ASSUME NEW b, NEW L, NEW p, Shape(p, b, L)
    PROVE  LET q == ResetRamps(p)
           IN  /\ Shape(q, b, L) /\ Same(q, p, {"ramp", "now"}) /\ q.now = Unset
               /\ \A n \in DOMAIN b.ramp : /\ q.ramp[n] = RampReset(p.ramp[n])
                                           /\ q.ramp[n].target = p.ramp[n].target
<1> PICK r : r = [n \in DOMAIN b.ramp |-> RampReset(p.ramp[n])]
  OBVIOUS
<1>1. PICK q : q = [p EXCEPT !.ramp = r, !.now = Unset]
  OBVIOUS
<1>2. DOMAIN p.ramp = DOMAIN b.ramp
  BY DEF Shape, Has
<1>3. q = ResetRamps(p)
  BY <1>1, <1>2 DEF ResetRamps
<1>4. Has(q, Fields) /\ q.ramp = r /\ Same(q, p, {"ramp", "now"}) /\ q.now = Unset
  BY <1>1 DEF Fields, Has, Same, Shape
<1>6. \A n \in DOMAIN b.ramp : RampIn(r[n], L) /\ r[n].target = p.ramp[n].target
  BY ResetIn DEF Shape
<1>7. Has(r, DOMAIN b.ramp)
  BY DEF Has
<1> QED
  BY <1>3, <1>4, <1>6, <1>7 DEF Shape, Same, Fields

\* Setting the named ramps keeps the shape and leaves the other ramps alone.
LEMMA AimShape ==
    ASSUME NEW b, NEW L, L \subseteq Int, NEW p, Shape(p, b, L), NEW c, NEW names,
           Allowed(c, names, L)
    PROVE  LET q == Aim(p, c, names)
           IN  /\ Shape(q, b, L) /\ Same(q, p, {"ramp"})
               /\ AimedAt(q, p, b, c, names)
<1> PICK r : r = [n \in DOMAIN b.ramp |-> IF n \in names THEN RampSetTarget(p.ramp[n], c[n])
                                          ELSE p.ramp[n]]
  OBVIOUS
<1>1. PICK q : q = [p EXCEPT !.ramp = r]
  OBVIOUS
<1>2. DOMAIN p.ramp = DOMAIN b.ramp
  BY DEF Shape, Has
<1>3. q = Aim(p, c, names)
  BY <1>1, <1>2 DEF Aim
<1>4. Has(q, Fields) /\ q.ramp = r /\ Same(q, p, {"ramp"})
  BY <1>1 DEF Fields, Has, Same, Shape
<1>6. \A n \in DOMAIN b.ramp : RampIn(r[n], L) /\ (n \in names => r[n].target = c[n])
  <2> SUFFICES ASSUME NEW n \in DOMAIN b.ramp
               PROVE  RampIn(r[n], L) /\ (n \in names => r[n].target = c[n])
    OBVIOUS
  <2>1. RampIn(p.ramp[n], L)
    BY DEF Shape
  <2>2. CASE n \in names
    <3>1. PICK v \in L : v = c[n]
      BY <2>2 DEF Allowed
    <3>2. PICK s : s = p.ramp[n]
      OBVIOUS
    <3>3. RampIn(s, L)
      BY <2>1, <3>2
    <3>4. RampIn(RampSetTarget(s, v), L) /\ RampSetTarget(s, v).target = v
      BY <3>3, SetTargetIn, ZenonT(60)
    <3>5. r[n] = RampSetTarget(s, v)
      BY <2>2, <3>1, <3>2
    <3> QED
      BY <3>1, <3>4, <3>5
  <2>3. CASE n \notin names
    BY <2>1, <2>3
  <2> QED
    BY <2>2, <2>3
<1>7. Has(r, DOMAIN b.ramp)
  BY DEF Has
<1>8. AimedAt(q, p, b, c, names)
  BY <1>4, <1>6 DEF AimedAt
<1> QED
  BY <1>3, <1>4, <1>6, <1>7, <1>8 DEF Shape, Same, Fields

\* A blank processor has the shape of a blank processor, at rest.
LEMMA BlankShape ==
    ASSUME NEW kind, NEW emu, NEW ramps, NEW flags, NEW keys, NEW coefs, NEW mems, NEW L, 0 \in L
    PROVE  LET b == Blank(kind, emu, ramps, flags, keys, coefs, mems)
           IN  /\ Shape(b, b, L) /\ b.kind = kind /\ b.emu = emu
               /\ DOMAIN b.ramp = ramps /\ DOMAIN b.flag = flags /\ DOMAIN b.key = keys
               /\ DOMAIN b.coef = coefs /\ DOMAIN b.mem = mems
               /\ \A n \in ramps : b.ramp[n] = Ramp(0)
               /\ \A n \in flags : b.flag[n] = 0
               /\ \A n \in mems : b.mem[n] = 0
               /\ \A n \in keys : b.key[n] = NoKey
<1>1. PICK b : b = Blank(kind, emu, ramps, flags, keys, coefs, mems)
  OBVIOUS
<1>3. RampIn(Ramp(0), L)
  <2>1. PICK r : r = Ramp(0)
    OBVIOUS
  <2>2. r.current = 0 /\ r.target = 0 /\ r.left = 0 /\ Has(r, RampFields)
    BY <2>1 DEF Ramp, Has, RampFields
  <2>3. 0 \in 0..0 /\ 0 \in 0..RampLength
    BY LengthAssumption, SMTT(30)
  <2> QED
    BY <2>1, <2>2, <2>3 DEF RampIn, Spans
<1> QED
  BY <1>1, <1>3 DEF Shape, Has, Blank, Fields

-----------------------------------------------------------------------------
(* Readings, registers and the contract of a processor whose coefficients    *)
(* depend on the rate alone.                                                 *)

\* A reading holds the current value of every ramp, every switch and the rate.
LEMMA ReadingIs ==
    ASSUME NEW b, NEW L, NEW p, Shape(p, b, L)
    PROVE  /\ DOMAIN Reading(p) = DOMAIN b.ramp \cup DOMAIN b.flag \cup {"rate"}
           /\ \A n \in DOMAIN b.ramp : Reading(p)[n] = p.ramp[n].current
           /\ \A n \in DOMAIN b.flag : n \notin DOMAIN b.ramp => Reading(p)[n] = p.flag[n]
           /\ "rate" \notin DOMAIN b.ramp \cup DOMAIN b.flag => Reading(p)["rate"] = p.rate
  BY DEF Reading, ++, Shape, Has

\* Clearing keeps the registers there are, and clearing all of them leaves zeroes.
LEMMA ClearIs == ASSUME NEW m, NEW S, NEW registers, Has(m, S)
                 PROVE  /\ Has(Clear(m, registers), S)
                        /\ S \subseteq registers => Clear(m, registers) = [n \in S |-> 0]
  BY DEF Clear, Has

\* Charging keeps the registers there are and the value of every other one.
LEMMA ChargeIs == ASSUME NEW m, NEW S, NEW registers, NEW loud, Has(m, S)
                  PROVE  /\ Has(Charge(m, registers, loud), S)
                         /\ \A n \in S \ registers : Charge(m, registers, loud)[n] = m[n]
  BY DEF Charge, Has

Follows(p, b, c) == \A n \in DOMAIN b.ramp : p.ramp[n].target = c[n]

\* A processor of the given layout that was set and prepared.
Ready(p, b, L, rate, c, coef) ==
    /\ Shape(p, b, L) /\ p.rate = rate /\ p.set = c /\ p.coef = coef
    /\ Follows(p, b, c)

\* There is one function on nothing.
LEMMA EmptyAlike == ASSUME NEW f, NEW g, Has(f, {}), Has(g, {}) PROVE f = g
  BY DEF Has

\* Recording the controls changes nothing else.
LEMMA GivenShape ==
    ASSUME NEW b, NEW L, NEW p, Shape(p, b, L), NEW c
    PROVE  LET q == [p EXCEPT !.set = c]
           IN  Shape(q, b, L) /\ Same(q, p, {"set"}) /\ q.set = c
  BY DEF Shape, Has, Fields, Same

\* Two processors of one shape that agree on everything but kind and mode are one.
LEMMA Alike ==
    ASSUME NEW b, NEW L, NEW p, NEW q, Shape(p, b, L), Shape(q, b, L),
           Same(p, q, {"kind", "emu"})
    PROVE  p = q
<1>1. \A f \in Fields : p[f] = q[f]
  BY DEF Shape, Same, Fields
<1> QED
  BY <1>1 DEF Shape, Has

\* Two ramps with one target are alike once reset.
LEMMA ResetsAlike ==
    ASSUME NEW L, NEW r, NEW s, RampIn(r, L), RampIn(s, L), r.target = s.target
    PROVE  RampReset(r) = RampReset(s)
BY ResetIn DEF RampIn, Has, RampFields

\* Two processors that follow the same controls have the same ramps once reset.
LEMMA ResetRampsAlike ==
    ASSUME NEW b, NEW L, NEW p, NEW q, NEW c, Shape(p, b, L), Shape(q, b, L),
           Follows(p, b, c), Follows(q, b, c)
    PROVE  ResetRamps(p).ramp = ResetRamps(q).ramp
<1>1. PICK x, y : x = ResetRamps(p) /\ y = ResetRamps(q)
  OBVIOUS
<1>2. /\ Shape(x, b, L) /\ \A n \in DOMAIN b.ramp : x.ramp[n] = RampReset(p.ramp[n])
      /\ Shape(y, b, L) /\ \A n \in DOMAIN b.ramp : y.ramp[n] = RampReset(q.ramp[n])
  BY <1>1, ResetShape
<1>3. ASSUME NEW n \in DOMAIN b.ramp PROVE x.ramp[n] = y.ramp[n]
  BY <1>2, ResetsAlike DEF Shape, Follows
<1> QED
  BY <1>1, <1>2, <1>3 DEF Shape, Has

\* Controls that every ramp follows.
LEMMA AllAimed ==
    ASSUME NEW b, NEW L, L \subseteq Int, NEW p, Shape(p, b, L), NEW c,
           Allowed(c, DOMAIN b.ramp, L)
    PROVE  LET q == Aim([p EXCEPT !.set = c], c, DOMAIN b.ramp)
           IN  Ready(q, b, L, p.rate, c, p.coef) /\ Same(q, p, {"ramp", "set"})
<1>1. PICK x : x = [p EXCEPT !.set = c]
  OBVIOUS
<1>2. PICK q, names : q = Aim(x, c, names) /\ names = DOMAIN b.ramp
  OBVIOUS
<1>3. Shape(x, b, L) /\ Same(x, p, {"set"}) /\ x.set = c
  BY <1>1, GivenShape
<1>a. Allowed(c, names, L)
  BY <1>2
<1>4. /\ Shape(q, b, L) /\ Same(q, x, {"ramp"})
      /\ AimedAt(q, x, b, c, names)
  BY <1>2, <1>3, <1>a, AimShape
<1>5. q.rate = p.rate /\ q.set = c /\ q.coef = p.coef
  BY <1>3, <1>4 DEF Same, Fields
<1>6. Same(q, p, {"ramp", "set"})
  BY <1>3, <1>4 DEF Same, Fields
<1> QED
  BY <1>1, <1>2, <1>4, <1>5, <1>6 DEF Ready, Follows, AimedAt

\* A reset that clears the named registers.
Wipe(p, registers) == [ResetRamps(p) EXCEPT !.mem = Clear(@, registers)]

\* Resetting the ramps and clearing registers keeps the contract.
LEMMA Wiped ==
    ASSUME NEW b, NEW L, NEW p, NEW rate, NEW c, NEW coef, Ready(p, b, L, rate, c, coef),
           NEW registers
    PROVE  LET q == Wipe(p, registers)
           IN  /\ Ready(q, b, L, rate, c, coef) /\ Same(q, p, {"ramp", "now", "mem"})
               /\ q.now = Unset /\ q.ramp = ResetRamps(p).ramp
               /\ q.mem = Clear(p.mem, registers)
<1>1. PICK x : x = ResetRamps(p)
  OBVIOUS
<1>2. /\ Shape(x, b, L) /\ Same(x, p, {"ramp", "now"}) /\ x.now = Unset
      /\ \A n \in DOMAIN b.ramp : x.ramp[n].target = p.ramp[n].target
  BY <1>1, ResetShape DEF Ready
<1>3. PICK m : m = Clear(x.mem, registers)
  OBVIOUS
<1>4. PICK q : q = [x EXCEPT !.mem = m]
  OBVIOUS
<1>5. x.mem = p.mem /\ Has(m, DOMAIN b.mem)
  BY <1>2, <1>3, ClearIs DEF Same, Fields, Shape
<1>6. /\ Has(q, Fields) /\ q.mem = m /\ q.ramp = x.ramp /\ q.now = Unset
      /\ q.kind = x.kind /\ q.emu = x.emu /\ q.flag = x.flag /\ q.key = x.key
      /\ q.coef = x.coef /\ q.rate = x.rate /\ q.set = x.set
  BY <1>2, <1>4 DEF Shape, Has, Fields
<1>7. Shape(q, b, L)
  BY <1>2, <1>5, <1>6 DEF Shape
<1>8. Same(q, p, {"ramp", "now", "mem"})
  BY <1>2, <1>6 DEF Same, Fields
<1>9. Ready(q, b, L, rate, c, coef)
  BY <1>2, <1>6, <1>7, <1>8 DEF Ready, Follows, Same, Fields
<1> QED
  BY <1>1, <1>3, <1>4, <1>5, <1>6, <1>8, <1>9 DEF Wipe

\* A sample that charges registers only.
LEMMA Ran ==
    ASSUME NEW b, NEW L, L \subseteq Int, NEW p, NEW rate, NEW c, NEW coef,
           Ready(p, b, L, rate, c, coef), NEW m, Has(m, DOMAIN b.mem), NEW in
    PROVE  LET q == AdvanceRamps([p EXCEPT !.now = in, !.mem = m])
           IN  /\ Ready(q, b, L, rate, c, coef) /\ Same(q, p, {"ramp", "now", "mem"})
               /\ q.now = in /\ q.mem = m
<1>1. PICK x : x = [p EXCEPT !.now = in, !.mem = m]
  OBVIOUS
<1>2. /\ Has(x, Fields) /\ x.mem = m /\ x.now = in /\ x.ramp = p.ramp
      /\ x.kind = p.kind /\ x.emu = p.emu /\ x.flag = p.flag /\ x.key = p.key
      /\ x.coef = p.coef /\ x.rate = p.rate /\ x.set = p.set
  BY <1>1 DEF Ready, Shape, Has, Fields
<1>3. Shape(x, b, L) /\ Same(x, p, {"now", "mem"})
  BY <1>2 DEF Shape, Ready, Same, Fields
<1>4. PICK q : q = AdvanceRamps(x)
  OBVIOUS
<1>5. /\ Shape(q, b, L) /\ Same(q, x, {"ramp"})
      /\ \A n \in DOMAIN b.ramp : q.ramp[n].target = x.ramp[n].target
  BY <1>3, <1>4, AdvancedShape, ZenonT(60)
<1>7. Same(q, p, {"ramp", "now", "mem"})
  BY <1>3, <1>5 DEF Same, Fields
<1>8. Follows(q, b, c)
  BY <1>2, <1>5 DEF Follows, Ready
<1> QED
  BY <1>1, <1>2, <1>4, <1>5, <1>7, <1>8 DEF Ready, Same, Fields

\* Two processors of a layout that were given the same controls at the same rate
\* are the same after a reset that clears all of their registers.
LEMMA WipedAlike ==
    ASSUME NEW b, NEW L, NEW p, NEW q, NEW rate, NEW c, NEW coef,
           Ready(p, b, L, rate, c, coef), Ready(q, b, L, rate, c, coef),
           p.flag = q.flag, p.key = q.key, NEW registers, DOMAIN b.mem \subseteq registers
    PROVE  Wipe(p, registers) = Wipe(q, registers)
<1>1. PICK x, y : x = Wipe(p, registers) /\ y = Wipe(q, registers)
  OBVIOUS
<1>2. /\ Ready(x, b, L, rate, c, coef) /\ Same(x, p, {"ramp", "now", "mem"})
      /\ x.now = Unset /\ x.ramp = ResetRamps(p).ramp
      /\ x.mem = Clear(p.mem, registers)
  BY <1>1, Wiped
<1>3. /\ Ready(y, b, L, rate, c, coef) /\ Same(y, q, {"ramp", "now", "mem"})
      /\ y.now = Unset /\ y.ramp = ResetRamps(q).ramp
      /\ y.mem = Clear(q.mem, registers)
  BY <1>1, Wiped
<1>4. x.mem = y.mem
  BY <1>2, <1>3, ClearIs DEF Ready, Shape
<1>5. x.ramp = y.ramp
  BY <1>2, <1>3, ResetRampsAlike DEF Ready
<1>6. Same(x, y, {"kind", "emu"})
  BY <1>2, <1>3, <1>4, <1>5 DEF Same, Fields, Ready
<1> QED
  BY <1>1, <1>2, <1>3, <1>6, Alike DEF Ready

-----------------------------------------------------------------------------
(* Stamps and settings.                                                     *)

\* A stamp of the rate alone depends on the rate alone.
LEMMA StampRate ==
    ASSUME NEW in, NEW rate, in.rate = rate
    PROVE  Stamp(in, {"rate"}) = Stamp([rate |-> rate], {"rate"})
  BY DEF Stamp

\* The stamp of a reading that is a rate is that reading.
LEMMA RateStamp == ASSUME NEW rate PROVE [rate |-> rate] = Stamp([rate |-> rate], {"rate"})
  BY DEF Stamp

\* The controls of a processor are levels, its switches are off or on.
LEMMA SettingsAllow ==
    ASSUME NEW model \in Processors \ {"Cascade"}, NEW c \in Settings(model),
           NEW n \in Controls(model)
    PROVE  /\ n \in Switches => c[n] \in {0, 1}
           /\ n \notin Switches => c[n] \in ControlLevels
  BY DEF Settings, Processors

\* Controls that are no switches are levels of a ramp.
LEMMA SettingsAllowed ==
    ASSUME NEW model \in Processors \ {"Cascade"}, NEW c \in Settings(model),
           NEW names, names \subseteq Controls(model), names \cap Switches = {}
    PROVE  Allowed(c, names, Steps) /\ Allowed(c, names, Gains)
  BY SettingsAllow DEF Allowed, Steps, Gains

ThickMemory == ThickBody \cup ThickSource \cup ThickWet \cup ThickChannels \cup
               {"sourcePeak", "fullBandPeak", "transientPeak", "transientGain",
                "bodyLevelMix", "positiveLevelMix"}
SaturationMemory == Bands \cup {"lowCrossover", "midCrossover", "detectorEnvelope",
                                "envelopeWeight"}

\* The registers Thick clears are all it has (Thick::reset).
LEMMA ThickClearsAll ==
    ThickBody \cup ThickChannels \cup ThickSource \cup ThickWet \cup
    {"sourcePeak", "fullBandPeak", "transientPeak", "transientGain",
     "bodyLevelMix", "positiveLevelMix"} = ThickMemory
  BY DEF ThickMemory
-----------------------------------------------------------------------------
(* Limiter.                                                                 *)

\* A new Limiter has its registers, keys and coefficients, at rest.
LEMMA LimiterLayout ==
    /\ Shape(LimiterNew, LimiterNew, Steps)
    /\ LimiterNew.kind = "Limiter" /\ LimiterNew.emu = FALSE
    /\ DOMAIN LimiterNew.ramp = {"ceilingDb"}
    /\ DOMAIN LimiterNew.flag = {}
    /\ DOMAIN LimiterNew.key = {}
    /\ DOMAIN LimiterNew.coef = {"release"}
    /\ DOMAIN LimiterNew.mem = {"gain", "reductionDb"}
    /\ \A n \in DOMAIN LimiterNew.ramp : LimiterNew.ramp[n] = Ramp(0)
<1>1. 0 \in Steps
  BY DEF Steps, Gains
<1>2. PICK e, k : e = FALSE /\ k = "Limiter"
  OBVIOUS
<1>3. PICK ramps, flags, keys, coefs, mems :
        /\ ramps = {"ceilingDb"}
        /\ flags = {}
        /\ keys = {}
        /\ coefs = {"release"}
        /\ mems = {"gain", "reductionDb"}
  OBVIOUS
<1>4. PICK b : b = Blank(k, e, ramps, flags, keys, coefs, mems)
  OBVIOUS
<1>6. LimiterNew = b
  BY <1>2, <1>3, <1>4, Zenon DEF LimiterNew
<1> QED
  BY <1>1, <1>2, <1>3, <1>4, <1>6, BlankShape

LimiterReady(p, rate, c) == Ready(p, LimiterNew, Steps, rate, c, LimiterWanted([rate |-> rate]))

\* Preparing Limiter computes the coefficients of the rate.
LEMMA LimiterPrepared ==
    ASSUME NEW p, NEW rate, Shape(p, LimiterNew, Steps)
    PROVE  LET q == LimiterPrepare(p, rate)
           IN  /\ Shape(q, LimiterNew, Steps) /\ q.rate = rate /\ q.set = p.set
               /\ q.coef = LimiterWanted([rate |-> rate]) /\ q.mem = p.mem
<1>1. PICK q : q = LimiterPrepare(p, rate)
  OBVIOUS
<1>2. PICK s, coef, m : /\ s = [rate |-> rate]
                        /\ coef = [p.coef EXCEPT !.release = s]
                        /\ m = p.mem
  OBVIOUS
<1>3. /\ DOMAIN p = Fields /\ DOMAIN p.coef = {"release"}
  BY LimiterLayout DEF Shape, Has
<1>4. /\ Has(q, Fields) /\ q.rate = rate /\ q.set = p.set /\ q.kind = p.kind /\ q.emu = p.emu
      /\ q.ramp = p.ramp /\ q.flag = p.flag /\ q.key = p.key /\ q.mem = m
      /\ q.coef = coef
  BY <1>1, <1>2, <1>3 DEF LimiterPrepare, Shape, Has, Fields
<1>5. coef = LimiterWanted([rate |-> rate])
  BY <1>2, <1>3, LimiterLayout, RateStamp DEF Shape, Has, LimiterWanted
<1>6. Has(coef, {"release"})
  BY <1>2, <1>3, LimiterLayout DEF Has, Shape
<1>7. Has(m, DOMAIN LimiterNew.mem)
  BY <1>2, ClearIs DEF Shape
<1> QED
  BY <1>1, <1>2, <1>4, <1>5, <1>6, <1>7, LimiterLayout DEF Shape

\* New controls set the ramps of Limiter, which then has its contract.
LEMMA LimiterSet ==
    ASSUME NEW p, Shape(p, LimiterNew, Steps), p.coef = LimiterWanted([rate |-> p.rate]),
           NEW c \in Settings("Limiter")
    PROVE  LET q == LimiterSetControls([p EXCEPT !.set = c], c)
           IN  LimiterReady(q, p.rate, c) /\ Same(q, p, {"ramp", "set"})
<1>1. PICK b, k, names : b = LimiterNew /\ k = "Limiter" /\ names = {"ceilingDb"}
  OBVIOUS
<1>2. DOMAIN b.ramp = names
  BY <1>1, LimiterLayout
<1>4. Allowed(c, DOMAIN b.ramp, Steps) /\ Steps \subseteq Int
  BY <1>1, <1>2, SettingsAllowed, StepsAreNumbers DEF Controls, Processors, Switches, Optical
<1>5. PICK q : q = Aim([p EXCEPT !.set = c], c, DOMAIN b.ramp)
  OBVIOUS
<1>6. Ready(q, b, Steps, p.rate, c, p.coef) /\ Same(q, p, {"ramp", "set"})
  BY <1>1, <1>4, <1>5, AllAimed
<1>7. q = LimiterSetControls([p EXCEPT !.set = c], c)
  BY <1>1, <1>2, <1>5 DEF LimiterSetControls
<1> QED
  BY <1>1, <1>6, <1>7 DEF LimiterReady

\* A reset keeps the contract of Limiter.
LEMMA LimiterWiped ==
    ASSUME NEW p, NEW rate, NEW c, LimiterReady(p, rate, c)
    PROVE  LET q == LimiterReset(p)
           IN  LimiterReady(q, rate, c) /\ Same(q, p, {"ramp", "now", "mem"}) /\ q.now = Unset
BY Wiped DEF LimiterReady, LimiterReset, Wipe

\* Two of Limiter that were given the same controls are one once reset.
LEMMA LimiterResetsAlike ==
    ASSUME NEW p, NEW q, NEW rate, NEW c, LimiterReady(p, rate, c), LimiterReady(q, rate, c)
    PROVE  LimiterReset(p) = LimiterReset(q)
<1>1. PICK b, coef, registers : /\ b = LimiterNew /\ coef = LimiterWanted([rate |-> rate])
                                /\ registers = {"gain", "reductionDb"}
  OBVIOUS
<1>2. Ready(p, b, Steps, rate, c, coef) /\ Ready(q, b, Steps, rate, c, coef)
  BY <1>1 DEF LimiterReady
<1>3. p.flag = q.flag /\ p.key = q.key
  BY <1>1, <1>2, LimiterLayout, EmptyAlike DEF Ready, Shape
<1>4. DOMAIN b.mem \subseteq registers
  BY <1>1, LimiterLayout
<1>5. Wipe(p, registers) = Wipe(q, registers)
  BY <1>2, <1>3, <1>4, WipedAlike
<1>6. LimiterReset(p) = Wipe(p, registers)
  BY <1>1, Zenon DEF LimiterReset, Wipe
<1>7. LimiterReset(q) = Wipe(q, registers)
  BY <1>1, Zenon DEF LimiterReset, Wipe
<1> QED
  BY <1>5, <1>6, <1>7
-----------------------------------------------------------------------------
(* Air.                                                                     *)

\* A new Air has its registers, keys and coefficients, at rest.
LEMMA AirLayout ==
    /\ Shape(AirNew, AirNew, Steps)
    /\ AirNew.kind = "Air" /\ AirNew.emu = FALSE
    /\ DOMAIN AirNew.ramp = {"amount"}
    /\ DOMAIN AirNew.flag = {}
    /\ DOMAIN AirNew.key = {}
    /\ DOMAIN AirNew.coef = {"filters", "peak"}
    /\ DOMAIN AirNew.mem = {"channels", "inputPeak", "peakHold", "linearLevelGain"}
    /\ \A n \in DOMAIN AirNew.ramp : AirNew.ramp[n] = Ramp(0)
    /\ \A n \in DOMAIN AirNew.mem : AirNew.mem[n] = 0
<1>1. 0 \in Steps
  BY DEF Steps, Gains
<1>2. PICK e, k : e = FALSE /\ k = "Air"
  OBVIOUS
<1>3. PICK ramps, flags, keys, coefs, mems :
        /\ ramps = {"amount"}
        /\ flags = {}
        /\ keys = {}
        /\ coefs = {"filters", "peak"}
        /\ mems = {"channels", "inputPeak", "peakHold", "linearLevelGain"}
  OBVIOUS
<1>4. PICK b : b = Blank(k, e, ramps, flags, keys, coefs, mems)
  OBVIOUS
<1>6. AirNew = b
  BY <1>2, <1>3, <1>4, Zenon DEF AirNew
<1> QED
  BY <1>1, <1>2, <1>3, <1>4, <1>6, BlankShape

AirReady(p, rate, c) == Ready(p, AirNew, Steps, rate, c, AirWanted([rate |-> rate]))

\* Preparing Air computes the coefficients of the rate.
LEMMA AirPrepared ==
    ASSUME NEW p, NEW rate, Shape(p, AirNew, Steps)
    PROVE  LET q == AirPrepare(p, rate)
           IN  /\ Shape(q, AirNew, Steps) /\ q.rate = rate /\ q.set = p.set
               /\ q.coef = AirWanted([rate |-> rate]) /\ q.mem = p.mem
<1>1. PICK q : q = AirPrepare(p, rate)
  OBVIOUS
<1>2. PICK s, coef, m : /\ s = [rate |-> rate]
                        /\ coef = [p.coef EXCEPT !.peak = s, !.filters = s]
                        /\ m = p.mem
  OBVIOUS
<1>3. /\ DOMAIN p = Fields /\ DOMAIN p.coef = {"filters", "peak"}
  BY AirLayout DEF Shape, Has
<1>4. /\ Has(q, Fields) /\ q.rate = rate /\ q.set = p.set /\ q.kind = p.kind /\ q.emu = p.emu
      /\ q.ramp = p.ramp /\ q.flag = p.flag /\ q.key = p.key /\ q.mem = m
      /\ q.coef = coef
  BY <1>1, <1>2, <1>3 DEF AirPrepare, AirPrepareFilters, Shape, Has, Fields
<1>5. coef = AirWanted([rate |-> rate])
  BY <1>2, <1>3, AirLayout, RateStamp DEF Shape, Has, AirWanted
<1>6. Has(coef, {"filters", "peak"})
  BY <1>2, <1>3, AirLayout DEF Has, Shape
<1>7. Has(m, DOMAIN AirNew.mem)
  BY <1>2, ClearIs DEF Shape
<1> QED
  BY <1>1, <1>2, <1>4, <1>5, <1>6, <1>7, AirLayout DEF Shape

\* New controls set the ramps of Air, which then has its contract.
LEMMA AirSet ==
    ASSUME NEW p, Shape(p, AirNew, Steps), p.coef = AirWanted([rate |-> p.rate]),
           NEW c \in Settings("Air")
    PROVE  LET q == AirSetAmount([p EXCEPT !.set = c], c)
           IN  AirReady(q, p.rate, c) /\ Same(q, p, {"ramp", "set"})
<1>1. PICK b, k, names : b = AirNew /\ k = "Air" /\ names = {"amount"}
  OBVIOUS
<1>2. DOMAIN b.ramp = names
  BY <1>1, AirLayout
<1>4. Allowed(c, DOMAIN b.ramp, Steps) /\ Steps \subseteq Int
  BY <1>1, <1>2, SettingsAllowed, StepsAreNumbers DEF Controls, Processors, Switches, Optical
<1>5. PICK q : q = Aim([p EXCEPT !.set = c], c, DOMAIN b.ramp)
  OBVIOUS
<1>6. Ready(q, b, Steps, p.rate, c, p.coef) /\ Same(q, p, {"ramp", "set"})
  BY <1>1, <1>4, <1>5, AllAimed
<1>7. q = AirSetAmount([p EXCEPT !.set = c], c)
  BY <1>1, <1>2, <1>5 DEF AirSetAmount
<1> QED
  BY <1>1, <1>6, <1>7 DEF AirReady

\* A reset keeps the contract of Air.
LEMMA AirWiped ==
    ASSUME NEW p, NEW rate, NEW c, AirReady(p, rate, c)
    PROVE  LET q == AirReset(p)
           IN  AirReady(q, rate, c) /\ Same(q, p, {"ramp", "now", "mem"}) /\ q.now = Unset
BY Wiped DEF AirReady, AirReset, Wipe

\* Two of Air that were given the same controls are one once reset.
LEMMA AirResetsAlike ==
    ASSUME NEW p, NEW q, NEW rate, NEW c, AirReady(p, rate, c), AirReady(q, rate, c)
    PROVE  AirReset(p) = AirReset(q)
<1>1. PICK b, coef, registers : /\ b = AirNew /\ coef = AirWanted([rate |-> rate])
                                /\ registers = {"channels", "inputPeak", "peakHold", "linearLevelGain"}
  OBVIOUS
<1>2. Ready(p, b, Steps, rate, c, coef) /\ Ready(q, b, Steps, rate, c, coef)
  BY <1>1 DEF AirReady
<1>3. p.flag = q.flag /\ p.key = q.key
  BY <1>1, <1>2, AirLayout, EmptyAlike DEF Ready, Shape
<1>4. DOMAIN b.mem \subseteq registers
  BY <1>1, AirLayout
<1>5. Wipe(p, registers) = Wipe(q, registers)
  BY <1>2, <1>3, <1>4, WipedAlike
<1>6. AirReset(p) = Wipe(p, registers)
  BY <1>1, Zenon DEF AirReset, Wipe
<1>7. AirReset(q) = Wipe(q, registers)
  BY <1>1, Zenon DEF AirReset, Wipe
<1> QED
  BY <1>5, <1>6, <1>7
-----------------------------------------------------------------------------
(* Thick.                                                                   *)

\* A new Thick has its registers, keys and coefficients, at rest.
LEMMA ThickLayout ==
    /\ Shape(ThickNew, ThickNew, Steps)
    /\ ThickNew.kind = "Thick" /\ ThickNew.emu = FALSE
    /\ DOMAIN ThickNew.ramp = {"amount"}
    /\ DOMAIN ThickNew.flag = {}
    /\ DOMAIN ThickNew.key = {}
    /\ DOMAIN ThickNew.coef = {"denseTail", "body", "source"}
    /\ DOMAIN ThickNew.mem = ThickMemory
    /\ \A n \in DOMAIN ThickNew.ramp : ThickNew.ramp[n] = Ramp(0)
<1>1. 0 \in Steps
  BY DEF Steps, Gains
<1>2. PICK e, k : e = FALSE /\ k = "Thick"
  OBVIOUS
<1>3. PICK ramps, flags, keys, coefs, mems :
        /\ ramps = {"amount"}
        /\ flags = {}
        /\ keys = {}
        /\ coefs = {"denseTail", "body", "source"}
        /\ mems = ThickMemory
  OBVIOUS
<1>4. PICK b : b = Blank(k, e, ramps, flags, keys, coefs, mems)
  OBVIOUS
<1>6. ThickNew = b
  BY <1>2, <1>3, <1>4, Zenon DEF ThickNew, ThickMemory
<1> QED
  BY <1>1, <1>2, <1>3, <1>4, <1>6, BlankShape

ThickReady(p, rate, c) == Ready(p, ThickNew, Steps, rate, c, ThickWanted([rate |-> rate]))

\* Preparing Thick computes the coefficients of the rate.
LEMMA ThickPrepared ==
    ASSUME NEW p, NEW rate, Shape(p, ThickNew, Steps)
    PROVE  LET q == ThickPrepare(p, rate)
           IN  /\ Shape(q, ThickNew, Steps) /\ q.rate = rate /\ q.set = p.set
               /\ q.coef = ThickWanted([rate |-> rate]) /\ q.mem = Clear(p.mem, ThickBody)
<1>1. PICK q : q = ThickPrepare(p, rate)
  OBVIOUS
<1>2. PICK s, coef, m : /\ s = [rate |-> rate]
                        /\ coef = [p.coef EXCEPT !.denseTail = << >>, !.body = s, !.source = s]
                        /\ m = Clear(p.mem, ThickBody)
  OBVIOUS
<1>3. /\ DOMAIN p = Fields /\ DOMAIN p.coef = {"denseTail", "body", "source"}
  BY ThickLayout DEF Shape, Has
<1>4. /\ Has(q, Fields) /\ q.rate = rate /\ q.set = p.set /\ q.kind = p.kind /\ q.emu = p.emu
      /\ q.ramp = p.ramp /\ q.flag = p.flag /\ q.key = p.key /\ q.mem = m
      /\ q.coef = coef
  BY <1>1, <1>2, <1>3 DEF ThickPrepare, ThickPrepareSourceAndDynamics, ThickPrepareBodyFilters, Shape, Has, Fields
<1>5. coef = ThickWanted([rate |-> rate])
  BY <1>2, <1>3, ThickLayout, RateStamp DEF Shape, Has, ThickWanted
<1>6. Has(coef, {"denseTail", "body", "source"})
  BY <1>2, <1>3, ThickLayout DEF Has, Shape
<1>7. Has(m, DOMAIN ThickNew.mem)
  BY <1>2, ClearIs DEF Shape
<1> QED
  BY <1>1, <1>2, <1>4, <1>5, <1>6, <1>7, ThickLayout DEF Shape

\* New controls set the ramps of Thick, which then has its contract.
LEMMA ThickSet ==
    ASSUME NEW p, Shape(p, ThickNew, Steps), p.coef = ThickWanted([rate |-> p.rate]),
           NEW c \in Settings("Thick")
    PROVE  LET q == ThickSetAmount([p EXCEPT !.set = c], c)
           IN  ThickReady(q, p.rate, c) /\ Same(q, p, {"ramp", "set"})
<1>1. PICK b, k, names : b = ThickNew /\ k = "Thick" /\ names = {"amount"}
  OBVIOUS
<1>2. DOMAIN b.ramp = names
  BY <1>1, ThickLayout
<1>4. Allowed(c, DOMAIN b.ramp, Steps) /\ Steps \subseteq Int
  BY <1>1, <1>2, SettingsAllowed, StepsAreNumbers DEF Controls, Processors, Switches, Optical
<1>5. PICK q : q = Aim([p EXCEPT !.set = c], c, DOMAIN b.ramp)
  OBVIOUS
<1>6. Ready(q, b, Steps, p.rate, c, p.coef) /\ Same(q, p, {"ramp", "set"})
  BY <1>1, <1>4, <1>5, AllAimed
<1>7. q = ThickSetAmount([p EXCEPT !.set = c], c)
  BY <1>1, <1>2, <1>5 DEF ThickSetAmount
<1> QED
  BY <1>1, <1>6, <1>7 DEF ThickReady

\* A reset keeps the contract of Thick.
LEMMA ThickWiped ==
    ASSUME NEW p, NEW rate, NEW c, ThickReady(p, rate, c)
    PROVE  LET q == ThickReset(p)
           IN  ThickReady(q, rate, c) /\ Same(q, p, {"ramp", "now", "mem"}) /\ q.now = Unset
BY Wiped, ThickClearsAll DEF ThickReady, ThickReset, Wipe

\* Two of Thick that were given the same controls are one once reset.
LEMMA ThickResetsAlike ==
    ASSUME NEW p, NEW q, NEW rate, NEW c, ThickReady(p, rate, c), ThickReady(q, rate, c)
    PROVE  ThickReset(p) = ThickReset(q)
<1>1. PICK b, coef, registers : /\ b = ThickNew /\ coef = ThickWanted([rate |-> rate])
                                /\ registers = ThickMemory
  OBVIOUS
<1>2. Ready(p, b, Steps, rate, c, coef) /\ Ready(q, b, Steps, rate, c, coef)
  BY <1>1 DEF ThickReady
<1>3. p.flag = q.flag /\ p.key = q.key
  BY <1>1, <1>2, ThickLayout, EmptyAlike DEF Ready, Shape
<1>4. DOMAIN b.mem \subseteq registers
  BY <1>1, ThickLayout
<1>5. Wipe(p, registers) = Wipe(q, registers)
  BY <1>2, <1>3, <1>4, WipedAlike
<1>6. ThickReset(p) = Wipe(p, registers)
  BY <1>1, ThickClearsAll, Zenon DEF ThickReset, Wipe
<1>7. ThickReset(q) = Wipe(q, registers)
  BY <1>1, ThickClearsAll, Zenon DEF ThickReset, Wipe
<1> QED
  BY <1>5, <1>6, <1>7
-----------------------------------------------------------------------------
(* Saturation.                                                              *)

\* A new Saturation has its registers, keys and coefficients, at rest.
LEMMA SaturationLayout ==
    /\ Shape(SaturationNew, SaturationNew, Steps)
    /\ SaturationNew.kind = "Saturation" /\ SaturationNew.emu = FALSE
    /\ DOMAIN SaturationNew.ramp = {"drive", "curve", "split"}
    /\ DOMAIN SaturationNew.flag = {}
    /\ DOMAIN SaturationNew.key = {}
    /\ DOMAIN SaturationNew.coef = {"envelope", "crossover"}
    /\ DOMAIN SaturationNew.mem = SaturationMemory
    /\ \A n \in DOMAIN SaturationNew.ramp : SaturationNew.ramp[n] = Ramp(0)
<1>1. 0 \in Steps
  BY DEF Steps, Gains
<1>2. PICK e, k : e = FALSE /\ k = "Saturation"
  OBVIOUS
<1>3. PICK ramps, flags, keys, coefs, mems :
        /\ ramps = {"drive", "curve", "split"}
        /\ flags = {}
        /\ keys = {}
        /\ coefs = {"envelope", "crossover"}
        /\ mems = SaturationMemory
  OBVIOUS
<1>4. PICK b : b = Blank(k, e, ramps, flags, keys, coefs, mems)
  OBVIOUS
<1>6. SaturationNew = b
  BY <1>2, <1>3, <1>4, Zenon DEF SaturationNew, SaturationMemory
<1> QED
  BY <1>1, <1>2, <1>3, <1>4, <1>6, BlankShape

SaturationReady(p, rate, c) == Ready(p, SaturationNew, Steps, rate, c, SaturationWanted([rate |-> rate]))

\* Preparing Saturation computes the coefficients of the rate.
LEMMA SaturationPrepared ==
    ASSUME NEW p, NEW rate, Shape(p, SaturationNew, Steps)
    PROVE  LET q == SaturationPrepare(p, rate)
           IN  /\ Shape(q, SaturationNew, Steps) /\ q.rate = rate /\ q.set = p.set
               /\ q.coef = SaturationWanted([rate |-> rate]) /\ q.mem = p.mem
<1>1. PICK q : q = SaturationPrepare(p, rate)
  OBVIOUS
<1>2. PICK s, coef, m : /\ s = [rate |-> rate]
                        /\ coef = [p.coef EXCEPT !.envelope = s, !.crossover = s]
                        /\ m = p.mem
  OBVIOUS
<1>3. /\ DOMAIN p = Fields /\ DOMAIN p.coef = {"envelope", "crossover"}
  BY SaturationLayout DEF Shape, Has
<1>4. /\ Has(q, Fields) /\ q.rate = rate /\ q.set = p.set /\ q.kind = p.kind /\ q.emu = p.emu
      /\ q.ramp = p.ramp /\ q.flag = p.flag /\ q.key = p.key /\ q.mem = m
      /\ q.coef = coef
  BY <1>1, <1>2, <1>3 DEF SaturationPrepare, Shape, Has, Fields
<1>5. coef = SaturationWanted([rate |-> rate])
  BY <1>2, <1>3, SaturationLayout, RateStamp DEF Shape, Has, SaturationWanted
<1>6. Has(coef, {"envelope", "crossover"})
  BY <1>2, <1>3, SaturationLayout DEF Has, Shape
<1>7. Has(m, DOMAIN SaturationNew.mem)
  BY <1>2, ClearIs DEF Shape
<1> QED
  BY <1>1, <1>2, <1>4, <1>5, <1>6, <1>7, SaturationLayout DEF Shape

\* New controls set the ramps of Saturation, which then has its contract.
LEMMA SaturationSet ==
    ASSUME NEW p, Shape(p, SaturationNew, Steps), p.coef = SaturationWanted([rate |-> p.rate]),
           NEW c \in Settings("Saturation")
    PROVE  LET q == SaturationSetControls([p EXCEPT !.set = c], c)
           IN  SaturationReady(q, p.rate, c) /\ Same(q, p, {"ramp", "set"})
<1>1. PICK b, k, names : b = SaturationNew /\ k = "Saturation" /\ names = {"drive", "curve", "split"}
  OBVIOUS
<1>2. DOMAIN b.ramp = names
  BY <1>1, SaturationLayout
<1>4. Allowed(c, DOMAIN b.ramp, Steps) /\ Steps \subseteq Int
  BY <1>1, <1>2, SettingsAllowed, StepsAreNumbers DEF Controls, Processors, Switches, Optical
<1>5. PICK q : q = Aim([p EXCEPT !.set = c], c, DOMAIN b.ramp)
  OBVIOUS
<1>6. Ready(q, b, Steps, p.rate, c, p.coef) /\ Same(q, p, {"ramp", "set"})
  BY <1>1, <1>4, <1>5, AllAimed
<1>7. q = SaturationSetControls([p EXCEPT !.set = c], c)
  BY <1>1, <1>2, <1>5 DEF SaturationSetControls
<1> QED
  BY <1>1, <1>6, <1>7 DEF SaturationReady

-----------------------------------------------------------------------------
(* Samples.                                                                  *)

\* x is p that has read its controls and charged registers, at most.
Hears(x, p, b, L, in) == Shape(x, b, L) /\ Same(x, p, {"now", "mem"}) /\ x.now = in

\* Recording what a sample reads changes nothing else.
LEMMA Listening ==
    ASSUME NEW b, NEW L, NEW p, Shape(p, b, L), NEW in
    PROVE  LET q == [p EXCEPT !.now = in]
           IN  Hears(q, p, b, L, in) /\ q.mem = p.mem
BY DEF Shape, Has, Fields, Hears, Same

\* Storing registers changes nothing else.
LEMMA Charging ==
    ASSUME NEW b, NEW L, NEW p, NEW x, NEW in, Hears(x, p, b, L, in), NEW m, Has(m, DOMAIN b.mem)
    PROVE  LET q == [x EXCEPT !.mem = m]
           IN  Hears(q, p, b, L, in) /\ q.mem = m
BY DEF Hears, Shape, Has, Fields, Same

\* Charging registers changes nothing else.
LEMMA Charged ==
    ASSUME NEW b, NEW L, NEW p, NEW x, NEW in, Hears(x, p, b, L, in), NEW registers, NEW loud
    PROVE  LET q == [x EXCEPT !.mem = Charge(@, registers, loud)]
           IN  /\ Hears(q, p, b, L, in)
               /\ q.mem = Charge(x.mem, registers, loud)
<1>1. PICK m : m = Charge(x.mem, registers, loud)
  OBVIOUS
<1>2. Has(m, DOMAIN b.mem)
  BY <1>1, ChargeIs DEF Hears, Shape
<1> QED
  BY <1>1, <1>2, Charging

\* The same, for registers that are charged twice.
LEMMA ChargedTwice ==
    ASSUME NEW b, NEW L, NEW p, NEW x, NEW in, Hears(x, p, b, L, in),
           NEW registers, NEW loud, NEW others, NEW level
    PROVE  LET q == [x EXCEPT !.mem = Charge(Charge(@, registers, loud), others, level)]
           IN  /\ Hears(q, p, b, L, in)
               /\ q.mem = Charge(Charge(x.mem, registers, loud), others, level)
<1>1. PICK m, n : m = Charge(x.mem, registers, loud) /\ n = Charge(m, others, level)
  OBVIOUS
<1>2. Has(m, DOMAIN b.mem)
  BY <1>1, ChargeIs DEF Hears, Shape
<1>3. Has(n, DOMAIN b.mem)
  BY <1>1, <1>2, ChargeIs
<1> QED
  BY <1>1, <1>3, Charging

\* q is p after a sample that read in and left mem.
Sounded(q, p, in, mem) == Same(q, p, {"ramp", "now", "mem"}) /\ q.now = in /\ q.mem = mem

\* A sample that read its inputs, stored its registers and advanced the ramps keeps the contract.
LEMMA HeardRan ==
    ASSUME NEW b, NEW L, L \subseteq Int, NEW p, NEW rate, NEW c, NEW coef,
           Ready(p, b, L, rate, c, coef), NEW x, NEW in, Hears(x, p, b, L, in)
    PROVE  LET q == AdvanceRamps(x)
           IN  Ready(q, b, L, rate, c, coef) /\ Sounded(q, p, in, x.mem)
<1>1. PICK q : q = AdvanceRamps(x)
  OBVIOUS
<1>2. /\ Shape(q, b, L) /\ Same(q, x, {"ramp"})
      /\ \A n \in DOMAIN b.ramp : q.ramp[n].target = x.ramp[n].target
  BY <1>1, AdvancedShape, ZenonT(60) DEF Hears
<1>3. x.ramp = p.ramp /\ x.rate = p.rate /\ x.set = p.set /\ x.coef = p.coef /\ x.now = in
  BY DEF Hears, Same, Fields
<1>5. Same(q, p, {"ramp", "now", "mem"})
  BY <1>2 DEF Same, Fields, Hears
<1>6. Follows(q, b, c)
  BY <1>2, <1>3 DEF Follows, Ready
<1> QED
  BY <1>1, <1>2, <1>3, <1>5, <1>6 DEF Ready, Sounded, Same, Fields

\* A sample of Thick reads the rate it was prepared for.
LEMMA ThickReads ==
    ASSUME NEW p, NEW rate, NEW c, ThickReady(p, rate, c)
    PROVE  ThickWanted(Reading(p)) = ThickWanted([rate |-> rate])
<1>1. PICK b, in : b = ThickNew /\ in = Reading(p)
  OBVIOUS
<1>2. Shape(p, b, Steps) /\ p.rate = rate
  BY <1>1 DEF ThickReady, Ready
<1>3. "rate" \notin DOMAIN b.ramp \cup DOMAIN b.flag
  BY <1>1, ThickLayout
<1>4. in.rate = rate
  BY <1>1, <1>2, <1>3, ReadingIs
<1> QED
  BY <1>1, <1>4, StampRate DEF ThickWanted

\* A sample keeps the contract of Thick, and its coefficients are those of what it read.
LEMMA ThickRan ==
    ASSUME NEW p, NEW rate, NEW c, ThickReady(p, rate, c), NEW loud
    PROVE  LET q == ThickProcess(p, loud)
           IN  /\ ThickReady(q, rate, c) /\ Same(q, p, {"ramp", "now", "mem"})
               /\ q.coef = ThickWanted(q.now)
<1>1. PICK b, coef, in : b = ThickNew /\ coef = ThickWanted([rate |-> rate]) /\ in = Reading(p)
  OBVIOUS
<1>2. Ready(p, b, Steps, rate, c, coef) /\ Steps \subseteq Int
  BY <1>1, StepsAreNumbers DEF ThickReady
<1>3. PICK x0 : x0 = [p EXCEPT !.now = in]
  OBVIOUS
<1>4. Hears(x0, p, b, Steps, in)
  BY <1>2, <1>3, Listening DEF Ready
<1>5. PICK x1 : x1 = ThickProcessBodyPaths(x0, loud)
  OBVIOUS
<1>6. Hears(x1, p, b, Steps, in)
  BY <1>4, <1>5, Charged, ChargedTwice DEF ThickProcessBodyPaths
<1>7. PICK x2 : x2 = [x1 EXCEPT !.mem = Charge(@, {"sourceStartupWeight"}, 1)]
  OBVIOUS
<1>8. Hears(x2, p, b, Steps, in)
  BY <1>6, <1>7, Charged, ChargedTwice
<1>9. PICK x3 : x3 = [x2 EXCEPT !.mem = Charge(@, {"rumble", "source", "sourcePower", "fullBandPower"}, loud)]
  OBVIOUS
<1>10. Hears(x3, p, b, Steps, in)
  BY <1>8, <1>9, Charged, ChargedTwice
<1>11. PICK x4 : x4 = [x3 EXCEPT !.mem = Charge(@, {"sourcePeak", "fullBandPeak"}, loud)]
  OBVIOUS
<1>12. Hears(x4, p, b, Steps, in)
  BY <1>10, <1>11, Charged, ChargedTwice
<1>13. PICK x5 : x5 = ThickUpdateCrestGain(x4)
  OBVIOUS
<1>14. Hears(x5, p, b, Steps, in)
  BY <1>12, <1>13, Charged, ChargedTwice DEF ThickUpdateCrestGain
<1>15. PICK x6 : x6 = ThickUpdateBodyLevelMix(x5)
  OBVIOUS
<1>16. Hears(x6, p, b, Steps, in)
  BY <1>14, <1>15, Charged, ChargedTwice DEF ThickUpdateBodyLevelMix
<1>17. PICK x7 : x7 = ThickGenerateHarmonicBands(x6)
  OBVIOUS
<1>18. Hears(x7, p, b, Steps, in)
  BY <1>16, <1>17, Charged, ChargedTwice DEF ThickGenerateHarmonicBands
<1>19. PICK x8 : x8 = ThickUpdateWetGain(x7)
  OBVIOUS
<1>20. Hears(x8, p, b, Steps, in)
  BY <1>18, <1>19, Charged, ChargedTwice DEF ThickUpdateWetGain
<1>21. PICK q : q = AdvanceRamps(x8)
  OBVIOUS
<1>22. Ready(q, b, Steps, rate, c, coef) /\ Sounded(q, p, in, x8.mem)
  BY <1>2, <1>20, <1>21, HeardRan
<1>23. q = ThickProcess(p, loud)
  BY <1>1, <1>3, <1>5, <1>7, <1>9, <1>11, <1>13, <1>15, <1>17, <1>19, <1>21, Zenon DEF ThickProcess, ThickUpdateSourceControls, ThickAnalyseSource
<1> QED
  BY <1>1, <1>22, <1>23, ThickReads DEF ThickReady, Ready, Sounded
\* A sample of Limiter reads the rate it was prepared for.
LEMMA LimiterReads ==
    ASSUME NEW p, NEW rate, NEW c, LimiterReady(p, rate, c)
    PROVE  LimiterWanted(Reading(p)) = LimiterWanted([rate |-> rate])
<1>1. PICK b, in : b = LimiterNew /\ in = Reading(p)
  OBVIOUS
<1>2. Shape(p, b, Steps) /\ p.rate = rate
  BY <1>1 DEF LimiterReady, Ready
<1>3. "rate" \notin DOMAIN b.ramp \cup DOMAIN b.flag
  BY <1>1, LimiterLayout
<1>4. in.rate = rate
  BY <1>1, <1>2, <1>3, ReadingIs
<1> QED
  BY <1>1, <1>4, StampRate DEF LimiterWanted

\* A sample keeps the contract of Limiter, and its coefficients are those of what it read.
LEMMA LimiterRan ==
    ASSUME NEW p, NEW rate, NEW c, LimiterReady(p, rate, c), NEW loud
    PROVE  LET q == LimiterProcess(p, loud)
           IN  /\ LimiterReady(q, rate, c) /\ Same(q, p, {"ramp", "now", "mem"})
               /\ q.coef = LimiterWanted(q.now)
<1>1. PICK b, coef, in : b = LimiterNew /\ coef = LimiterWanted([rate |-> rate]) /\ in = Reading(p)
  OBVIOUS
<1>2. Ready(p, b, Steps, rate, c, coef) /\ Steps \subseteq Int
  BY <1>1, StepsAreNumbers DEF LimiterReady
<1>3. PICK x0 : x0 = [p EXCEPT !.now = in]
  OBVIOUS
<1>4. Hears(x0, p, b, Steps, in) /\ x0.mem = p.mem
  BY <1>2, <1>3, Listening DEF Ready
<1>5. PICK g : g = IF loud > LimiterCeiling(p) THEN 2 ELSE Higher(p.mem.gain - 1, 0)
  OBVIOUS
<1>6. PICK m : m = [gain |-> g, reductionDb |-> g]
  OBVIOUS
<1>7. Has(m, DOMAIN b.mem)
  BY <1>1, <1>6, LimiterLayout DEF Has
<1>8. PICK x1 : x1 = [x0 EXCEPT !.mem = m]
  OBVIOUS
<1>9. Hears(x1, p, b, Steps, in)
  BY <1>4, <1>7, <1>8, Charging
<1>10. PICK q : q = AdvanceRamps(x1)
  OBVIOUS
<1>11. Ready(q, b, Steps, rate, c, coef) /\ Sounded(q, p, in, x1.mem)
  BY <1>2, <1>9, <1>10, HeardRan
<1>12. q = LimiterProcess(p, loud)
  BY <1>1, <1>3, <1>5, <1>6, <1>8, <1>10, Zenon DEF LimiterProcess
<1> QED
  BY <1>1, <1>11, <1>12, LimiterReads DEF LimiterReady, Ready, Sounded
\* A sample of Saturation reads the rate it was prepared for.
LEMMA SaturationReads ==
    ASSUME NEW p, NEW rate, NEW c, SaturationReady(p, rate, c)
    PROVE  SaturationWanted(Reading(p)) = SaturationWanted([rate |-> rate])
<1>1. PICK b, in : b = SaturationNew /\ in = Reading(p)
  OBVIOUS
<1>2. Shape(p, b, Steps) /\ p.rate = rate
  BY <1>1 DEF SaturationReady, Ready
<1>3. "rate" \notin DOMAIN b.ramp \cup DOMAIN b.flag
  BY <1>1, SaturationLayout
<1>4. in.rate = rate
  BY <1>1, <1>2, <1>3, ReadingIs
<1> QED
  BY <1>1, <1>4, StampRate DEF SaturationWanted

\* A sample keeps the contract of Saturation, and its coefficients are those of what it read.
LEMMA SaturationRan ==
    ASSUME NEW p, NEW rate, NEW c, SaturationReady(p, rate, c), NEW loud
    PROVE  LET q == SaturationProcess(p, loud)
           IN  /\ SaturationReady(q, rate, c) /\ Same(q, p, {"ramp", "now", "mem"})
               /\ q.coef = SaturationWanted(q.now)
<1>1. PICK b, coef, in : b = SaturationNew /\ coef = SaturationWanted([rate |-> rate]) /\ in = Reading(p)
  OBVIOUS
<1>2. Ready(p, b, Steps, rate, c, coef) /\ Steps \subseteq Int
  BY <1>1, StepsAreNumbers DEF SaturationReady
<1>3. PICK x0 : x0 = [p EXCEPT !.now = in]
  OBVIOUS
<1>4. Hears(x0, p, b, Steps, in) /\ x0.mem = p.mem
  BY <1>2, <1>3, Listening DEF Ready
<1>5. PICK m1, m2, m3 :
        /\ m1 = Charge(p.mem, {"detectorEnvelope", "envelopeWeight"}, loud)
        /\ m2 = Charge(m1, {"wide"}, loud)
        /\ m3 = Charge(m2, {"lowCrossover", "midCrossover"}, loud)
  OBVIOUS
<1>6. PICK m4, m5, m6 :
        /\ m4 = Charge(m3, {"low"}, loud)
        /\ m5 = Charge(m4, {"mid"}, loud)
        /\ m6 = Charge(m5, {"high"}, loud)
  OBVIOUS
<1>7. Has(m1, DOMAIN b.mem) /\ Has(m2, DOMAIN b.mem) /\ Has(m3, DOMAIN b.mem)
  <2>1. Has(p.mem, DOMAIN b.mem)
    BY <1>2 DEF Ready, Shape
  <2> QED
    BY <1>5, <2>1, ChargeIs
<1>8. Has(m4, DOMAIN b.mem) /\ Has(m5, DOMAIN b.mem) /\ Has(m6, DOMAIN b.mem)
  BY <1>6, <1>7, ChargeIs
<1>9. PICK x1 : x1 = [x0 EXCEPT !.mem = m6]
  OBVIOUS
<1>10. Hears(x1, p, b, Steps, in)
  BY <1>4, <1>8, <1>9, Charging
<1>11. PICK q : q = AdvanceRamps(x1)
  OBVIOUS
<1>12. Ready(q, b, Steps, rate, c, coef) /\ Sounded(q, p, in, x1.mem)
  BY <1>2, <1>10, <1>11, HeardRan
<1>13. q = SaturationProcess(p, loud)
  BY <1>1, <1>3, <1>5, <1>6, <1>9, <1>11, Zenon DEF SaturationProcess, ProcessBand
<1> QED
  BY <1>1, <1>12, <1>13, SaturationReads DEF SaturationReady, Ready, Sounded

\* The contour's gain is always that of the peak held.
AirInv(p, rate, c) == AirReady(p, rate, c) /\ p.mem.linearLevelGain = p.mem.inputPeak

\* A sample of Air reads the rate it was prepared for.
LEMMA AirReads ==
    ASSUME NEW p, NEW rate, NEW c, AirReady(p, rate, c)
    PROVE  AirWanted(Reading(p)) = AirWanted([rate |-> rate])
<1>1. PICK b, in : b = AirNew /\ in = Reading(p)
  OBVIOUS
<1>2. Shape(p, b, Steps) /\ p.rate = rate
  BY <1>1 DEF AirReady, Ready
<1>3. "rate" \notin DOMAIN b.ramp \cup DOMAIN b.flag
  BY <1>1, AirLayout
<1>4. in.rate = rate
  BY <1>1, <1>2, <1>3, ReadingIs
<1> QED
  BY <1>1, <1>4, StampRate DEF AirWanted

\* A sample keeps the contract of Air, and its coefficients are those of what it read.
LEMMA AirRan ==
    ASSUME NEW p, NEW rate, NEW c, AirInv(p, rate, c), NEW loud
    PROVE  LET q == AirProcess(p, loud)
           IN  /\ AirInv(q, rate, c) /\ Same(q, p, {"ramp", "now", "mem"})
               /\ q.coef = AirWanted(q.now)
<1>1. PICK b, coef, in : b = AirNew /\ coef = AirWanted([rate |-> rate]) /\ in = Reading(p)
  OBVIOUS
<1>2. Ready(p, b, Steps, rate, c, coef) /\ Steps \subseteq Int
  BY <1>1, StepsAreNumbers DEF AirReady, AirInv
<1>3. PICK x0 : x0 = [p EXCEPT !.now = in]
  OBVIOUS
<1>4. Hears(x0, p, b, Steps, in) /\ x0.mem = p.mem
  BY <1>2, <1>3, Listening DEF Ready
<1>5. PICK peak, hold, gain :
        /\ peak = IF loud >= p.mem.inputPeak THEN loud
                  ELSE IF p.mem.peakHold > 0 THEN p.mem.inputPeak ELSE p.mem.inputPeak - 1
        /\ hold = IF loud >= p.mem.inputPeak THEN p.rate ELSE Higher(p.mem.peakHold - 1, 0)
        /\ gain = IF peak # p.mem.inputPeak THEN peak ELSE p.mem.linearLevelGain
  OBVIOUS
<1>6. gain = peak
  BY <1>5 DEF AirInv
<1>7. PICK m : m = [p.mem EXCEPT !.inputPeak = peak, !.peakHold = hold, !.linearLevelGain = gain]
  OBVIOUS
<1>8. Has(p.mem, DOMAIN b.mem) /\ DOMAIN p.mem = {"channels", "inputPeak", "peakHold", "linearLevelGain"}
  BY <1>1, <1>2, AirLayout DEF Ready, Shape, Has
<1>9. Has(m, DOMAIN b.mem) /\ m.linearLevelGain = m.inputPeak
  BY <1>6, <1>7, <1>8 DEF Has
<1>10. PICK x1 : x1 = [x0 EXCEPT !.mem = m]
  OBVIOUS
<1>11. Hears(x1, p, b, Steps, in) /\ x1.mem = m
  BY <1>4, <1>9, <1>10, Charging
<1>12. PICK x2 : x2 = [x1 EXCEPT !.mem = Charge(@, {"channels"}, loud)]
  OBVIOUS
<1>13. Hears(x2, p, b, Steps, in) /\ x2.mem = Charge(m, {"channels"}, loud)
  BY <1>11, <1>12, Charged
<1>14. PICK x3 : x3 = [x2 EXCEPT !.mem = Charge(@, {"channels"}, loud)]
  OBVIOUS
<1>15. Hears(x3, p, b, Steps, in) /\ x3.mem = Charge(x2.mem, {"channels"}, loud)
  BY <1>13, <1>14, Charged
<1>16. PICK q : q = AdvanceRamps(x3)
  OBVIOUS
<1>17. Ready(q, b, Steps, rate, c, coef) /\ Sounded(q, p, in, x3.mem)
  BY <1>2, <1>15, <1>16, HeardRan
<1>18. x3.mem.linearLevelGain = x3.mem.inputPeak
  BY <1>8, <1>9, <1>13, <1>15 DEF Charge, Has
<1>19. q = AirProcess(p, loud)
  <2>1. PICK y : y = AirUpdateInputLevel(x0, loud)
    OBVIOUS
  <2>2. x0.rate = p.rate
    BY <1>4 DEF Hears, Same, Fields
  <2>3. y = [x0 EXCEPT !.mem = m]
    BY <1>4, <1>5, <1>7, <1>8, <2>1, <2>2 DEF AirUpdateInputLevel
  <2> QED
    BY <1>1, <1>3, <1>10, <1>12, <1>14, <1>16, <2>1, <2>3, Zenon
       DEF AirProcess, AirProcessLinearAddition, AirProcessOddHarmonics
<1>20. AirReady(p, rate, c)
  BY DEF AirInv
<1> QED
  BY <1>1, <1>17, <1>18, <1>19, <1>20, AirReads DEF AirReady, AirInv, Ready, Sounded

-----------------------------------------------------------------------------
(* Controls of the tone processors and the limiter.                          *)

\* Limiter prepared and given its controls has its contract.
LEMMA LimiterMade ==
    ASSUME NEW p, NEW rate, Shape(p, LimiterNew, Steps), NEW c \in Settings("Limiter")
    PROVE  LimiterReady(LimiterSetControls([LimiterPrepare(p, rate) EXCEPT !.set = c], c), rate, c)
<1>1. PICK x : x = LimiterPrepare(p, rate)
  OBVIOUS
<1>2. Shape(x, LimiterNew, Steps) /\ x.rate = rate /\ x.coef = LimiterWanted([rate |-> rate])
  BY <1>1, LimiterPrepared
<1> QED
  BY <1>1, <1>2, LimiterSet

\* New controls keep the contract of Limiter.
LEMMA LimiterKept ==
    ASSUME NEW p, NEW rate, NEW d, LimiterReady(p, rate, d), NEW c \in Settings("Limiter")
    PROVE  LET q == LimiterSetControls([p EXCEPT !.set = c], c)
           IN  LimiterReady(q, rate, c) /\ Same(q, p, {"ramp", "set"})
  BY LimiterSet DEF LimiterReady, Ready

\* Thick prepared and given its controls has its contract.
LEMMA ThickMade ==
    ASSUME NEW p, NEW rate, Shape(p, ThickNew, Steps), NEW c \in Settings("Thick")
    PROVE  ThickReady(ThickSetAmount([ThickPrepare(p, rate) EXCEPT !.set = c], c), rate, c)
<1>1. PICK x : x = ThickPrepare(p, rate)
  OBVIOUS
<1>2. Shape(x, ThickNew, Steps) /\ x.rate = rate /\ x.coef = ThickWanted([rate |-> rate])
  BY <1>1, ThickPrepared
<1> QED
  BY <1>1, <1>2, ThickSet

\* New controls keep the contract of Thick.
LEMMA ThickKept ==
    ASSUME NEW p, NEW rate, NEW d, ThickReady(p, rate, d), NEW c \in Settings("Thick")
    PROVE  LET q == ThickSetAmount([p EXCEPT !.set = c], c)
           IN  ThickReady(q, rate, c) /\ Same(q, p, {"ramp", "set"})
  BY ThickSet DEF ThickReady, Ready

\* Saturation prepared and given its controls has its contract.
LEMMA SaturationMade ==
    ASSUME NEW p, NEW rate, Shape(p, SaturationNew, Steps), NEW c \in Settings("Saturation")
    PROVE  SaturationReady(SaturationSetControls([SaturationPrepare(p, rate) EXCEPT !.set = c], c), rate, c)
<1>1. PICK x : x = SaturationPrepare(p, rate)
  OBVIOUS
<1>2. Shape(x, SaturationNew, Steps) /\ x.rate = rate /\ x.coef = SaturationWanted([rate |-> rate])
  BY <1>1, SaturationPrepared
<1> QED
  BY <1>1, <1>2, SaturationSet

\* New controls keep the contract of Saturation.
LEMMA SaturationKept ==
    ASSUME NEW p, NEW rate, NEW d, SaturationReady(p, rate, d), NEW c \in Settings("Saturation")
    PROVE  LET q == SaturationSetControls([p EXCEPT !.set = c], c)
           IN  SaturationReady(q, rate, c) /\ Same(q, p, {"ramp", "set"})
  BY SaturationSet DEF SaturationReady, Ready

\* Air prepared and given its controls has its contract.
LEMMA AirMade ==
    ASSUME NEW p, NEW rate, Shape(p, AirNew, Steps), p.mem.linearLevelGain = p.mem.inputPeak,
           NEW c \in Settings("Air")
    PROVE  AirInv(AirSetAmount([AirPrepare(p, rate) EXCEPT !.set = c], c), rate, c)
<1>1. PICK x : x = AirPrepare(p, rate)
  OBVIOUS
<1>2. /\ Shape(x, AirNew, Steps) /\ x.rate = rate /\ x.coef = AirWanted([rate |-> rate])
      /\ x.mem = p.mem
  BY <1>1, AirPrepared
<1>3. PICK q : q = AirSetAmount([x EXCEPT !.set = c], c)
  OBVIOUS
<1>4. AirReady(q, rate, c) /\ Same(q, x, {"ramp", "set"})
  BY <1>2, <1>3, AirSet
<1>5. q.mem = p.mem
  BY <1>2, <1>4 DEF Same, Fields
<1> QED
  BY <1>1, <1>3, <1>4, <1>5 DEF AirInv

\* New controls keep the contract of Air.
LEMMA AirKept ==
    ASSUME NEW p, NEW rate, NEW d, AirInv(p, rate, d), NEW c \in Settings("Air")
    PROVE  LET q == AirSetAmount([p EXCEPT !.set = c], c)
           IN  AirInv(q, rate, c) /\ Same(q, p, {"ramp", "set"})
BY AirSet DEF AirInv, AirReady, Ready, Same, Fields

\* A reset keeps the contract of Air.
LEMMA AirForgot ==
    ASSUME NEW p, NEW rate, NEW c, AirInv(p, rate, c)
    PROVE  LET q == AirReset(p)
           IN  AirInv(q, rate, c) /\ Same(q, p, {"ramp", "now", "mem"}) /\ q.now = Unset
<1>1. PICK b, registers, coef : /\ b = AirNew /\ coef = AirWanted([rate |-> rate])
        /\ registers = {"channels", "inputPeak", "peakHold", "linearLevelGain"}
  OBVIOUS
<1>2. Ready(p, b, Steps, rate, c, coef)
  BY <1>1 DEF AirInv, AirReady
<1>3. PICK q : q = Wipe(p, registers)
  OBVIOUS
<1>4. /\ Ready(q, b, Steps, rate, c, coef) /\ Same(q, p, {"ramp", "now", "mem"})
      /\ q.now = Unset /\ q.mem = Clear(p.mem, registers)
  BY <1>2, <1>3, Wiped
<1>5. q = AirReset(p)
  BY <1>1, <1>3, Zenon DEF AirReset, Wipe
<1>6. q.mem = [n \in registers |-> 0]
  BY <1>1, <1>2, <1>4, AirLayout, ClearIs DEF Ready, Shape
<1>7. q.mem.linearLevelGain = q.mem.inputPeak
  BY <1>1, <1>6
<1> QED
  BY <1>1, <1>4, <1>5, <1>7 DEF AirInv, AirReady

\* The split mix starts again from the wide band.
LEMMA SaturationForgot ==
    ASSUME NEW p, NEW rate, NEW c \in Settings("Saturation"), SaturationReady(p, rate, c)
    PROVE  LET q == SaturationReset(p)
           IN  /\ SaturationReady(q, rate, c) /\ Same(q, p, {"ramp", "now", "mem"})
               /\ q.now = Unset /\ q.mem = [n \in SaturationMemory |-> 0]
               /\ q.ramp = [ResetRamps(p).ramp EXCEPT
                              !.split = RampSetTarget(RampReset(RampSetTarget(
                                  ResetRamps(p).ramp.split, 0)), c.split)]
<1>1. PICK b, registers, coef : /\ b = SaturationNew /\ coef = SaturationWanted([rate |-> rate])
                                /\ registers = SaturationMemory
  OBVIOUS
<1>2. /\ Ready(p, b, Steps, rate, c, coef) /\ Steps \subseteq Int /\ 0 \in Steps
      /\ DOMAIN b.ramp = {"drive", "curve", "split"} /\ DOMAIN b.mem = registers
  BY <1>1, SaturationLayout, StepsAreNumbers DEF SaturationReady, Steps
<1>3. PICK x : x = ResetRamps(p)
  OBVIOUS
<1>4. /\ Shape(x, b, Steps) /\ Same(x, p, {"ramp", "now"}) /\ x.now = Unset
      /\ \A n \in DOMAIN b.ramp : x.ramp[n].target = p.ramp[n].target
  BY <1>2, <1>3, ResetShape DEF Ready
<1>5. PICK t \in Steps : t = c.split
  BY SettingsAllow DEF Processors, Controls, Switches, Optical, Steps
<1>6. p.ramp.split.target = t
  BY <1>2, <1>5 DEF Ready, Follows
<1>7. PICK w0, w1, v : /\ w0 = RampSetTarget(x.ramp.split, 0) /\ w1 = RampReset(w0)
                       /\ v = RampSetTarget(w1, t)
  OBVIOUS
<1>8. RampIn(x.ramp.split, Steps)
  BY <1>2, <1>4 DEF Shape
<1>9. RampIn(w0, Steps)
  BY <1>2, <1>7, <1>8, SetTargetIn
<1>10. RampIn(w1, Steps)
  BY <1>7, <1>9, ResetIn
<1>11. RampIn(v, Steps) /\ v.target = t
  BY <1>2, <1>5, <1>7, <1>10, SetTargetIn
<1>12. PICK r, m : r = [x.ramp EXCEPT !.split = v] /\ m = Clear(x.mem, registers)
  OBVIOUS
<1>13. m = [n \in registers |-> 0]
  BY <1>2, <1>4, <1>12, ClearIs DEF Shape
<1>14. /\ Has(r, DOMAIN b.ramp) /\ \A n \in DOMAIN b.ramp : RampIn(r[n], Steps)
      /\ \A n \in DOMAIN b.ramp : r[n].target = c[n]
  BY <1>2, <1>4, <1>5, <1>11, <1>12 DEF Shape, Ready, Follows, Has
<1>15. PICK q : q = [x EXCEPT !.ramp = r, !.mem = m]
  OBVIOUS
<1>16. /\ Has(q, Fields) /\ q.mem = m /\ q.now = x.now /\ q.ramp = r
       /\ q.kind = x.kind /\ q.emu = x.emu /\ q.flag = x.flag /\ q.key = x.key
       /\ q.coef = x.coef /\ q.rate = x.rate /\ q.set = x.set
  BY <1>4, <1>15 DEF Shape, Has, Fields
<1>17. Has(m, DOMAIN b.mem)
  BY <1>2, <1>13 DEF Has
<1>18. Shape(q, b, Steps)
  BY <1>4, <1>14, <1>16, <1>17 DEF Shape
<1>19. Same(q, p, {"ramp", "now", "mem"})
  BY <1>4, <1>16 DEF Same, Fields
<1>20. Ready(q, b, Steps, rate, c, coef)
  BY <1>2, <1>14, <1>16, <1>18, <1>19 DEF Ready, Follows, Same, Fields
<1>21. q = SaturationReset(p)
  BY <1>1, <1>3, <1>6, <1>7, <1>12, <1>15 DEF SaturationReset, SaturationMemory
<1> QED
  BY <1>1, <1>3, <1>4, <1>5, <1>7, <1>12, <1>13, <1>16, <1>19, <1>20, <1>21 DEF SaturationReady

\* Two of Saturation that were given the same controls are one once reset.
LEMMA SaturationResetsAlike ==
    ASSUME NEW p, NEW q, NEW rate, NEW c \in Settings("Saturation"),
           SaturationReady(p, rate, c), SaturationReady(q, rate, c)
    PROVE  SaturationReset(p) = SaturationReset(q)
<1>1. PICK b, coef : b = SaturationNew /\ coef = SaturationWanted([rate |-> rate])
  OBVIOUS
<1>2. Ready(p, b, Steps, rate, c, coef) /\ Ready(q, b, Steps, rate, c, coef)
  BY <1>1 DEF SaturationReady
<1>3. p.flag = q.flag /\ p.key = q.key
  BY <1>1, <1>2, SaturationLayout, EmptyAlike DEF Ready, Shape
<1>4. ResetRamps(p).ramp = ResetRamps(q).ramp
  BY <1>2, ResetRampsAlike DEF Ready
<1>5. PICK x, y : x = SaturationReset(p) /\ y = SaturationReset(q)
  OBVIOUS
<1>6. /\ SaturationReady(x, rate, c) /\ Same(x, p, {"ramp", "now", "mem"}) /\ x.now = Unset
      /\ x.mem = [n \in SaturationMemory |-> 0]
      /\ x.ramp = [ResetRamps(p).ramp EXCEPT
                     !.split = RampSetTarget(RampReset(RampSetTarget(
                         ResetRamps(p).ramp.split, 0)), c.split)]
  BY <1>5, SaturationForgot
<1>a. /\ SaturationReady(y, rate, c) /\ Same(y, q, {"ramp", "now", "mem"}) /\ y.now = Unset
      /\ y.mem = [n \in SaturationMemory |-> 0]
      /\ y.ramp = [ResetRamps(q).ramp EXCEPT
                     !.split = RampSetTarget(RampReset(RampSetTarget(
                         ResetRamps(q).ramp.split, 0)), c.split)]
  BY <1>5, SaturationForgot
<1>b. x.mem = y.mem /\ x.ramp = y.ramp
  BY <1>4, <1>6, <1>a
<1>7. Shape(x, b, Steps) /\ Shape(y, b, Steps) /\ Same(x, y, {"kind", "emu"})
  BY <1>1, <1>3, <1>6, <1>a, <1>b DEF SaturationReady, Ready, Same, Fields
<1> QED
  BY <1>5, <1>7, Alike

-----------------------------------------------------------------------------
(* Transient.                                                                *)

\* Resetting the ramps and clearing registers keeps the shape and the targets.
LEMMA WipedShape ==
    ASSUME NEW b, NEW L, NEW p, Shape(p, b, L), NEW registers
    PROVE  LET q == Wipe(p, registers)
           IN  /\ Shape(q, b, L) /\ Same(q, p, {"ramp", "now", "mem"})
               /\ q.now = Unset /\ q.ramp = ResetRamps(p).ramp
               /\ q.mem = Clear(p.mem, registers)
               /\ \A n \in DOMAIN b.ramp : q.ramp[n].target = p.ramp[n].target
<1>1. PICK x : x = ResetRamps(p)
  OBVIOUS
<1>2. /\ Shape(x, b, L) /\ Same(x, p, {"ramp", "now"}) /\ x.now = Unset
      /\ \A n \in DOMAIN b.ramp : x.ramp[n].target = p.ramp[n].target
  BY <1>1, ResetShape
<1>3. PICK m : m = Clear(x.mem, registers)
  OBVIOUS
<1>4. PICK q : q = [x EXCEPT !.mem = m]
  OBVIOUS
<1>5. x.mem = p.mem /\ Has(m, DOMAIN b.mem)
  BY <1>2, <1>3, ClearIs DEF Same, Fields, Shape
<1>6. /\ Has(q, Fields) /\ q.mem = m /\ q.ramp = x.ramp /\ q.now = Unset
      /\ q.kind = x.kind /\ q.emu = x.emu /\ q.flag = x.flag /\ q.key = x.key
      /\ q.coef = x.coef /\ q.rate = x.rate /\ q.set = x.set
  BY <1>2, <1>4 DEF Shape, Has, Fields
<1>7. Shape(q, b, L)
  BY <1>2, <1>5, <1>6 DEF Shape
<1>8. Same(q, p, {"ramp", "now", "mem"})
  BY <1>2, <1>6 DEF Same, Fields
<1> QED
  BY <1>1, <1>2, <1>3, <1>4, <1>5, <1>6, <1>7, <1>8 DEF Wipe

TransientMemory == TransientFilters \cup TransientFollowers \cup TransientMasks \cup
                   {"peak", "peakDb"}

\* A new Transient has its registers, keys and coefficients, at rest.
LEMMA TransientLayout ==
    /\ Shape(TransientNew, TransientNew, Steps)
    /\ TransientNew.kind = "Transient" /\ TransientNew.emu = FALSE
    /\ DOMAIN TransientNew.ramp = {"attack", "sustain", "output"}
    /\ DOMAIN TransientNew.flag = {}
    /\ DOMAIN TransientNew.key = {"output"}
    /\ DOMAIN TransientNew.coef = {"sidechain", "detector", "outputHighpass"}
    /\ DOMAIN TransientNew.mem = TransientMemory
    /\ \A n \in DOMAIN TransientNew.ramp : TransientNew.ramp[n] = Ramp(0)
    /\ \A n \in DOMAIN TransientNew.mem : TransientNew.mem[n] = 0
    /\ TransientNew.key.output = 0
<1>1. 0 \in Steps
  BY DEF Steps, Gains
<1>2. PICK e, k : e = FALSE /\ k = "Transient"
  OBVIOUS
<1>3. PICK ramps, flags, keys, coefs, mems :
        /\ ramps = {"attack", "sustain", "output"}
        /\ flags = {}
        /\ keys = {"output"}
        /\ coefs = {"sidechain", "detector", "outputHighpass"}
        /\ mems = TransientMemory
  OBVIOUS
<1>4. PICK b : b = Blank(k, e, ramps, flags, keys, coefs, mems)
  OBVIOUS
<1>5. /\ Shape(b, b, Steps) /\ b.kind = k /\ b.emu = e
      /\ DOMAIN b.ramp = ramps /\ DOMAIN b.flag = flags /\ DOMAIN b.key = keys
      /\ DOMAIN b.coef = coefs /\ DOMAIN b.mem = mems
      /\ \A n \in ramps : b.ramp[n] = Ramp(0)
      /\ \A n \in mems : b.mem[n] = 0
  BY <1>1, <1>4, BlankShape
<1>6. PICK key : key = [b.key EXCEPT !.output = 0]
  OBVIOUS
<1>7. PICK t : t = [b EXCEPT !.key = key]
  OBVIOUS
<1>8. DOMAIN key = keys /\ Has(key, keys) /\ key.output = 0
  BY <1>3, <1>5, <1>6 DEF Has
<1>9. /\ Has(t, Fields) /\ t.kind = k /\ t.emu = e /\ t.ramp = b.ramp /\ t.flag = b.flag
      /\ t.key = key /\ t.coef = b.coef /\ t.mem = b.mem
  BY <1>5, <1>7 DEF Shape, Has, Fields
<1>10. TransientNew = t
  <2>1. TransientNew = [b EXCEPT !.key.output = 0]
    BY <1>2, <1>3, <1>4, Zenon DEF TransientNew, TransientMemory
  <2> QED
    BY <1>6, <1>7, <2>1
<1>11. Shape(t, t, Steps)
  BY <1>5, <1>8, <1>9 DEF Shape
<1> QED
  BY <1>2, <1>3, <1>5, <1>8, <1>9, <1>10, <1>11

\* The key stands for the target of the output gain, and the decibels of the
\* peak for the peak.
TransientAgrees(p) == /\ p.key.output = p.ramp.output.target
                      /\ p.mem.peakDb = p.mem.peak /\ p.mem.peak \in Int

TransientFormed(p) == Shape(p, TransientNew, Steps) /\ TransientAgrees(p)

TransientInv(p, rate, c) ==
    /\ Ready(p, TransientNew, Steps, rate, c, TransientWanted([rate |-> rate]))
    /\ TransientAgrees(p)

\* A reset clears every register; the cached output gain is still the target of its ramp.
LEMMA TransientForgets ==
    ASSUME NEW p, TransientFormed(p)
    PROVE  LET q == TransientReset(p)
           IN  /\ TransientFormed(q) /\ Same(q, p, {"ramp", "now", "mem"}) /\ q.now = Unset
               /\ q.mem = [n \in TransientMemory |-> 0] /\ q.ramp = ResetRamps(p).ramp
               /\ \A n \in DOMAIN TransientNew.ramp : q.ramp[n].target = p.ramp[n].target
<1>1. PICK b, registers : b = TransientNew /\ registers = TransientMemory
  OBVIOUS
<1>2. Shape(p, b, Steps) /\ DOMAIN b.mem = registers /\ "output" \in DOMAIN b.ramp
  BY <1>1, TransientLayout DEF TransientFormed
<1>3. PICK q : q = Wipe(p, registers)
  OBVIOUS
<1>4. /\ Shape(q, b, Steps) /\ Same(q, p, {"ramp", "now", "mem"}) /\ q.now = Unset
      /\ q.ramp = ResetRamps(p).ramp /\ q.mem = Clear(p.mem, registers)
      /\ \A n \in DOMAIN b.ramp : q.ramp[n].target = p.ramp[n].target
  BY <1>2, <1>3, WipedShape
<1>5. q = TransientReset(p)
  BY <1>1, <1>3, Zenon DEF TransientReset, Wipe, TransientMemory
<1>6. q.mem = [n \in registers |-> 0]
  BY <1>2, <1>4, ClearIs DEF Shape
<1>7. q.mem.peakDb = 0 /\ q.mem.peak = 0
  BY <1>1, <1>6 DEF TransientMemory
<1>8. q.key.output = q.ramp.output.target
  BY <1>2, <1>4 DEF TransientFormed, TransientAgrees, Same, Fields
<1> QED
  BY <1>1, <1>4, <1>5, <1>6, <1>7, <1>8 DEF TransientFormed, TransientAgrees

\* Preparing Transient computes the coefficients of the rate.
LEMMA TransientPrepared ==
    ASSUME NEW p, NEW rate, TransientFormed(p)
    PROVE  LET q == TransientPrepare(p, rate)
           IN  /\ TransientFormed(q) /\ q.rate = rate /\ q.set = p.set
               /\ q.coef = TransientWanted([rate |-> rate])
<1>1. PICK s, coef : /\ s = [rate |-> rate]
                     /\ coef = [p.coef EXCEPT !.outputHighpass = s, !.sidechain = s, !.detector = s]
  OBVIOUS
<1>2. PICK x : x = [p EXCEPT !.rate = rate, !.coef = coef]
  OBVIOUS
<1>3. /\ DOMAIN p = Fields /\ DOMAIN p.coef = {"sidechain", "detector", "outputHighpass"}
  BY TransientLayout DEF Shape, Has, TransientFormed
<1>4. /\ Has(x, Fields) /\ x.rate = rate /\ x.set = p.set /\ x.kind = p.kind /\ x.emu = p.emu
      /\ x.ramp = p.ramp /\ x.flag = p.flag /\ x.key = p.key /\ x.mem = p.mem
      /\ x.coef = coef
  BY <1>2, <1>3 DEF Has, Fields
<1>5. coef = TransientWanted([rate |-> rate])
  BY <1>1, <1>3, TransientLayout, RateStamp DEF Shape, Has, TransientWanted, TransientFormed
<1>6. Has(coef, {"sidechain", "detector", "outputHighpass"})
  BY <1>1, <1>3, TransientLayout DEF Has
<1>7. TransientFormed(x)
  BY <1>4, <1>6, TransientLayout DEF TransientFormed, TransientAgrees, Shape
<1>8. PICK q : q = TransientReset(x)
  OBVIOUS
<1>9. TransientFormed(q) /\ Same(q, x, {"ramp", "now", "mem"})
  BY <1>7, <1>8, TransientForgets
<1>10. q = TransientPrepare(p, rate)
  BY <1>1, <1>2, <1>3, <1>8 DEF Fields, TransientPrepare, TransientPrepareSidechainFilter,
     TransientPrepareDetectorCoefficients
<1> QED
  BY <1>4, <1>5, <1>9, <1>10 DEF Same, Fields

\* A target that is not set anew is the one it was set to.
LEMMA TransientSet ==
    ASSUME NEW p, TransientFormed(p), p.coef = TransientWanted([rate |-> p.rate]),
           NEW c \in Settings("Transient")
    PROVE  LET q == TransientSetControls([p EXCEPT !.set = c], c)
           IN  TransientInv(q, p.rate, c) /\ Same(q, p, {"ramp", "set", "key"})
<1>1. PICK b, k, most, last, coef :
        /\ b = TransientNew /\ k = "Transient" /\ most = {"attack", "sustain"}
        /\ last = {"output"} /\ coef = TransientWanted([rate |-> p.rate])
  OBVIOUS
<1>2. /\ Shape(p, b, Steps) /\ DOMAIN b.ramp = most \cup last /\ Steps \subseteq Int
      /\ DOMAIN b.key = {"output"}
  BY <1>1, TransientLayout, StepsAreNumbers DEF TransientFormed
<1>4. Allowed(c, most, Steps) /\ Allowed(c, last, Steps)
  BY <1>1, SettingsAllowed DEF Controls, Processors, Switches, Optical
<1>5. PICK x : x = [p EXCEPT !.set = c]
  OBVIOUS
<1>6. Shape(x, b, Steps) /\ Same(x, p, {"set"}) /\ x.set = c
  BY <1>2, <1>5, GivenShape
<1>7. PICK y : y = Aim(x, c, most)
  OBVIOUS
<1>8. Shape(y, b, Steps) /\ Same(y, x, {"ramp"}) /\ AimedAt(y, x, b, c, most)
  BY <1>2, <1>4, <1>6, <1>7, AimShape
<1>9. /\ x.key = p.key /\ x.ramp = p.ramp /\ y.key = p.key /\ y.rate = p.rate /\ y.set = c
      /\ y.coef = coef /\ y.mem = p.mem
  BY <1>1, <1>6, <1>8 DEF Same, Fields
<1>10. PICK q : q = TransientSetControls(x, c)
  OBVIOUS
<1>11. (c.output = p.key.output) =>
         TransientInv(q, p.rate, c) /\ Same(q, p, {"ramp", "set", "key"})
  <2> HAVE c.output = p.key.output
  <2>1. q = y
    BY <1>1, <1>7, <1>9, <1>10, Zenon DEF TransientSetControls
  <2>2. y.ramp.output = p.ramp.output /\ y.ramp.output.target = c.output
    BY <1>1, <1>2, <1>8, <1>9 DEF AimedAt, TransientFormed, TransientAgrees
  <2>3. Follows(y, b, c)
    BY <1>1, <1>2, <1>8, <2>2 DEF Follows, AimedAt
  <2>4. TransientAgrees(y)
    BY <1>9, <2>2 DEF TransientFormed, TransientAgrees
  <2>5. Ready(y, b, Steps, p.rate, c, coef)
    BY <1>8, <1>9, <2>3 DEF Ready
  <2>6. Same(y, p, {"ramp", "set", "key"})
    BY <1>6, <1>8 DEF Same, Fields
  <2> QED
    BY <1>1, <2>1, <2>4, <2>5, <2>6 DEF TransientInv
<1>12. (c.output # p.key.output) =>
         TransientInv(q, p.rate, c) /\ Same(q, p, {"ramp", "set", "key"})
  <2> HAVE c.output # p.key.output
  <2>1. PICK z : z = Aim(y, c, last)
    OBVIOUS
  <2>2. Shape(z, b, Steps) /\ Same(z, y, {"ramp"}) /\ AimedAt(z, y, b, c, last)
    BY <1>2, <1>4, <1>8, <2>1, AimShape
  <2>3. PICK key : key = [z.key EXCEPT !.output = c.output]
    OBVIOUS
  <2>4. Has(key, {"output"}) /\ key.output = c.output
    BY <1>2, <2>2, <2>3 DEF Shape, Has
  <2>5. PICK w : w = [z EXCEPT !.key = key]
    OBVIOUS
  <2>6. /\ Has(w, Fields) /\ w.mem = z.mem /\ w.ramp = z.ramp /\ w.now = z.now
        /\ w.kind = z.kind /\ w.emu = z.emu /\ w.flag = z.flag /\ w.key = key
        /\ w.coef = z.coef /\ w.rate = z.rate /\ w.set = z.set
    BY <2>2, <2>5 DEF Shape, Has, Fields
  <2>7. Shape(w, b, Steps)
    BY <1>2, <2>2, <2>4, <2>6 DEF Shape
  <2>8. q = w
    <3>1. q = [z EXCEPT !.key.output = c.output]
      BY <1>1, <1>7, <1>9, <1>10, <2>1, Zenon DEF TransientSetControls
    <3> QED
      BY <2>3, <2>5, <3>1
  <2>9. Follows(w, b, c)
    BY <1>1, <1>2, <1>8, <2>2, <2>6 DEF Follows, AimedAt
  <2>10. /\ w.rate = p.rate /\ w.set = c /\ w.coef = coef /\ w.mem = p.mem
         /\ Same(w, p, {"ramp", "set", "key"})
    BY <1>6, <1>8, <1>9, <2>2, <2>6 DEF Same, Fields
  <2>11. w.ramp.output.target = c.output
    BY <1>1, <1>2, <2>9 DEF Follows
  <2>12. TransientAgrees(w)
    BY <2>4, <2>6, <2>10, <2>11 DEF TransientFormed, TransientAgrees
  <2>13. Ready(w, b, Steps, p.rate, c, coef)
    BY <2>7, <2>9, <2>10 DEF Ready
  <2> QED
    BY <1>1, <2>8, <2>10, <2>12, <2>13 DEF TransientInv
<1> QED
  BY <1>5, <1>10, <1>11, <1>12

\* Transient prepared and given its controls has its contract.
LEMMA TransientMade ==
    ASSUME NEW p, NEW rate, TransientFormed(p), NEW c \in Settings("Transient")
    PROVE  TransientInv(TransientSetControls([TransientPrepare(p, rate) EXCEPT !.set = c], c), rate, c)
<1>1. PICK x : x = TransientPrepare(p, rate)
  OBVIOUS
<1>2. TransientFormed(x) /\ x.rate = rate /\ x.coef = TransientWanted([rate |-> rate])
  BY <1>1, TransientPrepared
<1> QED
  BY <1>1, <1>2, TransientSet

\* New controls keep the contract of Transient.
LEMMA TransientKept ==
    ASSUME NEW p, NEW rate, NEW d, TransientInv(p, rate, d), NEW c \in Settings("Transient")
    PROVE  LET q == TransientSetControls([p EXCEPT !.set = c], c)
           IN  TransientInv(q, rate, c) /\ Same(q, p, {"ramp", "set", "key"})
  BY TransientSet DEF TransientInv, Ready, TransientFormed

\* A reset keeps the contract of Transient.
LEMMA TransientForgot ==
    ASSUME NEW p, NEW rate, NEW c, TransientInv(p, rate, c)
    PROVE  LET q == TransientReset(p)
           IN  TransientInv(q, rate, c) /\ Same(q, p, {"ramp", "now", "mem"}) /\ q.now = Unset
BY TransientForgets DEF TransientInv, TransientFormed, Ready, Same, Fields, Follows

\* Two of Transient that were given the same controls are one once reset.
LEMMA TransientResetsAlike ==
    ASSUME NEW p, NEW q, NEW rate, NEW c, TransientInv(p, rate, c), TransientInv(q, rate, c)
    PROVE  TransientReset(p) = TransientReset(q)
<1>1. PICK b, coef : b = TransientNew /\ coef = TransientWanted([rate |-> rate])
  OBVIOUS
<1>2. /\ Ready(p, b, Steps, rate, c, coef) /\ Ready(q, b, Steps, rate, c, coef)
      /\ TransientFormed(p) /\ TransientFormed(q)
      /\ DOMAIN b.flag = {} /\ DOMAIN b.key = {"output"} /\ "output" \in DOMAIN b.ramp
  BY <1>1, TransientLayout DEF TransientInv, TransientFormed, Ready
<1>3. p.flag = q.flag
  <2>1. Has(p.flag, {}) /\ Has(q.flag, {})
    BY <1>2 DEF Ready, Shape
  <2> QED
    BY <2>1, EmptyAlike
<1>4. p.key = q.key
  <2>1. p.key.output = c.output /\ q.key.output = c.output
    BY <1>2 DEF Ready, Follows, TransientFormed, TransientAgrees
  <2>2. Has(p.key, {"output"}) /\ Has(q.key, {"output"})
    BY <1>2 DEF Ready, Shape
  <2> QED
    BY <2>1, <2>2 DEF Has
<1>5. ResetRamps(p).ramp = ResetRamps(q).ramp
  BY <1>2, ResetRampsAlike DEF Ready
<1>6. PICK x, y : x = TransientReset(p) /\ y = TransientReset(q)
  OBVIOUS
<1>7. /\ TransientFormed(x) /\ Same(x, p, {"ramp", "now", "mem"}) /\ x.now = Unset
      /\ x.mem = [n \in TransientMemory |-> 0] /\ x.ramp = ResetRamps(p).ramp
  BY <1>2, <1>6, TransientForgets
<1>8. /\ TransientFormed(y) /\ Same(y, q, {"ramp", "now", "mem"}) /\ y.now = Unset
      /\ y.mem = [n \in TransientMemory |-> 0] /\ y.ramp = ResetRamps(q).ramp
  BY <1>2, <1>6, TransientForgets
<1>9. Shape(x, b, Steps) /\ Shape(y, b, Steps) /\ Same(x, y, {"kind", "emu"})
  BY <1>1, <1>2, <1>3, <1>4, <1>5, <1>7, <1>8 DEF TransientFormed, Ready, Same, Fields
<1> QED
  BY <1>6, <1>9, Alike

\* A sample of Transient reads the rate it was prepared for.
LEMMA TransientReads ==
    ASSUME NEW p, NEW rate, NEW c, TransientInv(p, rate, c)
    PROVE  TransientWanted(Reading(p)) = TransientWanted([rate |-> rate])
<1>1. PICK b, in : b = TransientNew /\ in = Reading(p)
  OBVIOUS
<1>2. Shape(p, b, Steps) /\ p.rate = rate
  BY <1>1 DEF TransientInv, Ready
<1>3. "rate" \notin DOMAIN b.ramp \cup DOMAIN b.flag
  BY <1>1, TransientLayout
<1>4. in.rate = rate
  BY <1>1, <1>2, <1>3, ReadingIs
<1> QED
  BY <1>1, <1>4, StampRate DEF TransientWanted

\* A sample keeps the contract of Transient, and its coefficients are those of what it read.
LEMMA TransientRan ==
    ASSUME NEW p, NEW rate, NEW c, TransientInv(p, rate, c), NEW loud \in 0..2
    PROVE  LET q == TransientProcess(p, loud)
           IN  /\ TransientInv(q, rate, c) /\ Same(q, p, {"ramp", "now", "mem"})
               /\ q.coef = TransientWanted(q.now)
<1>1. PICK b, coef, in : b = TransientNew /\ coef = TransientWanted([rate |-> rate]) /\ in = Reading(p)
  OBVIOUS
<1>2. Ready(p, b, Steps, rate, c, coef) /\ Steps \subseteq Int /\ DOMAIN b.mem = TransientMemory
  BY <1>1, StepsAreNumbers, TransientLayout DEF TransientInv
<1>3. PICK x0 : x0 = [p EXCEPT !.now = in]
  OBVIOUS
<1>4. Hears(x0, p, b, Steps, in) /\ x0.mem = p.mem
  BY <1>2, <1>3, Listening DEF Ready
<1>5. PICK x1 : x1 = TransientFilterSidechainSample(x0, loud)
  OBVIOUS
<1>6. Hears(x1, p, b, Steps, in) /\ x1.mem = Charge(p.mem, {"sidechain"}, loud)
  BY <1>4, <1>5, Charged DEF TransientFilterSidechainSample
<1>7. PICK x2 : x2 = TransientUpdatePowerFollowers(x1, loud)
  OBVIOUS
<1>8. /\ Hears(x2, p, b, Steps, in)
      /\ x2.mem = Charge(x1.mem, {"fastPower", "slowPower", "onsetPower"}, loud)
  BY <1>6, <1>7, Charged DEF TransientUpdatePowerFollowers
<1>9. DOMAIN x2.mem = TransientMemory /\ Has(x2.mem, DOMAIN b.mem)
  BY <1>2, <1>8 DEF Hears, Shape, Has
<1>10. x2.mem.peak = p.mem.peak /\ x2.mem.peakDb = p.mem.peakDb
  BY <1>2, <1>6, <1>8 DEF Charge, Ready, Shape, Has, TransientMemory
<1>11. PICK decayed \in Int : decayed = Higher(p.mem.peak - 1, 0)
  BY DEF Higher, TransientInv, TransientAgrees
<1>12. Higher(0, p.mem.peakDb - 1) = decayed
  BY <1>11 DEF Higher, TransientInv, TransientAgrees
<1>13. PICK peak \in Int : peak = IF loud > decayed THEN loud ELSE decayed
  BY <1>11
<1>14. PICK m : m = [x2.mem EXCEPT !.peak = peak, !.peakDb = peak]
  OBVIOUS
<1>15. Has(m, DOMAIN b.mem) /\ m.peak = peak /\ m.peakDb = peak
  BY <1>2, <1>9, <1>14 DEF Has, TransientMemory
<1>16. PICK x3 : x3 = [x2 EXCEPT !.mem = m]
  OBVIOUS
<1>17. Hears(x3, p, b, Steps, in) /\ x3.mem = m
  BY <1>8, <1>15, <1>16, Charging
<1>18. x3 = TransientUpdateHeldPeak(x2, loud)
  <2>1. x2.mem.peak \in Int /\ Higher(x2.mem.peak - 1, 0) = decayed
        /\ Higher(0, x2.mem.peakDb - 1) = decayed
    BY <1>10, <1>11, <1>12 DEF TransientInv, TransientAgrees
  <2>2. loud > decayed => x3 = TransientUpdateHeldPeak(x2, loud)
    BY <1>13, <1>14, <1>16, <2>1 DEF TransientUpdateHeldPeak
  <2>3. ~(loud > decayed) => x3 = TransientUpdateHeldPeak(x2, loud)
    BY <1>8, <1>9, <1>13, <1>14, <1>16, <2>1 DEF TransientUpdateHeldPeak, Hears, Shape, Has,
       Fields, TransientMemory
  <2> QED
    BY <2>2, <2>3
<1>19. PICK x4 : x4 = [x3 EXCEPT !.mem = Charge(Charge(@,
                         {"attackMask", "extendedAttackMask"}, x3.mem.onsetPower),
                         {"contextPower"}, x3.mem.onsetPower)]
  OBVIOUS
<1>20. /\ Hears(x4, p, b, Steps, in)
       /\ x4.mem = Charge(Charge(m, {"attackMask", "extendedAttackMask"}, x3.mem.onsetPower),
                          {"contextPower"}, x3.mem.onsetPower)
  BY <1>17, <1>19, ChargedTwice
<1>21. PICK x5 : x5 = [x4 EXCEPT !.mem = Charge(@, {"sustainMask"}, x3.mem.fastPower)]
  OBVIOUS
<1>22. Hears(x5, p, b, Steps, in) /\ x5.mem = Charge(x4.mem, {"sustainMask"}, x3.mem.fastPower)
  BY <1>20, <1>21, Charged
<1>23. x5 = TransientUpdateMasks(x3)
  BY <1>17, <1>19, <1>20, <1>21, <1>22 DEF TransientUpdateMasks, Hears, Shape, Has, Fields
<1>24. x5.mem.peak = peak /\ x5.mem.peakDb = peak
  <2>1. DOMAIN m = TransientMemory
    BY <1>2, <1>15 DEF Has
  <2> QED
    BY <1>15, <1>20, <1>22, <2>1 DEF Charge, TransientMemory
<1>25. PICK y : y = AdvanceRamps(x5)
  OBVIOUS
<1>26. Ready(y, b, Steps, rate, c, coef) /\ Sounded(y, p, in, x5.mem)
  BY <1>2, <1>22, <1>25, HeardRan
<1>27. PICK mem : mem = Charge(y.mem, {"outputHighpass"}, loud)
  OBVIOUS
<1>28. /\ Has(mem, DOMAIN b.mem) /\ mem.peak = peak /\ mem.peakDb = peak
  BY <1>2, <1>24, <1>26, <1>27, ChargeIs DEF Ready, Shape, Sounded, TransientMemory
<1>29. PICK q : q = [y EXCEPT !.mem = mem]
  OBVIOUS
<1>30. /\ Has(q, Fields) /\ q.mem = mem /\ q.ramp = y.ramp /\ q.now = y.now
       /\ q.kind = y.kind /\ q.emu = y.emu /\ q.flag = y.flag /\ q.key = y.key
       /\ q.coef = y.coef /\ q.rate = y.rate /\ q.set = y.set
  BY <1>26, <1>29 DEF Ready, Shape, Has, Fields
<1>31. Ready(q, b, Steps, rate, c, coef)
  BY <1>26, <1>28, <1>30 DEF Ready, Shape, Follows
<1>32. Same(q, p, {"ramp", "now", "mem"}) /\ q.now = in
  BY <1>26, <1>30 DEF Sounded, Same, Fields
<1>33. TransientAgrees(q)
  <2>1. q.key.output = q.ramp.output.target
    BY <1>1, <1>2, <1>31, <1>32, TransientLayout DEF TransientInv, TransientAgrees, Ready,
       Follows, Same, Fields
  <2> QED
    BY <1>13, <1>28, <1>30, <2>1 DEF TransientAgrees
<1>34. q = TransientProcess(p, loud)
  <2>1. TransientProcess(p, loud) = TransientProcessOutputSample(y, loud)
    BY <1>1, <1>3, <1>5, <1>7, <1>18, <1>23, <1>25, Zenon DEF TransientProcess
  <2> QED
    BY <1>27, <1>29, <2>1, Zenon DEF TransientProcessOutputSample
<1> QED
  BY <1>1, <1>31, <1>32, <1>33, <1>34, TransientReads DEF TransientInv, Ready

-----------------------------------------------------------------------------
(* Leveler.                                                                  *)

LevelerMemory == LevelerEstimates \cup {"effective", "slow", "fast"}

\* A new Leveler has its registers, keys and coefficients, at rest.
LEMMA LevelerLayout ==
    /\ Shape(LevelerNew, LevelerNew, Gains)
    /\ LevelerNew.kind = "Leveler" /\ LevelerNew.emu = FALSE
    /\ DOMAIN LevelerNew.ramp = {"targetDb", "manualGainDb"}
    /\ DOMAIN LevelerNew.flag = {"enabled", "initialized"}
    /\ DOMAIN LevelerNew.key = {}
    /\ DOMAIN LevelerNew.coef = {"weighting", "times"}
    /\ DOMAIN LevelerNew.mem = LevelerMemory
    /\ \A n \in DOMAIN LevelerNew.ramp : LevelerNew.ramp[n] = Ramp(0)
    /\ \A n \in DOMAIN LevelerNew.flag : LevelerNew.flag[n] = 0
<1>1. 0 \in Gains
  BY DEF Steps, Gains
<1>2. PICK e, k : e = FALSE /\ k = "Leveler"
  OBVIOUS
<1>3. PICK ramps, flags, keys, coefs, mems :
        /\ ramps = {"targetDb", "manualGainDb"}
        /\ flags = {"enabled", "initialized"}
        /\ keys = {}
        /\ coefs = {"weighting", "times"}
        /\ mems = LevelerMemory
  OBVIOUS
<1>4. PICK b : b = Blank(k, e, ramps, flags, keys, coefs, mems)
  OBVIOUS
<1>6. LevelerNew = b
  BY <1>2, <1>3, <1>4, Zenon DEF LevelerNew, LevelerMemory
<1> QED
  BY <1>1, <1>2, <1>3, <1>4, <1>6, BlankShape

\* The gains the manual ramp moves between.
ManualGains == ControlLevels \cup {MinimumGainDb, MaximumGainDb}

\* The gain in force is the slow part and the fast one, in the range of gains, and
\* the manual ramp is at it while the leveler is off.
LevelerGains(p) ==
    /\ p.mem.effective \in MinimumGainDb..MaximumGainDb
    /\ p.mem.slow \in MinimumGainDb..MaximumGainDb /\ p.mem.fast \in Int
    /\ p.mem.effective = p.mem.slow + p.mem.fast
    /\ p.mem.slowEnergy \in Int /\ p.mem.fastEnergy \in Int
    /\ RampIn(p.ramp.manualGainDb, ManualGains)
    /\ p.flag.enabled = 0 => p.ramp.manualGainDb.current = p.mem.effective

LevelerFormed(p) ==
    /\ Shape(p, LevelerNew, Gains)
    /\ p.flag.initialized # 0 => p.mem.effective \in MinimumGainDb..MaximumGainDb

LevelerReady(p, rate, c) ==
    /\ Ready(p, LevelerNew, Gains, rate, c, LevelerWanted([rate |-> rate]))
    /\ p.flag.enabled = c.enabled /\ p.flag.initialized = 1

\* The last block started at the gain the one before it ended with.
LevelerJoins(p) == "startGain" \in DOMAIN p.now => p.now.startGain = p.now.previousGain

LevelerInv(p, rate, c) == LevelerReady(p, rate, c) /\ LevelerGains(p) /\ LevelerJoins(p)

\* The gains of the leveler are numbers in the range of gains.
LEMMA GainsAreNumbers ==
    /\ MinimumGainDb \in Int /\ MaximumGainDb \in Int /\ MinimumGainDb <= MaximumGainDb
    /\ Gains \subseteq Int /\ ManualGains \subseteq MinimumGainDb..MaximumGainDb
    /\ ManualGains \subseteq Int /\ ManualGains \subseteq Gains
  BY GainAssumption, ControlAssumption, StepsAreNumbers DEF ManualGains, Gains, Steps

\* A ramp between manual gains is one between gains.
LEMMA ManualIn ==
    ASSUME NEW r, RampIn(r, ManualGains)
    PROVE  /\ r.current \in MinimumGainDb..MaximumGainDb /\ r.target \in MinimumGainDb..MaximumGainDb
           /\ RampIn(r, Gains)
BY GainsAreNumbers DEF RampIn, Spans

\* The leveler is given a manual gain in range and a switch that is off or on.
LEMMA LevelerSettings ==
    ASSUME NEW c \in Settings("Leveler")
    PROVE  /\ c.targetDb \in Gains /\ c.manualGainDb \in ManualGains /\ c.enabled \in {0, 1}
           /\ c.manualGainDb \in Gains
<1>1. PICK k, t, m, e : k = "Leveler" /\ t = "targetDb" /\ m = "manualGainDb" /\ e = "enabled"
  OBVIOUS
<1>3. c[t] \in ControlLevels /\ c[m] \in ControlLevels /\ c[e] \in {0, 1}
  BY <1>1, SettingsAllow DEF Processors, Controls, Switches, Optical
<1> QED
  BY <1>1, <1>3 DEF Gains, Steps, ManualGains

\* Preparing Leveler computes the coefficients of the rate.
LEMMA LevelerPrepared ==
    ASSUME NEW p, NEW rate, LevelerFormed(p)
    PROVE  LET q == LevelerPrepare(p, rate)
           IN  /\ LevelerFormed(q) /\ q.rate = rate /\ q.set = p.set
               /\ q.coef = LevelerWanted([rate |-> rate])
<1>1. PICK s, coef, m : /\ s = [rate |-> rate]
                        /\ coef = [p.coef EXCEPT !.weighting = s, !.times = s]
                        /\ m = [p.mem EXCEPT !.weighting = 0]
  OBVIOUS
<1>2. PICK q : q = [p EXCEPT !.rate = rate, !.coef = coef, !.mem = m]
  OBVIOUS
<1>3. /\ DOMAIN p = Fields /\ DOMAIN p.coef = {"weighting", "times"}
      /\ DOMAIN p.mem = LevelerMemory
  BY LevelerLayout DEF Shape, Has, LevelerFormed
<1>4. /\ Has(q, Fields) /\ q.rate = rate /\ q.set = p.set /\ q.kind = p.kind /\ q.emu = p.emu
      /\ q.ramp = p.ramp /\ q.flag = p.flag /\ q.key = p.key /\ q.mem = m
      /\ q.coef = coef
  BY <1>2, <1>3 DEF Has, Fields
<1>5. coef = LevelerWanted([rate |-> rate])
  BY <1>1, <1>3, LevelerLayout, RateStamp DEF Shape, Has, LevelerWanted, LevelerFormed
<1>6. Has(coef, {"weighting", "times"})
  BY <1>1, <1>3, LevelerLayout DEF Has
<1>7. Has(m, LevelerMemory) /\ m.effective = p.mem.effective
  BY <1>1, <1>3 DEF Has, LevelerMemory
<1>8. LevelerFormed(q)
  BY <1>4, <1>6, <1>7, LevelerLayout DEF LevelerFormed, Shape
<1>9. q = LevelerPrepare(p, rate)
  BY <1>1, <1>2, <1>3 DEF LevelerPrepare, Fields
<1> QED
  BY <1>4, <1>5, <1>8, <1>9

\* What setting the controls makes of the ramps and of the gains.
LEMMA LevelerSet ==
    ASSUME NEW p, LevelerFormed(p), p.coef = LevelerWanted([rate |-> p.rate]),
           NEW c \in Settings("Leveler")
    PROVE  LET q == LevelerSetControls([p EXCEPT !.set = c], c)
           IN  /\ LevelerReady(q, p.rate, c) /\ Same(q, p, {"ramp", "set", "flag", "mem"})
               /\ (p.flag.initialized = 1 /\ LevelerGains(p)) => LevelerGains(q)
<1>1. PICK b, coef : b = LevelerNew /\ coef = LevelerWanted([rate |-> p.rate])
  OBVIOUS
<1>2. PICK on \in BOOLEAN, off \in BOOLEAN :
                     /\ on <=> (c.enabled # 0 /\ p.flag.enabled = 0)
                     /\ off <=> (c.enabled = 0 /\ p.flag.enabled # 0 /\ p.flag.initialized # 0)
  OBVIOUS
<1>3. PICK x : x = [p EXCEPT !.set = c]
  OBVIOUS
<1>4. Shape(p, b, Gains) /\ Shape(x, b, Gains) /\ Same(x, p, {"set"}) /\ x.set = c
  BY <1>1, <1>3, GivenShape DEF LevelerFormed
<1>5. /\ x.flag = p.flag /\ x.ramp = p.ramp /\ x.mem = p.mem /\ x.kind = p.kind /\ x.emu = p.emu
      /\ x.key = p.key /\ x.coef = coef /\ x.rate = p.rate /\ x.now = p.now
  BY <1>1, <1>4 DEF Same, Fields
<1>6. /\ DOMAIN b.ramp = {"targetDb", "manualGainDb"} /\ DOMAIN b.flag = {"enabled", "initialized"}
      /\ DOMAIN b.mem = LevelerMemory
  BY <1>1, LevelerLayout
<1>7. PICK gain : gain = p.mem.effective
  OBVIOUS
<1>8. /\ c.targetDb \in Gains /\ c.manualGainDb \in ManualGains /\ c.enabled \in {0, 1}
      /\ c.manualGainDb \in Gains /\ Gains \subseteq Int /\ ManualGains \subseteq Int
  BY LevelerSettings, GainsAreNumbers
<1>9. RampIn(p.ramp.targetDb, Gains) /\ RampIn(p.ramp.manualGainDb, Gains)
  BY <1>4, <1>6 DEF Shape
<1>10. PICK manual : manual = IF off THEN RampReset(RampSetTarget(p.ramp.manualGainDb, gain))
                              ELSE p.ramp.manualGainDb
  OBVIOUS
<1>11. off => RampIn(manual, ManualGains) /\ manual.current = gain
  <2> HAVE off
  <2>1. gain \in MinimumGainDb..MaximumGainDb
    BY <1>2, <1>7 DEF LevelerFormed
  <2>2. PICK r : r = RampSetTarget(p.ramp.manualGainDb, gain)
    OBVIOUS
  <2>3. r.target = gain /\ Has(r, RampFields)
    BY <1>9, <2>2 DEF RampSetTarget, RampIn, Has, RampFields
  <2>4. manual = RampReset(r)
    BY <1>10, <2>2
  <2>6. 0 \in 0..RampLength
    BY LengthAssumption
  <2>7. MinimumGainDb \in ManualGains /\ MaximumGainDb \in ManualGains
    BY DEF ManualGains
  <2> QED
    BY <2>1, <2>3, <2>4, <2>6, <2>7 DEF RampIn, Spans, RampReset, Has, RampFields
<1>12. RampIn(manual, Gains)
  BY <1>9, <1>10, <1>11, ManualIn
<1>a. PICK tv \in Gains, gv \in Gains : tv = c.targetDb /\ gv = c.manualGainDb /\ gv \in ManualGains
  BY <1>8
<1>13. PICK t, g : t = RampSetTarget(p.ramp.targetDb, c.targetDb) /\ g = RampSetTarget(manual, c.manualGainDb)
  OBVIOUS
<1>14. RampIn(t, Gains) /\ t.target = c.targetDb
  BY <1>8, <1>9, <1>13, <1>a, SetTargetIn
<1>15. RampIn(g, Gains) /\ g.target = c.manualGainDb /\ g.current = manual.current
  BY <1>8, <1>12, <1>13, <1>a, SetTargetIn
<1>16. RampIn(manual, ManualGains) => RampIn(g, ManualGains)
  BY <1>8, <1>13, <1>a, SetTargetIn
<1>17. PICK r : r = [p.ramp EXCEPT !.targetDb = t, !.manualGainDb = g]
  OBVIOUS
<1>18. Has(r, DOMAIN b.ramp) /\ r.targetDb = t /\ r.manualGainDb = g
  BY <1>4, <1>6, <1>17 DEF Shape, Has
<1>19. PICK rest : rest = IF on THEN Clear(p.mem, LevelerEstimates) ELSE p.mem
  OBVIOUS
<1>20. /\ Has(rest, LevelerMemory) /\ rest.effective = gain
       /\ rest.slow = p.mem.slow /\ rest.fast = p.mem.fast
       /\ rest.slowEnergy \in {0, p.mem.slowEnergy} /\ rest.fastEnergy \in {0, p.mem.fastEnergy}
  <2>1. Has(p.mem, LevelerMemory)
    BY <1>4, <1>6 DEF Shape
  <2> QED
    BY <1>7, <1>19, <2>1 DEF Clear, Has, LevelerEstimates, LevelerMemory
<1>21. PICK m : m = IF on \/ off THEN [rest EXCEPT !.slow = gain, !.fast = 0] ELSE rest
  OBVIOUS
<1>22. /\ Has(m, LevelerMemory) /\ m.effective = gain
       /\ m.slowEnergy \in {0, p.mem.slowEnergy} /\ m.fastEnergy \in {0, p.mem.fastEnergy}
       /\ (m.slow = gain /\ m.fast = 0) \/ (m.slow = p.mem.slow /\ m.fast = p.mem.fast)
  BY <1>20, <1>21 DEF Has, LevelerMemory, LevelerEstimates
<1>23. PICK f : f = [p.flag EXCEPT !.enabled = c.enabled, !.initialized = 1]
  OBVIOUS
<1>24. Has(f, DOMAIN b.flag) /\ f.enabled = c.enabled /\ f.initialized = 1
  BY <1>4, <1>6, <1>23 DEF Shape, Has
<1>25. PICK q : q = [x EXCEPT !.ramp = r, !.mem = m, !.flag = f]
  OBVIOUS
<1>26. /\ Has(q, Fields) /\ q.mem = m /\ q.ramp = r /\ q.now = x.now /\ q.flag = f
       /\ q.kind = x.kind /\ q.emu = x.emu /\ q.key = x.key
       /\ q.coef = x.coef /\ q.rate = x.rate /\ q.set = x.set
  BY <1>4, <1>25 DEF Shape, Has, Fields
<1>27. Shape(q, b, Gains)
  BY <1>4, <1>6, <1>14, <1>15, <1>18, <1>22, <1>24, <1>26 DEF Shape
<1>28. Follows(q, b, c)
  BY <1>6, <1>14, <1>15, <1>18, <1>26 DEF Follows
<1>29. LevelerReady(q, p.rate, c)
  BY <1>1, <1>4, <1>5, <1>24, <1>26, <1>27, <1>28 DEF LevelerReady, Ready
<1>30. Same(q, p, {"ramp", "set", "flag", "mem"})
  BY <1>5, <1>26, <1>1 DEF Same, Fields
<1>31. (p.flag.initialized = 1 /\ LevelerGains(p)) => LevelerGains(q)
  <2> HAVE p.flag.initialized = 1 /\ LevelerGains(p)
  <2>1. RampIn(manual, ManualGains)
    BY <1>10, <1>11 DEF LevelerGains
  <2>2. c.enabled = 0 => manual.current = gain
    BY <1>2, <1>7, <1>10, <1>11 DEF LevelerGains
  <2>3. gain \in MinimumGainDb..MaximumGainDb /\ gain \in Int
    BY <1>7, GainsAreNumbers DEF LevelerGains
  <2>4. /\ m.slow \in MinimumGainDb..MaximumGainDb /\ m.fast \in Int /\ gain = m.slow + m.fast
        /\ m.slowEnergy \in Int /\ m.fastEnergy \in Int
    BY <1>7, <1>22, <2>3 DEF LevelerGains
  <2> QED
    BY <1>15, <1>16, <1>18, <1>22, <1>24, <1>26, <2>1, <2>2, <2>3, <2>4 DEF LevelerGains
<1>32. q = LevelerSetControls(x, c)
  <2>1. PICK r1, f1 : /\ r1 = [x.ramp EXCEPT !.targetDb = RampSetTarget(@, c.targetDb),
                                             !.manualGainDb = RampSetTarget(manual, c.manualGainDb)]
                      /\ f1 = [x.flag EXCEPT !.enabled = c.enabled, !.initialized = 1]
    OBVIOUS
  <2>2. LevelerSetControls(x, c) = [x EXCEPT !.ramp = r1, !.mem = m, !.flag = f1]
    BY <1>2, <1>5, <1>7, <1>10, <1>19, <1>21, <2>1, Zenon DEF LevelerSetControls
  <2>3. Has(x.ramp, {"targetDb", "manualGainDb"})
    BY <1>4, <1>6 DEF Shape
  <2>4. r1 = r /\ f1 = f
    BY <1>5, <1>13, <1>17, <1>23, <2>1, <2>3 DEF Has
  <2> QED
    BY <1>25, <2>2, <2>4
<1> QED
  BY <1>3, <1>29, <1>30, <1>31, <1>32

\* Leveler prepared and given its controls has its contract.
LEMMA LevelerMade ==
    ASSUME NEW p, NEW rate, LevelerFormed(p), NEW c \in Settings("Leveler")
    PROVE  LevelerReady(LevelerSetControls([LevelerPrepare(p, rate) EXCEPT !.set = c], c), rate, c)
<1>1. PICK x : x = LevelerPrepare(p, rate)
  OBVIOUS
<1>2. LevelerFormed(x) /\ x.rate = rate /\ x.coef = LevelerWanted([rate |-> rate])
  BY <1>1, LevelerPrepared
<1> QED
  BY <1>1, <1>2, LevelerSet

\* New controls keep the contract of Leveler.
LEMMA LevelerKept ==
    ASSUME NEW p, NEW rate, NEW d, LevelerInv(p, rate, d), NEW c \in Settings("Leveler")
    PROVE  LET q == LevelerSetControls([p EXCEPT !.set = c], c)
           IN  LevelerInv(q, rate, c) /\ Same(q, p, {"ramp", "set", "flag", "mem"})
<1>1. PICK q : q = LevelerSetControls([p EXCEPT !.set = c], c)
  OBVIOUS
<1>2. /\ LevelerFormed(p) /\ p.rate = rate /\ p.coef = LevelerWanted([rate |-> rate])
      /\ p.flag.initialized = 1 /\ LevelerGains(p)
  BY DEF LevelerInv, LevelerReady, LevelerGains, LevelerFormed, Ready
<1>3. /\ LevelerReady(q, rate, c) /\ Same(q, p, {"ramp", "set", "flag", "mem"})
      /\ LevelerGains(q)
  BY <1>1, <1>2, LevelerSet
<1>4. q.now = p.now
  BY <1>3 DEF Same, Fields
<1> QED
  BY <1>1, <1>3, <1>4 DEF LevelerInv, LevelerJoins

\* A reset starts from the manual gain.
LEMMA LevelerForgot ==
    ASSUME NEW p, NEW rate, NEW c \in Settings("Leveler"), LevelerReady(p, rate, c)
    PROVE  LET q == LevelerReset(p)
           IN  /\ LevelerInv(q, rate, c) /\ Same(q, p, {"ramp", "now", "mem"})
               /\ q.now = Unset /\ q.ramp = ResetRamps(p).ramp
               /\ q.mem = [[n \in LevelerMemory |-> 0] EXCEPT
                             !.effective = c.manualGainDb, !.slow = c.manualGainDb]
<1>1. PICK b, coef : b = LevelerNew /\ coef = LevelerWanted([rate |-> rate])
  OBVIOUS
<1>2. /\ Ready(p, b, Gains, rate, c, coef)
      /\ DOMAIN b.ramp = {"targetDb", "manualGainDb"} /\ DOMAIN b.mem = LevelerMemory
  BY <1>1, LevelerLayout DEF LevelerReady
<1>3. PICK x : x = ResetRamps(p)
  OBVIOUS
<1>4. /\ Shape(x, b, Gains) /\ Same(x, p, {"ramp", "now"}) /\ x.now = Unset
      /\ \A n \in DOMAIN b.ramp : /\ x.ramp[n] = RampReset(p.ramp[n])
                                  /\ x.ramp[n].target = p.ramp[n].target
  BY <1>2, <1>3, ResetShape DEF Ready
<1>5. PICK gain \in ManualGains : gain = c.manualGainDb
  BY LevelerSettings
<1>6. PICK r : r = x.ramp.manualGainDb
  OBVIOUS
<1>7. Has(r, RampFields) /\ r.target = gain /\ r.current = gain /\ r.left = 0
  BY <1>2, <1>4, <1>5, <1>6, ResetIn DEF Ready, Shape, Follows, RampIn
<1>8. RampIn(r, ManualGains) /\ gain \in MinimumGainDb..MaximumGainDb
  BY <1>7, GainsAreNumbers, LengthAssumption DEF RampIn, Spans
<1>9. PICK e, m : /\ e = Clear(p.mem, LevelerEstimates)
                  /\ m = [e EXCEPT !.effective = gain, !.slow = gain, !.fast = 0]
  OBVIOUS
<1>10. /\ Has(m, LevelerMemory) /\ m.effective = gain /\ m.slow = gain /\ m.fast = 0
       /\ \A n \in LevelerEstimates : m[n] = 0
  BY <1>2, <1>9 DEF Ready, Shape, Clear, Has, LevelerMemory, LevelerEstimates
<1>11. PICK q : q = [x EXCEPT !.mem = m]
  OBVIOUS
<1>12. /\ Has(q, Fields) /\ q.mem = m /\ q.ramp = x.ramp /\ q.now = Unset
       /\ q.kind = x.kind /\ q.emu = x.emu /\ q.flag = x.flag /\ q.key = x.key
       /\ q.coef = x.coef /\ q.rate = x.rate /\ q.set = x.set
  BY <1>4, <1>11 DEF Shape, Has, Fields
<1>13. Shape(q, b, Gains)
  BY <1>2, <1>4, <1>10, <1>12 DEF Shape
<1>14. Same(q, p, {"ramp", "now", "mem"})
  BY <1>4, <1>12 DEF Same, Fields
<1>15. Ready(q, b, Gains, rate, c, coef)
  BY <1>2, <1>4, <1>12, <1>13, <1>14 DEF Ready, Follows, Same, Fields
<1>16. LevelerReady(q, rate, c)
  BY <1>1, <1>14, <1>15 DEF LevelerReady, Same, Fields
<1>17. LevelerGains(q)
  BY <1>6, <1>7, <1>8, <1>10, <1>12, GainsAreNumbers DEF LevelerEstimates, LevelerGains
<1>18. LevelerJoins(q)
  BY <1>12 DEF LevelerJoins, Unset
<1>19. m = [[n \in LevelerMemory |-> 0] EXCEPT !.effective = c.manualGainDb, !.slow = c.manualGainDb]
  BY <1>5, <1>10 DEF Has, LevelerMemory
<1>20. q = LevelerReset(p)
  <2>1. x.ramp.manualGainDb.current = gain
    BY <1>6, <1>7
  <2> QED
    BY <1>3, <1>9, <1>11, <2>1, Zenon DEF LevelerReset
<1> QED
  BY <1>3, <1>12, <1>14, <1>16, <1>17, <1>18, <1>19, <1>20 DEF LevelerInv

\* Two of Leveler that were given the same controls are one once reset.
LEMMA LevelerResetsAlike ==
    ASSUME NEW p, NEW q, NEW rate, NEW c \in Settings("Leveler"),
           LevelerReady(p, rate, c), LevelerReady(q, rate, c)
    PROVE  LevelerReset(p) = LevelerReset(q)
<1>1. PICK b, coef : b = LevelerNew /\ coef = LevelerWanted([rate |-> rate])
  OBVIOUS
<1>2. /\ Ready(p, b, Gains, rate, c, coef) /\ Ready(q, b, Gains, rate, c, coef)
      /\ DOMAIN b.flag = {"enabled", "initialized"} /\ DOMAIN b.key = {}
  BY <1>1, LevelerLayout DEF LevelerReady
<1>3. p.flag = q.flag
  BY <1>2 DEF Ready, Shape, LevelerReady, Has
<1>4. p.key = q.key
  <2>1. Has(p.key, {}) /\ Has(q.key, {})
    BY <1>2 DEF Ready, Shape
  <2> QED
    BY <2>1, EmptyAlike
<1>5. ResetRamps(p).ramp = ResetRamps(q).ramp
  BY <1>2, ResetRampsAlike DEF Ready
<1>6. PICK x, y : x = LevelerReset(p) /\ y = LevelerReset(q)
  OBVIOUS
<1>7. PICK m : m = [[n \in LevelerMemory |-> 0] EXCEPT
                      !.effective = c.manualGainDb, !.slow = c.manualGainDb]
  OBVIOUS
<1>8. /\ LevelerInv(x, rate, c) /\ Same(x, p, {"ramp", "now", "mem"}) /\ x.now = Unset
      /\ x.mem = m /\ x.ramp = ResetRamps(p).ramp
  BY <1>6, <1>7, LevelerForgot, ZenonT(60)
<1>9. /\ LevelerInv(y, rate, c) /\ Same(y, q, {"ramp", "now", "mem"}) /\ y.now = Unset
      /\ y.mem = m /\ y.ramp = ResetRamps(q).ramp
  BY <1>6, <1>7, LevelerForgot
<1>10. Shape(x, b, Gains) /\ Shape(y, b, Gains) /\ Same(x, y, {"kind", "emu"})
  BY <1>1, <1>2, <1>3, <1>4, <1>5, <1>8, <1>9 DEF LevelerInv, LevelerReady, Ready, Same, Fields
<1> QED
  BY <1>6, <1>10, Alike

\* A clamped value is in the range it is clamped to.
LEMMA ClampIn ==
    ASSUME NEW x \in Int, NEW low \in Int, NEW high \in Int, low <= high
    PROVE  Clamp(x, low, high) \in low..high
  BY DEF Clamp

\* A value that approaches a target stays between the two.
LEMMA ApproachIn ==
    ASSUME NEW low \in Int, NEW high \in Int, NEW x \in low..high, NEW y \in low..high
    PROVE  Approach(x, y) \in low..high
  BY DEF Approach

\* The range left for the fast part is never empty.
LEMMA FastRange ==
    ASSUME NEW slow \in MinimumGainDb..MaximumGainDb
    PROVE  LET low == Higher(-MaximumFastCorrectionDb, MinimumGainDb - slow)
               high == Lower(MaximumFastCorrectionDb, MaximumGainDb - slow)
           IN  /\ low \in Int /\ high \in Int /\ low <= high
               /\ \A x \in low..high : slow + x \in MinimumGainDb..MaximumGainDb
  BY GainAssumption DEF Higher, Lower

\* The slow gain and the gain applied stay in the range of gains.
LEMMA LevelerTargetsIn ==
    ASSUME NEW p, NEW m, NEW loud \in 0..2,
           p.ramp.targetDb.current \in Int, m.slow \in MinimumGainDb..MaximumGainDb,
           m.fast \in Int, m.slowEnergy \in Int, m.fastEnergy \in Int
    PROVE  LET t == LevelerGainTargets(p, m, loud)
           IN  /\ Has(t, {"effective", "slow", "fast"})
               /\ t.effective \in MinimumGainDb..MaximumGainDb
               /\ t.slow \in MinimumGainDb..MaximumGainDb /\ t.fast \in Int
               /\ t.effective = t.slow + t.fast
<1>1. PICK measuring \in BOOLEAN : measuring <=> (m.gateOpen = 1 /\ loud > 0)
  OBVIOUS
<1>2. PICK level \in Int : level = p.ramp.targetDb.current - m.slowEnergy
  OBVIOUS
<1>3. PICK desired : desired = Clamp(level, MinimumGainDb, MaximumGainDb)
  OBVIOUS
<1>4. desired \in MinimumGainDb..MaximumGainDb
  BY <1>2, <1>3, ClampIn, GainAssumption
<1>5. PICK slow : slow = IF measuring THEN Approach(m.slow, desired) ELSE m.slow
  OBVIOUS
<1>6. slow \in MinimumGainDb..MaximumGainDb
  BY <1>1, <1>4, <1>5, ApproachIn, GainAssumption
<1>7. PICK difference \in Int : difference = m.slowEnergy - m.fastEnergy
  OBVIOUS
<1>8. PICK low \in Int, high \in Int : low = -MaximumFastCorrectionDb /\ high = MaximumFastCorrectionDb
  BY GainAssumption
<1>9. PICK correction : correction = IF ~measuring THEN 0 ELSE Clamp(difference, low, high)
  OBVIOUS
<1>10. correction \in Int
  BY <1>1, <1>7, <1>8, <1>9, ClampIn, GainAssumption
<1>11. PICK step \in Int : step = Approach(m.fast, correction)
  BY <1>10 DEF Approach
<1>12. PICK least, most : /\ least = Higher(low, MinimumGainDb - slow)
                          /\ most = Lower(high, MaximumGainDb - slow)
  OBVIOUS
<1>13. /\ least \in Int /\ most \in Int /\ least <= most
       /\ \A x \in least..most : slow + x \in MinimumGainDb..MaximumGainDb
  BY <1>6, <1>8, <1>12, FastRange
<1>14. PICK fast : fast = Clamp(step, least, most)
  OBVIOUS
<1>15. fast \in least..most
  BY <1>11, <1>13, <1>14, ClampIn
<1>16. PICK sum : sum = slow + fast
  OBVIOUS
<1>17. sum \in MinimumGainDb..MaximumGainDb /\ fast \in Int
  BY <1>13, <1>15, <1>16
<1>18. PICK t : t = [effective |-> sum, slow |-> slow, fast |-> fast]
  OBVIOUS
<1>20. t = LevelerGainTargets(p, m, loud)
  <2>1. measuring = (m.gateOpen = 1 /\ loud > 0)
    BY <1>1
  <2> QED
    BY <1>2, <1>3, <1>5, <1>7, <1>8, <1>9, <1>11, <1>12, <1>14, <1>16, <1>18, <2>1, Zenon
       DEF LevelerGainTargets
<1> QED
  BY <1>6, <1>16, <1>17, <1>18, <1>20 DEF Has

\* A reading extended with the gains of the block keeps the rate.
LEMMA ReadingMore ==
    ASSUME NEW b, NEW L, NEW p, Shape(p, b, L), "rate" \notin DOMAIN b.ramp \cup DOMAIN b.flag,
           "previousGain" \notin DOMAIN b.ramp \cup DOMAIN b.flag,
           "startGain" \notin DOMAIN b.ramp \cup DOMAIN b.flag, NEW x, NEW y
    PROVE  LET in == (Reading(p) ++ [previousGain |-> x]) ++ [startGain |-> y]
           IN  in.rate = p.rate /\ in.previousGain = x /\ in.startGain = y
<1>1. PICK r : r = Reading(p)
  OBVIOUS
<1>2. DOMAIN r = DOMAIN b.ramp \cup DOMAIN b.flag \cup {"rate"} /\ r["rate"] = p.rate
  BY <1>1, ReadingIs
<1>3. PICK s : s = r ++ [previousGain |-> x]
  OBVIOUS
<1>4. /\ DOMAIN s = DOMAIN r \cup {"previousGain"} /\ s.rate = p.rate /\ s.previousGain = x
  BY <1>2, <1>3 DEF ++
<1>5. PICK in : in = s ++ [startGain |-> y]
  OBVIOUS
<1>6. in.rate = p.rate /\ in.previousGain = x /\ in.startGain = y
  BY <1>2, <1>4, <1>5 DEF ++
<1> QED
  BY <1>1, <1>3, <1>5, <1>6

\* A gated block leaves the estimates or replaces them with numbers.
LEMMA LevelerGateKeeps ==
    ASSUME NEW p, Has(p.mem, LevelerMemory), p.mem.slowEnergy \in Int, p.mem.fastEnergy \in Int,
           NEW loud \in 0..2
    PROVE  LET m == LevelerGate(p, loud)
           IN  /\ Has(m, LevelerMemory)
               /\ m.slow = p.mem.slow /\ m.fast = p.mem.fast /\ m.effective = p.mem.effective
               /\ m.slowEnergy \in Int /\ m.fastEnergy \in Int
<1>1. PICK energy, open, hold, seed :
        /\ energy = Approach(p.mem.gateEnergy, loud)
        /\ open = (energy = 2 \/ (p.mem.gateOpen = 1 /\ (energy = 1 \/ p.mem.gateHold > 0)))
        /\ hold = IF energy = 2 \/ (energy = 1 /\ p.mem.gateOpen = 1) THEN p.rate
                  ELSE IF energy = 0 THEN Higher(p.mem.gateHold - 1, 0) ELSE p.mem.gateHold
        /\ seed = (p.mem.hasEstimate = 0 \/ p.mem.gateOpen = 0)
  OBVIOUS
<1>2. PICK weighting, gate, estimate, fast, slow :
        /\ weighting = Higher(p.mem.weighting, Lower(loud, 1))
        /\ gate = IF open THEN 1 ELSE 0
        /\ estimate = IF open THEN 1 ELSE p.mem.hasEstimate
        /\ fast = IF ~open THEN p.mem.fastEnergy ELSE loud
        /\ slow = IF ~open THEN p.mem.slowEnergy
                  ELSE IF seed THEN loud ELSE Approach(p.mem.slowEnergy, loud)
  OBVIOUS
<1>3. slow \in Int /\ fast \in Int
  <2>1. Approach(p.mem.slowEnergy, loud) \in Int
    BY DEF Approach
  <2> QED
    BY <1>2, <2>1
<1>4. PICK m : m = [p.mem EXCEPT !.weighting = weighting, !.gateEnergy = energy,
                                 !.gateHold = hold, !.gateOpen = gate, !.hasEstimate = estimate,
                                 !.fastEnergy = fast, !.slowEnergy = slow]
  OBVIOUS
<1>5. /\ Has(m, LevelerMemory)
      /\ m.slow = p.mem.slow /\ m.fast = p.mem.fast /\ m.effective = p.mem.effective
      /\ m.slowEnergy = slow /\ m.fastEnergy = fast
  BY <1>4 DEF Has, LevelerMemory, LevelerEstimates
<1>6. m = LevelerGate(p, loud)
  BY <1>1, <1>2, <1>4 DEF LevelerGate, Has, LevelerMemory, LevelerEstimates
<1> QED
  BY <1>3, <1>5, <1>6

\* A sample of Leveler reads the rate it was prepared for.
LEMMA LevelerReads ==
    ASSUME NEW p, NEW rate, NEW c, LevelerReady(p, rate, c), NEW x, NEW y
    PROVE  LET in == (Reading(p) ++ [previousGain |-> x]) ++ [startGain |-> y]
           IN  /\ LevelerWanted(in) = LevelerWanted([rate |-> rate])
               /\ in.previousGain = x /\ in.startGain = y
BY LevelerLayout, ReadingMore, StampRate DEF LevelerReady, Ready, LevelerWanted

\* A sample keeps the contract of Leveler, and its coefficients are those of what it read.
LEMMA LevelerRan ==
    ASSUME NEW p, NEW rate, NEW c, LevelerInv(p, rate, c), NEW loud \in 0..2
    PROVE  LET q == LevelerProcess(p, loud)
           IN  /\ LevelerInv(q, rate, c) /\ Same(q, p, {"ramp", "now", "mem"})
               /\ q.coef = LevelerWanted(q.now)
<1>1. PICK b, coef : b = LevelerNew /\ coef = LevelerWanted([rate |-> rate])
  OBVIOUS
<1>2. /\ Ready(p, b, Gains, rate, c, coef) /\ LevelerReady(p, rate, c) /\ LevelerGains(p)
      /\ DOMAIN b.ramp = {"targetDb", "manualGainDb"} /\ DOMAIN b.mem = LevelerMemory
      /\ Gains \subseteq Int
  BY <1>1, LevelerLayout, GainsAreNumbers DEF LevelerInv, LevelerReady
<1>3. /\ Has(p, Fields) /\ Has(p.ramp, {"targetDb", "manualGainDb"}) /\ Has(p.mem, LevelerMemory)
      /\ RampIn(p.ramp.targetDb, Gains) /\ RampIn(p.ramp.manualGainDb, Gains)
  BY <1>2 DEF Ready, Shape
<1>4. PICK t : t = RampAdvance(p.ramp.targetDb)
  OBVIOUS
<1>5. RampIn(t, Gains) /\ t.target = p.ramp.targetDb.target /\ t.current \in Int
  BY <1>2, <1>3, <1>4, AdvanceIn, RampIs
<1>6. PICK read : read = Reading(p) ++ [previousGain |-> p.mem.effective]
  OBVIOUS
<1>7. PICK r : r = [p.ramp EXCEPT !.targetDb = t]
  OBVIOUS
<1>8. Has(r, {"targetDb", "manualGainDb"}) /\ r.targetDb = t /\ r.manualGainDb = p.ramp.manualGainDb
  BY <1>3, <1>7 DEF Has
<1>9. PICK y : y = [p EXCEPT !.now = read, !.ramp = r]
  OBVIOUS
<1>10. /\ Has(y, Fields) /\ y.mem = p.mem /\ y.ramp = r /\ y.now = read /\ y.flag = p.flag
       /\ y.kind = p.kind /\ y.emu = p.emu /\ y.key = p.key
       /\ y.coef = p.coef /\ y.rate = p.rate /\ y.set = p.set
  BY <1>3, <1>9 DEF Has, Fields
<1>11. y = [p EXCEPT !.now = Reading(p) ++ [previousGain |-> p.mem.effective],
                     !.ramp.targetDb = RampAdvance(@)]
  BY <1>3, <1>4, <1>6, <1>7, <1>9 DEF Has, Fields
<1>12. PICK start : start = [startGain |-> p.mem.effective]
  OBVIOUS
<1>13. PICK in : in = read ++ start
  OBVIOUS
<1>15. ASSUME NEW g, NEW m, NEW q,
              RampIn(g, Gains), g.target = p.ramp.manualGainDb.target, Has(m, LevelerMemory),
              Has(q, Fields), q.now = in, q.mem = m,
              Has(q.ramp, {"targetDb", "manualGainDb"}), q.ramp.targetDb = t, q.ramp.manualGainDb = g,
              q.flag = p.flag, q.kind = p.kind, q.emu = p.emu, q.key = p.key,
              q.coef = p.coef, q.rate = p.rate, q.set = p.set
       PROVE  /\ LevelerReady(q, rate, c) /\ Same(q, p, {"ramp", "now", "mem"})
              /\ LevelerJoins(q) /\ q.coef = LevelerWanted(q.now)
  <2>1. Shape(q, b, Gains)
    BY <1>2, <1>5, <1>15 DEF Shape, Ready
  <2>2. Follows(q, b, c)
    BY <1>2, <1>5, <1>15 DEF Follows, Ready
  <2>3. LevelerReady(q, rate, c)
    BY <1>1, <1>2, <1>15, <2>1, <2>2 DEF LevelerReady, Ready
  <2>4. Same(q, p, {"ramp", "now", "mem"})
    BY <1>15 DEF Same, Fields
  <2>5. LevelerJoins(q) /\ q.coef = LevelerWanted(q.now)
    BY <1>1, <1>2, <1>6, <1>12, <1>13, <1>15, LevelerReads DEF LevelerJoins, Ready
  <2> QED
    BY <2>3, <2>4, <2>5
<1>16. p.flag.enabled = 0 =>
         LET q == LevelerProcess(p, loud)
         IN  /\ LevelerInv(q, rate, c) /\ Same(q, p, {"ramp", "now", "mem"})
             /\ q.coef = LevelerWanted(q.now)
  <2> HAVE p.flag.enabled = 0
  <2>1. PICK g, gain : g = RampAdvance(p.ramp.manualGainDb) /\ gain = g.current
    OBVIOUS
  <2>2. RampIn(g, ManualGains) /\ g.target = p.ramp.manualGainDb.target
    BY <1>2, <2>1, AdvanceIn, GainsAreNumbers DEF LevelerGains
  <2>3. RampIn(g, Gains) /\ gain \in MinimumGainDb..MaximumGainDb
    BY <2>1, <2>2, ManualIn
  <2>4. p.ramp.manualGainDb.current = p.mem.effective
    BY <1>2 DEF LevelerGains
  <2>5. PICK m : m = [p.mem EXCEPT !.effective = gain, !.slow = gain, !.fast = 0]
    OBVIOUS
  <2>6. /\ Has(m, LevelerMemory) /\ m.effective = gain /\ m.slow = gain /\ m.fast = 0
        /\ m.slowEnergy = p.mem.slowEnergy /\ m.fastEnergy = p.mem.fastEnergy
    BY <1>3, <2>5 DEF Has, LevelerMemory, LevelerEstimates
  <2>7. PICK s : s = [r EXCEPT !.manualGainDb = g]
    OBVIOUS
  <2>8. Has(s, {"targetDb", "manualGainDb"}) /\ s.targetDb = t /\ s.manualGainDb = g
    BY <1>8, <2>7 DEF Has
  <2>9. PICK q : q = [y EXCEPT !.ramp = s, !.now = in, !.mem = m]
    OBVIOUS
  <2>10. /\ Has(q, Fields) /\ q.mem = m /\ q.ramp = s /\ q.now = in /\ q.flag = p.flag
         /\ q.kind = p.kind /\ q.emu = p.emu /\ q.key = p.key
         /\ q.coef = p.coef /\ q.rate = p.rate /\ q.set = p.set
    BY <1>10, <2>9 DEF Has, Fields
  <2>11. q = LevelerProcess(p, loud)
    <3>1. LevelerProcess(p, loud) = LevelerProcessManualGain(y)
      BY <1>11, Zenon DEF LevelerProcess
    <3>2. y.ramp.manualGainDb = p.ramp.manualGainDb
      BY <1>8, <1>10
    <3>3. LevelerProcessManualGain(y) =
            [y EXCEPT !.ramp.manualGainDb = g, !.now = y.now ++ start, !.mem = m]
      BY <1>10, <1>12, <2>1, <2>4, <2>5, <3>2 DEF LevelerProcessManualGain, Has, Fields
    <3> QED
      BY <1>10, <1>13, <2>7, <2>9, <3>1, <3>3 DEF Has, Fields
  <2>12. /\ LevelerReady(q, rate, c) /\ Same(q, p, {"ramp", "now", "mem"})
         /\ LevelerJoins(q) /\ q.coef = LevelerWanted(q.now)
    BY <1>15, <2>2, <2>3, <2>6, <2>8, <2>10
  <2>13. LevelerGains(q)
    <3>1. gain \in Int /\ gain = gain + 0 /\ 0 \in Int
      BY <2>3, GainsAreNumbers
    <3> QED
      BY <1>2, <2>1, <2>2, <2>3, <2>6, <2>8, <2>10, <3>1 DEF LevelerGains
  <2> QED
    BY <2>11, <2>12, <2>13 DEF LevelerInv
<1>17. p.flag.enabled # 0 =>
         LET q == LevelerProcess(p, loud)
         IN  /\ LevelerInv(q, rate, c) /\ Same(q, p, {"ramp", "now", "mem"})
             /\ q.coef = LevelerWanted(q.now)
  <2> HAVE p.flag.enabled # 0
  <2>1. PICK m : m = LevelerGate(y, loud)
    OBVIOUS
  <2>2. /\ Has(m, LevelerMemory)
        /\ m.slow = p.mem.slow /\ m.fast = p.mem.fast /\ m.effective = p.mem.effective
        /\ m.slowEnergy \in Int /\ m.fastEnergy \in Int
    BY <1>2, <1>3, <1>10, <2>1, LevelerGateKeeps DEF LevelerGains
  <2>3. PICK g : g = LevelerGainTargets(y, m, loud)
    OBVIOUS
  <2>4. /\ Has(g, {"effective", "slow", "fast"})
        /\ g.effective \in MinimumGainDb..MaximumGainDb
        /\ g.slow \in MinimumGainDb..MaximumGainDb /\ g.fast \in Int
        /\ g.effective = g.slow + g.fast
    BY <1>2, <1>5, <1>8, <1>10, <2>2, <2>3, LevelerTargetsIn DEF LevelerGains
  <2>5. PICK mem : mem = g ++ m
    OBVIOUS
  <2>6. /\ Has(mem, LevelerMemory) /\ mem.effective = g.effective /\ mem.slow = g.slow
        /\ mem.fast = g.fast /\ mem.slowEnergy = m.slowEnergy /\ mem.fastEnergy = m.fastEnergy
    BY <2>2, <2>4, <2>5 DEF ++, Has, LevelerMemory, LevelerEstimates
  <2>7. PICK q : q = [y EXCEPT !.now = in, !.mem = mem]
    OBVIOUS
  <2>8. /\ Has(q, Fields) /\ q.mem = mem /\ q.ramp = r /\ q.now = in /\ q.flag = p.flag
        /\ q.kind = p.kind /\ q.emu = p.emu /\ q.key = p.key
        /\ q.coef = p.coef /\ q.rate = p.rate /\ q.set = p.set
    BY <1>10, <2>7 DEF Has, Fields
  <2>9. q = LevelerProcess(p, loud)
    <3>1. LevelerProcess(p, loud) = LevelerProcessAutomaticGain(y, mem)
      BY <1>11, <2>1, <2>3, <2>5, Zenon DEF LevelerProcess, LevelerCalculateAutomaticGain
    <3> QED
      BY <1>10, <1>12, <1>13, <2>7, <3>1 DEF LevelerProcessAutomaticGain
  <2>11. LevelerGains(q)
    BY <1>2, <1>8, <2>2, <2>4, <2>6, <2>8 DEF LevelerGains
  <2> QED
    BY <1>3, <1>8, <1>15, <2>6, <2>8, <2>9, <2>11 DEF LevelerInv
<1> QED
  BY <1>16, <1>17

-----------------------------------------------------------------------------
(* Cla2a and Cla3a.                                                          *)

\* The levels of the controls are levels of a ramp.
LEMMA StepsIn == ASSUME NEW r, RampIn(r, Steps)
                 PROVE  r.current \in 0..99 /\ r.target \in 0..99
BY StepsAreNumbers DEF RampIn, Spans

\* The stamp of a single input.
One(n, v) == [x \in {n} |-> v]

\* A stamp of one input is that input.
LEMMA StampOne == ASSUME NEW in, NEW n PROVE Stamp(in, {n}) = One(n, in[n])
  BY DEF Stamp, One

Cla2aCoefficients == {"detector", "curve", "makeup", "output", "colour"}
Cla3aCoefficients == {"detector", "memory", "shelf", "curve", "makeup", "output", "colour",
                      "highPass"}

Cla2aMemory(emu) == OpticalMemory \cup OpticalColour(emu)
Cla3aMemory(emu) == OpticalMemory \cup {"detectorShelf"} \cup OpticalColour(emu)

\* The layout of an optical compressor.
OpticalLayout(b, registers) ==
    /\ Shape(b, b, Steps) /\ b.emu \in BOOLEAN
    /\ DOMAIN b.ramp = {"reduction", "gain"} /\ DOMAIN b.flag = {}
    /\ DOMAIN b.key = {"reduction", "gain"}
    /\ \/ b.kind = "Cla2a" /\ DOMAIN b.coef = Cla2aCoefficients /\ registers = Cla2aMemory(b.emu)
       \/ b.kind = "Cla3a" /\ DOMAIN b.coef = Cla3aCoefficients /\ registers = Cla3aMemory(b.emu)
    /\ DOMAIN b.mem = registers
    /\ OpticalMemory \subseteq registers /\ OpticalColour(b.emu) \subseteq registers
    /\ \A n \in DOMAIN b.coef : b.coef[n] = Unset

\* A new Cla2a has its registers, keys and coefficients, at rest.
LEMMA Cla2aLayout ==
    ASSUME NEW emu \in BOOLEAN
    PROVE  LET b == Cla2aNew(emu)
           IN  OpticalLayout(b, Cla2aMemory(emu)) /\ b.kind = "Cla2a" /\ b.emu = emu
<1>1. 0 \in Steps
  BY DEF Steps, Gains
<1>2. PICK k, ramps, flags, coefs, mems :
        /\ k = "Cla2a" /\ ramps = OpticalRamps /\ flags = {}
        /\ coefs = Cla2aCoefficients /\ mems = Cla2aMemory(emu)
  OBVIOUS
<1>3. PICK b : b = Blank(k, emu, ramps, flags, ramps, coefs, mems)
  OBVIOUS
<1>4. /\ Shape(b, b, Steps) /\ b.kind = k /\ b.emu = emu
      /\ DOMAIN b.ramp = ramps /\ DOMAIN b.flag = flags /\ DOMAIN b.key = ramps
      /\ DOMAIN b.coef = coefs /\ DOMAIN b.mem = mems
  BY <1>1, <1>3, BlankShape
<1>5. b = Cla2aNew(emu)
  BY <1>2, <1>3, Zenon DEF Cla2aNew, Cla2aCoefficients, Cla2aMemory
<1>6. \A n \in coefs : b.coef[n] = Unset
  BY <1>3 DEF Blank
<1> QED
  BY <1>2, <1>4, <1>5, <1>6 DEF OpticalLayout, OpticalRamps, Cla2aMemory

\* A new Cla3a has its registers, keys and coefficients, at rest.
LEMMA Cla3aLayout ==
    ASSUME NEW emu \in BOOLEAN
    PROVE  LET b == Cla3aNew(emu)
           IN  OpticalLayout(b, Cla3aMemory(emu)) /\ b.kind = "Cla3a" /\ b.emu = emu
<1>1. 0 \in Steps
  BY DEF Steps, Gains
<1>2. PICK k, ramps, flags, coefs, mems :
        /\ k = "Cla3a" /\ ramps = OpticalRamps /\ flags = {}
        /\ coefs = Cla3aCoefficients /\ mems = Cla3aMemory(emu)
  OBVIOUS
<1>3. PICK b : b = Blank(k, emu, ramps, flags, ramps, coefs, mems)
  OBVIOUS
<1>4. /\ Shape(b, b, Steps) /\ b.kind = k /\ b.emu = emu
      /\ DOMAIN b.ramp = ramps /\ DOMAIN b.flag = flags /\ DOMAIN b.key = ramps
      /\ DOMAIN b.coef = coefs /\ DOMAIN b.mem = mems
  BY <1>1, <1>3, BlankShape
<1>5. b = Cla3aNew(emu)
  BY <1>2, <1>3, Zenon DEF Cla3aNew, Cla3aCoefficients, Cla3aMemory
<1>6. \A n \in coefs : b.coef[n] = Unset
  BY <1>3 DEF Blank
<1> QED
  BY <1>2, <1>4, <1>5, <1>6 DEF OpticalLayout, OpticalRamps, Cla3aMemory

MakeupOf(emu, v) == IF emu THEN Unset ELSE One("reduction", v)
RateOf(emu, rate) == IF emu THEN One("rate", rate) ELSE Unset

\* A key that is one stands for the coefficients computed for it.
OpticalKnows(p) ==
    /\ p.key.reduction # NoKey => /\ p.coef.curve = One("reduction", p.key.reduction)
                                  /\ p.coef.makeup = MakeupOf(p.emu, p.key.reduction)
    /\ p.key.gain # NoKey => p.coef.output = One("gain", p.key.gain)

\* The coefficients that depend on the sample rate.
OpticalRated(p, rate) ==
    /\ p.coef.detector = One("rate", rate) /\ p.coef.colour = RateOf(p.emu, rate)
    /\ p.kind = "Cla3a" => /\ p.coef.memory = One("rate", rate) /\ p.coef.shelf = One("rate", rate)
                           /\ p.coef.highPass = RateOf(p.emu, rate)

\* Only Emulation has the coefficients of its filters.
OpticalFormed(p, b) ==
    /\ Shape(p, b, Steps)
    /\ ~p.emu => p.coef.colour = Unset /\ (p.kind = "Cla3a" => p.coef.highPass = Unset)

OpticalInv(p, b, rate, c) ==
    /\ Shape(p, b, Steps) /\ p.rate = rate /\ p.set = c /\ Follows(p, b, c)
    /\ OpticalRated(p, rate) /\ OpticalKnows(p)

\* All coefficients are those of the inputs.
OpticalCurrent(coef, p, reduction, gain, rate) ==
    /\ coef.curve = One("reduction", reduction) /\ coef.makeup = MakeupOf(p.emu, reduction)
    /\ coef.output = One("gain", gain)
    /\ coef.detector = One("rate", rate) /\ coef.colour = RateOf(p.emu, rate)
    /\ p.kind = "Cla3a" => /\ coef.memory = One("rate", rate) /\ coef.shelf = One("rate", rate)
                           /\ coef.highPass = RateOf(p.emu, rate)

\* The coefficients that are current for equal inputs are equal.
LEMMA OpticalCurrentAlike ==
    ASSUME NEW b, NEW registers, OpticalLayout(b, registers), NEW p, p.kind = b.kind,
           NEW f, NEW g, Has(f, DOMAIN b.coef), Has(g, DOMAIN b.coef),
           NEW reduction, NEW gain, NEW rate,
           OpticalCurrent(f, p, reduction, gain, rate), OpticalCurrent(g, p, reduction, gain, rate)
    PROVE  f = g
  BY DEF OpticalLayout, OpticalCurrent, Has, Cla2aCoefficients, Cla3aCoefficients

\* A curve is computed again when its key differs and is kept, rightly, when it does not.
LEMMA OpticalCurve ==
    ASSUME NEW b, NEW registers, OpticalLayout(b, registers), NEW p, Shape(p, b, Steps),
           NEW rate, OpticalRated(p, rate), OpticalKnows(p), NEW in, in.reduction # NoKey
    PROVE  LET q == OpticalUpdateReductionCurve(p, in)
           IN  /\ Shape(q, b, Steps) /\ Same(q, p, {"coef", "key"})
               /\ OpticalRated(q, rate) /\ OpticalKnows(q)
               /\ q.key.reduction = in.reduction /\ q.key.gain = p.key.gain
<1>1. /\ Has(p, Fields) /\ Has(p.key, {"reduction", "gain"}) /\ Has(p.coef, DOMAIN b.coef)
      /\ p.kind = b.kind /\ p.emu = b.emu
      /\ \/ b.kind = "Cla2a" /\ DOMAIN b.coef = Cla2aCoefficients
         \/ b.kind = "Cla3a" /\ DOMAIN b.coef = Cla3aCoefficients
  BY DEF OpticalLayout, Shape
<1>2. PICK v : v = in.reduction
  OBVIOUS
<1>3. PICK coef, key : /\ coef = [p.coef EXCEPT !.curve = One("reduction", v),
                                                !.makeup = MakeupOf(p.emu, v)]
                       /\ key = [p.key EXCEPT !.reduction = v]
  OBVIOUS
<1>4. PICK q : q = [p EXCEPT !.coef = coef, !.key = key]
  OBVIOUS
<1>5. /\ Has(q, Fields) /\ q.mem = p.mem /\ q.ramp = p.ramp /\ q.now = p.now /\ q.flag = p.flag
      /\ q.kind = p.kind /\ q.emu = p.emu /\ q.key = key
      /\ q.coef = coef /\ q.rate = p.rate /\ q.set = p.set
  BY <1>1, <1>4 DEF Has, Fields
<1>6. /\ Has(coef, DOMAIN b.coef) /\ coef.curve = One("reduction", v)
      /\ coef.makeup = MakeupOf(p.emu, v)
      /\ \A n \in DOMAIN b.coef \ {"curve", "makeup"} : coef[n] = p.coef[n]
  BY <1>1, <1>3 DEF Has, Cla2aCoefficients, Cla3aCoefficients
<1>7. Has(key, {"reduction", "gain"}) /\ key.reduction = v /\ key.gain = p.key.gain
  BY <1>1, <1>3 DEF Has
<1>8. Shape(q, b, Steps)
  BY <1>5, <1>6, <1>7 DEF Shape, OpticalLayout
<1>9. Same(q, p, {"coef", "key"})
  BY <1>5 DEF Same, Fields
<1>10. OpticalRated(q, rate)
  BY <1>1, <1>5, <1>6 DEF Cla2aCoefficients, Cla3aCoefficients, OpticalRated
<1>11. OpticalKnows(q)
  <2>1. "output" \in DOMAIN b.coef \ {"curve", "makeup"}
    BY <1>1 DEF Cla2aCoefficients, Cla3aCoefficients
  <2> QED
    BY <1>5, <1>6, <1>7, <2>1 DEF OpticalKnows
<1>12. (v # p.key.reduction) => q = OpticalUpdateReductionCurve(p, in)
  <2> HAVE v # p.key.reduction
  <2>2. PICK s, t : s = One("reduction", v) /\ t = MakeupOf(p.emu, v)
    OBVIOUS
  <2>3. Stamp(in, {"reduction"}) = s /\ (IF p.emu THEN Unset ELSE Stamp(in, {"reduction"})) = t
    BY <1>2, <2>2, StampOne DEF MakeupOf
  <2> QED
    BY <1>1, <1>2, <1>3, <1>4, <2>2, <2>3 DEF Has, Fields, OpticalUpdateReductionCurve
<1>13. (v = p.key.reduction) => p = OpticalUpdateReductionCurve(p, in)
  BY <1>2 DEF OpticalUpdateReductionCurve
<1>14. Same(p, p, {"coef", "key"})
  BY DEF Same
<1> QED
  BY <1>2, <1>5, <1>7, <1>8, <1>9, <1>10, <1>11, <1>12, <1>13, <1>14

\* The same for the output gain.
LEMMA OpticalGain ==
    ASSUME NEW b, NEW registers, OpticalLayout(b, registers), NEW p, Shape(p, b, Steps),
           NEW rate, OpticalRated(p, rate), OpticalKnows(p), NEW in, in.gain # NoKey
    PROVE  LET q == OpticalUpdateOutputGain(p, in)
           IN  /\ Shape(q, b, Steps) /\ Same(q, p, {"coef", "key"})
               /\ OpticalRated(q, rate) /\ OpticalKnows(q)
               /\ q.key.gain = in.gain /\ q.key.reduction = p.key.reduction
<1>1. /\ Has(p, Fields) /\ Has(p.key, {"reduction", "gain"}) /\ Has(p.coef, DOMAIN b.coef)
      /\ p.kind = b.kind /\ p.emu = b.emu
      /\ \/ b.kind = "Cla2a" /\ DOMAIN b.coef = Cla2aCoefficients
         \/ b.kind = "Cla3a" /\ DOMAIN b.coef = Cla3aCoefficients
  BY DEF OpticalLayout, Shape
<1>2. PICK v : v = in.gain
  OBVIOUS
<1>3. PICK coef, key : /\ coef = [p.coef EXCEPT !.output = One("gain", v)]
                       /\ key = [p.key EXCEPT !.gain = v]
  OBVIOUS
<1>4. PICK q : q = [p EXCEPT !.coef = coef, !.key = key]
  OBVIOUS
<1>5. /\ Has(q, Fields) /\ q.mem = p.mem /\ q.ramp = p.ramp /\ q.now = p.now /\ q.flag = p.flag
      /\ q.kind = p.kind /\ q.emu = p.emu /\ q.key = key
      /\ q.coef = coef /\ q.rate = p.rate /\ q.set = p.set
  BY <1>1, <1>4 DEF Has, Fields
<1>6. /\ Has(coef, DOMAIN b.coef) /\ coef.output = One("gain", v)
      /\ \A n \in DOMAIN b.coef \ {"output"} : coef[n] = p.coef[n]
  BY <1>1, <1>3 DEF Has, Cla2aCoefficients, Cla3aCoefficients
<1>7. Has(key, {"reduction", "gain"}) /\ key.gain = v /\ key.reduction = p.key.reduction
  BY <1>1, <1>3 DEF Has
<1>8. Shape(q, b, Steps)
  BY <1>5, <1>6, <1>7 DEF Shape, OpticalLayout
<1>9. Same(q, p, {"coef", "key"})
  BY <1>5 DEF Same, Fields
<1>10. OpticalRated(q, rate)
  BY <1>1, <1>5, <1>6 DEF Cla2aCoefficients, Cla3aCoefficients, OpticalRated
<1>11. OpticalKnows(q)
  BY <1>1, <1>5, <1>6, <1>7 DEF Cla2aCoefficients, Cla3aCoefficients, OpticalKnows
<1>12. (v # p.key.gain) => q = OpticalUpdateOutputGain(p, in)
  <2> HAVE v # p.key.gain
  <2>2. Stamp(in, {"gain"}) = One("gain", v)
    BY <1>2, StampOne
  <2> QED
    BY <1>1, <1>2, <1>3, <1>4, <2>2 DEF Has, Fields, OpticalUpdateOutputGain
<1>13. (v = p.key.gain) => p = OpticalUpdateOutputGain(p, in)
  BY <1>2 DEF OpticalUpdateOutputGain
<1>14. Same(p, p, {"coef", "key"})
  BY SMTT(30) DEF Same
<1> QED
  BY <1>2, <1>5, <1>7, <1>8, <1>9, <1>10, <1>11, <1>12, <1>13, <1>14

\* What a sample reads of a ramp.
LEMMA RampRead ==
    ASSUME NEW b, NEW L, NEW p, Shape(p, b, L), NEW in, in = Reading(p), NEW n \in DOMAIN b.ramp
    PROVE  in[n] = p.ramp[n].current
  BY DEF Reading, ++, Shape, Has

\* A sample reads the rate the processor was prepared for.
LEMMA RateRead ==
    ASSUME NEW b, NEW L, NEW p, Shape(p, b, L), NEW in, in = Reading(p),
           "rate" \notin DOMAIN b.ramp \cup DOMAIN b.flag
    PROVE  in.rate = p.rate
  BY ReadingIs

\* A reset clears the registers and computes the curve and the gain its ramps end at.
LEMMA OpticalForgets ==
    ASSUME NEW b, NEW registers, OpticalLayout(b, registers), NEW p, Shape(p, b, Steps),
           NEW rate, OpticalRated(p, rate)
    PROVE  LET q == OpticalReset(p, registers)
           IN  /\ Shape(q, b, Steps) /\ Same(q, p, {"ramp", "now", "mem", "coef", "key"})
               /\ OpticalRated(q, rate) /\ OpticalKnows(q) /\ q.now = Unset
               /\ q.ramp = ResetRamps(p).ramp /\ q.mem = [n \in registers |-> 0]
               /\ \A n \in DOMAIN b.ramp : q.ramp[n].target = p.ramp[n].target
               /\ q.key.reduction = p.ramp.reduction.target /\ q.key.gain = p.ramp.gain.target
               /\ OpticalCurrent(q.coef, q, p.ramp.reduction.target, p.ramp.gain.target, rate)
<1>1. PICK x : x = ResetRamps(p)
  OBVIOUS
<1>2. /\ Shape(x, b, Steps) /\ Same(x, p, {"ramp", "now"}) /\ x.now = Unset
      /\ \A n \in DOMAIN b.ramp : x.ramp[n].target = p.ramp[n].target
      /\ \A n \in DOMAIN b.ramp : x.ramp[n] = RampReset(p.ramp[n])
  BY <1>1, ResetShape
<1>3. PICK key, m : key = [n \in DOMAIN x.key |-> NoKey] /\ m = Clear(x.mem, registers)
  OBVIOUS
<1>4. PICK y : y = [x EXCEPT !.key = key, !.mem = m]
  OBVIOUS
<1>5. /\ Has(y, Fields) /\ y.mem = m /\ y.ramp = x.ramp /\ y.now = x.now /\ y.flag = x.flag
      /\ y.kind = x.kind /\ y.emu = x.emu /\ y.key = key
      /\ y.coef = x.coef /\ y.rate = x.rate /\ y.set = x.set
  BY <1>2, <1>4 DEF Shape, Has, Fields
<1>6. m = [n \in registers |-> 0] /\ Has(m, DOMAIN b.mem)
  BY <1>2, <1>3, ClearIs DEF Shape, OpticalLayout
<1>7. Has(key, DOMAIN b.key) /\ key.reduction = NoKey /\ key.gain = NoKey
  BY <1>2, <1>3, ZenonT(60) DEF Shape, Has, OpticalLayout
<1>8. Shape(y, b, Steps) /\ Same(y, p, {"ramp", "now", "mem", "key"})
  BY <1>2, <1>5, <1>6, <1>7 DEF Shape, Same, Fields
<1>9. OpticalRated(y, rate) /\ OpticalKnows(y)
  BY <1>5, <1>7, <1>8 DEF OpticalRated, OpticalKnows, Same, Fields
<1>10. PICK in : in = Reading(y)
  OBVIOUS
<1>11. /\ "reduction" \in DOMAIN b.ramp /\ "gain" \in DOMAIN b.ramp
  BY DEF OpticalLayout
<1>12. in.reduction = p.ramp.reduction.target /\ in.gain = p.ramp.gain.target
  <2>1. RampIn(p.ramp.reduction, Steps) /\ RampIn(p.ramp.gain, Steps)
    BY <1>11 DEF Shape
  <2>2. x.ramp.reduction.current = p.ramp.reduction.target /\ x.ramp.gain.current = p.ramp.gain.target
    BY <1>2, <1>11, <2>1, ResetIn
  <2>3. in.reduction = y.ramp.reduction.current /\ in.gain = y.ramp.gain.current
    BY <1>8, <1>10, <1>11, RampRead
  <2> QED
    BY <1>5, <2>2, <2>3
<1>13. in.reduction # NoKey /\ in.gain # NoKey
  <2>1. RampIn(p.ramp.reduction, Steps) /\ RampIn(p.ramp.gain, Steps)
    BY <1>11 DEF Shape
  <2> QED
    BY <1>12, <2>1, StepsIn DEF NoKey
<1>14. PICK z : z = OpticalUpdateReductionCurve(y, in)
  OBVIOUS
<1>15. /\ Shape(z, b, Steps) /\ Same(z, y, {"coef", "key"})
       /\ OpticalRated(z, rate) /\ OpticalKnows(z) /\ z.key.reduction = in.reduction
  BY <1>8, <1>9, <1>13, <1>14, OpticalCurve
<1>16. PICK q : q = OpticalUpdateOutputGain(z, in)
  OBVIOUS
<1>17. /\ Shape(q, b, Steps) /\ Same(q, z, {"coef", "key"})
       /\ OpticalRated(q, rate) /\ OpticalKnows(q)
       /\ q.key.gain = in.gain /\ q.key.reduction = in.reduction
  BY <1>13, <1>15, <1>16, OpticalGain
<1>18. /\ Same(q, p, {"ramp", "now", "mem", "coef", "key"})
       /\ q.mem = m /\ q.ramp = x.ramp /\ q.now = Unset
  BY <1>2, <1>5, <1>8, <1>15, <1>17 DEF Same, Fields
<1>19. q = OpticalReset(p, registers)
  BY <1>1, <1>3, <1>4, <1>10, <1>14, <1>16, Zenon DEF OpticalReset
<1>20. OpticalCurrent(q.coef, q, p.ramp.reduction.target, p.ramp.gain.target, rate)
  BY <1>12, <1>13, <1>17 DEF OpticalCurrent, OpticalKnows, OpticalRated
<1> QED
  BY <1>1, <1>2, <1>6, <1>12, <1>17, <1>18, <1>19, <1>20

\* New controls move the ramps alone; the keys still stand for the coefficients.
LEMMA OpticalSet ==
    ASSUME NEW b, NEW registers, OpticalLayout(b, registers), NEW p, Shape(p, b, Steps),
           OpticalRated(p, p.rate), OpticalKnows(p), NEW c \in Settings(b.kind)
    PROVE  LET q == OpticalSetControls([p EXCEPT !.set = c], c)
           IN  OpticalInv(q, b, p.rate, c) /\ Same(q, p, {"ramp", "set"})
<1>1. PICK names : names = OpticalRamps
  OBVIOUS
<1>2. DOMAIN b.ramp = names
  BY <1>1 DEF OpticalLayout, OpticalRamps
<1>4. Allowed(c, DOMAIN b.ramp, Steps) /\ Steps \subseteq Int
  BY <1>1, <1>2, SettingsAllowed, StepsAreNumbers DEF OpticalLayout, Controls, Processors,
     Switches, Optical, OpticalRamps
<1>5. PICK q : q = Aim([p EXCEPT !.set = c], c, DOMAIN b.ramp)
  OBVIOUS
<1>6. Ready(q, b, Steps, p.rate, c, p.coef) /\ Same(q, p, {"ramp", "set"})
  BY <1>4, <1>5, AllAimed
<1>7. q = OpticalSetControls([p EXCEPT !.set = c], c)
  BY <1>1, <1>2, <1>5 DEF OpticalSetControls
<1>8. q.key = p.key /\ q.coef = p.coef /\ q.emu = p.emu /\ q.kind = p.kind
  BY <1>6 DEF Same, Fields
<1>9. OpticalRated(q, p.rate) /\ OpticalKnows(q)
  BY <1>8 DEF OpticalRated, OpticalKnows
<1> QED
  BY <1>6, <1>7, <1>9 DEF OpticalInv, Ready

\* New controls keep the contract.
LEMMA OpticalKept ==
    ASSUME NEW b, NEW registers, OpticalLayout(b, registers), NEW p, NEW rate, NEW d,
           OpticalInv(p, b, rate, d), NEW c \in Settings(b.kind)
    PROVE  LET q == OpticalSetControls([p EXCEPT !.set = c], c)
           IN  OpticalInv(q, b, rate, c) /\ Same(q, p, {"ramp", "set"})
BY OpticalSet DEF OpticalInv

\* A reset keeps the contract.
LEMMA OpticalForgot ==
    ASSUME NEW b, NEW registers, OpticalLayout(b, registers), NEW p, NEW rate, NEW c,
           OpticalInv(p, b, rate, c)
    PROVE  LET q == OpticalReset(p, registers)
           IN  /\ OpticalInv(q, b, rate, c) /\ Same(q, p, {"ramp", "now", "mem", "coef", "key"})
               /\ q.now = Unset
<1>1. Shape(p, b, Steps) /\ OpticalRated(p, rate) /\ p.rate = rate /\ p.set = c /\ Follows(p, b, c)
  BY DEF OpticalInv
<1>2. PICK q : q = OpticalReset(p, registers)
  OBVIOUS
<1>3. /\ Shape(q, b, Steps) /\ Same(q, p, {"ramp", "now", "mem", "coef", "key"})
      /\ OpticalRated(q, rate) /\ OpticalKnows(q) /\ q.now = Unset
      /\ q.ramp = ResetRamps(p).ramp /\ q.mem = [n \in registers |-> 0]
      /\ \A n \in DOMAIN b.ramp : q.ramp[n].target = p.ramp[n].target
      /\ q.key.reduction = p.ramp.reduction.target /\ q.key.gain = p.ramp.gain.target
      /\ OpticalCurrent(q.coef, q, p.ramp.reduction.target, p.ramp.gain.target, rate)
  BY <1>1, <1>2, OpticalForgets
<1>4. q.rate = rate /\ q.set = c /\ Follows(q, b, c)
  BY <1>1, <1>3 DEF Same, Fields, Follows
<1> QED
  BY <1>2, <1>3, <1>4 DEF OpticalInv

\* Two that were given the same controls are one once reset.
LEMMA OpticalResetsAlike ==
    ASSUME NEW b, NEW registers, OpticalLayout(b, registers), NEW p, NEW q, NEW rate, NEW c,
           OpticalInv(p, b, rate, c), OpticalInv(q, b, rate, c)
    PROVE  OpticalReset(p, registers) = OpticalReset(q, registers)
<1>1. /\ Shape(p, b, Steps) /\ OpticalRated(p, rate) /\ p.rate = rate /\ p.set = c /\ Follows(p, b, c)
      /\ Shape(q, b, Steps) /\ OpticalRated(q, rate) /\ q.rate = rate /\ q.set = c /\ Follows(q, b, c)
  BY DEF OpticalInv
<1>2. ResetRamps(p).ramp = ResetRamps(q).ramp
  BY <1>1, ResetRampsAlike
<1>3. /\ p.ramp.reduction.target = c.reduction /\ q.ramp.reduction.target = c.reduction
      /\ p.ramp.gain.target = c.gain /\ q.ramp.gain.target = c.gain
  BY <1>1 DEF Follows, OpticalLayout
<1>4. p.flag = q.flag
  <2>1. Has(p.flag, {}) /\ Has(q.flag, {})
    BY <1>1 DEF Shape, OpticalLayout
  <2> QED
    BY <2>1, EmptyAlike
<1>5. PICK x, y : x = OpticalReset(p, registers) /\ y = OpticalReset(q, registers)
  OBVIOUS
<1>6. /\ Shape(x, b, Steps) /\ Same(x, p, {"ramp", "now", "mem", "coef", "key"}) /\ x.now = Unset
      /\ x.ramp = ResetRamps(p).ramp /\ x.mem = [n \in registers |-> 0]
      /\ x.key.reduction = c.reduction /\ x.key.gain = c.gain
      /\ OpticalCurrent(x.coef, x, c.reduction, c.gain, rate)
  BY <1>1, <1>3, <1>5, OpticalForgets
<1>7. /\ Shape(y, b, Steps) /\ Same(y, q, {"ramp", "now", "mem", "coef", "key"}) /\ y.now = Unset
      /\ y.ramp = ResetRamps(q).ramp /\ y.mem = [n \in registers |-> 0]
      /\ y.key.reduction = c.reduction /\ y.key.gain = c.gain
      /\ OpticalCurrent(y.coef, y, c.reduction, c.gain, rate)
  BY <1>1, <1>3, <1>5, OpticalForgets
<1>8. x.key = y.key
  <2>1. Has(x.key, {"reduction", "gain"}) /\ Has(y.key, {"reduction", "gain"})
    BY <1>6, <1>7 DEF Shape, OpticalLayout
  <2> QED
    BY <1>6, <1>7, <2>1 DEF Has
<1>9. x.coef = y.coef
  BY <1>6, <1>7, OpticalCurrentAlike DEF Shape, OpticalCurrent
<1>10. Same(x, y, {"kind", "emu"})
  BY <1>1, <1>2, <1>4, <1>6, <1>7, <1>8, <1>9 DEF Same, Fields
<1> QED
  BY <1>5, <1>6, <1>7, <1>10, Alike

\* A sample leaves the key and the coefficients of the inputs it read.
LEMMA OpticalRan ==
    ASSUME NEW b, NEW registers, OpticalLayout(b, registers), NEW p, NEW rate, NEW c,
           OpticalInv(p, b, rate, c), NEW loud, NEW detector
    PROVE  LET q == OpticalProcess(p, loud, detector)
           IN  /\ OpticalInv(q, b, rate, c) /\ Same(q, p, {"ramp", "now", "mem", "coef", "key"})
               /\ q.now.rate = rate
               /\ OpticalCurrent(q.coef, q, q.now.reduction, q.now.gain, rate)
<1>1. /\ Shape(p, b, Steps) /\ OpticalRated(p, rate) /\ p.rate = rate /\ p.set = c
      /\ Follows(p, b, c) /\ OpticalKnows(p) /\ Steps \subseteq Int
  BY StepsAreNumbers DEF OpticalInv
<1>2. /\ DOMAIN b.ramp = {"reduction", "gain"} /\ DOMAIN b.flag = {}
  BY DEF OpticalLayout
<1>3. PICK in : in = Reading(p)
  OBVIOUS
<1>4. in.reduction # NoKey /\ in.gain # NoKey /\ in.rate = rate
  <2>a. in.reduction = p.ramp.reduction.current /\ in.gain = p.ramp.gain.current
    BY <1>1, <1>2, <1>3, RampRead
  <2>b. "rate" \notin DOMAIN b.ramp \cup DOMAIN b.flag
    BY <1>2
  <2>c. in.rate = rate
    BY <1>1, <1>3, <2>b, RateRead
  <2>1. /\ in.reduction = p.ramp.reduction.current /\ in.gain = p.ramp.gain.current
        /\ in.rate = rate
    BY <1>2, <2>a, <2>c
  <2>2. RampIn(p.ramp.reduction, Steps) /\ RampIn(p.ramp.gain, Steps)
    BY <1>1, <1>2 DEF Shape
  <2> QED
    BY <2>1, <2>2, StepsIn DEF NoKey
<1>5. PICK m : m = [p.mem EXCEPT !.reductionDb = 0]
  OBVIOUS
<1>6. Has(m, DOMAIN b.mem)
  BY <1>1, <1>5 DEF Shape, Has
<1>7. PICK x0 : x0 = [p EXCEPT !.mem = m, !.now = in]
  OBVIOUS
<1>8. Hears(x0, p, b, Steps, in)
  BY <1>1, <1>6, <1>7 DEF Shape, Has, Fields, Hears, Same
<1>9. x0 = [p EXCEPT !.mem.reductionDb = 0, !.now = in]
  BY <1>1, <1>5, <1>7 DEF Shape, Has, Fields
<1>10. PICK x1 : x1 = OpticalUpdateReductionCurve(x0, in)
  OBVIOUS
<1>11. /\ Shape(x1, b, Steps) /\ Same(x1, x0, {"coef", "key"})
       /\ OpticalRated(x1, rate) /\ OpticalKnows(x1) /\ x1.key.reduction = in.reduction
  BY <1>1, <1>4, <1>8, <1>10, OpticalCurve DEF Hears, Same, Fields, OpticalRated, OpticalKnows
<1>12. Hears(x1, x1, b, Steps, in)
  BY <1>8, <1>11 DEF Hears, Same, Fields
<1>13. PICK x2 : x2 = [x1 EXCEPT !.mem = Charge(@, detector, loud)]
  OBVIOUS
<1>14. Hears(x2, x1, b, Steps, in)
  BY <1>12, <1>13, Charged
<1>15. PICK target : target = OpticalCalculateTargetReductionDb(x1, in)
  OBVIOUS
<1>16. PICK charged, sum : /\ charged = Charge(x2.mem, {"fastReductionDb", "slowReductionDb"}, target)
                           /\ sum = charged.fastReductionDb + charged.slowReductionDb
  OBVIOUS
<1>17. PICK m3 : m3 = Charge(charged, {"reductionDb"}, sum)
  OBVIOUS
<1>18. Has(charged, DOMAIN b.mem) /\ Has(m3, DOMAIN b.mem)
  BY <1>14, <1>16, <1>17, ChargeIs DEF Hears, Shape
<1>19. PICK x3 : x3 = [x2 EXCEPT !.mem = m3]
  OBVIOUS
<1>20. Hears(x3, x1, b, Steps, in)
  BY <1>14, <1>18, <1>19, Charging
<1>21. PICK x4 : x4 = [x3 EXCEPT !.mem = Charge(@, OpticalColour(p.emu), loud)]
  OBVIOUS
<1>22. Hears(x4, x1, b, Steps, in)
  BY <1>20, <1>21, Charged
<1>23. PICK x5 : x5 = OpticalUpdateOutputGain(x4, in)
  OBVIOUS
<1>24. /\ Shape(x5, b, Steps) /\ Same(x5, x4, {"coef", "key"})
       /\ OpticalRated(x5, rate) /\ OpticalKnows(x5)
       /\ x5.key.gain = in.gain /\ x5.key.reduction = in.reduction
  BY <1>4, <1>11, <1>22, <1>23, OpticalGain DEF Hears, Same, Fields, OpticalRated, OpticalKnows
<1>25. PICK q : q = AdvanceRamps(x5)
  OBVIOUS
<1>26. /\ Shape(q, b, Steps) /\ Same(q, x5, {"ramp"})
       /\ \A n \in DOMAIN b.ramp : q.ramp[n].target = x5.ramp[n].target
  <2>1. Shape(x5, b, Steps) /\ Steps \subseteq Int
    BY <1>24, StepsAreNumbers
  <2>2. PICK L : L = Steps
    OBVIOUS
  <2>3. Shape(x5, b, L) /\ L \subseteq Int
    BY <2>1, <2>2
  <2>4. /\ Shape(q, b, L) /\ Same(q, x5, {"ramp"})
        /\ \A n \in DOMAIN b.ramp : q.ramp[n] = RampAdvance(x5.ramp[n])
        /\ \A n \in DOMAIN b.ramp : q.ramp[n].target = x5.ramp[n].target
    BY <1>25, <2>3, AdvancedShape, ZenonT(60)
  <2> QED
    BY <2>2, <2>4
<1>27. /\ Same(x5, p, {"now", "mem", "coef", "key"}) /\ x5.now = in
  BY <1>8, <1>11, <1>22, <1>24 DEF Hears, Same, Fields
<1>28. /\ Same(q, p, {"ramp", "now", "mem", "coef", "key"}) /\ q.now = in
       /\ q.coef = x5.coef /\ q.key = x5.key
  BY <1>26, <1>27 DEF Same, Fields
<1>29. Follows(q, b, c)
  <2>1. x5.ramp = p.ramp
    BY <1>27 DEF Same, Fields
  <2> QED
    BY <1>1, <1>26, <2>1 DEF Follows
<1>30. OpticalRated(q, rate) /\ OpticalKnows(q)
  BY <1>24, <1>26 DEF OpticalRated, OpticalKnows, Same, Fields
<1>31. OpticalInv(q, b, rate, c)
  BY <1>1, <1>26, <1>28, <1>29, <1>30 DEF OpticalInv, Same, Fields
<1>32. OpticalCurrent(q.coef, q, in.reduction, in.gain, rate)
  BY <1>4, <1>24, <1>28, <1>30 DEF OpticalCurrent, OpticalKnows, OpticalRated
<1>33. q = OpticalProcess(p, loud, detector)
  <2>1. PICK x20 : x20 = OpticalUpdateOpticalGain(x2, target)
    OBVIOUS
  <2>2. x20 = x3
    BY <1>16, <1>17, <1>19, <2>1, Zenon DEF OpticalUpdateOpticalGain
  <2> QED
    BY <1>3, <1>9, <1>10, <1>13, <1>15, <1>21, <1>23, <1>25, <2>1, <2>2, Zenon DEF OpticalProcess
<1> QED
  BY <1>4, <1>28, <1>31, <1>32, <1>33

\* Preparing Cla2a computes the coefficients of the rate.
LEMMA Cla2aPrepared ==
    ASSUME NEW emu \in BOOLEAN, NEW p, OpticalFormed(p, Cla2aNew(emu)), NEW rate
    PROVE  LET q == Cla2aPrepare(p, rate)
           IN  /\ Shape(q, Cla2aNew(emu), Steps) /\ q.rate = rate
               /\ OpticalRated(q, rate) /\ OpticalKnows(q)
<1>1. PICK b, k, registers : b = Cla2aNew(emu) /\ k = "Cla2a" /\ registers = Cla2aMemory(emu)
  OBVIOUS
<1>2. OpticalLayout(b, registers) /\ b.kind = k /\ b.emu = emu
  BY <1>1, Cla2aLayout
<1>a. [rate |-> rate] = One("rate", rate)
  BY DEF One
<1>3. PICK s : s = [rate |-> rate] /\ s = One("rate", rate)
  BY <1>a
<1>4. PICK f : f = [p.coef EXCEPT !.detector = s]
  OBVIOUS
<1>5. PICK x : x = [p EXCEPT !.rate = rate, !.coef = f]
  OBVIOUS
<1>6. /\ DOMAIN b.coef = Cla2aCoefficients /\ DOMAIN b.mem = registers
      /\ Has(p, Fields) /\ Has(p.coef, Cla2aCoefficients) /\ Has(p.mem, registers)
      /\ p.kind = k /\ p.emu = emu
  BY <1>1, <1>2 DEF OpticalLayout, OpticalFormed, Shape
<1>7. /\ Has(x, Fields) /\ x.mem = p.mem /\ x.ramp = p.ramp /\ x.now = p.now /\ x.flag = p.flag
      /\ x.kind = p.kind /\ x.emu = p.emu /\ x.key = p.key
      /\ x.coef = f /\ x.rate = rate /\ x.set = p.set
  BY <1>5, <1>6 DEF Has, Fields
<1>8. x = Cla2aPrepareDetector(p, rate)
  BY <1>3, <1>4, <1>5, <1>6 DEF Cla2aPrepareDetector, Has, Fields
<1>9. PICK g, m : g = [f EXCEPT !.colour = s] /\ m = [x.mem EXCEPT !.highShelf = 0]
  OBVIOUS
<1>10. PICK y0 : y0 = [x EXCEPT !.coef = g, !.mem = m]
  OBVIOUS
<1>11. /\ Has(y0, Fields) /\ y0.mem = m /\ y0.ramp = p.ramp /\ y0.now = p.now /\ y0.flag = p.flag
       /\ y0.kind = p.kind /\ y0.emu = p.emu /\ y0.key = p.key
       /\ y0.coef = g /\ y0.rate = rate /\ y0.set = p.set
  BY <1>7, <1>10 DEF Has, Fields
<1>12. Has(f, Cla2aCoefficients) /\ Has(g, Cla2aCoefficients) /\ Has(m, registers)
  BY <1>4, <1>6, <1>7, <1>9 DEF Has
<1>13. PICK y : y = IF emu THEN y0 ELSE x
  OBVIOUS
<1>14. y = Cla2aPrepareColourFilters(x, rate)
  <2>1. emu => Cla2aPrepareColourFilters(x, rate) = y0
    BY <1>3, <1>6, <1>7, <1>9, <1>10, <1>12 DEF Cla2aPrepareColourFilters, Has, Fields
  <2>2. ~emu => Cla2aPrepareColourFilters(x, rate) = x
    BY <1>6, <1>7 DEF Cla2aPrepareColourFilters
  <2> QED
    BY <1>13, <2>1, <2>2
<1>15. Shape(x, b, Steps) /\ Shape(y0, b, Steps)
  BY <1>1, <1>6, <1>7, <1>11, <1>12 DEF Shape, OpticalFormed
<1>16. Shape(y, b, Steps) /\ y.rate = rate /\ y.emu = emu /\ y.kind = k
  BY <1>6, <1>7, <1>11, <1>13, <1>15
<1>17. OpticalRated(y, rate)
  <2>1. emu => OpticalRated(y0, rate)
    <3> HAVE emu
    <3>1. g.detector = s /\ g.colour = s
      BY <1>4, <1>6, <1>9, <1>12 DEF Has, Cla2aCoefficients
    <3> QED
      BY <1>1, <1>3, <1>6, <1>11, <3>1 DEF OpticalRated, RateOf
  <2>2. ~emu => OpticalRated(x, rate)
    BY <1>1, <1>3, <1>4, <1>6, <1>7, <1>12 DEF Has, Cla2aCoefficients, OpticalFormed,
       OpticalRated, RateOf
  <2> QED
    BY <1>13, <2>1, <2>2
<1>18. PICK q : q = OpticalReset(y, registers)
  OBVIOUS
<1>19. /\ Shape(q, b, Steps) /\ Same(q, y, {"ramp", "now", "mem", "coef", "key"})
       /\ OpticalRated(q, rate) /\ OpticalKnows(q) /\ q.now = Unset
       /\ q.ramp = ResetRamps(y).ramp /\ q.mem = [n \in registers |-> 0]
       /\ \A n \in DOMAIN b.ramp : q.ramp[n].target = y.ramp[n].target
       /\ q.key.reduction = y.ramp.reduction.target /\ q.key.gain = y.ramp.gain.target
       /\ OpticalCurrent(q.coef, q, y.ramp.reduction.target, y.ramp.gain.target, rate)
  BY <1>2, <1>16, <1>17, <1>18, OpticalForgets
<1>20. q = Cla2aPrepare(p, rate)
  BY <1>1, <1>8, <1>14, <1>16, <1>18, Zenon DEF Cla2aPrepare, Cla2aReset, Cla2aMemory
<1>21. q.rate = rate
  BY <1>16, <1>19 DEF Same, Fields
<1> QED
  BY <1>1, <1>19, <1>20, <1>21

Cla2aFormed(p) == p.emu \in BOOLEAN /\ OpticalFormed(p, Cla2aNew(p.emu))

Cla2aInv(p, rate, c) == p.emu \in BOOLEAN /\ OpticalInv(p, Cla2aNew(p.emu), rate, c)

\* A new Cla2a may be prepared.
LEMMA Cla2aBegins ==
    ASSUME NEW emu \in BOOLEAN
    PROVE  Cla2aFormed(Cla2aNew(emu))
BY Cla2aLayout DEF OpticalLayout, Cla2aFormed, OpticalFormed, Cla2aCoefficients

\* Cla2a with its contract may be prepared again.
LEMMA Cla2aStaysFormed ==
    ASSUME NEW p, NEW rate, NEW c, Cla2aInv(p, rate, c)
    PROVE  Cla2aFormed(p)
  BY DEF Cla2aInv, Cla2aFormed, OpticalInv, OpticalFormed, OpticalRated, RateOf

\* Cla2a prepared and given its controls has its contract.
LEMMA Cla2aMade ==
    ASSUME NEW p, Cla2aFormed(p), NEW rate, NEW c \in Settings("Cla2a")
    PROVE  LET q == OpticalSetControls([Cla2aPrepare(p, rate) EXCEPT !.set = c], c)
           IN  Cla2aInv(q, rate, c) /\ q.emu = p.emu
<1>1. PICK emu \in BOOLEAN : emu = p.emu
  BY DEF Cla2aFormed
<1>2. PICK b, k, registers : b = Cla2aNew(emu) /\ k = "Cla2a" /\ registers = Cla2aMemory(emu)
  OBVIOUS
<1>3. OpticalLayout(b, registers) /\ b.kind = k /\ b.emu = emu
  BY <1>2, Cla2aLayout
<1>4. PICK x : x = Cla2aPrepare(p, rate)
  OBVIOUS
<1>5. Shape(x, b, Steps) /\ x.rate = rate /\ OpticalRated(x, rate) /\ OpticalKnows(x)
  <2>1. OpticalFormed(p, Cla2aNew(emu))
    BY <1>1 DEF Cla2aFormed
  <2> QED
    BY <1>2, <1>4, <2>1, Cla2aPrepared
<1>6. OpticalRated(x, x.rate) /\ c \in Settings(b.kind)
  BY <1>2, <1>3, <1>5
<1>7. PICK q : q = OpticalSetControls([x EXCEPT !.set = c], c)
  OBVIOUS
<1>8. OpticalInv(q, b, x.rate, c)
  BY <1>3, <1>5, <1>6, <1>7, OpticalSet
<1>9. q.emu = emu
  BY <1>3, <1>8 DEF OpticalInv, Shape
<1> QED
  BY <1>1, <1>2, <1>4, <1>5, <1>7, <1>8, <1>9 DEF Cla2aInv

\* New controls keep the contract of Cla2a.
LEMMA Cla2aKept ==
    ASSUME NEW p, NEW rate, NEW d, Cla2aInv(p, rate, d), NEW c \in Settings("Cla2a")
    PROVE  LET q == OpticalSetControls([p EXCEPT !.set = c], c)
           IN  Cla2aInv(q, rate, c) /\ Same(q, p, {"ramp", "set"})
BY Cla2aLayout, OpticalKept DEF Cla2aInv, OpticalInv, Shape

\* A reset keeps the contract of Cla2a.
LEMMA Cla2aForgot ==
    ASSUME NEW p, NEW rate, NEW c, Cla2aInv(p, rate, c)
    PROVE  LET q == Cla2aReset(p)
           IN  /\ Cla2aInv(q, rate, c) /\ Same(q, p, {"ramp", "now", "mem", "coef", "key"})
               /\ q.now = Unset
<1>1. PICK emu \in BOOLEAN : emu = p.emu
  BY DEF Cla2aInv
<1>2. PICK b, k, registers : b = Cla2aNew(emu) /\ k = "Cla2a" /\ registers = Cla2aMemory(emu)
  OBVIOUS
<1>3. OpticalLayout(b, registers) /\ b.kind = k /\ b.emu = emu
  BY <1>2, Cla2aLayout
<1>4. OpticalInv(p, b, rate, c)
  BY <1>1, <1>2 DEF Cla2aInv
<1>5. PICK q : q = OpticalReset(p, registers)
  OBVIOUS
<1>6. /\ OpticalInv(q, b, rate, c) /\ Same(q, p, {"ramp", "now", "mem", "coef", "key"})
      /\ q.now = Unset
  BY <1>3, <1>4, <1>5, OpticalForgot
<1>7. q.emu = emu
  BY <1>3, <1>6 DEF OpticalInv, Shape
<1>8. q = Cla2aReset(p)
  BY <1>1, <1>2, <1>5, Zenon DEF Cla2aReset, Cla2aMemory
<1> QED
  BY <1>2, <1>6, <1>7, <1>8 DEF Cla2aInv

\* Two of Cla2a that were given the same controls are one once reset.
LEMMA Cla2aResetsAlike ==
    ASSUME NEW p, NEW q, NEW rate, NEW c, Cla2aInv(p, rate, c), Cla2aInv(q, rate, c), p.emu = q.emu
    PROVE  Cla2aReset(p) = Cla2aReset(q)
BY Cla2aLayout, OpticalResetsAlike DEF Cla2aInv, Cla2aReset, Cla2aMemory

\* The coefficients of Cla2a that are current are those wanted.
LEMMA Cla2aCurrent ==
    ASSUME NEW p, p.kind = "Cla2a", NEW coef, Has(coef, Cla2aCoefficients), NEW in, NEW rate,
           in.rate = rate, OpticalCurrent(coef, p, in.reduction, in.gain, rate)
    PROVE  coef = Cla2aWanted(p, in)
<1>1. PICK r, g, t : r = "reduction" /\ g = "gain" /\ t = "rate"
  OBVIOUS
<1>2. Stamp(in, {r}) = One(r, in[r]) /\ Stamp(in, {g}) = One(g, in[g]) /\ Stamp(in, {t}) = One(t, in[t])
  BY StampOne
<1>3. PICK sr, sg, st : sr = Stamp(in, {r}) /\ sg = Stamp(in, {g}) /\ st = Stamp(in, {t})
  OBVIOUS
<1>5. PICK mk, cl : mk = (IF p.emu THEN Unset ELSE sr) /\ cl = (IF p.emu THEN st ELSE Unset)
  OBVIOUS
<1>6. PICK w : w = [curve |-> sr, makeup |-> mk, output |-> sg, colour |-> cl]
  OBVIOUS
<1>7. PICK d : d = [detector |-> st]
  OBVIOUS
<1>8. w = OpticalWanted(p, in)
  BY <1>1, <1>3, <1>5, <1>6, Zenon DEF OpticalWanted
<1>9. w ++ d = Cla2aWanted(p, in)
  BY <1>1, <1>3, <1>5, <1>7, <1>8, Zenon DEF Cla2aWanted
<1>10. /\ DOMAIN w = {"curve", "makeup", "output", "colour"}
       /\ w.curve = sr /\ w.makeup = mk /\ w.output = sg /\ w.colour = cl
  BY <1>6
<1>11. DOMAIN d = {"detector"} /\ d.detector = st
  BY <1>7
<1>12. PICK v : v = w ++ d
  OBVIOUS
<1>13. /\ Has(v, Cla2aCoefficients)
       /\ \A n \in DOMAIN w : v[n] = w[n]
       /\ \A n \in DOMAIN d : v[n] = d[n]
  BY <1>10, <1>11, <1>12 DEF ++, Has, Cla2aCoefficients
<1>14. \A n \in Cla2aCoefficients : v[n] = coef[n]
  BY <1>1, <1>2, <1>3, <1>5, <1>10, <1>11, <1>13 DEF Cla2aCoefficients, OpticalCurrent, MakeupOf,
     RateOf
<1> QED
  BY <1>9, <1>12, <1>13, <1>14 DEF Has

\* A sample keeps the contract of Cla2a, and its coefficients are those of what it read.
LEMMA Cla2aRan ==
    ASSUME NEW p, NEW rate, NEW c, Cla2aInv(p, rate, c), NEW loud
    PROVE  LET q == Cla2aProcess(p, loud)
           IN  /\ Cla2aInv(q, rate, c) /\ Same(q, p, {"ramp", "now", "mem", "coef", "key"})
               /\ q.coef = Cla2aWanted(q, q.now)
<1>1. PICK emu \in BOOLEAN : emu = p.emu
  BY DEF Cla2aInv
<1>2. PICK b, k, registers, detector : /\ b = Cla2aNew(emu) /\ k = "Cla2a"
                                       /\ registers = Cla2aMemory(emu) /\ detector = {"detectorPower"}
  OBVIOUS
<1>3. OpticalLayout(b, registers) /\ b.kind = k /\ b.emu = emu
  BY <1>2, Cla2aLayout
<1>4. OpticalInv(p, b, rate, c)
  BY <1>1, <1>2 DEF Cla2aInv
<1>5. PICK q : q = OpticalProcess(p, loud, detector)
  OBVIOUS
<1>6. /\ OpticalInv(q, b, rate, c) /\ Same(q, p, {"ramp", "now", "mem", "coef", "key"})
      /\ q.now.rate = rate
      /\ OpticalCurrent(q.coef, q, q.now.reduction, q.now.gain, rate)
  BY <1>3, <1>4, <1>5, OpticalRan
<1>7. q = Cla2aProcess(p, loud)
  BY <1>2, <1>5, Zenon DEF Cla2aProcess
<1>8. q.emu = emu /\ q.kind = "Cla2a" /\ Has(q.coef, Cla2aCoefficients)
  BY <1>2, <1>3, <1>6 DEF OpticalInv, Shape, OpticalLayout
<1>9. q.coef = Cla2aWanted(q, q.now)
  BY <1>6, <1>8, Cla2aCurrent
<1> QED
  BY <1>2, <1>6, <1>7, <1>8, <1>9 DEF Cla2aInv

\* Preparing Cla3a computes the coefficients of the rate.
LEMMA Cla3aPrepared ==
    ASSUME NEW emu \in BOOLEAN, NEW p, OpticalFormed(p, Cla3aNew(emu)), NEW rate
    PROVE  LET q == Cla3aPrepare(p, rate)
           IN  /\ Shape(q, Cla3aNew(emu), Steps) /\ q.rate = rate
               /\ OpticalRated(q, rate) /\ OpticalKnows(q)
<1>1. PICK b, k, registers : b = Cla3aNew(emu) /\ k = "Cla3a" /\ registers = Cla3aMemory(emu)
  OBVIOUS
<1>2. OpticalLayout(b, registers) /\ b.kind = k /\ b.emu = emu
  BY <1>1, Cla3aLayout
<1>a. [rate |-> rate] = One("rate", rate)
  BY DEF One
<1>3. PICK s : s = [rate |-> rate] /\ s = One("rate", rate)
  BY <1>a
<1>4. PICK f : f = [p.coef EXCEPT !.detector = s, !.memory = s, !.shelf = s]
  OBVIOUS
<1>5. PICK x : x = [p EXCEPT !.rate = rate, !.coef = f]
  OBVIOUS
<1>6. /\ DOMAIN b.coef = Cla3aCoefficients /\ DOMAIN b.mem = registers
      /\ Has(p, Fields) /\ Has(p.coef, Cla3aCoefficients) /\ Has(p.mem, registers)
      /\ p.kind = k /\ p.emu = emu
  BY <1>1, <1>2 DEF OpticalLayout, OpticalFormed, Shape
<1>7. /\ Has(x, Fields) /\ x.mem = p.mem /\ x.ramp = p.ramp /\ x.now = p.now /\ x.flag = p.flag
      /\ x.kind = p.kind /\ x.emu = p.emu /\ x.key = p.key
      /\ x.coef = f /\ x.rate = rate /\ x.set = p.set
  BY <1>5, <1>6 DEF Has, Fields
<1>8. x = Cla3aPrepareDetector(p, rate)
  BY <1>3, <1>4, <1>5, <1>6 DEF Cla3aPrepareDetector, Has, Fields
<1>9. PICK g, m : g = [f EXCEPT !.highPass = s, !.colour = s] /\ m = [x.mem EXCEPT !.highShelf = 0]
  OBVIOUS
<1>10. PICK y0 : y0 = [x EXCEPT !.coef = g, !.mem = m]
  OBVIOUS
<1>11. /\ Has(y0, Fields) /\ y0.mem = m /\ y0.ramp = p.ramp /\ y0.now = p.now /\ y0.flag = p.flag
       /\ y0.kind = p.kind /\ y0.emu = p.emu /\ y0.key = p.key
       /\ y0.coef = g /\ y0.rate = rate /\ y0.set = p.set
  BY <1>7, <1>10 DEF Has, Fields
<1>12. Has(f, Cla3aCoefficients) /\ Has(g, Cla3aCoefficients) /\ Has(m, registers)
  BY <1>4, <1>6, <1>7, <1>9 DEF Has
<1>13. PICK y : y = IF emu THEN y0 ELSE x
  OBVIOUS
<1>14. y = Cla3aPrepareColourFilters(x, rate)
  <2>1. emu => Cla3aPrepareColourFilters(x, rate) = y0
    BY <1>3, <1>6, <1>7, <1>9, <1>10, <1>12 DEF Cla3aPrepareColourFilters, Has, Fields
  <2>2. ~emu => Cla3aPrepareColourFilters(x, rate) = x
    BY <1>6, <1>7 DEF Cla3aPrepareColourFilters
  <2> QED
    BY <1>13, <2>1, <2>2
<1>15. Shape(x, b, Steps) /\ Shape(y0, b, Steps)
  BY <1>1, <1>6, <1>7, <1>11, <1>12 DEF Shape, OpticalFormed
<1>16. Shape(y, b, Steps) /\ y.rate = rate /\ y.emu = emu /\ y.kind = k
  BY <1>6, <1>7, <1>11, <1>13, <1>15
<1>17. OpticalRated(y, rate)
  <2>1. emu => OpticalRated(y0, rate)
    <3> HAVE emu
    <3>1. g.detector = s /\ g.colour = s /\ g.memory = s /\ g.shelf = s /\ g.highPass = s
      BY <1>4, <1>6, <1>9, <1>12 DEF Has, Cla3aCoefficients
    <3> QED
      BY <1>1, <1>3, <1>6, <1>11, <3>1 DEF OpticalRated, RateOf
  <2>2. ~emu => OpticalRated(x, rate)
    <3> HAVE ~emu
    <3>1. f.detector = s /\ f.colour = Unset /\ f.memory = s /\ f.shelf = s /\ f.highPass = Unset
      BY <1>1, <1>4, <1>6, <1>12 DEF Has, Cla3aCoefficients, OpticalFormed
    <3> QED
      BY <1>1, <1>3, <1>6, <1>7, <3>1 DEF OpticalRated, RateOf
  <2> QED
    BY <1>13, <2>1, <2>2
<1>18. PICK q : q = OpticalReset(y, registers)
  OBVIOUS
<1>19. /\ Shape(q, b, Steps) /\ Same(q, y, {"ramp", "now", "mem", "coef", "key"})
       /\ OpticalRated(q, rate) /\ OpticalKnows(q) /\ q.now = Unset
       /\ q.ramp = ResetRamps(y).ramp /\ q.mem = [n \in registers |-> 0]
       /\ \A n \in DOMAIN b.ramp : q.ramp[n].target = y.ramp[n].target
       /\ q.key.reduction = y.ramp.reduction.target /\ q.key.gain = y.ramp.gain.target
       /\ OpticalCurrent(q.coef, q, y.ramp.reduction.target, y.ramp.gain.target, rate)
  BY <1>2, <1>16, <1>17, <1>18, OpticalForgets
<1>20. q = Cla3aPrepare(p, rate)
  BY <1>1, <1>8, <1>14, <1>16, <1>18, Zenon DEF Cla3aPrepare, Cla3aReset, Cla3aMemory
<1>21. q.rate = rate
  BY <1>16, <1>19 DEF Same, Fields
<1> QED
  BY <1>1, <1>19, <1>20, <1>21

Cla3aFormed(p) == p.emu \in BOOLEAN /\ OpticalFormed(p, Cla3aNew(p.emu))

Cla3aInv(p, rate, c) == p.emu \in BOOLEAN /\ OpticalInv(p, Cla3aNew(p.emu), rate, c)

\* A new Cla3a may be prepared.
LEMMA Cla3aBegins ==
    ASSUME NEW emu \in BOOLEAN
    PROVE  Cla3aFormed(Cla3aNew(emu))
BY Cla3aLayout DEF OpticalLayout, Cla3aFormed, OpticalFormed, Cla3aCoefficients

\* Cla3a with its contract may be prepared again.
LEMMA Cla3aStaysFormed ==
    ASSUME NEW p, NEW rate, NEW c, Cla3aInv(p, rate, c)
    PROVE  Cla3aFormed(p)
  BY DEF Cla3aInv, Cla3aFormed, OpticalInv, OpticalFormed, OpticalRated, RateOf

\* Cla3a prepared and given its controls has its contract.
LEMMA Cla3aMade ==
    ASSUME NEW p, Cla3aFormed(p), NEW rate, NEW c \in Settings("Cla3a")
    PROVE  LET q == OpticalSetControls([Cla3aPrepare(p, rate) EXCEPT !.set = c], c)
           IN  Cla3aInv(q, rate, c) /\ q.emu = p.emu
<1>1. PICK emu \in BOOLEAN : emu = p.emu
  BY DEF Cla3aFormed
<1>2. PICK b, k, registers : b = Cla3aNew(emu) /\ k = "Cla3a" /\ registers = Cla3aMemory(emu)
  OBVIOUS
<1>3. OpticalLayout(b, registers) /\ b.kind = k /\ b.emu = emu
  BY <1>2, Cla3aLayout
<1>4. PICK x : x = Cla3aPrepare(p, rate)
  OBVIOUS
<1>5. Shape(x, b, Steps) /\ x.rate = rate /\ OpticalRated(x, rate) /\ OpticalKnows(x)
  <2>1. OpticalFormed(p, Cla3aNew(emu))
    BY <1>1 DEF Cla3aFormed
  <2> QED
    BY <1>2, <1>4, <2>1, Cla3aPrepared
<1>6. OpticalRated(x, x.rate) /\ c \in Settings(b.kind)
  BY <1>2, <1>3, <1>5
<1>7. PICK q : q = OpticalSetControls([x EXCEPT !.set = c], c)
  OBVIOUS
<1>8. OpticalInv(q, b, x.rate, c)
  BY <1>3, <1>5, <1>6, <1>7, OpticalSet
<1>9. q.emu = emu
  BY <1>3, <1>8 DEF OpticalInv, Shape
<1> QED
  BY <1>1, <1>2, <1>4, <1>5, <1>7, <1>8, <1>9 DEF Cla3aInv

\* New controls keep the contract of Cla3a.
LEMMA Cla3aKept ==
    ASSUME NEW p, NEW rate, NEW d, Cla3aInv(p, rate, d), NEW c \in Settings("Cla3a")
    PROVE  LET q == OpticalSetControls([p EXCEPT !.set = c], c)
           IN  Cla3aInv(q, rate, c) /\ Same(q, p, {"ramp", "set"})
BY Cla3aLayout, OpticalKept DEF Cla3aInv, OpticalInv, Shape

\* A reset keeps the contract of Cla3a.
LEMMA Cla3aForgot ==
    ASSUME NEW p, NEW rate, NEW c, Cla3aInv(p, rate, c)
    PROVE  LET q == Cla3aReset(p)
           IN  /\ Cla3aInv(q, rate, c) /\ Same(q, p, {"ramp", "now", "mem", "coef", "key"})
               /\ q.now = Unset
<1>1. PICK emu \in BOOLEAN : emu = p.emu
  BY DEF Cla3aInv
<1>2. PICK b, k, registers : b = Cla3aNew(emu) /\ k = "Cla3a" /\ registers = Cla3aMemory(emu)
  OBVIOUS
<1>3. OpticalLayout(b, registers) /\ b.kind = k /\ b.emu = emu
  BY <1>2, Cla3aLayout
<1>4. OpticalInv(p, b, rate, c)
  BY <1>1, <1>2 DEF Cla3aInv
<1>5. PICK q : q = OpticalReset(p, registers)
  OBVIOUS
<1>6. /\ OpticalInv(q, b, rate, c) /\ Same(q, p, {"ramp", "now", "mem", "coef", "key"})
      /\ q.now = Unset
  BY <1>3, <1>4, <1>5, OpticalForgot
<1>7. q.emu = emu
  BY <1>3, <1>6 DEF OpticalInv, Shape
<1>8. q = Cla3aReset(p)
  BY <1>1, <1>2, <1>5, Zenon DEF Cla3aReset, Cla3aMemory
<1> QED
  BY <1>2, <1>6, <1>7, <1>8 DEF Cla3aInv

\* Two of Cla3a that were given the same controls are one once reset.
LEMMA Cla3aResetsAlike ==
    ASSUME NEW p, NEW q, NEW rate, NEW c, Cla3aInv(p, rate, c), Cla3aInv(q, rate, c), p.emu = q.emu
    PROVE  Cla3aReset(p) = Cla3aReset(q)
BY Cla3aLayout, OpticalResetsAlike DEF Cla3aInv, Cla3aReset, Cla3aMemory

\* The coefficients of Cla3a that are current are those wanted.
LEMMA Cla3aCurrent ==
    ASSUME NEW p, p.kind = "Cla3a", NEW coef, Has(coef, Cla3aCoefficients), NEW in, NEW rate,
           in.rate = rate, OpticalCurrent(coef, p, in.reduction, in.gain, rate)
    PROVE  coef = Cla3aWanted(p, in)
<1>1. PICK r, g, t : r = "reduction" /\ g = "gain" /\ t = "rate"
  OBVIOUS
<1>2. Stamp(in, {r}) = One(r, in[r]) /\ Stamp(in, {g}) = One(g, in[g]) /\ Stamp(in, {t}) = One(t, in[t])
  BY StampOne
<1>3. PICK sr, sg, st : sr = Stamp(in, {r}) /\ sg = Stamp(in, {g}) /\ st = Stamp(in, {t})
  OBVIOUS
<1>5. PICK mk, cl : mk = (IF p.emu THEN Unset ELSE sr) /\ cl = (IF p.emu THEN st ELSE Unset)
  OBVIOUS
<1>6. PICK w : w = [curve |-> sr, makeup |-> mk, output |-> sg, colour |-> cl]
  OBVIOUS
<1>7. PICK d : d = [detector |-> st, memory |-> st, shelf |-> st, highPass |-> cl]
  OBVIOUS
<1>8. w = OpticalWanted(p, in)
  BY <1>1, <1>3, <1>5, <1>6, Zenon DEF OpticalWanted
<1>9. w ++ d = Cla3aWanted(p, in)
  BY <1>1, <1>3, <1>5, <1>7, <1>8, Zenon DEF Cla3aWanted
<1>10. /\ DOMAIN w = {"curve", "makeup", "output", "colour"}
       /\ w.curve = sr /\ w.makeup = mk /\ w.output = sg /\ w.colour = cl
  BY <1>6
<1>11. /\ DOMAIN d = {"detector", "memory", "shelf", "highPass"}
       /\ d.detector = st /\ d.memory = st /\ d.shelf = st /\ d.highPass = cl
  BY <1>7
<1>12. PICK v : v = w ++ d
  OBVIOUS
<1>13. /\ Has(v, Cla3aCoefficients)
       /\ \A n \in DOMAIN w : v[n] = w[n]
       /\ \A n \in DOMAIN d : v[n] = d[n]
  BY <1>10, <1>11, <1>12 DEF ++, Has, Cla3aCoefficients
<1>14. \A n \in Cla3aCoefficients : v[n] = coef[n]
  BY <1>1, <1>2, <1>3, <1>5, <1>10, <1>11, <1>13 DEF Cla3aCoefficients, OpticalCurrent, MakeupOf,
     RateOf
<1> QED
  BY <1>9, <1>12, <1>13, <1>14 DEF Has

\* A sample keeps the contract of Cla3a, and its coefficients are those of what it read.
LEMMA Cla3aRan ==
    ASSUME NEW p, NEW rate, NEW c, Cla3aInv(p, rate, c), NEW loud
    PROVE  LET q == Cla3aProcess(p, loud)
           IN  /\ Cla3aInv(q, rate, c) /\ Same(q, p, {"ramp", "now", "mem", "coef", "key"})
               /\ q.coef = Cla3aWanted(q, q.now)
<1>1. PICK emu \in BOOLEAN : emu = p.emu
  BY DEF Cla3aInv
<1>2. PICK b, k, registers, detector : /\ b = Cla3aNew(emu) /\ k = "Cla3a"
                                       /\ registers = Cla3aMemory(emu) /\ detector = {"detectorPower", "detectorShelf"}
  OBVIOUS
<1>3. OpticalLayout(b, registers) /\ b.kind = k /\ b.emu = emu
  BY <1>2, Cla3aLayout
<1>4. OpticalInv(p, b, rate, c)
  BY <1>1, <1>2 DEF Cla3aInv
<1>5. PICK q : q = OpticalProcess(p, loud, detector)
  OBVIOUS
<1>6. /\ OpticalInv(q, b, rate, c) /\ Same(q, p, {"ramp", "now", "mem", "coef", "key"})
      /\ q.now.rate = rate
      /\ OpticalCurrent(q.coef, q, q.now.reduction, q.now.gain, rate)
  BY <1>3, <1>4, <1>5, OpticalRan
<1>7. q = Cla3aProcess(p, loud)
  BY <1>2, <1>5, Zenon DEF Cla3aProcess
<1>8. q.emu = emu /\ q.kind = "Cla3a" /\ Has(q.coef, Cla3aCoefficients)
  BY <1>2, <1>3, <1>6 DEF OpticalInv, Shape, OpticalLayout
<1>9. q.coef = Cla3aWanted(q, q.now)
  BY <1>6, <1>8, Cla3aCurrent
<1> QED
  BY <1>2, <1>6, <1>7, <1>8, <1>9 DEF Cla3aInv

-----------------------------------------------------------------------------
(* Ssl.                                                                      *)

\* Stamps of inputs that agree are equal.
LEMMA StampAlike ==
    ASSUME NEW f, NEW g, NEW S, \A n \in S : f[n] = g[n]
    PROVE  Stamp(f, S) = Stamp(g, S)
  BY DEF Stamp

SslRamps == {"output", "ratio", "release", "threshold"}
SslKeys == {"ratio", "threshold", "release", "fastAttack"}
SslCoefficients == {"times", "slope", "bend", "onset", "makeup", "start", "timing"}
SslMemory == {"detectorPower", "fastReductionDb", "slowReductionDb", "reductionDb"}

SslLayout(b) ==
    /\ Shape(b, b, Steps) /\ b.kind = "Ssl" /\ b.emu \in BOOLEAN
    /\ DOMAIN b.ramp = SslRamps /\ DOMAIN b.flag = {"fastAttack"} /\ DOMAIN b.key = SslKeys
    /\ DOMAIN b.coef = SslCoefficients /\ DOMAIN b.mem = SslMemory

\* A new SslChannel has its registers, keys and coefficients.
LEMMA SslBlank ==
    ASSUME NEW emu \in BOOLEAN
    PROVE  LET b == SslNew(emu)
           IN  SslLayout(b) /\ b.emu = emu /\ b.ramp.output.target = 0
<1>1. 0 \in Steps
  BY DEF Steps, Gains
<1>2. PICK k, flags : k = "Ssl" /\ flags = {"fastAttack"}
  OBVIOUS
<1>3. PICK b : b = Blank(k, emu, SslRamps, flags, SslKeys, SslCoefficients, SslMemory)
  OBVIOUS
<1>4. /\ Shape(b, b, Steps) /\ b.kind = k /\ b.emu = emu
      /\ DOMAIN b.ramp = SslRamps /\ DOMAIN b.flag = flags /\ DOMAIN b.key = SslKeys
      /\ DOMAIN b.coef = SslCoefficients /\ DOMAIN b.mem = SslMemory
      /\ \A n \in SslRamps : b.ramp[n] = Ramp(0)
  BY <1>1, <1>3, BlankShape
<1>5. PICK key : key = [b.key EXCEPT !.threshold = SslInvalidThreshold, !.fastAttack = 0]
  OBVIOUS
<1>6. PICK t : t = [b EXCEPT !.key = key]
  OBVIOUS
<1>7. Has(key, SslKeys)
  BY <1>4, <1>5 DEF Has
<1>8. /\ Has(t, Fields) /\ t.kind = k /\ t.emu = emu /\ t.ramp = b.ramp /\ t.flag = b.flag
      /\ t.key = key /\ t.coef = b.coef /\ t.mem = b.mem
  BY <1>4, <1>6 DEF Shape, Has, Fields
<1>9. SslNew(emu) = t
  <2>1. SslNew(emu) = [b EXCEPT !.key.threshold = SslInvalidThreshold, !.key.fastAttack = 0]
    BY <1>2, <1>3, Zenon DEF SslNew, SslRamps, SslKeys, SslCoefficients, SslMemory
  <2> QED
    BY <1>4, <1>5, <1>6, <2>1 DEF Shape, Has, Fields
<1>10. Shape(t, t, Steps)
  BY <1>4, <1>7, <1>8 DEF Shape, Has
<1>11. t.ramp.output.target = 0
  BY <1>4, <1>8 DEF Ramp, SslRamps
<1> QED
  BY <1>2, <1>4, <1>7, <1>8, <1>9, <1>10, <1>11 DEF SslLayout, Has

\* Emulation's laws also read the threshold.
SslLawOf(emu, in, reads) == Stamp(in, reads \cup IF emu THEN {"threshold"} ELSE {})

SslOnsetOf(emu, in) == IF emu THEN SslLawOf(emu, in, {"ratio", "release", "fastAttack"})
                       ELSE Stamp(in, {"threshold"})

SslMakeupOf(emu, in) == IF emu THEN Stamp(in, {"ratio", "threshold"})
                        ELSE Stamp(in, {"threshold", "fastAttack", "release", "ratio"})

SslTimingOf(in, rate) == Stamp(in, {"release", "fastAttack"}) ++ [times |-> One("rate", rate)]

\* The coefficients are those of the controls in and the sample rate.
SslKnows(coef, emu, in, rate) ==
    /\ coef.times = One("rate", rate)
    /\ coef.slope = SslLawOf(emu, in, {"ratio", "release"})
    /\ coef.bend = SslLawOf(emu, in, {"ratio", "release", "fastAttack"})
    /\ coef.onset = SslOnsetOf(emu, in)
    /\ coef.makeup = SslMakeupOf(emu, in)
    /\ coef.start = SslOnsetOf(emu, in)
    /\ coef.timing = SslTimingOf(in, rate)

SslAgree(f, g) == \A n \in SslKeys : f[n] = g[n]

\* The gain law of inputs that agree on the keys is one.
LEMMA SslLawAlike ==
    ASSUME NEW emu \in BOOLEAN, NEW f, NEW g, NEW reads, \A n \in reads : f[n] = g[n],
           emu => f.threshold = g.threshold
    PROVE  SslLawOf(emu, f, reads) = SslLawOf(emu, g, reads)
<1>1. CASE emu
  BY <1>1, StampAlike DEF SslLawOf
<1>2. CASE ~emu
  BY <1>2, StampAlike DEF SslLawOf
<1> QED
  BY <1>1, <1>2

\* Keys that agree with the inputs stand for the same coefficients.
LEMMA SslKnowsAlike ==
    ASSUME NEW emu \in BOOLEAN, NEW f, NEW g, NEW coef, NEW rate, SslKnows(coef, emu, f, rate),
           SslAgree(f, g)
    PROVE  SslKnows(coef, emu, g, rate)
BY SslLawAlike, StampAlike DEF SslAgree, SslKeys, SslKnows, SslOnsetOf, SslMakeupOf, SslTimingOf

\* The keys determine every coefficient.
LEMMA SslCoefficientsAlike ==
    ASSUME NEW emu, NEW in, NEW f, NEW g, NEW rate, Has(f, SslCoefficients),
           Has(g, SslCoefficients), SslKnows(f, emu, in, rate), SslKnows(g, emu, in, rate)
    PROVE  f = g
  BY DEF SslKnows, Has, SslCoefficients

\* The coefficients the keys stand for are those wanted when the keys are the inputs.
LEMMA SslIsWanted ==
    ASSUME NEW p, NEW coef, NEW in, NEW rate, Has(coef, SslCoefficients), in.rate = rate,
           SslKnows(coef, p.emu, in, rate)
    PROVE  coef = SslWanted(p, in)
<1>1. PICK t, v, s, bd, o, m, st, tm :
        /\ t = "rate" /\ v = One("rate", rate) /\ s = SslLawOf(p.emu, in, {"ratio", "release"})
        /\ bd = SslLawOf(p.emu, in, {"ratio", "release", "fastAttack"})
        /\ o = SslOnsetOf(p.emu, in) /\ m = SslMakeupOf(p.emu, in)
        /\ tm = SslTimingOf(in, rate)
  OBVIOUS
<1>2. Stamp(in, {t}) = v
  BY <1>1, StampOne
<1>3. PICK w : w = [times |-> v, slope |-> s, bend |-> bd, onset |-> o, makeup |-> m, start |-> o,
                    timing |-> tm]
  OBVIOUS
<1>4. w = SslWanted(p, in)
  BY <1>1, <1>2, <1>3, Zenon DEF SslWanted, SslLaw, SslLawOf, SslOnsetOf, SslMakeupOf, SslTimingOf
<1>6. \A n \in SslCoefficients : w[n] = coef[n]
  BY <1>1, <1>3 DEF SslCoefficients, SslKnows
<1>7. Has(w, SslCoefficients)
  BY <1>3 DEF Has, SslCoefficients
<1> QED
  BY <1>4, <1>6, <1>7 DEF Has

\* What has to hold before a step that computes only what its keys call for.
SslAble(p, in, rate) ==
    /\ p.coef.times = One("rate", rate)
    /\ \/ SslKnows(p.coef, p.emu, p.key, rate)
       \/ in.ratio # p.key.ratio /\ in.threshold # p.key.threshold /\ in.release # p.key.release

\* After the coefficients are brought up to date the keys are the inputs.
LEMMA SslUpdate ==
    ASSUME NEW b, SslLayout(b), NEW p, Shape(p, b, Steps), NEW rate, NEW in, SslAble(p, in, rate)
    PROVE  LET q == SslUpdateControlCoefficients(p, in)
           IN  /\ Shape(q, b, Steps) /\ Same(q, p, {"coef", "key"})
               /\ SslAgree(q.key, in) /\ SslKnows(q.coef, p.emu, in, rate)
<1>1. PICK emu \in BOOLEAN : emu = p.emu
  BY DEF Shape, SslLayout
<1>2. /\ DOMAIN b.key = SslKeys /\ DOMAIN b.coef = SslCoefficients
      /\ Has(p, Fields) /\ Has(p.key, SslKeys) /\ Has(p.coef, SslCoefficients)
  BY DEF Shape, SslLayout
<1>3. PICK rr, rf, th, rt, all, rl :
        /\ rr = {"ratio", "release"} /\ rf = {"ratio", "release", "fastAttack"}
        /\ th = {"threshold"} /\ rt = {"ratio", "threshold"}
        /\ all = {"threshold", "fastAttack", "release", "ratio"} /\ rl = {"release", "fastAttack"}
  OBVIOUS
<1>4. PICK ratio, threshold, timing, law :
        /\ ratio <=> in.ratio # p.key.ratio
        /\ threshold <=> in.threshold # p.key.threshold
        /\ timing <=> (in.release # p.key.release \/ in.fastAttack # p.key.fastAttack)
        /\ law <=> (ratio \/ timing \/ (emu /\ threshold))
  OBVIOUS
<1>5. PICK slope, bend, onset, makeup, times, key :
        /\ slope = (IF law THEN SslLaw(p, in, rr) ELSE p.coef.slope)
        /\ bend = (IF law THEN SslLaw(p, in, rf) ELSE p.coef.bend)
        /\ onset = (IF ~emu THEN Stamp(in, th) ELSE IF law THEN SslLaw(p, in, rf) ELSE p.coef.onset)
        /\ makeup = (IF ~emu THEN Stamp(in, all)
                     ELSE IF ratio \/ threshold THEN SslUpdateMakeup(in) ELSE p.coef.makeup)
        /\ times = (IF timing THEN SslUpdateTiming(p, in) ELSE p.coef.timing)
        /\ key = Stamp(in, SslKeys)
  OBVIOUS
<1>6. PICK coef : coef = [p.coef EXCEPT !.slope = slope, !.bend = bend, !.onset = onset,
                                        !.makeup = makeup, !.start = onset, !.timing = times]
  OBVIOUS
<1>7. PICK q : q = [p EXCEPT !.coef = coef, !.key = key]
  OBVIOUS
<1>8. /\ Has(q, Fields) /\ q.mem = p.mem /\ q.ramp = p.ramp /\ q.now = p.now /\ q.flag = p.flag
      /\ q.kind = p.kind /\ q.emu = p.emu /\ q.key = key
      /\ q.coef = coef /\ q.rate = p.rate /\ q.set = p.set
  BY <1>2, <1>7 DEF Has, Fields
<1>9. /\ Has(coef, SslCoefficients) /\ coef.times = p.coef.times
      /\ coef.slope = slope /\ coef.bend = bend /\ coef.onset = onset
      /\ coef.makeup = makeup /\ coef.start = onset /\ coef.timing = times
  BY <1>2, <1>6 DEF Has, SslCoefficients
<1>10. Has(key, SslKeys) /\ SslAgree(key, in)
  BY <1>5 DEF Has, Stamp, SslAgree
<1>11. Shape(q, b, Steps) /\ Same(q, p, {"coef", "key"})
  BY <1>2, <1>8, <1>9, <1>10 DEF Shape, Same, Fields
<1>12. PICK lr, lf, sth, srt, sall, st :
        /\ lr = SslLawOf(emu, in, rr) /\ lf = SslLawOf(emu, in, rf)
        /\ sth = Stamp(in, th) /\ srt = Stamp(in, rt) /\ sall = Stamp(in, all)
        /\ st = SslTimingOf(in, rate)
  OBVIOUS
<1>13. /\ SslLaw(p, in, rr) = lr /\ SslLaw(p, in, rf) = lf /\ SslUpdateMakeup(in) = srt
       /\ SslUpdateTiming(p, in) = st
  <2>1. p.coef.times = One("rate", rate)
    BY DEF SslAble
  <2> QED
    BY <1>1, <1>3, <1>12, <2>1, Zenon
       DEF SslLaw, SslLawOf, SslUpdateMakeup, SslUpdateTiming, SslTimingOf
<1>14. PICK k : k = p.key
  OBVIOUS
<1>15. (~law) => p.coef.slope = lr /\ p.coef.bend = lf /\ (emu => p.coef.onset = lf)
  BY <1>1, <1>3, <1>4, <1>12, <1>14, SslLawAlike DEF SslAble, SslKnows, SslOnsetOf
<1>17. (emu /\ ~ratio /\ ~threshold) => p.coef.makeup = srt
  <2> HAVE emu /\ ~ratio /\ ~threshold
  <2>1. k.ratio = in.ratio /\ k.threshold = in.threshold
    BY <1>4, <1>14
  <2>2. SslKnows(p.coef, emu, k, rate)
    BY <1>1, <1>14, <2>1 DEF SslAble
  <2>3. \A n \in rt : k[n] = in[n]
    BY <1>3, <2>1
  <2>4. Stamp(k, rt) = Stamp(in, rt)
    BY <2>3, StampAlike
  <2> QED
    BY <1>3, <1>12, <2>2, <2>4 DEF SslKnows, SslMakeupOf
<1>18. (~timing) => p.coef.timing = st
  BY <1>1, <1>3, <1>4, <1>12, <1>14, StampAlike DEF SslAble, SslKnows, SslTimingOf
<1>19. SslKnows(coef, emu, in, rate)
  <2>1. slope = lr /\ bend = lf
    BY <1>5, <1>13, <1>15
  <2>2. onset = IF emu THEN lf ELSE sth
    BY <1>5, <1>12, <1>13, <1>15
  <2>3. makeup = IF emu THEN srt ELSE sall
    BY <1>5, <1>12, <1>13, <1>17
  <2>4. times = st
    BY <1>5, <1>13, <1>18
  <2>5. SslOnsetOf(emu, in) = (IF emu THEN lf ELSE sth) /\ SslMakeupOf(emu, in) = IF emu THEN srt ELSE sall
    BY <1>3, <1>12, Zenon DEF SslOnsetOf, SslMakeupOf
  <2>6. coef.times = One("rate", rate)
    BY <1>9 DEF SslAble
  <2> QED
    BY <1>3, <1>9, <1>12, <2>1, <2>2, <2>3, <2>4, <2>5, <2>6 DEF SslKnows
<1>20. (ratio \/ threshold \/ timing) => SslUpdateControlCoefficients(p, in) = q
  <2> HAVE ratio \/ threshold \/ timing
  <2>1. SslUpdateControlCoefficients(p, in) =
          [p EXCEPT !.coef.slope = slope, !.coef.bend = bend, !.coef.onset = onset,
                    !.coef.makeup = makeup, !.coef.start = onset, !.coef.timing = times,
                    !.key = key]
    BY <1>1, <1>3, <1>4, <1>5 DEF SslUpdateControlCoefficients, SslKeys
  <2> QED
    BY <1>2, <1>6, <1>7, <2>1 DEF Has, Fields
<1>21. (~ratio /\ ~threshold /\ ~timing) =>
         /\ SslUpdateControlCoefficients(p, in) = p
         /\ SslAgree(p.key, in) /\ SslKnows(p.coef, p.emu, in, rate)
  BY <1>1, <1>4, <1>14, SslKnowsAlike DEF SslUpdateControlCoefficients, SslAgree, SslKeys, SslAble
<1>22. Same(p, p, {"coef", "key"})
  BY SMTT(30) DEF Same
<1> QED
  BY <1>1, <1>8, <1>10, <1>11, <1>19, <1>20, <1>21, <1>22

\* What a sample reads of a switch.
LEMMA FlagRead ==
    ASSUME NEW b, NEW L, NEW p, Shape(p, b, L), NEW in, in = Reading(p), NEW n \in DOMAIN b.flag,
           n \notin DOMAIN b.ramp
    PROVE  in[n] = p.flag[n]
  BY DEF Reading, ++, Shape, Has

\* Emulation never moves the ramp of the output gain.
SslAims(emu, c) == [n \in SslRamps |-> IF emu /\ n = "output" THEN 0 ELSE c[n]]

\* A sample reads the ramps, the switch and the rate.
LEMMA SslReads ==
    ASSUME NEW b, SslLayout(b), NEW p, Shape(p, b, Steps), NEW in, in = Reading(p)
    PROVE  /\ in.ratio = p.ramp.ratio.current /\ in.threshold = p.ramp.threshold.current
           /\ in.release = p.ramp.release.current
           /\ in.fastAttack = p.flag.fastAttack /\ in.rate = p.rate
BY RampRead, FlagRead, RateRead DEF SslLayout, SslRamps

\* Reset computes every coefficient anew.
LEMMA SslForgets ==
    ASSUME NEW b, SslLayout(b), NEW p, Shape(p, b, Steps), NEW rate, p.rate = rate,
           p.coef.times = One("rate", rate)
    PROVE  LET q == SslReset(p)
           IN  /\ Shape(q, b, Steps) /\ Same(q, p, {"ramp", "now", "mem", "coef", "key"})
               /\ q.now = Unset /\ q.ramp = ResetRamps(p).ramp
               /\ q.mem = [n \in SslMemory |-> 0]
               /\ \A n \in DOMAIN b.ramp : q.ramp[n].target = p.ramp[n].target
               /\ q.key.ratio = p.ramp.ratio.target /\ q.key.threshold = p.ramp.threshold.target
               /\ q.key.release = p.ramp.release.target /\ q.key.fastAttack = p.flag.fastAttack
               /\ SslKnows(q.coef, q.emu, q.key, rate)
<1>1. PICK x : x = ResetRamps(p)
  OBVIOUS
<1>2. /\ Shape(x, b, Steps) /\ Same(x, p, {"ramp", "now"}) /\ x.now = Unset
      /\ \A n \in DOMAIN b.ramp : x.ramp[n].target = p.ramp[n].target
      /\ \A n \in DOMAIN b.ramp : x.ramp[n] = RampReset(p.ramp[n])
  BY <1>1, ResetShape
<1>3. PICK key, m : /\ key = [x.key EXCEPT !.ratio = NoKey, !.release = NoKey,
                                           !.threshold = SslInvalidThreshold]
                    /\ m = Clear(x.mem, DOMAIN x.mem)
  OBVIOUS
<1>4. PICK y : y = [x EXCEPT !.key = key, !.mem = m]
  OBVIOUS
<1>a. /\ DOMAIN b.ramp = SslRamps /\ DOMAIN b.key = SslKeys /\ DOMAIN b.mem = SslMemory
      /\ b.emu \in BOOLEAN
  BY DEF SslLayout
<1>5. /\ Has(y, Fields) /\ y.mem = m /\ y.ramp = x.ramp /\ y.now = x.now /\ y.flag = x.flag
      /\ y.kind = x.kind /\ y.emu = x.emu /\ y.key = key
      /\ y.coef = x.coef /\ y.rate = x.rate /\ y.set = x.set
  BY <1>2, <1>4 DEF Shape, Has, Fields
<1>6. m = [n \in SslMemory |-> 0] /\ Has(m, DOMAIN b.mem)
  <2>1. Has(x.mem, SslMemory) /\ DOMAIN x.mem = SslMemory
    BY <1>2, <1>a DEF Shape, Has
  <2> QED
    BY <1>3, <1>a, <2>1, ClearIs
<1>7. /\ Has(key, SslKeys) /\ key.ratio = NoKey /\ key.release = NoKey
      /\ key.threshold = SslInvalidThreshold
  <2>1. Has(x.key, SslKeys)
    BY <1>2, <1>a DEF Shape
  <2> QED
    BY <1>3, <2>1 DEF Has, SslKeys
<1>8. Shape(y, b, Steps) /\ Same(y, p, {"ramp", "now", "mem", "key"})
  BY <1>2, <1>5, <1>6, <1>7, <1>a DEF Shape, Same, Fields
<1>9. PICK in : in = Reading(y)
  OBVIOUS
<1>10. /\ RampIn(p.ramp.ratio, Steps) /\ RampIn(p.ramp.threshold, Steps)
       /\ RampIn(p.ramp.release, Steps)
  BY <1>a DEF Shape, SslRamps
<1>11. /\ in.ratio = p.ramp.ratio.target /\ in.threshold = p.ramp.threshold.target
       /\ in.release = p.ramp.release.target /\ in.fastAttack = p.flag.fastAttack
  <2>1. /\ x.ramp.ratio.current = p.ramp.ratio.target
        /\ x.ramp.threshold.current = p.ramp.threshold.target
        /\ x.ramp.release.current = p.ramp.release.target
    BY <1>2, <1>10, <1>a, ResetIn DEF SslRamps
  <2>3. y.flag = p.flag
    BY <1>8 DEF Same, Fields
  <2> QED
    BY <1>5, <1>8, <1>9, <2>1, <2>3, SslReads
<1>12. SslAble(y, in, rate)
  BY <1>5, <1>7, <1>8, <1>10, <1>11, StepsIn DEF NoKey, SslInvalidThreshold, Same, Fields, SslAble
<1>13. PICK q : q = SslUpdateControlCoefficients(y, in)
  OBVIOUS
<1>14. /\ Shape(q, b, Steps) /\ Same(q, y, {"coef", "key"})
       /\ SslAgree(q.key, in) /\ SslKnows(q.coef, y.emu, in, rate)
  BY <1>8, <1>12, <1>13, SslUpdate
<1>15. /\ Same(q, p, {"ramp", "now", "mem", "coef", "key"})
       /\ q.mem = m /\ q.ramp = x.ramp /\ q.now = Unset /\ q.emu = y.emu
  BY <1>2, <1>5, <1>8, <1>14 DEF Same, Fields
<1>16. SslKnows(q.coef, q.emu, q.key, rate)
  BY <1>14, <1>15, <1>a, SslKnowsAlike DEF Shape, SslAgree
<1>17. q = SslReset(p)
  BY <1>1, <1>2, <1>3, <1>4, <1>9, <1>13 DEF Shape, Has, Fields, SslReset
<1>18. /\ q.key.ratio = p.ramp.ratio.target /\ q.key.threshold = p.ramp.threshold.target
       /\ q.key.release = p.ramp.release.target /\ q.key.fastAttack = p.flag.fastAttack
  BY <1>11, <1>14 DEF SslAgree, SslKeys
<1> QED
  BY <1>1, <1>2, <1>6, <1>14, <1>15, <1>16, <1>17, <1>18

SslSound(p, b, rate, c) ==
    /\ Shape(p, b, Steps) /\ p.rate = rate /\ p.set = c /\ Follows(p, b, SslAims(b.emu, c))
    /\ p.flag.fastAttack = c.fastAttack
    /\ SslKnows(p.coef, p.emu, p.key, rate)

\* New controls move the ramps and the switch; the keys still stand for the coefficients.
LEMMA SslSet ==
    ASSUME NEW b, SslLayout(b), NEW p, Shape(p, b, Steps), NEW rate, p.rate = rate,
           SslKnows(p.coef, p.emu, p.key, rate), p.emu => p.ramp.output.target = 0,
           NEW c \in Settings("Ssl")
    PROVE  LET q == SslSetControls([p EXCEPT !.set = c], c)
           IN  SslSound(q, b, rate, c) /\ Same(q, p, {"ramp", "set", "flag"})
<1>1. PICK k, names, f : /\ k = "Ssl" /\ f = c.fastAttack
                         /\ names = {"ratio", "release", "threshold"} \cup
                                    IF p.emu THEN {} ELSE {"output"}
  OBVIOUS
<1>2. /\ DOMAIN b.ramp = SslRamps /\ DOMAIN b.flag = {"fastAttack"} /\ Steps \subseteq Int
      /\ b.emu = p.emu
  BY StepsAreNumbers DEF SslLayout, Shape
<1>4. Allowed(c, names, Steps)
  BY <1>1, SettingsAllowed DEF Controls, Processors, Switches, Optical
<1>5. PICK x : x = [p EXCEPT !.set = c]
  OBVIOUS
<1>6. Shape(x, b, Steps) /\ Same(x, p, {"set"}) /\ x.set = c
  BY <1>5, GivenShape
<1>7. PICK y : y = Aim(x, c, names)
  OBVIOUS
<1>8. Shape(y, b, Steps) /\ Same(y, x, {"ramp"}) /\ AimedAt(y, x, b, c, names)
  BY <1>2, <1>4, <1>6, <1>7, AimShape
<1>9. PICK flag : flag = [y.flag EXCEPT !.fastAttack = f]
  OBVIOUS
<1>10. Has(flag, {"fastAttack"}) /\ flag.fastAttack = f
  BY <1>2, <1>8, <1>9 DEF Shape, Has
<1>11. PICK q : q = [y EXCEPT !.flag = flag]
  OBVIOUS
<1>12. /\ Has(q, Fields) /\ q.mem = y.mem /\ q.ramp = y.ramp /\ q.now = y.now
       /\ q.kind = y.kind /\ q.emu = y.emu /\ q.flag = flag /\ q.key = y.key
       /\ q.coef = y.coef /\ q.rate = y.rate /\ q.set = y.set
  BY <1>8, <1>11 DEF Shape, Has, Fields
<1>13. Shape(q, b, Steps)
  BY <1>2, <1>8, <1>10, <1>12 DEF Shape
<1>14. /\ Same(q, p, {"ramp", "set", "flag"}) /\ q.set = c /\ x.ramp = p.ramp /\ x.emu = p.emu
       /\ q.coef = p.coef /\ q.key = p.key /\ q.emu = p.emu /\ q.rate = rate
  BY <1>6, <1>8, <1>12 DEF Same, Fields
<1>15. Follows(q, b, SslAims(b.emu, c))
  <2>1. ASSUME NEW n \in SslRamps PROVE q.ramp[n].target = SslAims(b.emu, c)[n]
    <3>1. CASE n \in names
      BY <1>1, <1>2, <1>8, <1>12, <3>1, <2>1 DEF AimedAt, SslAims
    <3>2. CASE n \notin names
      BY <1>1, <1>2, <1>8, <1>12, <1>14, <2>1, <3>2 DEF SslRamps, AimedAt, SslAims
    <3> QED
      BY <3>1, <3>2
  <2> QED
    BY <1>2, <2>1 DEF Follows
<1>16. q = SslSetControls([p EXCEPT !.set = c], c)
  <2>1. SslSetControls(x, c) = [y EXCEPT !.flag.fastAttack = f]
    BY <1>1, <1>7, <1>14 DEF SslSetControls
  <2> QED
    BY <1>5, <1>9, <1>11, <2>1
<1> QED
  BY <1>1, <1>10, <1>12, <1>13, <1>14, <1>15, <1>16 DEF SslSound

SslFormed(p) == /\ p.emu \in BOOLEAN /\ Shape(p, SslNew(p.emu), Steps)
                /\ p.emu => p.ramp.output.target = 0

SslInv(p, rate, c) == p.emu \in BOOLEAN /\ SslSound(p, SslNew(p.emu), rate, c)

\* A new SslChannel may be prepared.
LEMMA SslBegins == ASSUME NEW emu \in BOOLEAN PROVE SslFormed(SslNew(emu))
BY SslBlank DEF SslFormed, SslLayout

\* SslChannel with its contract may be prepared again.
LEMMA SslStaysFormed ==
    ASSUME NEW p, NEW rate, NEW c, SslInv(p, rate, c)
    PROVE  SslFormed(p)
<1>1. PICK emu, b : emu \in BOOLEAN /\ emu = p.emu /\ b = SslNew(emu)
  BY DEF SslInv
<1>2. SslLayout(b) /\ b.emu = emu
  BY <1>1, SslBlank
<1>3. Follows(p, b, SslAims(emu, c)) /\ Shape(p, b, Steps)
  BY <1>1, <1>2 DEF SslInv, SslSound
<1>4. emu => p.ramp.output.target = 0
  BY <1>2, <1>3 DEF Follows, SslAims, SslLayout, SslRamps
<1> QED
  BY <1>1, <1>3, <1>4 DEF SslFormed

\* SslChannel prepared and given its controls has its contract.
LEMMA SslMade ==
    ASSUME NEW p, SslFormed(p), NEW rate, NEW c \in Settings("Ssl")
    PROVE  LET q == SslSetControls([SslPrepare(p, rate) EXCEPT !.set = c], c)
           IN  /\ SslInv(q, rate, c) /\ q.emu = p.emu
               /\ [SslPrepare(p, rate) EXCEPT !.set = c].kind = "Ssl"
<1>1. PICK emu, b : emu \in BOOLEAN /\ emu = p.emu /\ b = SslNew(emu)
  BY DEF SslFormed
<1>2. SslLayout(b) /\ b.emu = emu
  BY <1>1, SslBlank
<1>3. Shape(p, b, Steps) /\ (emu => p.ramp.output.target = 0)
  BY <1>1 DEF SslFormed
<1>4. PICK s : s = [rate |-> rate]
  OBVIOUS
<1>5. s = One("rate", rate)
  BY <1>4 DEF One
<1>6. PICK coef : coef = [p.coef EXCEPT !.times = s]
  OBVIOUS
<1>7. PICK x : x = [p EXCEPT !.rate = rate, !.coef = coef]
  OBVIOUS
<1>8. Has(coef, DOMAIN b.coef) /\ coef.times = s
  BY <1>2, <1>3, <1>6, ZenonT(60) DEF Shape, Has, SslLayout, SslCoefficients
<1>9. /\ Has(x, Fields) /\ x.mem = p.mem /\ x.ramp = p.ramp /\ x.now = p.now /\ x.flag = p.flag
      /\ x.kind = p.kind /\ x.emu = p.emu /\ x.key = p.key
      /\ x.coef = coef /\ x.rate = rate /\ x.set = p.set
  BY <1>3, <1>7 DEF Shape, Has, Fields
<1>10. Shape(x, b, Steps) /\ x.rate = rate /\ x.coef.times = One("rate", rate)
  BY <1>3, <1>5, <1>8, <1>9 DEF Shape
<1>11. PICK y : y = SslReset(x)
  OBVIOUS
<1>12. /\ Shape(y, b, Steps) /\ Same(y, x, {"ramp", "now", "mem", "coef", "key"})
       /\ y.now = Unset /\ y.ramp = ResetRamps(x).ramp
       /\ y.mem = [n \in SslMemory |-> 0]
       /\ \A n \in DOMAIN b.ramp : y.ramp[n].target = x.ramp[n].target
       /\ y.key.ratio = x.ramp.ratio.target /\ y.key.threshold = x.ramp.threshold.target
       /\ y.key.release = x.ramp.release.target /\ y.key.fastAttack = x.flag.fastAttack
       /\ SslKnows(y.coef, y.emu, y.key, rate)
  BY <1>2, <1>10, <1>11, SslForgets
<1>13. y.rate = rate /\ (y.emu => y.ramp.output.target = 0)
  BY <1>1, <1>2, <1>3, <1>9, <1>12 DEF Same, Fields, SslLayout, SslRamps
<1>14. PICK q : q = SslSetControls([y EXCEPT !.set = c], c)
  OBVIOUS
<1>15. SslSound(q, b, rate, c)
  BY <1>2, <1>12, <1>13, <1>14, SslSet
<1>16. q.emu = emu
  BY <1>2, <1>15 DEF SslSound, Shape
<1>17. y = SslPrepare(p, rate)
  <2>1. [p EXCEPT !.rate = rate, !.coef.times = s] = x
    BY <1>3, <1>6, <1>7 DEF Shape, Has, Fields
  <2> QED
    BY <1>4, <1>11, <2>1, Zenon DEF SslPrepare
<1>18. [y EXCEPT !.set = c].kind = "Ssl"
  BY <1>2, <1>12, GivenShape DEF SslLayout, Shape
<1> QED
  BY <1>1, <1>14, <1>15, <1>16, <1>17, <1>18 DEF SslInv

\* New controls keep the contract of SslChannel.
LEMMA SslKept ==
    ASSUME NEW p, NEW rate, NEW d, SslInv(p, rate, d), NEW c \in Settings("Ssl")
    PROVE  LET q == SslSetControls([p EXCEPT !.set = c], c)
           IN  SslInv(q, rate, c) /\ Same(q, p, {"ramp", "set", "flag"})
BY SslBlank, SslStaysFormed, SslSet DEF SslInv, SslSound, SslFormed, Shape

\* A reset keeps the contract of SslChannel.
LEMMA SslForgot ==
    ASSUME NEW p, NEW rate, NEW c, SslInv(p, rate, c)
    PROVE  LET q == SslReset(p)
           IN  /\ SslInv(q, rate, c) /\ Same(q, p, {"ramp", "now", "mem", "coef", "key"})
               /\ q.now = Unset
<1>1. PICK emu, b : emu \in BOOLEAN /\ emu = p.emu /\ b = SslNew(emu)
  BY DEF SslInv
<1>2. SslLayout(b) /\ b.emu = emu
  BY <1>1, SslBlank
<1>3. SslSound(p, b, rate, c)
  BY <1>1 DEF SslInv
<1>4. Shape(p, b, Steps) /\ p.rate = rate /\ p.coef.times = One("rate", rate)
  BY <1>3 DEF SslSound, SslKnows
<1>5. PICK q : q = SslReset(p)
  OBVIOUS
<1>6. /\ Shape(q, b, Steps) /\ Same(q, p, {"ramp", "now", "mem", "coef", "key"})
      /\ q.now = Unset /\ q.ramp = ResetRamps(p).ramp
      /\ q.mem = [n \in SslMemory |-> 0]
      /\ \A n \in DOMAIN b.ramp : q.ramp[n].target = p.ramp[n].target
      /\ q.key.ratio = p.ramp.ratio.target /\ q.key.threshold = p.ramp.threshold.target
      /\ q.key.release = p.ramp.release.target /\ q.key.fastAttack = p.flag.fastAttack
      /\ SslKnows(q.coef, q.emu, q.key, rate)
  BY <1>2, <1>4, <1>5, SslForgets
<1>7. q.rate = rate /\ q.set = c /\ q.flag = p.flag /\ q.emu = emu
  BY <1>1, <1>3, <1>6 DEF SslSound, Same, Fields
<1>8. Follows(q, b, SslAims(b.emu, c))
  BY <1>3, <1>6 DEF SslSound, Follows
<1>9. SslSound(q, b, rate, c)
  BY <1>3, <1>6, <1>7, <1>8 DEF SslSound
<1> QED
  BY <1>1, <1>5, <1>6, <1>7, <1>9 DEF SslInv

\* Two of SslChannel that were given the same controls are one once reset.
LEMMA SslResetsAlike ==
    ASSUME NEW p, NEW q, NEW rate, NEW c, SslInv(p, rate, c), SslInv(q, rate, c), p.emu = q.emu
    PROVE  SslReset(p) = SslReset(q)
<1>1. PICK emu, b : emu \in BOOLEAN /\ emu = p.emu /\ b = SslNew(emu)
  BY DEF SslInv
<1>2. SslLayout(b) /\ b.emu = emu
  BY <1>1, SslBlank
<1>3. SslSound(p, b, rate, c) /\ SslSound(q, b, rate, c)
  BY <1>1 DEF SslInv
<1>4. /\ Shape(p, b, Steps) /\ p.rate = rate /\ p.coef.times = One("rate", rate)
      /\ Shape(q, b, Steps) /\ q.rate = rate /\ q.coef.times = One("rate", rate)
      /\ DOMAIN b.ramp = SslRamps
  BY <1>2, <1>3 DEF SslSound, SslKnows, SslLayout
<1>5. PICK x, y : x = SslReset(p) /\ y = SslReset(q)
  OBVIOUS
<1>6. /\ Shape(x, b, Steps) /\ Same(x, p, {"ramp", "now", "mem", "coef", "key"})
      /\ x.now = Unset /\ x.ramp = ResetRamps(p).ramp
      /\ x.mem = [n \in SslMemory |-> 0]
      /\ \A n \in DOMAIN b.ramp : x.ramp[n].target = p.ramp[n].target
      /\ x.key.ratio = p.ramp.ratio.target /\ x.key.threshold = p.ramp.threshold.target
      /\ x.key.release = p.ramp.release.target /\ x.key.fastAttack = p.flag.fastAttack
      /\ SslKnows(x.coef, x.emu, x.key, rate)
  BY <1>2, <1>4, <1>5, SslForgets
<1>7. /\ Shape(y, b, Steps) /\ Same(y, q, {"ramp", "now", "mem", "coef", "key"})
      /\ y.now = Unset /\ y.ramp = ResetRamps(q).ramp
      /\ y.mem = [n \in SslMemory |-> 0]
      /\ \A n \in DOMAIN b.ramp : y.ramp[n].target = q.ramp[n].target
      /\ y.key.ratio = q.ramp.ratio.target /\ y.key.threshold = q.ramp.threshold.target
      /\ y.key.release = q.ramp.release.target /\ y.key.fastAttack = q.flag.fastAttack
      /\ SslKnows(y.coef, y.emu, y.key, rate)
  BY <1>2, <1>4, <1>5, SslForgets
<1>8. PICK d : d = SslAims(b.emu, c)
  OBVIOUS
<1>9. Follows(p, b, d) /\ Follows(q, b, d) /\ p.flag.fastAttack = q.flag.fastAttack
  BY <1>3, <1>8 DEF SslSound
<1>10. ResetRamps(p).ramp = ResetRamps(q).ramp
  BY <1>4, <1>9, ResetRampsAlike
<1>11. p.flag = q.flag
  <2>1. Has(p.flag, {"fastAttack"}) /\ Has(q.flag, {"fastAttack"})
    BY <1>2, <1>4 DEF Shape, SslLayout
  <2> QED
    BY <1>9, <2>1 DEF Has
<1>12. x.key = y.key
  <2>1. \A n \in SslRamps : p.ramp[n].target = q.ramp[n].target
    BY <1>4, <1>9 DEF Follows
  <2>3. Has(x.key, SslKeys) /\ Has(y.key, SslKeys)
    BY <1>2, <1>6, <1>7 DEF Shape, SslLayout
  <2> QED
    BY <1>6, <1>7, <1>9, <2>1, <2>3 DEF Has, SslKeys, SslRamps
<1>13. x.coef = y.coef
  BY <1>2, <1>6, <1>7, <1>12, SslCoefficientsAlike DEF Shape, SslLayout
<1>14. Same(x, y, {"kind", "emu"})
  <2>1. p.rate = q.rate /\ p.set = q.set
    BY <1>3, <1>4 DEF SslSound
  <2> QED
    BY <1>6, <1>7, <1>10, <1>11, <1>12, <1>13, <2>1 DEF Same, Fields
<1> QED
  BY <1>5, <1>6, <1>7, <1>14, Alike

\* A sample leaves the keys and the coefficients of the controls it read.
LEMMA SslRan ==
    ASSUME NEW p, NEW rate, NEW c, SslInv(p, rate, c), NEW loud
    PROVE  LET q == SslProcess(p, loud)
           IN  /\ SslInv(q, rate, c) /\ Same(q, p, {"ramp", "now", "mem", "coef", "key"})
               /\ q.coef = SslWanted(q, q.now)
<1>1. PICK emu, b : emu \in BOOLEAN /\ emu = p.emu /\ b = SslNew(emu)
  BY DEF SslInv
<1>2. SslLayout(b) /\ b.emu = emu
  BY <1>1, SslBlank
<1>3. /\ SslSound(p, b, rate, c) /\ Shape(p, b, Steps) /\ p.rate = rate /\ Steps \subseteq Int
      /\ SslKnows(p.coef, p.emu, p.key, rate)
  BY <1>1, StepsAreNumbers DEF SslInv, SslSound
<1>4. PICK in : in = Reading(p)
  OBVIOUS
<1>5. in.rate = rate
  BY <1>2, <1>3, <1>4, SslReads
<1>6. PICK m : m = [p.mem EXCEPT !.reductionDb = 0]
  OBVIOUS
<1>7. Has(m, DOMAIN b.mem)
  BY <1>3, <1>6 DEF Shape, Has
<1>8. PICK x0 : x0 = [p EXCEPT !.mem = m, !.now = in]
  OBVIOUS
<1>9. Hears(x0, p, b, Steps, in)
  BY <1>3, <1>7, <1>8 DEF Shape, Has, Fields, Hears, Same
<1>10. x0 = [p EXCEPT !.mem.reductionDb = 0, !.now = in]
  BY <1>3, <1>6, <1>8 DEF Shape, Has, Fields
<1>11. PICK x1 : x1 = SslUpdateControlCoefficients(x0, in)
  OBVIOUS
<1>12. /\ Shape(x1, b, Steps) /\ Same(x1, x0, {"coef", "key"})
       /\ SslAgree(x1.key, in) /\ SslKnows(x1.coef, x0.emu, in, rate)
  <2>1. Shape(x0, b, Steps) /\ SslAble(x0, in, rate)
    BY <1>3, <1>9 DEF Hears, Same, Fields, SslAble, SslKnows
  <2> QED
    BY <1>2, <1>11, <2>1, SslUpdate
<1>13. Hears(x1, x1, b, Steps, in)
  BY <1>9, <1>12 DEF Hears, Same, Fields
<1>14. PICK x2 : x2 = [x1 EXCEPT !.mem = Charge(@, {"detectorPower"}, loud)]
  OBVIOUS
<1>15. Hears(x2, x1, b, Steps, in)
  BY <1>13, <1>14, Charged
<1>16. PICK target : target = SslCalculateTargetReductionDb(x1, in)
  OBVIOUS
<1>17. PICK x3 : x3 = [x2 EXCEPT !.mem = Charge(@, {"fastReductionDb", "slowReductionDb"}, target)]
  OBVIOUS
<1>18. Hears(x3, x1, b, Steps, in)
  BY <1>15, <1>17, Charged
<1>19. PICK sum : sum = x3.mem.fastReductionDb + x3.mem.slowReductionDb
  OBVIOUS
<1>20. PICK x4 : x4 = [x3 EXCEPT !.mem = Charge(@, {"reductionDb"}, sum)]
  OBVIOUS
<1>21. Hears(x4, x1, b, Steps, in)
  BY <1>18, <1>20, Charged
<1>22. PICK q : q = AdvanceRamps(x4)
  OBVIOUS
<1>23. /\ Shape(q, b, Steps) /\ Same(q, x4, {"ramp"})
       /\ \A n \in DOMAIN b.ramp : q.ramp[n].target = x4.ramp[n].target
  BY <1>3, <1>21, <1>22, AdvancedShape, ZenonT(60) DEF Hears
<1>24. /\ Same(x4, p, {"now", "mem", "coef", "key"}) /\ x4.now = in
       /\ x4.coef = x1.coef /\ x4.key = x1.key /\ x0.emu = p.emu
  BY <1>9, <1>12, <1>21 DEF Hears, Same, Fields
<1>25. /\ Same(q, p, {"ramp", "now", "mem", "coef", "key"}) /\ q.now = in
       /\ q.coef = x1.coef /\ q.key = x1.key /\ q.emu = emu /\ x4.ramp = p.ramp
  BY <1>1, <1>23, <1>24 DEF Same, Fields
<1>26. SslKnows(q.coef, q.emu, in, rate)
  BY <1>1, <1>12, <1>24, <1>25
<1>27. SslKnows(q.coef, q.emu, q.key, rate)
  BY <1>1, <1>12, <1>25, <1>26, SslKnowsAlike DEF SslAgree
<1>28. SslSound(q, b, rate, c)
  BY <1>3, <1>23, <1>25, <1>27 DEF SslSound, Follows, Same, Fields
<1>29. q.coef = SslWanted(q, q.now)
  BY <1>2, <1>5, <1>23, <1>25, <1>26, SslIsWanted DEF Shape, SslLayout
<1>30. q = SslProcess(p, loud)
  <2>1. PICK x20 : x20 = SslUpdateReductionMemory(x2, target)
    OBVIOUS
  <2>2. x20 = x3
    BY <1>17, <2>1, Zenon DEF SslUpdateReductionMemory
  <2>3. [x3 EXCEPT !.mem = Charge(@, {"reductionDb"}, @.fastReductionDb + @.slowReductionDb)] = x4
    BY <1>19, <1>20
  <2> QED
    BY <1>4, <1>10, <1>11, <1>14, <1>16, <1>22, <2>1, <2>2, <2>3, Zenon DEF SslProcess
<1> QED
  BY <1>1, <1>25, <1>28, <1>29, <1>30 DEF SslInv

-----------------------------------------------------------------------------
(* Cla76.                                                                    *)

Cla76Ramps == {"reduction", "inputGain", "outputGain", "attack", "release", "ratioControl"}
Cla76Keys == {"reduction", "nominalInput", "nominalOutput", "attack", "release", "ratio",
              "ratioControl"}
Cla76Coefficients == {"mode", "attack", "release", "curve", "makeup", "colour"}
Cla76Memory == {"detectorPower", "allMemory", "colourPole", "reductionDb"}

Cla76Layout(b) ==
    /\ Shape(b, b, Steps) /\ b.kind = "Cla76" /\ b.emu \in BOOLEAN
    /\ DOMAIN b.ramp = Cla76Ramps /\ DOMAIN b.flag = {} /\ DOMAIN b.key = Cla76Keys
    /\ DOMAIN b.coef = Cla76Coefficients /\ DOMAIN b.mem = Cla76Memory

\* A new Cla76 has its registers, keys and coefficients.
LEMMA Cla76Blank ==
    ASSUME NEW emu \in BOOLEAN
    PROVE  LET b == Cla76New(emu)
           IN  /\ Cla76Layout(b) /\ b.emu = emu
               /\ b.ramp.reduction.target = 0 /\ b.ramp.inputGain.target = 0
               /\ b.coef.colour = Unset /\ b.coef.makeup = Unset /\ b.mem.colourPole = 0
<1>1. 0 \in Steps
  BY DEF Steps, Gains
<1>2. PICK k, flags : k = "Cla76" /\ flags = {}
  OBVIOUS
<1>3. PICK b : b = Blank(k, emu, Cla76Ramps, flags, Cla76Keys, Cla76Coefficients, Cla76Memory)
  OBVIOUS
<1>4. /\ Shape(b, b, Steps) /\ b.kind = k /\ b.emu = emu
      /\ DOMAIN b.ramp = Cla76Ramps /\ DOMAIN b.flag = flags /\ DOMAIN b.key = Cla76Keys
      /\ DOMAIN b.coef = Cla76Coefficients /\ DOMAIN b.mem = Cla76Memory
      /\ \A n \in Cla76Ramps : b.ramp[n] = Ramp(0)
      /\ \A n \in Cla76Memory : b.mem[n] = 0
  BY <1>1, <1>3, BlankShape
<1>5. b = Cla76New(emu)
  BY <1>2, <1>3, Zenon DEF Cla76New, Cla76Ramps, Cla76Keys, Cla76Coefficients, Cla76Memory
<1>6. \A n \in Cla76Coefficients : b.coef[n] = Unset
  BY <1>3 DEF Blank
<1>8. b.coef.colour = Unset /\ b.coef.makeup = Unset
  BY <1>6 DEF Cla76Coefficients
<1> QED
  BY <1>2, <1>4, <1>5, <1>8 DEF Cla76Layout, Ramp, Cla76Ramps, Cla76Memory

\* The stamp of controls and of a sample rate kept elsewhere.
RatedStamp(in, reads, rate) == [n \in reads |-> IF n = "rate" THEN rate ELSE in[n]]

Cla76Law(in, reads, rate) == RatedStamp(in, reads, rate) ++ [mode |-> One("ratio", in.ratio)]

AttackReads == {"attack", "release", "ratio", "rate"}
ReleaseReads == {"release", "rate"}
CurveReads == {"attack", "release", "ratio", "ratioControl", "reduction", "rate"}
MakeupReads == {"reduction", "attack", "release", "ratioControl"}

Cla76MakeupOf(emu, in) == IF emu THEN Unset ELSE Stamp(in, MakeupReads)

\* The coefficients are those of the controls in and the sample rate.
Cla76Knows(coef, emu, in, rate) ==
    /\ coef.mode = One("ratio", in.ratio)
    /\ coef.attack = Cla76Law(in, AttackReads, rate)
    /\ coef.release = Cla76Law(in, ReleaseReads, rate)
    /\ coef.curve = Cla76Law(in, CurveReads, rate)
    /\ coef.makeup = Cla76MakeupOf(emu, in)
    /\ coef.colour = RateOf(emu, rate)

Cla76Compared == {"reduction", "attack", "release", "ratio", "ratioControl"}
Cla76Agree(f, g) == \A n \in Cla76Compared : f[n] = g[n]

\* A stamp of inputs with a rate has that rate.
LEMMA RatedStampIs ==
    ASSUME NEW in, NEW reads, NEW rate, in.rate = rate
    PROVE  Stamp(in, reads) = RatedStamp(in, reads, rate)
  BY DEF Stamp, RatedStamp

\* The law of inputs that agree on what it reads is one.
LEMMA Cla76LawAlike ==
    ASSUME NEW f, NEW g, NEW reads, NEW rate, \A n \in reads \ {"rate"} : f[n] = g[n],
           f.ratio = g.ratio
    PROVE  Cla76Law(f, reads, rate) = Cla76Law(g, reads, rate)
BY DEF RatedStamp, Cla76Law

\* Keys that agree with the inputs stand for the same coefficients.
LEMMA Cla76KnowsAlike ==
    ASSUME NEW emu, NEW f, NEW g, NEW coef, NEW rate, Cla76Knows(coef, emu, f, rate),
           Cla76Agree(f, g)
    PROVE  Cla76Knows(coef, emu, g, rate)
<1>1. /\ \A n \in AttackReads \ {"rate"} : f[n] = g[n]
      /\ \A n \in ReleaseReads \ {"rate"} : f[n] = g[n]
      /\ \A n \in CurveReads \ {"rate"} : f[n] = g[n]
      /\ \A n \in MakeupReads : f[n] = g[n]
      /\ f.ratio = g.ratio
  BY DEF Cla76Agree, Cla76Compared, AttackReads, ReleaseReads, CurveReads, MakeupReads
<1>3. Stamp(f, MakeupReads) = Stamp(g, MakeupReads)
  BY <1>1, StampAlike
<1> QED
  BY <1>1, <1>3, Cla76LawAlike DEF Cla76Knows, Cla76MakeupOf

\* The keys determine every coefficient that has one.
LEMMA Cla76CoefficientsAlike ==
    ASSUME NEW emu, NEW in, NEW f, NEW g, NEW rate, Has(f, Cla76Coefficients),
           Has(g, Cla76Coefficients), Cla76Knows(f, emu, in, rate), Cla76Knows(g, emu, in, rate)
    PROVE  f = g
  BY DEF Cla76Knows, Has, Cla76Coefficients

\* The coefficients the keys stand for are those wanted when the keys are the inputs.
LEMMA Cla76IsWanted ==
    ASSUME NEW p, NEW coef, NEW in, NEW rate, Has(coef, Cla76Coefficients), in.rate = rate,
           Cla76Knows(coef, p.emu, in, rate)
    PROVE  coef = Cla76Wanted(p, in)
<1>1. PICK r, t : r = "ratio" /\ t = "rate"
  OBVIOUS
<1>2. PICK mo, ml, rs : /\ mo = One(r, in[r]) /\ ml = [mode |-> mo] /\ rs = One(t, rate)
  OBVIOUS
<1>3. Stamp(in, {r}) = mo /\ Stamp(in, {t}) = rs
  BY <1>1, <1>2, StampOne
<1>4. PICK at, re, cu, mk, cl :
        /\ at = Stamp(in, AttackReads) ++ ml /\ re = Stamp(in, ReleaseReads) ++ ml
        /\ cu = Stamp(in, CurveReads) ++ ml /\ mk = Cla76MakeupOf(p.emu, in)
        /\ cl = RateOf(p.emu, rate)
  OBVIOUS
<1>5. PICK w : w = [mode |-> mo, attack |-> at, release |-> re, curve |-> cu, makeup |-> mk,
                    colour |-> cl]
  OBVIOUS
<1>6. w = Cla76Wanted(p, in)
  BY <1>1, <1>2, <1>3, <1>4, <1>5, Zenon
     DEF Cla76Wanted, Cla76MakeupOf, RateOf, AttackReads, ReleaseReads, CurveReads, MakeupReads
<1>7. /\ DOMAIN w = Cla76Coefficients /\ w.mode = mo /\ w.attack = at /\ w.release = re
      /\ w.curve = cu /\ w.makeup = mk /\ w.colour = cl /\ Has(w, Cla76Coefficients)
  BY <1>5 DEF Cla76Coefficients, Has
<1>9. \A n \in Cla76Coefficients : w[n] = coef[n]
  BY <1>1, <1>2, <1>4, <1>7, RatedStampIs DEF Cla76Coefficients, Cla76Knows, Cla76Law
<1> QED
  BY <1>6, <1>7, <1>9 DEF Has

Cla76Fresh(key) == \A n \in Cla76Compared : key[n] = NoKey
Cla76Audible(in) == \A n \in Cla76Compared : in[n] # NoKey

\* What has to hold before a step that computes only what its keys call for.
Cla76Able(p, rate) ==
    /\ p.coef.colour = RateOf(p.emu, rate) /\ (p.emu => p.coef.makeup = Unset)
    /\ Cla76Fresh(p.key) \/ Cla76Knows(p.coef, p.emu, p.key, rate)

\* After the control coefficients are brought up to date the keys are the inputs.
LEMMA Cla76Update ==
    ASSUME NEW b, Cla76Layout(b), NEW p, Shape(p, b, Steps), NEW rate, Cla76Able(p, rate),
           NEW in, in.rate = rate, Cla76Audible(in)
    PROVE  LET q == Cla76UpdateControlCoefficients(Cla76UpdateMode(p, in), in)
           IN  /\ Shape(q, b, Steps) /\ Same(q, p, {"coef", "key"})
               /\ Cla76Agree(q.key, in) /\ q.key.nominalInput = p.key.nominalInput
               /\ q.key.nominalOutput = p.key.nominalOutput
               /\ Cla76Knows(q.coef, p.emu, in, rate)
<1>1. PICK emu, k, mo : emu \in BOOLEAN /\ emu = p.emu /\ k = p.key /\ mo = One("ratio", in.ratio)
  BY DEF Shape, Cla76Layout
<1>2. /\ DOMAIN b.key = Cla76Keys /\ DOMAIN b.coef = Cla76Coefficients
      /\ Has(p, Fields) /\ Has(p.key, Cla76Keys) /\ Has(p.coef, Cla76Coefficients)
  BY DEF Shape, Cla76Layout
<1>3. /\ in.ratio # NoKey /\ in.attack # NoKey /\ in.release # NoKey /\ in.reduction # NoKey
      /\ in.ratioControl # NoKey
  BY DEF Cla76Audible, Cla76Compared
<1>4. PICK moved : moved <=> in.ratio # k.ratio
  OBVIOUS
<1>5. PICK coef0, key0 : /\ coef0 = [p.coef EXCEPT !.mode = mo]
                         /\ key0 = [k EXCEPT !.ratio = in.ratio, !.attack = NoKey,
                                             !.release = NoKey]
  OBVIOUS
<1>6. PICK x : x = [p EXCEPT !.coef = coef0, !.key = key0]
  OBVIOUS
<1>7. /\ Has(x, Fields) /\ x.mem = p.mem /\ x.ramp = p.ramp /\ x.now = p.now /\ x.flag = p.flag
      /\ x.kind = p.kind /\ x.emu = p.emu /\ x.key = key0
      /\ x.coef = coef0 /\ x.rate = p.rate /\ x.set = p.set
  BY <1>2, <1>6 DEF Has, Fields
<1>8. /\ Has(coef0, Cla76Coefficients) /\ coef0.mode = mo /\ coef0.attack = p.coef.attack
      /\ coef0.release = p.coef.release /\ coef0.curve = p.coef.curve
      /\ coef0.makeup = p.coef.makeup /\ coef0.colour = p.coef.colour
  BY <1>2, <1>5 DEF Has, Cla76Coefficients
<1>9. /\ Has(key0, Cla76Keys) /\ key0.ratio = in.ratio /\ key0.attack = NoKey
      /\ key0.release = NoKey /\ key0.reduction = k.reduction
      /\ key0.ratioControl = k.ratioControl /\ key0.nominalInput = k.nominalInput
      /\ key0.nominalOutput = k.nominalOutput
  BY <1>1, <1>2, <1>5 DEF Has, Cla76Keys
<1>10. Shape(x, b, Steps) /\ Same(x, p, {"coef", "key"}) /\ Same(p, p, {"coef", "key"})
  BY <1>2, <1>7, <1>8, <1>9 DEF Shape, Same, Fields
<1>11. (~moved) => Cla76Knows(p.coef, emu, k, rate)
  BY <1>1, <1>3, <1>4 DEF Cla76Compared, Cla76Able, Cla76Fresh
<1>12. PICK y : y = IF moved THEN x ELSE p
  OBVIOUS
<1>13. y = Cla76UpdateMode(p, in)
  <2>1. moved => Cla76UpdateMode(p, in) = x
    <3> HAVE moved
    <3>1. PICK n : n = "ratio"
      OBVIOUS
    <3>2. Stamp(in, {n}) = One(n, in[n])
      BY StampOne
    <3> QED
      BY <1>1, <1>2, <1>4, <1>5, <1>6, <3>1, <3>2 DEF Has, Fields, Cla76UpdateMode
  <2>2. (~moved) => Cla76UpdateMode(p, in) = p
    BY <1>1, <1>4 DEF Cla76UpdateMode
  <2> QED
    BY <1>12, <2>1, <2>2
<1>14. /\ Shape(y, b, Steps) /\ Same(y, p, {"coef", "key"})
       /\ y.key.ratio = in.ratio /\ y.coef.mode = mo
       /\ y.coef.attack = p.coef.attack /\ y.coef.release = p.coef.release
       /\ y.coef.curve = p.coef.curve /\ y.coef.makeup = p.coef.makeup
       /\ y.coef.colour = p.coef.colour
       /\ y.key.reduction = k.reduction /\ y.key.ratioControl = k.ratioControl
       /\ y.key.nominalInput = k.nominalInput /\ y.key.nominalOutput = k.nominalOutput
       /\ y.key.attack = (IF moved THEN NoKey ELSE k.attack)
       /\ y.key.release = (IF moved THEN NoKey ELSE k.release)
  <2>1. CASE moved
    BY <1>1, <1>7, <1>8, <1>9, <1>10, <1>12, <2>1
  <2>2. CASE ~moved
    BY <1>1, <1>4, <1>10, <1>11, <1>12, <2>2 DEF Cla76Knows
  <2> QED
    BY <2>1, <2>2
<1>15. PICK timing, released, curved :
         /\ released <=> in.release # y.key.release
         /\ timing <=> (in.attack # y.key.attack \/ released)
         /\ curved <=> (timing \/ in.reduction # y.key.reduction
                               \/ in.ratioControl # y.key.ratioControl)
  OBVIOUS
<1>16. PICK la, lr, lc, mk :
         /\ la = Cla76Law(in, AttackReads, rate) /\ lr = Cla76Law(in, ReleaseReads, rate)
         /\ lc = Cla76Law(in, CurveReads, rate) /\ mk = Stamp(in, MakeupReads)
  OBVIOUS
<1>17. /\ Stamp(in, AttackReads) ++ [mode |-> y.coef.mode] = la
       /\ Stamp(in, ReleaseReads) ++ [mode |-> y.coef.mode] = lr
       /\ Stamp(in, CurveReads) ++ [mode |-> y.coef.mode] = lc
  BY <1>1, <1>14, <1>16, RatedStampIs DEF Cla76Law
<1>18. PICK attack, release, curve, makeup :
         /\ attack = (IF timing THEN la ELSE y.coef.attack)
         /\ release = (IF released THEN lr ELSE y.coef.release)
         /\ curve = (IF curved THEN lc ELSE y.coef.curve)
         /\ makeup = (IF curved /\ ~emu THEN mk ELSE y.coef.makeup)
  OBVIOUS
<1>19. PICK coef, key :
         /\ coef = [y.coef EXCEPT !.attack = attack, !.release = release, !.curve = curve,
                                  !.makeup = makeup]
         /\ key = [y.key EXCEPT !.attack = in.attack, !.release = in.release,
                                !.reduction = in.reduction, !.ratioControl = in.ratioControl]
  OBVIOUS
<1>20. PICK q : q = [y EXCEPT !.coef = coef, !.key = key]
  OBVIOUS
<1>21. Has(y, Fields) /\ Has(y.coef, Cla76Coefficients) /\ Has(y.key, Cla76Keys) /\ y.emu = emu
  BY <1>1, <1>2, <1>14 DEF Shape, Same, Fields
<1>22. /\ Has(q, Fields) /\ q.mem = y.mem /\ q.ramp = y.ramp /\ q.now = y.now /\ q.flag = y.flag
       /\ q.kind = y.kind /\ q.emu = y.emu /\ q.key = key
       /\ q.coef = coef /\ q.rate = y.rate /\ q.set = y.set
  BY <1>20, <1>21 DEF Has, Fields
<1>23. /\ Has(coef, Cla76Coefficients) /\ coef.mode = y.coef.mode /\ coef.attack = attack
       /\ coef.release = release /\ coef.curve = curve
       /\ coef.makeup = makeup /\ coef.colour = y.coef.colour
  BY <1>19, <1>21 DEF Has, Cla76Coefficients
<1>24. /\ Has(key, Cla76Keys) /\ key.ratio = y.key.ratio /\ key.attack = in.attack
       /\ key.release = in.release /\ key.reduction = in.reduction
       /\ key.ratioControl = in.ratioControl /\ key.nominalInput = y.key.nominalInput
       /\ key.nominalOutput = y.key.nominalOutput
  BY <1>19, <1>21 DEF Has, Cla76Keys
<1>25. Shape(q, b, Steps) /\ Same(q, p, {"coef", "key"})
  BY <1>2, <1>14, <1>22, <1>23, <1>24 DEF Shape, Same, Fields
<1>26. q = Cla76UpdateControlCoefficients(y, in)
  <2>1. Cla76UpdateControlCoefficients(y, in) =
          [y EXCEPT !.coef.attack = attack, !.coef.release = release, !.coef.curve = curve,
                    !.coef.makeup = makeup, !.key = key]
    BY <1>15, <1>16, <1>17, <1>18, <1>19, <1>21
       DEF Cla76UpdateControlCoefficients, AttackReads, ReleaseReads, CurveReads, MakeupReads
  <2> QED
    BY <1>19, <1>20, <1>21, <2>1 DEF Has, Fields
<1>27. (~timing) => p.coef.attack = la
  BY <1>3, <1>4, <1>11, <1>14, <1>15, <1>16, Cla76LawAlike DEF AttackReads, Cla76Knows
<1>28. (~released) => p.coef.release = lr
  BY <1>3, <1>4, <1>11, <1>14, <1>15, <1>16, Cla76LawAlike DEF ReleaseReads, Cla76Knows
<1>29. (~curved) => p.coef.curve = lc /\ (~emu => p.coef.makeup = mk)
  <2> HAVE ~curved
  <2>1. ~moved
    BY <1>3, <1>14, <1>15
  <2>2. /\ k.attack = in.attack /\ k.release = in.release /\ k.ratio = in.ratio
        /\ k.reduction = in.reduction /\ k.ratioControl = in.ratioControl
        /\ Cla76Knows(p.coef, emu, k, rate)
    BY <1>4, <1>11, <1>14, <1>15, <2>1
  <2>3. \A n \in CurveReads \ {"rate"} : k[n] = in[n]
    BY <2>2 DEF CurveReads
  <2>4. Cla76Law(k, CurveReads, rate) = Cla76Law(in, CurveReads, rate)
    BY <2>2, <2>3, Cla76LawAlike
  <2>5. \A n \in MakeupReads : k[n] = in[n]
    BY <2>2 DEF MakeupReads
  <2>6. Stamp(k, MakeupReads) = Stamp(in, MakeupReads)
    BY <2>5, StampAlike
  <2> QED
    BY <1>16, <2>2, <2>4, <2>6 DEF Cla76Knows, Cla76MakeupOf
<1>30. Cla76Knows(coef, emu, in, rate)
  <2>1. attack = la /\ release = lr /\ curve = lc
    BY <1>14, <1>18, <1>27, <1>28, <1>29
  <2>2. makeup = IF emu THEN Unset ELSE mk
    BY <1>1, <1>14, <1>18, <1>29 DEF Cla76Able
  <2>3. y.coef.colour = RateOf(emu, rate)
    BY <1>1, <1>14 DEF Cla76Able
  <2> QED
    BY <1>1, <1>14, <1>16, <1>23, <2>1, <2>2, <2>3 DEF Cla76Knows, Cla76MakeupOf
<1>31. Cla76Agree(key, in)
  BY <1>14, <1>24 DEF Cla76Agree, Cla76Compared
<1> QED
  BY <1>1, <1>13, <1>14, <1>22, <1>24, <1>25, <1>26, <1>30, <1>31

\* What a sample reads, the ratio of the mode included.
Cla76Input(p) == Reading(p) ++ [ratio |-> Cla76Ratio(p, Reading(p).ratioControl)]

\* A sample reads levels, the rate and the ratio of the mode.
LEMMA Cla76Reads ==
    ASSUME NEW b, Cla76Layout(b), NEW p, Shape(p, b, Steps), NEW in, in = Cla76Input(p)
    PROVE  in.rate = p.rate /\ Cla76Audible(in)
<1>1. PICK read : read = Reading(p)
  OBVIOUS
<1>2. PICK r, a, l, o : r = "reduction" /\ a = "attack" /\ l = "release" /\ o = "ratioControl"
  OBVIOUS
<1>3. /\ r \in DOMAIN b.ramp /\ a \in DOMAIN b.ramp /\ l \in DOMAIN b.ramp /\ o \in DOMAIN b.ramp
      /\ "rate" \notin DOMAIN b.ramp \cup DOMAIN b.flag
  BY <1>2 DEF Cla76Layout, Cla76Ramps
<1>4. read[r] = p.ramp[r].current
  BY <1>1, <1>3, RampRead
<1>5. read[a] = p.ramp[a].current
  BY <1>1, <1>3, RampRead
<1>6. read[l] = p.ramp[l].current
  BY <1>1, <1>3, RampRead
<1>7. read[o] = p.ramp[o].current
  BY <1>1, <1>3, RampRead
<1>8. read.rate = p.rate
  BY <1>1, <1>3, RateRead
<1>10. /\ read[r] \in 0..99 /\ read[a] \in 0..99 /\ read[l] \in 0..99 /\ read[o] \in 0..99
  BY <1>3, <1>4, <1>5, <1>6, <1>7, StepsIn DEF Shape
<1>11. PICK t : t = Cla76Ratio(p, read.ratioControl)
  OBVIOUS
<1>12. t # NoKey
  BY <1>2, <1>10, <1>11 DEF Cla76Ratio, NoKey
<1>13. DOMAIN read = DOMAIN b.ramp \cup DOMAIN b.flag \cup {"rate"}
  BY <1>1, ReadingIs
<1>14. "ratio" \notin DOMAIN read /\ {"rate", r, a, l, o} \subseteq DOMAIN read
  BY <1>2, <1>3, <1>13 DEF Cla76Layout, Cla76Ramps
<1>15. PICK d : d = [ratio |-> t]
  OBVIOUS
<1>16. in = read ++ d
  BY <1>1, <1>11, <1>15, Zenon DEF Cla76Input
<1>17. in.ratio = t /\ \A n \in DOMAIN read : in[n] = read[n]
  BY <1>14, <1>15, <1>16 DEF ++
<1> QED
  BY <1>2, <1>8, <1>10, <1>12, <1>14, <1>17 DEF Cla76Audible, Cla76Compared, NoKey

\* The ramp that the mode never moves.
Cla76Aims(emu, c) ==
    [n \in Cla76Ramps |-> IF n = (IF emu THEN "reduction" ELSE "inputGain") THEN 0 ELSE c[n]]

\* The nominal gains that were set last are those the ramps go to.
Cla76Nominal(p) ==
    p.emu => /\ p.key.nominalInput # NoKey => p.ramp.inputGain.target = p.key.nominalInput
             /\ p.key.nominalOutput # NoKey => p.ramp.outputGain.target = p.key.nominalOutput

\* The mode that has no makeup or no colour computes and charges none.
Cla76Spare(p) == /\ p.emu => p.coef.makeup = Unset
                 /\ ~p.emu => p.mem.colourPole = 0

Cla76Idle(p) == /\ p.emu => p.ramp.reduction.target = 0
                /\ ~p.emu => p.ramp.inputGain.target = 0

\* A reset clears the registers and invalidates the keys (Cla76::reset).
LEMMA Cla76Forgets ==
    ASSUME NEW b, Cla76Layout(b), NEW p, Shape(p, b, Steps), Cla76Spare(p)
    PROVE  LET q == Cla76Reset(p)
           IN  /\ Shape(q, b, Steps) /\ Same(q, p, {"ramp", "now", "mem", "key"})
               /\ q.now = Unset /\ q.ramp = ResetRamps(p).ramp
               /\ q.mem = [n \in Cla76Memory |-> 0] /\ q.key = [n \in Cla76Keys |-> NoKey]
               /\ \A n \in DOMAIN b.ramp : q.ramp[n].target = p.ramp[n].target
<1>1. PICK x : x = ResetRamps(p)
  OBVIOUS
<1>2. /\ Shape(x, b, Steps) /\ Same(x, p, {"ramp", "now"}) /\ x.now = Unset
      /\ \A n \in DOMAIN b.ramp : x.ramp[n].target = p.ramp[n].target
  BY <1>1, ResetShape
<1>3. PICK registers : registers = {"reductionDb", "detectorPower", "allMemory"} \cup
                                   IF p.emu THEN {"colourPole"} ELSE {}
  OBVIOUS
<1>4. PICK key, m : key = [n \in DOMAIN p.key |-> NoKey] /\ m = Clear(p.mem, registers)
  OBVIOUS
<1>5. PICK q : q = [x EXCEPT !.key = key, !.mem = m]
  OBVIOUS
<1>6. /\ DOMAIN b.key = Cla76Keys /\ DOMAIN b.mem = Cla76Memory
      /\ Has(p.key, Cla76Keys) /\ Has(p.mem, Cla76Memory)
  BY DEF Cla76Layout, Shape
<1>7. key = [n \in Cla76Keys |-> NoKey] /\ Has(key, DOMAIN b.key)
  BY <1>4, <1>6 DEF Has
<1>8. m = [n \in Cla76Memory |-> 0] /\ Has(m, DOMAIN b.mem)
  BY <1>3, <1>4, <1>6, ClearIs DEF Clear, Has, Cla76Memory, Cla76Spare
<1>9. /\ Has(q, Fields) /\ q.mem = m /\ q.ramp = x.ramp /\ q.now = Unset
      /\ q.kind = x.kind /\ q.emu = x.emu /\ q.flag = x.flag /\ q.key = key
      /\ q.coef = x.coef /\ q.rate = x.rate /\ q.set = x.set
  BY <1>2, <1>5 DEF Shape, Has, Fields
<1>11. q = Cla76Reset(p)
  BY <1>1, <1>3, <1>4, <1>5, Zenon DEF Cla76Reset
<1> QED
  BY <1>1, <1>2, <1>7, <1>8, <1>9, <1>11 DEF Shape, Same, Fields

Cla76Sound(p, b, rate, c) ==
    /\ Shape(p, b, Steps) /\ p.rate = rate /\ p.set = c /\ Follows(p, b, Cla76Aims(b.emu, c))
    /\ Cla76Nominal(p) /\ Cla76Spare(p) /\ Cla76Able(p, rate)

\* The controls of Cla76 are levels of a ramp.
LEMMA Cla76SettingsAllow ==
    ASSUME NEW c \in Settings("Cla76")
    PROVE  Allowed(c, Cla76Ramps, Steps)
BY SettingsAllowed DEF Cla76Ramps, Controls, Processors, Switches, Optical

\* New controls move the ramps and the nominal gains; the keys still stand for the coefficients.
LEMMA Cla76Set ==
    ASSUME NEW b, Cla76Layout(b), NEW p, Shape(p, b, Steps), NEW rate, p.rate = rate,
           Cla76Nominal(p), Cla76Spare(p), Cla76Able(p, rate), Cla76Idle(p),
           NEW c \in Settings("Cla76")
    PROVE  LET q == Cla76SetControls([p EXCEPT !.set = c], c)
           IN  Cla76Sound(q, b, rate, c) /\ Same(q, p, {"ramp", "set", "key"})
<1>1. PICK gains, names :
        /\ gains = (IF c.inputGain # p.key.nominalInput THEN {"inputGain"} ELSE {}) \cup
                   (IF c.outputGain # p.key.nominalOutput THEN {"outputGain"} ELSE {})
        /\ names = IF p.emu THEN gains \cup {"attack", "release", "ratioControl"}
                   ELSE {"reduction", "outputGain", "attack", "release", "ratioControl"}
  OBVIOUS
<1>2. /\ DOMAIN b.ramp = Cla76Ramps /\ DOMAIN b.key = Cla76Keys /\ Steps \subseteq Int
      /\ b.emu = p.emu /\ p.emu \in BOOLEAN
  BY StepsAreNumbers DEF Cla76Layout, Shape
<1>3. Allowed(c, names, Steps)
  <2>1. names \subseteq Cla76Ramps
    BY <1>1 DEF Cla76Ramps
  <2> QED
    BY <2>1, Cla76SettingsAllow DEF Allowed
<1>4. c.inputGain # NoKey /\ c.outputGain # NoKey
  <2>1. c.inputGain \in 0..99 /\ c.outputGain \in 0..99
    BY Cla76SettingsAllow, StepsAreNumbers DEF Allowed, Cla76Ramps
  <2> QED
    BY <2>1 DEF NoKey
<1>5. PICK x : x = [p EXCEPT !.set = c]
  OBVIOUS
<1>6. Shape(x, b, Steps) /\ Same(x, p, {"set"}) /\ x.set = c
  BY <1>5, GivenShape
<1>7. PICK y : y = Aim(x, c, names)
  OBVIOUS
<1>8. Shape(y, b, Steps) /\ Same(y, x, {"ramp"}) /\ AimedAt(y, x, b, c, names)
  BY <1>2, <1>3, <1>6, <1>7, AimShape
<1>9. /\ Same(y, p, {"ramp", "set"}) /\ y.set = c /\ x.ramp = p.ramp /\ x.emu = p.emu
      /\ x.key = p.key /\ y.coef = p.coef /\ y.key = p.key /\ y.emu = p.emu /\ y.rate = rate
      /\ y.mem = p.mem
  BY <1>6, <1>8 DEF Same, Fields
<1>10. Follows(y, b, Cla76Aims(b.emu, c))
  <2>1. ASSUME NEW n \in Cla76Ramps PROVE y.ramp[n].target = Cla76Aims(b.emu, c)[n]
    <3>1. CASE n \in names
      <4>1. n # IF p.emu THEN "reduction" ELSE "inputGain"
        BY <1>1, <3>1
      <4> QED
        BY <1>2, <1>8, <3>1, <2>1, <4>1 DEF AimedAt, Cla76Aims
    <3>2. CASE n \notin names
      <4>1. y.ramp[n] = p.ramp[n]
        BY <1>2, <1>8, <1>9, <2>1, <3>2 DEF AimedAt
      <4>2. CASE p.emu /\ n = "inputGain"
        <5>1. c.inputGain = p.key.nominalInput
          BY <1>1, <3>2, <4>2
        <5> QED
          BY <1>2, <1>4, <2>1, <4>1, <4>2, <5>1 DEF Cla76Aims, Cla76Nominal
      <4>3. CASE p.emu /\ n = "outputGain"
        <5>1. c.outputGain = p.key.nominalOutput
          BY <1>1, <3>2, <4>3
        <5> QED
          BY <1>2, <1>4, <2>1, <4>1, <4>3, <5>1 DEF Cla76Aims, Cla76Nominal
      <4>4. CASE p.emu /\ n = "reduction"
        BY <1>2, <2>1, <4>1, <4>4 DEF Cla76Aims, Cla76Idle
      <4>5. CASE ~p.emu /\ n = "inputGain"
        BY <1>2, <2>1, <4>1, <4>5 DEF Cla76Aims, Cla76Idle
      <4> QED
        BY <1>1, <2>1, <3>2, <4>2, <4>3, <4>4, <4>5 DEF Cla76Ramps
    <3> QED
      BY <3>1, <3>2
  <2> QED
    BY <1>2, <2>1 DEF Follows
<1>11. PICK key : key = [y.key EXCEPT !.nominalInput = c.inputGain, !.nominalOutput = c.outputGain]
  OBVIOUS
<1>12. /\ Has(key, Cla76Keys) /\ key.nominalInput = c.inputGain /\ key.nominalOutput = c.outputGain
       /\ \A n \in Cla76Compared : key[n] = p.key[n]
  BY <1>2, <1>8, <1>9, <1>11 DEF Shape, Has, Cla76Keys, Cla76Compared
<1>13. PICK z : z = [y EXCEPT !.key = key]
  OBVIOUS
<1>14. /\ Has(z, Fields) /\ z.mem = y.mem /\ z.ramp = y.ramp /\ z.now = y.now
       /\ z.kind = y.kind /\ z.emu = y.emu /\ z.flag = y.flag /\ z.key = key
       /\ z.coef = y.coef /\ z.rate = y.rate /\ z.set = y.set
  BY <1>8, <1>13 DEF Shape, Has, Fields
<1>15. /\ Shape(z, b, Steps) /\ Same(z, p, {"ramp", "set", "key"}) /\ Same(y, p, {"ramp", "set", "key"})
  BY <1>2, <1>8, <1>9, <1>12, <1>14 DEF Shape, Same, Fields
<1>16. PICK q : q = IF p.emu THEN z ELSE y
  OBVIOUS
<1>17. q = Cla76SetControls([p EXCEPT !.set = c], c)
  <2>1. p.emu => Cla76SetControls(x, c) = z
    <3> HAVE p.emu
    <3>1. Cla76SetControls(x, c) =
            [y EXCEPT !.key.nominalInput = c.inputGain, !.key.nominalOutput = c.outputGain]
      BY <1>1, <1>7, <1>9 DEF Cla76SetControls
    <3> QED
      BY <1>8, <1>11, <1>13, <3>1 DEF Shape, Has, Fields
  <2>2. (~p.emu) => Cla76SetControls(x, c) = y
    BY <1>1, <1>7, <1>9 DEF Cla76SetControls
  <2> QED
    BY <1>5, <1>16, <2>1, <2>2
<1>18. Follows(z, b, Cla76Aims(b.emu, c))
  BY <1>10, <1>14 DEF Follows
<1>19. p.emu => Cla76Nominal(z)
  BY <1>2, <1>12, <1>14, <1>18 DEF Follows, Cla76Aims, Cla76Ramps, Cla76Nominal
<1>20. (~p.emu) => Cla76Nominal(y)
  BY <1>9 DEF Cla76Nominal
<1>21. Cla76Able(y, rate) /\ Cla76Spare(y)
  BY <1>9 DEF Cla76Able, Cla76Spare
<1>22. Cla76Able(z, rate) /\ Cla76Spare(z)
  BY <1>9, <1>12, <1>14, Cla76KnowsAlike DEF Cla76Agree, Cla76Fresh, Cla76Able, Cla76Spare
<1>23. p.emu => Cla76Sound(z, b, rate, c)
  BY <1>9, <1>14, <1>15, <1>18, <1>19, <1>22 DEF Cla76Sound
<1>24. (~p.emu) => Cla76Sound(y, b, rate, c)
  BY <1>8, <1>9, <1>10, <1>20, <1>21 DEF Cla76Sound
<1> QED
  BY <1>15, <1>16, <1>17, <1>23, <1>24

\* A sample tunes the coefficients to what it reads and then runs.
Cla76Tuned(p, in) ==
    LET start == [p EXCEPT !.mem.reductionDb = 0, !.now = in]
    IN  Cla76UpdateControlCoefficients(Cla76UpdateMode(start, in), in)

Cla76Heard(t, in, loud) ==
    Cla76ProcessColourSample(
        Cla76UpdateMemoryReductionDb(Cla76UpdateDetector(t, loud),
                                     Cla76CalculateTargetReductionDb(t, in)), loud)

\* A sample is one that tunes the coefficients and one that runs.
LEMMA Cla76Sample ==
    ASSUME NEW p, NEW in, in = Cla76Input(p), NEW loud
    PROVE  Cla76Process(p, loud) = AdvanceRamps(Cla76Heard(Cla76Tuned(p, in), in, loud))
BY DEF Cla76Input, Cla76Process, Cla76Tuned, Cla76Heard

\* Tuned, the coefficients are those of what the sample reads.
LEMMA Cla76Tune ==
    ASSUME NEW b, Cla76Layout(b), NEW p, Shape(p, b, Steps), NEW rate, p.rate = rate,
           Cla76Able(p, rate), NEW in, in = Cla76Input(p)
    PROVE  LET t == Cla76Tuned(p, in)
           IN  /\ Shape(t, b, Steps) /\ Same(t, p, {"now", "mem", "coef", "key"})
               /\ t.now = in /\ t.mem = [p.mem EXCEPT !.reductionDb = 0]
               /\ Cla76Agree(t.key, in) /\ t.key.nominalInput = p.key.nominalInput
               /\ t.key.nominalOutput = p.key.nominalOutput
               /\ Cla76Knows(t.coef, p.emu, in, rate)
<1>1. in.rate = rate /\ Cla76Audible(in)
  BY Cla76Reads
<1>2. PICK m : m = [p.mem EXCEPT !.reductionDb = 0]
  OBVIOUS
<1>3. Has(m, DOMAIN b.mem)
  BY <1>2 DEF Shape, Has
<1>4. PICK x : x = [p EXCEPT !.mem = m, !.now = in]
  OBVIOUS
<1>5. /\ Has(x, Fields) /\ x.mem = m /\ x.now = in /\ x.ramp = p.ramp
      /\ x.kind = p.kind /\ x.emu = p.emu /\ x.flag = p.flag /\ x.key = p.key
      /\ x.coef = p.coef /\ x.rate = p.rate /\ x.set = p.set
  BY <1>4 DEF Shape, Has, Fields
<1>6. Shape(x, b, Steps) /\ Same(x, p, {"now", "mem"}) /\ Cla76Able(x, rate)
  BY <1>3, <1>5 DEF Shape, Same, Fields, Cla76Able
<1>7. x = [p EXCEPT !.mem.reductionDb = 0, !.now = in]
  BY <1>2, <1>4 DEF Shape, Has, Fields
<1>8. PICK t : t = Cla76UpdateControlCoefficients(Cla76UpdateMode(x, in), in)
  OBVIOUS
<1>9. /\ Shape(t, b, Steps) /\ Same(t, x, {"coef", "key"})
      /\ Cla76Agree(t.key, in) /\ t.key.nominalInput = x.key.nominalInput
      /\ t.key.nominalOutput = x.key.nominalOutput
      /\ Cla76Knows(t.coef, x.emu, in, rate)
  BY <1>1, <1>6, <1>8, Cla76Update
<1>10. t = Cla76Tuned(p, in)
  BY <1>7, <1>8, Zenon DEF Cla76Tuned
<1> QED
  BY <1>2, <1>5, <1>6, <1>9, <1>10 DEF Same, Fields

\* Registers that are charged beside the colour leave it alone.
LEMMA ColourSpared ==
    ASSUME NEW m, Has(m, Cla76Memory), NEW registers, "colourPole" \notin registers, NEW level,
           NEW n, n = Charge(m, registers, level)
    PROVE  Has(n, Cla76Memory) /\ n.colourPole = m.colourPole
  BY DEF Charge, Has, Cla76Memory

\* Running changes registers only; without emulation the colour keeps its pole.
LEMMA Cla76Hearing ==
    ASSUME NEW b, Cla76Layout(b), NEW t, Shape(t, b, Steps), NEW in, t.now = in, NEW loud
    PROVE  LET q == Cla76Heard(t, in, loud)
           IN  /\ Hears(q, t, b, Steps, in)
               /\ ~t.emu => q.mem.colourPole = t.mem.colourPole
<1>1. Hears(t, t, b, Steps, in) /\ DOMAIN b.mem = Cla76Memory
  BY DEF Hears, Same, Cla76Layout
<1>2. PICK target : target = Cla76CalculateTargetReductionDb(t, in)
  OBVIOUS
<1>3. PICK x : x = [t EXCEPT !.mem = Charge(@, {"detectorPower"}, loud)]
  OBVIOUS
<1>4. Hears(x, t, b, Steps, in) /\ x.mem = Charge(t.mem, {"detectorPower"}, loud)
  BY <1>1, <1>3, Charged
<1>5. PICK y : y = [x EXCEPT !.mem = Charge(Charge(@, {"allMemory"}, target), {"reductionDb"},
                                            target)]
  OBVIOUS
<1>6. /\ Hears(y, t, b, Steps, in)
      /\ y.mem = Charge(Charge(x.mem, {"allMemory"}, target), {"reductionDb"}, target)
  BY <1>4, <1>5, ChargedTwice
<1>7. PICK z : z = [y EXCEPT !.mem = Charge(@, {"colourPole"}, loud)]
  OBVIOUS
<1>8. Hears(z, t, b, Steps, in)
  BY <1>6, <1>7, Charged
<1>9. PICK q : q = IF y.emu THEN z ELSE y
  OBVIOUS
<1>10. q = Cla76Heard(t, in, loud)
  BY <1>2, <1>3, <1>5, <1>7, <1>9, Zenon
     DEF Cla76Heard, Cla76ProcessColourSample, Cla76UpdateMemoryReductionDb, Cla76UpdateDetector
<1>11. y.emu = t.emu
  BY <1>6 DEF Hears, Same, Fields
<1>12. y.mem.colourPole = t.mem.colourPole
  <2>1. PICK own, all, sum :
          own = {"detectorPower"} /\ all = {"allMemory"} /\ sum = {"reductionDb"}
    OBVIOUS
  <2>2. "colourPole" \notin own /\ "colourPole" \notin all /\ "colourPole" \notin sum
    BY <2>1
  <2>3. PICK m : m = t.mem
    OBVIOUS
  <2>4. PICK n : n = Charge(m, own, loud)
    OBVIOUS
  <2>5. PICK o : o = Charge(n, all, target)
    OBVIOUS
  <2>6. PICK w : w = Charge(o, sum, target)
    OBVIOUS
  <2>7. Has(m, Cla76Memory)
    BY <1>1, <2>3 DEF Hears, Shape
  <2>8. Has(n, Cla76Memory) /\ n.colourPole = m.colourPole
    BY <2>2, <2>4, <2>7, ColourSpared
  <2>9. Has(o, Cla76Memory) /\ o.colourPole = n.colourPole
    BY <2>2, <2>5, <2>8, ColourSpared
  <2>10. w.colourPole = o.colourPole
    BY <2>2, <2>6, <2>9, ColourSpared
  <2>11. w = y.mem
    BY <1>4, <1>6, <2>1, <2>3, <2>4, <2>5, <2>6
  <2> QED
    BY <2>3, <2>8, <2>9, <2>10, <2>11
<1> QED
  BY <1>6, <1>8, <1>9, <1>10, <1>11, <1>12

Cla76Formed(p) ==
    /\ p.emu \in BOOLEAN /\ Shape(p, Cla76New(p.emu), Steps) /\ Cla76Spare(p) /\ Cla76Idle(p)
    /\ ~p.emu => p.coef.colour = Unset

Cla76Inv(p, rate, c) == p.emu \in BOOLEAN /\ Cla76Sound(p, Cla76New(p.emu), rate, c)

\* A new Cla76 may be prepared.
LEMMA Cla76Begins == ASSUME NEW emu \in BOOLEAN PROVE Cla76Formed(Cla76New(emu))
BY Cla76Blank DEF Cla76Formed, Cla76Layout, Cla76Spare, Cla76Idle

\* Cla76 with its contract may be prepared again.
LEMMA Cla76StaysFormed ==
    ASSUME NEW p, NEW rate, NEW c, Cla76Inv(p, rate, c)
    PROVE  Cla76Formed(p)
<1>1. PICK emu, b : emu \in BOOLEAN /\ emu = p.emu /\ b = Cla76New(emu)
  BY DEF Cla76Inv
<1>2. Cla76Layout(b) /\ b.emu = emu
  BY <1>1, Cla76Blank
<1>3. /\ Follows(p, b, Cla76Aims(emu, c)) /\ Shape(p, b, Steps) /\ Cla76Spare(p)
      /\ p.coef.colour = RateOf(emu, rate)
  BY <1>1, <1>2 DEF Cla76Inv, Cla76Sound, Cla76Able
<1>4. Cla76Idle(p)
  BY <1>1, <1>2, <1>3 DEF Follows, Cla76Aims, Cla76Layout, Cla76Ramps, Cla76Idle
<1> QED
  BY <1>1, <1>3, <1>4 DEF Cla76Formed, RateOf

\* Cla76 prepared and given its controls has its contract.
LEMMA Cla76Made ==
    ASSUME NEW p, Cla76Formed(p), NEW rate, NEW c \in Settings("Cla76")
    PROVE  LET q == Cla76SetControls([Cla76Prepare(p, rate) EXCEPT !.set = c], c)
           IN  /\ Cla76Inv(q, rate, c) /\ q.emu = p.emu
               /\ [Cla76Prepare(p, rate) EXCEPT !.set = c].kind = "Cla76"
<1>1. PICK emu, b : emu \in BOOLEAN /\ emu = p.emu /\ b = Cla76New(emu)
  BY DEF Cla76Formed
<1>2. Cla76Layout(b) /\ b.emu = emu
  BY <1>1, Cla76Blank
<1>3. /\ Shape(p, b, Steps) /\ Cla76Spare(p) /\ Cla76Idle(p) /\ (~emu => p.coef.colour = Unset)
  BY <1>1 DEF Cla76Formed
<1>4. PICK s : s = IF emu THEN [rate |-> rate] ELSE p.coef.colour
  OBVIOUS
<1>5. s = RateOf(emu, rate)
  BY <1>3, <1>4 DEF RateOf, One
<1>6. PICK coef : coef = [p.coef EXCEPT !.colour = s]
  OBVIOUS
<1>7. PICK x : x = [p EXCEPT !.rate = rate, !.coef = coef]
  OBVIOUS
<1>8. Has(coef, DOMAIN b.coef) /\ coef.colour = s /\ coef.makeup = p.coef.makeup
  BY <1>2, <1>3, <1>6 DEF Shape, Has, Cla76Layout, Cla76Coefficients
<1>9. /\ Has(x, Fields) /\ x.mem = p.mem /\ x.ramp = p.ramp /\ x.now = p.now /\ x.flag = p.flag
      /\ x.kind = p.kind /\ x.emu = p.emu /\ x.key = p.key
      /\ x.coef = coef /\ x.rate = rate /\ x.set = p.set
  BY <1>3, <1>7 DEF Shape, Has, Fields
<1>10. Shape(x, b, Steps) /\ Cla76Spare(x)
  BY <1>3, <1>8, <1>9 DEF Shape, Cla76Spare
<1>11. PICK y : y = Cla76Reset(x)
  OBVIOUS
<1>12. /\ Shape(y, b, Steps) /\ Same(y, x, {"ramp", "now", "mem", "key"})
       /\ y.now = Unset /\ y.ramp = ResetRamps(x).ramp
       /\ y.mem = [n \in Cla76Memory |-> 0] /\ y.key = [n \in Cla76Keys |-> NoKey]
       /\ \A n \in DOMAIN b.ramp : y.ramp[n].target = x.ramp[n].target
  BY <1>2, <1>10, <1>11, Cla76Forgets
<1>13. y.rate = rate /\ y.emu = emu /\ y.coef = coef
  BY <1>1, <1>9, <1>12 DEF Same, Fields
<1>14. Cla76Nominal(y) /\ Cla76Fresh(y.key)
  BY <1>12 DEF Cla76Nominal, Cla76Fresh, Cla76Keys, Cla76Compared
<1>15. Cla76Spare(y)
  BY <1>1, <1>3, <1>8, <1>12, <1>13 DEF Cla76Spare, Cla76Memory
<1>16. Cla76Able(y, rate)
  BY <1>5, <1>8, <1>13, <1>14, <1>15 DEF Cla76Able, Cla76Spare
<1>17. Cla76Idle(y)
  BY <1>1, <1>2, <1>3, <1>9, <1>12, <1>13 DEF Cla76Layout, Cla76Ramps, Cla76Idle
<1>18. PICK q : q = Cla76SetControls([y EXCEPT !.set = c], c)
  OBVIOUS
<1>19. Cla76Sound(q, b, rate, c)
  BY <1>2, <1>12, <1>13, <1>14, <1>15, <1>16, <1>17, <1>18, Cla76Set
<1>20. q.emu = emu
  BY <1>2, <1>19 DEF Cla76Sound, Shape
<1>21. y = Cla76Prepare(p, rate)
  BY <1>1, <1>3, <1>4, <1>6, <1>7, <1>11 DEF Shape, Has, Fields, Cla76Prepare
<1>22. [y EXCEPT !.set = c].kind = "Cla76"
  BY <1>2, <1>12, GivenShape DEF Cla76Layout, Shape
<1> QED
  BY <1>1, <1>18, <1>19, <1>20, <1>21, <1>22 DEF Cla76Inv

\* New controls keep the contract of Cla76.
LEMMA Cla76Kept ==
    ASSUME NEW p, NEW rate, NEW d, Cla76Inv(p, rate, d), NEW c \in Settings("Cla76")
    PROVE  LET q == Cla76SetControls([p EXCEPT !.set = c], c)
           IN  Cla76Inv(q, rate, c) /\ Same(q, p, {"ramp", "set", "key"})
BY Cla76Blank, Cla76StaysFormed, Cla76Set DEF Cla76Inv, Cla76Sound, Cla76Formed, Shape

\* A reset keeps the contract of Cla76.
LEMMA Cla76Forgot ==
    ASSUME NEW p, NEW rate, NEW c, Cla76Inv(p, rate, c)
    PROVE  LET q == Cla76Reset(p)
           IN  /\ Cla76Inv(q, rate, c) /\ Same(q, p, {"ramp", "now", "mem", "coef", "key"})
               /\ q.now = Unset /\ q.ramp = ResetRamps(p).ramp
               /\ q.mem = [n \in Cla76Memory |-> 0] /\ q.key = [n \in Cla76Keys |-> NoKey]
<1>1. PICK emu, b : emu \in BOOLEAN /\ emu = p.emu /\ b = Cla76New(emu)
  BY DEF Cla76Inv
<1>2. Cla76Layout(b) /\ b.emu = emu
  BY <1>1, Cla76Blank
<1>3. Cla76Sound(p, b, rate, c)
  BY <1>1 DEF Cla76Inv
<1>4. Shape(p, b, Steps) /\ Cla76Spare(p) /\ p.rate = rate /\ p.set = c /\ Cla76Able(p, rate)
  BY <1>3 DEF Cla76Sound
<1>5. PICK q : q = Cla76Reset(p)
  OBVIOUS
<1>6. /\ Shape(q, b, Steps) /\ Same(q, p, {"ramp", "now", "mem", "key"})
      /\ q.now = Unset /\ q.ramp = ResetRamps(p).ramp
      /\ q.mem = [n \in Cla76Memory |-> 0] /\ q.key = [n \in Cla76Keys |-> NoKey]
      /\ \A n \in DOMAIN b.ramp : q.ramp[n].target = p.ramp[n].target
  BY <1>2, <1>4, <1>5, Cla76Forgets
<1>7. q.rate = rate /\ q.set = c /\ q.emu = emu /\ q.coef = p.coef /\ q.emu = p.emu
  BY <1>1, <1>4, <1>6 DEF Same, Fields
<1>8. Follows(q, b, Cla76Aims(b.emu, c))
  BY <1>3, <1>6 DEF Cla76Sound, Follows
<1>9. Cla76Nominal(q) /\ Cla76Fresh(q.key)
  BY <1>6 DEF Cla76Nominal, Cla76Fresh, Cla76Keys, Cla76Compared
<1>10. Cla76Spare(q)
  BY <1>4, <1>6, <1>7 DEF Cla76Spare, Cla76Memory
<1>11. Cla76Able(q, rate)
  BY <1>4, <1>7, <1>9 DEF Cla76Able
<1>12. Cla76Sound(q, b, rate, c)
  BY <1>6, <1>7, <1>8, <1>9, <1>10, <1>11 DEF Cla76Sound
<1>13. Same(q, p, {"ramp", "now", "mem", "coef", "key"})
  BY <1>6 DEF Same
<1> QED
  BY <1>1, <1>5, <1>6, <1>7, <1>12, <1>13 DEF Cla76Inv

\* The coefficients a reset keeps are all computed again.
LEMMA Cla76ResetsAlike ==
    ASSUME NEW p, NEW q, NEW rate, NEW c, Cla76Inv(p, rate, c), Cla76Inv(q, rate, c),
           p.emu = q.emu, NEW loud
    PROVE  /\ Cla76Reset(p).mem = Cla76Reset(q).mem
           /\ Cla76Process(Cla76Reset(p), loud) = Cla76Process(Cla76Reset(q), loud)
<1>1. PICK emu, b : emu \in BOOLEAN /\ emu = p.emu /\ b = Cla76New(emu)
  BY DEF Cla76Inv
<1>2. Cla76Layout(b) /\ b.emu = emu
  BY <1>1, Cla76Blank
<1>3. PICK x, y : x = Cla76Reset(p) /\ y = Cla76Reset(q)
  OBVIOUS
<1>4. /\ Cla76Inv(x, rate, c) /\ Same(x, p, {"ramp", "now", "mem", "coef", "key"})
      /\ x.now = Unset /\ x.ramp = ResetRamps(p).ramp
      /\ x.mem = [n \in Cla76Memory |-> 0] /\ x.key = [n \in Cla76Keys |-> NoKey]
  BY <1>3, Cla76Forgot
<1>5. /\ Cla76Inv(y, rate, c) /\ Same(y, q, {"ramp", "now", "mem", "coef", "key"})
      /\ y.now = Unset /\ y.ramp = ResetRamps(q).ramp
      /\ y.mem = [n \in Cla76Memory |-> 0] /\ y.key = [n \in Cla76Keys |-> NoKey]
  BY <1>3, Cla76Forgot
<1>6. x.emu = emu /\ y.emu = emu
  BY <1>1, <1>4, <1>5 DEF Same, Fields
<1>7. /\ Shape(x, b, Steps) /\ Shape(y, b, Steps) /\ Cla76Able(x, rate) /\ Cla76Able(y, rate)
      /\ x.rate = rate /\ y.rate = rate /\ x.set = c /\ y.set = c
  BY <1>1, <1>4, <1>5, <1>6 DEF Cla76Inv, Cla76Sound
<1>8. ResetRamps(p).ramp = ResetRamps(q).ramp
  BY <1>1, ResetRampsAlike DEF Cla76Inv, Cla76Sound
<1>9. Same(x, y, {"coef"})
  <2>1. x.kind = y.kind /\ x.flag = y.flag
    <3>1. Has(x.flag, {}) /\ Has(y.flag, {})
      BY <1>2, <1>7 DEF Shape, Cla76Layout
    <3> QED
      BY <1>7, <3>1, EmptyAlike DEF Shape
  <2> QED
    BY <1>4, <1>5, <1>6, <1>7, <1>8, <2>1 DEF Same, Fields
<1>10. PICK in : in = Cla76Input(x)
  OBVIOUS
<1>11. in = Cla76Input(y)
  BY <1>6, <1>9, <1>10 DEF Same, Fields, Reading, Cla76Ratio, Cla76Input
<1>12. PICK s, t : s = Cla76Tuned(x, in) /\ t = Cla76Tuned(y, in)
  OBVIOUS
<1>13. /\ Shape(s, b, Steps) /\ Same(s, x, {"now", "mem", "coef", "key"})
       /\ s.now = in /\ s.mem = [x.mem EXCEPT !.reductionDb = 0]
       /\ Cla76Agree(s.key, in) /\ s.key.nominalInput = x.key.nominalInput
       /\ s.key.nominalOutput = x.key.nominalOutput
       /\ Cla76Knows(s.coef, x.emu, in, rate)
  BY <1>2, <1>7, <1>10, <1>12, Cla76Tune
<1>14. /\ Shape(t, b, Steps) /\ Same(t, y, {"now", "mem", "coef", "key"})
       /\ t.now = in /\ t.mem = [y.mem EXCEPT !.reductionDb = 0]
       /\ Cla76Agree(t.key, in) /\ t.key.nominalInput = y.key.nominalInput
       /\ t.key.nominalOutput = y.key.nominalOutput
       /\ Cla76Knows(t.coef, y.emu, in, rate)
  BY <1>2, <1>7, <1>11, <1>12, Cla76Tune
<1>15. s.key = t.key
  <2>1. Has(s.key, Cla76Keys) /\ Has(t.key, Cla76Keys)
    BY <1>2, <1>13, <1>14 DEF Shape, Cla76Layout
  <2>2. \A n \in Cla76Keys : s.key[n] = t.key[n]
    BY <1>4, <1>5, <1>13, <1>14 DEF Cla76Agree, Cla76Compared, Cla76Keys
  <2> QED
    BY <2>1, <2>2 DEF Has
<1>16. s.coef = t.coef
  BY <1>2, <1>6, <1>13, <1>14, Cla76CoefficientsAlike DEF Shape, Cla76Layout
<1>17. Same(s, t, {"kind", "emu"})
  BY <1>9, <1>13, <1>14, <1>15, <1>16 DEF Same, Fields
<1>18. s = t
  BY <1>13, <1>14, <1>17, Alike
<1>19. Cla76Process(x, loud) = AdvanceRamps(Cla76Heard(s, in, loud))
  BY <1>10, <1>12, Cla76Sample
<1>20. Cla76Process(y, loud) = AdvanceRamps(Cla76Heard(t, in, loud))
  BY <1>11, <1>12, Cla76Sample
<1> QED
  BY <1>3, <1>4, <1>5, <1>18, <1>19, <1>20

\* A sample keeps the contract of Cla76, and its coefficients are those of what it read.
LEMMA Cla76Ran ==
    ASSUME NEW p, NEW rate, NEW c, Cla76Inv(p, rate, c), NEW loud
    PROVE  LET q == Cla76Process(p, loud)
           IN  /\ Cla76Inv(q, rate, c) /\ Same(q, p, {"ramp", "now", "mem", "coef", "key"})
               /\ q.coef = Cla76Wanted(q, q.now)
<1>1. PICK emu, b : emu \in BOOLEAN /\ emu = p.emu /\ b = Cla76New(emu)
  BY DEF Cla76Inv
<1>2. Cla76Layout(b) /\ b.emu = emu
  BY <1>1, Cla76Blank
<1>3. /\ Cla76Sound(p, b, rate, c) /\ Shape(p, b, Steps) /\ p.rate = rate /\ p.set = c
      /\ Steps \subseteq Int /\ Cla76Able(p, rate) /\ Cla76Nominal(p) /\ Cla76Spare(p)
  BY <1>1, StepsAreNumbers DEF Cla76Inv, Cla76Sound
<1>4. PICK in : in = Cla76Input(p)
  OBVIOUS
<1>5. PICK t : t = Cla76Tuned(p, in)
  OBVIOUS
<1>6. /\ Shape(t, b, Steps) /\ Same(t, p, {"now", "mem", "coef", "key"})
      /\ t.now = in /\ t.mem = [p.mem EXCEPT !.reductionDb = 0]
      /\ Cla76Agree(t.key, in) /\ t.key.nominalInput = p.key.nominalInput
      /\ t.key.nominalOutput = p.key.nominalOutput
      /\ Cla76Knows(t.coef, p.emu, in, rate)
  BY <1>2, <1>3, <1>4, <1>5, Cla76Tune
<1>7. PICK h : h = Cla76Heard(t, in, loud)
  OBVIOUS
<1>8. Hears(h, t, b, Steps, in) /\ (~t.emu => h.mem.colourPole = t.mem.colourPole)
  <2>1. Shape(t, b, Steps) /\ t.now = in
    BY <1>6
  <2> HIDE <1>6
  <2> QED
    BY <1>2, <2>1, <1>7, Cla76Hearing
<1>9. PICK q : q = AdvanceRamps(h)
  OBVIOUS
<1>10. /\ Shape(q, b, Steps) /\ Same(q, h, {"ramp"})
       /\ \A n \in DOMAIN b.ramp : q.ramp[n].target = h.ramp[n].target
  BY <1>3, <1>8, <1>9, AdvancedShape, ZenonT(60) DEF Hears
<1>11. /\ q.coef = t.coef /\ q.key = t.key /\ q.now = in /\ q.mem = h.mem /\ q.emu = emu
       /\ h.ramp = p.ramp /\ q.rate = rate /\ q.set = c /\ t.emu = emu
       /\ Same(q, p, {"ramp", "now", "mem", "coef", "key"})
  BY <1>1, <1>3, <1>6, <1>8, <1>10 DEF Hears, Same, Fields
<1>12. Follows(q, b, Cla76Aims(b.emu, c))
  BY <1>3, <1>10, <1>11 DEF Cla76Sound, Follows
<1>13. Cla76Nominal(q)
  BY <1>1, <1>2, <1>3, <1>6, <1>10, <1>11 DEF Cla76Layout, Cla76Ramps, Cla76Nominal
<1>14. Cla76Knows(q.coef, emu, in, rate)
  BY <1>1, <1>6, <1>11
<1>15. Cla76Knows(q.coef, emu, q.key, rate)
  BY <1>6, <1>11, <1>14, Cla76KnowsAlike DEF Cla76Agree
<1>16. Cla76Spare(q)
  <2>1. emu => q.coef.makeup = Unset
    BY <1>14 DEF Cla76Knows, Cla76MakeupOf
  <2>2. (~emu) => q.mem.colourPole = 0
    <3>1. t.mem.colourPole = p.mem.colourPole
      BY <1>2, <1>3, <1>6 DEF Shape, Has, Cla76Layout, Cla76Memory
    <3> QED
      BY <1>1, <1>3, <1>8, <1>11, <3>1 DEF Cla76Spare
  <2> QED
    BY <1>11, <2>1, <2>2 DEF Cla76Spare
<1>17. Cla76Able(q, rate)
  BY <1>11, <1>14, <1>15, <1>16 DEF Cla76Able, Cla76Knows, Cla76Spare
<1>18. Cla76Sound(q, b, rate, c)
  BY <1>10, <1>11, <1>12, <1>13, <1>16, <1>17 DEF Cla76Sound
<1>19. q.coef = Cla76Wanted(q, q.now)
  <2>1. PICK f : f = q.coef
    OBVIOUS
  <2>2. Has(f, Cla76Coefficients) /\ Cla76Knows(f, q.emu, in, rate)
    BY <1>2, <1>10, <1>11, <1>14, <2>1 DEF Shape, Cla76Layout
  <2>3. in.rate = rate
    BY <1>2, <1>3, <1>4, Cla76Reads
  <2>4. f = Cla76Wanted(q, in)
    BY <2>2, <2>3, Cla76IsWanted
  <2> QED
    BY <1>11, <2>1, <2>4
<1>20. q = Cla76Process(p, loud)
  BY <1>4, <1>5, <1>7, <1>9, Cla76Sample
<1> QED
  BY <1>1, <1>11, <1>18, <1>19, <1>20 DEF Cla76Inv

-----------------------------------------------------------------------------
(* The cascade.                                                              *)

CascadeFields == {"rate", "position", "filter", "enabled", "initialized", "current", "target"}
PathFields == {"stages", "coef", "history"}

\* The path is compiled from the filter, whatever it has heard.
TunedPath(path, filter, enabled, rate) ==
    /\ Has(path, PathFields)
    /\ path.coef = Compile(filter, enabled, rate).coef
    /\ path.stages = Compile(filter, enabled, rate).stages

CascadeShape(c) ==
    /\ Has(c, CascadeFields) /\ c.position \in 0..TransitionLength /\ c.initialized \in BOOLEAN
    /\ Has(c.current, PathFields) /\ Has(c.target, PathFields)

\* The target is compiled from the filter, and the current path unless it is
\* fading out.
CascadeRated(c, rate) ==
    /\ CascadeShape(c) /\ c.rate = rate
    /\ c.initialized => /\ TunedPath(c.target, c.filter, c.enabled, rate)
                        /\ ~Transitioning(c) => TunedPath(c.current, c.filter, c.enabled, rate)

CascadeSet(c, rate, f) ==
    CascadeRated(c, rate) /\ c.initialized /\ c.filter = f.filter /\ c.enabled = f.enabled

\* A compiled path is tuned to the filter and has heard nothing.
LEMMA CompileIs ==
    ASSUME NEW filter, NEW enabled, NEW rate
    PROVE  LET path == Compile(filter, enabled, rate)
           IN  TunedPath(path, filter, enabled, rate) /\ path.history = 0
BY DEF Compile, EmptyPath, Has, PathFields, TunedPath

\* A cascade that has a filter is compiled for the rate it is prepared for.
LEMMA CascadePrepared ==
    ASSUME NEW c, CascadeShape(c), NEW rate
    PROVE  CascadeRated(CascadePrepare(c, rate), rate)
<1>1. PICK path : path = Compile(c.filter, c.enabled, rate)
  OBVIOUS
<1>2. TunedPath(path, c.filter, c.enabled, rate) /\ TransitionLength \in 0..TransitionLength
  BY <1>1, CompileIs, LengthAssumption
<1>3. PICK d : d = [c EXCEPT !.rate = rate]
  OBVIOUS
<1>4. (~c.initialized) => CascadeRated(d, rate)
  BY <1>3 DEF CascadeShape, Has, CascadeFields, CascadeRated
<1>5. PICK e : e = [c EXCEPT !.rate = rate, !.current = path, !.target = path,
                             !.position = TransitionLength]
  OBVIOUS
<1>6. CascadeRated(e, rate)
  BY <1>2, <1>5 DEF CascadeShape, Has, CascadeFields, CascadeRated, TunedPath
<1>7. CascadePrepare(c, rate) = IF c.initialized THEN e ELSE d
  BY <1>1, <1>3, <1>5 DEF CascadePrepare
<1> QED
  BY <1>4, <1>6, <1>7

\* A change starts the crossfade from the path that is heard.
LEMMA CascadeChanges ==
    ASSUME NEW c, NEW rate, CascadeRated(c, rate), NEW f
    PROVE  LET d == CascadeSetParameters(c, f.filter, f.enabled)
           IN  /\ CascadeSet(d, rate, f)
               /\ (c.initialized /\ ~Transitioning(c) /\
                   ~(c.filter = f.filter /\ c.enabled = f.enabled)) =>
                     d.current = c.current /\ d.position = 0
<1>1. PICK filter, enabled : filter = f.filter /\ enabled = f.enabled
  OBVIOUS
<1>2. PICK next : next = Compile(filter, enabled, rate)
  OBVIOUS
<1>3. TunedPath(next, filter, enabled, rate)
  BY <1>2, CompileIs
<1>4. /\ Has(c, CascadeFields) /\ c.position \in 0..TransitionLength /\ c.initialized \in BOOLEAN
      /\ Has(c.current, PathFields) /\ Has(c.target, PathFields) /\ c.rate = rate
      /\ TransitionLength \in Nat \ {0}
  BY LengthAssumption DEF CascadeRated, CascadeShape
<1>5. PICK same : same <=> (c.initialized /\ c.enabled = enabled /\ c.filter = filter)
  OBVIOUS
<1>6. PICK cur : cur = IF c.position < TransitionLength THEN c.target ELSE c.current
  OBVIOUS
<1>7. PICK x : x = [c EXCEPT !.filter = filter, !.enabled = enabled, !.target = next,
                             !.current = next, !.initialized = TRUE,
                             !.position = TransitionLength]
  OBVIOUS
<1>8. PICK y : y = [c EXCEPT !.filter = filter, !.enabled = enabled, !.target = next,
                             !.current = cur, !.position = 0]
  OBVIOUS
<1>9. /\ Has(x, CascadeFields) /\ x.filter = filter /\ x.enabled = enabled /\ x.target = next
      /\ x.current = next /\ x.initialized /\ x.position = TransitionLength /\ x.rate = rate
  BY <1>4, <1>7 DEF Has, CascadeFields
<1>10. /\ Has(y, CascadeFields) /\ y.filter = filter /\ y.enabled = enabled /\ y.target = next
       /\ y.current = cur /\ y.initialized = c.initialized /\ y.position = 0 /\ y.rate = rate
  BY <1>4, <1>8 DEF Has, CascadeFields
<1>11. CascadeSet(x, rate, f)
  BY <1>1, <1>3, <1>4, <1>9 DEF CascadeSet, CascadeRated, CascadeShape, TunedPath
<1>12. c.initialized => CascadeSet(y, rate, f)
  BY <1>1, <1>3, <1>4, <1>6, <1>10 DEF Transitioning, TunedPath, CascadeSet, CascadeRated,
     CascadeShape
<1>13. same => CascadeSet(c, rate, f)
  BY <1>1, <1>5 DEF CascadeSet
<1>14. PICK d : d = CascadeSetParameters(c, filter, enabled)
  OBVIOUS
<1>15. d = IF same THEN c ELSE IF ~c.initialized THEN x ELSE y
  BY <1>2, <1>4, <1>5, <1>6, <1>7, <1>8, <1>14 DEF CascadeSetParameters, Has, CascadeFields
<1>16. CascadeSet(d, rate, f)
  BY <1>11, <1>12, <1>13, <1>15
<1>17. (c.initialized /\ ~Transitioning(c) /\ ~(c.filter = f.filter /\ c.enabled = f.enabled)) =>
         d.current = c.current /\ d.position = 0
  BY <1>1, <1>5, <1>6, <1>10, <1>15 DEF Transitioning
<1> QED
  BY <1>1, <1>14, <1>16, <1>17

\* A reset ends a crossfade and leaves both paths silent.
LEMMA CascadeForgets ==
    ASSUME NEW c, NEW rate, NEW f, CascadeSet(c, rate, f)
    PROVE  LET d == CascadeReset(c)
           IN  /\ CascadeSet(d, rate, f) /\ d.position = TransitionLength
               /\ d.current = Compile(f.filter, f.enabled, rate)
               /\ d.target = Compile(f.filter, f.enabled, rate)
<1>1. PICK next : next = Compile(f.filter, f.enabled, rate)
  OBVIOUS
<1>2. TunedPath(next, f.filter, f.enabled, rate) /\ next.history = 0
  BY <1>1, CompileIs
<1>3. /\ Has(c, CascadeFields) /\ c.initialized \in BOOLEAN /\ c.initialized /\ c.rate = rate
      /\ c.filter = f.filter /\ c.enabled = f.enabled
      /\ TunedPath(c.target, f.filter, f.enabled, rate)
  BY DEF CascadeSet, CascadeRated, CascadeShape
<1>4. PICK path, t : path = [t EXCEPT !.history = 0] /\ t = c.target
  OBVIOUS
<1>5. path = next
  BY <1>1, <1>2, <1>3, <1>4 DEF TunedPath, Has, PathFields
<1>6. PICK d : d = [c EXCEPT !.current = path, !.target = path, !.position = TransitionLength]
  OBVIOUS
<1>7. /\ Has(d, CascadeFields) /\ d.current = next /\ d.target = next
      /\ d.position = TransitionLength /\ d.rate = rate /\ d.filter = f.filter
      /\ d.enabled = f.enabled /\ d.initialized /\ d.initialized \in BOOLEAN
  BY <1>3, <1>5, <1>6 DEF Has, CascadeFields
<1>8. CascadeSet(d, rate, f)
  BY <1>2, <1>7, LengthAssumption DEF CascadeSet, CascadeRated, CascadeShape, TunedPath
<1>9. d = CascadeReset(c)
  BY <1>4, <1>6, Zenon DEF CascadeReset
<1> QED
  BY <1>1, <1>7, <1>8, <1>9

\* A path that heard a sample keeps its coefficients.
LEMMA HeardPath ==
    ASSUME NEW path, Has(path, PathFields), NEW loud
    PROVE  LET h == Heard(path, loud)
           IN  Has(h, PathFields) /\ h.coef = path.coef /\ h.stages = path.stages
BY DEF Has, PathFields, Heard

\* A sample fades by one step, and hands over with the last one.
CascadeStep(c, d) ==
    \/ d.position = c.position /\ d.current.coef = c.current.coef /\ d.target.coef = c.target.coef
    \/ /\ Transitioning(c) /\ d.position = c.position + 1 /\ d.target.coef = c.target.coef
       /\ d.current.coef = IF d.position = TransitionLength THEN c.target.coef ELSE c.current.coef

\* A sample advances a crossfade by a step, and ends it at the last.
LEMMA CascadeRuns ==
    ASSUME NEW c, NEW rate, NEW f, CascadeSet(c, rate, f), NEW loud
    PROVE  LET d == CascadeProcess(c, loud)
           IN  CascadeSet(d, rate, f) /\ CascadeStep(c, d)
<1>1. PICK cur, tgt : cur = Heard(c.current, loud) /\ tgt = Heard(c.target, loud)
  OBVIOUS
<1>2. /\ Has(c, CascadeFields) /\ c.position \in 0..TransitionLength /\ c.initialized \in BOOLEAN
      /\ c.initialized /\ c.rate = rate /\ c.filter = f.filter /\ c.enabled = f.enabled
      /\ Has(c.current, PathFields) /\ Has(c.target, PathFields)
      /\ TunedPath(c.target, f.filter, f.enabled, rate)
      /\ ~Transitioning(c) => TunedPath(c.current, f.filter, f.enabled, rate)
      /\ TransitionLength \in Nat \ {0}
  BY LengthAssumption DEF CascadeSet, CascadeRated, CascadeShape
<1>3. /\ Has(cur, PathFields) /\ cur.coef = c.current.coef /\ cur.stages = c.current.stages
      /\ Has(tgt, PathFields) /\ tgt.coef = c.target.coef /\ tgt.stages = c.target.stages
  BY <1>1, <1>2, HeardPath
<1>4. /\ TunedPath(tgt, f.filter, f.enabled, rate)
      /\ ~Transitioning(c) => TunedPath(cur, f.filter, f.enabled, rate)
  BY <1>2, <1>3 DEF TunedPath
<1>5. PICK last : last <=> c.position + 1 = TransitionLength
  OBVIOUS
<1>6. PICK new, pos : new = (IF last THEN tgt ELSE cur) /\ pos = c.position + 1
  OBVIOUS
<1>7. PICK d : d = CascadeProcess(c, loud)
  OBVIOUS
<1>8. CASE ~RequiresProcessing(c)
  <2>1. d = c
    BY <1>7, <1>8 DEF CascadeProcess
  <2> QED
    BY <1>7, <2>1 DEF CascadeStep
<1>9. CASE RequiresProcessing(c) /\ ~Transitioning(c)
  <2>1. d = [c EXCEPT !.current = cur]
    BY <1>1, <1>7, <1>9 DEF CascadeProcess
  <2>2. /\ Has(d, CascadeFields) /\ d.current = cur /\ d.target = c.target
        /\ d.position = c.position /\ d.rate = rate /\ d.filter = f.filter
        /\ d.enabled = f.enabled /\ d.initialized /\ d.initialized \in BOOLEAN
    BY <1>2, <2>1 DEF Has, CascadeFields
  <2>4. CascadeSet(d, rate, f)
    BY <1>2, <1>3, <1>4, <1>9, <2>2 DEF CascadeSet, CascadeRated, CascadeShape
  <2> QED
    BY <1>3, <1>7, <2>2, <2>4 DEF CascadeStep
<1>10. CASE RequiresProcessing(c) /\ Transitioning(c)
  <2>1. d = [c EXCEPT !.current = new, !.target = tgt, !.position = pos]
    BY <1>1, <1>5, <1>6, <1>7, <1>10 DEF CascadeProcess
  <2>2. /\ Has(d, CascadeFields) /\ d.current = new /\ d.target = tgt
        /\ d.position = pos /\ d.rate = rate /\ d.filter = f.filter
        /\ d.enabled = f.enabled /\ d.initialized /\ d.initialized \in BOOLEAN
    BY <1>2, <2>1 DEF Has, CascadeFields
  <2>3. pos \in 0..TransitionLength /\ (pos = TransitionLength <=> last) /\ pos = c.position + 1
    BY <1>2, <1>5, <1>6, <1>10 DEF Transitioning
  <2>4. TunedPath(d.target, d.filter, d.enabled, rate)
    BY <1>4, <2>2
  <2>5. (~Transitioning(d)) => TunedPath(d.current, d.filter, d.enabled, rate)
    <3> HAVE ~Transitioning(d)
    <3>1. last
      BY <1>2, <2>2, <2>3 DEF Transitioning
    <3> QED
      BY <1>4, <1>6, <2>2, <3>1
  <2>6. Has(new, PathFields)
    BY <1>3, <1>6
  <2>7. CascadeSet(d, rate, f)
    BY <1>3, <2>2, <2>3, <2>4, <2>5, <2>6 DEF CascadeSet, CascadeRated, CascadeShape
  <2>8. CascadeStep(c, d)
    BY <1>3, <1>6, <1>10, <2>2, <2>3 DEF CascadeStep
  <2> QED
    BY <1>7, <2>7, <2>8
<1> QED
  BY <1>8, <1>9, <1>10

\* The share of a path in the next sample.
ShareOf(f, path) == IF path \in DOMAIN f THEN f[path] ELSE 0

\* The shares of a cascade: of the target alone, or of the two paths of a crossfade.
LEMMA ShareIs ==
    ASSUME NEW c, NEW path
    PROVE  ShareOf(Shares(c), path) =
             IF c.current.coef = c.target.coef \/ ~Transitioning(c)
             THEN IF path = c.current.coef THEN TransitionLength ELSE 0
             ELSE IF path = c.target.coef THEN c.position
             ELSE IF path = c.current.coef THEN TransitionLength - c.position ELSE 0
BY DEF ShareOf, Shares

\* No path's share moves by more than one step.
Gradual(c, d) == \A path : ShareOf(Shares(d), path) - ShareOf(Shares(c), path) \in -1..1

\* A sample moves no share by more than a step.
LEMMA StepsGradual ==
    ASSUME NEW c, NEW d, CascadeShape(c), CascadeShape(d), CascadeStep(c, d)
    PROVE  Gradual(c, d)
<1>1. /\ c.position \in 0..TransitionLength /\ d.position \in 0..TransitionLength
      /\ TransitionLength \in Nat \ {0}
  BY LengthAssumption DEF CascadeShape
<1>2. SUFFICES ASSUME NEW path PROVE ShareOf(Shares(d), path) - ShareOf(Shares(c), path) \in -1..1
  BY DEF Gradual
<1>3. PICK n, s, t : n = c.position /\ s = ShareOf(Shares(c), path) /\ t = ShareOf(Shares(d), path)
  OBVIOUS
<1>4. PICK a, b, e, g : /\ a = c.current.coef /\ b = c.target.coef
                        /\ e = d.current.coef /\ g = d.target.coef
  OBVIOUS
<1>5. s = IF a = b \/ n >= TransitionLength
          THEN IF path = a THEN TransitionLength ELSE 0
          ELSE IF path = b THEN n ELSE IF path = a THEN TransitionLength - n ELSE 0
  BY <1>1, <1>3, <1>4, ShareIs DEF Transitioning
<1>6. PICK m : m = d.position
  OBVIOUS
<1>7. t = IF e = g \/ m >= TransitionLength
          THEN IF path = e THEN TransitionLength ELSE 0
          ELSE IF path = g THEN m ELSE IF path = e THEN TransitionLength - m ELSE 0
  BY <1>1, <1>3, <1>4, <1>6, ShareIs DEF Transitioning
<1>8. n \in 0..TransitionLength /\ m \in 0..TransitionLength
  BY <1>1, <1>3, <1>6
<1>9. CASE m = n /\ e = a /\ g = b
  <2>1. s = t
    BY <1>5, <1>7, <1>9
  <2>2. s \in Int
    BY <1>1, <1>5, <1>8
  <2> QED
    BY <1>3, <2>1, <2>2
<1>10. CASE n < TransitionLength /\ m = n + 1 /\ g = b /\ e = IF m = TransitionLength THEN b ELSE a
  <2>1. t - s \in -1..1
    BY <1>1, <1>5, <1>7, <1>8, <1>10
  <2> QED
    BY <1>3, <2>1
<1> QED
  BY <1>3, <1>4, <1>6, <1>9, <1>10 DEF CascadeStep, Transitioning

\* A change outside a crossfade moves no share by more than a step.
LEMMA ChangesGradual ==
    ASSUME NEW c, NEW d, CascadeShape(c), CascadeShape(d), ~Transitioning(c),
           d.current = c.current, d.position = 0
    PROVE  Gradual(c, d)
BY LengthAssumption, ShareIs DEF CascadeShape, Gradual, Transitioning

CascadeKinds == Fields \cup {"cascade"}
CascadeParts == {"kind", "emu", "ramp", "flag", "key", "coef", "mem"}
CascadeNew == Blank("Cascade", FALSE, {}, {}, {}, {}, {}) ++ [cascade |-> Cascade]

\* A processor that is a cascade has no more than that.
CascadeAlone(p) ==
    Has(p, CascadeKinds) /\ \A n \in CascadeParts : p[n] = CascadeNew[n]

CascadeFormed(p) == CascadeAlone(p) /\ CascadeShape(p.cascade)

CascadeInv(p, rate, c) ==
    /\ CascadeAlone(p) /\ p.rate = rate /\ p.set = c /\ CascadeSet(p.cascade, rate, c)

\* A new cascade processor has the fields every processor has, and a cascade.
LEMMA CascadeBlank ==
    /\ Has(CascadeNew, CascadeKinds) /\ CascadeNew.kind = "Cascade" /\ CascadeNew.emu = FALSE
    /\ DOMAIN CascadeNew.ramp = {} /\ CascadeNew.cascade = Cascade
<1>1. PICK b : b = [kind |-> "Cascade", emu |-> FALSE, rate |-> 0, set |-> Unset,
                    ramp |-> [n \in {} |-> Ramp(0)], flag |-> [n \in {} |-> 0],
                    key |-> [n \in {} |-> NoKey], coef |-> [n \in {} |-> Unset],
                    mem |-> [n \in {} |-> 0], now |-> Unset]
  OBVIOUS
<1>2. b = Blank("Cascade", FALSE, {}, {}, {}, {}, {})
  BY <1>1, Zenon DEF Blank
<1>3. PICK d : d = [cascade |-> Cascade]
  OBVIOUS
<1>4. PICK q : q = b ++ d
  OBVIOUS
<1>5. DOMAIN b = Fields /\ DOMAIN d = {"cascade"} /\ "cascade" \notin Fields
  BY <1>1, <1>3 DEF Fields
<1>6. DOMAIN q = CascadeKinds /\ Has(q, CascadeKinds)
  BY <1>4, <1>5 DEF ++, CascadeKinds, Has
<1>7. q.kind = b.kind /\ q.emu = b.emu /\ q.ramp = b.ramp /\ q.cascade = d.cascade
  BY <1>4, <1>5 DEF ++, Fields
<1>8. b.kind = "Cascade" /\ b.emu = FALSE /\ DOMAIN b.ramp = {} /\ d.cascade = Cascade
  BY <1>1, <1>3
<1>9. q = CascadeNew
  BY <1>2, <1>3, <1>4, Zenon DEF CascadeNew
<1> QED
  BY <1>6, <1>7, <1>8, <1>9

\* A new FilterCascade may be prepared.
LEMMA CascadeBegins == CascadeFormed(CascadeNew)
<1>1. PICK c : c = Cascade
  OBVIOUS
<1>2. PICK e : e = EmptyPath
  OBVIOUS
<1>3. Has(e, PathFields)
  BY <1>2 DEF EmptyPath, Has, PathFields
<1>4. /\ Has(c, CascadeFields) /\ c.position = 0 /\ c.initialized \in BOOLEAN /\ ~c.initialized
      /\ c.current = e /\ c.target = e
  BY <1>1, <1>2 DEF Cascade, CascadeFields, Has
<1>5. CascadeShape(c)
  BY <1>3, <1>4, LengthAssumption DEF CascadeShape
<1> QED
  BY <1>1, <1>5, CascadeBlank DEF CascadeFormed, CascadeAlone

\* FilterCascade with its contract may be prepared again.
LEMMA CascadeStaysFormed ==
    ASSUME NEW p, NEW rate, NEW c, CascadeInv(p, rate, c)
    PROVE  CascadeFormed(p)
  BY DEF CascadeInv, CascadeFormed, CascadeSet, CascadeRated

\* The same processor with another cascade.
LEMMA CascadeGiven ==
    ASSUME NEW p, CascadeAlone(p), NEW d
    PROVE  LET q == [p EXCEPT !.cascade = d]
           IN  /\ CascadeAlone(q) /\ q.cascade = d /\ q.rate = p.rate /\ q.set = p.set
               /\ q.now = p.now
BY DEF CascadeAlone, Has, CascadeKinds, Fields, CascadeParts

\* The same processor with another rate.
LEMMA CascadeWithRate ==
    ASSUME NEW p, CascadeAlone(p), NEW v
    PROVE  LET q == [p EXCEPT !.rate = v]
           IN  /\ CascadeAlone(q) /\ q.rate = v /\ q.cascade = p.cascade
               /\ q.set = p.set /\ q.now = p.now
BY DEF CascadeAlone, Has, CascadeKinds, Fields, CascadeParts

\* The same processor with other controls.
LEMMA CascadeWithSet ==
    ASSUME NEW p, CascadeAlone(p), NEW v
    PROVE  LET q == [p EXCEPT !.set = v]
           IN  /\ CascadeAlone(q) /\ q.set = v /\ q.cascade = p.cascade
               /\ q.rate = p.rate /\ q.now = p.now
BY DEF CascadeAlone, Has, CascadeKinds, Fields, CascadeParts

\* The same processor with another reading.
LEMMA CascadeWithNow ==
    ASSUME NEW p, CascadeAlone(p), NEW v
    PROVE  LET q == [p EXCEPT !.now = v]
           IN  /\ CascadeAlone(q) /\ q.now = v /\ q.cascade = p.cascade
               /\ q.rate = p.rate /\ q.set = p.set
BY DEF CascadeAlone, Has, CascadeKinds, Fields, CascadeParts

\* FilterCascade prepared and given its controls has its contract.
LEMMA CascadeMade ==
    ASSUME NEW p, CascadeFormed(p), NEW rate, NEW c
    PROVE  LET x == [p EXCEPT !.rate = rate, !.cascade = CascadePrepare(@, rate)]
               y == [x EXCEPT !.set = c]
               q == [y EXCEPT !.cascade = CascadeSetParameters(@, c.filter, c.enabled)]
           IN  CascadeInv(q, rate, c)
<1>1. PICK d : d = CascadePrepare(p.cascade, rate)
  OBVIOUS
<1>2. CascadeRated(d, rate)
  BY <1>1, CascadePrepared DEF CascadeFormed
<1>3. PICK w : w = [p EXCEPT !.rate = rate]
  OBVIOUS
<1>4. CascadeAlone(w) /\ w.rate = rate /\ w.cascade = p.cascade
  BY <1>3, CascadeWithRate DEF CascadeFormed
<1>5. PICK x : x = [w EXCEPT !.cascade = d]
  OBVIOUS
<1>6. CascadeAlone(x) /\ x.cascade = d /\ x.rate = rate
  BY <1>4, <1>5, CascadeGiven
<1>7. x = [p EXCEPT !.rate = rate, !.cascade = CascadePrepare(@, rate)]
  BY <1>1, <1>3, <1>4, <1>5
<1>8. PICK y : y = [x EXCEPT !.set = c]
  OBVIOUS
<1>9. CascadeAlone(y) /\ y.rate = rate /\ y.set = c /\ y.cascade = d
  BY <1>6, <1>8, CascadeWithSet
<1>10. PICK e : e = CascadeSetParameters(d, c.filter, c.enabled)
  OBVIOUS
<1>11. CascadeSet(e, rate, c)
  BY <1>2, <1>10, CascadeChanges
<1>12. PICK q : q = [y EXCEPT !.cascade = e]
  OBVIOUS
<1>13. CascadeAlone(q) /\ q.cascade = e /\ q.rate = rate /\ q.set = c
  BY <1>9, <1>12, CascadeGiven
<1>14. q = [y EXCEPT !.cascade = CascadeSetParameters(@, c.filter, c.enabled)]
  BY <1>9, <1>10, <1>12
<1>15. CascadeInv(q, rate, c)
  BY <1>11, <1>13 DEF CascadeInv
<1> QED
  BY <1>7, <1>8, <1>14, <1>15

\* New controls keep the contract of FilterCascade.
LEMMA CascadeKept ==
    ASSUME NEW p, NEW rate, NEW d, CascadeInv(p, rate, d), NEW c
    PROVE  LET x == [p EXCEPT !.set = c]
               q == [x EXCEPT !.cascade = CascadeSetParameters(@, c.filter, c.enabled)]
           IN  /\ CascadeInv(q, rate, c) /\ q.now = p.now
               /\ (~Transitioning(p.cascade) /\ ~(d.filter = c.filter /\ d.enabled = c.enabled)) =>
                     Gradual(p.cascade, q.cascade)
<1>1. PICK f : f = p.cascade
  OBVIOUS
<1>2. /\ CascadeSet(f, rate, d) /\ CascadeRated(f, rate) /\ CascadeShape(f) /\ f.initialized
      /\ f.filter = d.filter /\ f.enabled = d.enabled
  BY <1>1 DEF CascadeInv, CascadeSet, CascadeRated
<1>3. PICK x : x = [p EXCEPT !.set = c]
  OBVIOUS
<1>4. CascadeAlone(x) /\ x.rate = rate /\ x.set = c /\ x.cascade = f /\ x.now = p.now
  BY <1>1, <1>3, CascadeWithSet DEF CascadeInv
<1>5. PICK e : e = CascadeSetParameters(f, c.filter, c.enabled)
  OBVIOUS
<1>6. /\ CascadeSet(e, rate, c)
      /\ (f.initialized /\ ~Transitioning(f) /\ ~(f.filter = c.filter /\ f.enabled = c.enabled)) =>
            e.current = f.current /\ e.position = 0
  BY <1>2, <1>5, CascadeChanges
<1>7. PICK q : q = [x EXCEPT !.cascade = e]
  OBVIOUS
<1>8. CascadeAlone(q) /\ q.cascade = e /\ q.rate = rate /\ q.set = c /\ q.now = p.now
  BY <1>4, <1>7, CascadeGiven
<1>9. CascadeInv(q, rate, c)
  BY <1>6, <1>8 DEF CascadeInv
<1>10. (~Transitioning(f) /\ ~(d.filter = c.filter /\ d.enabled = c.enabled)) => Gradual(f, e)
  BY <1>2, <1>6, ChangesGradual DEF CascadeSet, CascadeRated
<1>11. q = [x EXCEPT !.cascade = CascadeSetParameters(@, c.filter, c.enabled)]
  BY <1>4, <1>5, <1>7
<1> QED
  BY <1>1, <1>3, <1>8, <1>9, <1>10, <1>11

\* A reset keeps the contract of FilterCascade.
LEMMA CascadeForgot ==
    ASSUME NEW p, NEW rate, NEW c, CascadeInv(p, rate, c)
    PROVE  LET q == [p EXCEPT !.now = Unset, !.cascade = CascadeReset(@)]
           IN  CascadeInv(q, rate, c) /\ q.now = Unset /\ q.cascade = CascadeReset(p.cascade)
<1>1. PICK w : w = [p EXCEPT !.now = Unset]
  OBVIOUS
<1>2. CascadeAlone(w) /\ w.rate = rate /\ w.set = c /\ w.cascade = p.cascade /\ w.now = Unset
  BY <1>1, CascadeWithNow DEF CascadeInv
<1>3. PICK e : e = CascadeReset(p.cascade)
  OBVIOUS
<1>4. CascadeSet(e, rate, c)
  BY <1>3, CascadeForgets DEF CascadeInv
<1>5. PICK q : q = [w EXCEPT !.cascade = e]
  OBVIOUS
<1>6. CascadeAlone(q) /\ q.cascade = e /\ q.rate = rate /\ q.set = c /\ q.now = Unset
  BY <1>2, <1>5, CascadeGiven
<1>7. q = [p EXCEPT !.now = Unset, !.cascade = CascadeReset(@)]
  BY <1>1, <1>2, <1>3, <1>5
<1> QED
  BY <1>3, <1>4, <1>6, <1>7 DEF CascadeInv

\* Two of FilterCascade that were given the same controls are one once reset.
LEMMA CascadeResetsAlike ==
    ASSUME NEW p, NEW q, NEW rate, NEW c, CascadeInv(p, rate, c), CascadeInv(q, rate, c)
    PROVE  [p EXCEPT !.now = Unset, !.cascade = CascadeReset(@)] =
             [q EXCEPT !.now = Unset, !.cascade = CascadeReset(@)]
<1>1. PICK x, y : /\ x = [p EXCEPT !.now = Unset, !.cascade = CascadeReset(@)]
                  /\ y = [q EXCEPT !.now = Unset, !.cascade = CascadeReset(@)]
  OBVIOUS
<1>2. /\ CascadeInv(x, rate, c) /\ x.now = Unset /\ x.cascade = CascadeReset(p.cascade)
  BY <1>1, CascadeForgot
<1>3. /\ CascadeInv(y, rate, c) /\ y.now = Unset /\ y.cascade = CascadeReset(q.cascade)
  BY <1>1, CascadeForgot
<1>4. PICK next : next = Compile(c.filter, c.enabled, rate)
  OBVIOUS
<1>5. PICK d : d = x.cascade
  OBVIOUS
<1>6. CascadeSet(d, rate, c) /\ d.position = TransitionLength /\ d.current = next /\ d.target = next
  BY <1>2, <1>4, <1>5, CascadeForgets DEF CascadeInv
<1>7. PICK e : e = y.cascade
  OBVIOUS
<1>8. CascadeSet(e, rate, c) /\ e.position = TransitionLength /\ e.current = next /\ e.target = next
  BY <1>3, <1>4, <1>7, CascadeForgets DEF CascadeInv
<1>9. d = e
  <2>1. /\ Has(d, CascadeFields) /\ Has(e, CascadeFields) /\ d.rate = e.rate
        /\ d.filter = e.filter /\ d.enabled = e.enabled /\ d.initialized = TRUE
        /\ e.initialized = TRUE
    BY <1>6, <1>8 DEF CascadeSet, CascadeRated, CascadeShape
  <2> QED
    BY <1>6, <1>8, <2>1 DEF Has, CascadeFields
<1>10. /\ Has(x, CascadeKinds) /\ Has(y, CascadeKinds) /\ x.now = y.now /\ x.cascade = y.cascade
       /\ x.rate = y.rate /\ x.set = y.set /\ \A n \in CascadeParts : x[n] = y[n]
  BY <1>2, <1>3, <1>5, <1>7, <1>9 DEF CascadeInv, CascadeAlone
<1>11. \A n \in CascadeKinds : x[n] = y[n]
  BY <1>10 DEF CascadeKinds, CascadeParts, Fields
<1> QED
  BY <1>1, <1>10, <1>11 DEF Has

\* A sample keeps the contract of FilterCascade, and its coefficients are those of what it read.
LEMMA CascadeRan ==
    ASSUME NEW p, NEW rate, NEW c, CascadeInv(p, rate, c), NEW loud
    PROVE  LET q == [p EXCEPT !.now = << >>, !.cascade = CascadeProcess(@, loud)]
           IN  CascadeInv(q, rate, c) /\ Gradual(p.cascade, q.cascade)
<1>1. PICK w, e : w = [p EXCEPT !.now = e] /\ e = << >>
  OBVIOUS
<1>2. CascadeAlone(w) /\ w.rate = rate /\ w.set = c /\ w.cascade = p.cascade
  BY <1>1, CascadeWithNow DEF CascadeInv
<1>3. PICK d : d = CascadeProcess(p.cascade, loud)
  OBVIOUS
<1>4. CascadeSet(d, rate, c) /\ CascadeStep(p.cascade, d)
  BY <1>3, CascadeRuns DEF CascadeInv
<1>5. Gradual(p.cascade, d)
  <2>1. CascadeShape(p.cascade) /\ CascadeShape(d)
    BY <1>4 DEF CascadeInv, CascadeSet, CascadeRated
  <2> QED
    BY <1>4, <2>1, StepsGradual
<1>6. PICK q : q = [w EXCEPT !.cascade = d]
  OBVIOUS
<1>7. CascadeAlone(q) /\ q.cascade = d /\ q.rate = rate /\ q.set = c
  BY <1>2, <1>6, CascadeGiven
<1>8. q = [p EXCEPT !.now = << >>, !.cascade = CascadeProcess(@, loud)]
  BY <1>1, <1>2, <1>3, <1>6
<1> QED
  BY <1>4, <1>5, <1>7, <1>8 DEF CascadeInv

-----------------------------------------------------------------------------
(* Every processor by its kind.                                              *)

AirFormed(p) == Shape(p, AirNew, Steps) /\ p.mem.linearLevelGain = p.mem.inputPeak

\* A processor that may be prepared, one that was given its controls and is to be
\* reset, and one that runs.
Formed(p) ==
    /\ p.kind \in Processors
    /\ p.kind = "Cla76" => Cla76Formed(p)
    /\ p.kind = "Cla2a" => Cla2aFormed(p)
    /\ p.kind = "Cla3a" => Cla3aFormed(p)
    /\ p.kind = "Ssl" => SslFormed(p)
    /\ p.kind = "Saturation" => Shape(p, SaturationNew, Steps)
    /\ p.kind = "Transient" => TransientFormed(p)
    /\ p.kind = "Air" => AirFormed(p)
    /\ p.kind = "Thick" => Shape(p, ThickNew, Steps)
    /\ p.kind = "Leveler" => LevelerFormed(p)
    /\ p.kind = "Limiter" => Shape(p, LimiterNew, Steps)
    /\ p.kind = "Cascade" => CascadeFormed(p)

Making(p, rate, c) ==
    /\ p.kind \in Processors
    /\ p.kind = "Cla76" => Cla76Inv(p, rate, c)
    /\ p.kind = "Cla2a" => Cla2aInv(p, rate, c)
    /\ p.kind = "Cla3a" => Cla3aInv(p, rate, c)
    /\ p.kind = "Ssl" => SslInv(p, rate, c)
    /\ p.kind = "Saturation" => SaturationReady(p, rate, c)
    /\ p.kind = "Transient" => TransientInv(p, rate, c)
    /\ p.kind = "Air" => AirInv(p, rate, c)
    /\ p.kind = "Thick" => ThickReady(p, rate, c)
    /\ p.kind = "Leveler" => LevelerReady(p, rate, c)
    /\ p.kind = "Limiter" => LimiterReady(p, rate, c)
    /\ p.kind = "Cascade" => CascadeInv(p, rate, c)

Sound(p, rate, c) ==
    /\ p.kind \in Processors
    /\ p.kind = "Cla76" => Cla76Inv(p, rate, c)
    /\ p.kind = "Cla2a" => Cla2aInv(p, rate, c)
    /\ p.kind = "Cla3a" => Cla3aInv(p, rate, c)
    /\ p.kind = "Ssl" => SslInv(p, rate, c)
    /\ p.kind = "Saturation" => SaturationReady(p, rate, c)
    /\ p.kind = "Transient" => TransientInv(p, rate, c)
    /\ p.kind = "Air" => AirInv(p, rate, c)
    /\ p.kind = "Thick" => ThickReady(p, rate, c)
    /\ p.kind = "Leveler" => LevelerInv(p, rate, c)
    /\ p.kind = "Limiter" => LimiterReady(p, rate, c)
    /\ p.kind = "Cascade" => CascadeInv(p, rate, c)

\* The coefficients of a processor that ran are those of what it read.
Current(p) ==
    p.now # Unset =>
      IF p.kind = "Cascade"
      THEN LET compiled == Compile(p.cascade.filter, p.cascade.enabled, p.rate)
           IN  /\ p.cascade.target.coef = compiled.coef
               /\ Transitioning(p.cascade) \/ p.cascade.current.coef = compiled.coef
      ELSE p.coef = WantedOf(p)

Alikes(q, p) == q.kind = p.kind /\ q.emu = p.emu

\* What has the shape of Cla76 is one.
LEMMA Cla76Kind ==
    ASSUME NEW p, Cla76Formed(p)
    PROVE  p.kind = "Cla76" /\ p.emu \in BOOLEAN
BY Cla76Blank DEF Cla76Formed, Cla76Layout, Shape

\* What has the shape of Cla2a is one.
LEMMA Cla2aKind ==
    ASSUME NEW p, Cla2aFormed(p)
    PROVE  p.kind = "Cla2a" /\ p.emu \in BOOLEAN
BY Cla2aLayout DEF Cla2aFormed, OpticalFormed, Shape

\* What has the shape of Cla3a is one.
LEMMA Cla3aKind ==
    ASSUME NEW p, Cla3aFormed(p)
    PROVE  p.kind = "Cla3a" /\ p.emu \in BOOLEAN
BY Cla3aLayout DEF Cla3aFormed, OpticalFormed, Shape

\* What has the shape of SslChannel is one.
LEMMA SslKind ==
    ASSUME NEW p, SslFormed(p)
    PROVE  p.kind = "Ssl" /\ p.emu \in BOOLEAN
BY SslBlank DEF SslFormed, SslLayout, Shape

\* What has the shape of Saturation is one.
LEMMA SaturationKind ==
    ASSUME NEW p, Shape(p, SaturationNew, Steps)
    PROVE  p.kind = "Saturation" /\ p.emu = FALSE
BY SaturationLayout DEF Shape

\* What has the shape of Transient is one.
LEMMA TransientKind ==
    ASSUME NEW p, Shape(p, TransientNew, Steps)
    PROVE  p.kind = "Transient" /\ p.emu = FALSE
BY TransientLayout DEF Shape

\* What has the shape of Air is one.
LEMMA AirKind ==
    ASSUME NEW p, Shape(p, AirNew, Steps)
    PROVE  p.kind = "Air" /\ p.emu = FALSE
BY AirLayout DEF Shape

\* What has the shape of Thick is one.
LEMMA ThickKind ==
    ASSUME NEW p, Shape(p, ThickNew, Steps)
    PROVE  p.kind = "Thick" /\ p.emu = FALSE
BY ThickLayout DEF Shape

\* What has the shape of Leveler is one.
LEMMA LevelerKind ==
    ASSUME NEW p, Shape(p, LevelerNew, Gains)
    PROVE  p.kind = "Leveler" /\ p.emu = FALSE
BY LevelerLayout DEF Shape

\* What has the shape of Limiter is one.
LEMMA LimiterKind ==
    ASSUME NEW p, Shape(p, LimiterNew, Steps)
    PROVE  p.kind = "Limiter" /\ p.emu = FALSE
BY LimiterLayout DEF Shape

\* What has the shape of FilterCascade is one.
LEMMA CascadeKind ==
    ASSUME NEW p, CascadeAlone(p)
    PROVE  p.kind = "Cascade" /\ p.emu = FALSE
BY CascadeBlank DEF CascadeAlone, CascadeParts

\* A sound processor may be reset.
LEMMA SoundIsMade ==
    ASSUME NEW p, NEW rate, NEW c, Sound(p, rate, c)
    PROVE  Making(p, rate, c)
  BY DEF Sound, Making, LevelerInv

\* A sound processor may be prepared again.
LEMMA SoundIsFormed ==
    ASSUME NEW p, NEW rate, NEW c, Sound(p, rate, c)
    PROVE  Formed(p)
<1>1. p.kind \in Processors
  BY DEF Sound
<1>2. p.kind = "Cla76" => Cla76Formed(p)
  <2> HAVE p.kind = "Cla76"
  <2>1. Cla76Inv(p, rate, c)
    BY DEF Sound
  <2> QED
    BY <2>1, Cla76StaysFormed
<1>3. p.kind = "Cla2a" => Cla2aFormed(p)
  <2> HAVE p.kind = "Cla2a"
  <2>1. Cla2aInv(p, rate, c)
    BY DEF Sound
  <2> QED
    BY <2>1, Cla2aStaysFormed
<1>4. p.kind = "Cla3a" => Cla3aFormed(p)
  <2> HAVE p.kind = "Cla3a"
  <2>1. Cla3aInv(p, rate, c)
    BY DEF Sound
  <2> QED
    BY <2>1, Cla3aStaysFormed
<1>5. p.kind = "Ssl" => SslFormed(p)
  <2> HAVE p.kind = "Ssl"
  <2>1. SslInv(p, rate, c)
    BY DEF Sound
  <2> QED
    BY <2>1, SslStaysFormed
<1>6. p.kind = "Saturation" => Shape(p, SaturationNew, Steps)
  <2> HAVE p.kind = "Saturation"
  <2>1. SaturationReady(p, rate, c)
    BY DEF Sound
  <2> QED
    BY <2>1 DEF SaturationReady, Ready
<1>7. p.kind = "Transient" => TransientFormed(p)
  <2> HAVE p.kind = "Transient"
  <2>1. TransientInv(p, rate, c)
    BY DEF Sound
  <2> QED
    BY <2>1 DEF TransientInv, TransientFormed, Ready
<1>8. p.kind = "Air" => AirFormed(p)
  <2> HAVE p.kind = "Air"
  <2>1. AirInv(p, rate, c)
    BY DEF Sound
  <2> QED
    BY <2>1 DEF AirInv, AirReady, AirFormed, Ready
<1>9. p.kind = "Thick" => Shape(p, ThickNew, Steps)
  <2> HAVE p.kind = "Thick"
  <2>1. ThickReady(p, rate, c)
    BY DEF Sound
  <2> QED
    BY <2>1 DEF ThickReady, Ready
<1>10. p.kind = "Leveler" => LevelerFormed(p)
  <2> HAVE p.kind = "Leveler"
  <2>1. LevelerInv(p, rate, c)
    BY DEF Sound
  <2> QED
    BY <2>1 DEF LevelerInv, LevelerReady, LevelerGains, LevelerFormed, Ready
<1>11. p.kind = "Limiter" => Shape(p, LimiterNew, Steps)
  <2> HAVE p.kind = "Limiter"
  <2>1. LimiterReady(p, rate, c)
    BY DEF Sound
  <2> QED
    BY <2>1 DEF LimiterReady, Ready
<1>12. p.kind = "Cascade" => CascadeFormed(p)
  <2> HAVE p.kind = "Cascade"
  <2>1. CascadeInv(p, rate, c)
    BY DEF Sound
  <2> QED
    BY <2>1, CascadeStaysFormed
<1> QED
  BY <1>1, <1>2, <1>3, <1>4, <1>5, <1>6, <1>7, <1>8, <1>9, <1>10, <1>11, <1>12 DEF Formed

\* A new processor may be prepared.
LEMMA NewIsFormed ==
    ASSUME NEW model \in Processors, NEW emu \in Modes(model)
    PROVE  LET p == New(model, emu)
           IN  Formed(p) /\ p.kind = model /\ p.emu = emu
<1>1. PICK p : p = New(model, emu)
  OBVIOUS
<1>2. CASE model = "Cla76"
  BY <1>1, <1>2, Cla76Begins, Cla76Blank DEF Modes, New, Optical, Cla76Layout, Formed, Processors
<1>3. CASE model = "Cla2a"
  BY <1>1, <1>3, Cla2aBegins, Cla2aLayout DEF Modes, New, Optical, Formed, Processors
<1>4. CASE model = "Cla3a"
  BY <1>1, <1>4, Cla3aBegins, Cla3aLayout DEF Modes, New, Optical, Formed, Processors
<1>5. CASE model = "Ssl"
  BY <1>1, <1>5, SslBegins, SslBlank DEF Modes, New, Optical, SslLayout, Formed, Processors
<1>6. CASE model = "Saturation"
  BY <1>1, <1>6, SaturationLayout DEF Modes, New, Optical, Formed, Processors
<1>7. CASE model = "Transient"
  <2>1. emu = FALSE /\ p = TransientNew
    BY <1>1, <1>7 DEF Modes, New, Optical
  <2>2. Shape(p, p, Steps) /\ p.kind = "Transient" /\ p.emu = FALSE
    BY <2>1, TransientLayout
  <2>3. TransientFormed(p)
    BY <2>1, <2>2, TransientLayout DEF TransientMemory, Ramp, TransientFormed, TransientAgrees
  <2> QED
    BY <1>1, <1>7, <2>1, <2>2, <2>3 DEF Formed, Processors
<1>8. CASE model = "Air"
  <2>1. emu = FALSE /\ p = AirNew
    BY <1>1, <1>8 DEF Modes, New, Optical
  <2>2. Shape(p, p, Steps) /\ p.kind = "Air" /\ p.emu = FALSE
    BY <2>1, AirLayout
  <2>3. AirFormed(p)
    BY <2>1, <2>2, AirLayout DEF AirFormed
  <2> QED
    BY <1>1, <1>8, <2>1, <2>2, <2>3 DEF Formed, Processors
<1>9. CASE model = "Thick"
  BY <1>1, <1>9, ThickLayout DEF Modes, New, Optical, Formed, Processors
<1>10. CASE model = "Leveler"
  BY <1>1, <1>10, LevelerLayout DEF Modes, New, Optical, LevelerFormed, Formed, Processors
<1>11. CASE model = "Limiter"
  BY <1>1, <1>11, LimiterLayout DEF Modes, New, Optical, Formed, Processors
<1>12. CASE model = "Cascade"
  BY <1>1, <1>12, CascadeBegins, CascadeBlank DEF Modes, New, Optical, CascadeNew, Formed,
     Processors
<1> QED
  BY <1>2, <1>3, <1>4, <1>5, <1>6, <1>7, <1>8, <1>9, <1>10, <1>11, <1>12 DEF Processors

\* A processor that was prepared and given its controls may be reset.
LEMMA PreparedIsMade ==
    ASSUME NEW p, Formed(p), NEW rate, NEW c \in Settings(p.kind)
    PROVE  LET q == SetModel(PrepareModel(p, rate), c)
           IN  Making(q, rate, c) /\ Alikes(q, p)
<1>1. PICK q : q = SetModel(PrepareModel(p, rate), c)
  OBVIOUS
<1>2. CASE p.kind = "Cla76"
  <2>1. PICK y : y = Cla76Prepare(p, rate)
    OBVIOUS
  <2>2. y = PrepareModel(p, rate)
    BY <1>2, <2>1 DEF PrepareModel
  <2>3. Cla76Formed(p) /\ c \in Settings("Cla76")
    BY <1>2 DEF Formed
  <2>4. PICK x : x = Cla76SetControls([y EXCEPT !.set = c], c)
    OBVIOUS
  <2>5. Cla76Inv(x, rate, c) /\ x.emu = p.emu /\ [Cla76Prepare(p, rate) EXCEPT !.set = c].kind = "Cla76"
    BY <2>1, <2>3, <2>4, Cla76Made
  <2>6. [y EXCEPT !.set = c].kind = "Cla76"
    BY <2>1, <2>5
  <2>7. x.kind = "Cla76"
    BY <2>5, Cla76StaysFormed, Cla76Kind
  <2>8. q = x
    BY <1>1, <2>2, <2>4, <2>6 DEF SetModel, Optical
  <2> QED
    BY <1>1, <1>2, <2>5, <2>7, <2>8 DEF Making, Alikes, Processors
<1>3. CASE p.kind = "Cla2a"
  <2>1. PICK y : y = Cla2aPrepare(p, rate)
    OBVIOUS
  <2>2. y = PrepareModel(p, rate)
    BY <1>3, <2>1 DEF PrepareModel
  <2>3. Cla2aFormed(p) /\ c \in Settings("Cla2a")
    BY <1>3 DEF Formed
  <2>4. PICK x : x = OpticalSetControls([y EXCEPT !.set = c], c)
    OBVIOUS
  <2>5. Cla2aInv(x, rate, c) /\ x.emu = p.emu
    BY <2>1, <2>3, <2>4, Cla2aMade
  <2>6. [y EXCEPT !.set = c].kind = "Cla2a"
    BY <2>1, <2>3, Cla2aPrepared, Cla2aLayout, GivenShape DEF Cla2aFormed, Shape
  <2>7. x.kind = "Cla2a"
    BY <2>5, Cla2aStaysFormed, Cla2aKind
  <2>8. q = x
    BY <1>1, <2>2, <2>4, <2>6 DEF SetModel, Optical
  <2> QED
    BY <1>1, <1>3, <2>5, <2>7, <2>8 DEF Making, Alikes, Processors
<1>4. CASE p.kind = "Cla3a"
  <2>1. PICK y : y = Cla3aPrepare(p, rate)
    OBVIOUS
  <2>2. y = PrepareModel(p, rate)
    BY <1>4, <2>1 DEF PrepareModel
  <2>3. Cla3aFormed(p) /\ c \in Settings("Cla3a")
    BY <1>4 DEF Formed
  <2>4. PICK x : x = OpticalSetControls([y EXCEPT !.set = c], c)
    OBVIOUS
  <2>5. Cla3aInv(x, rate, c) /\ x.emu = p.emu
    BY <2>1, <2>3, <2>4, Cla3aMade
  <2>6. [y EXCEPT !.set = c].kind = "Cla3a"
    BY <2>1, <2>3, Cla3aPrepared, Cla3aLayout, GivenShape DEF Cla3aFormed, Shape
  <2>7. x.kind = "Cla3a"
    BY <2>5, Cla3aStaysFormed, Cla3aKind
  <2>8. q = x
    BY <1>1, <2>2, <2>4, <2>6 DEF SetModel, Optical
  <2> QED
    BY <1>1, <1>4, <2>5, <2>7, <2>8 DEF Making, Alikes, Processors
<1>5. CASE p.kind = "Ssl"
  <2>1. PICK y : y = SslPrepare(p, rate)
    OBVIOUS
  <2>2. y = PrepareModel(p, rate)
    BY <1>5, <2>1 DEF PrepareModel
  <2>3. SslFormed(p) /\ c \in Settings("Ssl")
    BY <1>5 DEF Formed
  <2>4. PICK x : x = SslSetControls([y EXCEPT !.set = c], c)
    OBVIOUS
  <2>5. SslInv(x, rate, c) /\ x.emu = p.emu /\ [SslPrepare(p, rate) EXCEPT !.set = c].kind = "Ssl"
    BY <2>1, <2>3, <2>4, SslMade
  <2>6. [y EXCEPT !.set = c].kind = "Ssl"
    BY <2>1, <2>5
  <2>7. x.kind = "Ssl"
    BY <2>5, SslStaysFormed, SslKind
  <2>8. q = x
    BY <1>1, <2>2, <2>4, <2>6 DEF SetModel, Optical
  <2> QED
    BY <1>1, <1>5, <2>5, <2>7, <2>8 DEF Making, Alikes, Processors
<1>6. CASE p.kind = "Saturation"
  <2>1. PICK y : y = SaturationPrepare(p, rate)
    OBVIOUS
  <2>2. y = PrepareModel(p, rate)
    BY <1>6, <2>1 DEF PrepareModel
  <2>3. Shape(p, SaturationNew, Steps) /\ c \in Settings("Saturation")
    BY <1>6 DEF Formed
  <2>4. PICK x : x = SaturationSetControls([y EXCEPT !.set = c], c)
    OBVIOUS
  <2>5. SaturationReady(x, rate, c)
    BY <2>1, <2>3, <2>4, SaturationMade
  <2>6. /\ Shape(y, SaturationNew, Steps) /\ y.rate = rate /\ y.set = p.set
        /\ y.coef = SaturationWanted([rate |-> rate]) /\ y.mem = p.mem
    BY <2>1, <2>3, SaturationPrepared
  <2>a. [y EXCEPT !.set = c].kind = "Saturation"
    BY <2>6, GivenShape, SaturationLayout DEF Shape
  <2>7. p.emu = FALSE
    BY <2>3, SaturationKind
  <2>8. Shape(x, SaturationNew, Steps)
    BY <2>5 DEF SaturationReady, Ready
  <2>9. x.kind = "Saturation" /\ x.emu = FALSE
    BY <2>8, SaturationKind
  <2>10. q = x
    BY <1>1, <2>a, <2>2, <2>4 DEF SetModel, Optical
  <2> QED
    BY <1>1, <1>6, <2>5, <2>7, <2>9, <2>10 DEF Making, Alikes, Processors
<1>7. CASE p.kind = "Transient"
  <2>1. PICK y : y = TransientPrepare(p, rate)
    OBVIOUS
  <2>2. y = PrepareModel(p, rate)
    BY <1>7, <2>1 DEF PrepareModel
  <2>3. TransientFormed(p) /\ c \in Settings("Transient")
    BY <1>7 DEF Formed
  <2>4. PICK x : x = TransientSetControls([y EXCEPT !.set = c], c)
    OBVIOUS
  <2>5. TransientInv(x, rate, c)
    BY <2>1, <2>3, <2>4, TransientMade
  <2>6. Shape(y, TransientNew, Steps)
    BY <2>1, <2>3, TransientPrepared DEF TransientFormed
  <2>a. [y EXCEPT !.set = c].kind = "Transient"
    BY <2>6, GivenShape, TransientLayout DEF Shape
  <2>7. p.emu = FALSE
    BY <2>3, TransientKind DEF TransientFormed
  <2>8. Shape(x, TransientNew, Steps)
    BY <2>5 DEF TransientInv, Ready
  <2>9. x.kind = "Transient" /\ x.emu = FALSE
    BY <2>8, TransientKind
  <2>10. q = x
    BY <1>1, <2>a, <2>2, <2>4 DEF SetModel, Optical
  <2> QED
    BY <1>1, <1>7, <2>5, <2>7, <2>9, <2>10 DEF Making, Alikes, Processors
<1>8. CASE p.kind = "Air"
  <2>1. PICK y : y = AirPrepare(p, rate)
    OBVIOUS
  <2>2. y = PrepareModel(p, rate)
    BY <1>8, <2>1 DEF PrepareModel
  <2>3. AirFormed(p) /\ c \in Settings("Air")
    BY <1>8 DEF Formed
  <2>4. PICK x : x = AirSetAmount([y EXCEPT !.set = c], c)
    OBVIOUS
  <2>5. AirInv(x, rate, c)
    BY <2>1, <2>3, <2>4, AirMade DEF AirFormed
  <2>6. Shape(y, AirNew, Steps)
    BY <2>1, <2>3, AirPrepared DEF AirFormed
  <2>a. [y EXCEPT !.set = c].kind = "Air"
    BY <2>6, GivenShape, AirLayout DEF Shape
  <2>7. p.emu = FALSE
    BY <2>3, AirKind DEF AirFormed
  <2>8. Shape(x, AirNew, Steps)
    BY <2>5 DEF AirInv, Ready, AirReady
  <2>9. x.kind = "Air" /\ x.emu = FALSE
    BY <2>8, AirKind
  <2>10. q = x
    BY <1>1, <2>a, <2>2, <2>4 DEF SetModel, Optical
  <2> QED
    BY <1>1, <1>8, <2>5, <2>7, <2>9, <2>10 DEF Making, Alikes, Processors
<1>9. CASE p.kind = "Thick"
  <2>1. PICK y : y = ThickPrepare(p, rate)
    OBVIOUS
  <2>2. y = PrepareModel(p, rate)
    BY <1>9, <2>1 DEF PrepareModel
  <2>3. Shape(p, ThickNew, Steps) /\ c \in Settings("Thick")
    BY <1>9 DEF Formed
  <2>4. PICK x : x = ThickSetAmount([y EXCEPT !.set = c], c)
    OBVIOUS
  <2>5. ThickReady(x, rate, c)
    BY <2>1, <2>3, <2>4, ThickMade
  <2>6. /\ Shape(y, ThickNew, Steps) /\ y.rate = rate /\ y.set = p.set
        /\ y.coef = ThickWanted([rate |-> rate]) /\ y.mem = Clear(p.mem, ThickBody)
    BY <2>1, <2>3, ThickPrepared
  <2>a. [y EXCEPT !.set = c].kind = "Thick"
    BY <2>6, GivenShape, ThickLayout DEF Shape
  <2>7. p.emu = FALSE
    BY <2>3, ThickKind
  <2>8. Shape(x, ThickNew, Steps)
    BY <2>5 DEF ThickReady, Ready
  <2>9. x.kind = "Thick" /\ x.emu = FALSE
    BY <2>8, ThickKind
  <2>10. q = x
    BY <1>1, <2>a, <2>2, <2>4 DEF SetModel, Optical
  <2> QED
    BY <1>1, <1>9, <2>5, <2>7, <2>9, <2>10 DEF Making, Alikes, Processors
<1>10. CASE p.kind = "Leveler"
  <2>1. PICK y : y = LevelerPrepare(p, rate)
    OBVIOUS
  <2>2. y = PrepareModel(p, rate)
    BY <1>10, <2>1 DEF PrepareModel
  <2>3. LevelerFormed(p) /\ c \in Settings("Leveler")
    BY <1>10 DEF Formed
  <2>4. PICK x : x = LevelerSetControls([y EXCEPT !.set = c], c)
    OBVIOUS
  <2>5. LevelerReady(x, rate, c)
    BY <2>1, <2>3, <2>4, LevelerMade
  <2>6. Shape(y, LevelerNew, Gains)
    BY <2>1, <2>3, LevelerPrepared DEF LevelerFormed
  <2>a. [y EXCEPT !.set = c].kind = "Leveler"
    BY <2>6, GivenShape, LevelerLayout DEF Shape
  <2>7. p.emu = FALSE
    BY <2>3, LevelerKind DEF LevelerFormed
  <2>8. Shape(x, LevelerNew, Gains)
    BY <2>5 DEF LevelerReady, Ready
  <2>9. x.kind = "Leveler" /\ x.emu = FALSE
    BY <2>8, LevelerKind
  <2>10. q = x
    BY <1>1, <2>a, <2>2, <2>4 DEF SetModel, Optical
  <2> QED
    BY <1>1, <1>10, <2>5, <2>7, <2>9, <2>10 DEF Making, Alikes, Processors
<1>11. CASE p.kind = "Limiter"
  <2>1. PICK y : y = LimiterPrepare(p, rate)
    OBVIOUS
  <2>2. y = PrepareModel(p, rate)
    BY <1>11, <2>1 DEF PrepareModel
  <2>3. Shape(p, LimiterNew, Steps) /\ c \in Settings("Limiter")
    BY <1>11 DEF Formed
  <2>4. PICK x : x = LimiterSetControls([y EXCEPT !.set = c], c)
    OBVIOUS
  <2>5. LimiterReady(x, rate, c)
    BY <2>1, <2>3, <2>4, LimiterMade
  <2>6. /\ Shape(y, LimiterNew, Steps) /\ y.rate = rate /\ y.set = p.set
        /\ y.coef = LimiterWanted([rate |-> rate]) /\ y.mem = p.mem
    BY <2>1, <2>3, LimiterPrepared
  <2>a. [y EXCEPT !.set = c].kind = "Limiter"
    BY <2>6, GivenShape, LimiterLayout DEF Shape
  <2>7. p.emu = FALSE
    BY <2>3, LimiterKind
  <2>8. Shape(x, LimiterNew, Steps)
    BY <2>5 DEF LimiterReady, Ready
  <2>9. x.kind = "Limiter" /\ x.emu = FALSE
    BY <2>8, LimiterKind
  <2>10. q = x
    BY <1>1, <2>a, <2>2, <2>4 DEF SetModel, Optical
  <2> QED
    BY <1>1, <1>11, <2>5, <2>7, <2>9, <2>10 DEF Making, Alikes, Processors
<1>12. CASE p.kind = "Cascade"
  <2>1. PICK y, x, z : /\ y = [p EXCEPT !.rate = rate, !.cascade = CascadePrepare(@, rate)]
                       /\ x = [y EXCEPT !.set = c]
                       /\ z = [x EXCEPT !.cascade = CascadeSetParameters(@, c.filter, c.enabled)]
    OBVIOUS
  <2>2. y = PrepareModel(p, rate)
    BY <1>12, <2>1 DEF PrepareModel
  <2>3. CascadeFormed(p)
    BY <1>12 DEF Formed
  <2>4. CascadeInv(z, rate, c)
    BY <2>1, <2>3, CascadeMade
  <2>5. z.kind = "Cascade" /\ z.emu = FALSE /\ p.emu = FALSE
    BY <2>3, <2>4, CascadeKind DEF CascadeInv, CascadeFormed
  <2>6. x.kind = "Cascade"
    BY <1>12, <2>1, <2>3 DEF CascadeFormed, CascadeAlone, Has, CascadeKinds, Fields
  <2>7. q = z
    BY <1>1, <2>1, <2>2, <2>6 DEF SetModel, Optical
  <2> QED
    BY <1>1, <1>12, <2>4, <2>5, <2>7 DEF Making, Alikes, Processors
<1> QED
  BY <1>2, <1>3, <1>4, <1>5, <1>6, <1>7, <1>8, <1>9, <1>10, <1>11, <1>12 DEF Formed, Processors

\* What the coefficients should be depends on the mode and the reading alone.
LEMMA WantedAlike ==
    ASSUME NEW p, NEW q, Alikes(q, p), NEW in
    PROVE  /\ Cla76Wanted(q, in) = Cla76Wanted(p, in) /\ Cla2aWanted(q, in) = Cla2aWanted(p, in)
           /\ Cla3aWanted(q, in) = Cla3aWanted(p, in) /\ SslWanted(q, in) = SslWanted(p, in)
<1>0. q.emu = p.emu
  BY DEF Alikes
<1>1. Cla76Wanted(q, in) = Cla76Wanted(p, in)
  BY <1>0 DEF Cla76Wanted
<1>2. OpticalWanted(q, in) = OpticalWanted(p, in)
  BY <1>0 DEF OpticalWanted
<1>4. \A reads : SslLaw(q, in, reads) = SslLaw(p, in, reads)
  BY <1>0 DEF SslLaw
<1>5. SslWanted(q, in) = SslWanted(p, in)
  BY <1>0, <1>4 DEF SslWanted
<1> QED
  BY <1>0, <1>1, <1>2, <1>5 DEF Cla2aWanted, Cla3aWanted

\* Coefficients that are kept with the reading stay current.
LEMMA StaysCurrent ==
    ASSUME NEW p, NEW q, Alikes(q, p), p.kind \in Processors \ {"Cascade"},
           q.now = p.now, q.coef = p.coef, Current(p)
    PROVE  Current(q)
<1>1. WantedOf(q) = WantedOf(p)
  <2>1. q.kind = p.kind
    BY DEF Alikes
  <2>2. CASE p.kind = "Cla76"
    BY <2>1, <2>2, WantedAlike DEF WantedOf
  <2>3. CASE p.kind = "Cla2a"
    BY <2>1, <2>3, WantedAlike DEF WantedOf
  <2>4. CASE p.kind = "Cla3a"
    BY <2>1, <2>4, WantedAlike DEF WantedOf
  <2>5. CASE p.kind = "Ssl"
    BY <2>1, <2>5, WantedAlike DEF WantedOf
  <2>6. CASE p.kind = "Saturation"
    BY <2>1, <2>6 DEF WantedOf
  <2>7. CASE p.kind = "Transient"
    BY <2>1, <2>7 DEF WantedOf
  <2>8. CASE p.kind = "Air"
    BY <2>1, <2>8 DEF WantedOf
  <2>9. CASE p.kind = "Thick"
    BY <2>1, <2>9 DEF WantedOf
  <2>10. CASE p.kind = "Leveler"
    BY <2>1, <2>10 DEF WantedOf
  <2>11. CASE p.kind = "Limiter"
    BY <2>1, <2>11 DEF WantedOf
  <2> QED
    BY <2>2, <2>3, <2>4, <2>5, <2>6, <2>7, <2>8, <2>9, <2>10, <2>11 DEF Processors
<1> QED
  BY <1>1 DEF Current, Alikes

\* The paths of a sound cascade are compiled from its filter.
LEMMA CascadeCurrent ==
    ASSUME NEW p, NEW rate, NEW c, CascadeInv(p, rate, c), p.kind = "Cascade"
    PROVE  Current(p)
BY DEF CascadeInv, CascadeSet, CascadeRated, TunedPath, Current

\* What is not among the names that may change is the same.
LEMMA SameSound ==
    ASSUME NEW p, NEW q, NEW names, Same(q, p, names), "kind" \notin names, "emu" \notin names
    PROVE  /\ Alikes(q, p)
           /\ "now" \notin names => q.now = p.now
           /\ "coef" \notin names => q.coef = p.coef
  BY DEF Same, Fields, Alikes

\* New controls keep a processor sound and its coefficients current, and outside a
\* crossfade move no share of a cascade by more than a step.
LEMMA KeptModel ==
    ASSUME NEW p, NEW rate, NEW d \in Settings(p.kind), Sound(p, rate, d),
           NEW c \in Settings(p.kind)
    PROVE  LET q == SetModel(p, c)
           IN  /\ Sound(q, rate, c) /\ Alikes(q, p)
               /\ Current(p) => Current(q)
               /\ (p.kind = "Cascade" /\ ~Transitioning(p.cascade) /\ c # d) =>
                    Gradual(p.cascade, q.cascade)
<1>0. p.kind \in Processors
  BY DEF Sound
<1>1. PICK q, x : q = SetModel(p, c) /\ x = [p EXCEPT !.set = c]
  OBVIOUS
<1>2. CASE p.kind = "Cla76"
  <2>1. Cla76Inv(p, rate, d) /\ c \in Settings("Cla76")
    BY <1>2 DEF Sound
  <2>2. PICK y, names : y = Cla76SetControls([p EXCEPT !.set = c], c) /\ names = {"ramp", "set", "key"}
    OBVIOUS
  <2>3. Cla76Inv(y, rate, c) /\ Same(y, p, {"ramp", "set", "key"})
    BY <2>1, <2>2, Cla76Kept
  <2>4. Same(y, p, names) /\ names \cap {"kind", "emu", "now", "coef"} = {}
    BY <2>2, <2>3
  <2>5. Alikes(y, p) /\ y.now = p.now /\ y.coef = p.coef
    BY <2>4, SameSound
  <2>6. x.kind = "Cla76"
    <3>1. Has(p, Fields)
      BY <2>1 DEF Cla76Inv, Cla76Sound, Shape
    <3> QED
      BY <1>1, <1>2, <3>1 DEF Has, Fields
  <2>7. q = y
    BY <1>1, <2>2, <2>6 DEF SetModel, Optical
  <2>8. Current(p) => Current(y)
    BY <1>0, <1>2, <2>5, StaysCurrent
  <2>9. y.kind = "Cla76"
    BY <1>2, <2>5 DEF Alikes
  <2>10. Sound(y, rate, c)
    BY <2>3, <2>9 DEF Sound, Processors
  <2> QED
    BY <1>1, <1>2, <2>5, <2>7, <2>8, <2>10
<1>3. CASE p.kind = "Cla2a"
  <2>1. Cla2aInv(p, rate, d) /\ c \in Settings("Cla2a")
    BY <1>3 DEF Sound
  <2>2. PICK y, names : y = OpticalSetControls([p EXCEPT !.set = c], c) /\ names = {"ramp", "set"}
    OBVIOUS
  <2>3. Cla2aInv(y, rate, c) /\ Same(y, p, {"ramp", "set"})
    BY <2>1, <2>2, Cla2aKept
  <2>4. Same(y, p, names) /\ names \cap {"kind", "emu", "now", "coef"} = {}
    BY <2>2, <2>3
  <2>5. Alikes(y, p) /\ y.now = p.now /\ y.coef = p.coef
    BY <2>4, SameSound
  <2>6. x.kind = "Cla2a"
    <3>1. Has(p, Fields)
      BY <2>1 DEF Cla2aInv, OpticalInv, Shape
    <3> QED
      BY <1>1, <1>3, <3>1 DEF Has, Fields
  <2>7. q = y
    BY <1>1, <2>2, <2>6 DEF SetModel, Optical
  <2>8. Current(p) => Current(y)
    BY <1>0, <1>3, <2>5, StaysCurrent
  <2>9. y.kind = "Cla2a"
    BY <1>3, <2>5 DEF Alikes
  <2>10. Sound(y, rate, c)
    BY <2>3, <2>9 DEF Sound, Processors
  <2> QED
    BY <1>1, <1>3, <2>5, <2>7, <2>8, <2>10
<1>4. CASE p.kind = "Cla3a"
  <2>1. Cla3aInv(p, rate, d) /\ c \in Settings("Cla3a")
    BY <1>4 DEF Sound
  <2>2. PICK y, names : y = OpticalSetControls([p EXCEPT !.set = c], c) /\ names = {"ramp", "set"}
    OBVIOUS
  <2>3. Cla3aInv(y, rate, c) /\ Same(y, p, {"ramp", "set"})
    BY <2>1, <2>2, Cla3aKept
  <2>4. Same(y, p, names) /\ names \cap {"kind", "emu", "now", "coef"} = {}
    BY <2>2, <2>3
  <2>5. Alikes(y, p) /\ y.now = p.now /\ y.coef = p.coef
    BY <2>4, SameSound
  <2>6. x.kind = "Cla3a"
    <3>1. Has(p, Fields)
      BY <2>1 DEF Cla3aInv, OpticalInv, Shape
    <3> QED
      BY <1>1, <1>4, <3>1 DEF Has, Fields
  <2>7. q = y
    BY <1>1, <2>2, <2>6 DEF SetModel, Optical
  <2>8. Current(p) => Current(y)
    BY <1>0, <1>4, <2>5, StaysCurrent
  <2>9. y.kind = "Cla3a"
    BY <1>4, <2>5 DEF Alikes
  <2>10. Sound(y, rate, c)
    BY <2>3, <2>9 DEF Sound, Processors
  <2> QED
    BY <1>1, <1>4, <2>5, <2>7, <2>8, <2>10
<1>5. CASE p.kind = "Ssl"
  <2>1. SslInv(p, rate, d) /\ c \in Settings("Ssl")
    BY <1>5 DEF Sound
  <2>2. PICK y, names : y = SslSetControls([p EXCEPT !.set = c], c) /\ names = {"ramp", "set", "flag"}
    OBVIOUS
  <2>3. SslInv(y, rate, c) /\ Same(y, p, {"ramp", "set", "flag"})
    BY <2>1, <2>2, SslKept
  <2>4. Same(y, p, names) /\ names \cap {"kind", "emu", "now", "coef"} = {}
    BY <2>2, <2>3
  <2>5. Alikes(y, p) /\ y.now = p.now /\ y.coef = p.coef
    BY <2>4, SameSound
  <2>6. x.kind = "Ssl"
    <3>1. Has(p, Fields)
      BY <2>1 DEF SslInv, SslSound, Shape
    <3> QED
      BY <1>1, <1>5, <3>1 DEF Has, Fields
  <2>7. q = y
    BY <1>1, <2>2, <2>6 DEF SetModel, Optical
  <2>8. Current(p) => Current(y)
    BY <1>0, <1>5, <2>5, StaysCurrent
  <2>9. y.kind = "Ssl"
    BY <1>5, <2>5 DEF Alikes
  <2>10. Sound(y, rate, c)
    BY <2>3, <2>9 DEF Sound, Processors
  <2> QED
    BY <1>1, <1>5, <2>5, <2>7, <2>8, <2>10
<1>6. CASE p.kind = "Saturation"
  <2>1. SaturationReady(p, rate, d) /\ c \in Settings("Saturation")
    BY <1>6 DEF Sound
  <2>2. PICK y, names : y = SaturationSetControls([p EXCEPT !.set = c], c) /\ names = {"ramp", "set"}
    OBVIOUS
  <2>3. SaturationReady(y, rate, c) /\ Same(y, p, {"ramp", "set"})
    BY <2>1, <2>2, SaturationKept
  <2>4. Same(y, p, names) /\ names \cap {"kind", "emu", "now", "coef"} = {}
    BY <2>2, <2>3
  <2>5. Alikes(y, p) /\ y.now = p.now /\ y.coef = p.coef
    BY <2>4, SameSound
  <2>6. x.kind = "Saturation"
    <3>1. Has(p, Fields)
      BY <2>1 DEF SaturationReady, Ready, Shape
    <3> QED
      BY <1>1, <1>6, <3>1 DEF Has, Fields
  <2>7. q = y
    BY <1>1, <2>2, <2>6 DEF SetModel, Optical
  <2>8. Current(p) => Current(y)
    BY <1>0, <1>6, <2>5, StaysCurrent
  <2>9. y.kind = "Saturation"
    BY <1>6, <2>5 DEF Alikes
  <2>10. Sound(y, rate, c)
    BY <2>3, <2>9 DEF Sound, Processors
  <2> QED
    BY <1>1, <1>6, <2>5, <2>7, <2>8, <2>10
<1>7. CASE p.kind = "Transient"
  <2>1. TransientInv(p, rate, d) /\ c \in Settings("Transient")
    BY <1>7 DEF Sound
  <2>2. PICK y, names : y = TransientSetControls([p EXCEPT !.set = c], c) /\ names = {"ramp", "set", "key"}
    OBVIOUS
  <2>3. TransientInv(y, rate, c) /\ Same(y, p, {"ramp", "set", "key"})
    BY <2>1, <2>2, TransientKept
  <2>4. Same(y, p, names) /\ names \cap {"kind", "emu", "now", "coef"} = {}
    BY <2>2, <2>3
  <2>5. Alikes(y, p) /\ y.now = p.now /\ y.coef = p.coef
    BY <2>4, SameSound
  <2>6. x.kind = "Transient"
    <3>1. Has(p, Fields)
      BY <2>1 DEF TransientInv, Ready, Shape
    <3> QED
      BY <1>1, <1>7, <3>1 DEF Has, Fields
  <2>7. q = y
    BY <1>1, <2>2, <2>6 DEF SetModel, Optical
  <2>8. Current(p) => Current(y)
    BY <1>0, <1>7, <2>5, StaysCurrent
  <2>9. y.kind = "Transient"
    BY <1>7, <2>5 DEF Alikes
  <2>10. Sound(y, rate, c)
    BY <2>3, <2>9 DEF Sound, Processors
  <2> QED
    BY <1>1, <1>7, <2>5, <2>7, <2>8, <2>10
<1>8. CASE p.kind = "Air"
  <2>1. AirInv(p, rate, d) /\ c \in Settings("Air")
    BY <1>8 DEF Sound
  <2>2. PICK y, names : y = AirSetAmount([p EXCEPT !.set = c], c) /\ names = {"ramp", "set"}
    OBVIOUS
  <2>3. AirInv(y, rate, c) /\ Same(y, p, {"ramp", "set"})
    BY <2>1, <2>2, AirKept
  <2>4. Same(y, p, names) /\ names \cap {"kind", "emu", "now", "coef"} = {}
    BY <2>2, <2>3
  <2>5. Alikes(y, p) /\ y.now = p.now /\ y.coef = p.coef
    BY <2>4, SameSound
  <2>6. x.kind = "Air"
    <3>1. Has(p, Fields)
      BY <2>1 DEF AirInv, AirReady, Ready, Shape
    <3> QED
      BY <1>1, <1>8, <3>1 DEF Has, Fields
  <2>7. q = y
    BY <1>1, <2>2, <2>6 DEF SetModel, Optical
  <2>8. Current(p) => Current(y)
    BY <1>0, <1>8, <2>5, StaysCurrent
  <2>9. y.kind = "Air"
    BY <1>8, <2>5 DEF Alikes
  <2>10. Sound(y, rate, c)
    BY <2>3, <2>9 DEF Sound, Processors
  <2> QED
    BY <1>1, <1>8, <2>5, <2>7, <2>8, <2>10
<1>9. CASE p.kind = "Thick"
  <2>1. ThickReady(p, rate, d) /\ c \in Settings("Thick")
    BY <1>9 DEF Sound
  <2>2. PICK y, names : y = ThickSetAmount([p EXCEPT !.set = c], c) /\ names = {"ramp", "set"}
    OBVIOUS
  <2>3. ThickReady(y, rate, c) /\ Same(y, p, {"ramp", "set"})
    BY <2>1, <2>2, ThickKept
  <2>4. Same(y, p, names) /\ names \cap {"kind", "emu", "now", "coef"} = {}
    BY <2>2, <2>3
  <2>5. Alikes(y, p) /\ y.now = p.now /\ y.coef = p.coef
    BY <2>4, SameSound
  <2>6. x.kind = "Thick"
    <3>1. Has(p, Fields)
      BY <2>1 DEF ThickReady, Ready, Shape
    <3> QED
      BY <1>1, <1>9, <3>1 DEF Has, Fields
  <2>7. q = y
    BY <1>1, <2>2, <2>6 DEF SetModel, Optical
  <2>8. Current(p) => Current(y)
    BY <1>0, <1>9, <2>5, StaysCurrent
  <2>9. y.kind = "Thick"
    BY <1>9, <2>5 DEF Alikes
  <2>10. Sound(y, rate, c)
    BY <2>3, <2>9 DEF Sound, Processors
  <2> QED
    BY <1>1, <1>9, <2>5, <2>7, <2>8, <2>10
<1>10. CASE p.kind = "Leveler"
  <2>1. LevelerInv(p, rate, d) /\ c \in Settings("Leveler")
    BY <1>10 DEF Sound
  <2>2. PICK y, names : y = LevelerSetControls([p EXCEPT !.set = c], c) /\ names = {"ramp", "set", "flag", "mem"}
    OBVIOUS
  <2>3. LevelerInv(y, rate, c) /\ Same(y, p, {"ramp", "set", "flag", "mem"})
    BY <2>1, <2>2, LevelerKept
  <2>4. Same(y, p, names) /\ names \cap {"kind", "emu", "now", "coef"} = {}
    BY <2>2, <2>3
  <2>5. Alikes(y, p) /\ y.now = p.now /\ y.coef = p.coef
    BY <2>4, SameSound
  <2>6. x.kind = "Leveler"
    <3>1. Has(p, Fields)
      BY <2>1 DEF LevelerInv, LevelerReady, Ready, Shape
    <3> QED
      BY <1>1, <1>10, <3>1 DEF Has, Fields
  <2>7. q = y
    BY <1>1, <2>2, <2>6 DEF SetModel, Optical
  <2>8. Current(p) => Current(y)
    BY <1>0, <1>10, <2>5, StaysCurrent
  <2>9. y.kind = "Leveler"
    BY <1>10, <2>5 DEF Alikes
  <2>10. Sound(y, rate, c)
    BY <2>3, <2>9 DEF Sound, Processors
  <2> QED
    BY <1>1, <1>10, <2>5, <2>7, <2>8, <2>10
<1>11. CASE p.kind = "Limiter"
  <2>1. LimiterReady(p, rate, d) /\ c \in Settings("Limiter")
    BY <1>11 DEF Sound
  <2>2. PICK y, names : y = LimiterSetControls([p EXCEPT !.set = c], c) /\ names = {"ramp", "set"}
    OBVIOUS
  <2>3. LimiterReady(y, rate, c) /\ Same(y, p, {"ramp", "set"})
    BY <2>1, <2>2, LimiterKept
  <2>4. Same(y, p, names) /\ names \cap {"kind", "emu", "now", "coef"} = {}
    BY <2>2, <2>3
  <2>5. Alikes(y, p) /\ y.now = p.now /\ y.coef = p.coef
    BY <2>4, SameSound
  <2>6. x.kind = "Limiter"
    <3>1. Has(p, Fields)
      BY <2>1 DEF LimiterReady, Ready, Shape
    <3> QED
      BY <1>1, <1>11, <3>1 DEF Has, Fields
  <2>7. q = y
    BY <1>1, <2>2, <2>6 DEF SetModel, Optical
  <2>8. Current(p) => Current(y)
    BY <1>0, <1>11, <2>5, StaysCurrent
  <2>9. y.kind = "Limiter"
    BY <1>11, <2>5 DEF Alikes
  <2>10. Sound(y, rate, c)
    BY <2>3, <2>9 DEF Sound, Processors
  <2> QED
    BY <1>1, <1>11, <2>5, <2>7, <2>8, <2>10
<1>12. CASE p.kind = "Cascade"
  <2>1. CascadeInv(p, rate, d)
    BY <1>12 DEF Sound
  <2>2. PICK y : y = [x EXCEPT !.cascade = CascadeSetParameters(@, c.filter, c.enabled)]
    OBVIOUS
  <2>3. /\ CascadeInv(y, rate, c) /\ y.now = p.now
        /\ (~Transitioning(p.cascade) /\ ~(d.filter = c.filter /\ d.enabled = c.enabled)) =>
              Gradual(p.cascade, y.cascade)
    BY <1>1, <2>1, <2>2, CascadeKept, ZenonT(60)
  <2>4. x.kind = "Cascade"
    BY <1>1, <1>12, <2>1 DEF CascadeInv, CascadeAlone, Has, CascadeKinds, Fields
  <2>5. q = y
    BY <1>1, <2>2, <2>4 DEF SetModel, Optical
  <2>6. y.kind = "Cascade" /\ y.emu = FALSE /\ p.emu = FALSE
    BY <2>1, <2>3, CascadeKind DEF CascadeInv
  <2>7. c # d => ~(d.filter = c.filter /\ d.enabled = c.enabled)
    BY <1>12 DEF Settings
  <2>8. Current(y) /\ Sound(y, rate, c) /\ Alikes(y, p)
    BY <1>12, <2>3, <2>6, CascadeCurrent DEF Sound, Processors, Alikes
  <2>9. (~Transitioning(p.cascade) /\ c # d) => Gradual(p.cascade, y.cascade)
    BY <2>3, <2>7
  <2> QED
    BY <1>1, <2>5, <2>8, <2>9
<1> QED
  BY <1>0, <1>2, <1>3, <1>4, <1>5, <1>6, <1>7, <1>8, <1>9, <1>10, <1>11, <1>12 DEF Processors

\* A reset makes a processor sound.
LEMMA ForgotModel ==
    ASSUME NEW p, NEW rate, NEW c \in Settings(p.kind), Making(p, rate, c)
    PROVE  LET q == ResetModel(p)
           IN  Sound(q, rate, c) /\ Alikes(q, p) /\ q.now = Unset
<1>0. p.kind \in Processors
  BY DEF Making
<1>1. PICK q : q = ResetModel(p)
  OBVIOUS
<1>2. CASE p.kind = "Cla76"
  <2>1. Cla76Inv(p, rate, c) /\ c \in Settings("Cla76")
    BY <1>2 DEF Making
  <2>2. PICK y, names : y = Cla76Reset(p) /\ names = {"ramp", "now", "mem", "coef", "key"}
    OBVIOUS
  <2>3. /\ Cla76Inv(y, rate, c) /\ Same(y, p, {"ramp", "now", "mem", "coef", "key"})
        /\ y.now = Unset /\ y.ramp = ResetRamps(p).ramp
        /\ y.mem = [n \in Cla76Memory |-> 0] /\ y.key = [n \in Cla76Keys |-> NoKey]
    BY <2>1, <2>2, Cla76Forgot
  <2>4. Same(y, p, names) /\ names \cap {"kind", "emu"} = {}
    BY <2>2, <2>3
  <2>5. Alikes(y, p)
    BY <2>4, SameSound
  <2>6. q = y
    BY <1>1, <1>2, <2>2 DEF ResetModel
  <2>7. y.kind = "Cla76"
    BY <1>2, <2>5 DEF Alikes
  <2>8. Sound(y, rate, c)
    BY <2>3, <2>7 DEF Sound, Processors
  <2> QED
    BY <1>1, <2>3, <2>5, <2>6, <2>8
<1>3. CASE p.kind = "Cla2a"
  <2>1. Cla2aInv(p, rate, c) /\ c \in Settings("Cla2a")
    BY <1>3 DEF Making
  <2>2. PICK y, names : y = Cla2aReset(p) /\ names = {"ramp", "now", "mem", "coef", "key"}
    OBVIOUS
  <2>3. /\ Cla2aInv(y, rate, c) /\ Same(y, p, {"ramp", "now", "mem", "coef", "key"})
        /\ y.now = Unset
    BY <2>1, <2>2, Cla2aForgot
  <2>4. Same(y, p, names) /\ names \cap {"kind", "emu"} = {}
    BY <2>2, <2>3
  <2>5. Alikes(y, p)
    BY <2>4, SameSound
  <2>6. q = y
    BY <1>1, <1>3, <2>2 DEF ResetModel
  <2>7. y.kind = "Cla2a"
    BY <1>3, <2>5 DEF Alikes
  <2>8. Sound(y, rate, c)
    BY <2>3, <2>7 DEF Sound, Processors
  <2> QED
    BY <1>1, <2>3, <2>5, <2>6, <2>8
<1>4. CASE p.kind = "Cla3a"
  <2>1. Cla3aInv(p, rate, c) /\ c \in Settings("Cla3a")
    BY <1>4 DEF Making
  <2>2. PICK y, names : y = Cla3aReset(p) /\ names = {"ramp", "now", "mem", "coef", "key"}
    OBVIOUS
  <2>3. /\ Cla3aInv(y, rate, c) /\ Same(y, p, {"ramp", "now", "mem", "coef", "key"})
        /\ y.now = Unset
    BY <2>1, <2>2, Cla3aForgot
  <2>4. Same(y, p, names) /\ names \cap {"kind", "emu"} = {}
    BY <2>2, <2>3
  <2>5. Alikes(y, p)
    BY <2>4, SameSound
  <2>6. q = y
    BY <1>1, <1>4, <2>2 DEF ResetModel
  <2>7. y.kind = "Cla3a"
    BY <1>4, <2>5 DEF Alikes
  <2>8. Sound(y, rate, c)
    BY <2>3, <2>7 DEF Sound, Processors
  <2> QED
    BY <1>1, <2>3, <2>5, <2>6, <2>8
<1>5. CASE p.kind = "Ssl"
  <2>1. SslInv(p, rate, c) /\ c \in Settings("Ssl")
    BY <1>5 DEF Making
  <2>2. PICK y, names : y = SslReset(p) /\ names = {"ramp", "now", "mem", "coef", "key"}
    OBVIOUS
  <2>3. /\ SslInv(y, rate, c) /\ Same(y, p, {"ramp", "now", "mem", "coef", "key"})
        /\ y.now = Unset
    BY <2>1, <2>2, SslForgot
  <2>4. Same(y, p, names) /\ names \cap {"kind", "emu"} = {}
    BY <2>2, <2>3
  <2>5. Alikes(y, p)
    BY <2>4, SameSound
  <2>6. q = y
    BY <1>1, <1>5, <2>2 DEF ResetModel
  <2>7. y.kind = "Ssl"
    BY <1>5, <2>5 DEF Alikes
  <2>8. Sound(y, rate, c)
    BY <2>3, <2>7 DEF Sound, Processors
  <2> QED
    BY <1>1, <2>3, <2>5, <2>6, <2>8
<1>6. CASE p.kind = "Saturation"
  <2>1. SaturationReady(p, rate, c) /\ c \in Settings("Saturation")
    BY <1>6 DEF Making
  <2>2. PICK y, names : y = SaturationReset(p) /\ names = {"ramp", "now", "mem"}
    OBVIOUS
  <2>3. /\ SaturationReady(y, rate, c) /\ Same(y, p, {"ramp", "now", "mem"})
        /\ y.now = Unset /\ y.mem = [n \in SaturationMemory |-> 0]
        /\ y.ramp = [ResetRamps(p).ramp EXCEPT
                       !.split = RampSetTarget(RampReset(RampSetTarget(
                           ResetRamps(p).ramp.split, 0)), c.split)]
    BY <2>1, <2>2, SaturationForgot
  <2>4. Same(y, p, names) /\ names \cap {"kind", "emu"} = {}
    BY <2>2, <2>3
  <2>5. Alikes(y, p)
    BY <2>4, SameSound
  <2>6. q = y
    BY <1>1, <1>6, <2>2 DEF ResetModel
  <2>7. y.kind = "Saturation"
    BY <1>6, <2>5 DEF Alikes
  <2>8. Sound(y, rate, c)
    BY <2>3, <2>7 DEF Sound, Processors
  <2> QED
    BY <1>1, <2>3, <2>5, <2>6, <2>8
<1>7. CASE p.kind = "Transient"
  <2>1. TransientInv(p, rate, c) /\ c \in Settings("Transient")
    BY <1>7 DEF Making
  <2>2. PICK y, names : y = TransientReset(p) /\ names = {"ramp", "now", "mem"}
    OBVIOUS
  <2>3. /\ TransientInv(y, rate, c) /\ Same(y, p, {"ramp", "now", "mem"})
        /\ y.now = Unset
    BY <2>1, <2>2, TransientForgot
  <2>4. Same(y, p, names) /\ names \cap {"kind", "emu"} = {}
    BY <2>2, <2>3
  <2>5. Alikes(y, p)
    BY <2>4, SameSound
  <2>6. q = y
    BY <1>1, <1>7, <2>2 DEF ResetModel
  <2>7. y.kind = "Transient"
    BY <1>7, <2>5 DEF Alikes
  <2>8. Sound(y, rate, c)
    BY <2>3, <2>7 DEF Sound, Processors
  <2> QED
    BY <1>1, <2>3, <2>5, <2>6, <2>8
<1>8. CASE p.kind = "Air"
  <2>1. AirInv(p, rate, c) /\ c \in Settings("Air")
    BY <1>8 DEF Making
  <2>2. PICK y, names : y = AirReset(p) /\ names = {"ramp", "now", "mem"}
    OBVIOUS
  <2>3. /\ AirInv(y, rate, c) /\ Same(y, p, {"ramp", "now", "mem"})
        /\ y.now = Unset
    BY <2>1, <2>2, AirForgot
  <2>4. Same(y, p, names) /\ names \cap {"kind", "emu"} = {}
    BY <2>2, <2>3
  <2>5. Alikes(y, p)
    BY <2>4, SameSound
  <2>6. q = y
    BY <1>1, <1>8, <2>2 DEF ResetModel
  <2>7. y.kind = "Air"
    BY <1>8, <2>5 DEF Alikes
  <2>8. Sound(y, rate, c)
    BY <2>3, <2>7 DEF Sound, Processors
  <2> QED
    BY <1>1, <2>3, <2>5, <2>6, <2>8
<1>9. CASE p.kind = "Thick"
  <2>1. ThickReady(p, rate, c) /\ c \in Settings("Thick")
    BY <1>9 DEF Making
  <2>2. PICK y, names : y = ThickReset(p) /\ names = {"ramp", "now", "mem"}
    OBVIOUS
  <2>3. /\ ThickReady(y, rate, c) /\ Same(y, p, {"ramp", "now", "mem"})
        /\ y.now = Unset
    BY <2>1, <2>2, ThickWiped
  <2>4. Same(y, p, names) /\ names \cap {"kind", "emu"} = {}
    BY <2>2, <2>3
  <2>5. Alikes(y, p)
    BY <2>4, SameSound
  <2>6. q = y
    BY <1>1, <1>9, <2>2 DEF ResetModel
  <2>7. y.kind = "Thick"
    BY <1>9, <2>5 DEF Alikes
  <2>8. Sound(y, rate, c)
    BY <2>3, <2>7 DEF Sound, Processors
  <2> QED
    BY <1>1, <2>3, <2>5, <2>6, <2>8
<1>10. CASE p.kind = "Leveler"
  <2>1. LevelerReady(p, rate, c) /\ c \in Settings("Leveler")
    BY <1>10 DEF Making
  <2>2. PICK y, names : y = LevelerReset(p) /\ names = {"ramp", "now", "mem"}
    OBVIOUS
  <2>3. /\ LevelerInv(y, rate, c) /\ Same(y, p, {"ramp", "now", "mem"})
        /\ y.now = Unset /\ y.ramp = ResetRamps(p).ramp
        /\ y.mem = [[n \in LevelerMemory |-> 0] EXCEPT
                       !.effective = c.manualGainDb, !.slow = c.manualGainDb]
    BY <2>1, <2>2, LevelerForgot
  <2>4. Same(y, p, names) /\ names \cap {"kind", "emu"} = {}
    BY <2>2, <2>3
  <2>5. Alikes(y, p)
    BY <2>4, SameSound
  <2>6. q = y
    BY <1>1, <1>10, <2>2 DEF ResetModel
  <2>7. y.kind = "Leveler"
    BY <1>10, <2>5 DEF Alikes
  <2>8. Sound(y, rate, c)
    BY <2>3, <2>7 DEF Sound, Processors
  <2> QED
    BY <1>1, <2>3, <2>5, <2>6, <2>8
<1>11. CASE p.kind = "Limiter"
  <2>1. LimiterReady(p, rate, c) /\ c \in Settings("Limiter")
    BY <1>11 DEF Making
  <2>2. PICK y, names : y = LimiterReset(p) /\ names = {"ramp", "now", "mem"}
    OBVIOUS
  <2>3. /\ LimiterReady(y, rate, c) /\ Same(y, p, {"ramp", "now", "mem"})
        /\ y.now = Unset
    BY <2>1, <2>2, LimiterWiped
  <2>4. Same(y, p, names) /\ names \cap {"kind", "emu"} = {}
    BY <2>2, <2>3
  <2>5. Alikes(y, p)
    BY <2>4, SameSound
  <2>6. q = y
    BY <1>1, <1>11, <2>2 DEF ResetModel
  <2>7. y.kind = "Limiter"
    BY <1>11, <2>5 DEF Alikes
  <2>8. Sound(y, rate, c)
    BY <2>3, <2>7 DEF Sound, Processors
  <2> QED
    BY <1>1, <2>3, <2>5, <2>6, <2>8
<1>12. CASE p.kind = "Cascade"
  BY <1>1, <1>12, CascadeForgot, CascadeKind DEF Making, ResetModel, CascadeInv, Sound,
     Processors, Alikes
<1> QED
  BY <1>0, <1>2, <1>3, <1>4, <1>5, <1>6, <1>7, <1>8, <1>9, <1>10, <1>11, <1>12 DEF Processors

\* A sample keeps a processor sound, makes its coefficients current and moves no
\* share of a cascade by more than a step.
LEMMA RanModel ==
    ASSUME NEW p, NEW rate, NEW c, Sound(p, rate, c), NEW loud \in 0..2
    PROVE  LET q == RunModel(p, loud)
           IN  /\ Sound(q, rate, c) /\ Alikes(q, p) /\ Current(q)
               /\ p.kind = "Cascade" => Gradual(p.cascade, q.cascade)
<1>0. p.kind \in Processors
  BY DEF Sound
<1>1. PICK q : q = RunModel(p, loud)
  OBVIOUS
<1>2. CASE p.kind = "Cla76"
  <2>1. Cla76Inv(p, rate, c)
    BY <1>2 DEF Sound
  <2>2. PICK y, names : y = Cla76Process(p, loud) /\ names = {"ramp", "now", "mem", "coef", "key"}
    OBVIOUS
  <2>3. /\ Cla76Inv(y, rate, c) /\ Same(y, p, {"ramp", "now", "mem", "coef", "key"})
        /\ y.coef = Cla76Wanted(y, y.now)
    BY <2>1, <2>2, Cla76Ran
  <2>4. Same(y, p, names) /\ names \cap {"kind", "emu"} = {}
    BY <2>2, <2>3
  <2>5. Alikes(y, p)
    BY <2>4, SameSound
  <2>6. q = y
    BY <1>1, <1>2, <2>2 DEF RunModel
  <2>7. y.kind = "Cla76"
    BY <1>2, <2>5 DEF Alikes
  <2>8. WantedOf(y) = Cla76Wanted(y, y.now)
    BY <2>7 DEF WantedOf
  <2>9. Current(y)
    BY <2>3, <2>7, <2>8 DEF Current
  <2>10. Sound(y, rate, c)
    BY <2>3, <2>7 DEF Sound, Processors
  <2> QED
    BY <1>1, <1>2, <2>5, <2>6, <2>9, <2>10
<1>3. CASE p.kind = "Cla2a"
  <2>1. Cla2aInv(p, rate, c)
    BY <1>3 DEF Sound
  <2>2. PICK y, names : y = Cla2aProcess(p, loud) /\ names = {"ramp", "now", "mem", "coef", "key"}
    OBVIOUS
  <2>3. /\ Cla2aInv(y, rate, c) /\ Same(y, p, {"ramp", "now", "mem", "coef", "key"})
        /\ y.coef = Cla2aWanted(y, y.now)
    BY <2>1, <2>2, Cla2aRan
  <2>4. Same(y, p, names) /\ names \cap {"kind", "emu"} = {}
    BY <2>2, <2>3
  <2>5. Alikes(y, p)
    BY <2>4, SameSound
  <2>6. q = y
    BY <1>1, <1>3, <2>2 DEF RunModel
  <2>7. y.kind = "Cla2a"
    BY <1>3, <2>5 DEF Alikes
  <2>8. WantedOf(y) = Cla2aWanted(y, y.now)
    BY <2>7 DEF WantedOf
  <2>9. Current(y)
    BY <2>3, <2>7, <2>8 DEF Current
  <2>10. Sound(y, rate, c)
    BY <2>3, <2>7 DEF Sound, Processors
  <2> QED
    BY <1>1, <1>3, <2>5, <2>6, <2>9, <2>10
<1>4. CASE p.kind = "Cla3a"
  <2>1. Cla3aInv(p, rate, c)
    BY <1>4 DEF Sound
  <2>2. PICK y, names : y = Cla3aProcess(p, loud) /\ names = {"ramp", "now", "mem", "coef", "key"}
    OBVIOUS
  <2>3. /\ Cla3aInv(y, rate, c) /\ Same(y, p, {"ramp", "now", "mem", "coef", "key"})
        /\ y.coef = Cla3aWanted(y, y.now)
    BY <2>1, <2>2, Cla3aRan
  <2>4. Same(y, p, names) /\ names \cap {"kind", "emu"} = {}
    BY <2>2, <2>3
  <2>5. Alikes(y, p)
    BY <2>4, SameSound
  <2>6. q = y
    BY <1>1, <1>4, <2>2 DEF RunModel
  <2>7. y.kind = "Cla3a"
    BY <1>4, <2>5 DEF Alikes
  <2>8. WantedOf(y) = Cla3aWanted(y, y.now)
    BY <2>7 DEF WantedOf
  <2>9. Current(y)
    BY <2>3, <2>7, <2>8 DEF Current
  <2>10. Sound(y, rate, c)
    BY <2>3, <2>7 DEF Sound, Processors
  <2> QED
    BY <1>1, <1>4, <2>5, <2>6, <2>9, <2>10
<1>5. CASE p.kind = "Ssl"
  <2>1. SslInv(p, rate, c)
    BY <1>5 DEF Sound
  <2>2. PICK y, names : y = SslProcess(p, loud) /\ names = {"ramp", "now", "mem", "coef", "key"}
    OBVIOUS
  <2>3. /\ SslInv(y, rate, c) /\ Same(y, p, {"ramp", "now", "mem", "coef", "key"})
        /\ y.coef = SslWanted(y, y.now)
    BY <2>1, <2>2, SslRan
  <2>4. Same(y, p, names) /\ names \cap {"kind", "emu"} = {}
    BY <2>2, <2>3
  <2>5. Alikes(y, p)
    BY <2>4, SameSound
  <2>6. q = y
    BY <1>1, <1>5, <2>2 DEF RunModel
  <2>7. y.kind = "Ssl"
    BY <1>5, <2>5 DEF Alikes
  <2>8. WantedOf(y) = SslWanted(y, y.now)
    BY <2>7 DEF WantedOf
  <2>9. Current(y)
    BY <2>3, <2>7, <2>8 DEF Current
  <2>10. Sound(y, rate, c)
    BY <2>3, <2>7 DEF Sound, Processors
  <2> QED
    BY <1>1, <1>5, <2>5, <2>6, <2>9, <2>10
<1>6. CASE p.kind = "Saturation"
  <2>1. SaturationReady(p, rate, c)
    BY <1>6 DEF Sound
  <2>2. PICK y, names : y = SaturationProcess(p, loud) /\ names = {"ramp", "now", "mem"}
    OBVIOUS
  <2>3. /\ SaturationReady(y, rate, c) /\ Same(y, p, {"ramp", "now", "mem"})
        /\ y.coef = SaturationWanted(y.now)
    BY <2>1, <2>2, SaturationRan
  <2>4. Same(y, p, names) /\ names \cap {"kind", "emu"} = {}
    BY <2>2, <2>3
  <2>5. Alikes(y, p)
    BY <2>4, SameSound
  <2>6. q = y
    BY <1>1, <1>6, <2>2 DEF RunModel
  <2>7. y.kind = "Saturation"
    BY <1>6, <2>5 DEF Alikes
  <2>8. WantedOf(y) = SaturationWanted(y.now)
    BY <2>7 DEF WantedOf
  <2>9. Current(y)
    BY <2>3, <2>7, <2>8 DEF Current
  <2>10. Sound(y, rate, c)
    BY <2>3, <2>7 DEF Sound, Processors
  <2> QED
    BY <1>1, <1>6, <2>5, <2>6, <2>9, <2>10
<1>7. CASE p.kind = "Transient"
  <2>1. TransientInv(p, rate, c)
    BY <1>7 DEF Sound
  <2>2. PICK y, names : y = TransientProcess(p, loud) /\ names = {"ramp", "now", "mem"}
    OBVIOUS
  <2>3. /\ TransientInv(y, rate, c) /\ Same(y, p, {"ramp", "now", "mem"})
        /\ y.coef = TransientWanted(y.now)
    BY <2>1, <2>2, TransientRan
  <2>4. Same(y, p, names) /\ names \cap {"kind", "emu"} = {}
    BY <2>2, <2>3
  <2>5. Alikes(y, p)
    BY <2>4, SameSound
  <2>6. q = y
    BY <1>1, <1>7, <2>2 DEF RunModel
  <2>7. y.kind = "Transient"
    BY <1>7, <2>5 DEF Alikes
  <2>8. WantedOf(y) = TransientWanted(y.now)
    BY <2>7 DEF WantedOf
  <2>9. Current(y)
    BY <2>3, <2>7, <2>8 DEF Current
  <2>10. Sound(y, rate, c)
    BY <2>3, <2>7 DEF Sound, Processors
  <2> QED
    BY <1>1, <1>7, <2>5, <2>6, <2>9, <2>10
<1>8. CASE p.kind = "Air"
  <2>1. AirInv(p, rate, c)
    BY <1>8 DEF Sound
  <2>2. PICK y, names : y = AirProcess(p, loud) /\ names = {"ramp", "now", "mem"}
    OBVIOUS
  <2>3. /\ AirInv(y, rate, c) /\ Same(y, p, {"ramp", "now", "mem"})
        /\ y.coef = AirWanted(y.now)
    BY <2>1, <2>2, AirRan
  <2>4. Same(y, p, names) /\ names \cap {"kind", "emu"} = {}
    BY <2>2, <2>3
  <2>5. Alikes(y, p)
    BY <2>4, SameSound
  <2>6. q = y
    BY <1>1, <1>8, <2>2 DEF RunModel
  <2>7. y.kind = "Air"
    BY <1>8, <2>5 DEF Alikes
  <2>8. WantedOf(y) = AirWanted(y.now)
    BY <2>7 DEF WantedOf
  <2>9. Current(y)
    BY <2>3, <2>7, <2>8 DEF Current
  <2>10. Sound(y, rate, c)
    BY <2>3, <2>7 DEF Sound, Processors
  <2> QED
    BY <1>1, <1>8, <2>5, <2>6, <2>9, <2>10
<1>9. CASE p.kind = "Thick"
  <2>1. ThickReady(p, rate, c)
    BY <1>9 DEF Sound
  <2>2. PICK y, names : y = ThickProcess(p, loud) /\ names = {"ramp", "now", "mem"}
    OBVIOUS
  <2>3. /\ ThickReady(y, rate, c) /\ Same(y, p, {"ramp", "now", "mem"})
        /\ y.coef = ThickWanted(y.now)
    BY <2>1, <2>2, ThickRan
  <2>4. Same(y, p, names) /\ names \cap {"kind", "emu"} = {}
    BY <2>2, <2>3
  <2>5. Alikes(y, p)
    BY <2>4, SameSound
  <2>6. q = y
    BY <1>1, <1>9, <2>2 DEF RunModel
  <2>7. y.kind = "Thick"
    BY <1>9, <2>5 DEF Alikes
  <2>8. WantedOf(y) = ThickWanted(y.now)
    BY <2>7 DEF WantedOf
  <2>9. Current(y)
    BY <2>3, <2>7, <2>8 DEF Current
  <2>10. Sound(y, rate, c)
    BY <2>3, <2>7 DEF Sound, Processors
  <2> QED
    BY <1>1, <1>9, <2>5, <2>6, <2>9, <2>10
<1>10. CASE p.kind = "Leveler"
  <2>1. LevelerInv(p, rate, c)
    BY <1>10 DEF Sound
  <2>2. PICK y, names : y = LevelerProcess(p, loud) /\ names = {"ramp", "now", "mem"}
    OBVIOUS
  <2>3. /\ LevelerInv(y, rate, c) /\ Same(y, p, {"ramp", "now", "mem"})
        /\ y.coef = LevelerWanted(y.now)
    BY <2>1, <2>2, LevelerRan
  <2>4. Same(y, p, names) /\ names \cap {"kind", "emu"} = {}
    BY <2>2, <2>3
  <2>5. Alikes(y, p)
    BY <2>4, SameSound
  <2>6. q = y
    BY <1>1, <1>10, <2>2 DEF RunModel
  <2>7. y.kind = "Leveler"
    BY <1>10, <2>5 DEF Alikes
  <2>8. WantedOf(y) = LevelerWanted(y.now)
    BY <2>7 DEF WantedOf
  <2>9. Current(y)
    BY <2>3, <2>7, <2>8 DEF Current
  <2>10. Sound(y, rate, c)
    BY <2>3, <2>7 DEF Sound, Processors
  <2> QED
    BY <1>1, <1>10, <2>5, <2>6, <2>9, <2>10
<1>11. CASE p.kind = "Limiter"
  <2>1. LimiterReady(p, rate, c)
    BY <1>11 DEF Sound
  <2>2. PICK y, names : y = LimiterProcess(p, loud) /\ names = {"ramp", "now", "mem"}
    OBVIOUS
  <2>3. /\ LimiterReady(y, rate, c) /\ Same(y, p, {"ramp", "now", "mem"})
        /\ y.coef = LimiterWanted(y.now)
    BY <2>1, <2>2, LimiterRan
  <2>4. Same(y, p, names) /\ names \cap {"kind", "emu"} = {}
    BY <2>2, <2>3
  <2>5. Alikes(y, p)
    BY <2>4, SameSound
  <2>6. q = y
    BY <1>1, <1>11, <2>2 DEF RunModel
  <2>7. y.kind = "Limiter"
    BY <1>11, <2>5 DEF Alikes
  <2>8. WantedOf(y) = LimiterWanted(y.now)
    BY <2>7 DEF WantedOf
  <2>9. Current(y)
    BY <2>3, <2>7, <2>8 DEF Current
  <2>10. Sound(y, rate, c)
    BY <2>3, <2>7 DEF Sound, Processors
  <2> QED
    BY <1>1, <1>11, <2>5, <2>6, <2>9, <2>10
<1>12. CASE p.kind = "Cascade"
  <2>1. CascadeInv(p, rate, c)
    BY <1>12 DEF Sound
  <2>2. PICK y : y = [p EXCEPT !.now = << >>, !.cascade = CascadeProcess(@, loud)]
    OBVIOUS
  <2>3. CascadeInv(y, rate, c) /\ Gradual(p.cascade, y.cascade)
    BY <2>1, <2>2, CascadeRan
  <2>4. q = y
    BY <1>1, <1>12, <2>2 DEF RunModel
  <2>5. y.kind = "Cascade" /\ y.emu = FALSE /\ p.emu = FALSE
    BY <2>1, <2>3, CascadeKind DEF CascadeInv
  <2>6. Sound(y, rate, c) /\ Alikes(y, p) /\ Current(y)
    BY <1>12, <2>3, <2>5, CascadeCurrent DEF Sound, Processors, Alikes
  <2> QED
    BY <1>1, <2>3, <2>4, <2>6
<1> QED
  BY <1>0, <1>2, <1>3, <1>4, <1>5, <1>6, <1>7, <1>8, <1>9, <1>10, <1>11, <1>12 DEF Processors

\* Two processors that were given the same controls are alike once reset, and sound alike.
LEMMA ResetsAlikeModel ==
    ASSUME NEW p, NEW q, NEW rate, NEW c \in Settings(p.kind),
           Making(p, rate, c), Making(q, rate, c), Alikes(q, p), NEW loud \in 0..2
    PROVE  /\ ResetModel(p).mem = ResetModel(q).mem
           /\ RunModel(ResetModel(p), loud) = RunModel(ResetModel(q), loud)
<1>0. p.kind \in Processors /\ q.kind = p.kind /\ q.emu = p.emu
  BY DEF Making, Alikes
<1>2. CASE p.kind = "Cla76"
  <2>2. ResetModel(p) = Cla76Reset(p) /\ ResetModel(q) = Cla76Reset(q)
    BY <1>0, <1>2 DEF ResetModel
  <2>3. PICK x, y : x = Cla76Reset(p) /\ y = Cla76Reset(q)
    OBVIOUS
  <2>4. x.mem = y.mem /\ Cla76Process(x, loud) = Cla76Process(y, loud)
    BY <1>0, <1>2, <2>3, Cla76ResetsAlike DEF Making
  <2>5. x.kind = "Cla76" /\ y.kind = "Cla76"
    BY <1>0, <1>2, <2>2, <2>3, ForgotModel DEF Alikes
  <2> QED
    BY <2>2, <2>3, <2>4, <2>5 DEF RunModel
<1>3. CASE p.kind = "Cla2a"
  BY <1>0, <1>3, Cla2aResetsAlike DEF Making, ResetModel
<1>4. CASE p.kind = "Cla3a"
  BY <1>0, <1>4, Cla3aResetsAlike DEF Making, ResetModel
<1>5. CASE p.kind = "Ssl"
  BY <1>0, <1>5, SslResetsAlike DEF Making, ResetModel
<1>6. CASE p.kind = "Saturation"
  BY <1>0, <1>6, SaturationResetsAlike DEF Making, ResetModel
<1>7. CASE p.kind = "Transient"
  BY <1>0, <1>7, TransientResetsAlike DEF Making, ResetModel
<1>8. CASE p.kind = "Air"
  BY <1>0, <1>8, AirResetsAlike DEF Making, ResetModel, AirInv
<1>9. CASE p.kind = "Thick"
  BY <1>0, <1>9, ThickResetsAlike DEF Making, ResetModel
<1>10. CASE p.kind = "Leveler"
  BY <1>0, <1>10, LevelerResetsAlike DEF Making, ResetModel
<1>11. CASE p.kind = "Limiter"
  BY <1>0, <1>11, LimiterResetsAlike DEF Making, ResetModel
<1>12. CASE p.kind = "Cascade"
  BY <1>0, <1>12, CascadeResetsAlike DEF Making, ResetModel
<1> QED
  BY <1>0, <1>2, <1>3, <1>4, <1>5, <1>6, <1>7, <1>8, <1>9, <1>10, <1>11, <1>12 DEF Processors

-----------------------------------------------------------------------------
(* The invariant and the theorems.                                           *)

\* The processor is one of those explored, in the shape and with the contract of
\* its kind for the rate and the controls it was given last, and its coefficients
\* are those of what it read.
IInv ==
    /\ proc.kind \in Models /\ proc.emu \in Modes(proc.kind)
    /\ proc.rate \in Rates /\ proc.set \in Settings(proc.kind)
    /\ Sound(proc, proc.rate, proc.set)
    /\ Current(proc)

\* A contract names the rate and the controls, and bounds the ramps.
LEMMA SoundSays ==
    ASSUME NEW p, NEW rate, NEW c, Sound(p, rate, c)
    PROVE  /\ p.rate = rate /\ p.set = c
           /\ \A n \in DOMAIN p.ramp : RampIn(p.ramp[n], Gains)
<1>1. p.kind \in Processors
  BY DEF Sound
<1>2. \A r : RampIn(r, Steps) => RampIn(r, Gains)
  BY DEF RampIn, Spans, Gains
<1>3. CASE p.kind = "Cla76"
  <2>1. p.rate = rate /\ p.set = c /\ Shape(p, Cla76New(p.emu), Steps)
    BY <1>3 DEF Sound, Cla76Inv, Cla76Sound
  <2> QED
    BY <1>2, <2>1 DEF Shape, Has
<1>4. CASE p.kind = "Cla2a"
  <2>1. p.rate = rate /\ p.set = c /\ Shape(p, Cla2aNew(p.emu), Steps)
    BY <1>4 DEF Sound, Cla2aInv, OpticalInv
  <2> QED
    BY <1>2, <2>1 DEF Shape, Has
<1>5. CASE p.kind = "Cla3a"
  <2>1. p.rate = rate /\ p.set = c /\ Shape(p, Cla3aNew(p.emu), Steps)
    BY <1>5 DEF Sound, Cla3aInv, OpticalInv
  <2> QED
    BY <1>2, <2>1 DEF Shape, Has
<1>6. CASE p.kind = "Ssl"
  <2>1. p.rate = rate /\ p.set = c /\ Shape(p, SslNew(p.emu), Steps)
    BY <1>6 DEF Sound, SslInv, SslSound
  <2> QED
    BY <1>2, <2>1 DEF Shape, Has
<1>7. CASE p.kind = "Saturation"
  <2>1. p.rate = rate /\ p.set = c /\ Shape(p, SaturationNew, Steps)
    BY <1>7 DEF Sound, SaturationReady, Ready
  <2> QED
    BY <1>2, <2>1 DEF Shape, Has
<1>8. CASE p.kind = "Transient"
  <2>1. p.rate = rate /\ p.set = c /\ Shape(p, TransientNew, Steps)
    BY <1>8 DEF Sound, TransientInv, Ready
  <2> QED
    BY <1>2, <2>1 DEF Shape, Has
<1>9. CASE p.kind = "Air"
  <2>1. p.rate = rate /\ p.set = c /\ Shape(p, AirNew, Steps)
    BY <1>9 DEF Sound, AirInv, AirReady, Ready
  <2> QED
    BY <1>2, <2>1 DEF Shape, Has
<1>10. CASE p.kind = "Thick"
  <2>1. p.rate = rate /\ p.set = c /\ Shape(p, ThickNew, Steps)
    BY <1>10 DEF Sound, ThickReady, Ready
  <2> QED
    BY <1>2, <2>1 DEF Shape, Has
<1>11. CASE p.kind = "Leveler"
  <2>1. p.rate = rate /\ p.set = c /\ Shape(p, LevelerNew, Gains)
    BY <1>11 DEF Sound, LevelerInv, LevelerReady, Ready
  <2> QED
    BY <1>2, <2>1 DEF Shape, Has
<1>12. CASE p.kind = "Limiter"
  <2>1. p.rate = rate /\ p.set = c /\ Shape(p, LimiterNew, Steps)
    BY <1>12 DEF Sound, LimiterReady, Ready
  <2> QED
    BY <1>2, <2>1 DEF Shape, Has
<1>13. CASE p.kind = "Cascade"
  BY <1>13, CascadeBlank DEF Sound, CascadeInv, CascadeAlone, CascadeParts
<1> QED
  BY <1>1, <1>3, <1>4, <1>5, <1>6, <1>7, <1>8, <1>9, <1>10, <1>11, <1>12, <1>13 DEF Processors

\* A processor that is prepared, given its controls and reset is sound, however it
\* was before; and it has not run.
LEMMA PreparedIsSound ==
    ASSUME NEW p, Formed(p), NEW rate, NEW c \in Settings(p.kind)
    PROVE  LET q == Prepared(p, rate, c)
           IN  Sound(q, rate, c) /\ Alikes(q, p) /\ q.now = Unset /\ Current(q)
BY PreparedIsMade, ForgotModel DEF Alikes, Prepared, Current

\* The runtime starts with a processor prepared, given its controls and reset.
LEMMA InvariantBegins == Init => IInv
<1> SUFFICES ASSUME Init PROVE IInv
  OBVIOUS
<1>0. PICK model \in Models : \E emu \in Modes(model), c \in Settings(model), rate \in Rates :
                                proc = Prepared(New(model, emu), rate, c)
  BY DEF Init
<1>1. PICK emu \in Modes(model), c \in Settings(model), rate \in Rates :
        proc = Prepared(New(model, emu), rate, c)
  BY <1>0
<1>2. model \in Processors
  BY ModelAssumption
<1>3. PICK p : p = New(model, emu)
  OBVIOUS
<1>4. Formed(p) /\ p.kind = model /\ p.emu = emu
  BY <1>2, <1>3, NewIsFormed
<1>5. c \in Settings(p.kind) /\ proc = Prepared(p, rate, c)
  BY <1>1, <1>3, <1>4
<1>6. Sound(proc, rate, c) /\ Alikes(proc, p) /\ Current(proc)
  BY <1>4, <1>5, PreparedIsSound
<1>7. proc.rate = rate /\ proc.set = c
  BY <1>6, SoundSays
<1>8. proc.kind = model /\ proc.emu = emu
  BY <1>4, <1>6 DEF Alikes
<1> QED
  BY <1>6, <1>7, <1>8 DEF IInv

\* One step per call of the device.
LEMMA InvariantStays == IInv /\ [Next]_vars => IInv'
<1> SUFFICES ASSUME IInv, [Next]_vars PROVE IInv'
  OBVIOUS
<1>1. PICK p, q, rate, c : p = proc /\ q = proc' /\ rate = proc.rate /\ c = proc.set
  OBVIOUS
<1>2. /\ p.kind \in Models /\ p.emu \in Modes(p.kind) /\ rate \in Rates
      /\ c \in Settings(p.kind) /\ Sound(p, rate, c) /\ Current(p)
  BY <1>1 DEF IInv
<1>3. ASSUME NEW speed \in Rates, NEW d \in Settings(p.kind), Sound(q, speed, d), Alikes(q, p), Current(q)
      PROVE  IInv'
  BY <1>1, <1>2, <1>3, SoundSays DEF Alikes, IInv, Sound, Current
<1>4. ASSUME NEW speed \in Rates, Prepare(speed) PROVE IInv'
  BY <1>1, <1>2, <1>3, <1>4, SoundIsFormed, PreparedIsSound DEF Prepare
<1>5. CASE Reset
  BY <1>1, <1>2, <1>3, <1>5, SoundIsMade, ForgotModel DEF Reset, Current
<1>6. ASSUME NEW d \in Settings(p.kind), SetControls(d) PROVE IInv'
  BY <1>1, <1>2, <1>3, <1>6, KeptModel DEF SetControls
<1>7. ASSUME NEW loud \in 0..2, Process(loud) PROVE IInv'
  BY <1>1, <1>2, <1>3, <1>7, RanModel DEF Process
<1>8. CASE UNCHANGED vars
  BY <1>1, <1>2, <1>3, <1>8 DEF vars, Alikes
<1> QED
  BY <1>1, <1>4, <1>5, <1>6, <1>7, <1>8 DEF Next

\* However a processor is prepared, set, run and reset, it keeps the shape and the
\* contract of its kind (the Prepare, Reset, SetControls and Process of each class).
THEOREM Invariance == Spec => []IInv
<1>1. Init => IInv
  BY InvariantBegins
<1>2. IInv /\ [Next]_vars => IInv'
  BY InvariantStays
<1> QED
  BY <1>1, <1>2, PTL DEF Spec

\* The cached keys of a processor never make it skip a computation it needs: the
\* coefficients of a block are those of the controls, mode and rate it read.
THEOREM CoefficientsAreCurrent == Spec => []CoefficientsCurrent
<1>1. IInv => CoefficientsCurrent
  BY DEF IInv, Current, CoefficientsCurrent
<1> QED
  BY <1>1, Invariance, PTL

\* A Reset leaves nothing of the past: what it leaves is, and sounds, like a
\* processor made anew for the same mode, rate and controls.
THEOREM ResetsForget == Spec => []ResetForgets
<1>1. ASSUME IInv PROVE ResetForgets
  <2>1. PICK p, rate, c : p = proc /\ rate = proc.rate /\ c = proc.set
    OBVIOUS
  <2>2. /\ p.kind \in Processors /\ p.emu \in Modes(p.kind) /\ c \in Settings(p.kind)
        /\ Sound(p, rate, c)
    BY <1>1, <2>1, ModelAssumption DEF IInv
  <2>3. PICK n : n = New(p.kind, p.emu)
    OBVIOUS
  <2>4. Formed(n) /\ n.kind = p.kind /\ n.emu = p.emu
    BY <2>2, <2>3, NewIsFormed
  <2>5. PICK x : x = SetModel(PrepareModel(n, rate), c)
    OBVIOUS
  <2>6. Making(x, rate, c) /\ Alikes(x, n)
    BY <2>2, <2>4, <2>5, PreparedIsMade
  <2>7. Making(p, rate, c)
    BY <2>2, SoundIsMade
  <2>8. Alikes(x, p)
    BY <2>4, <2>6 DEF Alikes
  <2>9. PICK none \in 0..2 : none = 0
    OBVIOUS
  <2>11. PICK past, twin : past = ResetModel(p) /\ twin = ResetModel(x)
    OBVIOUS
  <2>13. past.mem = twin.mem /\ RunModel(past, 0) = RunModel(twin, 0)
    BY <2>2, <2>6, <2>7, <2>8, <2>9, <2>11, ResetsAlikeModel
  <2> QED
    BY <2>1, <2>3, <2>5, <2>11, <2>13, Zenon DEF ResetForgets, Prepared
<1> QED
  BY <1>1, Invariance, PTL

\* Handing the gain over between the leveler and the manual ramp never makes it
\* jump, and its slow and its fast part are the gain applied (Process, SetControls).
THEOREM LevelerIsSeamless == Spec => []LevelerSeamless
<1>1. ASSUME IInv PROVE LevelerSeamless
  BY <1>1 DEF LevelerSeamless, IInv, Sound, LevelerInv, LevelerJoins, LevelerGains
<1> QED
  BY <1>1, Invariance, PTL

\* The ramps and the leveler's gain stay in their ranges, the range left for the
\* fast part is never empty, and values kept side by side agree.
THEOREM ValuesStayInRange == Spec => []ValuesInRange
<1>1. ASSUME IInv PROVE ValuesInRange
  <2>1. Sound(proc, proc.rate, proc.set) /\ proc.rate \in Rates /\ proc.set \in Settings(proc.kind)
    BY <1>1 DEF IInv
  <2>2. ASSUME NEW n \in DOMAIN proc.ramp
        PROVE  /\ proc.ramp[n].left \in 0..RampLength
               /\ \E low, high \in ControlLevels \cup {0, MinimumGainDb, MaximumGainDb} :
                    proc.ramp[n].current \in low..high /\ proc.ramp[n].target \in low..high
    BY <2>1, SoundSays DEF Gains, Steps, RampIn, Spans
  <2>3. proc.kind = "Air" => proc.mem.linearLevelGain = proc.mem.inputPeak
    BY <2>1 DEF Sound, AirInv
  <2>4. proc.kind = "Transient" => proc.mem.peakDb = proc.mem.peak
    BY <2>1 DEF Sound, TransientInv, TransientAgrees
  <2>6. ASSUME NEW slow \in MinimumGainDb..MaximumGainDb
        PROVE  Higher(-MaximumFastCorrectionDb, MinimumGainDb - slow)
                 <= Lower(MaximumFastCorrectionDb, MaximumGainDb - slow)
    BY GainAssumption DEF Higher, Lower
  <2> QED
    BY <2>1, <2>2, <2>3, <2>4, <2>6 DEF ValuesInRange, Sound, LevelerInv, LevelerGains
<1> QED
  BY <1>1, Invariance, PTL

\* No sample and no change of the filter moves a path's share of the output by more
\* than a step, but for a change during a crossfade (FilterCascade::setParameters).
THEOREM CrossfadesAreGradual == Spec => CrossfadeGradual
<1> DEFINE Smooth ==
      (proc.kind = "Cascade" /\ proc'.now # Unset /\
       (proc'.set = proc.set \/ ~Transitioning(proc.cascade))) =>
         Gradual(proc.cascade, proc'.cascade)
<1>1. ASSUME IInv, Next PROVE Smooth
  <2>1. PICK p, q, rate, c : p = proc /\ q = proc' /\ rate = proc.rate /\ c = proc.set
    OBVIOUS
  <2>2. c \in Settings(p.kind) /\ Sound(p, rate, c)
    BY <1>1, <2>1 DEF IInv
  <2> SUFFICES ASSUME p.kind = "Cascade", q.now # Unset, q.set = c \/ ~Transitioning(p.cascade)
               PROVE  Gradual(p.cascade, q.cascade)
    BY <2>1
  <2>3. ASSUME NEW speed \in Rates, Prepare(speed) PROVE FALSE
    BY <2>1, <2>2, <2>3, SoundIsFormed, PreparedIsSound DEF Prepare
  <2>4. CASE Reset
    BY <2>1, <2>2, <2>4, SoundIsMade, ForgotModel DEF Reset
  <2>5. ASSUME NEW d \in Settings(p.kind), SetControls(d) PROVE Gradual(p.cascade, q.cascade)
    BY <2>1, <2>2, <2>5, KeptModel, SoundSays DEF SetControls
  <2>6. ASSUME NEW loud \in 0..2, Process(loud) PROVE Gradual(p.cascade, q.cascade)
    <3>1. q = RunModel(p, loud)
      BY <2>1, <2>6 DEF Process
    <3> QED
      BY <2>2, <3>1, RanModel
  <2> QED
    BY <1>1, <2>1, <2>3, <2>4, <2>5, <2>6 DEF Next
<1>2. IInv /\ [Next]_vars =>
        [ (proc.kind = "Cascade" /\ proc'.now # Unset /\
           (proc'.set = proc.set \/ ~Transitioning(proc.cascade))) =>
            LET before == Shares(proc.cascade)
                after  == Shares(proc'.cascade)
                share(f, path) == IF path \in DOMAIN f THEN f[path] ELSE 0
            IN  \A path \in DOMAIN before \cup DOMAIN after :
                  share(after, path) - share(before, path) \in -1..1 ]_vars
  BY <1>1 DEF Gradual, ShareOf
<1> QED
  BY <1>2, Invariance, PTL DEF Spec, CrossfadeGradual
=============================================================================
