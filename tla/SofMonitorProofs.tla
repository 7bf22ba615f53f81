------------------------- MODULE SofMonitorProofs -------------------------
(***************************************************************************)
(* Theorems about SofMonitor, for any thresholds, delays and speeds'       *)
(* parameters.                                                             *)
(***************************************************************************)
EXTENDS SofMonitor, TLAPS

-----------------------------------------------------------------------------
(* The latest deadline there is *)

LEMMA LargerOne ==
  ASSUME NEW S \in SUBSET Int, \E x \in S : \A y \in S : x >= y, NEW z \in Int
  PROVE  \E x \in S \cup {z} : \A y \in S \cup {z} : x >= y
<1>1. PICK x \in S : \A y \in S : x >= y
  OBVIOUS
<1>2. CASE x >= z
  BY <1>1, <1>2
<1>3. CASE z > x
  <2>1. \A y \in S \cup {z} : z >= y
    BY <1>1, <1>3
  <2> QED
    BY <2>1
<1> QED
  BY <1>1, <1>2, <1>3

LEMMA ParamsFields ==
  ASSUME NEW s \in Speed
  PROVE  /\ Params[s].expected \in Nat /\ Params[s].expected > 0
         /\ Params[s].stable \in Nat /\ Params[s].frames \in Nat /\ Params[s].frames > 0
         /\ Params[s].threshold \in Nat /\ Params[s].threshold > 0
         /\ Params[s].slowThreshold \in Nat /\ Params[s].slowThreshold > 0
         /\ Params[s].cap \in Nat /\ Params[s].cap > 0
         /\ Params[s].decay \in Nat /\ Params[s].slowDecay \in Nat
<1>1. \A f \in DOMAIN NoParams : Params[s][f] \in Nat \ {0}
  BY ParamsAssumption
<1>2. {"expected", "stable", "frames", "threshold", "slowThreshold", "cap", "decay", "slowDecay"}
        \subseteq DOMAIN NoParams
  BY DEF NoParams
<1> QED
  BY <1>1, <1>2

\* A deadline that any of the delays sets now, or set a moment ago, is a time.
LEMMA Deadline ==
  /\ Latest \in Nat
  /\ \A d \in {Holdoff, Confirm, Recovery, WarmupTimeout, WarmupGrace, SpeedWindow,
               SuspendWindow, EnumTimeout} : d <= Latest
  /\ \A s \in Speed : Params[s].expected * NoSofFactor <= Latest
<1> DEFINE HasMax(S) == \E x \in S : \A y \in S : x >= y
           H == Params["HS"].expected * NoSofFactor
           F == Params["FS"].expected * NoSofFactor
           S1 == {Holdoff}
           S2 == S1 \cup {Confirm}
           S3 == S2 \cup {Recovery}
           S4 == S3 \cup {WarmupTimeout}
           S5 == S4 \cup {WarmupGrace}
           S6 == S5 \cup {SpeedWindow}
           S7 == S6 \cup {SuspendWindow}
           S8 == S7 \cup {EnumTimeout}
           S9 == S8 \cup {H}
           S == S9 \cup {F}
<1>1. H \in Nat /\ F \in Nat
  <2>1. Params["HS"].expected \in Nat /\ Params["FS"].expected \in Nat /\ NoSofFactor \in Nat
    BY ParamsFields, TimeAssumption DEF Speed
  <2> QED
    BY <2>1
<1> HIDE DEF H, F
<1>2. {Holdoff, Confirm, Recovery, WarmupTimeout, WarmupGrace, SpeedWindow, SuspendWindow,
       EnumTimeout, H, F} \subseteq Nat
  BY <1>1, TimeAssumption
<1>3. HasMax(S1)
  BY <1>2
<1>4. HasMax(S2)
  BY <1>2, <1>3, LargerOne
<1>5. HasMax(S3)
  BY <1>2, <1>4, LargerOne
<1>6. HasMax(S4)
  BY <1>2, <1>5, LargerOne
<1>7. HasMax(S5)
  BY <1>2, <1>6, LargerOne
<1>8. HasMax(S6)
  BY <1>2, <1>7, LargerOne
<1>9. HasMax(S7)
  BY <1>2, <1>8, LargerOne
<1>10. HasMax(S8)
  BY <1>2, <1>9, LargerOne
<1>11. HasMax(S9)
  BY <1>2, <1>10, LargerOne
<1>12. HasMax(S)
  BY <1>2, <1>11, LargerOne
<1>13. Latest = Max(S)
  <2>1. {Holdoff, Confirm, Recovery, WarmupTimeout, WarmupGrace, SpeedWindow, SuspendWindow,
         EnumTimeout, H, F} = S
    OBVIOUS
  <2> QED
    BY <2>1 DEF Latest, H, F
<1>14. Latest \in S /\ \A y \in S : Latest >= y
  BY <1>12, <1>13 DEF Max
<1>15. S \subseteq Nat
  BY <1>2
<1>16. \A y \in S : y <= Latest
  BY <1>14, <1>15
<1>17. H <= Latest /\ F <= Latest
  BY <1>16
<1> QED
  BY <1>14, <1>15, <1>16, <1>17 DEF Speed, H, F

\* When the handlers run: now, or at a tick that began before the clock moved.
Now == {-1, 0}

LEMMA NowType ==
  /\ Now \subseteq Time /\ Over \in Time /\ Floor \in Time
  /\ \A t \in Now :
       /\ \A d \in {Holdoff, Confirm, Recovery, WarmupTimeout, WarmupGrace, SpeedWindow,
                    SuspendWindow, EnumTimeout} : t + d \in Time
       /\ \A s \in Speed : t + Params[s].expected * NoSofFactor \in Time
       /\ \A u \in Time : Sub(t, u) \in Nat
<1>1. Floor \in Int /\ Over \in Int /\ Floor <= Over /\ Over < 0 /\ Latest < Huge /\ Huge \in Int
  BY TimeAssumption
<1>2. Latest \in Nat
  BY Deadline
<1>3. \A d \in {Holdoff, Confirm, Recovery, WarmupTimeout, WarmupGrace, SpeedWindow,
                SuspendWindow, EnumTimeout} : d \in Nat /\ d <= Latest
  BY Deadline, TimeAssumption
<1>4. \A s \in Speed : Params[s].expected * NoSofFactor \in Nat
  <2> TAKE s \in Speed
  <2>1. Params[s].expected \in Nat /\ NoSofFactor \in Nat
    BY ParamsFields, TimeAssumption
  <2> QED
    BY <2>1
<1>5. \A s \in Speed : \A t \in Now : t + Params[s].expected * NoSofFactor \in Time
  <2> TAKE s \in Speed
  <2> DEFINE d == Params[s].expected * NoSofFactor
  <2>1. d \in Nat /\ d <= Latest
    BY <1>4, Deadline
  <2> HIDE DEF d
  <2>2. \A t \in Now : t + d \in Time
    BY <1>1, <1>2, <2>1 DEF Now, Time
  <2> QED
    BY <2>2 DEF d
<1>6. Now \subseteq Time /\ Over \in Time /\ Floor \in Time
  BY <1>1, <1>2 DEF Now, Time
<1>7. \A t \in Now : \A u \in Time : Sub(t, u) \in Nat
  BY <1>1, <1>2 DEF Now, Time, Sub
<1>8. \A t \in Now : \A d \in {Holdoff, Confirm, Recovery, WarmupTimeout, WarmupGrace,
                               SpeedWindow, SuspendWindow, EnumTimeout} : t + d \in Time
  BY <1>1, <1>2, <1>3 DEF Now, Time
<1> QED
  BY <1>5, <1>6, <1>7, <1>8

-----------------------------------------------------------------------------
(* The monitor *)

State == {"default", "addressed", "configured", "suspended"}
Code == Speed \cup {"none"}
Kind == {"none", "sof", "speed", "suspend", "enum"}

Mon ==
  [prev : Time, decay : Time, slowDecay : Time, holdoff : Time, warmEnd : Time, noSof : Time,
   speed : Code, score : 0 .. 255, slow : 0 .. 255, good : Nat, warm : BOOLEAN,
   speedN : 0 .. 255, speedEnd : Time, suspN : 0 .. 255, suspEnd : Time, persist : 0 .. 255,
   grace : BOOLEAN, graceEnd : Time, asked : Kind, prevState : State, prevSusp : BOOLEAN]

\* No score or count is at its threshold; before the first SOF there are none.
Below(m) ==
  /\ \A s \in Speed : m.speed = s =>
       m.score < Params[s].threshold /\ m.slow < Params[s].slowThreshold
  /\ m.speed \notin Speed => m.score = 0 /\ m.slow = 0
  /\ m.persist < Persistent /\ m.speedN < EventThreshold /\ m.suspN < EventThreshold

LEMMA ParFields ==
  ASSUME NEW m \in Mon
  PROVE  /\ m.speed \in Speed => Par(m) = Params[m.speed]
         /\ m.speed \notin Speed => Par(m) = NoParams
         /\ Par(m).expected \in Nat /\ Par(m).stable \in Nat /\ Par(m).frames \in Nat
         /\ Par(m).cap \in Nat /\ Par(m).threshold \in Nat /\ Par(m).slowThreshold \in Nat
         /\ Par(m).expected > 0 <=> m.speed \in Speed
         /\ Par(m).frames > 0 <=> m.speed \in Speed
<1>1. CASE m.speed \in Speed
  <2>1. Par(m) = Params[m.speed]
    BY <1>1 DEF Par
  <2> QED
    BY <1>1, <2>1, ParamsFields
<1>2. CASE m.speed \notin Speed
  <2>1. Par(m) = NoParams
    BY <1>2 DEF Par
  <2> QED
    BY <1>2, <2>1 DEF NoParams
<1> QED
  BY <1>1, <1>2

\* Below speaks of the counters only.
LEMMA BelowSame ==
  ASSUME NEW m, NEW n, Below(m), n.speed = m.speed, n.score = m.score, n.slow = m.slow,
         n.persist = m.persist, n.speedN = m.speedN, n.suspN = m.suspN
  PROVE  Below(n)
BY DEF Below

LEMMA TimeoutPrimed ==
  ASSUME NEW m \in Mon, NEW t \in Now
  PROVE  /\ PrimeTimeout(m, t) \in Mon
         /\ Below(m) => Below(PrimeTimeout(m, t))
<1> DEFINE d == IF Par(m).expected > 0 THEN Par(m).expected * NoSofFactor ELSE WarmupTimeout
           n == [m EXCEPT !.noSof = t + d]
<1>1. t + d \in Time
  <2>1. CASE m.speed \in Speed
    <3>1. d = Params[m.speed].expected * NoSofFactor
      BY <2>1, ParFields
    <3> QED
      BY <2>1, <3>1, NowType
  <2>2. CASE m.speed \notin Speed
    <3>1. d = WarmupTimeout
      BY <2>2, ParFields
    <3> QED
      BY <3>1, NowType
  <2> QED
    BY <2>1, <2>2
<1>2. PrimeTimeout(m, t) = n
  BY DEF PrimeTimeout
<1> HIDE DEF d
<1>3. n \in Mon
  BY <1>1 DEF Mon
<1>4. /\ n.speed = m.speed /\ n.score = m.score /\ n.slow = m.slow
      /\ n.persist = m.persist /\ n.speedN = m.speedN /\ n.suspN = m.suspN
  BY DEF Mon
<1> QED
  BY <1>2, <1>3, <1>4, BelowSame

LEMMA Restarted ==
  ASSUME NEW m \in Mon, NEW t \in Now
  PROVE  /\ Restart(m, t) \in Mon /\ Restart(m, t).score = 0
         /\ \A f \in {"speed", "slow", "persist", "speedN", "suspN"} : Restart(m, t)[f] = m[f]
<1>1. t \in Time /\ t + WarmupTimeout \in Time
  BY NowType
<1>2. 0 \in 0 .. 255 /\ 0 \in Nat /\ FALSE \in BOOLEAN
  OBVIOUS
<1>3. Restart(m, t) \in Mon
  BY <1>1, <1>2, Zenon DEF Restart, Mon
<1>4. /\ Restart(m, t).score = 0
      /\ \A f \in {"speed", "slow", "persist", "speedN", "suspN"} : Restart(m, t)[f] = m[f]
  BY DEF Restart, Mon
<1> QED
  BY <1>3, <1>4

\* Whoever asks for a slower mode clears every score.
LEMMA DowngradeClears ==
  ASSUME NEW m \in Mon, NEW t \in Now, NEW kind \in Kind, NEW ok \in BOOLEAN
  PROVE  CommitDowngrade(m, t, kind, ok) \in Mon /\ Below(CommitDowngrade(m, t, kind, ok))
<1> DEFINE d == IF Slower /\ ok THEN Confirm ELSE Recovery
           k == IF Slower THEN kind ELSE "none"
           n == CommitDowngrade(m, t, kind, ok)
<1>1. t + d \in Time /\ Over \in Time
  BY NowType
<1>2. k \in Kind
  BY DEF Kind
<1>3. n = [m EXCEPT !.holdoff = t + d,
            !.score = 0, !.slow = 0, !.persist = 0, !.speedN = 0, !.suspN = 0,
            !.speedEnd = Over, !.suspEnd = Over, !.grace = FALSE, !.asked = k]
  BY DEF CommitDowngrade
<1> HIDE DEF d, k, n
<1>4. n \in Mon
  <2>1. 0 \in 0 .. 255 /\ FALSE \in BOOLEAN
    OBVIOUS
  <2>2. [m EXCEPT !.holdoff = t + d,
            !.score = 0, !.slow = 0, !.persist = 0, !.speedN = 0, !.suspN = 0,
            !.speedEnd = Over, !.suspEnd = Over, !.grace = FALSE, !.asked = k] \in Mon
    BY <1>1, <1>2, <2>1, Zenon DEF Mon
  <2> QED
    BY <1>3, <2>2
<1>5. n.score = 0 /\ n.slow = 0 /\ n.persist = 0 /\ n.speedN = 0 /\ n.suspN = 0
  BY <1>3 DEF Mon
<1>6. Below(n)
  BY <1>5, ParamsFields, CountAssumption DEF Below
<1> QED
  BY <1>4, <1>6 DEF n

-----------------------------------------------------------------------------
(* One interval between two SOFs *)

LEMMA WarmupKeeps ==
  ASSUME NEW m \in Mon, Below(m), NEW t \in Now, NEW d \in Nat
  PROVE  Warmup(m, t, d) \in Mon /\ Below(Warmup(m, t, d))
<1> DEFINE target == WarmTarget(m, t)
           good == IF d >= Par(m).stable THEN 0
                   ELSE IF m.good < target THEN m.good + 1 ELSE m.good
           still == m.grace /\ t <= m.graceEnd
           graced == [m EXCEPT !.good = good, !.grace = still]
           n == Warmup(m, t, d)
<1>1. good \in Nat /\ still \in BOOLEAN
  BY DEF Mon
<1>2. t \in Time
  BY NowType
<1>3. n = [graced EXCEPT !.warm = TRUE, !.decay = t, !.slowDecay = t, !.grace = FALSE]
        \/ n = graced
  BY DEF Warmup
<1> HIDE DEF good, still, n
<1>4. graced \in Mon
  BY <1>1, Zenon DEF Mon
<1>5. n \in Mon
  <2> HIDE DEF graced
  <2> QED
    <3>1. TRUE \in BOOLEAN /\ FALSE \in BOOLEAN
      OBVIOUS
    <3>2. [graced EXCEPT !.warm = TRUE, !.decay = t, !.slowDecay = t, !.grace = FALSE] \in Mon
      BY <1>2, <1>4, <3>1, Zenon DEF Mon
    <3> QED
      BY <1>3, <1>4, <3>2
<1>6. /\ n.speed = m.speed /\ n.score = m.score /\ n.slow = m.slow
      /\ n.persist = m.persist /\ n.speedN = m.speedN /\ n.suspN = m.suspN
  BY <1>3 DEF Mon
<1> QED
  BY <1>5, <1>6, BelowSame DEF n

LEMMA DecayKeeps ==
  ASSUME NEW m \in Mon, Below(m), NEW t \in Now
  PROVE  Decayed(m, t) \in Mon /\ Below(Decayed(m, t))
<1> DEFINE fast == m.score > 0 /\ Sub(t, m.decay) >= Par(m).decay
           slow == m.slow > 0 /\ Sub(t, m.slowDecay) >= Par(m).slowDecay
           a == IF fast THEN m.score - 1 ELSE m.score
           x == IF fast THEN t ELSE m.decay
           b == IF slow THEN m.slow - 1 ELSE m.slow
           y == IF slow THEN t ELSE m.slowDecay
           n == [m EXCEPT !.score = a, !.decay = x, !.slow = b, !.slowDecay = y]
<1>1. Decayed(m, t) = n
  BY DEF Decayed, Mon
<1>2. (fast => m.score > 0) /\ (slow => m.slow > 0)
  OBVIOUS
<1>3. x \in Time /\ y \in Time
  BY NowType DEF Mon
<1> HIDE DEF fast, slow
<1>4. a \in 0 .. m.score /\ b \in 0 .. m.slow /\ m.score \in 0 .. 255 /\ m.slow \in 0 .. 255
  BY <1>2 DEF Mon
<1> HIDE DEF a, b, x, y
<1>5. a \in 0 .. 255 /\ b \in 0 .. 255
  BY <1>4
<1>6. n \in Mon
  BY <1>3, <1>5, Zenon DEF Mon
<1>7. /\ n.speed = m.speed /\ n.persist = m.persist /\ n.speedN = m.speedN
      /\ n.suspN = m.suspN /\ n.score = a /\ n.slow = b
  BY DEF Mon
<1> HIDE DEF n
<1>8. Below(n)
  BY <1>4, <1>7, ParamsFields DEF Below
<1> QED
  BY <1>1, <1>6, <1>8

\* An interval costs a point at least and the cap at most.
LEMMA PointsType ==
  ASSUME NEW m \in Mon, m.speed \in Speed, NEW d \in Nat
  PROVE  Points(m, d) \in Nat /\ Points(m, d) >= 1 /\ Points(m, d) <= Par(m).cap
<1>1. /\ Par(m).expected \in Nat /\ Par(m).expected > 0
      /\ Par(m).cap \in Nat /\ Par(m).cap > 0
  BY ParFields, ParamsFields
<1> DEFINE missed == (d + Par(m).expected - 1) \div Par(m).expected
<1>2. missed \in Int
  BY <1>1
<1>3. Points(m, d) = IF missed > 1 THEN Least(missed - 1, Par(m).cap) ELSE 1
  BY DEF Points
<1> HIDE DEF missed
<1> QED
  BY <1>1, <1>2, <1>3 DEF Least

LEMMA LeastType ==
  ASSUME NEW a \in Nat
  PROVE  Least(a, 255) \in 0 .. 255
BY DEF Least

LEMMA ScoredBelow ==
  ASSUME NEW m \in Mon, Below(m), m.speed \in Speed, NEW t \in Now, NEW d \in Nat,
         NEW ok \in BOOLEAN
  PROVE  Scored(m, t, d, ok) \in Mon /\ Below(Scored(m, t, d, ok))
<1> DEFINE a == Least(m.score + Points(m, d), 255)
           b == Least(m.slow + 1, 255)
           s == [m EXCEPT !.score = a, !.decay = t, !.slow = b, !.slowDecay = t]
<1>1. Scored(m, t, d, ok)
        = IF s.score >= Par(m).threshold \/ s.slow >= Par(m).slowThreshold
          THEN CommitDowngrade(s, t, "sof", ok) ELSE s
  BY DEF Scored, Mon
<1>2. a \in 0 .. 255 /\ b \in 0 .. 255
  <2>1. m.score \in 0 .. 255 /\ m.slow \in 0 .. 255
    BY DEF Mon
  <2>2. Points(m, d) \in Nat
    BY PointsType
  <2>3. m.score + Points(m, d) \in Nat /\ m.slow + 1 \in Nat
    BY <2>1, <2>2
  <2> QED
    BY <2>3, LeastType
<1> HIDE DEF a, b
<1>3. t \in Time
  BY NowType
<1>4. s \in Mon
  BY <1>2, <1>3, Zenon DEF Mon
<1>5. s.speed = m.speed /\ s.persist = m.persist /\ s.speedN = m.speedN /\ s.suspN = m.suspN
  BY DEF Mon
<1> HIDE DEF s
<1>6. CASE s.score >= Par(m).threshold \/ s.slow >= Par(m).slowThreshold
  BY <1>1, <1>4, <1>6, DowngradeClears DEF Kind
<1>7. CASE ~(s.score >= Par(m).threshold \/ s.slow >= Par(m).slowThreshold)
  <2>1. /\ Par(m) = Params[m.speed] /\ Par(m).threshold \in Nat /\ Par(m).slowThreshold \in Nat
        /\ s.score \in Nat /\ s.slow \in Nat
    BY <1>4, ParFields DEF Mon
  <2>2. Below(s)
    BY <1>5, <1>7, <2>1 DEF Below
  <2> QED
    BY <1>1, <1>4, <1>7, <2>2
<1> QED
  BY <1>6, <1>7

LEMMA DeltaKeeps ==
  ASSUME NEW m \in Mon, Below(m), NEW t \in Now, NEW d \in Nat, NEW ok \in BOOLEAN
  PROVE  ProcessDelta(m, t, d, ok) \in Mon /\ Below(ProcessDelta(m, t, d, ok))
<1> DEFINE p == PrimeTimeout(m, t)
           w == IF p.warm THEN p ELSE Warmup(p, t, d)
           n == ProcessDelta(m, t, d, ok)
<1>1. p \in Mon /\ Below(p)
  BY TimeoutPrimed
<1>2. w \in Mon /\ Below(w)
  BY <1>1, WarmupKeeps
<1>3. w.speed = m.speed
  <2>1. p.speed = m.speed
    BY DEF PrimeTimeout, Mon
  <2>2. Warmup(p, t, d).speed = p.speed
    <3> HIDE DEF p
    <3> QED
      BY <1>1 DEF Warmup, Mon
  <2> QED
    BY <2>1, <2>2
<1>4. n = IF Par(m).expected = 0 THEN m
          ELSE IF t < p.holdoff THEN [p EXCEPT !.decay = t, !.slowDecay = t]
          ELSE IF ~w.warm THEN w
          ELSE IF d < Par(m).stable THEN Decayed(w, t)
          ELSE Scored(w, t, d, ok)
  BY DEF ProcessDelta
<1> HIDE DEF p, w, n
<1>5. CASE Par(m).expected = 0
  BY <1>4, <1>5 DEF n
<1>6. CASE Par(m).expected # 0
  <2>1. m.speed \in Speed
    BY <1>6, ParFields
  <2>2. CASE n = [p EXCEPT !.decay = t, !.slowDecay = t]
    <3>1. t \in Time
      BY NowType
    <3>2. n \in Mon
      <4>1. [p EXCEPT !.decay = t, !.slowDecay = t] \in Mon
        BY <1>1, <3>1, Zenon DEF Mon
      <4> QED
        BY <2>2, <4>1
    <3>3. /\ n.speed = p.speed /\ n.score = p.score /\ n.slow = p.slow
          /\ n.persist = p.persist /\ n.speedN = p.speedN /\ n.suspN = p.suspN
      BY <1>1, <2>2 DEF Mon
    <3> QED
      BY <1>1, <3>2, <3>3, BelowSame DEF n
  <2>3. CASE n = w
    BY <1>2, <2>3 DEF n
  <2>4. CASE n = Decayed(w, t)
    BY <1>2, <2>4, DecayKeeps DEF n
  <2>5. CASE n = Scored(w, t, d, ok)
    BY <1>2, <1>3, <2>1, <2>5, ScoredBelow DEF n
  <2> QED
    BY <1>4, <1>6, <2>2, <2>3, <2>4, <2>5
<1> QED
  BY <1>5, <1>6

-----------------------------------------------------------------------------
(* Speed changes and suspends *)

LEMMA PersistentBelow ==
  ASSUME NEW m \in Mon, Below(m), NEW t \in Now, NEW kind \in Kind, NEW ok \in BOOLEAN
  PROVE  BumpPersistent(m, t, kind, ok) \in Mon /\ Below(BumpPersistent(m, t, kind, ok))
<1> DEFINE p == Least(m.persist + 1, 255)
           b == [m EXCEPT !.persist = p]
<1>1. BumpPersistent(m, t, kind, ok)
        = IF b.persist >= Persistent THEN CommitDowngrade(b, t, kind, ok) ELSE b
  BY DEF BumpPersistent, Mon
<1>2. p \in 0 .. 255
  <2>1. m.persist \in 0 .. 255
    BY DEF Mon
  <2>2. m.persist + 1 \in Nat
    BY <2>1
  <2> QED
    BY <2>2, LeastType
<1> HIDE DEF p
<1>3. b \in Mon
  BY <1>2, Zenon DEF Mon
<1>4. /\ b.speed = m.speed /\ b.score = m.score /\ b.slow = m.slow
      /\ b.speedN = m.speedN /\ b.suspN = m.suspN /\ b.persist = p
  BY DEF Mon
<1> HIDE DEF b
<1>5. CASE b.persist >= Persistent
  BY <1>1, <1>3, <1>5, DowngradeClears
<1>6. CASE ~(b.persist >= Persistent)
  <2>1. b.persist < Persistent
    BY <1>2, <1>4, <1>6, CountAssumption
  <2>2. Below(b)
    BY <1>4, <2>1 DEF Below
  <2> QED
    BY <1>1, <1>3, <1>6, <2>2
<1> QED
  BY <1>5, <1>6

LEMMA GracedKeeps ==
  ASSUME NEW m \in Mon, Below(m), NEW t \in Now
  PROVE  /\ Graced(m, t) \in Mon /\ Below(Graced(m, t))
         /\ \A f \in {"speed", "score", "slow", "persist", "speedN", "suspN", "asked"} :
              Graced(m, t)[f] = m[f]
<1> DEFINE n == [m EXCEPT !.grace = TRUE, !.graceEnd = t + WarmupGrace]
<1>1. n \in Mon
  <2>1. TRUE \in BOOLEAN /\ t + WarmupGrace \in Time
    BY NowType
  <2> QED
    BY <2>1, Zenon DEF Mon
<1>2. \A f \in {"speed", "score", "slow", "persist", "speedN", "suspN", "asked"} : n[f] = m[f]
  BY DEF Mon
<1>3. Graced(m, t) \in {n, m}
  BY DEF Graced
<1> HIDE DEF n
<1>4. Below(n)
  BY <1>2, BelowSame
<1> QED
  BY <1>1, <1>2, <1>3, <1>4

LEMMA SpeedChangeBelow ==
  ASSUME NEW m \in Mon, Below(m), NEW t \in Now, NEW ok \in BOOLEAN
  PROVE  HandleSpeedChange(m, t, ok) \in Mon /\ Below(HandleSpeedChange(m, t, ok))
<1> DEFINE fresh == m.speedN = 0 \/ t >= m.speedEnd
           n == IF fresh THEN 1 ELSE m.speedN + 1
           g == Graced(m, t)
           x == IF fresh THEN t + SpeedWindow ELSE g.speedEnd
           none == [m EXCEPT !.speedN = 0, !.speedEnd = Over]
           over == [g EXCEPT !.speedN = 0, !.speedEnd = t + SpeedWindow]
           more == [g EXCEPT !.speedN = n, !.speedEnd = x]
<1>1. HandleSpeedChange(m, t, ok)
        = IF Par(m).frames = 0 THEN none
          ELSE IF n >= EventThreshold THEN BumpPersistent(over, t, "speed", ok)
          ELSE more
  <2>1. g \in Mon
    BY GracedKeeps
  <2> HIDE DEF g
  <2> QED
    BY <2>1 DEF HandleSpeedChange, Mon, g
<1>2. /\ g \in Mon /\ Below(g) /\ g.speed = m.speed /\ g.score = m.score /\ g.slow = m.slow
      /\ g.persist = m.persist /\ g.suspN = m.suspN
  BY GracedKeeps
<1> HIDE DEF g
<1>3. t + SpeedWindow \in Time /\ x \in Time /\ Over \in Time /\ 0 \in 0 .. 255
  <2>1. g.speedEnd \in Time
    BY <1>2 DEF Mon
  <2> QED
    BY <2>1, NowType
<1>4. n \in Nat /\ n >= 1
  BY DEF Mon
<1> HIDE DEF fresh, n, x
<1>5. CASE Par(m).frames = 0
  <2>1. none \in Mon
    BY <1>3, Zenon DEF Mon
  <2>2. /\ none.speed = m.speed /\ none.score = m.score /\ none.slow = m.slow
        /\ none.persist = m.persist /\ none.suspN = m.suspN /\ none.speedN = 0
    BY DEF Mon
  <2> HIDE DEF none
  <2>3. Below(none)
    BY <2>2, CountAssumption DEF Below
  <2> QED
    BY <1>1, <1>5, <2>1, <2>3
<1>6. CASE Par(m).frames # 0 /\ n >= EventThreshold
  <2>1. over \in Mon
    BY <1>2, <1>3, Zenon DEF Mon
  <2>2. /\ over.speed = g.speed /\ over.score = g.score /\ over.slow = g.slow
        /\ over.persist = g.persist /\ over.suspN = g.suspN /\ over.speedN = 0
    BY <1>2 DEF Mon
  <2> HIDE DEF over
  <2>3. Below(over)
    BY <1>2, <2>2, CountAssumption DEF Below
  <2> QED
    BY <1>1, <1>6, <2>1, <2>3, PersistentBelow DEF Kind
<1>7. CASE Par(m).frames # 0 /\ ~(n >= EventThreshold)
  <2>1. n < EventThreshold /\ n \in 0 .. 255
    BY <1>4, <1>7, CountAssumption
  <2>2. more \in Mon
    BY <1>2, <1>3, <2>1, Zenon DEF Mon
  <2>3. /\ more.speed = g.speed /\ more.score = g.score /\ more.slow = g.slow
        /\ more.persist = g.persist /\ more.suspN = g.suspN /\ more.speedN = n
    BY <1>2 DEF Mon
  <2> HIDE DEF more
  <2>4. Below(more)
    BY <1>2, <2>1, <2>3 DEF Below
  <2> QED
    BY <1>1, <1>7, <2>2, <2>4
<1> QED
  BY <1>5, <1>6, <1>7

LEMMA SuspendBelow ==
  ASSUME NEW m \in Mon, Below(m), NEW t \in Now, NEW ok \in BOOLEAN
  PROVE  HandleSuspend(m, t, ok) \in Mon /\ Below(HandleSuspend(m, t, ok))
<1> DEFINE fresh == m.suspN = 0 \/ t >= m.suspEnd
           n == IF fresh THEN 1 ELSE m.suspN + 1
           g == Graced(m, t)
           x == IF fresh THEN t + SuspendWindow ELSE g.suspEnd
           none == [m EXCEPT !.suspN = 0, !.suspEnd = Over]
           over == [g EXCEPT !.suspN = 0, !.suspEnd = t + SuspendWindow]
           more == [g EXCEPT !.suspN = n, !.suspEnd = x]
<1>1. HandleSuspend(m, t, ok)
        = IF Par(m).frames = 0 THEN none
          ELSE IF n >= EventThreshold THEN BumpPersistent(over, t, "suspend", ok)
          ELSE more
  <2>1. g \in Mon
    BY GracedKeeps
  <2> HIDE DEF g
  <2> QED
    BY <2>1 DEF HandleSuspend, Mon, g
<1>2. /\ g \in Mon /\ Below(g) /\ g.speed = m.speed /\ g.score = m.score /\ g.slow = m.slow
      /\ g.persist = m.persist /\ g.speedN = m.speedN
  BY GracedKeeps
<1> HIDE DEF g
<1>3. t + SuspendWindow \in Time /\ x \in Time /\ Over \in Time /\ 0 \in 0 .. 255
  <2>1. g.suspEnd \in Time
    BY <1>2 DEF Mon
  <2> QED
    BY <2>1, NowType
<1>4. n \in Nat /\ n >= 1
  BY DEF Mon
<1> HIDE DEF fresh, n, x
<1>5. CASE Par(m).frames = 0
  <2>1. none \in Mon
    BY <1>3, Zenon DEF Mon
  <2>2. /\ none.speed = m.speed /\ none.score = m.score /\ none.slow = m.slow
        /\ none.persist = m.persist /\ none.speedN = m.speedN /\ none.suspN = 0
    BY DEF Mon
  <2> HIDE DEF none
  <2>3. Below(none)
    BY <2>2, CountAssumption DEF Below
  <2> QED
    BY <1>1, <1>5, <2>1, <2>3
<1>6. CASE Par(m).frames # 0 /\ n >= EventThreshold
  <2>1. over \in Mon
    BY <1>2, <1>3, Zenon DEF Mon
  <2>2. /\ over.speed = g.speed /\ over.score = g.score /\ over.slow = g.slow
        /\ over.persist = g.persist /\ over.speedN = g.speedN /\ over.suspN = 0
    BY <1>2 DEF Mon
  <2> HIDE DEF over
  <2>3. Below(over)
    BY <1>2, <2>2, CountAssumption DEF Below
  <2> QED
    BY <1>1, <1>6, <2>1, <2>3, PersistentBelow DEF Kind
<1>7. CASE Par(m).frames # 0 /\ ~(n >= EventThreshold)
  <2>1. n < EventThreshold /\ n \in 0 .. 255
    BY <1>4, <1>7, CountAssumption
  <2>2. more \in Mon
    BY <1>2, <1>3, <2>1, Zenon DEF Mon
  <2>3. /\ more.speed = g.speed /\ more.score = g.score /\ more.slow = g.slow
        /\ more.persist = g.persist /\ more.speedN = g.speedN /\ more.suspN = n
    BY <1>2 DEF Mon
  <2> HIDE DEF more
  <2>4. Below(more)
    BY <1>2, <2>1, <2>3 DEF Below
  <2> QED
    BY <1>1, <1>7, <2>2, <2>4
<1> QED
  BY <1>5, <1>6, <1>7

-----------------------------------------------------------------------------
(* A start-of-frame *)

DevOK == dev \in [state : State, old : State \ {"suspended"}, speed : Speed, suspended : BOOLEAN]

\* A score that is eased when the speed changes is below the new threshold as well.
LEMMA EasedBelow ==
  ASSUME NEW m \in Mon, Below(m), NEW s \in Speed,
         NEW a, a = IF m.slow > 0 THEN m.slow - 1 ELSE 0
  PROVE  a \in 0 .. 255 /\ a < Params[s].slowThreshold
<1>1. m.slow \in 0 .. 255
  BY DEF Mon
<1>2. Params[s].slowThreshold \in Nat /\ Params[s].slowThreshold > 0
  BY ParamsFields
<1>3. CASE m.speed \in Speed
  <2>1. m.slow < Params[m.speed].slowThreshold /\ Params[m.speed].slowThreshold \in Nat
    BY <1>3, ParamsFields DEF Below
  <2>2. Params[m.speed].slowThreshold <= Params[s].slowThreshold + 1
    BY <1>3, ParamsAssumption
  <2> QED
    BY <1>1, <1>2, <2>1, <2>2
<1>4. CASE m.speed \notin Speed
  <2>1. m.slow = 0
    BY <1>4 DEF Below
  <2> QED
    BY <1>2, <2>1
<1> QED
  BY <1>3, <1>4

LEMMA FirstSofBelow ==
  ASSUME DevOK, NEW m \in Mon, Below(m), NEW t \in Now
  PROVE  FirstSof(m, t) \in Mon /\ Below(FirstSof(m, t))
<1> DEFINE r == Restart(m, t)
           n == [r EXCEPT
            !.prev = t, !.slow = 0, !.holdoff = t + Holdoff, !.speed = dev.speed,
            !.speedN = 0, !.suspN = 0, !.persist = 0, !.speedEnd = Over, !.suspEnd = Over,
            !.grace = FALSE, !.graceEnd = Over, !.prevState = dev.state]
<1>1. r \in Mon /\ r.score = 0
  BY Restarted
<1>2. FirstSof(m, t) = IF m.prevState = dev.state THEN m ELSE PrimeTimeout(n, t)
  BY DEF FirstSof
<1> HIDE DEF r
<1>3. n \in Mon
  <2>1. /\ t \in Time /\ t + Holdoff \in Time /\ Over \in Time
        /\ 0 \in 0 .. 255 /\ FALSE \in BOOLEAN
    BY NowType
  <2>2. dev.speed \in Code /\ dev.state \in State
    BY DEF DevOK, Code
  <2> DEFINE early == [r EXCEPT
            !.prev = t, !.slow = 0, !.holdoff = t + Holdoff, !.speed = dev.speed,
            !.speedN = 0, !.suspN = 0]
  <2>3. early \in Mon
    <3>1. r \in Mon
      BY <1>1
    <3> QED
      BY <2>1, <2>2, <3>1, Zenon DEF Mon
  <2>4. n = [early EXCEPT !.persist = 0, !.speedEnd = Over, !.suspEnd = Over,
                          !.grace = FALSE, !.graceEnd = Over, !.prevState = dev.state]
    OBVIOUS
  <2> HIDE DEF early, n
  <2>5. [early EXCEPT !.persist = 0, !.speedEnd = Over, !.suspEnd = Over,
                      !.grace = FALSE, !.graceEnd = Over, !.prevState = dev.state] \in Mon
    BY <2>1, <2>2, <2>3, Zenon DEF Mon
  <2> QED
    BY <2>4, <2>5
<1>4. /\ n.speed = dev.speed /\ n.score = 0 /\ n.slow = 0
      /\ n.persist = 0 /\ n.speedN = 0 /\ n.suspN = 0
  BY <1>1 DEF Mon
<1> HIDE DEF n
<1>5. Below(n)
  BY <1>4, ParamsFields, CountAssumption DEF Below, DevOK
<1> QED
  BY <1>2, <1>3, <1>5, TimeoutPrimed

LEMMA SuspendedSofBelow ==
  ASSUME DevOK, NEW m \in Mon, Below(m), NEW t \in Now, NEW ok \in BOOLEAN
  PROVE  SuspendedSof(m, t, ok) \in Mon /\ Below(SuspendedSof(m, t, ok))
<1> DEFINE s == IF m.prevSusp THEN m ELSE HandleSuspend(m, t, ok)
           r == Restart(s, t)
           a == IF s.slow > 0 THEN s.slow - 1 ELSE 0
           n == [r EXCEPT !.prevSusp = TRUE, !.prev = t, !.slow = a,
                          !.holdoff = t + Holdoff, !.speed = dev.speed]
<1>1. s \in Mon /\ Below(s)
  BY SuspendBelow
<1> HIDE DEF s
<1>2. /\ r \in Mon /\ r.score = 0
      /\ \A f \in {"speed", "slow", "persist", "speedN", "suspN"} : r[f] = s[f]
  BY <1>1, Restarted
<1>3. SuspendedSof(m, t, ok) = PrimeTimeout(n, t)
  <2>1. r.slow = s.slow
    BY <1>2
  <2>2. SuspendedSof(m, t, ok)
          = PrimeTimeout([r EXCEPT !.prevSusp = TRUE, !.prev = t,
                                   !.slow = IF r.slow > 0 THEN r.slow - 1 ELSE 0,
                                   !.holdoff = t + Holdoff, !.speed = dev.speed], t)
    <3> HIDE DEF r, a, n
    <3> QED
      BY <1>2 DEF SuspendedSof, s, r, Mon
  <2> QED
    BY <2>1, <2>2
<1> HIDE DEF r
<1>4. dev.speed \in Speed
  BY DEF DevOK, Code
<1>5. a \in 0 .. 255 /\ a < Params[dev.speed].slowThreshold
  BY <1>1, <1>4, EasedBelow
<1> HIDE DEF a
<1>6. n \in Mon
  <2>1. t \in Time /\ t + Holdoff \in Time /\ TRUE \in BOOLEAN /\ dev.speed \in Code
    BY <1>4, NowType DEF Code
  <2>2. r \in Mon /\ a \in 0 .. 255
    BY <1>2, <1>5
  <2> QED
    BY <2>1, <2>2, Zenon DEF Mon
<1>7. /\ n.speed = dev.speed /\ n.score = 0 /\ n.slow = a
      /\ n.persist = s.persist /\ n.speedN = s.speedN /\ n.suspN = s.suspN
  BY <1>2 DEF Mon
<1> HIDE DEF n
<1>8. Below(n)
  BY <1>1, <1>4, <1>5, <1>7, ParamsFields DEF Below
<1> QED
  BY <1>3, <1>6, <1>8, TimeoutPrimed

LEMMA NewSpeedBelow ==
  ASSUME DevOK, NEW m \in Mon, Below(m), NEW t \in Now, NEW ok \in BOOLEAN
  PROVE  NewSpeed(m, t, ok) \in Mon /\ Below(NewSpeed(m, t, ok))
<1> DEFINE c == HandleSpeedChange(m, t, ok)
           s == [c EXCEPT !.speed = dev.speed]
           r == Restart(s, t)
           a == IF c.slow > 0 THEN c.slow - 1 ELSE 0
           n == [r EXCEPT !.slow = a, !.holdoff = t + Holdoff]
<1>1. c \in Mon /\ Below(c)
  BY SpeedChangeBelow
<1>2. dev.speed \in Speed /\ dev.speed \in Code
  BY DEF DevOK, Code
<1> HIDE DEF c
<1>3. s \in Mon
  BY <1>1, <1>2, Zenon DEF Mon
<1>4. /\ s.speed = dev.speed /\ s.slow = c.slow
      /\ s.persist = c.persist /\ s.speedN = c.speedN /\ s.suspN = c.suspN
  BY <1>1 DEF Mon
<1>5. NewSpeed(m, t, ok)
        = IF dev.speed = m.speed THEN m
          ELSE PrimeTimeout([Restart(s, t) EXCEPT !.slow = IF @ > 0 THEN @ - 1 ELSE 0,
                                                  !.holdoff = t + Holdoff], t)
  BY DEF NewSpeed, c
<1> HIDE DEF s
<1>6. /\ r \in Mon /\ r.score = 0
      /\ \A f \in {"speed", "slow", "persist", "speedN", "suspN"} : r[f] = s[f]
  BY <1>3, Restarted
<1>7. NewSpeed(m, t, ok) = IF dev.speed = m.speed THEN m ELSE PrimeTimeout(n, t)
  <2>1. r.slow = c.slow
    BY <1>4, <1>6
  <2>2. NewSpeed(m, t, ok)
          = IF dev.speed = m.speed THEN m
            ELSE PrimeTimeout([r EXCEPT !.slow = IF r.slow > 0 THEN r.slow - 1 ELSE 0,
                                        !.holdoff = t + Holdoff], t)
    <3> HIDE DEF a, n, r
    <3> QED
      BY <1>5, <1>6 DEF r, Mon
  <2> QED
    BY <2>1, <2>2
<1> HIDE DEF r
<1>8. a \in 0 .. 255 /\ a < Params[dev.speed].slowThreshold
  BY <1>1, <1>2, EasedBelow
<1> HIDE DEF a
<1>9. n \in Mon
  <2>1. t + Holdoff \in Time
    BY NowType
  <2>2. r \in Mon /\ a \in 0 .. 255
    BY <1>6, <1>8
  <2> QED
    BY <2>1, <2>2, Zenon DEF Mon
<1>10. /\ n.speed = dev.speed /\ n.score = 0 /\ n.slow = a
       /\ n.persist = c.persist /\ n.speedN = c.speedN /\ n.suspN = c.suspN
  BY <1>4, <1>6 DEF Mon
<1> HIDE DEF n
<1>11. Below(n)
  BY <1>1, <1>2, <1>8, <1>10, ParamsFields DEF Below
<1> QED
  BY <1>7, <1>9, <1>11, TimeoutPrimed

LEMMA SofBelow ==
  ASSUME DevOK, NEW m \in Mon, Below(m), NEW t \in Now, NEW ok \in BOOLEAN
  PROVE  MonitorSof(m, t, ok) \in Mon /\ Below(MonitorSof(m, t, ok))
<1> DEFINE b == [m EXCEPT !.asked = "none"]
           s == FirstSof(b, t)
           e == [s EXCEPT !.prevSusp = FALSE]
           w == NewSpeed(e, t, ok)
           p == [w EXCEPT !.prev = t]
<1>1. b \in Mon /\ Below(b)
  <2>1. b \in Mon
    BY Zenon DEF Mon, Kind
  <2>2. /\ b.speed = m.speed /\ b.score = m.score /\ b.slow = m.slow
        /\ b.persist = m.persist /\ b.speedN = m.speedN /\ b.suspN = m.suspN
    BY DEF Mon
  <2> HIDE DEF b
  <2> QED
    BY <2>1, <2>2, BelowSame
<1>2. MonitorSof(m, t, ok)
        = IF dev.suspended THEN SuspendedSof(s, t, ok)
          ELSE ProcessDelta(p, t, Sub(t, w.prev), ok)
  BY DEF MonitorSof, AwakeSof
<1> HIDE DEF b
<1>3. s \in Mon /\ Below(s)
  BY <1>1, FirstSofBelow
<1> HIDE DEF s
<1>4. e \in Mon /\ Below(e)
  <2>1. e \in Mon
    <3>1. FALSE \in BOOLEAN
      OBVIOUS
    <3> QED
      BY <1>3, <3>1, Zenon DEF Mon
  <2>2. /\ e.speed = s.speed /\ e.score = s.score /\ e.slow = s.slow
        /\ e.persist = s.persist /\ e.speedN = s.speedN /\ e.suspN = s.suspN
    BY <1>3 DEF Mon
  <2> HIDE DEF e
  <2> QED
    BY <1>3, <2>1, <2>2, BelowSame
<1> HIDE DEF e
<1>5. w \in Mon /\ Below(w)
  BY <1>4, NewSpeedBelow
<1> HIDE DEF w
<1>6. p \in Mon /\ Below(p)
  <2>1. p \in Mon
    <3>1. t \in Time
      BY NowType
    <3> QED
      BY <1>5, <3>1, Zenon DEF Mon
  <2>2. /\ p.speed = w.speed /\ p.score = w.score /\ p.slow = w.slow
        /\ p.persist = w.persist /\ p.speedN = w.speedN /\ p.suspN = w.suspN
    BY <1>5 DEF Mon
  <2> HIDE DEF p
  <2> QED
    BY <1>5, <2>1, <2>2, BelowSame
<1> HIDE DEF p
<1>7. Sub(t, w.prev) \in Nat
  <2>1. w.prev \in Time
    BY <1>5 DEF Mon
  <2> QED
    BY <2>1, NowType
<1> QED
  BY <1>2, <1>3, <1>6, <1>7, SuspendedSofBelow, DeltaKeeps

-----------------------------------------------------------------------------
(* Enumerations, and the background tick *)

Since == Time \cup {Unset}
Pending == State \cup {"none"}
Enum == [deadline : Time, since : Since, fail : 0 .. EnumCap, pending : Pending, waiting : BOOLEAN]

EnumOK(e) == e \in Enum /\ e.fail < EnumThreshold

LEMMA EnumBelow ==
  ASSUME DevOK, NEW e \in Enum, e.fail < EnumThreshold, NEW t \in Now
  PROVE  EnumOK(TrackEnumeration(e, t))
<1>1. /\ t \in Since /\ Unset \in Since /\ t + EnumTimeout \in Time
      /\ dev.state \in Pending /\ {TRUE, FALSE} \subseteq BOOLEAN
  BY NowType DEF Since, Pending, DevOK
<1>2. /\ e.fail \in 0 .. EnumCap /\ EnumCap \in Nat /\ EnumCap > 0 /\ EnumThreshold \in Nat
      /\ EnumThreshold > 0
  BY CountAssumption DEF Enum
<1> DEFINE n == TrackEnumeration(e, t)
<1>3. CASE dev.state = "configured"
  <2> DEFINE settled == [e EXCEPT !.waiting = FALSE, !.pending = dev.state]
             x == IF e.fail > 1 THEN t ELSE Unset
             f == e.fail - 1
  <2>1. settled \in Enum /\ settled.fail = e.fail
    <3>1. settled \in Enum
      BY <1>1, Zenon DEF Enum
    <3> QED
      BY <3>1 DEF Enum
  <2>2. n \in {[settled EXCEPT !.since = t], [settled EXCEPT !.fail = f, !.since = x], settled}
            /\ (n = [settled EXCEPT !.fail = f, !.since = x] => e.fail # 0 \/ n = settled
                  \/ n = [settled EXCEPT !.since = t])
    <3> HIDE DEF settled
    <3> QED
      BY <1>3, <2>1 DEF TrackEnumeration, Configured, settled, Enum
  <2>3. x \in Since
    BY <1>1
  <2> HIDE DEF x, f, settled, n
  <2>4. CASE n = [settled EXCEPT !.since = t]
    <3>1. [settled EXCEPT !.since = t] \in Enum
      BY <1>1, <2>1, Zenon DEF Enum
    <3>2. n.fail = e.fail
      BY <2>1, <2>4 DEF Enum
    <3> QED
      BY <2>4, <3>1, <3>2 DEF EnumOK, n
  <2>5. CASE n = settled
    BY <2>1, <2>5 DEF EnumOK, n
  <2>6. CASE n = [settled EXCEPT !.fail = f, !.since = x] /\ e.fail # 0
    <3>1. f \in 0 .. EnumCap /\ f < EnumThreshold
      BY <1>2, <2>6 DEF f
    <3>2. [settled EXCEPT !.fail = f, !.since = x] \in Enum
      BY <2>1, <2>3, <3>1, Zenon DEF Enum
    <3>3. n.fail = f
      BY <2>1, <2>6 DEF Enum
    <3> QED
      BY <2>6, <3>1, <3>2, <3>3 DEF EnumOK, n
  <2> QED
    BY <2>2, <2>4, <2>5, <2>6
<1>4. CASE dev.state = "suspended"
  <2> DEFINE k == [e EXCEPT !.since = Unset, !.waiting = FALSE, !.pending = dev.state]
  <2>1. n = k
    BY <1>4 DEF TrackEnumeration
  <2>2. k \in Enum
    BY <1>1, Zenon DEF Enum
  <2>3. k.fail = e.fail
    BY DEF Enum
  <2> QED
    BY <2>1, <2>2, <2>3 DEF EnumOK
<1>5. CASE dev.state \notin {"configured", "suspended"}
  <2> DEFINE f == Least(e.fail + 1, EnumCap)
             first == [e EXCEPT !.since = Unset, !.waiting = TRUE, !.pending = dev.state,
                                !.deadline = t + EnumTimeout]
             wait == [e EXCEPT !.since = Unset]
             fails == [e EXCEPT !.since = Unset, !.fail = f, !.deadline = t + EnumTimeout]
  <2>1. first \in Enum /\ wait \in Enum
    BY <1>1, Zenon DEF Enum
  <2>2. f \in 0 .. EnumCap
    BY <1>2 DEF Least
  <2>3. fails \in Enum
    <3> HIDE DEF f
    <3> QED
      BY <1>1, <2>2, Zenon DEF Enum
  <2>4. first.fail = e.fail /\ wait.fail = e.fail /\ fails.fail = f
    BY DEF Enum
  <2>5. CASE EnumFailed(e, t)
    <3>1. n = [Enumerating(e, t) EXCEPT !.fail = 0, !.waiting = FALSE]
      BY <1>5, <2>5 DEF TrackEnumeration
    <3>2. Enumerating(e, t) \in {first, wait, fails}
      BY DEF Enumerating, Enum
    <3> HIDE DEF first, wait, fails, n
    <3>3. Enumerating(e, t) \in Enum
      BY <2>1, <2>3, <3>2
    <3>4. 0 \in 0 .. EnumCap /\ FALSE \in BOOLEAN
      BY <1>2
    <3>5. [Enumerating(e, t) EXCEPT !.fail = 0, !.waiting = FALSE] \in Enum
      BY <3>3, <3>4, Zenon DEF Enum
    <3>6. n.fail = 0
      BY <3>1, <3>3 DEF Enum
    <3> QED
      BY <1>2, <3>1, <3>5, <3>6 DEF EnumOK, n
  <2>6. CASE ~EnumFailed(e, t)
    <3>1. n = Enumerating(e, t)
      BY <1>5, <2>6 DEF TrackEnumeration
    <3>2. Enumerating(e, t) \in {first, wait} \/ (Enumerating(e, t) = fails /\ Expired(e, t))
      BY DEF Enumerating, Enum
    <3>3. Expired(e, t) => f < EnumThreshold
      BY <1>2, <2>2, <2>6 DEF EnumFailed
    <3> HIDE DEF first, wait, fails, n, f
    <3> QED
      BY <2>1, <2>3, <2>4, <3>1, <3>2, <3>3 DEF EnumOK, n
  <2> QED
    BY <2>5, <2>6
<1> QED
  BY <1>3, <1>4, <1>5

LEMMA RefreshKeeps ==
  ASSUME NEW m \in Mon, Below(m), NEW t \in Now
  PROVE  RefreshEventWindows(m, t) \in Mon /\ Below(RefreshEventWindows(m, t))
<1> DEFINE speedOver == m.speedN > 0 /\ t >= m.speedEnd
           suspOver == m.suspN > 0 /\ t >= m.suspEnd
           a == IF speedOver THEN 0 ELSE m.speedN
           x == IF speedOver THEN Over ELSE m.speedEnd
           b == IF suspOver THEN 0 ELSE m.suspN
           y == IF suspOver THEN Over ELSE m.suspEnd
           g == m.grace /\ t < m.graceEnd
           n == [m EXCEPT !.speedN = a, !.speedEnd = x, !.suspN = b, !.suspEnd = y, !.grace = g]
<1>1. RefreshEventWindows(m, t) = n
  BY DEF RefreshEventWindows, Mon
<1>2. /\ m.speedN \in 0 .. 255 /\ m.suspN \in 0 .. 255 /\ m.speedEnd \in Time
      /\ m.suspEnd \in Time /\ m.grace \in BOOLEAN
  BY DEF Mon
<1>3. a \in {0, m.speedN} /\ b \in {0, m.suspN} /\ x \in Time /\ y \in Time
  BY <1>2, NowType
<1>4. g \in BOOLEAN
  BY <1>2
<1> HIDE DEF a, b, x, y, g
<1>5. a \in 0 .. 255 /\ b \in 0 .. 255
  BY <1>2, <1>3
<1>6. n \in Mon
  BY <1>3, <1>4, <1>5, Zenon DEF Mon
<1>7. /\ n.speed = m.speed /\ n.score = m.score /\ n.slow = m.slow /\ n.persist = m.persist
      /\ n.speedN = a /\ n.suspN = b
  BY DEF Mon
<1> HIDE DEF n
<1>8. a < EventThreshold /\ b < EventThreshold
  BY <1>3, CountAssumption DEF Below
<1>9. Below(n)
  BY <1>7, <1>8 DEF Below
<1> QED
  BY <1>1, <1>6, <1>9

-----------------------------------------------------------------------------
(* The clock *)

LEMMA OlderType ==
  /\ \A t \in Time : Older(t, Floor) \in Time /\ Older(t, Over) \in Time
  /\ \A t \in Since : Older(t, Floor) \in Since
<1>1. Floor \in Int /\ Over \in Int /\ Floor <= Over /\ Over < 0 /\ Latest \in Nat
  BY TimeAssumption, Deadline
<1>2. \A t \in Time : Older(t, Floor) \in Time /\ Older(t, Over) \in Time
  BY <1>1 DEF Older, Time
<1>3. Older(Unset, Floor) = Unset
  BY <1>1 DEF Older, Unset
<1> QED
  BY <1>2, <1>3 DEF Since

LEMMA MonAged ==
  ASSUME NEW m \in Mon, Below(m)
  PROVE  Aged(m) \in Mon /\ Below(Aged(m))
<1> DEFINE n == Aged(m)
<1>1. DOMAIN m = {"prev", "decay", "slowDecay", "holdoff", "warmEnd", "noSof", "speed", "score",
                  "slow", "good", "warm", "speedN", "speedEnd", "suspN", "suspEnd", "persist",
                  "grace", "graceEnd", "asked", "prevState", "prevSusp"}
  BY DEF Mon
<1>2. /\ \A f \in {"prev", "decay", "slowDecay"} : n[f] = Older(m[f], Floor)
      /\ \A f \in {"holdoff", "warmEnd", "noSof", "speedEnd", "suspEnd", "graceEnd"} :
           n[f] = Older(m[f], Over)
      /\ \A f \in {"speed", "score", "slow", "good", "warm", "speedN", "suspN", "persist",
                   "grace", "asked", "prevState", "prevSusp"} : n[f] = m[f]
      /\ n = [f \in DOMAIN m |-> n[f]]
  BY <1>1 DEF Aged, Stamps, Deadlines
<1> HIDE DEF n
<1>3. /\ \A f \in {"prev", "decay", "slowDecay", "holdoff", "warmEnd", "noSof", "speedEnd",
                   "suspEnd", "graceEnd"} : n[f] \in Time
  <2>1. \A f \in {"prev", "decay", "slowDecay", "holdoff", "warmEnd", "noSof", "speedEnd",
                  "suspEnd", "graceEnd"} : m[f] \in Time
    BY DEF Mon
  <2> QED
    BY <1>2, <2>1, OlderType
<1>4. n \in Mon
  BY <1>1, <1>2, <1>3 DEF Mon
<1>5. Below(n)
  BY <1>2, BelowSame
<1> QED
  BY <1>4, <1>5 DEF n

LEMMA EnumAged ==
  ASSUME NEW e \in Enum, e.fail < EnumThreshold
  PROVE  EnumOK(Aged(e))
<1> DEFINE n == Aged(e)
<1>1. DOMAIN e = {"deadline", "since", "fail", "pending", "waiting"}
  BY DEF Enum
<1>2. /\ n.deadline = Older(e.deadline, Over) /\ n.since = Older(e.since, Floor)
      /\ n.fail = e.fail /\ n.pending = e.pending /\ n.waiting = e.waiting
      /\ n = [f \in DOMAIN e |-> n[f]]
  BY <1>1 DEF Aged, Stamps, Deadlines
<1> HIDE DEF n
<1>3. n.deadline \in Time /\ n.since \in Since
  BY <1>2, OlderType DEF Enum
<1>4. n \in Enum
  BY <1>1, <1>2, <1>3 DEF Enum
<1> QED
  BY <1>2, <1>4 DEF EnumOK, n

-----------------------------------------------------------------------------
(* The invariant *)

\* A background tick that has begun ends before the clock moves twice, with the monitor on.
TickOK ==
  /\ bg \in [pc : {"idle", "begun", "late", "delta"}, now : Now, delta : Nat]
  /\ enabled \in BOOLEAN /\ ran \in BOOLEAN
  /\ bg.pc # "idle" => enabled /\ (ran => bg.now = 0)

Inv == DevOK /\ mon \in Mon /\ Below(mon) /\ EnumOK(enum) /\ TickOK

LEMMA InvHolds == Init => Inv
<1> SUFFICES ASSUME Init PROVE Inv
  OBVIOUS
<1>1. DevOK
  BY CountAssumption DEF Init, DevOK, State, Speed
<1>2. mon \in Mon /\ Below(mon)
  <2>1. Floor \in Time /\ Over \in Time
    BY NowType
  <2>2. mon \in Mon
    BY <2>1 DEF Init, Mon, Code, Kind, State
  <2>3. Below(mon)
    BY CountAssumption DEF Init, Below, Speed
  <2> QED
    BY <2>2, <2>3
<1>3. EnumOK(enum)
  <2>1. Over \in Time /\ Unset \in Since
    BY NowType DEF Since
  <2>2. enum.fail = 0 /\ 0 < EnumThreshold /\ 0 \in 0 .. EnumCap
    BY CountAssumption DEF Init
  <2>3. enum \in Enum
    BY <2>1, <2>2 DEF Init, Enum, Pending
  <2> QED
    BY <2>2, <2>3 DEF EnumOK
<1>4. TickOK
  BY DEF Init, TickOK, Now
<1> QED
  BY <1>1, <1>2, <1>3, <1>4 DEF Inv

LEMMA TickKeeps == ASSUME Inv, Tick PROVE Inv'
<1>1. mon' \in Mon /\ Below(mon)'
  <2>1. mon' = Aged(mon)
    BY DEF Tick
  <2>2. Aged(mon) \in Mon /\ Below(Aged(mon))
    BY MonAged DEF Inv
  <2> QED
    BY <2>1, <2>2 DEF Below
<1>2. EnumOK(enum)'
  <2>1. enum' = Aged(enum)
    BY DEF Tick
  <2>2. EnumOK(Aged(enum))
    BY EnumAged DEF Inv, EnumOK
  <2> QED
    BY <2>1, <2>2 DEF EnumOK
<1>3. DevOK'
  BY DEF Tick, Inv, DevOK
<1>4. TickOK'
  <2>1. CASE bg.pc = "idle"
    BY <2>1 DEF Tick, Inv, TickOK
  <2>2. CASE bg.pc # "idle"
    <3>1. bg.now = 0 /\ enabled
      BY <2>2 DEF Tick, Inv, TickOK
    <3>2. bg' = [bg EXCEPT !.now = @ - 1]
      BY <2>2 DEF Tick
    <3>3. bg' \in [pc : {"idle", "begun", "late", "delta"}, now : Now, delta : Nat]
      BY <3>1, <3>2 DEF Inv, TickOK, Now
    <3>4. ran' = FALSE /\ enabled' = enabled
      BY DEF Tick
    <3> QED
      BY <3>1, <3>3, <3>4 DEF Inv, TickOK
  <2> QED
    BY <2>1, <2>2
<1> QED
  BY <1>1, <1>2, <1>3, <1>4 DEF Inv

\* The bus only changes what the device stack says.
LEMMA BusKeeps ==
  ASSUME Inv, BusReset \/ SetAddress \/ SetConfiguration \/ Suspend \/ Resume
  PROVE  Inv'
<1>1. UNCHANGED <<enabled, mon, enum, bg, ran, h>>
  BY DEF BusReset, SetAddress, SetConfiguration, Suspend, Resume, Bus
<1>2. DevOK'
  <2>1. CASE BusReset
    BY <2>1 DEF BusReset, Bus, Inv, DevOK, State, Speed
  <2>2. CASE SetAddress
    BY <2>2 DEF SetAddress, Bus, Inv, DevOK, State
  <2>3. CASE SetConfiguration
    BY <2>3 DEF SetConfiguration, Bus, Inv, DevOK, State
  <2>4. CASE Suspend
    BY <2>4 DEF Suspend, Bus, Inv, DevOK, State
  <2>5. CASE Resume
    BY <2>5 DEF Resume, Bus, Inv, DevOK, State
  <2> QED
    BY <2>1, <2>2, <2>3, <2>4, <2>5
<1>3. mon' \in Mon /\ Below(mon)' /\ EnumOK(enum)' /\ TickOK'
  BY <1>1 DEF Inv, Below, EnumOK, TickOK
<1> QED
  BY <1>2, <1>3 DEF Inv

LEMMA BackgroundKeeps == ASSUME Inv, Background PROVE Inv'
<1>1. dev' = dev /\ enabled' = enabled
  BY DEF Background, BackgroundService, BackgroundTrack, BackgroundDelta, BackgroundScore
<1>2. DevOK'
  BY <1>1 DEF Inv, DevOK
<1>3. bg.now \in Now /\ bg.delta \in Nat
  BY DEF Inv, TickOK
<1>4. CASE BackgroundService
  <2>1. mon' = mon /\ enum' = enum
    BY <1>4 DEF BackgroundService
  <2>2. TickOK'
    BY <1>4 DEF BackgroundService, Inv, TickOK, Now
  <2> QED
    BY <1>2, <2>1, <2>2 DEF Inv, Below, EnumOK
<1>5. CASE BackgroundTrack
  <2> DEFINE b == [mon EXCEPT !.asked = "none"]
             m == RefreshEventWindows(b, bg.now)
  <2>1. b \in Mon /\ Below(b)
    <3>1. b \in Mon
      <4>1. mon \in Mon /\ "none" \in Kind
        BY DEF Inv, Kind
      <4> QED
        BY <4>1, Zenon DEF Mon
    <3>2. /\ b.speed = mon.speed /\ b.score = mon.score /\ b.slow = mon.slow
          /\ b.persist = mon.persist /\ b.speedN = mon.speedN /\ b.suspN = mon.suspN
      BY DEF Inv, Mon
    <3>3. Below(mon)
      BY DEF Inv
    <3> HIDE DEF b
    <3> QED
      BY <3>1, <3>2, <3>3, BelowSame
  <2>2. mon' = m \/ \E ok \in BOOLEAN : mon' = CommitDowngrade(m, bg.now, "enum", ok)
    BY <1>5 DEF BackgroundTrack
  <2>3. enum' = TrackEnumeration(enum, bg.now)
    BY <1>5 DEF BackgroundTrack
  <2> HIDE DEF b
  <2>4. m \in Mon /\ Below(m)
    BY <1>3, <2>1, RefreshKeeps
  <2> HIDE DEF m
  <2>5. mon' \in Mon /\ Below(mon')
    BY <1>3, <2>2, <2>4, DowngradeClears DEF Kind
  <2>6. EnumOK(enum')
    BY <1>3, <2>3, EnumBelow DEF Inv, EnumOK
  <2>7. TickOK'
    <3>1. /\ bg' = [bg EXCEPT !.pc = "late"] \/ bg' = [bg EXCEPT !.pc = "idle", !.now = 0]
          /\ bg.pc = "begun" /\ ran' = ran
      <4>1. PICK late \in BOOLEAN : bg' = [bg EXCEPT !.pc = IF late THEN "late" ELSE "idle",
                                                    !.now = IF late THEN @ ELSE 0]
        BY <1>5 DEF BackgroundTrack
      <4>2. bg \in [pc : {"idle", "begun", "late", "delta"}, now : Now, delta : Nat]
        BY DEF Inv, TickOK
      <4>3. bg.pc = "begun" /\ ran' = ran
        BY <1>5 DEF BackgroundTrack
      <4> QED
        BY <4>1, <4>2, <4>3
    <3> QED
      BY <1>1, <3>1 DEF Inv, TickOK, Now
  <2> QED
    BY <1>2, <2>5, <2>6, <2>7 DEF Inv, Below, EnumOK
<1>6. CASE BackgroundDelta
  <2>1. mon' = mon /\ enum' = enum
    BY <1>6 DEF BackgroundDelta
  <2>2. Sub(bg.now, mon.prev) \in Nat
    <3>1. mon.prev \in Time
      BY DEF Inv, Mon
    <3> QED
      BY <1>3, <3>1, NowType
  <2>3. TickOK'
    BY <1>6, <2>2 DEF BackgroundDelta, Inv, TickOK
  <2> QED
    BY <1>2, <2>1, <2>3 DEF Inv, Below, EnumOK
<1>7. CASE BackgroundScore
  <2> DEFINE b == [mon EXCEPT !.prev = bg.now, !.asked = "none"]
  <2>1. b \in Mon /\ Below(b)
    <3>1. b \in Mon
      <4>1. mon \in Mon /\ "none" \in Kind /\ bg.now \in Time
        BY <1>3, NowType DEF Inv, Kind
      <4> QED
        BY <4>1, Zenon DEF Mon
    <3>2. /\ b.speed = mon.speed /\ b.score = mon.score /\ b.slow = mon.slow
          /\ b.persist = mon.persist /\ b.speedN = mon.speedN /\ b.suspN = mon.suspN
      BY DEF Inv, Mon
    <3>3. Below(mon)
      BY DEF Inv
    <3> HIDE DEF b
    <3> QED
      BY <3>1, <3>2, <3>3, BelowSame
  <2>2. PICK ok \in BOOLEAN : mon' = ProcessDelta(b, bg.now, bg.delta, ok)
    BY <1>7 DEF BackgroundScore
  <2> HIDE DEF b
  <2>3. mon' \in Mon /\ Below(mon')
    BY <1>3, <2>1, <2>2, DeltaKeeps
  <2>4. enum' = enum
    BY <1>7 DEF BackgroundScore
  <2>5. TickOK'
    BY <1>7 DEF BackgroundScore, Inv, TickOK, Now
  <2> QED
    BY <1>2, <2>3, <2>4, <2>5 DEF Inv, Below, EnumOK
<1> QED
  BY <1>4, <1>5, <1>6, <1>7 DEF Background

LEMMA InvKept == ASSUME Inv, [Next]_vars PROVE Inv'
<1>1. CASE Sof
  <2>1. PICK ok \in BOOLEAN : mon' = MonitorSof(mon, 0, ok)
    BY <1>1 DEF Sof
  <2>2. mon' \in Mon /\ Below(mon')
    BY <2>1, SofBelow DEF Inv, Now
  <2>3. UNCHANGED <<dev, enabled, enum, bg, ran>>
    BY <1>1 DEF Sof
  <2> QED
    BY <2>2, <2>3 DEF Inv, DevOK, Below, EnumOK, TickOK
<1>2. CASE InstabilityStore
  BY <1>2 DEF InstabilityStore, Inv, DevOK, Below, EnumOK, TickOK
<1>3. CASE UNCHANGED vars
  BY <1>3 DEF vars, Inv, DevOK, Below, EnumOK, TickOK
<1> QED
  BY <1>1, <1>2, <1>3, TickKeeps, BusKeeps, BackgroundKeeps DEF Next

\* The invariant says what ScoresBelowThreshold does.
LEMMA InvMeans == Inv => ScoresBelowThreshold
<1> SUFFICES ASSUME Inv PROVE ScoresBelowThreshold
  OBVIOUS
<1>1. mon \in Mon /\ Below(mon)
  BY DEF Inv
<1>2. TypeOK
  <2>1. /\ dev \in [state : {"default", "addressed", "configured", "suspended"},
                    old : {"default", "addressed", "configured"},
                    speed : Speed, suspended : BOOLEAN]
    BY DEF Inv, DevOK, State
  <2>2. \A f \in (Stamps \cup Deadlines) \cap DOMAIN mon : mon[f] \in Time
    <3>1. DOMAIN mon \cap {"since", "deadline"} = {}
      BY <1>1 DEF Mon
    <3>2. /\ mon.prev \in Time /\ mon.decay \in Time /\ mon.slowDecay \in Time
          /\ mon.holdoff \in Time /\ mon.warmEnd \in Time /\ mon.noSof \in Time
          /\ mon.speedEnd \in Time /\ mon.suspEnd \in Time /\ mon.graceEnd \in Time
      BY <1>1 DEF Mon
    <3> QED
      BY <3>1, <3>2 DEF Stamps, Deadlines
  <2>3. \A f \in {"score", "slow", "persist", "speedN", "suspN"} : mon[f] \in 0 .. 255
    BY <1>1 DEF Mon
  <2>4. /\ mon.speed \in Speed \cup {"none"} /\ mon.good \in Nat
        /\ mon.asked \in {"none", "sof", "speed", "suspend", "enum"}
    BY <1>1 DEF Mon, Code, Kind
  <2>5. /\ enum.fail \in 0 .. EnumCap /\ enum.deadline \in Time
        /\ enum.since \in Time \cup {Unset}
    BY DEF Inv, EnumOK, Enum, Since
  <2>6. enabled \in BOOLEAN /\ ran \in BOOLEAN
        /\ bg \in [pc : {"idle", "begun", "late", "delta"}, now : {-1, 0}, delta : Nat]
    BY DEF Inv, TickOK, Now
  <2> QED
    BY <2>1, <2>2, <2>3, <2>4, <2>5, <2>6 DEF TypeOK
<1>3. Par(mon).expected > 0
        => mon.score < Par(mon).threshold /\ mon.slow < Par(mon).slowThreshold
  BY <1>1, ParFields DEF Below
<1>4. enum.fail < EnumThreshold
  BY DEF Inv, EnumOK
<1> QED
  BY <1>1, <1>2, <1>3, <1>4 DEF Below, ScoresBelowThreshold

\* Whatever the bus does and however the SOF interrupt and the background tick
\* interleave: between two handlers no score, count or failed attempt stands at its
\* threshold (usbd_hid.c:1494-1600, 1700-1880).
THEOREM ThresholdsHold == Spec => []ScoresBelowThreshold
<1>1. Inv /\ [Next]_vars => Inv'
  BY InvKept
<1> QED
  BY <1>1, InvHolds, InvMeans, PTL DEF Spec

-----------------------------------------------------------------------------
(* Speed changes and suspends are counted: what persistent_score and the two counts say *)
(* there were.                                                                          *)

Worth(m) == m.persist * EventThreshold
Account(m) == Worth(m) + m.speedN + m.suspN
Enough == EventThreshold * Persistent
ByChange == {"speed", "suspend"}

\* n is m after at most k more changes: counted or forgotten, or there were enough.
AtMostMore(k, m, n) ==
  \/ n.asked = "none" /\ Account(n) <= Account(m) + k
  \/ /\ n.asked # "none" /\ Account(n) = 0
     /\ n.asked \in ByChange => Account(m) + k >= Enough

LEMMA CountTypes ==
  ASSUME NEW m \in Mon
  PROVE  /\ m.persist \in Nat /\ m.speedN \in Nat /\ m.suspN \in Nat
         /\ m.persist <= 255 /\ m.speedN <= 255 /\ m.suspN <= 255
<1>1. m.persist \in 0 .. 255 /\ m.speedN \in 0 .. 255 /\ m.suspN \in 0 .. 255
  BY DEF Mon
<1>2. \A x \in 0 .. 255 : x \in Nat /\ x <= 255
  OBVIOUS
<1> QED
  BY <1>1, <1>2

LEMMA AccountType ==
  /\ Enough \in Nat /\ Enough > 0
  /\ \A m \in Mon : Account(m) \in Nat /\ Worth(m) \in Nat
<1>1. /\ EventThreshold \in Nat /\ EventThreshold > 0 /\ Persistent \in Nat /\ Persistent > 0
  BY CountAssumption
<1>2. Enough \in Nat /\ Enough > 0
  BY <1>1 DEF Enough
<1>3. ASSUME NEW m \in Mon
      PROVE  Account(m) \in Nat /\ Worth(m) \in Nat
  <2>1. m.persist \in Nat /\ m.speedN \in Nat /\ m.suspN \in Nat
    BY CountTypes
  <2>2. Worth(m) \in Nat
    BY <1>1, <2>1 DEF Worth
  <2> QED
    BY <2>1, <2>2 DEF Account
<1> QED
  BY <1>2, <1>3

\* The account depends on three fields.
LEMMA AccountSame ==
  ASSUME NEW m, NEW n,
         n.persist = m.persist, n.speedN = m.speedN, n.suspN = m.suspN
  PROVE  Account(n) = Account(m)
BY DEF Account, Worth

LEMMA DowngradeSettles ==
  ASSUME NEW m \in Mon, NEW t \in Now, NEW kind \in Kind, NEW ok \in BOOLEAN
  PROVE  /\ Account(CommitDowngrade(m, t, kind, ok)) = 0
         /\ CommitDowngrade(m, t, kind, ok).asked \in {kind, "none"}
<1> DEFINE n == CommitDowngrade(m, t, kind, ok)
<1>1. n.persist = 0 /\ n.speedN = 0 /\ n.suspN = 0 /\ n.asked \in {kind, "none"}
  BY DEF CommitDowngrade, Mon
<1> HIDE DEF n
<1>2. Worth(n) = 0
  BY <1>1, CountAssumption DEF Worth
<1>3. Account(n) = 0
  BY <1>1, <1>2 DEF Account
<1> QED
  BY <1>1, <1>3 DEF n

\* A full window is worth EventThreshold changes.
LEMMA PersistentCounts ==
  ASSUME NEW m \in Mon, Below(m), m.asked = "none", NEW t \in Now, NEW kind \in ByChange,
         NEW ok \in BOOLEAN, NEW a \in Nat, Account(m) + EventThreshold <= a + 1
  PROVE  LET n == BumpPersistent(m, t, kind, ok)
         IN  \/ n.asked = "none" /\ Account(n) <= a + 1
             \/ n.asked \in ByChange /\ a + 1 >= Enough /\ Account(n) = 0
<1> DEFINE p == Least(m.persist + 1, 255)
           b == [m EXCEPT !.persist = p]
           n == BumpPersistent(m, t, kind, ok)
<1>1. n = IF b.persist >= Persistent THEN CommitDowngrade(b, t, kind, ok) ELSE b
  BY DEF BumpPersistent, Mon
<1>2. /\ m.persist \in Nat /\ m.speedN \in Nat /\ m.suspN \in Nat
      /\ m.persist < Persistent /\ Persistent \in Nat /\ Persistent <= 255
      /\ EventThreshold \in Nat /\ EventThreshold > 0
  BY CountTypes, CountAssumption DEF Below
<1>3. p = m.persist + 1 /\ p \in 0 .. 255
  BY <1>2 DEF Least
<1> HIDE DEF p
<1>4. b \in Mon
  <2>1. p \in 0 .. 255
    BY <1>3
  <2> QED
    BY <2>1, Zenon DEF Mon
<1>5. b.persist = p /\ b.speedN = m.speedN /\ b.suspN = m.suspN /\ b.asked = "none"
  BY DEF Mon
<1> HIDE DEF b, n
<1>6. Worth(b) = Worth(m) + EventThreshold
  BY <1>2, <1>3, <1>5 DEF Worth
<1>7. Account(b) <= a + 1
  <2>1. Worth(m) \in Nat
    BY AccountType
  <2> QED
    BY <1>2, <1>5, <1>6, <2>1 DEF Account
<1>8. CASE b.persist >= Persistent
  <2>1. n.asked \in {kind, "none"} /\ Account(n) = 0
    BY <1>1, <1>4, <1>8, DowngradeSettles DEF ByChange, Kind
  <2>2. a + 1 >= Enough
    <3>1. p = Persistent
      BY <1>2, <1>3, <1>5, <1>8
    <3>2. Enough = Worth(b) /\ Enough \in Nat
      BY <1>2, <1>5, <3>1, AccountType DEF Enough, Worth
    <3> QED
      BY <1>2, <1>5, <1>7, <3>2 DEF Account
  <2> QED
    BY <2>1, <2>2 DEF ByChange, n
<1>9. CASE ~(b.persist >= Persistent)
  BY <1>1, <1>5, <1>7, <1>9 DEF n
<1> QED
  BY <1>8, <1>9

LEMMA SpeedChangeCounts ==
  ASSUME NEW m \in Mon, Below(m), m.asked = "none", NEW t \in Now, NEW ok \in BOOLEAN
  PROVE  AtMostMore(1, m, HandleSpeedChange(m, t, ok))
<1> DEFINE fresh == m.speedN = 0 \/ t >= m.speedEnd
           n == IF fresh THEN 1 ELSE m.speedN + 1
           g == Graced(m, t)
           x == IF fresh THEN t + SpeedWindow ELSE g.speedEnd
           none == [m EXCEPT !.speedN = 0, !.speedEnd = Over]
           over == [g EXCEPT !.speedN = 0, !.speedEnd = t + SpeedWindow]
           more == [g EXCEPT !.speedN = n, !.speedEnd = x]
           z == HandleSpeedChange(m, t, ok)
<1>0. g \in Mon /\ Below(g)
  BY GracedKeeps
<1>1. z = IF Par(m).frames = 0 THEN none
          ELSE IF n >= EventThreshold THEN BumpPersistent(over, t, "speed", ok)
          ELSE more
  <2> HIDE DEF g
  <2> QED
    BY <1>0 DEF HandleSpeedChange, Mon, g
<1>2. /\ g.persist = m.persist /\ g.suspN = m.suspN /\ g.speedN = m.speedN /\ g.asked = "none"
  BY GracedKeeps
<1> HIDE DEF g, z
<1>3. /\ m.persist \in Nat /\ m.speedN \in Nat /\ m.suspN \in Nat
      /\ EventThreshold \in Nat /\ EventThreshold > 0 /\ m.speedN < EventThreshold
  BY CountTypes, CountAssumption DEF Below
<1>4. Worth(m) \in Nat
  BY AccountType
<1>5. n \in Nat /\ n >= 1 /\ n <= m.speedN + 1
  BY <1>3
<1> HIDE DEF fresh, n, x
<1>6. CASE Par(m).frames = 0
  <2>1. none.persist = m.persist /\ none.suspN = m.suspN /\ none.speedN = 0 /\ none.asked = "none"
    BY DEF Mon
  <2> HIDE DEF none
  <2>2. Account(none) <= Account(m) + 1
    <3>1. Worth(none) = Worth(m)
      BY <2>1 DEF Worth
    <3> QED
      BY <1>3, <1>4, <2>1, <3>1 DEF Account
  <2> QED
    BY <1>1, <1>6, <2>1, <2>2 DEF AtMostMore, z
<1>7. CASE Par(m).frames # 0 /\ n >= EventThreshold
  <2>1. over \in Mon
    <3>1. t + SpeedWindow \in Time /\ 0 \in 0 .. 255 /\ g \in Mon
      BY <1>0, NowType
    <3> QED
      BY <3>1, Zenon DEF Mon
  <2>2. /\ over.speed = g.speed /\ over.score = g.score /\ over.slow = g.slow
        /\ over.persist = g.persist /\ over.suspN = g.suspN /\ over.speedN = 0
        /\ over.asked = g.asked
    BY <1>0 DEF Mon
  <2> HIDE DEF over
  <2>3. Below(over)
    BY <1>0, <2>2, CountAssumption DEF Below
  <2>4. Account(over) + EventThreshold <= Account(m) + 1
    <3>1. Worth(over) = Worth(m)
      BY <1>2, <2>2 DEF Worth
    <3> QED
      BY <1>2, <1>3, <1>4, <1>5, <1>7, <2>2, <3>1 DEF Account
  <2>5. "speed" \in ByChange /\ Account(m) \in Nat /\ over.asked = "none"
    BY <1>2, <2>2, AccountType DEF ByChange
  <2>6. z = BumpPersistent(over, t, "speed", ok)
    BY <1>1, <1>7
  <2> QED
    BY <2>1, <2>3, <2>4, <2>5, <2>6, PersistentCounts DEF AtMostMore, ByChange, z
<1>8. CASE Par(m).frames # 0 /\ ~(n >= EventThreshold)
  <2>1. /\ more.persist = g.persist /\ more.suspN = g.suspN /\ more.speedN = n
        /\ more.asked = g.asked
    BY <1>0 DEF Mon
  <2> HIDE DEF more
  <2>2. Account(more) <= Account(m) + 1
    <3>1. Worth(more) = Worth(m)
      BY <1>2, <2>1 DEF Worth
    <3> QED
      BY <1>2, <1>3, <1>4, <1>5, <2>1, <3>1 DEF Account
  <2> QED
    BY <1>1, <1>2, <1>8, <2>1, <2>2 DEF AtMostMore, z
<1> QED
  BY <1>6, <1>7, <1>8

LEMMA SuspendCounts ==
  ASSUME NEW m \in Mon, Below(m), m.asked = "none", NEW t \in Now, NEW ok \in BOOLEAN
  PROVE  AtMostMore(1, m, HandleSuspend(m, t, ok))
<1> DEFINE fresh == m.suspN = 0 \/ t >= m.suspEnd
           n == IF fresh THEN 1 ELSE m.suspN + 1
           g == Graced(m, t)
           x == IF fresh THEN t + SuspendWindow ELSE g.suspEnd
           none == [m EXCEPT !.suspN = 0, !.suspEnd = Over]
           over == [g EXCEPT !.suspN = 0, !.suspEnd = t + SuspendWindow]
           more == [g EXCEPT !.suspN = n, !.suspEnd = x]
           z == HandleSuspend(m, t, ok)
<1>0. g \in Mon /\ Below(g)
  BY GracedKeeps
<1>1. z = IF Par(m).frames = 0 THEN none
          ELSE IF n >= EventThreshold THEN BumpPersistent(over, t, "suspend", ok)
          ELSE more
  <2> HIDE DEF g
  <2> QED
    BY <1>0 DEF HandleSuspend, Mon, g
<1>2. /\ g.persist = m.persist /\ g.speedN = m.speedN /\ g.suspN = m.suspN /\ g.asked = "none"
  BY GracedKeeps
<1> HIDE DEF g, z
<1>3. /\ m.persist \in Nat /\ m.speedN \in Nat /\ m.suspN \in Nat
      /\ EventThreshold \in Nat /\ EventThreshold > 0 /\ m.suspN < EventThreshold
  BY CountTypes, CountAssumption DEF Below
<1>4. Worth(m) \in Nat
  BY AccountType
<1>5. n \in Nat /\ n >= 1 /\ n <= m.suspN + 1
  BY <1>3
<1> HIDE DEF fresh, n, x
<1>6. CASE Par(m).frames = 0
  <2>1. none.persist = m.persist /\ none.speedN = m.speedN /\ none.suspN = 0 /\ none.asked = "none"
    BY DEF Mon
  <2> HIDE DEF none
  <2>2. Account(none) <= Account(m) + 1
    <3>1. Worth(none) = Worth(m)
      BY <2>1 DEF Worth
    <3> QED
      BY <1>3, <1>4, <2>1, <3>1 DEF Account
  <2> QED
    BY <1>1, <1>6, <2>1, <2>2 DEF AtMostMore, z
<1>7. CASE Par(m).frames # 0 /\ n >= EventThreshold
  <2>1. over \in Mon
    <3>1. t + SuspendWindow \in Time /\ 0 \in 0 .. 255 /\ g \in Mon
      BY <1>0, NowType
    <3> QED
      BY <3>1, Zenon DEF Mon
  <2>2. /\ over.speed = g.speed /\ over.score = g.score /\ over.slow = g.slow
        /\ over.persist = g.persist /\ over.speedN = g.speedN /\ over.suspN = 0
        /\ over.asked = g.asked
    BY <1>0 DEF Mon
  <2> HIDE DEF over
  <2>3. Below(over)
    BY <1>0, <2>2, CountAssumption DEF Below
  <2>4. Account(over) + EventThreshold <= Account(m) + 1
    <3>1. Worth(over) = Worth(m)
      BY <1>2, <2>2 DEF Worth
    <3> QED
      BY <1>2, <1>3, <1>4, <1>5, <1>7, <2>2, <3>1 DEF Account
  <2>5. "suspend" \in ByChange /\ Account(m) \in Nat /\ over.asked = "none"
    BY <1>2, <2>2, AccountType DEF ByChange
  <2>6. z = BumpPersistent(over, t, "suspend", ok)
    BY <1>1, <1>7
  <2> QED
    BY <2>1, <2>3, <2>4, <2>5, <2>6, PersistentCounts DEF AtMostMore, ByChange, z
<1>8. CASE Par(m).frames # 0 /\ ~(n >= EventThreshold)
  <2>1. /\ more.persist = g.persist /\ more.speedN = g.speedN /\ more.suspN = n
        /\ more.asked = g.asked
    BY <1>0 DEF Mon
  <2> HIDE DEF more
  <2>2. Account(more) <= Account(m) + 1
    <3>1. Worth(more) = Worth(m)
      BY <1>2, <2>1 DEF Worth
    <3> QED
      BY <1>2, <1>3, <1>4, <1>5, <2>1, <3>1 DEF Account
  <2> QED
    BY <1>1, <1>2, <1>8, <2>1, <2>2 DEF AtMostMore, z
<1> QED
  BY <1>6, <1>7, <1>8

\* What no handler but that of a SOF changes; and what else the counts depend on.
Persists(m, n) == n.speed = m.speed /\ n.prevState = m.prevState
Alike(m, n) ==
  /\ Persists(m, n)
  /\ n.asked = m.asked /\ n.persist = m.persist /\ n.speedN = m.speedN /\ n.suspN = m.suspN

LEMMA TimeoutAlike ==
  ASSUME NEW m \in Mon, NEW t \in Now
  PROVE  Alike(m, PrimeTimeout(m, t)) /\ PrimeTimeout(m, t).prevSusp = m.prevSusp
BY DEF PrimeTimeout, Mon, Alike, Persists

LEMMA RestartAlike ==
  ASSUME NEW m \in Mon, NEW t \in Now
  PROVE  Alike(m, Restart(m, t)) /\ Restart(m, t).prevSusp = m.prevSusp
BY DEF Restart, Mon, Alike, Persists

LEMMA DowngradeStays ==
  ASSUME NEW m \in Mon, NEW t \in Now, NEW kind \in Kind, NEW ok \in BOOLEAN
  PROVE  Persists(m, CommitDowngrade(m, t, kind, ok))
BY DEF CommitDowngrade, Mon, Persists

LEMMA WarmupAlike ==
  ASSUME NEW m \in Mon, NEW t \in Now, NEW d \in Nat
  PROVE  Alike(m, Warmup(m, t, d))
BY DEF Warmup, Mon, Alike, Persists

LEMMA DecayAlike ==
  ASSUME NEW m \in Mon, NEW t \in Now
  PROVE  Alike(m, Decayed(m, t))
BY DEF Decayed, Mon, Alike, Persists

\* An interval changes no count, unless a score asks and clears them.
LEMMA DeltaCounts ==
  ASSUME NEW m \in Mon, Below(m), NEW t \in Now, NEW d \in Nat, NEW ok \in BOOLEAN
  PROVE  LET n == ProcessDelta(m, t, d, ok)
         IN  /\ Persists(m, n)
             /\ Alike(m, n) \/ (n.asked \in {"none", "sof"} /\ Account(n) = 0)
<1> DEFINE p == PrimeTimeout(m, t)
           w == IF p.warm THEN p ELSE Warmup(p, t, d)
           n == ProcessDelta(m, t, d, ok)
<1>1. p \in Mon /\ Below(p) /\ Alike(m, p)
  BY TimeoutPrimed, TimeoutAlike
<1>2. w \in Mon /\ Below(w) /\ Alike(m, w)
  <2> HIDE DEF p
  <2> QED
    BY <1>1, WarmupKeeps, WarmupAlike DEF Alike, Persists
<1>3. n = IF Par(m).expected = 0 THEN m
          ELSE IF t < p.holdoff THEN [p EXCEPT !.decay = t, !.slowDecay = t]
          ELSE IF ~w.warm THEN w
          ELSE IF d < Par(m).stable THEN Decayed(w, t)
          ELSE Scored(w, t, d, ok)
  BY DEF ProcessDelta
<1> HIDE DEF p, w, n
<1>4. CASE n = m
  BY <1>4 DEF Alike, Persists, n
<1>5. CASE n = [p EXCEPT !.decay = t, !.slowDecay = t]
  <2>1. Alike(p, n)
    BY <1>1, <1>5 DEF Alike, Persists, Mon
  <2> QED
    BY <1>1, <2>1 DEF Alike, Persists, n
<1>6. CASE n = w
  BY <1>2, <1>6 DEF Alike, n
<1>7. CASE n = Decayed(w, t)
  <2>1. Alike(w, n)
    BY <1>2, <1>7, DecayAlike
  <2> QED
    BY <1>2, <2>1 DEF Alike, Persists, n
<1>8. CASE n = Scored(w, t, d, ok) /\ Par(m).expected # 0
  <2> DEFINE a == Least(w.score + Points(w, d), 255)
             b == Least(w.slow + 1, 255)
             s == [w EXCEPT !.score = a, !.decay = t, !.slow = b, !.slowDecay = t]
  <2>1. n = s \/ n = CommitDowngrade(s, t, "sof", ok)
    BY <1>2, <1>8 DEF Scored, Mon
  <2>2. a \in 0 .. 255 /\ b \in 0 .. 255
    <3>1. w.speed \in Speed
      BY <1>2, <1>8, ParFields DEF Alike, Persists
    <3>2. Points(w, d) \in Nat
      BY <1>2, <3>1, PointsType
    <3>3. w.score \in 0 .. 255 /\ w.slow \in 0 .. 255
      BY <1>2 DEF Mon
    <3>4. w.score + Points(w, d) \in Nat /\ w.slow + 1 \in Nat
      BY <3>2, <3>3
    <3> QED
      BY <3>4, LeastType
  <2> HIDE DEF a, b
  <2>3. s \in Mon
    <3>1. t \in Time /\ w \in Mon
      BY <1>2, NowType
    <3> QED
      BY <2>2, <3>1, Zenon DEF Mon
  <2>4. Alike(w, s)
    BY <1>2 DEF Alike, Persists, Mon
  <2> HIDE DEF s
  <2>5. Alike(m, s)
    BY <1>2, <2>4 DEF Alike, Persists
  <2>6. CASE n = s
    BY <2>5, <2>6 DEF Alike, n
  <2>7. CASE n = CommitDowngrade(s, t, "sof", ok)
    <3>1. Persists(s, n) /\ Account(n) = 0 /\ n.asked \in {"sof", "none"}
      BY <2>3, <2>7, DowngradeSettles, DowngradeStays DEF Kind
    <3> QED
      BY <2>5, <3>1 DEF Alike, Persists, n
  <2> QED
    BY <2>1, <2>6, <2>7
<1> QED
  BY <1>3, <1>4, <1>5, <1>6, <1>7, <1>8

-----------------------------------------------------------------------------

LEMMA FirstSofCounts ==
  ASSUME DevOK, NEW m \in Mon, Below(m), NEW t \in Now
  PROVE  LET n == FirstSof(m, t)
         IN  /\ n.asked = m.asked /\ Account(n) <= Account(m) /\ n.prevSusp = m.prevSusp
             /\ n.speed = IF m.prevState = dev.state THEN m.speed ELSE dev.speed
             /\ n.prevState = dev.state
<1> DEFINE r == Restart(m, t)
           n == [r EXCEPT
            !.prev = t, !.slow = 0, !.holdoff = t + Holdoff, !.speed = dev.speed,
            !.speedN = 0, !.suspN = 0, !.persist = 0, !.speedEnd = Over, !.suspEnd = Over,
            !.grace = FALSE, !.graceEnd = Over, !.prevState = dev.state]
           z == FirstSof(m, t)
<1>1. z = IF m.prevState = dev.state THEN m ELSE PrimeTimeout(n, t)
  BY DEF FirstSof
<1>2. CASE m.prevState = dev.state
  <2>1. Account(m) \in Nat /\ z = m
    BY <1>1, <1>2, AccountType
  <2> HIDE DEF z
  <2> QED
    BY <1>2, <2>1 DEF z
<1>3. CASE m.prevState # dev.state
  <2>1. r \in Mon /\ Alike(m, r) /\ r.prevSusp = m.prevSusp
    BY Restarted, RestartAlike
  <2> HIDE DEF r
  <2>2. /\ n.persist = 0 /\ n.speedN = 0 /\ n.suspN = 0 /\ n.asked = m.asked
        /\ n.speed = dev.speed /\ n.prevState = dev.state /\ n.prevSusp = m.prevSusp
    BY <2>1 DEF Mon, Alike
  <2>3. /\ z.persist = n.persist /\ z.speedN = n.speedN /\ z.suspN = n.suspN
        /\ z.asked = n.asked /\ z.speed = n.speed /\ z.prevState = n.prevState
        /\ z.prevSusp = n.prevSusp
    <3>1. DOMAIN n = DOMAIN r
      OBVIOUS
    <3>2. z = PrimeTimeout(n, t)
      BY <1>1, <1>3
    <3> HIDE DEF n, z
    <3> QED
      BY <2>1, <3>1, <3>2 DEF PrimeTimeout, Mon
  <2> HIDE DEF n, z
  <2>4. Worth(z) = 0
    BY <2>2, <2>3, CountAssumption DEF Worth
  <2>5. Account(z) = 0
    BY <2>2, <2>3, <2>4 DEF Account
  <2>6. Account(m) \in Nat
    BY AccountType
  <2> QED
    BY <1>3, <2>2, <2>3, <2>5, <2>6 DEF z
<1> QED
  BY <1>2, <1>3

\* A suspend is a change when the SOF before it was not suspended.
LEMMA SuspendedSofCounts ==
  ASSUME DevOK, NEW m \in Mon, Below(m), m.asked = "none", NEW t \in Now, NEW ok \in BOOLEAN
  PROVE  /\ AtMostMore(IF m.prevSusp THEN 0 ELSE 1, m, SuspendedSof(m, t, ok))
         /\ SuspendedSof(m, t, ok).speed = dev.speed
<1> DEFINE s == IF m.prevSusp THEN m ELSE HandleSuspend(m, t, ok)
           r == Restart(s, t)
           n == [r EXCEPT !.prevSusp = TRUE, !.prev = t, !.slow = IF @ > 0 THEN @ - 1 ELSE 0,
                          !.holdoff = t + Holdoff, !.speed = dev.speed]
           z == SuspendedSof(m, t, ok)
<1>1. s \in Mon /\ Below(s)
  BY SuspendBelow
<1>2. AtMostMore(IF m.prevSusp THEN 0 ELSE 1, m, s)
  <2>1. CASE m.prevSusp
    <3>1. Account(m) \in Nat /\ s = m
      BY <2>1, AccountType
    <3> HIDE DEF s
    <3>2. AtMostMore(0, m, s)
      BY <3>1 DEF AtMostMore
    <3> QED
      BY <2>1, <3>2
  <2>2. CASE ~m.prevSusp
    BY <2>2, SuspendCounts
  <2> QED
    BY <2>1, <2>2
<1>3. z = PrimeTimeout(n, t)
  BY DEF SuspendedSof
<1> HIDE DEF s
<1>4. r \in Mon /\ Alike(s, r)
  BY <1>1, Restarted, RestartAlike
<1> HIDE DEF r
<1>5. /\ n.persist = s.persist /\ n.speedN = s.speedN /\ n.suspN = s.suspN /\ n.asked = s.asked
      /\ n.speed = dev.speed /\ DOMAIN n = DOMAIN r
  BY <1>4 DEF Mon, Alike
<1> HIDE DEF n, z
<1>6. /\ z.persist = n.persist /\ z.speedN = n.speedN /\ z.suspN = n.suspN
      /\ z.asked = n.asked /\ z.speed = n.speed
  BY <1>3, <1>4, <1>5 DEF PrimeTimeout, Mon
<1>7. Account(z) = Account(s)
  BY <1>5, <1>6, AccountSame
<1> QED
  BY <1>2, <1>5, <1>6, <1>7 DEF AtMostMore, z

LEMMA NewSpeedCounts ==
  ASSUME DevOK, NEW m \in Mon, Below(m), m.asked = "none", NEW t \in Now, NEW ok \in BOOLEAN
  PROVE  /\ AtMostMore(IF dev.speed = m.speed THEN 0 ELSE 1, m, NewSpeed(m, t, ok))
         /\ NewSpeed(m, t, ok).speed = dev.speed
<1> DEFINE c == HandleSpeedChange(m, t, ok)
           s == [c EXCEPT !.speed = dev.speed]
           r == Restart(s, t)
           n == [r EXCEPT !.slow = IF @ > 0 THEN @ - 1 ELSE 0, !.holdoff = t + Holdoff]
           z == NewSpeed(m, t, ok)
<1>1. z = IF dev.speed = m.speed THEN m ELSE PrimeTimeout(n, t)
  BY DEF NewSpeed
<1>2. CASE dev.speed = m.speed
  <2>1. Account(m) \in Nat /\ z = m
    BY <1>1, <1>2, AccountType
  <2> HIDE DEF z
  <2>2. AtMostMore(0, m, z)
    BY <2>1 DEF AtMostMore
  <2> QED
    BY <1>2, <2>1, <2>2 DEF z
<1>3. CASE dev.speed # m.speed
  <2>1. c \in Mon /\ AtMostMore(1, m, c)
    BY SpeedChangeBelow, SpeedChangeCounts
  <2> HIDE DEF c
  <2>2. s \in Mon
    <3>1. dev.speed \in Code /\ c \in Mon
      BY <2>1 DEF DevOK, Code
    <3> QED
      BY <3>1, Zenon DEF Mon
  <2>3. /\ s.persist = c.persist /\ s.speedN = c.speedN /\ s.suspN = c.suspN /\ s.asked = c.asked
        /\ s.speed = dev.speed
    BY <2>1 DEF Mon
  <2> HIDE DEF s
  <2>4. r \in Mon /\ Alike(s, r)
    BY <2>2, Restarted, RestartAlike
  <2> HIDE DEF r
  <2>5. Alike(r, n) /\ DOMAIN n = DOMAIN r
    BY <2>4 DEF Mon, Alike, Persists
  <2>6. z = PrimeTimeout(n, t)
    BY <1>1, <1>3
  <2> HIDE DEF n, z
  <2>7. /\ z.persist = n.persist /\ z.speedN = n.speedN /\ z.suspN = n.suspN
        /\ z.asked = n.asked /\ z.speed = n.speed
    BY <2>4, <2>5, <2>6 DEF PrimeTimeout, Mon
  <2>8. /\ z.persist = c.persist /\ z.speedN = c.speedN /\ z.suspN = c.suspN
        /\ z.asked = c.asked /\ z.speed = dev.speed
    BY <2>3, <2>4, <2>5, <2>7 DEF Alike, Persists
  <2>9. Account(z) = Account(c)
    BY <2>8, AccountSame
  <2>10. AtMostMore(1, m, z)
    BY <2>1, <2>8, <2>9 DEF AtMostMore
  <2> QED
    BY <1>3, <2>8, <2>10 DEF z
<1> QED
  BY <1>2, <1>3

\* A SOF adds what it shows to have changed since the one before, which the history
\* counts too.
LEMMA SofCounts ==
  ASSUME DevOK, dev.state = "configured", NEW m \in Mon, Below(m), NEW t \in Now,
         NEW ok \in BOOLEAN, m.prevState = dev.state => m.speed \in Speed,
         NEW k \in {0, 1},
         k = IF (IF dev.suspended THEN ~m.prevSusp
                 ELSE m.speed \in Speed /\ dev.speed # m.speed) THEN 1 ELSE 0
  PROVE  LET n == MonitorSof(m, t, ok)
         IN  n.speed = dev.speed /\ AtMostMore(k, m, n)
<1> DEFINE b == [m EXCEPT !.asked = "none"]
           s == FirstSof(b, t)
           e == [s EXCEPT !.prevSusp = FALSE]
           w == NewSpeed(e, t, ok)
           p == [w EXCEPT !.prev = t]
           d == Sub(t, w.prev)
           n == MonitorSof(m, t, ok)
<1>1. /\ b \in Mon /\ Below(b) /\ b.asked = "none" /\ b.speed = m.speed
      /\ b.prevState = m.prevState /\ b.prevSusp = m.prevSusp /\ Account(b) = Account(m)
  <2>1. b \in Mon
    BY Zenon DEF Mon, Kind
  <2>2. /\ b.speed = m.speed /\ b.score = m.score /\ b.slow = m.slow
        /\ b.persist = m.persist /\ b.speedN = m.speedN /\ b.suspN = m.suspN
        /\ b.asked = "none" /\ b.prevState = m.prevState /\ b.prevSusp = m.prevSusp
    BY DEF Mon
  <2> HIDE DEF b
  <2> QED
    BY <2>1, <2>2, BelowSame, AccountSame
<1>2. n = IF dev.suspended THEN SuspendedSof(s, t, ok) ELSE ProcessDelta(p, t, d, ok)
  BY DEF MonitorSof, AwakeSof
<1> HIDE DEF b, n
<1>3. /\ s \in Mon /\ Below(s) /\ s.asked = "none" /\ s.prevSusp = m.prevSusp
      /\ Account(s) <= Account(m)
      /\ s.speed = IF m.prevState = dev.state THEN m.speed ELSE dev.speed
  BY <1>1, FirstSofBelow, FirstSofCounts
<1> HIDE DEF s
<1>4. Account(m) \in Nat /\ Account(s) \in Nat /\ Enough \in Nat
  BY <1>3, AccountType
<1>5. CASE dev.suspended
  <2>1. n = SuspendedSof(s, t, ok) /\ k = IF s.prevSusp THEN 0 ELSE 1
    BY <1>2, <1>3, <1>5
  <2>2. AtMostMore(k, s, n) /\ n.speed = dev.speed
    BY <1>3, <2>1, SuspendedSofCounts
  <2>3. Account(n) \in Nat
    BY <1>3, <2>1, SuspendedSofBelow, AccountType
  <2> QED
    BY <1>3, <1>4, <2>2, <2>3 DEF AtMostMore, n
<1>6. CASE ~dev.suspended
  <2>1. /\ e \in Mon /\ Below(e) /\ e.asked = "none" /\ e.speed = s.speed
        /\ Account(e) = Account(s)
    <3>1. e \in Mon
      <4>1. FALSE \in BOOLEAN
        OBVIOUS
      <4> QED
        BY <1>3, <4>1, Zenon DEF Mon
    <3>2. /\ e.speed = s.speed /\ e.score = s.score /\ e.slow = s.slow
          /\ e.persist = s.persist /\ e.speedN = s.speedN /\ e.suspN = s.suspN
          /\ e.asked = s.asked
      BY <1>3 DEF Mon
    <3> HIDE DEF e
    <3> QED
      BY <1>3, <3>1, <3>2, BelowSame, AccountSame
  <2> HIDE DEF e
  <2> DEFINE j == IF dev.speed = e.speed THEN 0 ELSE 1
  <2>2. w \in Mon /\ Below(w) /\ AtMostMore(j, e, w) /\ w.speed = dev.speed
    BY <2>1, NewSpeedBelow, NewSpeedCounts
  <2>3. j \in {0, 1} /\ j <= k
    BY <1>3, <1>6, <2>1
  <2> HIDE DEF w, j
  <2>4. /\ p \in Mon /\ Below(p) /\ p.asked = w.asked /\ p.speed = w.speed
        /\ Account(p) = Account(w)
    <3>1. p \in Mon
      <4>1. t \in Time
        BY NowType
      <4> QED
        BY <2>2, <4>1, Zenon DEF Mon
    <3>2. /\ p.speed = w.speed /\ p.score = w.score /\ p.slow = w.slow
          /\ p.persist = w.persist /\ p.speedN = w.speedN /\ p.suspN = w.suspN
          /\ p.asked = w.asked
      BY <2>2 DEF Mon
    <3> HIDE DEF p
    <3> QED
      BY <2>2, <3>1, <3>2, BelowSame, AccountSame
  <2>5. d \in Nat
    <3>1. w.prev \in Time
      BY <2>2 DEF Mon
    <3> QED
      BY <3>1, NowType
  <2> HIDE DEF p, d
  <2>6. n = ProcessDelta(p, t, d, ok)
    BY <1>2, <1>6
  <2>7. /\ Persists(p, n)
        /\ Alike(p, n) \/ (n.asked \in {"none", "sof"} /\ Account(n) = 0)
    BY <2>4, <2>5, <2>6, DeltaCounts
  <2>8. n.speed = dev.speed
    BY <2>2, <2>4, <2>7 DEF Persists
  <2>9. AtMostMore(k, m, n)
    <3>1. CASE Alike(p, n)
      <4>1. n.asked = w.asked /\ Account(n) = Account(w)
        BY <2>4, <3>1, AccountSame DEF Alike
      <4>2. Account(w) \in Nat /\ Account(e) \in Nat
        BY <2>1, <2>2, AccountType
      <4> QED
        BY <1>3, <1>4, <2>1, <2>2, <2>3, <4>1, <4>2 DEF AtMostMore
    <3>2. CASE n.asked \in {"none", "sof"} /\ Account(n) = 0
      BY <1>4, <3>2 DEF AtMostMore, ByChange
    <3> QED
      BY <2>7, <3>1, <3>2
  <2> QED
    BY <2>8, <2>9 DEF n
<1> QED
  BY <1>5, <1>6

\* A window that runs out takes changes off the account.
LEMMA RefreshCounts ==
  ASSUME NEW m \in Mon, NEW t \in Now
  PROVE  LET n == RefreshEventWindows(m, t)
         IN  Persists(m, n) /\ n.asked = m.asked /\ Account(n) <= Account(m)
<1> DEFINE n == RefreshEventWindows(m, t)
<1>1. /\ n.persist = m.persist /\ n.speedN \in {0, m.speedN} /\ n.suspN \in {0, m.suspN}
      /\ Persists(m, n) /\ n.asked = m.asked
  BY DEF RefreshEventWindows, Mon, Persists
<1> HIDE DEF n
<1>2. Worth(n) = Worth(m)
  BY <1>1 DEF Worth
<1>3. Worth(m) \in Nat /\ m.speedN \in Nat /\ m.suspN \in Nat
  BY CountTypes, AccountType
<1>4. Account(n) <= Account(m)
  BY <1>1, <1>2, <1>3 DEF Account
<1> QED
  BY <1>1, <1>4 DEF n

LEMMA AgedAlike ==
  ASSUME NEW m \in Mon
  PROVE  Alike(m, Aged(m))
<1>1. {"speed", "prevState", "asked", "persist", "speedN", "suspN"} \subseteq DOMAIN m
  BY DEF Mon
<1>2. \A f \in {"speed", "prevState", "asked", "persist", "speedN", "suspN"} : Aged(m)[f] = m[f]
  BY <1>1 DEF Aged, Stamps, Deadlines
<1> QED
  BY <1>2 DEF Alike, Persists

-----------------------------------------------------------------------------
(* The account and the history *)

HasChanges == "changes" \in DOMAIN h /\ h.changes \in Nat

\* Once a SOF was handled the monitor knows a speed, and the account never exceeds the
\* changes there were since the last request: what a request by them shows.
Heard(m) == m.prevState = "configured" => m.speed \in Speed
Recorded(m, c) ==
  /\ m.asked = "none" => Account(m) <= c \/ c >= Enough
  /\ m.asked # "none" => Account(m) = 0
  /\ m.asked \in ByChange => c >= Enough

CountInv == Inv /\ HasChanges /\ Heard(mon) /\ Recorded(mon, h.changes)

LEMMA RecordedSame ==
  ASSUME NEW m, NEW n, NEW c, Recorded(m, c), n.asked = m.asked, n.persist = m.persist,
         n.speedN = m.speedN, n.suspN = m.suspN
  PROVE  Recorded(n, c)
BY AccountSame DEF Recorded

\* What a handler does to a recorded account when it begins with asked cleared: k more
\* changes, of which the history counts as many.
LEMMA RecordedMore ==
  ASSUME NEW m \in Mon, NEW c \in Nat, Recorded(m, c), NEW n \in Mon, NEW k \in {0, 1},
         AtMostMore(k, m, n),
         NEW c0, c0 = IF m.asked = "none" THEN c ELSE 0,
         NEW c1, c1 = IF k = 1 THEN Least(c0 + 1, Enough) ELSE c0
  PROVE  c1 \in Nat /\ Recorded(n, c1)
<1>1. Account(m) \in Nat /\ Account(n) \in Nat /\ Enough \in Nat /\ Enough > 0
  BY AccountType
<1>2. c0 \in Nat /\ (Account(m) <= c0 \/ c0 >= Enough)
  BY <1>1 DEF Recorded
<1>3. c1 \in Nat /\ (c1 = c0 + k \/ c1 >= Enough) /\ (c0 + k >= Enough => c1 >= Enough)
  BY <1>1, <1>2 DEF Least
<1>4. CASE n.asked = "none" /\ Account(n) <= Account(m) + k
  <2>1. Account(n) <= c1 \/ c1 >= Enough
    BY <1>1, <1>2, <1>3, <1>4
  <2> QED
    BY <1>3, <1>4, <2>1 DEF Recorded, ByChange
<1>5. CASE /\ n.asked # "none" /\ Account(n) = 0
           /\ n.asked \in ByChange => Account(m) + k >= Enough
  <2>1. n.asked \in ByChange => c1 >= Enough
    BY <1>1, <1>2, <1>3, <1>5
  <2> QED
    BY <1>3, <1>5, <2>1 DEF Recorded
<1> QED
  BY <1>4, <1>5 DEF AtMostMore

LEMMA CountHolds == Init => CountInv
<1> SUFFICES ASSUME Init PROVE CountInv
  OBVIOUS
<1>1. Inv
  BY InvHolds
<1>2. HasChanges /\ h.changes = 0
  BY DEF Init, HasChanges
<1>3. /\ mon.prevState = "default" /\ mon.asked = "none" /\ mon.persist = 0
      /\ mon.speedN = 0 /\ mon.suspN = 0
  BY DEF Init
<1>4. Account(mon) = 0
  <2>1. Worth(mon) = 0
    BY <1>3, CountAssumption DEF Worth
  <2> QED
    BY <1>3, <2>1 DEF Account
<1> QED
  BY <1>1, <1>2, <1>3, <1>4 DEF CountInv, Heard, Recorded, ByChange

LEMMA SofRecorded == ASSUME CountInv, Sof PROVE CountInv'
<1> DEFINE k == IF Changed THEN 1 ELSE 0
           c0 == IF mon.asked = "none" THEN h.changes ELSE 0
           c1 == IF k = 1 THEN Least(c0 + 1, Enough) ELSE c0
<1>1. Inv'
  BY InvKept DEF CountInv, Next
<1>2. PICK ok \in BOOLEAN : mon' = MonitorSof(mon, 0, ok)
  BY DEF Sof
<1>3. dev.state = "configured" /\ dev' = dev /\ DevOK /\ mon \in Mon /\ Below(mon)
  BY DEF Sof, CountInv, Inv
<1>4. mon'.speed = dev.speed /\ AtMostMore(k, mon, mon') /\ k \in {0, 1}
  <2>1. mon.prevState = dev.state => mon.speed \in Speed
    BY <1>3 DEF CountInv, Heard
  <2>2. k = IF (IF dev.suspended THEN ~mon.prevSusp
                ELSE mon.speed \in Speed /\ dev.speed # mon.speed) THEN 1 ELSE 0
    BY DEF Changed
  <2>3. k \in {0, 1} /\ 0 \in Now
    BY DEF Now
  <2> HIDE DEF k
  <2> QED
    BY <1>2, <1>3, <2>1, <2>2, <2>3, SofCounts
<1>5. Heard(mon)'
  BY <1>3, <1>4 DEF Heard, DevOK
<1>6. HasChanges' /\ h'.changes = c1
  <2>1. Seen.changes = c0 /\ "changes" \in DOMAIN Seen
    BY DEF Seen, CountInv, HasChanges
  <2> DEFINE g == [Seen EXCEPT
            !.silence = 0,
            !.good = IF Outgrown(mon) THEN 0 ELSE Least(@ + h.silence, Quiet),
            !.close = @ \/ (Outgrown(mon) /\ h.good < Quiet),
            !.changes = IF Changed THEN Least(@ + 1, EventThreshold * Persistent) ELSE @]
  <2>2. g.changes = c1 /\ "changes" \in DOMAIN g
    <3> HIDE DEF c0
    <3> QED
      BY <2>1 DEF Enough
  <2>3. h' = Forget(g, mon')
    BY DEF Sof, SofHistory
  <2> HIDE DEF g, c1, c0, k
  <2>4. h'.changes = c1 /\ "changes" \in DOMAIN h'
    BY <2>2, <2>3 DEF Forget
  <2>5. c1 \in Nat
    <3>1. Enough \in Nat
      BY AccountType
    <3> QED
      BY <3>1 DEF c1, c0, CountInv, HasChanges, Least
  <2> QED
    BY <2>4, <2>5 DEF HasChanges
<1>7. Recorded(mon', c1)
  <2>1. mon' \in Mon
    BY <1>1 DEF Inv
  <2>2. h.changes \in Nat /\ Recorded(mon, h.changes)
    BY DEF CountInv, HasChanges
  <2> HIDE DEF k
  <2> QED
    BY <1>3, <1>4, <2>1, <2>2, RecordedMore
<1>8. Recorded(mon, h.changes)'
  <2> HIDE DEF c1
  <2> QED
    BY <1>6, <1>7 DEF Recorded, Account, Worth, Enough
<1> QED
  BY <1>1, <1>5, <1>6, <1>8 DEF CountInv

\* A handler that counts no change.
LEMMA QuietRecorded ==
  ASSUME CountInv, Inv', AtMostMore(0, mon, mon'), mon'.speed = mon.speed,
         mon'.prevState = mon.prevState, h' = Forget(Seen, mon')
  PROVE  CountInv'
<1> DEFINE c == IF mon.asked = "none" THEN h.changes ELSE 0
<1>1. Heard(mon)'
  BY DEF CountInv, Heard
<1>2. h'.changes = c /\ HasChanges'
  BY DEF CountInv, HasChanges, Seen, Forget
<1>3. Recorded(mon', c)
  <2>1. mon \in Mon /\ mon' \in Mon /\ h.changes \in Nat /\ Recorded(mon, h.changes)
    BY DEF CountInv, Inv, HasChanges
  <2> QED
    BY <2>1, RecordedMore
<1>4. Recorded(mon, h.changes)'
  <2> HIDE DEF c
  <2> QED
    BY <1>2, <1>3 DEF Recorded, Account, Worth, Enough
<1> QED
  BY <1>1, <1>2, <1>4 DEF CountInv

LEMMA BackgroundRecorded ==
  ASSUME CountInv, BackgroundTrack \/ BackgroundScore
  PROVE  CountInv'
<1>1. Inv'
  BY InvKept DEF CountInv, Next, Background
<1>2. bg.now \in Now /\ bg.delta \in Nat /\ mon \in Mon /\ Below(mon)
  BY DEF CountInv, Inv, TickOK
<1>3. Account(mon) \in Nat
  BY <1>2, AccountType
<1>4. CASE BackgroundTrack
  <2> DEFINE b == [mon EXCEPT !.asked = "none"]
             m == RefreshEventWindows(b, bg.now)
  <2>1. /\ b \in Mon /\ Below(b) /\ Persists(mon, b) /\ b.asked = "none"
        /\ Account(b) = Account(mon)
    <3>1. b \in Mon
      BY <1>2, Zenon DEF Mon, Kind
    <3>2. /\ b.speed = mon.speed /\ b.score = mon.score /\ b.slow = mon.slow
          /\ b.persist = mon.persist /\ b.speedN = mon.speedN /\ b.suspN = mon.suspN
          /\ b.asked = "none" /\ Persists(mon, b)
      BY <1>2 DEF Mon, Persists
    <3> HIDE DEF b
    <3> QED
      BY <1>2, <3>1, <3>2, BelowSame, AccountSame
  <2>2. mon' = m \/ \E ok \in BOOLEAN : mon' = CommitDowngrade(m, bg.now, "enum", ok)
    BY <1>4 DEF BackgroundTrack
  <2>3. h' = Forget(Seen, mon')
    BY <1>4 DEF BackgroundTrack
  <2> HIDE DEF b
  <2>4. m \in Mon /\ Persists(b, m) /\ m.asked = "none" /\ Account(m) <= Account(mon)
    BY <1>2, <2>1, RefreshKeeps, RefreshCounts
  <2> HIDE DEF m
  <2>5. AtMostMore(0, mon, mon') /\ Persists(mon, mon')
    <3>1. CASE mon' = m
      <4>1. Account(m) \in Nat
        BY <2>4, AccountType
      <4>2. AtMostMore(0, mon, m)
        BY <1>3, <2>4, <4>1 DEF AtMostMore
      <4> QED
        BY <2>1, <2>4, <3>1, <4>2 DEF Persists
    <3>2. ASSUME NEW ok \in BOOLEAN, mon' = CommitDowngrade(m, bg.now, "enum", ok)
          PROVE  AtMostMore(0, mon, mon') /\ Persists(mon, mon')
      <4> DEFINE n == CommitDowngrade(m, bg.now, "enum", ok)
      <4>1. Account(n) = 0 /\ n.asked \in {"enum", "none"} /\ Persists(m, n)
        BY <1>2, <2>4, DowngradeSettles, DowngradeStays DEF Kind
      <4> HIDE DEF n
      <4>2. AtMostMore(0, mon, n)
        BY <1>3, <4>1 DEF AtMostMore, ByChange
      <4> QED
        BY <2>1, <2>4, <3>2, <4>1, <4>2 DEF Persists, n
    <3> QED
      BY <2>2, <3>1, <3>2
  <2> QED
    BY <1>1, <2>3, <2>5, QuietRecorded DEF Persists
<1>5. CASE BackgroundScore
  <2> DEFINE b == [mon EXCEPT !.prev = bg.now, !.asked = "none"]
  <2>1. /\ b \in Mon /\ Below(b) /\ Persists(mon, b) /\ b.asked = "none"
        /\ Account(b) = Account(mon)
    <3>1. b \in Mon
      <4>1. mon \in Mon /\ "none" \in Kind /\ bg.now \in Time
        BY <1>2, NowType DEF Kind
      <4> QED
        BY <4>1, Zenon DEF Mon
    <3>2. /\ b.speed = mon.speed /\ b.score = mon.score /\ b.slow = mon.slow
          /\ b.persist = mon.persist /\ b.speedN = mon.speedN /\ b.suspN = mon.suspN
          /\ b.asked = "none" /\ Persists(mon, b)
      BY <1>2 DEF Mon, Persists
    <3> HIDE DEF b
    <3> QED
      BY <1>2, <3>1, <3>2, BelowSame, AccountSame
  <2>2. PICK ok \in BOOLEAN : mon' = ProcessDelta(b, bg.now, bg.delta, ok)
    BY <1>5 DEF BackgroundScore
  <2>3. h' = Forget(Seen, mon')
    BY <1>5 DEF BackgroundScore
  <2> HIDE DEF b
  <2>4. /\ Persists(b, mon')
        /\ Alike(b, mon') \/ (mon'.asked \in {"none", "sof"} /\ Account(mon') = 0)
    BY <1>2, <2>1, <2>2, DeltaCounts
  <2>5. AtMostMore(0, mon, mon')
    <3>1. CASE Alike(b, mon')
      <4>1. mon'.asked = "none" /\ Account(mon') = Account(mon)
        BY <2>1, <3>1, AccountSame DEF Alike
      <4> QED
        BY <1>3, <4>1 DEF AtMostMore
    <3>2. CASE mon'.asked \in {"none", "sof"} /\ Account(mon') = 0
      BY <1>3, <3>2 DEF AtMostMore, ByChange
    <3> QED
      BY <2>4, <3>1, <3>2
  <2> QED
    BY <1>1, <2>1, <2>3, <2>4, <2>5, QuietRecorded DEF Persists
<1> QED
  BY <1>4, <1>5

LEMMA CountKept == ASSUME CountInv, [Next]_vars PROVE CountInv'
<1>1. Inv'
  BY InvKept DEF CountInv
<1>2. CASE Tick
  <2>1. mon' = Aged(mon) /\ mon \in Mon
    BY <1>2 DEF Tick, CountInv, Inv
  <2>2. Alike(mon, mon')
    BY <2>1, AgedAlike
  <2>3. HasChanges' /\ h'.changes = h.changes
    BY <1>2 DEF Tick, CountInv, HasChanges
  <2>4. Recorded(mon', h.changes)
    BY <2>2, RecordedSame DEF CountInv, Alike
  <2>5. Recorded(mon, h.changes)'
    BY <2>3, <2>4 DEF Recorded, Account, Worth, Enough
  <2> QED
    BY <1>1, <2>2, <2>3, <2>5 DEF CountInv, Heard, Alike, Persists
<1>3. CASE UNCHANGED <<mon, h>>
  BY <1>1, <1>3 DEF CountInv, HasChanges, Heard, Recorded, Account, Worth, Enough
<1>4. CASE InstabilityStore \/ BackgroundService \/ BackgroundDelta
  BY <1>3, <1>4 DEF InstabilityStore, BackgroundService, BackgroundDelta
<1>5. CASE BusReset \/ SetAddress \/ SetConfiguration \/ Suspend \/ Resume
  BY <1>3, <1>5 DEF BusReset, SetAddress, SetConfiguration, Suspend, Resume, Bus
<1>6. CASE UNCHANGED vars
  BY <1>3, <1>6 DEF vars
<1> QED
  BY <1>2, <1>4, <1>5, <1>6, SofRecorded, BackgroundRecorded DEF Next, Background

\* The monitor never asks for a slower mode on account of speed changes or suspends
\* unless there were EventThreshold * Persistent of them since it asked last, whatever
\* windows ran out, resets came and requests of other kinds were made in between
\* (usbd_hid.c, usbHidMonitorHandleSpeedChange and HandleSuspend with their persistent
\* score).
THEOREM ChangesAreCounted == Spec => []AskedAfterChanges
<1>1. CountInv => AskedAfterChanges
  BY DEF CountInv, Recorded, AskedAfterChanges, ByChange, Enough
<1>2. CountInv /\ [Next]_vars => CountInv'
  BY CountKept
<1> QED
  BY <1>1, <1>2, CountHolds, PTL DEF Spec

-----------------------------------------------------------------------------
(* A slower mode on account of SOFs *)

\* The healthy time a score of n leaves: what the points of one event lost.
Room(s, n) == (Params[s].cap - n) * (Params[s].decay + Params[s].stable) + Params[s].stable
NoSof(s) == Params[s].expected * NoSofFactor

LEMMA GapFields ==
  /\ Holdoff \in Nat /\ Holdoff > 0 /\ Confirm \in Nat /\ Confirm > 0
  /\ Recovery \in Nat /\ Recovery > 0 /\ MaxGap \in Nat /\ Floor \in Int
  /\ \A s \in Speed :
       /\ Params[s].stable \in Nat /\ Params[s].stable > 1
       /\ Params[s].decay \in Nat /\ Params[s].decay > 0
       /\ Params[s].slowDecay \in Nat /\ Params[s].slowDecay > 1
       /\ Params[s].cap \in Nat /\ Params[s].cap > 0
       /\ Params[s].threshold \in Nat /\ Params[s].cap < Params[s].threshold
       /\ Params[s].slowThreshold \in Nat /\ Params[s].slowThreshold > 1
       /\ NoSof(s) \in Nat /\ Params[s].stable < NoSof(s) /\ NoSof(s) <= MaxGap + 1
       /\ Floor < -Params[s].stable /\ Floor <= -Params[s].decay
       /\ Floor <= -Params[s].slowDecay
<1>1. /\ Holdoff \in Nat /\ Confirm \in Nat /\ Recovery \in Nat /\ NoSofFactor \in Nat
      /\ Floor \in Int
  BY TimeAssumption
<1>2. ASSUME NEW s \in Speed
      PROVE  /\ Params[s].stable \in Nat /\ Params[s].stable > 1
             /\ Params[s].decay > 0 /\ NoSof(s) \in Nat
             /\ Params[s].cap < Params[s].threshold
  <2>1. /\ Params[s].expected \in Nat /\ Params[s].expected > 0 /\ Params[s].stable \in Nat
        /\ Params[s].decay \in Nat
    BY ParamsFields
  <2>2. Params[s].expected < Params[s].stable /\ Params[s].cap < Params[s].threshold
    BY ParamsAssumption
  <2>3. Params[s].decay \in Nat \ {0}
    BY ParamsAssumption DEF NoParams
  <2>4. NoSof(s) \in Nat
    BY <1>1, <2>1 DEF NoSof
  <2> QED
    BY <2>1, <2>2, <2>3, <2>4
<1> QED
  BY <1>1, <1>2, GapAssumption, ParamsFields DEF NoSof

LEMMA RoomFacts ==
  ASSUME NEW s \in Speed, NEW n \in 1 .. Params[s].cap
  PROVE  /\ Room(s, n) \in Nat /\ Room(s, n) >= Params[s].stable
         /\ Room(s, n - 1) = Room(s, n) + Params[s].decay + Params[s].stable
         /\ Room(s, n) + Params[s].decay
              <= Params[s].cap * (Params[s].decay + Params[s].stable)
<1> DEFINE c == Params[s].cap
           k == Params[s].decay + Params[s].stable
<1>1. c \in Nat /\ k \in Nat /\ Params[s].decay \in Nat /\ Params[s].stable \in Nat
  BY GapFields
<1>2. Room(s, n) = (c - n) * k + Params[s].stable
      /\ Room(s, n - 1) = (c - (n - 1)) * k + Params[s].stable
  BY DEF Room
<1>3. n \in Nat /\ n <= c /\ n >= 1 /\ c - n \in Nat
  BY <1>1
<1> HIDE DEF c
<1>4. (c - (n - 1)) * k = (c - n) * k + k
  <2> HIDE DEF k
  <2> QED
    BY <1>1, <1>3
<1>5. (c - n) * k \in Nat
  <2> HIDE DEF k
  <2> QED
    BY <1>1, <1>3
<1>6. (c - n) * k + k <= c * k
  <2> DEFINE j == n - 1
  <2>1. j \in Nat /\ n = j + 1
    BY <1>3
  <2> HIDE DEF k, j
  <2>2. c * k = (c - n) * k + k + j * k
    BY <1>1, <1>3, <2>1
  <2>3. j * k \in Nat
    BY <1>1, <2>1
  <2> QED
    BY <1>1, <1>5, <2>2, <2>3
<1> DEFINE q == (c - n) * k
<1> HIDE DEF q
<1>7. Room(s, n) = q + Params[s].stable /\ Room(s, n - 1) = q + k + Params[s].stable
  BY <1>2, <1>4 DEF q
<1>8. q \in Nat /\ q + k <= c * k
  BY <1>5, <1>6 DEF q
<1>9. q + Params[s].stable + Params[s].decay <= c * k
  BY <1>1, <1>8
<1> QED
  BY <1>1, <1>7, <1>8, <1>9 DEF c

LEMMA QuietCovers ==
  /\ Quiet \in Nat /\ Quiet > 1
  /\ \A s \in Speed : /\ Params[s].cap * (Params[s].decay + Params[s].stable) <= Quiet
                      /\ Params[s].slowDecay + Params[s].stable <= Quiet
<1> DEFINE HasMax(S) == \E x \in S : \A y \in S : x >= y
           A(s) == Params[s].cap * (Params[s].decay + Params[s].stable)
           B(s) == Params[s].slowDecay + Params[s].stable
           S1 == {A("HS")}
           S2 == S1 \cup {A("FS")}
           S3 == S2 \cup {B("HS")}
           S4 == S3 \cup {B("FS")}
<1>1. ASSUME NEW s \in Speed PROVE A(s) \in Nat /\ B(s) \in Nat /\ B(s) > 1
  BY GapFields
<1>2. Quiet = Max(S4)
  <2>1. {A(s) : s \in Speed} \cup {B(s) : s \in Speed} = S4
    BY DEF Speed
  <2> QED
    BY <2>1 DEF Quiet
<1> HIDE DEF A, B
<1>3. {A("HS"), A("FS"), B("HS"), B("FS")} \subseteq Nat
  BY <1>1 DEF Speed
<1>4. HasMax(S1)
  BY <1>3
<1>5. HasMax(S2)
  BY <1>3, <1>4, LargerOne
<1>6. HasMax(S3)
  BY <1>3, <1>5, LargerOne
<1>7. HasMax(S4)
  BY <1>3, <1>6, LargerOne
<1>8. Quiet \in S4 /\ \A y \in S4 : Quiet >= y
  BY <1>2, <1>7 DEF Max
<1>9. ASSUME NEW s \in Speed PROVE A(s) \in S4 /\ B(s) \in S4
  BY DEF Speed
<1>10. S4 \subseteq Nat
  BY <1>3
<1>11. ASSUME NEW s \in Speed PROVE A(s) <= Quiet /\ B(s) <= Quiet
  BY <1>8, <1>9, <1>10
<1>12. Quiet > 1
  <2>1. B("HS") > 1 /\ B("HS") <= Quiet /\ B("HS") \in Nat
    BY <1>1, <1>11 DEF Speed
  <2> QED
    BY <1>8, <1>10, <2>1
<1> QED
  BY <1>8, <1>10, <1>11, <1>12 DEF A, B

-----------------------------------------------------------------------------
(* What judging an interval does to the points *)

Scoring(m) == m.score > 0 \/ m.slow > 0
\* The parts of the monitor the points of SOFs are counted in.
Tally == {"score", "decay", "slow", "slowDecay", "warm", "holdoff", "asked"}
Heard0(m, n, t) ==
  /\ n.prev = m.prev /\ n.speed = m.speed /\ n.noSof = t + NoSof(m.speed)

\* What an interval comes to: nothing during a hold-off or the warm-up,
Unjudged(m, n, t) ==
  /\ n.score = m.score /\ n.slow = m.slow /\ n.holdoff = m.holdoff
  /\ \/ t < m.holdoff
     \/ ~m.warm /\ n.slowDecay = m.slowDecay
\* forgiveness when it is healthy,
FastEased(m, n, t) ==
  \/ /\ n.score = m.score
     /\ \/ n.decay = t /\ ~m.warm
        \/ n.decay = m.decay /\ (m.score = 0 \/ Sub(t, m.decay) < Params[m.speed].decay)
  \/ /\ m.score > 0 /\ n.score = m.score - 1
     /\ Sub(t, m.decay) >= Params[m.speed].decay /\ n.decay = t
SlowEased(m, n, t) ==
  \/ /\ n.slow = m.slow
     /\ \/ n.slowDecay = t /\ ~m.warm
        \/ n.slowDecay = m.slowDecay
             /\ (m.slow = 0 \/ Sub(t, m.slowDecay) < Params[m.speed].slowDecay)
  \/ /\ m.slow > 0 /\ n.slow = m.slow - 1
     /\ Sub(t, m.slowDecay) >= Params[m.speed].slowDecay /\ n.slowDecay = t
Eased(m, n, t, d) ==
  /\ t >= m.holdoff /\ d < Params[m.speed].stable
  /\ n.warm /\ n.holdoff = m.holdoff
  /\ FastEased(m, n, t) /\ SlowEased(m, n, t)
\* points when it is too long,
Charged(m, n, t, d) ==
  /\ t >= m.holdoff /\ d >= Params[m.speed].stable
  /\ n.warm /\ n.holdoff = m.holdoff
  /\ n.score > 0 /\ n.score <= m.score + Params[m.speed].cap
  /\ n.slow > 0 /\ n.slow <= m.slow + 1
  /\ n.decay = t /\ n.slowDecay = t
\* and a request when that is too many.
Asked(m, n, t, d) ==
  /\ t >= m.holdoff /\ d >= Params[m.speed].stable
  /\ n.score = 0 /\ n.slow = 0 /\ n.holdoff > t
  /\ \/ m.score + Params[m.speed].cap >= Params[m.speed].threshold
     \/ m.slow + 1 >= Params[m.speed].slowThreshold
  /\ n.decay = t /\ n.slowDecay = t
Judged(m, n, t, d) ==
  /\ Unjudged(m, n, t) \/ Eased(m, n, t, d) \/ Charged(m, n, t, d) \/ Asked(m, n, t, d)
  /\ {n.decay, n.slowDecay} \subseteq {m.decay, m.slowDecay, t}

LEMMA DecayEases ==
  ASSUME NEW m \in Mon, m.speed \in Speed, m.warm, NEW t \in Now
  PROVE  LET n == Decayed(m, t)
         IN  /\ FastEased(m, n, t) /\ SlowEased(m, n, t)
             /\ n.warm /\ n.holdoff = m.holdoff /\ n.asked = m.asked
<1> DEFINE n == Decayed(m, t)
           fast == m.score > 0 /\ Sub(t, m.decay) >= Par(m).decay
           slow == m.slow > 0 /\ Sub(t, m.slowDecay) >= Par(m).slowDecay
<1>1. n = [m EXCEPT !.score = IF fast THEN m.score - 1 ELSE m.score,
                    !.decay = IF fast THEN t ELSE m.decay,
                    !.slow = IF slow THEN m.slow - 1 ELSE m.slow,
                    !.slowDecay = IF slow THEN t ELSE m.slowDecay]
  BY DEF Decayed, Mon
<1>2. Par(m) = Params[m.speed]
  BY ParFields
<1>3. /\ m.score \in Nat /\ m.slow \in Nat /\ Sub(t, m.decay) \in Nat
      /\ Sub(t, m.slowDecay) \in Nat /\ Params[m.speed].decay \in Nat
      /\ Params[m.speed].slowDecay \in Nat
  <2>1. m.score \in Nat /\ m.slow \in Nat /\ m.decay \in Time /\ m.slowDecay \in Time
    BY DEF Mon
  <2> QED
    BY <2>1, NowType, GapFields
<1>4. /\ n.score = IF fast THEN m.score - 1 ELSE m.score
      /\ n.decay = IF fast THEN t ELSE m.decay
      /\ n.slow = IF slow THEN m.slow - 1 ELSE m.slow
      /\ n.slowDecay = IF slow THEN t ELSE m.slowDecay
      /\ n.warm /\ n.holdoff = m.holdoff /\ n.asked = m.asked
  BY <1>1 DEF Mon
<1> HIDE DEF n
<1>5. FastEased(m, n, t)
  <2>1. CASE fast
    BY <1>2, <1>4, <2>1 DEF FastEased
  <2>2. CASE ~fast
    BY <1>2, <1>3, <1>4, <2>2 DEF FastEased
  <2> QED
    BY <2>1, <2>2
<1>6. SlowEased(m, n, t)
  <2>1. CASE slow
    BY <1>2, <1>4, <2>1 DEF SlowEased
  <2>2. CASE ~slow
    BY <1>2, <1>3, <1>4, <2>2 DEF SlowEased
  <2> QED
    BY <2>1, <2>2
<1> QED
  BY <1>4, <1>5, <1>6 DEF n

LEMMA ScoredShape ==
  ASSUME NEW m \in Mon, m.speed \in Speed, m.warm, NEW t \in Now, NEW d \in Nat,
         NEW ok \in BOOLEAN, t >= m.holdoff, d >= Params[m.speed].stable
  PROVE  LET n == Scored(m, t, d, ok)
         IN  Asked(m, n, t, d) \/ (Charged(m, n, t, d) /\ n.asked = m.asked)
<1> DEFINE a == Least(m.score + Points(m, d), 255)
           b == Least(m.slow + 1, 255)
           s == [m EXCEPT !.score = a, !.decay = t, !.slow = b, !.slowDecay = t]
           over == s.score >= Par(m).threshold \/ s.slow >= Par(m).slowThreshold
           n == Scored(m, t, d, ok)
<1>1. n = IF over THEN CommitDowngrade(s, t, "sof", ok) ELSE s
  BY DEF Scored, Mon
<1>2. Par(m) = Params[m.speed]
  BY ParFields
<1>3. /\ a \in Nat /\ a > 0 /\ a <= m.score + Params[m.speed].cap
      /\ b \in Nat /\ b > 0 /\ b <= m.slow + 1 /\ m.score \in Nat /\ m.slow \in Nat
  <2>1. /\ Points(m, d) \in Nat /\ Points(m, d) >= 1 /\ Points(m, d) <= Params[m.speed].cap
    BY <1>2, PointsType
  <2>2. m.score \in Nat /\ m.slow \in Nat
    BY DEF Mon
  <2>3. Params[m.speed].cap \in Nat
    BY GapFields
  <2> QED
    BY <2>1, <2>2, <2>3 DEF Least
<1> HIDE DEF a, b
<1>4. /\ s.score = a /\ s.slow = b /\ s.decay = t /\ s.slowDecay = t
      /\ s.warm /\ s.holdoff = m.holdoff /\ s.asked = m.asked /\ DOMAIN s = DOMAIN m
  BY DEF Mon
<1>5. CASE ~over
  <2>1. n = s
    BY <1>1, <1>5
  <2> HIDE DEF s
  <2> QED
    BY <1>3, <1>4, <2>1 DEF Charged, n
<1>6. CASE over
  <2> DEFINE e == t + (IF Slower /\ ok THEN Confirm ELSE Recovery)
  <2>1. n = [s EXCEPT !.holdoff = e,
            !.score = 0, !.slow = 0, !.persist = 0, !.speedN = 0, !.suspN = 0,
            !.speedEnd = Over, !.suspEnd = Over, !.grace = FALSE,
            !.asked = IF Slower THEN "sof" ELSE "none"]
    BY <1>1, <1>6 DEF CommitDowngrade
  <2>2. e > t
    BY GapFields DEF Now
  <2> HIDE DEF e
  <2>3. n.score = 0 /\ n.slow = 0 /\ n.holdoff = e /\ n.decay = t /\ n.slowDecay = t
    BY <2>1 DEF Mon
  <2>4. m.score + Params[m.speed].cap >= Params[m.speed].threshold
        \/ m.slow + 1 >= Params[m.speed].slowThreshold
    <3>1. a >= Params[m.speed].threshold \/ b >= Params[m.speed].slowThreshold
      BY <1>2, <1>4, <1>6
    <3> QED
      BY <1>3, <3>1, GapFields
  <2> HIDE DEF s, n
  <2>5. Asked(m, n, t, d)
    BY <2>2, <2>3, <2>4 DEF Asked
  <2> QED
    BY <2>5 DEF n
<1> QED
  BY <1>5, <1>6

LEMMA DeltaShape ==
  ASSUME NEW m \in Mon, m.speed \in Speed, NEW t \in Now, NEW d \in Nat, NEW ok \in BOOLEAN
  PROVE  LET n == ProcessDelta(m, t, d, ok)
         IN  /\ Heard0(m, n, t) /\ Judged(m, n, t, d)
             /\ n.asked = m.asked \/ Asked(m, n, t, d)
<1> DEFINE p == PrimeTimeout(m, t)
           w == IF p.warm THEN p ELSE Warmup(p, t, d)
           n == ProcessDelta(m, t, d, ok)
<1>1. /\ Par(m) = Params[m.speed] /\ Par(m).expected # 0
      /\ Params[m.speed].stable \in Nat /\ Params[m.speed].decay \in Nat
      /\ Params[m.speed].slowDecay \in Nat /\ Params[m.speed].decay > 0
      /\ Params[m.speed].slowDecay > 1
  BY ParFields, ParamsFields, GapFields
<1>2. n = IF t < p.holdoff THEN [p EXCEPT !.decay = t, !.slowDecay = t]
          ELSE IF ~w.warm THEN w
          ELSE IF d < Par(m).stable THEN Decayed(w, t)
          ELSE Scored(w, t, d, ok)
  BY <1>1 DEF ProcessDelta
<1>3. /\ p = [m EXCEPT !.noSof = t + NoSof(m.speed)] /\ p \in Mon
  BY <1>1, TimeoutPrimed, ParFields DEF PrimeTimeout, NoSof
<1>4. /\ \A f \in Tally \cup {"prev", "speed"} : p[f] = m[f]
      /\ p.noSof = t + NoSof(m.speed)
  BY <1>3 DEF Mon, Tally
<1> HIDE DEF p
<1>5. /\ w \in Mon
      /\ \A f \in {"score", "slow", "holdoff", "asked", "prev", "speed", "noSof"} : w[f] = p[f]
      /\ m.warm => w = p
      /\ ~m.warm => \/ w.warm /\ w.decay = t /\ w.slowDecay = t
                    \/ ~w.warm /\ w.decay = m.decay /\ w.slowDecay = m.slowDecay
  <2>1. CASE p.warm
    BY <1>3, <1>4, <2>1 DEF Tally
  <2>2. CASE ~p.warm
    <3> DEFINE target == WarmTarget(p, t)
               good == IF d >= Par(p).stable THEN 0
                       ELSE IF p.good < target THEN p.good + 1 ELSE p.good
               still == p.grace /\ t <= p.graceEnd
               graced == [p EXCEPT !.good = good, !.grace = still]
    <3>1. w = [graced EXCEPT !.warm = TRUE, !.decay = t, !.slowDecay = t, !.grace = FALSE]
            \/ w = graced
      BY <2>2 DEF Warmup
    <3>2. good \in Nat /\ still \in BOOLEAN /\ t \in Time
      BY <1>3, NowType DEF Mon
    <3> HIDE DEF good, still, w
    <3>3. graced \in Mon
      <4>1. p \in Mon
        BY <1>3
      <4> QED
        BY <3>2, <4>1, Zenon DEF Mon
    <3>4. /\ \A f \in Tally \cup {"prev", "speed", "noSof"} : graced[f] = p[f]
      BY <1>3 DEF Mon, Tally
    <3> HIDE DEF graced
    <3>5. CASE w = graced
      BY <1>4, <2>2, <3>3, <3>4, <3>5 DEF Tally
    <3>6. CASE w = [graced EXCEPT !.warm = TRUE, !.decay = t, !.slowDecay = t, !.grace = FALSE]
      <4>1. w \in Mon
        <5>1. TRUE \in BOOLEAN /\ FALSE \in BOOLEAN
          OBVIOUS
        <5>2. [graced EXCEPT !.warm = TRUE, !.decay = t, !.slowDecay = t, !.grace = FALSE] \in Mon
          BY <3>2, <3>3, <5>1, Zenon DEF Mon
        <5> QED
          BY <3>6, <5>2
      <4>2. /\ w.warm /\ w.decay = t /\ w.slowDecay = t
            /\ \A f \in {"score", "slow", "holdoff", "asked", "prev", "speed", "noSof"} :
                 w[f] = graced[f]
        BY <3>3, <3>6 DEF Mon
      <4> QED
        BY <1>4, <2>2, <3>4, <4>1, <4>2 DEF Tally
    <3> QED
      BY <3>1, <3>5, <3>6
  <2> QED
    BY <2>1, <2>2
<1> HIDE DEF w, n
<1>6. /\ \A f \in {"score", "slow", "holdoff", "asked", "prev", "speed"} : w[f] = m[f]
      /\ w.noSof = t + NoSof(m.speed)
  BY <1>4, <1>5 DEF Tally
<1>7. CASE n = [p EXCEPT !.decay = t, !.slowDecay = t] /\ t < p.holdoff
  <2>1. /\ \A f \in {"score", "slow", "warm", "holdoff", "asked", "prev", "speed", "noSof"} :
             n[f] = p[f]
        /\ n.decay = t /\ n.slowDecay = t
    <3>1. p \in Mon
      BY <1>3
    <3> QED
      BY <1>7, <3>1 DEF Mon
  <2>2. Heard0(m, n, t) /\ Unjudged(m, n, t)
    BY <1>4, <1>7, <2>1 DEF Heard0, Unjudged, Tally
  <2>3. n.asked = m.asked
    BY <1>4, <2>1 DEF Tally
  <2> QED
    BY <2>1, <2>2, <2>3 DEF Judged, n
<1>8. CASE n = w /\ ~w.warm
  <2>1. ~m.warm
    BY <1>4, <1>5, <1>8 DEF Tally
  <2>2. Heard0(m, n, t) /\ Unjudged(m, n, t) /\ n.decay = m.decay /\ n.slowDecay = m.slowDecay
      /\ n.asked = m.asked
    BY <1>5, <1>6, <1>8, <2>1 DEF Heard0, Unjudged
  <2> QED
    BY <2>2 DEF Judged, n
<1> DEFINE judged == t >= m.holdoff /\ w.warm
<1>9. ASSUME judged
      PROVE  /\ m.warm => w.decay = m.decay /\ w.slowDecay = m.slowDecay
             /\ ~m.warm => w.decay = t /\ w.slowDecay = t
  BY <1>4, <1>5, <1>9 DEF Tally
<1>10. CASE n = Decayed(w, t) /\ d < Par(m).stable /\ judged
  <2>1. FastEased(w, n, t) /\ SlowEased(w, n, t) /\ n.warm /\ n.holdoff = w.holdoff
        /\ n.asked = w.asked
    BY <1>5, <1>6, <1>10, DecayEases
  <2>2. n.prev = w.prev /\ n.speed = w.speed /\ n.noSof = w.noSof
    BY <1>5, <1>10 DEF Decayed, Mon
  <2>3. FastEased(m, n, t)
    <3>1. CASE m.warm
      BY <1>6, <1>9, <1>10, <2>1, <3>1 DEF FastEased
    <3>2. CASE ~m.warm
      <4>1. w.decay = t
        BY <1>9, <1>10, <3>2
      <4>2. Sub(t, t) = 0
        BY DEF Sub, Now
      <4>3. n.score = w.score /\ n.decay = t
        BY <1>1, <1>6, <2>1, <4>1, <4>2 DEF FastEased
      <4> QED
        BY <1>6, <3>2, <4>3 DEF FastEased
    <3> QED
      BY <3>1, <3>2
  <2>4. SlowEased(m, n, t)
    <3>1. CASE m.warm
      BY <1>6, <1>9, <1>10, <2>1, <3>1 DEF SlowEased
    <3>2. CASE ~m.warm
      <4>1. w.slowDecay = t
        BY <1>9, <1>10, <3>2
      <4>2. Sub(t, t) = 0
        BY DEF Sub, Now
      <4>3. n.slow = w.slow /\ n.slowDecay = t
        BY <1>1, <1>6, <2>1, <4>1, <4>2 DEF SlowEased
      <4> QED
        BY <1>6, <3>2, <4>3 DEF SlowEased
    <3> QED
      BY <3>1, <3>2
  <2>5. Heard0(m, n, t) /\ Eased(m, n, t, d)
    BY <1>1, <1>6, <1>10, <2>1, <2>2, <2>3, <2>4 DEF Heard0, Eased
  <2>6. {n.decay, n.slowDecay} \subseteq {m.decay, m.slowDecay, t}
    BY <2>3, <2>4 DEF FastEased, SlowEased
  <2>7. n.asked = m.asked
    BY <1>6, <2>1
  <2> QED
    BY <2>5, <2>6, <2>7 DEF Judged, n
<1>11. CASE n = Scored(w, t, d, ok) /\ d >= Par(m).stable /\ judged
  <2>1. w.speed \in Speed /\ t >= w.holdoff /\ w.warm /\ w.speed = m.speed
    BY <1>6, <1>11
  <2>2. Asked(w, n, t, d) \/ (Charged(w, n, t, d) /\ n.asked = w.asked)
    BY <1>1, <1>5, <1>11, <2>1, ScoredShape
  <2>3. n.prev = w.prev /\ n.speed = w.speed /\ n.noSof = w.noSof
    BY <1>5, <1>11 DEF Scored, CommitDowngrade, Mon
  <2>4. Heard0(m, n, t)
    BY <1>6, <2>3 DEF Heard0
  <2>5. Asked(m, n, t, d) \/ (Charged(m, n, t, d) /\ n.asked = m.asked)
    BY <1>6, <2>2 DEF Charged, Asked
  <2>6. {n.decay, n.slowDecay} \subseteq {t}
    BY <2>2 DEF Charged, Asked
  <2> QED
    BY <2>4, <2>5, <2>6 DEF Judged, n
<1>12. t \in Int /\ m.holdoff \in Int /\ p.holdoff = m.holdoff /\ d \in Int
  <2>1. m.holdoff \in Time
    BY DEF Mon
  <2> QED
    BY <1>4, <2>1, TimeAssumption DEF Now, Time, Tally
<1> QED
  BY <1>1, <1>2, <1>7, <1>8, <1>10, <1>11, <1>12

-----------------------------------------------------------------------------
(* Starting afresh *)

\* After a break of any kind the monitor starts afresh, in a hold-off.
Fresh(m, n, t) ==
  /\ n.score = 0 /\ (n.slow = 0 \/ n.slow < m.slow)
  /\ n.decay = t /\ n.slowDecay = t /\ n.holdoff > t
  /\ n.speed = dev.speed /\ n.noSof = t + NoSof(dev.speed) /\ n.asked # "sof"

LEMMA BumpSlow ==
  ASSUME NEW m \in Mon, NEW t \in Now, NEW kind \in Kind, NEW ok \in BOOLEAN
  PROVE  LET n == BumpPersistent(m, t, kind, ok)
         IN  n.slow \in {m.slow, 0} /\ n.asked \in {m.asked, kind, "none"}
<1> DEFINE p == Least(m.persist + 1, 255)
           b == [m EXCEPT !.persist = p]
           n == BumpPersistent(m, t, kind, ok)
<1>1. n = CommitDowngrade(b, t, kind, ok) \/ n = b
  BY DEF BumpPersistent, Mon
<1> HIDE DEF p, n
<1>2. b.slow = m.slow /\ b.asked = m.asked /\ DOMAIN b = DOMAIN m
  BY DEF Mon
<1>3. CASE n = CommitDowngrade(b, t, kind, ok)
  <2> HIDE DEF b
  <2>1. n.slow = 0 /\ n.asked \in {kind, "none"}
    BY <1>2, <1>3 DEF CommitDowngrade, Mon
  <2> QED
    BY <2>1 DEF n
<1> QED
  BY <1>1, <1>2, <1>3 DEF n

LEMMA ChangeSlow ==
  ASSUME NEW m \in Mon, Below(m), NEW t \in Now, NEW ok \in BOOLEAN
  PROVE  LET n == HandleSpeedChange(m, t, ok)
         IN  n.slow \in {m.slow, 0} /\ n.asked \in {m.asked, "speed", "none"}
<1> DEFINE fresh == m.speedN = 0 \/ t >= m.speedEnd
           k == IF fresh THEN 1 ELSE m.speedN + 1
           g == Graced(m, t)
           none == [m EXCEPT !.speedN = 0, !.speedEnd = Over]
           over == [g EXCEPT !.speedN = 0, !.speedEnd = t + SpeedWindow]
           more == [g EXCEPT !.speedN = k, !.speedEnd = IF fresh THEN t + SpeedWindow ELSE @]
           n == HandleSpeedChange(m, t, ok)
<1>1. n = none \/ n = BumpPersistent(over, t, "speed", ok) \/ n = more
  BY DEF HandleSpeedChange
<1>2. g \in Mon /\ g.slow = m.slow /\ g.asked = m.asked
  BY GracedKeeps
<1> HIDE DEF g, n, fresh, k
<1>3. /\ none.slow = m.slow /\ more.slow = m.slow /\ over.slow = m.slow
      /\ none.asked = m.asked /\ more.asked = m.asked /\ over.asked = m.asked
  BY <1>2 DEF Mon
<1>4. over \in Mon
  <2>1. t + SpeedWindow \in Time /\ 0 \in 0 .. 255 /\ g \in Mon
    BY <1>2, NowType
  <2> QED
    BY <2>1, Zenon DEF Mon
<1> HIDE DEF none, over, more
<1>5. LET b == BumpPersistent(over, t, "speed", ok)
      IN  b.slow \in {over.slow, 0} /\ b.asked \in {over.asked, "speed", "none"}
  BY <1>4, BumpSlow DEF Kind
<1> QED
  BY <1>1, <1>3, <1>5 DEF n

LEMMA SuspendSlow ==
  ASSUME NEW m \in Mon, Below(m), NEW t \in Now, NEW ok \in BOOLEAN
  PROVE  LET n == HandleSuspend(m, t, ok)
         IN  n.slow \in {m.slow, 0} /\ n.asked \in {m.asked, "suspend", "none"}
<1> DEFINE fresh == m.suspN = 0 \/ t >= m.suspEnd
           k == IF fresh THEN 1 ELSE m.suspN + 1
           g == Graced(m, t)
           none == [m EXCEPT !.suspN = 0, !.suspEnd = Over]
           over == [g EXCEPT !.suspN = 0, !.suspEnd = t + SuspendWindow]
           more == [g EXCEPT !.suspN = k, !.suspEnd = IF fresh THEN t + SuspendWindow ELSE @]
           n == HandleSuspend(m, t, ok)
<1>1. n = none \/ n = BumpPersistent(over, t, "suspend", ok) \/ n = more
  BY DEF HandleSuspend
<1>2. g \in Mon /\ g.slow = m.slow /\ g.asked = m.asked
  BY GracedKeeps
<1> HIDE DEF g, n, fresh, k
<1>3. /\ none.slow = m.slow /\ more.slow = m.slow /\ over.slow = m.slow
      /\ none.asked = m.asked /\ more.asked = m.asked /\ over.asked = m.asked
  BY <1>2 DEF Mon
<1>4. over \in Mon
  <2>1. t + SuspendWindow \in Time /\ 0 \in 0 .. 255 /\ g \in Mon
    BY <1>2, NowType
  <2> QED
    BY <2>1, Zenon DEF Mon
<1> HIDE DEF none, over, more
<1>5. LET b == BumpPersistent(over, t, "suspend", ok)
      IN  b.slow \in {over.slow, 0} /\ b.asked \in {over.asked, "suspend", "none"}
  BY <1>4, BumpSlow DEF Kind
<1> QED
  BY <1>1, <1>3, <1>5 DEF n

LEMMA RestartFields ==
  ASSUME NEW m \in Mon, NEW t \in Now
  PROVE  LET r == Restart(m, t)
         IN  /\ r \in Mon /\ r.score = 0 /\ r.decay = t /\ r.slowDecay = t
             /\ r.slow = m.slow /\ r.speed = m.speed /\ r.asked = m.asked
<1>1. /\ Restart(m, t) \in Mon /\ Restart(m, t).score = 0
      /\ \A f \in {"speed", "slow", "persist", "speedN", "suspN"} : Restart(m, t)[f] = m[f]
  BY Restarted
<1>2. Restart(m, t).decay = t /\ Restart(m, t).slowDecay = t
  BY DEF Restart, Mon
<1>3. Restart(m, t).asked = m.asked
  BY RestartAlike DEF Alike
<1> QED
  BY <1>1, <1>2, <1>3

LEMMA HoldoffAhead == \A t \in Now : t + Holdoff > t
BY GapFields DEF Now

LEMMA FirstSofFresh ==
  ASSUME DevOK, NEW m \in Mon, Below(m), m.asked = "none", NEW t \in Now,
         m.prevState # dev.state
  PROVE  Fresh(m, FirstSof(m, t), t)
<1> DEFINE r == Restart(m, t)
           n == [r EXCEPT
            !.prev = t, !.slow = 0, !.holdoff = t + Holdoff, !.speed = dev.speed,
            !.speedN = 0, !.suspN = 0, !.persist = 0, !.speedEnd = Over, !.suspEnd = Over,
            !.grace = FALSE, !.graceEnd = Over, !.prevState = dev.state]
           z == FirstSof(m, t)
<1>1. z = PrimeTimeout(n, t)
  BY DEF FirstSof
<1>2. r \in Mon /\ r.score = 0 /\ r.decay = t /\ r.slowDecay = t
  BY RestartFields
<1>3. r.asked = "none"
  BY RestartFields
<1> HIDE DEF r, z
<1>4. /\ n.score = 0 /\ n.slow = 0 /\ n.decay = t /\ n.slowDecay = t
      /\ n.holdoff = t + Holdoff /\ n.speed = dev.speed /\ n.asked = "none"
      /\ DOMAIN n = DOMAIN r
  <2>1. DOMAIN n = DOMAIN r
    OBVIOUS
  <2>2. /\ n.score = 0 /\ n.slow = 0 /\ n.decay = t /\ n.slowDecay = t
        /\ n.holdoff = t + Holdoff
    BY <1>2 DEF Mon
  <2>3. n.speed = dev.speed /\ n.asked = "none"
    BY <1>2, <1>3 DEF Mon
  <2> QED
    BY <2>1, <2>2, <2>3
<1>5. Par(n) = Params[dev.speed] /\ Params[dev.speed].expected > 0
  BY <1>4, ParamsFields DEF Par, DevOK
<1> HIDE DEF n
<1>6. z = [n EXCEPT !.noSof = t + NoSof(dev.speed)]
  BY <1>1, <1>5 DEF PrimeTimeout, NoSof
<1>7. /\ z.score = 0 /\ z.slow = 0 /\ z.decay = t /\ z.slowDecay = t
      /\ z.holdoff = t + Holdoff /\ z.speed = dev.speed /\ z.asked = "none"
      /\ z.noSof = t + NoSof(dev.speed)
  BY <1>2, <1>4, <1>6 DEF Mon
<1> QED
  BY <1>7, HoldoffAhead DEF Fresh, z

LEMMA SuspendedFresh ==
  ASSUME DevOK, NEW m \in Mon, Below(m), m.asked = "none", NEW t \in Now, NEW ok \in BOOLEAN
  PROVE  Fresh(m, SuspendedSof(m, t, ok), t) /\ SuspendedSof(m, t, ok).prev = t
<1> DEFINE s == IF m.prevSusp THEN m ELSE HandleSuspend(m, t, ok)
           r == Restart(s, t)
           n == [r EXCEPT !.prevSusp = TRUE, !.prev = t, !.slow = IF @ > 0 THEN @ - 1 ELSE 0,
                          !.holdoff = t + Holdoff, !.speed = dev.speed]
           z == SuspendedSof(m, t, ok)
<1>1. s \in Mon /\ s.slow \in {m.slow, 0} /\ s.asked \in {"suspend", "none"}
  BY SuspendBelow, SuspendSlow
<1>2. z = PrimeTimeout(n, t)
  BY DEF SuspendedSof
<1> HIDE DEF s, z
<1>3. /\ r \in Mon /\ r.score = 0 /\ r.decay = t /\ r.slowDecay = t /\ r.slow = s.slow
      /\ r.asked = s.asked
  BY <1>1, RestartFields
<1> HIDE DEF r
<1>4. /\ n.score = 0 /\ n.decay = t /\ n.slowDecay = t /\ n.prev = t /\ n.asked = s.asked
      /\ n.slow = (IF s.slow > 0 THEN s.slow - 1 ELSE 0)
      /\ n.holdoff = t + Holdoff /\ n.speed = dev.speed /\ DOMAIN n = DOMAIN r
  BY <1>3 DEF Mon
<1>5. Par(n) = Params[dev.speed] /\ Params[dev.speed].expected > 0
  BY <1>4, ParamsFields DEF Par, DevOK
<1> HIDE DEF n
<1>6. z = [n EXCEPT !.noSof = t + NoSof(dev.speed)]
  BY <1>2, <1>5 DEF PrimeTimeout, NoSof
<1>7. /\ z.score = 0 /\ z.decay = t /\ z.slowDecay = t /\ z.prev = t /\ z.slow = n.slow
      /\ z.asked = n.asked
      /\ z.holdoff = t + Holdoff /\ z.speed = dev.speed /\ z.noSof = t + NoSof(dev.speed)
  BY <1>3, <1>4, <1>6 DEF Mon
<1>8. z.slow = 0 \/ z.slow < m.slow
  <2>1. m.slow \in Nat
    BY DEF Mon
  <2> QED
    BY <1>1, <1>4, <1>7, <2>1
<1> QED
  BY <1>1, <1>4, <1>7, <1>8, HoldoffAhead DEF Fresh, z

LEMMA NewSpeedFresh ==
  ASSUME DevOK, NEW m \in Mon, Below(m), m.asked = "none", NEW t \in Now, NEW ok \in BOOLEAN,
         dev.speed # m.speed
  PROVE  Fresh(m, NewSpeed(m, t, ok), t)
<1> DEFINE c == HandleSpeedChange(m, t, ok)
           s == [c EXCEPT !.speed = dev.speed]
           r == Restart(s, t)
           n == [r EXCEPT !.slow = IF @ > 0 THEN @ - 1 ELSE 0, !.holdoff = t + Holdoff]
           z == NewSpeed(m, t, ok)
<1>1. c \in Mon /\ c.slow \in {m.slow, 0} /\ c.asked \in {"speed", "none"}
  BY SpeedChangeBelow, ChangeSlow
<1>2. z = PrimeTimeout(n, t)
  BY DEF NewSpeed
<1> HIDE DEF c, z
<1>3. s \in Mon /\ s.slow = c.slow /\ s.speed = dev.speed /\ s.asked = c.asked
  <2>1. s \in Mon
    <3>1. c \in Mon /\ dev.speed \in Code
      BY <1>1 DEF DevOK, Code
    <3> QED
      BY <3>1, Zenon DEF Mon
  <2> QED
    BY <1>1, <2>1 DEF Mon
<1> HIDE DEF s
<1>4. /\ r \in Mon /\ r.score = 0 /\ r.decay = t /\ r.slowDecay = t /\ r.slow = s.slow
      /\ r.asked = s.asked
      /\ r.speed = dev.speed
  BY <1>3, RestartFields
<1> HIDE DEF r
<1>5. /\ n.score = 0 /\ n.decay = t /\ n.slowDecay = t /\ n.asked = s.asked
      /\ n.slow = (IF c.slow > 0 THEN c.slow - 1 ELSE 0)
      /\ n.holdoff = t + Holdoff /\ n.speed = dev.speed /\ DOMAIN n = DOMAIN r
  BY <1>3, <1>4 DEF Mon
<1>6. Par(n) = Params[dev.speed] /\ Params[dev.speed].expected > 0
  BY <1>5, ParamsFields DEF Par, DevOK
<1> HIDE DEF n
<1>7. z = [n EXCEPT !.noSof = t + NoSof(dev.speed)]
  BY <1>2, <1>6 DEF PrimeTimeout, NoSof
<1>8. /\ z.score = 0 /\ z.decay = t /\ z.slowDecay = t /\ z.slow = n.slow
      /\ z.asked = n.asked
      /\ z.holdoff = t + Holdoff /\ z.speed = dev.speed /\ z.noSof = t + NoSof(dev.speed)
  BY <1>4, <1>5, <1>7 DEF Mon
<1>9. z.slow = 0 \/ z.slow < m.slow
  <2>1. m.slow \in Nat
    BY DEF Mon
  <2> QED
    BY <1>1, <1>5, <1>8, <2>1
<1> QED
  BY <1>1, <1>3, <1>5, <1>8, <1>9, HoldoffAhead DEF Fresh, z

-----------------------------------------------------------------------------
(* A SOF, in terms of its interval *)

\* A fresh start outlasts the interval it is seen with.
LEMMA FreshKept ==
  ASSUME DevOK, NEW m \in Mon, NEW p \in Mon, NEW t \in Now, Fresh(m, p, t), NEW d \in Nat,
         NEW ok \in BOOLEAN
  PROVE  Fresh(m, ProcessDelta(p, t, d, ok), t)
<1> DEFINE n == ProcessDelta(p, t, d, ok)
<1>1. p.speed \in Speed /\ t < p.holdoff /\ p.holdoff \in Int /\ t \in Int
      /\ p.decay = t /\ p.slowDecay = t
  <2>1. p.holdoff \in Time
    BY DEF Mon
  <2> QED
    BY <2>1, TimeAssumption DEF Fresh, DevOK, Time, Now
<1>2. Heard0(p, n, t) /\ Judged(p, n, t, d) /\ (n.asked = p.asked \/ Asked(p, n, t, d))
  BY <1>1, DeltaShape
<1> HIDE DEF n
<1>3. Unjudged(p, n, t) /\ n.asked = p.asked
  BY <1>1, <1>2 DEF Judged, Eased, Charged, Asked
<1>4. n.decay = t /\ n.slowDecay = t
  BY <1>1, <1>2 DEF Judged
<1> QED
  BY <1>2, <1>3, <1>4 DEF Fresh, Heard0, Unjudged, n

LEMMA SofShape ==
  ASSUME DevOK, NEW m \in Mon, Below(m), NEW t \in Now, NEW ok \in BOOLEAN
  PROVE  LET n == MonitorSof(m, t, ok)
             d == Sub(t, m.prev)
         IN  /\ n.prev = t /\ n.speed = dev.speed /\ n.noSof = t + NoSof(dev.speed)
             /\ \/ Fresh(m, n, t)
                \/ /\ m.speed = dev.speed /\ Judged(m, n, t, d)
                   /\ n.asked # "sof" \/ Asked(m, n, t, d)
<1> DEFINE b == [m EXCEPT !.asked = "none"]
           s == FirstSof(b, t)
           e == [s EXCEPT !.prevSusp = FALSE]
           w == NewSpeed(e, t, ok)
           p == [w EXCEPT !.prev = t]
           d == Sub(t, w.prev)
           n == MonitorSof(m, t, ok)
<1>0. dev.speed \in Speed /\ dev.speed \in Code
  BY DEF DevOK, Code
<1>1. /\ b \in Mon /\ Below(b) /\ b.asked = "none" /\ b.slow = m.slow /\ b.prev = m.prev
      /\ b.speed = m.speed /\ \A f \in Tally \ {"asked"} : b[f] = m[f]
  <2>1. b \in Mon
    BY Zenon DEF Mon, Kind
  <2>2. /\ b.speed = m.speed /\ b.score = m.score /\ b.slow = m.slow
        /\ b.persist = m.persist /\ b.speedN = m.speedN /\ b.suspN = m.suspN
        /\ b.asked = "none" /\ b.prev = m.prev
    BY DEF Mon
  <2>3. \A f \in Tally \ {"asked"} : b[f] = m[f]
    BY DEF Mon, Tally
  <2> HIDE DEF b
  <2> QED
    BY <2>1, <2>2, <2>3, BelowSame
<1>2. n = IF dev.suspended THEN SuspendedSof(s, t, ok) ELSE ProcessDelta(p, t, d, ok)
  BY DEF MonitorSof, AwakeSof
<1> HIDE DEF b
<1>3. /\ s \in Mon /\ Below(s) /\ s.asked = "none"
      /\ s = b \/ Fresh(m, s, t)
  <2>1. s \in Mon /\ Below(s) /\ s.asked = "none"
    <3> HIDE DEF s
    <3>1. s.asked = b.asked
      BY <1>1, FirstSofCounts DEF s
    <3> QED
      BY <1>1, <3>1, FirstSofBelow DEF s
  <2>2. CASE b.prevState = dev.state
    BY <2>1, <2>2 DEF FirstSof
  <2>3. CASE b.prevState # dev.state
    <3>1. Fresh(b, s, t)
      BY <1>1, <2>3, FirstSofFresh
    <3> QED
      BY <1>1, <2>1, <3>1 DEF Fresh
  <2> QED
    BY <2>2, <2>3
<1> HIDE DEF s
<1>4. s.slow = 0 \/ s.slow <= m.slow
  <2>1. m.slow \in Nat /\ s.slow \in Nat
    BY <1>3 DEF Mon
  <2> QED
    BY <1>1, <1>3, <2>1 DEF Fresh
<1>5. CASE dev.suspended
  <2>1. n = SuspendedSof(s, t, ok)
    BY <1>2, <1>5
  <2> HIDE DEF n
  <2>2. Fresh(s, n, t) /\ n.prev = t
    BY <1>3, <2>1, SuspendedFresh
  <2>3. n \in Mon
    BY <1>3, <2>1, SuspendedSofBelow
  <2>4. n.slow = 0 \/ n.slow < m.slow
    <3>1. m.slow \in Nat /\ s.slow \in Nat /\ n.slow \in Nat
      BY <1>3, <2>3 DEF Mon
    <3> QED
      BY <1>4, <2>2, <3>1 DEF Fresh
  <2>5. Fresh(m, n, t)
    BY <2>2, <2>4 DEF Fresh
  <2> QED
    BY <2>2, <2>5 DEF Fresh, n
<1>6. CASE ~dev.suspended
  <2>1. n = ProcessDelta(p, t, d, ok)
    BY <1>2, <1>6
  <2>2. /\ e \in Mon /\ Below(e) /\ e.asked = "none" /\ e.slow = s.slow /\ e.prev = s.prev
        /\ e.speed = s.speed /\ \A f \in Tally : e[f] = s[f]
        /\ e.noSof = s.noSof
    <3>1. e \in Mon
      <4>1. FALSE \in BOOLEAN
        OBVIOUS
      <4> QED
        BY <1>3, <4>1, Zenon DEF Mon
    <3>2. /\ e.speed = s.speed /\ e.score = s.score /\ e.slow = s.slow
          /\ e.persist = s.persist /\ e.speedN = s.speedN /\ e.suspN = s.suspN
          /\ e.asked = s.asked /\ e.prev = s.prev /\ e.noSof = s.noSof
      BY <1>3 DEF Mon
    <3>3. \A f \in Tally : e[f] = s[f]
      BY <1>3 DEF Mon, Tally
    <3> HIDE DEF e
    <3> QED
      BY <1>3, <3>1, <3>2, <3>3, BelowSame
  <2> HIDE DEF e
  <2>3. w \in Mon /\ Below(w)
    BY <2>2, NewSpeedBelow
  <2>4. w.speed = dev.speed
    BY <2>2, NewSpeedCounts
  <2>5. Fresh(m, w, t) \/ (w = e /\ s = b)
    <3>1. CASE dev.speed # e.speed
      <4>1. Fresh(e, w, t)
        BY <2>2, <3>1, NewSpeedFresh
      <4>2. w.slow = 0 \/ w.slow < m.slow
        <5>1. m.slow \in Nat /\ s.slow \in Nat /\ w.slow \in Nat
          BY <1>3, <2>3 DEF Mon
        <5> HIDE DEF w
        <5> QED
          BY <1>4, <2>2, <4>1, <5>1 DEF Fresh
      <4> HIDE DEF w
      <4> QED
        BY <4>1, <4>2 DEF Fresh
    <3>2. CASE dev.speed = e.speed
      <4>1. w = e
        BY <3>2 DEF NewSpeed
      <4> HIDE DEF w
      <4>2. CASE Fresh(m, s, t)
        <5>1. Fresh(m, e, t)
          BY <2>2, <4>2 DEF Fresh, Tally
        <5> QED
          BY <4>1, <5>1
      <4> QED
        BY <1>3, <4>1, <4>2
    <3> QED
      BY <3>1, <3>2
  <2> HIDE DEF w
  <2>6. p \in Mon /\ p.prev = t /\ p.speed = dev.speed /\ p.noSof = w.noSof
        /\ \A f \in Tally : p[f] = w[f]
    <3>1. p \in Mon
      <4>1. t \in Time
        BY NowType
      <4> QED
        BY <2>3, <4>1, Zenon DEF Mon
    <3>2. p.prev = t /\ p.speed = w.speed /\ p.noSof = w.noSof /\ \A f \in Tally : p[f] = w[f]
      BY <2>3 DEF Mon, Tally
    <3> HIDE DEF p
    <3> QED
      BY <2>4, <3>1, <3>2
  <2> HIDE DEF p, n
  <2>7. d \in Nat
    <3>1. w.prev \in Time
      BY <2>3 DEF Mon
    <3> QED
      BY <3>1, NowType
  <2>8. Heard0(p, n, t) /\ Judged(p, n, t, d) /\ (n.asked = p.asked \/ Asked(p, n, t, d))
    BY <1>0, <2>1, <2>6, <2>7, DeltaShape
  <2>9. n.prev = t /\ n.speed = dev.speed /\ n.noSof = t + NoSof(dev.speed)
    BY <2>6, <2>8 DEF Heard0
  <2>10. CASE Fresh(m, w, t)
    <3>1. Fresh(m, p, t)
      BY <2>6, <2>10 DEF Fresh, Tally
    <3>2. Fresh(m, n, t)
      BY <2>1, <2>6, <2>7, <3>1, FreshKept
    <3> QED
      BY <2>9, <3>2 DEF n
  <2>11. CASE w = e /\ s = b
    <3>1. /\ p.score = m.score /\ p.slow = m.slow /\ p.decay = m.decay
          /\ p.slowDecay = m.slowDecay /\ p.warm = m.warm /\ p.holdoff = m.holdoff
          /\ m.speed = p.speed /\ p.asked = "none" /\ d = Sub(t, m.prev)
      BY <1>1, <2>2, <2>4, <2>6, <2>11 DEF Tally
    <3>2. Judged(m, n, t, d)
      <4>1. Unjudged(p, n, t) => Unjudged(m, n, t)
        BY <3>1 DEF Unjudged
      <4>2. Eased(p, n, t, d) => Eased(m, n, t, d)
        BY <3>1 DEF Eased, FastEased, SlowEased
      <4>3. Charged(p, n, t, d) => Charged(m, n, t, d)
        BY <3>1 DEF Charged
      <4>4. Asked(p, n, t, d) => Asked(m, n, t, d)
        BY <3>1 DEF Asked
      <4> QED
        BY <2>8, <3>1, <4>1, <4>2, <4>3, <4>4 DEF Judged
    <3>3. n.asked # "sof" \/ Asked(m, n, t, d)
      <4>1. Asked(p, n, t, d) => Asked(m, n, t, d)
        BY <3>1 DEF Asked
      <4> QED
        BY <2>8, <3>1, <4>1
    <3>4. m.speed = dev.speed
      BY <2>6, <3>1
    <3> QED
      BY <2>9, <3>1, <3>2, <3>3, <3>4 DEF n
  <2> QED
    BY <2>5, <2>10, <2>11
<1> QED
  BY <1>5, <1>6

-----------------------------------------------------------------------------
(* The invariant of the gaps *)

Hist == [silence : 0 .. MaxGap + 1, good : 0 .. Quiet, close : BOOLEAN, long : BOOLEAN,
         changes : Nat]
Noted(g) == g.close \/ g.long

\* With no cause noted, the points left are those of one event, and less healthy time
\* has passed than they take to decay.
FastRoom(m, g) == m.score > 0 =>
  /\ m.score <= Params[m.speed].cap
  /\ g.good < Room(m.speed, m.score) + Params[m.speed].decay
  /\ m.decay > Floor /\ g.silence < Params[m.speed].stable =>
       g.good + g.silence <= Room(m.speed, m.score) - m.decay
SlowRoom(m, g) == m.slow > 0 =>
  /\ m.slow = 1
  /\ g.good < Params[m.speed].stable + Params[m.speed].slowDecay
  /\ m.slowDecay > Floor /\ g.silence < Params[m.speed].stable =>
       g.good + g.silence <= Params[m.speed].stable - m.slowDecay
Uncaused(m, g) == Scoring(m) /\ ~Noted(g) =>
  /\ m.speed \in Speed /\ m.warm /\ m.holdoff <= 0
  /\ FastRoom(m, g) /\ SlowRoom(m, g)

\* Where a late background tick leaves its older time, or an earlier deadline than the
\* last SOF did, there are no points without a cause, nor a healthy stretch to lose.
Still(m, g) == (Scoring(m) => Noted(g)) /\ g.good <= 1
PrevKept(m, g) == m.speed \in Speed =>
  \/ m.prev >= -g.silence
  \/ m.prev >= -g.silence - 1 /\ Still(m, g)
  \/ g.silence >= Params[m.speed].stable
NoSofKept(m, g) == m.speed \in Speed =>
  /\ \/ g.silence >= NoSof(m.speed)
     \/ m.noSof >= NoSof(m.speed) - g.silence
     \/ m.noSof >= NoSof(m.speed) - g.silence - 1 /\ Still(m, g)
  /\ m.prev = Floor \/ m.prev + NoSof(m.speed) <= m.noSof

\* A background tick that found the bus silent: a SOF came since, or none did.
Overtaken(m, g, t) ==
  /\ g.good + g.silence <= -t /\ m.prev >= t
  /\ t < m.holdoff \/ (m.slow > 0 /\ m.slowDecay >= t)
Silent(m, g, t) ==
  /\ g.silence >= Params[m.speed].stable /\ m.warm
  /\ m.prev <= t - Params[m.speed].stable
  /\ g.good <= 1 \/ g.silence >= NoSof(m.speed)
LateKept(m, g, b) == b.pc \in {"late", "delta"} =>
  /\ m.speed \in Speed /\ (Scoring(m) => Noted(g))
  /\ Overtaken(m, g, b.now) \/ Silent(m, g, b.now)

Past(m) == m.prev <= 0 /\ m.decay <= 0 /\ m.slowDecay <= 0
Caused(m, g) == m.asked = "sof" => Noted(g)
GapInv ==
  /\ Inv /\ h \in Hist /\ Past(mon)
  /\ Uncaused(mon, h) /\ Caused(mon, h)
  /\ PrevKept(mon, h) /\ NoSofKept(mon, h) /\ LateKept(mon, h, bg)

LEMMA MonFields ==
  ASSUME NEW m \in Mon
  PROVE  /\ m.prev \in Int /\ m.decay \in Int /\ m.slowDecay \in Int /\ m.holdoff \in Int
         /\ m.noSof \in Int /\ m.prev >= Floor /\ m.decay >= Floor /\ m.slowDecay >= Floor
         /\ m.score \in Nat /\ m.slow \in Nat /\ m.warm \in BOOLEAN
<1>1. /\ m.prev \in Time /\ m.decay \in Time /\ m.slowDecay \in Time /\ m.holdoff \in Time
      /\ m.noSof \in Time /\ m.score \in 0 .. 255 /\ m.slow \in 0 .. 255 /\ m.warm \in BOOLEAN
  BY DEF Mon
<1>2. Floor \in Int
  BY TimeAssumption
<1> QED
  BY <1>1, <1>2, TimeAssumption DEF Time

LEMMA HistFields ==
  ASSUME NEW g \in Hist
  PROVE  g.silence \in Nat /\ g.silence <= MaxGap + 1 /\ g.good \in Nat /\ g.good <= Quiet
         /\ g.close \in BOOLEAN /\ g.long \in BOOLEAN
<1>1. g.silence \in 0 .. MaxGap + 1 /\ g.good \in 0 .. Quiet
  BY DEF Hist
<1>2. g.close \in BOOLEAN /\ g.long \in BOOLEAN
  BY DEF Hist
<1> QED
  BY <1>1, <1>2, GapFields, QuietCovers

LEMMA ForgetKeeps ==
  ASSUME NEW g \in Hist, NEW m \in Mon
  PROVE  LET f == Forget(g, m)
         IN  /\ f \in Hist /\ f.silence = g.silence /\ f.good = g.good
             /\ Scoring(m) \/ m.asked # "none" => (Noted(f) <=> Noted(g))
<1> DEFINE f == Forget(g, m)
           e == [g EXCEPT !.close = FALSE, !.long = FALSE]
<1>1. e \in Hist
  <2>1. FALSE \in BOOLEAN
    OBVIOUS
  <2> QED
    BY <2>1, Zenon DEF Hist
<1>2. e.silence = g.silence /\ e.good = g.good
  BY DEF Hist
<1>3. f = IF m.score = 0 /\ m.slow = 0 /\ m.asked = "none" THEN e ELSE g
  BY DEF Forget
<1> HIDE DEF e, f
<1>4. Scoring(m) \/ m.asked # "none" => f = g
  BY <1>3, MonFields DEF Scoring
<1> QED
  BY <1>1, <1>2, <1>3, <1>4 DEF f

LEMMA SeenFacts ==
  ASSUME mon \in Mon, h \in Hist
  PROVE  /\ Seen \in Hist /\ Seen.silence = h.silence /\ Seen.good = h.good
         /\ Seen.close = h.close
         /\ Seen.long = (h.long \/ (mon.speed \in Speed /\ h.silence >= NoSof(mon.speed)))
<1> DEFINE long == h.long \/ (Par(mon).expected > 0 /\ h.silence >= NoSofTime(mon))
           changes == IF mon.asked = "none" THEN h.changes ELSE 0
<1>1. Seen = [h EXCEPT !.long = long, !.changes = changes]
  BY DEF Seen, Hist
<1>2. long = (h.long \/ (mon.speed \in Speed /\ h.silence >= NoSof(mon.speed)))
  BY ParFields DEF NoSofTime, NoSof
<1>3. changes \in Nat
  BY DEF Hist
<1>4. long \in BOOLEAN
  BY <1>2, HistFields
<1> HIDE DEF long, changes
<1>5. [h EXCEPT !.long = long, !.changes = changes] \in Hist
  BY <1>3, <1>4, Zenon DEF Hist
<1>6. Seen.silence = h.silence /\ Seen.good = h.good /\ Seen.close = h.close /\ Seen.long = long
  BY <1>1 DEF Hist
<1> QED
  BY <1>1, <1>2, <1>5, <1>6

LEMMA SofHistoryFacts ==
  ASSUME mon \in Mon, h \in Hist, NEW n \in Mon
  PROVE  LET g == SofHistory(n)
             long == h.silence >= NoSof(mon.speed)
         IN  /\ g \in Hist /\ g.silence = 0
             /\ mon.speed \in Speed /\ h.silence < Params[mon.speed].stable =>
                  g.good <= h.good + h.silence
             /\ mon.speed \in Speed /\ h.silence >= Params[mon.speed].stable => g.good = 0
             /\ Scoring(n) \/ n.asked # "none" =>
                  /\ Noted(h) => Noted(g)
                  /\ mon.speed \in Speed /\ h.silence >= NoSof(mon.speed) => Noted(g)
                  /\ /\ mon.speed \in Speed /\ h.silence >= Params[mon.speed].stable
                     /\ h.good < Quiet
                     => Noted(g)
<1> DEFINE good == IF Outgrown(mon) THEN 0 ELSE Least(Seen.good + h.silence, Quiet)
           close == Seen.close \/ (Outgrown(mon) /\ h.good < Quiet)
           changes == IF Changed THEN Least(Seen.changes + 1, EventThreshold * Persistent)
                      ELSE Seen.changes
           e == [Seen EXCEPT !.silence = 0, !.good = good, !.close = close,
                             !.changes = changes]
           g == SofHistory(n)
<1>0. /\ Seen \in Hist /\ Seen.silence = h.silence /\ Seen.good = h.good
      /\ Seen.close = h.close
      /\ Seen.long = (h.long \/ (mon.speed \in Speed /\ h.silence >= NoSof(mon.speed)))
  BY SeenFacts
<1>1. g = Forget(e, n)
  <2> DEFINE S == Seen
  <2>1. S \in Hist
    BY <1>0
  <2> HIDE DEF S
  <2>2. [S EXCEPT !.silence = 0,
            !.good = IF Outgrown(mon) THEN 0 ELSE Least(@ + h.silence, Quiet),
            !.close = @ \/ (Outgrown(mon) /\ h.good < Quiet),
            !.changes = IF Changed THEN Least(@ + 1, EventThreshold * Persistent) ELSE @]
         = [S EXCEPT !.silence = 0,
            !.good = IF Outgrown(mon) THEN 0 ELSE Least(S.good + h.silence, Quiet),
            !.close = S.close \/ (Outgrown(mon) /\ h.good < Quiet),
            !.changes = IF Changed THEN Least(S.changes + 1, EventThreshold * Persistent)
                        ELSE S.changes]
    BY <2>1 DEF Hist
  <2> QED
    BY <2>2 DEF SofHistory, S
<1>2. h.silence \in Nat /\ h.good \in Nat /\ Quiet \in Nat /\ h.close \in BOOLEAN
  BY HistFields, QuietCovers
<1>3. good \in 0 .. Quiet /\ close \in BOOLEAN /\ 0 \in 0 .. MaxGap + 1
  BY <1>0, <1>2, GapFields DEF Least
<1>4. changes \in Nat
  <2>1. Seen.changes \in Nat
    BY <1>0 DEF Hist
  <2>2. EventThreshold * Persistent \in Nat
    <3>1. EventThreshold \in Nat /\ Persistent \in Nat
      BY CountAssumption
    <3> QED
      BY <3>1
  <2> HIDE DEF e, g
  <2> QED
    BY <2>1, <2>2 DEF Least
<1>5. mon.speed \in Speed => (Outgrown(mon) <=> h.silence >= Params[mon.speed].stable)
  BY ParFields DEF Outgrown
<1>6. /\ ~Outgrown(mon) => good <= h.good + h.silence
      /\ Outgrown(mon) => good = 0
      /\ h.close => close
      /\ Outgrown(mon) /\ h.good < Quiet => close
  BY <1>0, <1>2 DEF Least
<1> HIDE DEF good, close, changes
<1>7. e \in Hist
  <2>1. Seen \in Hist
    BY <1>0
  <2> DEFINE S == Seen
  <2> HIDE DEF S
  <2>2. S \in Hist
    BY <2>1 DEF S
  <2>3. [S EXCEPT !.silence = 0, !.good = good, !.close = close, !.changes = changes] \in Hist
    BY <1>3, <1>4, <2>2, Zenon DEF Hist
  <2> QED
    BY <2>3 DEF S
<1>8. e.silence = 0 /\ e.good = good /\ e.close = close /\ e.long = Seen.long
  BY <1>0 DEF Hist
<1> HIDE DEF e, g
<1>9. /\ g \in Hist /\ g.silence = e.silence /\ g.good = e.good
      /\ Scoring(n) \/ n.asked # "none" => (Noted(g) <=> Noted(e))
  BY <1>1, <1>7, ForgetKeeps
<1>10. Params[mon.speed].stable \in Nat \/ mon.speed \notin Speed
  BY GapFields
<1>11. /\ Noted(h) => Noted(e)
       /\ mon.speed \in Speed /\ h.silence >= NoSof(mon.speed) => Noted(e)
       /\ mon.speed \in Speed /\ h.silence >= Params[mon.speed].stable /\ h.good < Quiet
            => Noted(e)
  BY <1>0, <1>5, <1>6, <1>8 DEF Noted
<1>12. /\ mon.speed \in Speed /\ h.silence < Params[mon.speed].stable =>
            g.good <= h.good + h.silence
       /\ mon.speed \in Speed /\ h.silence >= Params[mon.speed].stable => g.good = 0
  BY <1>2, <1>5, <1>6, <1>8, <1>9, <1>10
<1>13. g.silence = 0
  BY <1>8, <1>9
<1> QED
  BY <1>9, <1>11, <1>12, <1>13 DEF g

\* A late tick is overtaken by a SOF, or the SOF comes in the middle of one.
LEMMA SofOvertakes ==
  ASSUME GapInv, Sof, NEW g \in Hist, g.silence = 0, NEW n \in Mon, n.prev = 0,
         mon.speed \in Speed => (h.silence < Params[mon.speed].stable =>
                                   g.good <= h.good + h.silence),
         mon.speed \in Speed => (h.silence >= Params[mon.speed].stable => g.good = 0),
         bg.pc \in {"late", "delta"},
         n.holdoff > 0
           \/ (mon.speed = n.speed /\ Judged(mon, n, 0, Sub(0, mon.prev)))
  PROVE  Overtaken(n, g, bg.now)
<1> DEFINE s == mon.speed
           d == Sub(0, mon.prev)
           now == bg.now
<1>1. /\ s \in Speed /\ (Overtaken(mon, h, now) \/ Silent(mon, h, now))
  BY DEF GapInv, LateKept
<1>2. now \in {-1, 0} /\ now \in Int
  BY DEF GapInv, Inv, TickOK, Now
<1>3. mon \in Mon /\ h \in Hist /\ mon.prev <= 0 /\ mon.slowDecay <= 0
  BY DEF GapInv, Inv, Past
<1>4. /\ mon.prev \in Int /\ mon.holdoff \in Int /\ mon.slowDecay \in Int /\ mon.slow \in Nat
      /\ h.silence \in Nat /\ h.good \in Nat /\ g.good \in Nat
      /\ n.holdoff \in Int /\ n.slow \in Nat /\ n.slowDecay \in Int /\ mon.warm \in BOOLEAN
  BY <1>3, MonFields, HistFields
<1>5. /\ Params[s].stable \in Nat /\ Params[s].stable > 1
      /\ Params[s].slowDecay \in Nat /\ Params[s].slowDecay > 1
  BY <1>1, GapFields
<1>6. d = -mon.prev
  BY <1>3, <1>4 DEF Sub
<1>7. g.good + g.silence <= -now
  <2>1. CASE Silent(mon, h, now)
    BY <1>1, <1>2, <1>4, <1>5, <2>1 DEF Silent
  <2>2. CASE Overtaken(mon, h, now)
    BY <1>1, <1>2, <1>4, <1>5, <2>2 DEF Overtaken
  <2> QED
    BY <1>1, <2>1, <2>2
<1>8. now < n.holdoff \/ (n.slow > 0 /\ n.slowDecay >= now)
  <2>1. CASE n.holdoff > 0
    BY <1>2, <1>4, <2>1
  <2>2. CASE Judged(mon, n, 0, d)
    <3>1. CASE Asked(mon, n, 0, d)
      BY <1>2, <1>4, <3>1 DEF Asked
    <3>2. CASE Charged(mon, n, 0, d)
      BY <1>2, <1>4, <3>2 DEF Charged
    <3>3. CASE Silent(mon, h, now) /\ (Unjudged(mon, n, 0) \/ Eased(mon, n, 0, d))
      <4>1. d >= Params[s].stable /\ mon.warm
        BY <1>2, <1>4, <1>5, <1>6, <3>3 DEF Silent
      <4>2. n.holdoff = mon.holdoff /\ 0 < mon.holdoff
        BY <1>4, <1>5, <1>6, <3>3, <4>1 DEF Unjudged, Eased
      <4> QED
        BY <1>2, <1>4, <4>2
    <3>4. CASE Overtaken(mon, h, now) /\ Unjudged(mon, n, 0)
      <4>1. CASE now < mon.holdoff
        BY <3>4, <4>1 DEF Unjudged
      <4>2. CASE 0 < mon.holdoff
        BY <1>2, <1>4, <3>4, <4>2 DEF Unjudged
      <4>3. CASE n.slowDecay = mon.slowDecay
        BY <1>2, <1>4, <3>4, <4>3 DEF Overtaken, Unjudged
      <4> QED
        BY <3>4, <4>1, <4>2, <4>3 DEF Unjudged
    <3>5. CASE Overtaken(mon, h, now) /\ Eased(mon, n, 0, d)
      <4>1. CASE now < mon.holdoff
        BY <3>5, <4>1 DEF Eased
      <4>2. CASE mon.slow > 0 /\ mon.slowDecay >= now
        <5>1. Sub(0, mon.slowDecay) < Params[s].slowDecay
          BY <1>2, <1>3, <1>4, <1>5, <4>2 DEF Sub
        <5>2. Sub(0, mon.slowDecay) \in Int
          BY <1>3, <1>4 DEF Sub
        <5>3. n.slow = mon.slow /\ (n.slowDecay = 0 \/ n.slowDecay = mon.slowDecay)
          BY <1>5, <3>5, <5>1, <5>2 DEF Eased, SlowEased
        <5> QED
          BY <1>2, <1>4, <4>2, <5>3
      <4> QED
        BY <3>5, <4>1, <4>2 DEF Overtaken
    <3> QED
      BY <1>1, <2>2, <3>1, <3>2, <3>3, <3>4, <3>5 DEF Judged
  <2> QED
    BY <2>1, <2>2
<1>9. n.prev >= now
  BY <1>2
<1> QED
  BY <1>7, <1>8, <1>9 DEF Overtaken

-----------------------------------------------------------------------------
(* The room points leave, and the points of one event *)

\* With no points and no cause, an interval brings the points of one event at most.
LEMMA FirstPoints ==
  ASSUME NEW m \in Mon, m.speed \in Speed, ~Scoring(m), NEW n \in Mon, NEW t \in Now,
         NEW d \in Nat, Judged(m, n, t, d)
  PROVE  /\ ~Asked(m, n, t, d)
         /\ Scoring(n) => /\ t >= m.holdoff /\ d >= Params[m.speed].stable
                          /\ n.warm /\ n.holdoff = m.holdoff
                          /\ n.score > 0 /\ n.score <= Params[m.speed].cap
                          /\ n.slow = 1 /\ n.decay = t /\ n.slowDecay = t
<1>1. /\ m.score = 0 /\ m.slow = 0 /\ n.score \in Nat /\ n.slow \in Nat
  BY MonFields DEF Scoring
<1>2. ~Asked(m, n, t, d)
  BY <1>1, GapFields DEF Asked
<1>3. Scoring(n) => Charged(m, n, t, d)
  BY <1>1, <1>2 DEF Judged, Scoring, Unjudged, Eased, FastEased, SlowEased
<1>4. Params[m.speed].cap \in Nat
  BY GapFields
<1> QED
  BY <1>1, <1>2, <1>3, <1>4 DEF Charged

\* A healthy interval leaves the points of one event room.
LEMMA EasedRoom ==
  ASSUME NEW m \in Mon, NEW g \in Hist, NEW n \in Mon, NEW f \in Hist,
         m.speed \in Speed, n.speed = m.speed, m.decay <= 0, m.slowDecay <= 0,
         m.warm, FastRoom(m, g), SlowRoom(m, g), NEW d \in Nat, Eased(m, n, 0, d),
         g.silence < Params[m.speed].stable,
         f.silence = 0, f.good <= g.good + g.silence
  PROVE  FastRoom(n, f) /\ SlowRoom(n, f)
<1> DEFINE s == m.speed
           D == Params[s].decay
           K == Params[s].stable
           L == Params[s].slowDecay
<1>1. /\ K \in Nat /\ K > 1 /\ D \in Nat /\ D > 0 /\ L \in Nat /\ L > 1
      /\ Floor \in Int /\ Floor <= -D /\ Floor <= -L
  BY GapFields
<1>2. /\ m.decay \in Int /\ m.slowDecay \in Int /\ m.score \in Nat /\ m.slow \in Nat
      /\ m.decay >= Floor /\ m.slowDecay >= Floor
      /\ n.decay \in Int /\ n.slowDecay \in Int /\ n.score \in Nat /\ n.slow \in Nat
  BY MonFields
<1>3. /\ g.silence \in Nat /\ g.good \in Nat /\ f.good \in Nat
  BY HistFields
<1>4. Sub(0, m.decay) = -m.decay /\ Sub(0, m.slowDecay) = -m.slowDecay
  BY <1>2 DEF Sub
<1>5. FastRoom(n, f)
  <2> SUFFICES ASSUME n.score > 0 PROVE FastRoom(n, f)
    BY DEF FastRoom
  <2>1. m.score > 0 /\ m.score <= Params[s].cap
    BY <1>2 DEF Eased, FastEased, FastRoom
  <2>2. m.score \in 1 .. Params[s].cap
    BY <1>2, <2>1, GapFields
  <2>3. /\ Room(s, m.score) \in Nat /\ Room(s, m.score - 1) = Room(s, m.score) + D + K
    BY <2>2, RoomFacts
  <2>4. /\ g.good < Room(s, m.score) + D
        /\ m.decay > Floor => g.good + g.silence <= Room(s, m.score) - m.decay
    BY <2>1 DEF FastRoom
  <2>5. CASE n.score = m.score /\ n.decay = m.decay /\ -m.decay < D
    BY <1>1, <1>2, <1>3, <2>1, <2>3, <2>4, <2>5 DEF FastRoom
  <2>6. CASE n.score = m.score - 1 /\ n.decay = 0
    <3>1. f.good <= Room(s, n.score)
      BY <1>1, <1>2, <1>3, <2>3, <2>4, <2>6
    <3>2. Room(s, n.score) \in Nat
      BY <1>1, <2>3, <2>6
    <3>3. n.score <= Params[s].cap
      BY <1>2, <2>1, <2>6, GapFields
    <3> QED
      BY <1>1, <1>3, <2>6, <3>1, <3>2, <3>3 DEF FastRoom
  <2> QED
    BY <1>2, <1>4, <2>1, <2>5, <2>6 DEF Eased, FastEased
<1>6. SlowRoom(n, f)
  <2> SUFFICES ASSUME n.slow > 0 PROVE SlowRoom(n, f)
    BY DEF SlowRoom
  <2>1. m.slow = 1
    BY <1>2 DEF Eased, SlowEased, SlowRoom
  <2>2. n.slow = 1 /\ n.slowDecay = m.slowDecay /\ -m.slowDecay < L
    BY <1>2, <1>4, <2>1 DEF Eased, SlowEased
  <2>3. m.slowDecay > Floor
    BY <1>1, <1>2, <2>2
  <2>4. g.good + g.silence <= K - m.slowDecay
    BY <2>1, <2>3 DEF SlowRoom
  <2> QED
    BY <1>1, <1>2, <1>3, <2>2, <2>4 DEF SlowRoom
<1> QED
  BY <1>5, <1>6

LEMMA RoomInQuiet ==
  ASSUME NEW m \in Mon, NEW g \in Hist, m.speed \in Speed, Scoring(m),
         FastRoom(m, g), SlowRoom(m, g)
  PROVE  g.good < Quiet
<1>1. m.score \in Nat /\ m.slow \in Nat /\ g.good \in Nat /\ Quiet \in Nat
  BY MonFields, HistFields, QuietCovers
<1>2. CASE m.score > 0
  <2>1. m.score <= Params[m.speed].cap
        /\ g.good < Room(m.speed, m.score) + Params[m.speed].decay
    BY <1>2 DEF FastRoom
  <2>2. m.score \in 1 .. Params[m.speed].cap
    BY <1>1, <1>2, <2>1, GapFields
  <2> DEFINE all == Params[m.speed].cap * (Params[m.speed].decay + Params[m.speed].stable)
  <2>3. /\ Room(m.speed, m.score) \in Nat
        /\ Room(m.speed, m.score) + Params[m.speed].decay <= all
    BY <2>2, RoomFacts
  <2>4. all <= Quiet
    BY QuietCovers
  <2>5. Params[m.speed].decay \in Nat
    BY GapFields
  <2>6. all \in Int
    BY GapFields
  <2> HIDE DEF all
  <2> QED
    BY <1>1, <2>1, <2>3, <2>4, <2>5, <2>6
<1>3. CASE m.slow > 0
  BY <1>1, <1>3, QuietCovers, GapFields DEF SlowRoom
<1> QED
  BY <1>2, <1>3 DEF Scoring

\* The points of a first event have all their room.
LEMMA FirstRoom ==
  ASSUME NEW n \in Mon, NEW f \in Hist, n.speed \in Speed,
         n.score > 0 => n.score <= Params[n.speed].cap, n.slow > 0 => n.slow = 1,
         f.good <= Params[n.speed].stable,
         \/ n.decay <= 0 /\ n.slowDecay <= 0 /\ f.good + f.silence <= Params[n.speed].stable
         \/ f.silence >= Params[n.speed].stable
  PROVE  FastRoom(n, f) /\ SlowRoom(n, f)
<1> DEFINE s == n.speed
<1>1. /\ Params[s].stable \in Nat /\ Params[s].decay \in Nat /\ Params[s].decay > 0
      /\ Params[s].slowDecay \in Nat /\ Params[s].slowDecay > 1
  BY GapFields
<1>2. /\ n.decay \in Int /\ n.slowDecay \in Int /\ n.score \in Nat /\ n.slow \in Nat
      /\ f.silence \in Nat /\ f.good \in Nat
  BY MonFields, HistFields
<1>3. FastRoom(n, f)
  <2> SUFFICES ASSUME n.score > 0 PROVE FastRoom(n, f)
    BY DEF FastRoom
  <2>1. n.score \in 1 .. Params[s].cap
    BY <1>2, GapFields
  <2>2. Room(s, n.score) \in Nat /\ Room(s, n.score) >= Params[s].stable
    BY <2>1, RoomFacts
  <2> QED
    BY <1>1, <1>2, <2>2 DEF FastRoom
<1>4. SlowRoom(n, f)
  BY <1>1, <1>2 DEF SlowRoom
<1> QED
  BY <1>3, <1>4

-----------------------------------------------------------------------------
(* A SOF *)

\* What holds between two handlers.
LEMMA GapFacts ==
  ASSUME GapInv
  PROVE  /\ mon \in Mon /\ h \in Hist /\ DevOK /\ Below(mon)
         /\ Uncaused(mon, h) /\ Caused(mon, h) /\ PrevKept(mon, h) /\ NoSofKept(mon, h)
         /\ LateKept(mon, h, bg) /\ Past(mon)
         /\ Scoring(mon) => mon.speed \in Speed
         /\ bg.now \in Now /\ bg.now \in Int /\ bg.now <= 0 /\ bg.now >= -1
         /\ Scoring(mon) /\ ~Noted(h) => h.good < Quiet
<1>1. /\ mon \in Mon /\ h \in Hist /\ DevOK /\ Below(mon)
      /\ Uncaused(mon, h) /\ Caused(mon, h) /\ PrevKept(mon, h) /\ NoSofKept(mon, h)
      /\ LateKept(mon, h, bg) /\ Past(mon)
  BY DEF GapInv, Inv
<1>2. Scoring(mon) => mon.speed \in Speed
  BY <1>1, MonFields DEF Below, Scoring
<1>3. bg.now \in Now
  BY DEF GapInv, Inv, TickOK
<1>4. Scoring(mon) /\ ~Noted(h) => h.good < Quiet
  BY <1>1, RoomInQuiet DEF Uncaused
<1> QED
  BY <1>1, <1>2, <1>3, <1>4 DEF Now

\* A SOF the monitor judges keeps the room, or its request has a cause.
LEMMA SofJudged ==
  ASSUME GapInv, Sof, NEW n \in Mon, NEW g \in Hist, mon.speed = dev.speed,
         n.speed = dev.speed, Judged(mon, n, 0, Sub(0, mon.prev)),
         g.silence = 0,
         h.silence < Params[mon.speed].stable => g.good <= h.good + h.silence,
         h.silence >= Params[mon.speed].stable => g.good = 0,
         Scoring(n) \/ n.asked # "none" => (Noted(h) => Noted(g)),
         Scoring(n) \/ n.asked # "none" =>
           (h.silence >= Params[mon.speed].stable /\ h.good < Quiet => Noted(g))
  PROVE  /\ Uncaused(n, g)
         /\ n.asked = "sof" /\ Asked(mon, n, 0, Sub(0, mon.prev)) => Noted(g)
<1> DEFINE s == mon.speed
           d == Sub(0, mon.prev)
<1>1. /\ mon \in Mon /\ h \in Hist /\ Uncaused(mon, h) /\ PrevKept(mon, h) /\ Past(mon)
      /\ s \in Speed /\ (Scoring(mon) /\ ~Noted(h) => h.good < Quiet)
  BY GapFacts DEF DevOK
<1>2. /\ mon.prev \in Int /\ mon.prev <= 0 /\ mon.holdoff \in Int
      /\ h.silence \in Nat /\ h.good \in Nat /\ Params[s].stable \in Nat /\ Params[s].stable > 1
      /\ mon.decay <= 0 /\ mon.slowDecay <= 0 /\ g.good \in Nat
  BY <1>1, MonFields, HistFields, GapFields DEF Past
<1>3. d = -mon.prev /\ d \in Nat
  BY <1>2 DEF Sub
<1> HIDE DEF d
<1>4. SUFFICES ASSUME ~Noted(g), Scoring(n) \/ n.asked = "sof"
               PROVE  Uncaused(n, g) /\ ~Asked(mon, n, 0, d)
  BY DEF Uncaused, d
<1>5. ~Noted(h) /\ (h.silence >= Params[s].stable => ~(h.good < Quiet))
  BY <1>4
<1>6. CASE ~Scoring(mon)
  <2>1. 0 \in Now
    BY DEF Now
  <2>2. /\ ~Asked(mon, n, 0, d)
        /\ Scoring(n) => /\ 0 >= mon.holdoff /\ d >= Params[s].stable
                         /\ n.warm /\ n.holdoff = mon.holdoff
                         /\ n.score > 0 /\ n.score <= Params[s].cap
                         /\ n.slow = 1 /\ n.decay = 0 /\ n.slowDecay = 0
    BY <1>1, <1>3, <1>6, <2>1, FirstPoints DEF d
  <2>3. ASSUME Scoring(n) PROVE Uncaused(n, g)
    <3>1. g.good <= Params[s].stable
      <4>1. CASE h.silence >= Params[s].stable
        BY <1>2, <4>1
      <4>2. CASE ~(h.silence >= Params[s].stable)
        <5>1. ~(mon.prev >= -h.silence)
          BY <1>2, <1>3, <2>2, <2>3, <4>2
        <5>2. h.good <= 1
          BY <1>1, <4>2, <5>1 DEF PrevKept, Still
        <5> QED
          BY <1>2, <4>2, <5>2
      <4> QED
        BY <4>1, <4>2
    <3>2. g.good + g.silence <= Params[s].stable
      BY <1>2, <3>1
    <3>3. FastRoom(n, g) /\ SlowRoom(n, g)
      BY <1>1, <2>2, <2>3, <3>1, <3>2, FirstRoom
    <3>4. n.holdoff <= 0
      BY <1>2, <2>2, <2>3
    <3> QED
      BY <1>1, <2>2, <2>3, <3>3, <3>4 DEF Uncaused
  <2> QED
    BY <2>2, <2>3 DEF Uncaused
<1>7. CASE Scoring(mon)
  <2>1. /\ h.silence < Params[s].stable /\ mon.warm /\ mon.holdoff <= 0
        /\ FastRoom(mon, h) /\ SlowRoom(mon, h)
    BY <1>1, <1>2, <1>5, <1>7 DEF Uncaused
  <2>2. mon.prev >= -h.silence
    BY <1>1, <1>2, <1>5, <1>7, <2>1 DEF PrevKept, Still
  <2>3. d < Params[s].stable
    BY <1>2, <1>3, <2>1, <2>2
  <2>4. Eased(mon, n, 0, d) /\ ~Asked(mon, n, 0, d)
    <3>1. ~Unjudged(mon, n, 0)
      BY <1>2, <2>1 DEF Unjudged
    <3>2. ~Charged(mon, n, 0, d) /\ ~Asked(mon, n, 0, d)
      BY <1>2, <1>3, <2>3 DEF Charged, Asked
    <3> QED
      BY <3>1, <3>2 DEF Judged, d
  <2>5. FastRoom(n, g) /\ SlowRoom(n, g)
    BY <1>1, <1>2, <1>3, <2>1, <2>4, EasedRoom
  <2>6. n.warm /\ n.holdoff <= 0
    BY <2>1, <2>4 DEF Eased
  <2> QED
    BY <1>1, <2>4, <2>5, <2>6 DEF Uncaused
<1> QED
  BY <1>6, <1>7

LEMMA SofGap == ASSUME GapInv, Inv', Sof PROVE GapInv'
<1> DEFINE n == mon'
           g == h'
           d == Sub(0, mon.prev)
<1>1. /\ mon \in Mon /\ h \in Hist /\ DevOK /\ Below(mon) /\ Uncaused(mon, h) /\ Past(mon)
      /\ LateKept(mon, h, bg) /\ dev.speed \in Speed
      /\ (Scoring(mon) => mon.speed \in Speed)
      /\ (Scoring(mon) /\ ~Noted(h) => h.good < Quiet)
  BY GapFacts DEF DevOK
<1>2. PICK ok \in BOOLEAN : n = MonitorSof(mon, 0, ok)
  BY DEF Sof
<1>3. g = SofHistory(n) /\ bg' = bg
  BY DEF Sof
<1>4. n \in Mon /\ 0 \in Now
  BY DEF Inv, Now
<1>5. /\ n.prev = 0 /\ n.speed = dev.speed /\ n.noSof = NoSof(dev.speed)
      /\ \/ Fresh(mon, n, 0)
         \/ /\ mon.speed = dev.speed /\ Judged(mon, n, 0, d)
            /\ n.asked # "sof" \/ Asked(mon, n, 0, d)
  <2>1. 0 + NoSof(dev.speed) = NoSof(dev.speed)
    BY <1>1, GapFields
  <2> QED
    BY <1>1, <1>2, <1>4, <2>1, SofShape
<1>6. /\ g \in Hist /\ g.silence = 0
      /\ mon.speed \in Speed => (h.silence < Params[mon.speed].stable =>
                                   g.good <= h.good + h.silence)
      /\ mon.speed \in Speed => (h.silence >= Params[mon.speed].stable => g.good = 0)
      /\ Scoring(n) \/ n.asked # "none" => (Noted(h) => Noted(g))
      /\ Scoring(n) \/ n.asked # "none" =>
           (mon.speed \in Speed /\ h.silence >= NoSof(mon.speed) => Noted(g))
      /\ Scoring(n) \/ n.asked # "none" =>
           (mon.speed \in Speed => (h.silence >= Params[mon.speed].stable /\ h.good < Quiet
                                      => Noted(g)))
  BY <1>1, <1>3, <1>4, SofHistoryFacts
<1> HIDE DEF n, g
<1>7. Past(n)
  <2>1. CASE Fresh(mon, n, 0)
    BY <1>5, <2>1 DEF Fresh, Past
  <2>2. CASE Judged(mon, n, 0, d)
    BY <1>1, <1>5, <2>2 DEF Judged, Past
  <2> QED
    BY <1>5, <2>1, <2>2
<1>8. ASSUME Fresh(mon, n, 0), Scoring(n)
      PROVE  mon.slow > 1 /\ Scoring(mon)
  <2>1. mon.slow \in Nat /\ n.slow \in Nat
    BY <1>1, <1>4, MonFields
  <2> QED
    BY <1>8, <2>1 DEF Fresh, Scoring
<1>9. Uncaused(n, g) /\ (n.asked = "sof" => Noted(g))
  <2>1. CASE Fresh(mon, n, 0)
    <3>1. n.asked # "sof"
      BY <2>1 DEF Fresh
    <3>2. ASSUME Scoring(n) PROVE Noted(g)
      <4>1. mon.slow > 1 /\ Scoring(mon) /\ mon.slow \in Nat
        BY <1>1, <1>8, <2>1, <3>2, MonFields
      <4>2. Noted(h)
        BY <1>1, <4>1 DEF Uncaused, SlowRoom
      <4> QED
        BY <1>6, <3>2, <4>2
    <3> QED
      BY <3>1, <3>2 DEF Uncaused
  <2>2. CASE /\ mon.speed = dev.speed /\ Judged(mon, n, 0, d)
             /\ n.asked # "sof" \/ Asked(mon, n, 0, d)
    BY <1>1, <1>4, <1>5, <1>6, <2>2, SofJudged
  <2> QED
    BY <1>5, <2>1, <2>2
<1>10. PrevKept(n, g)
  BY <1>5, <1>6 DEF PrevKept
<1>11. NoSofKept(n, g)
  <2>1. NoSof(dev.speed) \in Nat
    BY <1>1, GapFields
  <2> QED
    BY <1>5, <1>6, <2>1 DEF NoSofKept
<1>12. LateKept(n, g, bg)
  <2> SUFFICES ASSUME bg.pc \in {"late", "delta"} PROVE LateKept(n, g, bg)
    BY DEF LateKept
  <2>1. /\ mon.speed \in Speed /\ (Scoring(mon) => Noted(h))
        /\ Overtaken(mon, h, bg.now) \/ Silent(mon, h, bg.now)
    BY <1>1 DEF LateKept
  <2>2. n.holdoff > 0 \/ (mon.speed = n.speed /\ Judged(mon, n, 0, d))
    BY <1>5 DEF Fresh
  <2>3. Overtaken(n, g, bg.now)
    BY <1>4, <1>5, <1>6, <2>2, SofOvertakes
  <2>4. ASSUME Scoring(n) PROVE Noted(g)
    <3>1. CASE Silent(mon, h, bg.now)
      <4>1. /\ h.silence >= Params[mon.speed].stable
            /\ h.good <= 1 \/ h.silence >= NoSof(mon.speed)
        BY <3>1 DEF Silent
      <4>2. h.good <= 1 => h.good < Quiet
        BY <1>1, HistFields, QuietCovers
      <4> QED
        BY <1>6, <2>1, <2>4, <4>1, <4>2
    <3>2. CASE Overtaken(mon, h, bg.now)
      <4>1. CASE Noted(h)
        BY <1>6, <2>4, <4>1
      <4>2. CASE ~Noted(h)
        <5>1. ~Scoring(mon)
          BY <2>1, <4>2
        <5>2. Judged(mon, n, 0, d) /\ mon.speed = dev.speed
          BY <1>5, <1>8, <2>4, <5>1
        <5>3. /\ mon.prev \in Int /\ mon.prev <= 0 /\ bg.now \in Int /\ bg.now >= -1
              /\ mon.prev >= bg.now
          BY <1>1, <3>2, MonFields, GapFacts DEF Past, Overtaken
        <5>4. d \in Nat /\ d <= 1
          BY <5>3 DEF Sub
        <5>5. d >= Params[mon.speed].stable
          BY <1>1, <1>4, <2>1, <2>4, <5>1, <5>2, <5>4, FirstPoints
        <5> QED
          BY <2>1, <5>4, <5>5, GapFields
      <4> QED
        BY <4>1, <4>2
    <3> QED
      BY <2>1, <3>1, <3>2
  <2> QED
    BY <1>1, <1>5, <2>3, <2>4 DEF LateKept
<1>13. Caused(n, g)
  BY <1>9 DEF Caused
<1> QED
  BY <1>3, <1>6, <1>7, <1>9, <1>10, <1>11, <1>12, <1>13 DEF GapInv, n, g

-----------------------------------------------------------------------------
(* The background tick *)

\* The tick's look for a silent bus changes no points, but a failed enumeration may ask.
LEMMA TrackShape ==
  ASSUME GapInv, BackgroundTrack
  PROVE  /\ mon'.prev = mon.prev /\ mon'.speed = mon.speed /\ mon'.noSof = mon.noSof
         /\ mon'.decay = mon.decay /\ mon'.slowDecay = mon.slowDecay /\ mon'.warm = mon.warm
         /\ mon'.asked # "sof"
         /\ \/ /\ mon'.score = mon.score /\ mon'.slow = mon.slow /\ mon'.holdoff = mon.holdoff
            \/ mon'.score = 0 /\ mon'.slow = 0
<1> DEFINE b == [mon EXCEPT !.asked = "none"]
           m == RefreshEventWindows(b, bg.now)
<1>1. mon \in Mon /\ bg.now \in Now
  BY GapFacts
<1>2. mon' = m \/ \E ok \in BOOLEAN : mon' = CommitDowngrade(m, bg.now, "enum", ok)
  BY DEF BackgroundTrack
<1>3. b \in Mon /\ b.asked = "none"
      /\ \A f \in (Tally \ {"asked"}) \cup {"prev", "speed", "noSof"} : b[f] = mon[f]
  <2>1. b \in Mon
    BY <1>1, Zenon DEF Mon, Kind
  <2> QED
    BY <1>1, <2>1 DEF Mon, Tally
<1> HIDE DEF b
<1>4. m.asked = "none" /\ DOMAIN m = DOMAIN b
      /\ \A f \in Tally \cup {"prev", "speed", "noSof"} : m[f] = b[f]
  BY <1>3 DEF RefreshEventWindows, Mon, Tally
<1> HIDE DEF m
<1>5. CASE mon' = m
  BY <1>3, <1>4, <1>5 DEF Tally
<1>6. ASSUME NEW ok \in BOOLEAN, mon' = CommitDowngrade(m, bg.now, "enum", ok)
      PROVE  /\ mon'.prev = m.prev /\ mon'.speed = m.speed /\ mon'.noSof = m.noSof
             /\ mon'.decay = m.decay /\ mon'.slowDecay = m.slowDecay /\ mon'.warm = m.warm
             /\ mon'.asked \in {"enum", "none"} /\ mon'.score = 0 /\ mon'.slow = 0
  BY <1>3, <1>4, <1>6 DEF CommitDowngrade, Mon
<1>7. CASE \E ok \in BOOLEAN : mon' = CommitDowngrade(m, bg.now, "enum", ok)
  BY <1>3, <1>4, <1>6, <1>7 DEF Tally
<1> QED
  BY <1>2, <1>5, <1>7

LEMMA TrackGap == ASSUME GapInv, Inv', BackgroundTrack PROVE GapInv'
<1> DEFINE n == mon'
           g == h'
           s == mon.speed
           t == bg.now
<1>1. /\ mon \in Mon /\ h \in Hist /\ Uncaused(mon, h) /\ Past(mon)
      /\ PrevKept(mon, h) /\ NoSofKept(mon, h) /\ t \in Now /\ t <= 0 /\ t >= -1 /\ t \in Int
  BY GapFacts
<1>2. /\ n.prev = mon.prev /\ n.speed = s /\ n.noSof = mon.noSof
      /\ n.decay = mon.decay /\ n.slowDecay = mon.slowDecay /\ n.warm = mon.warm
      /\ n.asked # "sof"
      /\ \/ /\ n.score = mon.score /\ n.slow = mon.slow /\ n.holdoff = mon.holdoff
         \/ n.score = 0 /\ n.slow = 0
  BY TrackShape
<1>3. g = Forget(Seen, n)
  BY DEF BackgroundTrack
<1>4. n \in Mon
  BY DEF Inv
<1>5. /\ g \in Hist /\ g.silence = h.silence /\ g.good = h.good
      /\ Scoring(n) => (Noted(h) => Noted(g))
      /\ Scoring(n) => (s \in Speed /\ h.silence >= NoSof(s) => Noted(g))
  <2>1. /\ Seen \in Hist /\ Seen.silence = h.silence /\ Seen.good = h.good
        /\ Seen.close = h.close
        /\ Seen.long = (h.long \/ (s \in Speed /\ h.silence >= NoSof(s)))
    BY <1>1, SeenFacts
  <2>2. Forget(Seen, n) \in Hist /\ Forget(Seen, n).silence = Seen.silence
        /\ Forget(Seen, n).good = Seen.good
        /\ (Scoring(n) \/ n.asked # "none" => (Noted(Forget(Seen, n)) <=> Noted(Seen)))
    BY <1>4, <2>1, ForgetKeeps
  <2>3. /\ Noted(h) => Noted(Seen)
        /\ s \in Speed /\ h.silence >= NoSof(s) => Noted(Seen)
    BY <2>1 DEF Noted
  <2> HIDE DEF n, g
  <2> QED
    BY <1>3, <2>1, <2>2, <2>3
<1>6. bg'.pc \in {"late", "delta"} =>
        /\ bg'.now = t /\ s \in Speed /\ mon.warm /\ t >= mon.noSof
  <2>1. Par(mon).expected # 0 => s \in Speed
    BY <1>1, ParFields
  <2>2. bg \in [pc : {"idle", "begun", "late", "delta"}, now : Now, delta : Nat]
    BY DEF GapInv, Inv, TickOK
  <2> DEFINE late == /\ dev.state = "configured" /\ ~dev.suspended
                     /\ Par(mon).expected # 0 /\ mon.warm
                     /\ t >= mon.noSof
  <2>3. bg' = [bg EXCEPT !.pc = IF late THEN "late" ELSE "idle", !.now = IF late THEN @ ELSE 0]
    BY DEF BackgroundTrack
  <2>4. CASE late
    BY <2>1, <2>2, <2>3, <2>4
  <2>5. CASE ~late
    <3> HIDE DEF late
    <3> QED
      BY <2>2, <2>3, <2>5
  <2> QED
    BY <2>4, <2>5
<1> HIDE DEF n, g, t
<1>7. Scoring(n) => Scoring(mon) /\ n.score = mon.score /\ n.slow = mon.slow
                      /\ n.holdoff = mon.holdoff
  BY <1>2 DEF Scoring
<1>8. Uncaused(n, g)
  BY <1>1, <1>2, <1>5, <1>7 DEF Uncaused, FastRoom, SlowRoom
<1>9. Still(mon, h) => Still(n, g)
  BY <1>5, <1>7 DEF Still
<1>10. PrevKept(n, g) /\ NoSofKept(n, g)
  BY <1>1, <1>2, <1>5, <1>9 DEF PrevKept, NoSofKept
<1>11. LateKept(n, g, bg')
  <2> SUFFICES ASSUME bg'.pc \in {"late", "delta"} PROVE LateKept(n, g, bg')
    BY DEF LateKept
  <2>1. bg'.now = t /\ s \in Speed /\ mon.warm /\ t >= mon.noSof
    BY <1>6
  <2>2. /\ NoSof(s) \in Nat /\ Params[s].stable \in Nat /\ Params[s].stable > 1
        /\ Params[s].stable < NoSof(s) /\ Floor \in Int /\ Floor < -Params[s].stable
    BY <2>1, GapFields
  <2>3. /\ mon.prev \in Int /\ mon.noSof \in Int /\ h.silence \in Nat
    BY <1>1, MonFields, HistFields
  <2>4. mon.prev <= t - Params[s].stable
    BY <1>1, <2>1, <2>2, <2>3 DEF NoSofKept
  <2>5. h.silence >= NoSof(s) \/ (h.silence >= NoSof(s) - 1 /\ Still(mon, h))
    BY <1>1, <2>1, <2>2, <2>3 DEF NoSofKept
  <2>6. h.silence >= Params[s].stable /\ (h.good <= 1 \/ h.silence >= NoSof(s))
    BY <2>2, <2>3, <2>5 DEF Still
  <2>7. Scoring(n) => Noted(g)
    BY <1>5, <1>9, <2>1, <2>5 DEF Still
  <2>8. Silent(n, g, t)
    BY <1>2, <1>5, <2>1, <2>4, <2>6 DEF Silent
  <2> QED
    BY <1>2, <2>1, <2>7, <2>8 DEF LateKept
<1>12. Past(n) /\ Caused(n, g)
  BY <1>1, <1>2 DEF Past, Caused
<1> QED
  BY <1>5, <1>8, <1>10, <1>11, <1>12 DEF GapInv, n, g

LEMMA ScoreGap == ASSUME GapInv, Inv', BackgroundScore PROVE GapInv'
<1> DEFINE n == mon'
           g == h'
           s == mon.speed
           t == bg.now
           d == bg.delta
           b == [mon EXCEPT !.prev = bg.now, !.asked = "none"]
<1>1. /\ mon \in Mon /\ h \in Hist /\ Uncaused(mon, h) /\ Past(mon) /\ LateKept(mon, h, bg)
      /\ t \in Now /\ t <= 0 /\ t >= -1 /\ t \in Int
  BY GapFacts
<1>2. d \in Nat /\ bg.pc = "delta"
  BY DEF GapInv, Inv, TickOK, BackgroundScore
<1>3. /\ s \in Speed /\ (Scoring(mon) => Noted(h))
      /\ Overtaken(mon, h, t) \/ Silent(mon, h, t)
  BY <1>1, <1>2 DEF LateKept
<1>4. PICK ok \in BOOLEAN : n = ProcessDelta(b, t, d, ok)
  BY DEF BackgroundScore
<1>5. g = Forget(Seen, n) /\ bg'.pc = "idle"
  <2>1. bg \in [pc : {"idle", "begun", "late", "delta"}, now : Now, delta : Nat]
    BY DEF GapInv, Inv, TickOK
  <2> QED
    BY <2>1 DEF BackgroundScore
<1>6. n \in Mon
  BY DEF Inv
<1>7. b \in Mon /\ b.asked = "none" /\ b.prev = t /\ b.speed = s
      /\ \A f \in Tally \ {"asked"} : b[f] = mon[f]
  <2>1. b \in Mon
    <3>1. mon \in Mon /\ "none" \in Kind /\ bg.now \in Time
      BY <1>1, NowType DEF Kind
    <3> QED
      BY <3>1, Zenon DEF Mon
  <2> QED
    BY <1>1, <2>1 DEF Mon, Tally
<1> HIDE DEF b, n, g, t, d
<1>8. Heard0(b, n, t) /\ Judged(b, n, t, d) /\ (n.asked = b.asked \/ Asked(b, n, t, d))
  BY <1>1, <1>2, <1>3, <1>4, <1>7, DeltaShape
<1>9. n.prev = t /\ n.speed = s /\ n.noSof = t + NoSof(s)
  BY <1>7, <1>8 DEF Heard0
<1>10. /\ g \in Hist /\ g.silence = h.silence /\ g.good = h.good
       /\ Scoring(n) \/ n.asked # "none" => (Noted(h) => Noted(g))
       /\ Scoring(n) \/ n.asked # "none" => (h.silence >= NoSof(s) => Noted(g))
  <2>1. /\ Seen \in Hist /\ Seen.silence = h.silence /\ Seen.good = h.good
        /\ Seen.close = h.close
        /\ Seen.long = (h.long \/ (s \in Speed /\ h.silence >= NoSof(s)))
    BY <1>1, SeenFacts
  <2>2. Forget(Seen, n) \in Hist /\ Forget(Seen, n).silence = Seen.silence
        /\ Forget(Seen, n).good = Seen.good
        /\ (Scoring(n) \/ n.asked # "none" => (Noted(Forget(Seen, n)) <=> Noted(Seen)))
    BY <1>6, <2>1, ForgetKeeps
  <2>3. /\ Noted(h) => Noted(Seen)
        /\ h.silence >= NoSof(s) => Noted(Seen)
    BY <1>3, <2>1 DEF Noted
  <2> QED
    BY <1>5, <2>1, <2>2, <2>3
<1>11. /\ NoSof(s) \in Nat /\ Params[s].stable \in Nat /\ Params[s].stable > 1
       /\ Params[s].stable < NoSof(s) /\ h.silence \in Nat /\ h.good \in Nat
       /\ mon.holdoff \in Int /\ mon.slow \in Nat
  BY <1>1, <1>3, MonFields, HistFields, GapFields
\* With neither points nor a cause, points come only to a bus silent since the last SOF.
<1>12. ASSUME ~Noted(g), Scoring(n) \/ n.asked = "sof"
       PROVE  /\ Silent(mon, h, t) /\ h.good <= 1 /\ n.asked # "sof" /\ n.warm
              /\ n.holdoff <= 0 /\ n.score > 0 /\ n.score <= Params[s].cap /\ n.slow = 1
              /\ n.decay = t /\ n.slowDecay = t
  <2>1. ~Noted(h) /\ ~(h.silence >= NoSof(s)) /\ ~Scoring(mon)
    BY <1>3, <1>10, <1>12
  <2>2. ~Scoring(b)
    BY <1>7, <2>1 DEF Scoring, Tally
  <2>3. /\ ~Asked(b, n, t, d)
        /\ Scoring(n) => /\ t >= b.holdoff /\ d >= Params[s].stable
                         /\ n.warm /\ n.holdoff = b.holdoff
                         /\ n.score > 0 /\ n.score <= Params[s].cap
                         /\ n.slow = 1 /\ n.decay = t /\ n.slowDecay = t
    BY <1>1, <1>2, <1>3, <1>6, <1>7, <1>8, <2>2, FirstPoints
  <2>4. n.asked = "none" /\ Scoring(n)
    BY <1>7, <1>8, <1>12, <2>3
  <2>5. b.holdoff = mon.holdoff
    BY <1>7 DEF Tally
  <2>6. ~Overtaken(mon, h, t)
    BY <1>1, <1>11, <2>1, <2>3, <2>4, <2>5 DEF Overtaken, Scoring
  <2>7. Silent(mon, h, t) /\ h.good <= 1
    BY <1>3, <2>1, <2>6 DEF Silent
  <2> QED
    BY <1>1, <1>11, <2>3, <2>4, <2>5, <2>7
<1>13. Uncaused(n, g)
  <2> SUFFICES ASSUME Scoring(n), ~Noted(g) PROVE Uncaused(n, g)
    BY DEF Uncaused
  <2>1. /\ Silent(mon, h, t) /\ h.good <= 1 /\ n.warm /\ n.holdoff <= 0
        /\ n.score <= Params[s].cap /\ n.slow = 1
    BY <1>12
  <2>2. FastRoom(n, g) /\ SlowRoom(n, g)
    <3>1. g.silence >= Params[n.speed].stable /\ g.good <= Params[n.speed].stable
      BY <1>9, <1>10, <1>11, <2>1 DEF Silent
    <3> QED
      BY <1>3, <1>6, <1>9, <1>10, <2>1, <3>1, FirstRoom
  <2> QED
    BY <1>3, <1>9, <2>1, <2>2 DEF Uncaused
<1>14. Caused(n, g)
  BY <1>12 DEF Caused
<1>15. Overtaken(mon, h, t) => Still(n, g) /\ h.silence <= -t
  <2> SUFFICES ASSUME Overtaken(mon, h, t) PROVE Still(n, g) /\ h.silence <= -t
    OBVIOUS
  <2>1. h.good + h.silence <= -t
    BY DEF Overtaken
  <2>2. ~Silent(mon, h, t) \/ h.silence >= 2
    BY <1>11 DEF Silent
  <2>3. Scoring(n) => Noted(g)
    BY <1>1, <1>11, <1>12, <2>1, <2>2
  <2> QED
    BY <1>1, <1>10, <1>11, <2>1, <2>3 DEF Still
<1>16. PrevKept(n, g)
  <2>1. CASE Overtaken(mon, h, t)
    BY <1>1, <1>9, <1>10, <1>11, <1>15, <2>1 DEF PrevKept
  <2>2. CASE Silent(mon, h, t)
    BY <1>9, <1>10, <2>2 DEF PrevKept, Silent
  <2> QED
    BY <1>3, <2>1, <2>2
<1>17. NoSofKept(n, g)
  <2>1. n.prev + NoSof(s) <= n.noSof
    BY <1>1, <1>9, <1>11
  <2>2. CASE Overtaken(mon, h, t)
    BY <1>1, <1>9, <1>10, <1>11, <1>15, <2>1, <2>2 DEF NoSofKept
  <2>3. CASE Silent(mon, h, t)
    <3>1. h.silence >= 2
      BY <1>11, <2>3 DEF Silent
    <3> QED
      BY <1>1, <1>9, <1>10, <1>11, <2>1, <3>1 DEF NoSofKept
  <2> QED
    BY <1>3, <2>2, <2>3
<1>18. LateKept(n, g, bg')
  BY <1>5 DEF LateKept
<1>19. Past(n)
  <2>1. n.decay \in {mon.decay, mon.slowDecay, t} /\ n.slowDecay \in {mon.decay, mon.slowDecay, t}
    BY <1>7, <1>8 DEF Judged, Tally
  <2> QED
    BY <1>1, <1>9, <2>1 DEF Past
<1> QED
  BY <1>10, <1>13, <1>14, <1>16, <1>17, <1>18, <1>19 DEF GapInv, n, g

-----------------------------------------------------------------------------
(* Time, and the theorem *)

LEMMA GapHolds == Init => GapInv
<1> SUFFICES ASSUME Init PROVE GapInv
  OBVIOUS
<1>1. Inv
  BY InvHolds
<1>2. /\ mon.speed = "none" /\ mon.score = 0 /\ mon.slow = 0 /\ mon.asked = "none"
      /\ mon.prev = Floor /\ mon.decay = Floor /\ mon.slowDecay = Floor /\ bg.pc = "idle"
  BY DEF Init
<1>3. h \in Hist
  <2>1. 0 \in 0 .. MaxGap + 1 /\ Quiet \in 0 .. Quiet /\ 0 \in Nat /\ FALSE \in BOOLEAN
    BY GapFields, QuietCovers
  <2>2. h = [silence |-> 0, good |-> Quiet, close |-> FALSE, long |-> FALSE, changes |-> 0]
    BY DEF Init
  <2> QED
    BY <2>1, <2>2, Zenon DEF Hist
<1>4. Past(mon)
  <2>1. Floor <= 0
    BY TimeAssumption
  <2> QED
    BY <1>2, <2>1 DEF Past
<1>5. ~Scoring(mon) /\ mon.speed \notin Speed
  BY <1>2 DEF Scoring, Speed
<1> QED
  BY <1>1, <1>2, <1>3, <1>4, <1>5
  DEF GapInv, Uncaused, Caused, PrevKept, NoSofKept, LateKept

LEMMA OlderBy ==
  ASSUME NEW x \in Int, NEW o \in Int
  PROVE  /\ Older(x, o) \in Int /\ Older(x, o) <= x /\ Older(x, o) >= x - 1
         /\ Older(x, o) > o => Older(x, o) = x - 1
         /\ x > o => Older(x, o) = x - 1
         /\ x = o => Older(x, o) = x
BY DEF Older

\* Time passes for the monitor's stamps, the silence and a tick under way alike.
LEMMA TickGap == ASSUME GapInv, Inv', Tick PROVE GapInv'
<1> DEFINE n == mon'
           g == h'
           s == mon.speed
<1>1. /\ mon \in Mon /\ h \in Hist /\ Uncaused(mon, h) /\ Caused(mon, h)
      /\ PrevKept(mon, h) /\ NoSofKept(mon, h) /\ LateKept(mon, h, bg) /\ Past(mon)
  BY GapFacts
<1>2. /\ mon.prev \in Int /\ mon.decay \in Int /\ mon.slowDecay \in Int /\ mon.holdoff \in Int
      /\ mon.noSof \in Int /\ mon.prev >= Floor /\ mon.decay >= Floor /\ mon.slowDecay >= Floor
      /\ h.silence \in Nat /\ h.silence <= MaxGap + 1 /\ h.good \in Nat
      /\ MaxGap \in Nat /\ Floor \in Int /\ Over \in Int /\ Over < 0
  BY <1>1, MonFields, HistFields, GapFields, TimeAssumption
<1>3. /\ n.prev = Older(mon.prev, Floor) /\ n.decay = Older(mon.decay, Floor)
      /\ n.slowDecay = Older(mon.slowDecay, Floor) /\ n.holdoff = Older(mon.holdoff, Over)
      /\ n.noSof = Older(mon.noSof, Over) /\ n.speed = s /\ n.warm = mon.warm
      /\ n.score = mon.score /\ n.slow = mon.slow /\ n.asked = mon.asked
  <2>1. n = Aged(mon)
    BY DEF Tick
  <2>2. {"prev", "decay", "slowDecay", "holdoff", "noSof", "speed", "warm", "score", "slow",
         "asked"} \subseteq DOMAIN mon
    BY <1>1 DEF Mon
  <2> HIDE DEF n
  <2> QED
    BY <2>1, <2>2 DEF Aged, Stamps, Deadlines
<1>4. /\ g \in Hist /\ g.silence = Least(h.silence + 1, MaxGap + 1) /\ g.good = h.good
      /\ g.close = h.close /\ g.long = h.long
  <2> DEFINE k == Least(h.silence + 1, MaxGap + 1)
  <2>1. g = [h EXCEPT !.silence = k]
    BY <1>1 DEF Tick, Hist
  <2>2. k \in 0 .. MaxGap + 1
    BY <1>2 DEF Least
  <2> HIDE DEF g, k
  <2>3. [h EXCEPT !.silence = k] \in Hist
    BY <1>1, <2>2, Zenon DEF Hist
  <2> QED
    BY <1>1, <2>1, <2>3 DEF Hist, k
<1>5. bg'.pc = bg.pc /\ (bg.pc # "idle" => bg.now = 0 /\ bg'.now = -1)
  <2>1. bg \in [pc : {"idle", "begun", "late", "delta"}, now : Now, delta : Nat]
        /\ bg'.now \in Now
    BY DEF GapInv, Inv, TickOK
  <2>2. bg' = IF bg.pc = "idle" THEN bg ELSE [bg EXCEPT !.now = @ - 1]
    BY DEF Tick
  <2>3. bg.pc # "idle" => bg'.now = bg.now - 1 /\ bg'.pc = bg.pc
    BY <2>1, <2>2
  <2> QED
    BY <2>1, <2>2, <2>3 DEF Now
<1> HIDE DEF n, g
<1>6. /\ n.prev \in Int /\ n.prev <= mon.prev /\ n.prev >= mon.prev - 1
      /\ mon.prev > Floor => n.prev = mon.prev - 1
      /\ mon.prev = Floor => n.prev = Floor
  <2> DEFINE x == mon.prev
  <2>1. x \in Int /\ Floor \in Int
    BY <1>2
  <2> HIDE DEF x
  <2>2. /\ Older(x, Floor) \in Int /\ Older(x, Floor) <= x /\ Older(x, Floor) >= x - 1
        /\ x > Floor => Older(x, Floor) = x - 1
        /\ x = Floor => Older(x, Floor) = x
    BY <2>1, OlderBy
  <2> QED
    BY <1>3, <2>2 DEF x
<1>7. /\ n.decay \in Int /\ n.decay <= mon.decay
      /\ n.decay > Floor => n.decay = mon.decay - 1
      /\ n.slowDecay \in Int /\ n.slowDecay <= mon.slowDecay /\ n.slowDecay >= mon.slowDecay - 1
      /\ n.slowDecay > Floor => n.slowDecay = mon.slowDecay - 1
  <2> DEFINE x == mon.decay
             y == mon.slowDecay
  <2>1. x \in Int /\ y \in Int /\ Floor \in Int
    BY <1>2
  <2> HIDE DEF x, y
  <2>2. /\ Older(x, Floor) \in Int /\ Older(x, Floor) <= x
        /\ Older(x, Floor) > Floor => Older(x, Floor) = x - 1
    BY <2>1, OlderBy
  <2>3. /\ Older(y, Floor) \in Int /\ Older(y, Floor) <= y /\ Older(y, Floor) >= y - 1
        /\ Older(y, Floor) > Floor => Older(y, Floor) = y - 1
    BY <2>1, OlderBy
  <2> QED
    BY <1>3, <2>2, <2>3 DEF x, y
<1>8. /\ n.holdoff \in Int /\ n.holdoff <= mon.holdoff /\ n.holdoff >= mon.holdoff - 1
      /\ n.noSof \in Int /\ n.noSof >= mon.noSof - 1
  <2> DEFINE x == mon.holdoff
             y == mon.noSof
  <2>1. x \in Int /\ y \in Int /\ Over \in Int
    BY <1>2
  <2> HIDE DEF x, y
  <2>2. /\ Older(x, Over) \in Int /\ Older(x, Over) <= x /\ Older(x, Over) >= x - 1
        /\ Older(y, Over) \in Int /\ Older(y, Over) >= y - 1
    BY <2>1, OlderBy
  <2> QED
    BY <1>3, <2>2 DEF x, y
<1>9. /\ g.silence \in Nat /\ g.silence <= h.silence + 1 /\ g.silence >= h.silence
      /\ g.silence = h.silence + 1 \/ g.silence = MaxGap + 1
  BY <1>2, <1>4 DEF Least
<1>10. s \in Speed =>
         /\ Params[s].stable \in Nat /\ NoSof(s) \in Nat /\ Params[s].stable < NoSof(s)
         /\ NoSof(s) <= MaxGap + 1 /\ Floor < -Params[s].stable
         /\ g.silence < Params[s].stable => g.silence = h.silence + 1
  BY <1>2, <1>9, GapFields
<1>11. (Scoring(n) <=> Scoring(mon)) /\ (Noted(g) <=> Noted(h))
  BY <1>3, <1>4 DEF Scoring, Noted
<1>12. Still(mon, h) <=> Still(n, g)
  BY <1>4, <1>11 DEF Still
<1>13. Past(n) /\ Caused(n, g)
  BY <1>1, <1>2, <1>3, <1>6, <1>7, <1>11 DEF Past, Caused
<1>14. Uncaused(n, g)
  <2> SUFFICES ASSUME Scoring(n), ~Noted(g) PROVE Uncaused(n, g)
    BY DEF Uncaused
  <2>1. s \in Speed /\ mon.warm /\ mon.holdoff <= 0 /\ FastRoom(mon, h) /\ SlowRoom(mon, h)
    BY <1>1, <1>11 DEF Uncaused
  <2>2. FastRoom(n, g)
    <3> SUFFICES ASSUME n.score > 0 PROVE FastRoom(n, g)
      BY DEF FastRoom
    <3>1. /\ mon.score <= Params[s].cap
          /\ h.good < Room(s, mon.score) + Params[s].decay
          /\ mon.decay > Floor /\ h.silence < Params[s].stable =>
               h.good + h.silence <= Room(s, mon.score) - mon.decay
      BY <1>3, <2>1 DEF FastRoom
    <3>2. Room(s, mon.score) \in Int
      <4>1. mon.score \in 1 .. Params[s].cap
        BY <1>1, <1>3, <2>1, <3>1, MonFields, GapFields
      <4> QED
        BY <2>1, <4>1, RoomFacts
    <3> DEFINE R == Room(s, mon.score)
    <3>3. R \in Int
      BY <3>2
    <3> HIDE DEF R
    <3>4. ASSUME n.decay > Floor, g.silence < Params[s].stable
          PROVE  g.good + g.silence <= R - n.decay
      <4>1. /\ n.decay = mon.decay - 1 /\ mon.decay > Floor
            /\ g.silence = h.silence + 1 /\ h.silence < Params[s].stable
        BY <1>2, <1>7, <1>10, <2>1, <3>4
      <4>2. h.good + h.silence <= R - mon.decay
        BY <3>1, <4>1 DEF R
      <4> QED
        BY <1>2, <1>4, <3>3, <4>1, <4>2
    <3> QED
      BY <1>3, <1>4, <3>1, <3>4 DEF FastRoom, R
  <2>3. SlowRoom(n, g)
    <3> SUFFICES ASSUME n.slow > 0 PROVE SlowRoom(n, g)
      BY DEF SlowRoom
    <3>1. /\ mon.slow = 1 /\ h.good < Params[s].stable + Params[s].slowDecay
          /\ mon.slowDecay > Floor /\ h.silence < Params[s].stable =>
               h.good + h.silence <= Params[s].stable - mon.slowDecay
      BY <1>3, <2>1 DEF SlowRoom
    <3>2. ASSUME n.slowDecay > Floor, g.silence < Params[s].stable
          PROVE  g.good + g.silence <= Params[s].stable - n.slowDecay
      <4>1. /\ n.slowDecay = mon.slowDecay - 1 /\ mon.slowDecay > Floor
            /\ g.silence = h.silence + 1 /\ h.silence < Params[s].stable
        BY <1>2, <1>7, <1>10, <2>1, <3>2
      <4> QED
        BY <1>2, <1>4, <1>10, <2>1, <3>1, <4>1
    <3> QED
      BY <1>3, <1>4, <3>1, <3>2 DEF SlowRoom
  <2> QED
    BY <1>2, <1>3, <1>8, <2>1, <2>2, <2>3 DEF Uncaused
<1>15. PrevKept(n, g)
  <2> SUFFICES ASSUME s \in Speed PROVE PrevKept(n, g)
    BY <1>3 DEF PrevKept
  <2>1. CASE g.silence >= Params[s].stable
    BY <1>3, <2>1 DEF PrevKept
  <2>2. CASE ~(g.silence >= Params[s].stable)
    <3>1. g.silence = h.silence + 1 /\ ~(h.silence >= Params[s].stable)
      BY <1>2, <1>9, <1>10, <2>2
    <3>2. mon.prev >= -h.silence \/ (mon.prev >= -h.silence - 1 /\ Still(n, g))
      BY <1>1, <1>12, <3>1 DEF PrevKept
    <3>3. n.prev >= -g.silence \/ (n.prev >= -g.silence - 1 /\ Still(n, g))
      BY <1>2, <1>6, <3>1, <3>2
    <3> QED
      BY <3>3 DEF PrevKept
  <2> QED
    BY <2>1, <2>2
<1>16. NoSofKept(n, g)
  <2> SUFFICES ASSUME s \in Speed PROVE NoSofKept(n, g)
    BY <1>3 DEF NoSofKept
  <2>1. n.prev = Floor \/ n.prev + NoSof(s) <= n.noSof
    <3>1. mon.prev = Floor \/ mon.prev + NoSof(s) <= mon.noSof
      BY <1>1 DEF NoSofKept
    <3> QED
      BY <1>2, <1>6, <1>8, <1>10, <3>1
  <2>2. CASE g.silence >= NoSof(s)
    BY <1>3, <2>1, <2>2 DEF NoSofKept
  <2>3. CASE ~(g.silence >= NoSof(s))
    <3>1. g.silence = h.silence + 1 /\ ~(h.silence >= NoSof(s))
      BY <1>2, <1>9, <1>10, <2>3
    <3>2. \/ mon.noSof >= NoSof(s) - h.silence
          \/ mon.noSof >= NoSof(s) - h.silence - 1 /\ Still(n, g)
      BY <1>1, <1>12, <3>1 DEF NoSofKept
    <3>3. \/ n.noSof >= NoSof(s) - g.silence
          \/ n.noSof >= NoSof(s) - g.silence - 1 /\ Still(n, g)
      BY <1>2, <1>8, <1>10, <3>1, <3>2
    <3> QED
      BY <1>3, <2>1, <3>3 DEF NoSofKept
  <2> QED
    BY <2>2, <2>3
<1>17. LateKept(n, g, bg')
  <2> SUFFICES ASSUME bg'.pc \in {"late", "delta"} PROVE LateKept(n, g, bg')
    BY DEF LateKept
  <2>1. /\ s \in Speed /\ (Scoring(n) => Noted(g)) /\ bg'.now = -1
        /\ Overtaken(mon, h, 0) \/ Silent(mon, h, 0)
    BY <1>1, <1>5, <1>11 DEF LateKept
  <2>2. CASE Overtaken(mon, h, 0)
    <3>1. g.good + g.silence <= 1 /\ n.prev >= -1
      BY <1>2, <1>4, <1>6, <1>9, <2>2 DEF Overtaken
    <3>2. -1 < n.holdoff \/ (n.slow > 0 /\ n.slowDecay >= -1)
      BY <1>2, <1>3, <1>7, <1>8, <2>2 DEF Overtaken
    <3>3. Overtaken(n, g, -1)
      BY <3>1, <3>2 DEF Overtaken
    <3> QED
      BY <1>3, <2>1, <3>3 DEF LateKept
  <2>3. CASE Silent(mon, h, 0)
    <3>1. /\ g.silence >= Params[s].stable
          /\ g.good <= 1 \/ g.silence >= NoSof(s)
      BY <1>2, <1>4, <1>9, <1>10, <2>1, <2>3 DEF Silent
    <3>2. n.prev <= -1 - Params[s].stable
      BY <1>2, <1>6, <1>10, <2>1, <2>3 DEF Silent
    <3>3. Silent(n, g, -1)
      BY <1>3, <2>3, <3>1, <3>2 DEF Silent
    <3> QED
      BY <1>3, <2>1, <3>3 DEF LateKept
  <2> QED
    BY <2>1, <2>2, <2>3
<1> QED
  BY <1>4, <1>13, <1>14, <1>15, <1>16, <1>17 DEF GapInv, n, g

LEMMA GapKept == ASSUME GapInv, [Next]_vars PROVE GapInv'
<1>1. Inv'
  BY InvKept DEF GapInv
<1>2. CASE UNCHANGED <<mon, h>> /\ (bg'.pc \in {"late", "delta"} =>
                                      bg.pc \in {"late", "delta"} /\ bg'.now = bg.now)
  <2>1. LateKept(mon, h, bg')
    BY <1>2 DEF GapInv, LateKept
  <2> QED
    BY <1>1, <1>2, <2>1
    DEF GapInv, Past, Uncaused, Caused, PrevKept, NoSofKept, LateKept, FastRoom, SlowRoom,
        Scoring, Noted, Still, Overtaken, Silent, Room, NoSof, Hist, Quiet
<1>3. bg \in [pc : {"idle", "begun", "late", "delta"}, now : Now, delta : Nat]
  BY DEF GapInv, Inv, TickOK
<1>4. CASE BackgroundService
  BY <1>2, <1>3, <1>4 DEF BackgroundService
<1>5. CASE BackgroundDelta
  BY <1>2, <1>3, <1>5 DEF BackgroundDelta
<1>6. CASE InstabilityStore
  BY <1>2, <1>6 DEF InstabilityStore
<1>7. CASE BusReset \/ SetAddress \/ SetConfiguration \/ Suspend \/ Resume
  BY <1>2, <1>7 DEF BusReset, SetAddress, SetConfiguration, Suspend, Resume, Bus
<1>8. CASE UNCHANGED vars
  BY <1>2, <1>8 DEF vars
<1> QED
  BY <1>1, <1>4, <1>5, <1>6, <1>7, <1>8, TickGap, SofGap, TrackGap, ScoreGap
  DEF Next, Background

\* The monitor asks for a slower mode only with cause.  On account of SOFs, two of their
\* intervals were too long with less healthy time between them than the points of one
\* event take to decay, or one lasted until the no-SOF timeout, wherever the interrupt
\* overtakes the background tick (usbd_hid.c, usbHidMonitorSof, ProcessDelta and
\* BackgroundTick); on account of speed changes or suspends, ChangesAreCounted.
THEOREM CausesAreReal == Spec => []AskedForCause
<1>1. GapInv => AskedAfterGaps
  BY DEF GapInv, Caused, Noted, AskedAfterGaps
<1>2. GapInv /\ [Next]_vars => GapInv'
  BY GapKept
<1> QED
  BY <1>1, <1>2, GapHolds, ChangesAreCounted, PTL DEF Spec, AskedForCause

=============================================================================
