------------------------- MODULE KeyFeaturesProofs --------------------------
(***************************************************************************)
(* Theorems about KeyFeatures, for every set of keys, channels, dances and *)
(* settings, and for any number of events.                                 *)
(*                                                                         *)
(* Three things must agree for the report to be right: the flags of the    *)
(* kill switch and the count of KKUK with the keys that are held, and the  *)
(* keycodes the dances remember with those they registered.  The first two *)
(* do as long as no setting changes under a held key, the third always.    *)
(***************************************************************************)
EXTENDS KeyFeatures, SequenceTheorems, FiniteSetTheorems, TLAPS

-----------------------------------------------------------------------------
(* The inductive invariant *)

\* No key is down twice.
HeldOnce == \A i, j \in 1 .. Len(held) : held[i] = held[j] => i = j

\* A dance that has not ended has registered nothing.
Unregistered(D) == \A d \in Dance : ~D[d].finished => D[d].code = NoCode

\* What the held dances have registered.
Codes(D) == {D[d].code : d \in {e \in Dance : D[e].pressed}} \ {NoCode}

\* The flags of the kill switch are right.
FlagsAgree ==
  \A c \in Channel, i \in {0, 1} :
    key_pressed[c][i] <=> switch[c].enable /\ switch[c].keycode[i] \in Down

\* The keys that KKUK counts.
Counted == {k \in Down : ~kill_switch_is_use(k)}

\* The count of KKUK is not too high, but may have wrapped.
CountAgrees == key_cnt <= Cardinality(Counted) /\ (~kkuk_on => key_cnt = 0)

\* The report holds nothing else than held keys and registered keycodes, ...
Explained == report \subseteq Down \cup Codes(dance)

\* ... and of two keys of a kill switch that one which was pressed last.
Pair(c, i) ==
  LET a == switch[c].keycode[i]
      b == switch[c].keycode[1 - i]
  IN  /\ switch[c].enable /\ Earlier(a, b)
      /\ \A o \in Channel \ {c} : {a, b} \cap {switch[o].keycode[j] : j \in {0, 1}} = {}
      /\ {a, b} \cap Code = {}

Separated ==
  \A c \in Channel, i \in {0, 1} :
    Pair(c, i) => switch[c].keycode[1 - i] \in report /\ switch[c].keycode[i] \notin report

Dancing == HeldOnce /\ Unregistered(dance) /\ sent = report

Inv ==
  /\ TypeOK /\ Dancing
  /\ ~edited => FlagsAgree /\ CountAgrees /\ Explained /\ Separated

-----------------------------------------------------------------------------
(* The keys that are held *)

\* Key a comes before key b in h.
InOrder(h, a, b) == \E i, j \in DOMAIN h : i < j /\ h[i] = a /\ h[j] = b

LEMMA DownRange ==
  ASSUME TypeOK
  PROVE  /\ Len(held) \in Nat /\ DOMAIN held = 1 .. Len(held) /\ held \in Seq(Plain)
         /\ Down = {held[i] : i \in 1 .. Len(held)} /\ Down \subseteq Plain
         /\ \A a, b : InOrder(held, a, b) <=>
              \E i, j \in 1 .. Len(held) : i < j /\ held[i] = a /\ held[j] = b
<1>1. held \in Seq(Plain)
  BY DEF TypeOK
<1>2. Len(held) \in Nat /\ DOMAIN held = 1 .. Len(held) /\ \A i \in 1 .. Len(held) : held[i] \in Plain
  BY <1>1, LenProperties, ElementOfSeq
<1> QED
  BY <1>1, <1>2 DEF Down, InOrder

\* A key that is pressed is the last.
LEMMA HeldPress ==
  ASSUME TypeOK, HeldOnce, NEW k \in Plain, k \notin Down, held' = Append(held, k)
  PROVE  /\ held' \in Seq(Plain) /\ Down' = Down \cup {k} /\ HeldOnce'
         /\ \A a, b : InOrder(held', a, b) <=> InOrder(held, a, b) \/ (a \in Down /\ b = k)
<1>1. /\ Len(held) \in Nat /\ held \in Seq(Plain) /\ Down = {held[i] : i \in 1 .. Len(held)}
      /\ \A a, b : InOrder(held, a, b) <=>
           \E i, j \in 1 .. Len(held) : i < j /\ held[i] = a /\ held[j] = b
  BY DownRange
<1>2. /\ held' \in Seq(Plain) /\ Len(held') = Len(held) + 1 /\ DOMAIN held' = 1 .. Len(held) + 1
      /\ \A i \in 1 .. Len(held) : held'[i] = held[i]
      /\ held'[Len(held) + 1] = k
  BY <1>1, AppendProperties, LenProperties
<1>3. Down' = Down \cup {k}
  <2>1. \A i \in 1 .. Len(held) + 1 : i \in 1 .. Len(held) \/ i = Len(held) + 1
    BY <1>1
  <2>2. Down' = {held'[i] : i \in 1 .. Len(held) + 1}
    BY <1>2 DEF Down
  <2>3. \A x : x \in Down' <=> x \in Down \cup {k}
    BY <1>1, <1>2, <2>1, <2>2
  <2> QED
    BY <2>3
<1>4. HeldOnce'
  BY <1>1, <1>2 DEF HeldOnce
<1>5. ASSUME NEW a, NEW b PROVE InOrder(held', a, b) <=> InOrder(held, a, b) \/ (a \in Down /\ b = k)
  <2>1. InOrder(held', a, b) <=> \E i, j \in 1 .. Len(held) + 1 : i < j /\ held'[i] = a /\ held'[j] = b
    BY <1>2 DEF InOrder
  <2>2. ASSUME NEW i \in 1 .. Len(held) + 1, NEW j \in 1 .. Len(held) + 1,
               i < j, held'[i] = a, held'[j] = b
        PROVE  InOrder(held, a, b) \/ (a \in Down /\ b = k)
    <3>1. i \in 1 .. Len(held) /\ held[i] = a
      BY <1>1, <1>2, <2>2
    <3> QED
      BY <1>1, <1>2, <2>2, <3>1
  <2>3. ASSUME InOrder(held, a, b) PROVE InOrder(held', a, b)
    BY <1>1, <1>2, <2>1, <2>3
  <2>4. ASSUME a \in Down, b = k PROVE InOrder(held', a, b)
    <3>1. PICK i \in 1 .. Len(held) : held[i] = a
      BY <1>1, <2>4
    <3>2. i \in 1 .. Len(held) + 1 /\ i < Len(held) + 1 /\ Len(held) + 1 \in 1 .. Len(held) + 1
      BY <1>1
    <3> QED
      BY <1>2, <2>1, <2>4, <3>1, <3>2
  <2> QED
    BY <2>1, <2>2, <2>3, <2>4
<1> QED
  BY <1>2, <1>3, <1>4, <1>5

\* The others keep their order when a key is let go.
LEMMA HeldRelease ==
  ASSUME TypeOK, HeldOnce, NEW k \in Down, held' = Without(k)
  PROVE  /\ held' \in Seq(Plain) /\ Down' = Down \ {k} /\ HeldOnce'
         /\ \A a, b : InOrder(held', a, b) => InOrder(held, a, b) /\ a # k /\ b # k
<1>1. /\ Len(held) \in Nat /\ DOMAIN held = 1 .. Len(held) /\ held \in Seq(Plain)
      /\ Down = {held[i] : i \in 1 .. Len(held)}
      /\ \A a, b : InOrder(held, a, b) <=>
           \E i, j \in 1 .. Len(held) : i < j /\ held[i] = a /\ held[j] = b
  BY DownRange
<1> DEFINE n == CHOOSE i \in DOMAIN held : held[i] = k
           m(i) == IF i < n THEN i ELSE i + 1
<1>2. n \in 1 .. Len(held) /\ held[n] = k
  BY <1>1
<1>3. held' = [i \in 1 .. Len(held) - 1 |-> IF i < n THEN held[i] ELSE held[i + 1]]
  BY DEF Without
<1> HIDE DEF n
<1>4. Len(held) - 1 \in Nat
  BY <1>1, <1>2
<1>5. \A i \in 1 .. Len(held) - 1 : m(i) \in 1 .. Len(held) /\ m(i) # n
  BY <1>1, <1>2
<1>6. \A i \in 1 .. Len(held) - 1 : held'[i] = held[m(i)] /\ held'[i] \in Plain
  BY <1>1, <1>3, <1>5, ElementOfSeq
<1>7. held' \in Seq(Plain) /\ Len(held') = Len(held) - 1 /\ DOMAIN held' = 1 .. Len(held) - 1
  BY <1>3, <1>4, <1>6
<1>8. ASSUME NEW j \in 1 .. Len(held), j # n PROVE \E i \in 1 .. Len(held) - 1 : m(i) = j
  <2>1. CASE j < n
    BY <1>1, <1>2, <2>1
  <2>2. CASE j > n
    <3>1. j - 1 \in 1 .. Len(held) - 1 /\ m(j - 1) = j
      BY <1>1, <1>2, <2>2
    <3> QED
      BY <3>1
  <2> QED
    BY <1>2, <1>8, <2>1, <2>2
<1>9. \A i, j \in 1 .. Len(held) - 1 : (m(i) = m(j) => i = j) /\ (i < j => m(i) < m(j))
  BY <1>1, <1>2
<1> HIDE DEF m
<1>10. Down' = Down \ {k}
  <2>1. Down' = {held'[i] : i \in 1 .. Len(held) - 1}
    BY <1>7 DEF Down
  <2>2. ASSUME NEW i \in 1 .. Len(held) - 1 PROVE held'[i] \in Down \ {k}
    BY <1>1, <1>2, <1>5, <1>6 DEF HeldOnce
  <2>3. ASSUME NEW x \in Down \ {k} PROVE \E i \in 1 .. Len(held) - 1 : held'[i] = x
    <3>1. PICK j \in 1 .. Len(held) : held[j] = x
      BY <1>1
    <3>2. PICK i \in 1 .. Len(held) - 1 : m(i) = j
      BY <1>2, <1>8, <3>1
    <3> QED
      BY <1>6, <3>1, <3>2
  <2> QED
    BY <2>1, <2>2, <2>3
<1>11. HeldOnce'
  BY <1>5, <1>6, <1>7, <1>9 DEF HeldOnce
<1>12. ASSUME NEW a, NEW b, InOrder(held', a, b) PROVE InOrder(held, a, b) /\ a # k /\ b # k
  <2>1. PICK i \in 1 .. Len(held) - 1, j \in 1 .. Len(held) - 1 :
             i < j /\ held'[i] = a /\ held'[j] = b
    BY <1>7, <1>12 DEF InOrder
  <2>2. /\ m(i) \in 1 .. Len(held) /\ m(j) \in 1 .. Len(held) /\ m(i) < m(j)
        /\ held[m(i)] = a /\ held[m(j)] = b
    BY <1>5, <1>6, <1>9, <2>1
  <2>3. a \in Down' /\ b \in Down'
    BY <1>7, <2>1 DEF Down
  <2> QED
    BY <1>1, <1>10, <2>2, <2>3
<1> QED
  BY <1>7, <1>10, <1>11, <1>12

-----------------------------------------------------------------------------
(* The dances *)

Settled(s) == ~s.finished => s.code = NoCode

LEMMA StateFields ==
  ASSUME NEW s \in DanceState
  PROVE  /\ s.count \in 0 .. 4 /\ s.pressed \in BOOLEAN /\ s.finished \in BOOLEAN
         /\ s.interrupted \in BOOLEAN /\ s.code \in Code \cup {NoCode}
         /\ [s EXCEPT !.interrupted = TRUE] \in DanceState
         /\ [s EXCEPT !.pressed = FALSE] \in DanceState
         /\ \A n \in 0 .. 4 : [s EXCEPT !.count = n, !.pressed = TRUE] \in DanceState
         /\ \A c \in Code \cup {NoCode} : [s EXCEPT !.finished = TRUE, !.code = c] \in DanceState
BY DEF DanceState

LEMMA FreshState == Fresh \in DanceState /\ Settled(Fresh) /\ ~Fresh.pressed
BY DEF Fresh, DanceState, Settled

LEMMA ActionFields ==
  ASSUME NEW e \in Action, NEW step
  PROVE  /\ Chosen(e, step) \in Code \cup {NoCode}
         /\ Tapped(e, step) \subseteq Code \cup {NoCode} /\ e.tap \in Code \cup {NoCode}
<1>1. /\ e.tap \in Code \cup {NoCode} /\ e.hold \in Code \cup {NoCode}
      /\ e.double \in Code \cup {NoCode} /\ e.tap_hold \in Code \cup {NoCode}
  BY DEF Action
<1>2. Tapped(e, step) \subseteq Code \cup {NoCode}
  BY <1>1 DEF Tapped
<1>3. \A a, b \in Code \cup {NoCode} : Or(a, b) \in Code \cup {NoCode}
  BY DEF Or
<1>4. Chosen(e, step) \in Code \cup {NoCode}
  BY <1>1, <1>3, Zenon DEF Chosen
<1> QED
  BY <1>1, <1>2, <1>4

\* What a dance leaves in the report when it ends: nothing, unless it is held.
LEMMA FinishFacts ==
  ASSUME NEW s \in DanceState, Settled(s), NEW e \in Action, NEW R
  PROVE  LET r == Finish(s, e, R) IN
         /\ r.dance \in DanceState /\ Settled(r.dance)
         /\ \A x \in R \ r.report : x \in Code \cup {NoCode}
         /\ \A x \in r.report \ R : s.pressed /\ r.dance.pressed /\ x = r.dance.code /\ x \in Code
         /\ s.pressed => r.dance.pressed /\ (s.code = NoCode \/ r.dance.code = s.code)
         /\ ~s.pressed => (s.code \in r.report => s.code = NoCode)
<1> DEFINE code == Chosen(e, Step(s))
           T == Tapped(e, Step(s))
           g == [dance |-> [s EXCEPT !.finished = TRUE, !.code = code],
                 report |-> (R \ T) \cup ({code} \ {NoCode})]
           f == IF s.finished THEN [dance |-> s, report |-> R] ELSE g
           r == Finish(s, e, R)
<1>1. code \in Code \cup {NoCode} /\ T \subseteq Code \cup {NoCode}
  BY ActionFields
<1>2. r = IF s.pressed THEN f ELSE [dance |-> Fresh, report |-> f.report \ {f.dance.code}]
  BY DEF Finish, Registered, Reset
<1> HIDE DEF code, T, r
<1>3. /\ g.dance \in DanceState /\ g.dance.finished /\ g.dance.code = code
      /\ g.dance.pressed = s.pressed /\ g.report = (R \ T) \cup ({code} \ {NoCode})
  BY <1>1, StateFields DEF DanceState
<1>4. s.pressed \in BOOLEAN /\ s.finished \in BOOLEAN /\ s.code \in Code \cup {NoCode}
  BY StateFields
<1> HIDE DEF g
<1>5. CASE s.finished
  <2>1. f.dance = s /\ f.report = R
    BY <1>5
  <2> HIDE DEF f
  <2>2. CASE s.pressed
    BY <1>2, <2>1, <2>2 DEF r
  <2>3. CASE ~s.pressed
    <3>1. r.dance = Fresh /\ r.report = R \ {s.code}
      BY <1>2, <2>1, <2>3
    <3> QED
      BY <1>4, <2>3, <3>1, FreshState DEF r
  <2> QED
    BY <2>2, <2>3
<1>6. CASE ~s.finished
  <2>1. f = g /\ s.code = NoCode
    BY <1>6 DEF Settled
  <2> HIDE DEF f
  <2>2. CASE s.pressed
    <3>1. r = g
      BY <1>2, <2>1, <2>2
    <3> QED
      BY <1>1, <1>3, <2>1, <2>2, <3>1 DEF r, Settled
  <2>3. CASE ~s.pressed
    <3>1. r.dance = Fresh /\ r.report = ((R \ T) \cup ({code} \ {NoCode})) \ {code}
      BY <1>2, <1>3, <2>1, <2>3
    <3> QED
      BY <1>1, <2>1, <2>3, <3>1, FreshState DEF r
  <2> QED
    BY <2>2, <2>3
<1> QED
  BY <1>4, <1>5, <1>6

\* A step of the dances keeps the report explained, and the plain keys alone.
Moved(D, R) ==
  /\ D \in [Dance -> DanceState] /\ Unregistered(D)
  /\ \A x \in report \ R : x \in Code \cup {NoCode}
  /\ \A x \in R \ report : x \in Codes(D) /\ x \in Code
  /\ \A x \in R : x \in Codes(dance) => x \in Codes(D)

LEMMA OneDance ==
  ASSUME TypeOK, Unregistered(dance), NEW d \in Dance, NEW s \in DanceState, Settled(s), NEW R,
         \A x \in report \ R : x \in Code \cup {NoCode},
         \A x \in R \ report : s.pressed /\ x = s.code /\ x \in Code,
         dance[d].pressed /\ dance[d].code \in R
           => dance[d].code = NoCode \/ (s.pressed /\ s.code = dance[d].code)
  PROVE  Moved([dance EXCEPT ![d] = s], R)
<1> DEFINE D == [dance EXCEPT ![d] = s]
<1>1. dance \in [Dance -> DanceState]
  BY DEF TypeOK
<1>2. D \in [Dance -> DanceState] /\ D[d] = s /\ \A e \in Dance \ {d} : D[e] = dance[e]
  BY <1>1
<1> HIDE DEF D
<1>3. Unregistered(D)
  BY <1>2 DEF Unregistered, Settled
<1>4. ASSUME NEW x \in R \ report PROVE x \in Codes(D) /\ x \in Code
  BY <1>2, TapDanceAssumption DEF Codes
<1>5. ASSUME NEW x \in R, x \in Codes(dance) PROVE x \in Codes(D)
  <2>1. PICK e \in Dance : dance[e].pressed /\ dance[e].code = x /\ x # NoCode
    BY <1>5 DEF Codes
  <2>2. CASE e = d
    BY <1>2, <2>1, <2>2 DEF Codes
  <2>3. CASE e # d
    BY <1>2, <2>1, <2>3 DEF Codes
  <2> QED
    BY <2>2, <2>3
<1> QED
  BY <1>2, <1>3, <1>4, <1>5 DEF Moved, D

\* The active dance ends, interrupted or not.
LEMMA ActiveEnds ==
  ASSUME TypeOK, Unregistered(dance), NEW d \in Dance,
         NEW s \in {dance[d], [dance[d] EXCEPT !.interrupted = TRUE]}
  PROVE  LET r == Finish(s, action[d], report) IN Moved([dance EXCEPT ![d] = r.dance], r.report)
<1>1. dance[d] \in DanceState /\ action[d] \in Action /\ Settled(dance[d])
  BY DEF TypeOK, Unregistered, Settled
<1>2. /\ s \in DanceState /\ Settled(s) /\ s.code = dance[d].code /\ s.pressed = dance[d].pressed
  <2>1. CASE s = dance[d]
    BY <1>1, <2>1
  <2>2. CASE s = [dance[d] EXCEPT !.interrupted = TRUE]
    <3>1. s \in DanceState
      BY <1>1, <2>2, StateFields
    <3>2. s.code = dance[d].code /\ s.pressed = dance[d].pressed /\ s.finished = dance[d].finished
      BY <1>1, <2>2 DEF DanceState
    <3> QED
      BY <1>1, <3>1, <3>2 DEF Settled
  <2> QED
    BY <2>1, <2>2
<1> DEFINE r == Finish(s, action[d], report)
<1>3. /\ r.dance \in DanceState /\ Settled(r.dance)
      /\ \A x \in report \ r.report : x \in Code \cup {NoCode}
      /\ \A x \in r.report \ report :
           s.pressed /\ r.dance.pressed /\ x = r.dance.code /\ x \in Code
      /\ s.pressed => r.dance.pressed /\ (s.code = NoCode \/ r.dance.code = s.code)
  BY <1>1, <1>2, FinishFacts, Zenon
<1> HIDE DEF r
<1>4. Moved([dance EXCEPT ![d] = r.dance], r.report)
  BY <1>2, <1>3, OneDance
<1> QED
  BY <1>4 DEF r

LEMMA BeforeMoves ==
  ASSUME TypeOK, Unregistered(dance), NEW other
  PROVE  Moved(Before(other, report).dances, Before(other, report).report)
<1>1. CASE Interrupts(other)
  <2> DEFINE s == [dance[active_td] EXCEPT !.interrupted = TRUE]
             r == Finish(s, action[active_td], report)
  <2>1. active_td \in Dance
    BY <1>1 DEF Interrupts, TypeOK
  <2>2. /\ Before(other, report).dances = [dance EXCEPT ![active_td] = r.dance]
        /\ Before(other, report).report = r.report
    BY <1>1 DEF Before, Interrupted
  <2>3. Moved([dance EXCEPT ![active_td] = r.dance], r.report)
    BY <2>1, ActiveEnds
  <2> QED
    BY <2>2, <2>3
<1>2. CASE ~Interrupts(other)
  BY <1>2 DEF Before, Moved, TypeOK
<1> QED
  BY <1>1, <1>2

\* A dance's own key is pressed.
LEMMA PressMoves ==
  ASSUME TypeOK, Unregistered(dance), NEW d \in Dance, ~dance[d].pressed, NEW n \in 0 .. 4
  PROVE  LET before == Before(d, report) IN
         Moved([before.dances EXCEPT ![d].count = n, ![d].pressed = TRUE],
               TapReport(d, n, before.report))
<1> DEFINE B == Before(d, report).dances
           R == Before(d, report).report
           D == [B EXCEPT ![d].count = n, ![d].pressed = TRUE]
<1>1. Moved(B, R)
  BY BeforeMoves
<1> HIDE DEF B, R
<1>2. B \in [Dance -> DanceState] /\ Unregistered(B)
  BY <1>1 DEF Moved
<1>3. D[d] = [B[d] EXCEPT !.count = n, !.pressed = TRUE] /\ \A e \in Dance \ {d} : D[e] = B[e]
  BY <1>2
<1>4. D \in [Dance -> DanceState]
  <2>1. D[d] \in DanceState
    BY <1>2, <1>3, StateFields
  <2>2. D = [B EXCEPT ![d] = D[d]]
    BY <1>2, <1>3
  <2> QED
    BY <1>2, <2>1, <2>2
<1>5. /\ D[d].pressed /\ D[d].code = B[d].code /\ D[d].finished = B[d].finished
  BY <1>2, <1>3 DEF DanceState
<1> HIDE DEF D
<1>6. Unregistered(D)
  BY <1>2, <1>3, <1>5 DEF Unregistered
<1>7. ASSUME NEW x \in Codes(B) PROVE x \in Codes(D)
  <2>1. PICK e \in Dance : B[e].pressed /\ B[e].code = x /\ x # NoCode
    BY DEF Codes
  <2>2. CASE e = d
    BY <1>5, <2>1, <2>2 DEF Codes
  <2>3. CASE e # d
    BY <1>3, <2>1, <2>3 DEF Codes
  <2> QED
    BY <2>2, <2>3
<1>8. /\ TapReport(d, n, R) \subseteq R
      /\ \A x \in R \ TapReport(d, n, R) : x \in Code \cup {NoCode}
  <2>1. action[d].tap \in Code \cup {NoCode}
    BY ActionFields DEF TypeOK
  <2> QED
    BY <2>1 DEF TapReport
<1> HIDE DEF R
<1>9. Moved(D, TapReport(d, n, R))
  BY <1>1, <1>4, <1>6, <1>7, <1>8 DEF Moved
<1> QED
  BY <1>9 DEF D, B, R

\* ... and released.
LEMMA ReleaseMoves ==
  ASSUME TypeOK, Unregistered(dance), NEW d \in Dance
  PROVE  Moved([dance EXCEPT ![d] = Released(d, report).dance], Released(d, report).report)
<1> DEFINE s == [dance[d] EXCEPT !.pressed = FALSE]
           r == Finish(s, action[d], report)
<1>1. dance[d] \in DanceState /\ action[d] \in Action /\ Settled(dance[d])
  BY DEF TypeOK, Unregistered, Settled
<1>2. /\ s \in DanceState /\ Settled(s) /\ s.code = dance[d].code /\ ~s.pressed
      /\ s.finished = dance[d].finished
  BY <1>1, StateFields DEF Settled, DanceState
<1> HIDE DEF s
<1>3. CASE Immediate(action[d], s.count) \/ s.finished
  <2>1. /\ r.dance \in DanceState /\ Settled(r.dance)
        /\ \A x \in report \ r.report : x \in Code \cup {NoCode}
        /\ \A x \in r.report \ report :
             s.pressed /\ r.dance.pressed /\ x = r.dance.code /\ x \in Code
        /\ ~s.pressed => (s.code \in r.report => s.code = NoCode)
    BY <1>1, <1>2, FinishFacts, Zenon
  <2>2. Released(d, report) = r
    BY <1>3 DEF Released, s
  <2> HIDE DEF r
  <2>3. Moved([dance EXCEPT ![d] = r.dance], r.report)
    BY <1>2, <2>1, OneDance
  <2> QED
    BY <2>2, <2>3
<1>4. CASE ~(Immediate(action[d], s.count) \/ s.finished)
  <2>1. Released(d, report) = [dance |-> s, report |-> report]
    BY <1>4 DEF Released, s
  <2>2. dance[d].code = NoCode
    BY <1>1, <1>2, <1>4 DEF Settled
  <2>3. Moved([dance EXCEPT ![d] = s], report)
    BY <1>2, <2>2, OneDance
  <2> QED
    BY <2>1, <2>3
<1> QED
  BY <1>3, <1>4

-----------------------------------------------------------------------------
(* The kill switch *)

LEMMA SwitchFields ==
  ASSUME TypeOK, NEW c \in Channel, NEW i \in {0, 1}
  PROVE  /\ switch[c] \in Switch /\ switch[c].enable \in BOOLEAN
         /\ switch[c].keycode \in [{0, 1} -> Plain \cup {No}]
         /\ switch[c].keycode[i] \in Plain \cup {No}
         /\ 1 - i \in {0, 1} /\ 1 - (1 - i) = i
         /\ key_pressed[c] \in [{0, 1} -> BOOLEAN] /\ key_pressed[c][i] \in BOOLEAN
BY DEF TypeOK, Switch

LEMMA FlagsSet ==
  ASSUME NEW k, NEW b
  PROVE  \A c \in Channel, i \in {0, 1} :
           Flags(k, b)[c][i] = IF switch[c].enable /\ switch[c].keycode[i] = k
                               THEN b ELSE key_pressed[c][i]
BY DEF Flags, Places

LEMMA FlagsType ==
  ASSUME TypeOK, NEW k, NEW b \in BOOLEAN
  PROVE  Flags(k, b) \in [Channel -> [{0, 1} -> BOOLEAN]]
<1>1. \A c \in Channel, i \in {0, 1} : key_pressed[c][i] \in BOOLEAN
  BY SwitchFields
<1>2. \A c \in Channel, i \in {0, 1} :
        (IF <<c, i>> \in Places(k) THEN b ELSE key_pressed[c][i]) \in BOOLEAN
  BY <1>1
<1> QED
  BY <1>2, Zenon DEF Flags

\* The flags know which of the keys are held after each press and release.
LEMMA FlagsFollow ==
  ASSUME TypeOK, FlagsAgree, NEW k \in Plain, NEW b \in BOOLEAN, switch' = switch,
         key_pressed' = Flags(k, b), Down' = IF b THEN Down \cup {k} ELSE Down \ {k}
  PROVE  FlagsAgree'
<1> SUFFICES ASSUME NEW c \in Channel, NEW i \in {0, 1}
             PROVE  key_pressed'[c][i] <=> switch[c].enable /\ switch[c].keycode[i] \in Down'
  BY DEF FlagsAgree
<1>1. key_pressed[c][i] <=> switch[c].enable /\ switch[c].keycode[i] \in Down
  BY DEF FlagsAgree
<1>2. key_pressed'[c][i] = IF switch[c].enable /\ switch[c].keycode[i] = k
                           THEN b ELSE key_pressed[c][i]
  BY FlagsSet
<1>3. CASE switch[c].enable /\ switch[c].keycode[i] = k
  BY <1>2, <1>3
<1>4. CASE ~(switch[c].enable /\ switch[c].keycode[i] = k)
  BY <1>1, <1>2, <1>4
<1> QED
  BY <1>3, <1>4

LEMMA OppositeKeys ==
  ASSUME NEW k
  PROVE  \A x : x \in Opposite(k) <=>
           \E c \in Channel, i \in {0, 1} : /\ switch[c].enable /\ switch[c].keycode[i] = k
                                            /\ key_pressed[c][1 - i] /\ x = switch[c].keycode[1 - i]
<1> DEFINE Q == {q \in Places(k) : key_pressed[q[1]][1 - q[2]]}
<1>1. \A p : p \in Q <=> \E c \in Channel, i \in {0, 1} :
        p = <<c, i>> /\ switch[c].enable /\ switch[c].keycode[i] = k /\ key_pressed[c][1 - i]
  BY DEF Places
<1>2. Opposite(k) = {switch[p[1]].keycode[1 - p[2]] : p \in Q}
  BY DEF Opposite
<1> HIDE DEF Q
<1>3. ASSUME NEW x \in Opposite(k)
      PROVE  \E c \in Channel, i \in {0, 1} : /\ switch[c].enable /\ switch[c].keycode[i] = k
                                             /\ key_pressed[c][1 - i] /\ x = switch[c].keycode[1 - i]
  <2>1. PICK p \in Q : x = switch[p[1]].keycode[1 - p[2]]
    BY <1>2
  <2>2. PICK c \in Channel, i \in {0, 1} :
          p = <<c, i>> /\ switch[c].enable /\ switch[c].keycode[i] = k /\ key_pressed[c][1 - i]
    BY <1>1
  <2>3. p[1] = c /\ p[2] = i
    BY <2>2
  <2> QED
    BY <2>1, <2>2, <2>3
<1>4. ASSUME NEW c \in Channel, NEW i \in {0, 1},
             switch[c].enable, switch[c].keycode[i] = k, key_pressed[c][1 - i]
      PROVE  switch[c].keycode[1 - i] \in Opposite(k)
  <2>1. <<c, i>> \in Q /\ <<c, i>>[1] = c /\ <<c, i>>[2] = i
    BY <1>1, <1>4
  <2> QED
    BY <1>2, <2>1
<1> QED
  BY <1>3, <1>4

\* With right flags an opposite key is a key that is held.
LEMMA OppositeHeld ==
  ASSUME TypeOK, FlagsAgree, NEW k
  PROVE  Opposite(k) \subseteq Down /\ No \notin Opposite(k)
<1>1. Opposite(k) \subseteq Down
  BY OppositeKeys, SwitchFields DEF FlagsAgree
<1> QED
  BY <1>1, DownRange, KillSwitchAssumption

\* The channel of a pair has the keys to itself.
LEMMA OppositeApart ==
  ASSUME TypeOK, NEW c \in Channel, NEW i \in {0, 1}, Pair(c, i),
         NEW k, k \notin {switch[c].keycode[i], switch[c].keycode[1 - i]}
  PROVE  /\ switch[c].keycode[i] \notin Opposite(k)
         /\ switch[c].keycode[1 - i] \notin Opposite(k)
<1> DEFINE a == switch[c].keycode[i]
           b == switch[c].keycode[1 - i]
<1> SUFFICES ASSUME NEW x \in {a, b}, x \in Opposite(k) PROVE FALSE
  OBVIOUS
<1>1. PICK o \in Channel, j \in {0, 1} :
           switch[o].keycode[j] = k /\ x = switch[o].keycode[1 - j]
  BY OppositeKeys
<1>2. 1 - j \in {0, 1} /\ 1 - i \in {0, 1}
  BY SwitchFields
<1>3. o = c
  <2>1. \A p \in Channel \ {c} : {a, b} \cap {switch[p].keycode[n] : n \in {0, 1}} = {}
    BY DEF Pair
  <2> QED
    BY <1>1, <1>2, <2>1
<1>4. j = i \/ j = 1 - i
  OBVIOUS
<1> QED
  BY <1>1, <1>3, <1>4

\* The keys of a pair are held, different, and no code of a dance.
LEMMA PairKeys ==
  ASSUME TypeOK, HeldOnce, NEW c \in Channel, NEW i \in {0, 1}, Pair(c, i)
  PROVE  LET a == switch[c].keycode[i]
             b == switch[c].keycode[1 - i]
         IN  a \in Down /\ b \in Down /\ a # b /\ {a, b} \cap (Code \cup {NoCode}) = {}
<1> DEFINE a == switch[c].keycode[i]
           b == switch[c].keycode[1 - i]
<1>1. Earlier(a, b) /\ {a, b} \cap Code = {}
  BY DEF Pair
<1>2. PICK m \in 1 .. Len(held), n \in 1 .. Len(held) : m < n /\ held[m] = a /\ held[n] = b
  BY <1>1, DownRange DEF Earlier, InOrder
<1>3. a \in Down /\ b \in Down /\ a \in Plain /\ b \in Plain
  BY <1>2, DownRange
<1>4. a # b
  <2>1. a = b => m = n
    BY <1>2 DEF HeldOnce
  <2>2. m # n
    BY <1>2, DownRange
  <2> QED
    BY <2>1, <2>2
<1> QED
  BY <1>1, <1>3, <1>4, KeyFeaturesAssumption

LEMMA PairNext ==
  ASSUME switch' = switch, NEW c, NEW i
  PROVE  LET a == switch[c].keycode[i]
             b == switch[c].keycode[1 - i]
         IN  Pair(c, i)' <=>
               /\ switch[c].enable /\ InOrder(held', a, b)
               /\ \A o \in Channel \ {c} :
                    {a, b} \cap {switch[o].keycode[j] : j \in {0, 1}} = {}
               /\ {a, b} \cap Code = {}
BY DEF Pair, Earlier, InOrder

-----------------------------------------------------------------------------
(* KKUK *)

LEMMA CountedFinite ==
  ASSUME TypeOK
  PROVE  IsFiniteSet(Counted) /\ Cardinality(Counted) \in Nat
<1>1. Len(held) \in Nat /\ held \in Seq(Plain) /\ Down = {held[i] : i \in 1 .. Len(held)}
  BY DownRange
<1>2. IsFiniteSet(1 .. Len(held))
  BY <1>1, FS_Interval
<1>3. IsFiniteSet(Down)
  <2>1. held \in [1 .. Len(held) -> Down] /\ \A x \in Down : \E i \in 1 .. Len(held) : held[i] = x
    BY <1>1, SeqDef
  <2>2. held \in Surjection(1 .. Len(held), Down)
    BY <2>1 DEF Surjection
  <2> QED
    BY <1>2, <2>2, FS_Surjection
<1> QED
  BY <1>3, FS_Subset, FS_CardinalityType DEF Counted

LEMMA KkukType ==
  ASSUME TypeOK, NEW k, NEW b \in BOOLEAN, kkuk_process(k, b)
  PROVE  /\ {kkuk_on', is_kkuk_mode', delay_over', repeat_over'} \subseteq BOOLEAN
         /\ key_cnt' \in 0 .. 255 /\ pre_cnt' \in 0 .. 255
         /\ kkuk_on' = kkuk_on
         /\ key_cnt' = IF kkuk_on /\ ~kill_switch_is_use(k)
                       THEN IF b THEN (key_cnt + 1) % 256 ELSE Less(key_cnt)
                       ELSE key_cnt
<1>1. /\ {kkuk_on, is_kkuk_mode, delay_over, repeat_over} \subseteq BOOLEAN
      /\ key_cnt \in 0 .. 255 /\ pre_cnt \in 0 .. 255
  BY DEF TypeOK
<1>2. (key_cnt + 1) % 256 \in 0 .. 255 /\ Less(key_cnt) \in 0 .. 255
  BY <1>1 DEF Less
<1>3. CASE kkuk_on /\ ~kill_switch_is_use(k)
  BY <1>1, <1>2, <1>3 DEF kkuk_process
<1>4. CASE ~(kkuk_on /\ ~kill_switch_is_use(k))
  BY <1>1, <1>4 DEF kkuk_process, kkuk
<1> QED
  BY <1>3, <1>4

\* The count stays below the keys that count.
LEMMA CountFollowsPress ==
  ASSUME TypeOK, CountAgrees, NEW k \in Plain, k \notin Down, switch' = switch,
         Down' = Down \cup {k}, kkuk_process(k, TRUE)
  PROVE  CountAgrees'
<1>1. \A x : kill_switch_is_use(x)' <=> kill_switch_is_use(x)
  BY DEF kill_switch_is_use
<1>2. /\ kkuk_on' = kkuk_on
      /\ key_cnt' = IF kkuk_on /\ ~kill_switch_is_use(k) THEN (key_cnt + 1) % 256 ELSE key_cnt
      /\ key_cnt \in 0 .. 255 /\ kkuk_on \in BOOLEAN
  BY KkukType DEF TypeOK
<1>3. IsFiniteSet(Counted) /\ Cardinality(Counted) \in Nat
  BY CountedFinite
<1>4. CASE kill_switch_is_use(k)
  <2>1. Counted' = Counted
    BY <1>1, <1>4 DEF Counted
  <2> QED
    BY <1>2, <1>4, <2>1 DEF CountAgrees
<1>5. CASE ~kill_switch_is_use(k)
  <2>1. Counted' = Counted \cup {k} /\ k \notin Counted
    BY <1>1, <1>5 DEF Counted
  <2>2. Cardinality(Counted') = Cardinality(Counted) + 1
    BY <1>3, <2>1, FS_AddElement
  <2>3. (key_cnt + 1) % 256 <= key_cnt + 1
    BY <1>2
  <2> QED
    BY <1>2, <1>3, <1>5, <2>2, <2>3 DEF CountAgrees
<1> QED
  BY <1>4, <1>5

LEMMA CountFollowsRelease ==
  ASSUME TypeOK, CountAgrees, NEW k \in Down, switch' = switch,
         Down' = Down \ {k}, kkuk_process(k, FALSE)
  PROVE  CountAgrees'
<1>1. \A x : kill_switch_is_use(x)' <=> kill_switch_is_use(x)
  BY DEF kill_switch_is_use
<1>2. /\ kkuk_on' = kkuk_on
      /\ key_cnt' = IF kkuk_on /\ ~kill_switch_is_use(k) THEN Less(key_cnt) ELSE key_cnt
      /\ key_cnt \in 0 .. 255 /\ kkuk_on \in BOOLEAN
  BY KkukType DEF TypeOK
<1>3. IsFiniteSet(Counted) /\ Cardinality(Counted) \in Nat
  BY CountedFinite
<1>4. CASE kill_switch_is_use(k)
  <2>1. Counted' = Counted
    BY <1>1, <1>4 DEF Counted
  <2> QED
    BY <1>2, <1>4, <2>1 DEF CountAgrees
<1>5. CASE ~kill_switch_is_use(k)
  <2>1. Counted' = Counted \ {k} /\ k \in Counted
    BY <1>1, <1>5 DEF Counted
  <2>2. Cardinality(Counted') = Cardinality(Counted) - 1 /\ Cardinality(Counted') \in Nat
    BY <1>3, <2>1, FS_RemoveElement, FS_CardinalityType
  <2> QED
    BY <1>2, <1>3, <1>5, <2>2 DEF CountAgrees, Less
<1> QED
  BY <1>4, <1>5

-----------------------------------------------------------------------------
(* Every step keeps the types *)

LEMMA BudgetKept ==
  ASSUME TypeOK, NEW f \in {"keys", "taps", "edits"}, Spend(f)
  PROVE  budget' \in [keys : Nat, taps : Nat, edits : Nat]
<1>1. budget \in [keys : Nat, taps : Nat, edits : Nat]
  BY DEF TypeOK
<1>2. budget[f] \in Nat /\ budget[f] > 0 /\ budget' = [budget EXCEPT ![f] = budget[f] - 1]
  BY <1>1 DEF Spend
<1>3. budget[f] - 1 \in Nat
  BY <1>2
<1> QED
  BY <1>1, <1>2, <1>3

\* The report and the dances after a step of a dance.
LEMMA MovedType ==
  ASSUME TypeOK, NEW D, NEW R, Moved(D, R)
  PROVE  D \in [Dance -> DanceState] /\ R \subseteq Plain \cup Code
BY DEF Moved, TypeOK

LEMMA PressType ==
  ASSUME TypeOK, Unregistered(dance), HeldOnce, NEW k \in Plain, Press(k)
  PROVE  TypeOK'
<1>1. Moved(Before(k, report).dances, Before(k, report).report)
  BY BeforeMoves
<1>2. dance' \in [Dance -> DanceState] /\ Before(k, report).report \subseteq Plain \cup Code
  BY <1>1, MovedType DEF Press
<1>3. report' \subseteq Plain \cup Code /\ sent' = report'
  BY <1>2 DEF Press, Switched
<1>4. budget' \in [keys : Nat, taps : Nat, edits : Nat]
  BY BudgetKept DEF Press
<1>5. key_pressed' \in [Channel -> [{0, 1} -> BOOLEAN]]
  BY FlagsType DEF Press
<1>6. held' \in Seq(Plain)
  BY HeldPress DEF Press
<1>7. /\ {kkuk_on', is_kkuk_mode', delay_over', repeat_over'} \subseteq BOOLEAN
      /\ key_cnt' \in 0 .. 255 /\ pre_cnt' \in 0 .. 255
  BY KkukType DEF Press
<1>8. active_td' \in Dance \cup {NoCode}
  BY DEF Press, TypeOK
<1>9. UNCHANGED <<switch, term_over, action, edited, disarmed>>
  BY DEF Press
<1> QED
  BY <1>2, <1>3, <1>4, <1>5, <1>6, <1>7, <1>8, <1>9 DEF TypeOK

LEMMA ReleaseType ==
  ASSUME TypeOK, HeldOnce, NEW k \in Plain, Release(k)
  PROVE  TypeOK'
<1>1. Opposite(k) \ {No} \subseteq Plain
  BY OppositeKeys, SwitchFields
<1>2. report' \subseteq Plain \cup Code /\ sent' = report'
  BY <1>1 DEF Release, Switched, TypeOK
<1>3. budget' \in [keys : Nat, taps : Nat, edits : Nat]
  BY BudgetKept DEF Release
<1>4. key_pressed' \in [Channel -> [{0, 1} -> BOOLEAN]]
  BY FlagsType DEF Release
<1>5. held' \in Seq(Plain)
  BY HeldRelease DEF Release
<1>6. /\ {kkuk_on', is_kkuk_mode', delay_over', repeat_over'} \subseteq BOOLEAN
      /\ key_cnt' \in 0 .. 255 /\ pre_cnt' \in 0 .. 255
  BY KkukType DEF Release
<1>7. UNCHANGED <<switch, dance, active_td, term_over, action, edited, disarmed>>
  BY DEF Release, dances
<1> QED
  BY <1>2, <1>3, <1>4, <1>5, <1>6, <1>7 DEF TypeOK

LEMMA DanceType ==
  ASSUME TypeOK, Moved(dance', report'), sent' = report',
         active_td' \in Dance \cup {NoCode}, term_over' \in BOOLEAN, disarmed' \subseteq Dance,
         budget' \in [keys : Nat, taps : Nat, edits : Nat],
         UNCHANGED <<switches, kkuk, action, held, edited>>
  PROVE  TypeOK'
<1>1. dance' \in [Dance -> DanceState] /\ report' \subseteq Plain \cup Code
  BY MovedType
<1>2. /\ UNCHANGED <<switch, key_pressed, kkuk_on, key_cnt, pre_cnt, is_kkuk_mode>>
      /\ UNCHANGED <<delay_over, repeat_over, action, held, edited>>
  BY DEF switches, kkuk
<1> QED
  BY <1>1, <1>2 DEF TypeOK

LEMMA IdleType ==
  ASSUME TypeOK, KkukIdle, UNCHANGED <<switches, dances, report, held, budget, edited, disarmed>>,
         sent' \in {sent, report}
  PROVE  TypeOK'
<1>1. Mode \in BOOLEAN
  <2>1. (key_cnt > 0) \in BOOLEAN
    BY DEF TypeOK
  <2>2. (key_cnt >= 2 /\ delay_over) \in BOOLEAN
    BY Zenon
  <2> QED
    BY <2>1, <2>2, Zenon DEF Mode
<1>2. /\ is_kkuk_mode' \in BOOLEAN /\ pre_cnt' \in 0 .. 255 /\ repeat_over' \in BOOLEAN
      /\ UNCHANGED <<kkuk_on, key_cnt, delay_over>>
  BY <1>1 DEF KkukIdle, TypeOK
<1>3. sent' \subseteq Plain \cup Code
  BY DEF TypeOK
<1>4. UNCHANGED <<switch, key_pressed, dance, active_td, term_over, action, report, held, budget,
                  edited, disarmed>>
  BY DEF switches, dances
<1> QED
  BY <1>2, <1>3, <1>4 DEF TypeOK

LEMMA ViaSwitchType ==
  ASSUME TypeOK, ViaSwitch
  PROVE  TypeOK'
<1>1. switch' \in [Channel -> Switch]
  <2>1. switch \in [Channel -> Switch]
    BY DEF TypeOK
  <2>2. PICK c \in Channel :
          \/ switch' = [switch EXCEPT ![c].enable = ~@]
          \/ \E i \in {0, 1}, k \in Plain \cup {No} : switch' = [switch EXCEPT ![c].keycode[i] = k]
    BY DEF ViaSwitch, SetSwitch
  <2>3. switch[c] \in Switch /\ switch[c].keycode \in [{0, 1} -> Plain \cup {No}]
    BY SwitchFields
  <2>4. CASE switch' = [switch EXCEPT ![c].enable = ~@]
    <3>1. [switch[c] EXCEPT !.enable = ~@] \in Switch
      BY <2>3 DEF Switch
    <3> QED
      BY <2>1, <2>4, <3>1
  <2>5. ASSUME NEW i \in {0, 1}, NEW k \in Plain \cup {No},
               switch' = [switch EXCEPT ![c].keycode[i] = k]
        PROVE  switch' \in [Channel -> Switch]
    <3>1. [switch[c].keycode EXCEPT ![i] = k] \in [{0, 1} -> Plain \cup {No}]
      BY <2>3
    <3>2. [switch[c] EXCEPT !.keycode[i] = k] \in Switch
      BY <2>3, <3>1 DEF Switch
    <3> QED
      BY <2>1, <2>5, <3>2
  <2> QED
    BY <2>2, <2>4, <2>5
<1>2. budget' \in [keys : Nat, taps : Nat, edits : Nat]
  BY BudgetKept DEF ViaSwitch
<1>3. edited' \in BOOLEAN
  BY DEF ViaSwitch, TypeOK
<1>4. /\ UNCHANGED <<key_pressed, kkuk_on, key_cnt, pre_cnt, is_kkuk_mode, delay_over, repeat_over>>
      /\ UNCHANGED <<dance, active_td, term_over, action, report, sent, held, disarmed>>
  BY DEF ViaSwitch, kkuk, dances, keys
<1> QED
  BY <1>1, <1>2, <1>3, <1>4 DEF TypeOK

LEMMA ViaKkukType ==
  ASSUME TypeOK, ViaKkuk
  PROVE  TypeOK'
<1>1. budget' \in [keys : Nat, taps : Nat, edits : Nat]
  BY BudgetKept DEF ViaKkuk
<1>2. edited' \in BOOLEAN /\ kkuk_on' \in BOOLEAN
  BY DEF ViaKkuk, SetKkuk, TypeOK
<1>3. /\ UNCHANGED <<switch, key_pressed, key_cnt, pre_cnt, is_kkuk_mode, delay_over, repeat_over>>
      /\ UNCHANGED <<dance, active_td, term_over, action, report, sent, held, disarmed>>
  BY DEF ViaKkuk, SetKkuk, switches, dances, keys
<1> QED
  BY <1>1, <1>2, <1>3 DEF TypeOK

LEMMA ViaDanceType ==
  ASSUME TypeOK, ViaDance
  PROVE  TypeOK'
<1>1. action' \in [Dance -> Action]
  <2>1. action \in [Dance -> Action]
    BY DEF TypeOK
  <2>2. PICK d \in Dance, k \in Code \cup {NoCode}, f \in {"tap", "hold", "double", "tap_hold"} :
          action' = [action EXCEPT ![d][f] = k]
    BY DEF ViaDance, SetAction
  <2>3. [action[d] EXCEPT ![f] = k] \in Action
    BY <2>1 DEF Action
  <2> QED
    BY <2>1, <2>2, <2>3
<1>2. budget' \in [keys : Nat, taps : Nat, edits : Nat]
  BY BudgetKept DEF ViaDance
<1>3. /\ UNCHANGED <<switch, key_pressed, kkuk_on, key_cnt, pre_cnt, is_kkuk_mode, delay_over>>
      /\ UNCHANGED <<repeat_over, dance, active_td, term_over, report, sent, held, edited, disarmed>>
  BY DEF ViaDance, switches, kkuk, keys
<1> QED
  BY <1>1, <1>2, <1>3 DEF TypeOK

-----------------------------------------------------------------------------
(* Every step keeps the rest of the invariant *)

\* A step that leaves the keys, the settings, the count and the dances alone.
LEMMA NothingMoves ==
  ASSUME Inv, TypeOK', UNCHANGED <<switches, kkuk_on, key_cnt, dance, report, held>>,
         sent' = report', edited' = edited
  PROVE  Inv'
<1>1. UNCHANGED <<switch, key_pressed>>
  BY DEF switches
<1>2. Down' = Down /\ (\A a, b : Earlier(a, b)' <=> Earlier(a, b)) /\ Codes(dance)' = Codes(dance)
  BY DEF Down, Earlier, Codes
<1>3. Dancing'
  BY DEF Inv, Dancing, HeldOnce, Unregistered
<1>4. Counted' = Counted
  BY <1>1, <1>2 DEF Counted, kill_switch_is_use
<1>5. FlagsAgree => FlagsAgree'
  BY <1>1, <1>2 DEF FlagsAgree
<1>6. CountAgrees => CountAgrees'
  BY <1>4 DEF CountAgrees
<1>7. Explained => Explained'
  BY <1>2 DEF Explained
<1>8. Separated => Separated'
  <2>1. \A c \in Channel, i \in {0, 1} : Pair(c, i)' <=> Pair(c, i)
    BY <1>1, <1>2 DEF Pair, Earlier
  <2> QED
    BY <1>1, <2>1 DEF Separated
<1> QED
  BY <1>3, <1>5, <1>6, <1>7, <1>8 DEF Inv

\* A step of a dance.
LEMMA DanceMoves ==
  ASSUME Inv, TypeOK', Moved(dance', report'), sent' = report',
         UNCHANGED <<switches, kkuk, held, edited>>
  PROVE  Inv'
<1>1. UNCHANGED <<switch, key_pressed, kkuk_on, key_cnt>>
  BY DEF switches, kkuk
<1>2. Down' = Down /\ \A a, b : Earlier(a, b)' <=> Earlier(a, b)
  BY DEF Down, Earlier
<1>3. Dancing'
  BY DEF Inv, Dancing, HeldOnce, Unregistered, Moved
<1>4. Counted' = Counted
  BY <1>1, <1>2 DEF Counted, kill_switch_is_use
<1>5. FlagsAgree => FlagsAgree'
  BY <1>1, <1>2 DEF FlagsAgree
<1>6. CountAgrees => CountAgrees'
  BY <1>1, <1>4 DEF CountAgrees
<1>7. Explained => Explained'
  <2> SUFFICES ASSUME Explained, NEW x \in report' PROVE x \in Down \cup Codes(dance')
    BY <1>2 DEF Explained, Codes
  <2>1. CASE x \in report
    BY <2>1 DEF Explained, Moved
  <2>2. CASE x \notin report
    BY <2>2 DEF Moved
  <2> QED
    BY <2>1, <2>2
<1>8. ASSUME Separated PROVE Separated'
  <2>0. \A c \in Channel, i \in {0, 1} : Pair(c, i)' <=> Pair(c, i)
    BY <1>1, <1>2 DEF Pair, Earlier
  <2> SUFFICES ASSUME NEW c \in Channel, NEW i \in {0, 1}, Pair(c, i)
               PROVE  switch[c].keycode[1 - i] \in report' /\ switch[c].keycode[i] \notin report'
    BY <1>1, <2>0 DEF Separated
  <2>1. switch[c].keycode[1 - i] \in report /\ switch[c].keycode[i] \notin report
    BY <1>8 DEF Separated
  <2>2. {switch[c].keycode[i], switch[c].keycode[1 - i]} \cap (Code \cup {NoCode}) = {}
    BY PairKeys DEF Inv, Dancing
  <2> QED
    BY <2>1, <2>2 DEF Moved
<1> QED
  BY <1>3, <1>5, <1>6, <1>7, <1>8 DEF Inv

\* The press of a plain key.
LEMMA PressKeeps ==
  ASSUME Inv, NEW k \in Plain, Press(k)
  PROVE  Inv'
<1> DEFINE R == Before(k, report).report
<1>1. TypeOK /\ HeldOnce /\ Unregistered(dance)
  BY DEF Inv, Dancing
<1>2. TypeOK'
  BY <1>1, PressType
<1>3. Moved(dance', R)
  BY <1>1, BeforeMoves DEF Press
<1>4. /\ k \notin Down /\ held' = Append(held, k) /\ switch' = switch
      /\ key_pressed' = Flags(k, TRUE) /\ kkuk_process(k, TRUE)
      /\ report' = (R \ Opposite(k)) \cup {k} /\ sent' = report' /\ edited' = edited
  BY DEF Press, Switched
<1> HIDE DEF R
<1>5. /\ Down' = Down \cup {k} /\ HeldOnce'
      /\ \A a, b : InOrder(held', a, b) <=> InOrder(held, a, b) \/ (a \in Down /\ b = k)
  BY <1>1, <1>4, HeldPress
<1>6. Dancing'
  BY <1>3, <1>4, <1>5 DEF Dancing, Unregistered, Moved
<1>7. ASSUME FlagsAgree, CountAgrees, Explained, Separated
      PROVE  FlagsAgree' /\ CountAgrees' /\ Explained' /\ Separated'
  <2>1. FlagsAgree'
    BY <1>1, <1>4, <1>5, <1>7, FlagsFollow
  <2>2. CountAgrees'
    BY <1>1, <1>4, <1>5, <1>7, CountFollowsPress
  <2>3. Explained'
    <3> SUFFICES ASSUME NEW x \in report' PROVE x \in Down' \cup Codes(dance')
      BY DEF Explained, Codes
    <3>1. CASE x = k
      BY <1>5, <3>1
    <3>2. CASE x # k /\ x \in report
      BY <1>3, <1>4, <1>5, <1>7, <3>2 DEF Explained, Moved
    <3>3. CASE x # k /\ x \notin report
      BY <1>3, <1>4, <3>3 DEF Moved
    <3> QED
      BY <3>1, <3>2, <3>3
  <2>4. Separated'
    <3> SUFFICES ASSUME NEW c \in Channel, NEW i \in {0, 1}, Pair(c, i)'
                 PROVE  switch[c].keycode[1 - i] \in report' /\ switch[c].keycode[i] \notin report'
      BY <1>4 DEF Separated
    <3> DEFINE a == switch[c].keycode[i]
               b == switch[c].keycode[1 - i]
    <3>1. /\ switch[c].enable /\ InOrder(held', a, b)
          /\ \A o \in Channel \ {c} : {a, b} \cap {switch[o].keycode[j] : j \in {0, 1}} = {}
          /\ {a, b} \cap Code = {}
      BY <1>4, PairNext
    <3>2. CASE InOrder(held, a, b)
      <4>1. Pair(c, i)
        BY <3>1, <3>2 DEF Pair, Earlier, InOrder
      <4>2. b \in report /\ a \notin report
        BY <1>7, <4>1 DEF Separated
      <4>3. a \in Down /\ b \in Down /\ {a, b} \cap (Code \cup {NoCode}) = {}
        BY <1>1, <4>1, PairKeys
      <4>4. a # k /\ b # k
        BY <1>4, <4>3
      <4>5. a \notin Opposite(k) /\ b \notin Opposite(k)
        BY <1>1, <4>1, <4>4, OppositeApart
      <4>6. b \in R /\ a \notin R
        BY <1>3, <4>2, <4>3 DEF Moved
      <4> QED
        BY <1>4, <4>4, <4>5, <4>6
    <3>3. CASE a \in Down /\ b = k
      <4>1. 1 - i \in {0, 1} /\ 1 - (1 - i) = i
        BY <1>1, SwitchFields
      <4>2. key_pressed[c][i]
        BY <1>7, <3>1, <3>3 DEF FlagsAgree
      <4>3. a \in Opposite(k)
        <5>1. /\ switch[c].keycode[1 - i] = k /\ key_pressed[c][1 - (1 - i)]
              /\ a = switch[c].keycode[1 - (1 - i)]
          BY <3>3, <4>1, <4>2
        <5> QED
          BY <3>1, <4>1, <5>1, OppositeKeys
      <4> QED
        BY <1>4, <3>3, <4>3
    <3> QED
      BY <1>5, <3>1, <3>2, <3>3
  <2> QED
    BY <2>1, <2>2, <2>3, <2>4
<1> QED
  BY <1>2, <1>4, <1>6, <1>7 DEF Inv

\* The release of a plain key.
LEMMA ReleaseKeeps ==
  ASSUME Inv, NEW k \in Plain, Release(k)
  PROVE  Inv'
<1>1. TypeOK /\ HeldOnce /\ Unregistered(dance)
  BY DEF Inv, Dancing
<1>2. TypeOK'
  BY <1>1, ReleaseType
<1>3. /\ k \in Down /\ held' = Without(k) /\ switch' = switch /\ dance' = dance
      /\ key_pressed' = Flags(k, FALSE) /\ kkuk_process(k, FALSE)
      /\ report' = (report \cup (Opposite(k) \ {No})) \ {k} /\ sent' = report' /\ edited' = edited
  BY DEF Release, Switched, dances
<1>4. /\ Down' = Down \ {k} /\ HeldOnce'
      /\ \A a, b : InOrder(held', a, b) => InOrder(held, a, b) /\ a # k /\ b # k
  BY <1>1, <1>3, HeldRelease
<1>5. Dancing'
  BY <1>1, <1>3, <1>4 DEF Dancing, Unregistered
<1>6. ASSUME FlagsAgree, CountAgrees, Explained, Separated
      PROVE  FlagsAgree' /\ CountAgrees' /\ Explained' /\ Separated'
  <2>1. FlagsAgree'
    BY <1>1, <1>3, <1>4, <1>6, FlagsFollow
  <2>2. CountAgrees'
    BY <1>1, <1>3, <1>4, <1>6, CountFollowsRelease
  <2>3. Explained'
    <3>1. Opposite(k) \subseteq Down
      BY <1>1, <1>6, OppositeHeld
    <3>2. report \subseteq Down \cup Codes(dance)
      BY <1>6 DEF Explained
    <3>3. report' \subseteq Down' \cup Codes(dance)
      BY <1>3, <1>4, <3>1, <3>2
    <3> QED
      BY <1>3, <3>3 DEF Explained, Codes
  <2>4. Separated'
    <3> SUFFICES ASSUME NEW c \in Channel, NEW i \in {0, 1}, Pair(c, i)'
                 PROVE  switch[c].keycode[1 - i] \in report' /\ switch[c].keycode[i] \notin report'
      BY <1>3 DEF Separated
    <3> DEFINE a == switch[c].keycode[i]
               b == switch[c].keycode[1 - i]
    <3>1. /\ switch[c].enable /\ InOrder(held', a, b)
          /\ \A o \in Channel \ {c} : {a, b} \cap {switch[o].keycode[j] : j \in {0, 1}} = {}
          /\ {a, b} \cap Code = {}
      BY <1>3, PairNext
    <3>2. InOrder(held, a, b) /\ a # k /\ b # k
      BY <1>4, <3>1
    <3>3. Pair(c, i)
      BY <3>1, <3>2 DEF Pair, Earlier, InOrder
    <3>4. b \in report /\ a \notin report
      BY <1>6, <3>3 DEF Separated
    <3>5. a \notin Opposite(k)
      BY <1>1, <3>2, <3>3, OppositeApart
    <3> QED
      BY <1>3, <3>2, <3>4, <3>5
  <2> QED
    BY <2>1, <2>2, <2>3, <2>4
<1> QED
  BY <1>2, <1>3, <1>5, <1>6 DEF Inv

\* The press of a dance's key.
LEMMA DancePressKeeps ==
  ASSUME Inv, NEW d \in Dance, DancePress(d)
  PROVE  Inv'
<1> DEFINE n == IF dance[d].count < 4 THEN dance[d].count + 1 ELSE 4
<1>1. TypeOK /\ Unregistered(dance) /\ dance[d] \in DanceState
  BY DEF Inv, Dancing, TypeOK
<1>2. n \in 0 .. 4
  <2>1. dance[d].count \in 0 .. 4
    BY <1>1, StateFields
  <2> QED
    BY <2>1
<1>3. /\ dance' = [Before(d, report).dances EXCEPT ![d].count = n, ![d].pressed = TRUE]
      /\ report' = TapReport(d, n, Before(d, report).report) /\ ~dance[d].pressed
  BY DEF DancePress
<1> HIDE DEF n
<1>4. Moved(dance', report')
  BY <1>1, <1>2, <1>3, PressMoves
<1>5. budget' \in [keys : Nat, taps : Nat, edits : Nat]
  BY <1>1, BudgetKept DEF DancePress
<1>6. /\ sent' = report' /\ active_td' \in Dance \cup {NoCode} /\ term_over' \in BOOLEAN
      /\ disarmed' \subseteq Dance /\ UNCHANGED <<switches, kkuk, action, held, edited>>
  BY <1>1 DEF DancePress, TypeOK
<1>7. TypeOK'
  BY <1>1, <1>4, <1>5, <1>6, DanceType
<1> QED
  BY <1>4, <1>6, <1>7, DanceMoves

\* The release of a dance's key.
LEMMA DanceReleaseKeeps ==
  ASSUME Inv, NEW d \in Dance, DanceRelease(d)
  PROVE  Inv'
<1>1. TypeOK /\ Unregistered(dance)
  BY DEF Inv, Dancing
<1>2. Moved(dance', report')
  BY <1>1, ReleaseMoves DEF DanceRelease
<1>3. budget' \in [keys : Nat, taps : Nat, edits : Nat]
  BY <1>1, BudgetKept DEF DanceRelease
<1>4. /\ sent' = report' /\ active_td' \in Dance \cup {NoCode} /\ term_over' \in BOOLEAN
      /\ disarmed' \subseteq Dance /\ UNCHANGED <<switches, kkuk, action, held, edited>>
  BY <1>1 DEF DanceRelease, ActiveAfterRelease, TypeOK
<1>5. TypeOK'
  BY <1>1, <1>2, <1>3, <1>4, DanceType
<1> QED
  BY <1>2, <1>4, <1>5, DanceMoves

\* The end of a term.
LEMMA TaskKeeps ==
  ASSUME Inv, tap_dance_task
  PROVE  Inv'
<1>1. TypeOK /\ Unregistered(dance) /\ active_td \in Dance
  BY DEF Inv, Dancing, TypeOK, tap_dance_task, TermEnds
<1>2. Moved(dance', report')
  BY <1>1, ActiveEnds DEF tap_dance_task
<1>3. /\ sent' = report' /\ active_td' \in Dance \cup {NoCode} /\ term_over' \in BOOLEAN
      /\ disarmed' \subseteq Dance /\ budget' \in [keys : Nat, taps : Nat, edits : Nat]
      /\ UNCHANGED <<switches, kkuk, action, held, edited>>
  BY <1>1 DEF tap_dance_task, TypeOK
<1>4. TypeOK'
  BY <1>1, <1>2, <1>3, DanceType
<1> QED
  BY <1>2, <1>3, <1>4, DanceMoves

\* KKUK's idle work, and the passing of time.
LEMMA IdleKeeps ==
  ASSUME Inv, KkukPulse \/ KkukQuiet
  PROVE  Inv'
<1>1. TypeOK /\ sent = report
  BY DEF Inv, Dancing
<1>2. /\ KkukIdle /\ UNCHANGED <<switches, dances, report, held, budget, edited, disarmed>>
      /\ sent' = report
  BY <1>1 DEF KkukPulse, KkukQuiet, keys
<1>3. TypeOK'
  BY <1>1, <1>2, IdleType
<1>4. UNCHANGED <<switches, kkuk_on, key_cnt, dance, report, held>> /\ edited' = edited
  BY <1>2 DEF KkukIdle, dances
<1> QED
  BY <1>2, <1>3, <1>4, NothingMoves

LEMMA TimeKeeps ==
  ASSUME Inv, TermPasses \/ KkukTimePasses
  PROVE  Inv'
<1>1. TypeOK /\ sent = report
  BY DEF Inv, Dancing
<1>2. /\ UNCHANGED <<switches, kkuk_on, key_cnt, pre_cnt, is_kkuk_mode>>
      /\ UNCHANGED <<dance, active_td, action, keys, budget, edited, disarmed>>
      /\ term_over' \in {term_over, TRUE}
      /\ delay_over' \in {delay_over, TRUE} /\ repeat_over' \in {repeat_over, TRUE}
  BY DEF TermPasses, KkukTimePasses, kkuk, dances
<1>3. TypeOK'
  BY <1>1, <1>2 DEF TypeOK, switches, keys
<1> QED
  BY <1>1, <1>2, <1>3, NothingMoves DEF keys

\* VIA: with no key held all agrees again whatever the settings are.
LEMMA NoKeyHeld ==
  ASSUME held = <<>>
  PROVE  Down = {} /\ \A a, b : ~Earlier(a, b)
BY DEF Down, Earlier

LEMMA ViaKeeps ==
  ASSUME Inv, ViaSwitch \/ ViaKkuk
  PROVE  Inv'
<1>1. TypeOK /\ Dancing
  BY DEF Inv
<1>2. TypeOK'
  BY <1>1, ViaSwitchType, ViaKkukType
<1>3. /\ UNCHANGED <<key_pressed, key_cnt, dance, report, sent, held>>
      /\ edited' = (edited \/ held # <<>>)
  BY DEF ViaSwitch, ViaKkuk, SetKkuk, switches, kkuk, dances, keys
<1>4. Dancing'
  BY <1>1, <1>3 DEF Dancing, HeldOnce, Unregistered
<1>5. ASSUME ~edited' PROVE FlagsAgree' /\ CountAgrees' /\ Explained' /\ Separated'
  <2>1. ~edited /\ held = <<>> /\ held' = <<>>
    BY <1>1, <1>3, <1>5 DEF TypeOK
  <2>2. Down = {} /\ Down' = {} /\ \A a, b : ~Earlier(a, b)'
    BY <2>1, NoKeyHeld DEF Down, Earlier
  <2>3. \A c \in Channel, i \in {0, 1} : ~key_pressed[c][i]
    BY <2>1, <2>2 DEF Inv, FlagsAgree
  <2>4. FlagsAgree'
    BY <1>3, <2>2, <2>3 DEF FlagsAgree
  <2>5. key_cnt = 0
    <3>1. Counted = {}
      BY <2>2 DEF Counted
    <3>2. key_cnt <= 0
      BY <2>1, <3>1, FS_EmptySet DEF Inv, CountAgrees
    <3> QED
      BY <1>1, <3>2 DEF TypeOK
  <2>6. CountAgrees'
    <3>1. Counted' = {}
      BY <2>2 DEF Counted
    <3> QED
      BY <1>3, <2>5, <3>1, FS_EmptySet DEF CountAgrees
  <2>7. Explained'
    BY <1>3, <2>1, <2>2 DEF Inv, Explained, Codes
  <2>8. Separated'
    BY <2>1 DEF Separated, Pair, Earlier
  <2> QED
    BY <2>4, <2>6, <2>7, <2>8
<1> QED
  BY <1>2, <1>4, <1>5 DEF Inv

LEMMA ViaDanceKeeps ==
  ASSUME Inv, ViaDance
  PROVE  Inv'
<1>1. TypeOK /\ Dancing
  BY DEF Inv
<1>2. TypeOK'
  BY <1>1, ViaDanceType
<1>3. /\ UNCHANGED <<switches, kkuk_on, key_cnt, dance, report, held>>
      /\ sent' = report' /\ edited' = edited
  BY <1>1 DEF ViaDance, kkuk, keys, Dancing
<1> QED
  BY <1>2, <1>3, NothingMoves

LEMMA InitInv == Init => Inv
<1> SUFFICES ASSUME Init PROVE Inv
  OBVIOUS
<1>1. Fresh \in DanceState /\ Fresh.code = NoCode /\ ~Fresh.pressed
  BY FreshState DEF Fresh
<1>2. held = <<>> /\ held \in Seq(Plain) /\ Len(held) = 0 /\ report = {} /\ sent = {}
  BY EmptySeq DEF Init
<1>3. /\ switch \in [Channel -> Switch] /\ action \in [Dance -> Action]
      /\ budget \in [keys : Nat, taps : Nat, edits : Nat]
  BY KeyFeaturesAssumption DEF Init
<1>4. TypeOK
  <2>1. key_pressed \in [Channel -> [{0, 1} -> BOOLEAN]] /\ dance \in [Dance -> DanceState]
    BY <1>1 DEF Init
  <2>2. /\ {kkuk_on, is_kkuk_mode, delay_over, repeat_over, term_over, edited} \subseteq BOOLEAN
    BY Zenon DEF Init
  <2>3. /\ key_cnt \in 0 .. 255 /\ pre_cnt \in 0 .. 255 /\ active_td \in Dance \cup {NoCode}
        /\ disarmed \subseteq Dance
    BY DEF Init
  <2> QED
    BY <1>2, <1>3, <2>1, <2>2, <2>3 DEF TypeOK
<1>5. Down = {} /\ \A a, b : ~Earlier(a, b)
  BY <1>2, NoKeyHeld
<1>6. Dancing
  BY <1>1, <1>2 DEF Init, Dancing, HeldOnce, Unregistered
<1>7. FlagsAgree
  BY <1>5 DEF Init, FlagsAgree
<1>8. CountAgrees
  <2>1. Counted = {}
    BY <1>5 DEF Counted
  <2> QED
    BY <2>1, FS_EmptySet DEF Init, CountAgrees
<1>9. Explained /\ Separated
  BY <1>2, <1>5 DEF Explained, Separated, Pair
<1> QED
  BY <1>4, <1>6, <1>7, <1>8, <1>9 DEF Inv

LEMMA InvNext == Inv /\ [Next]_vars => Inv'
<1> SUFFICES ASSUME Inv, [Next]_vars PROVE Inv'
  OBVIOUS
<1>1. ASSUME NEW k \in Plain, Press(k) PROVE Inv'
  BY <1>1, PressKeeps
<1>2. ASSUME NEW k \in Plain, Release(k) PROVE Inv'
  BY <1>2, ReleaseKeeps
<1>3. ASSUME NEW d \in Dance, DancePress(d) PROVE Inv'
  BY <1>3, DancePressKeeps
<1>4. ASSUME NEW d \in Dance, DanceRelease(d) PROVE Inv'
  BY <1>4, DanceReleaseKeeps
<1>5. CASE tap_dance_task
  BY <1>5, TaskKeeps
<1>6. CASE KkukPulse \/ KkukQuiet
  BY <1>6, IdleKeeps
<1>7. CASE ViaSwitch \/ ViaKkuk
  BY <1>7, ViaKeeps
<1>8. CASE ViaDance
  BY <1>8, ViaDanceKeeps
<1>9. CASE TermPasses \/ KkukTimePasses
  BY <1>9, TimeKeeps
<1>10. CASE UNCHANGED vars
  <2>1. /\ UNCHANGED <<switches, kkuk, dances, keys, budget, edited, disarmed>>
    BY <1>10 DEF vars
  <2>2. TypeOK /\ sent = report
    BY DEF Inv, Dancing
  <2>3. TypeOK'
    BY <2>1, <2>2 DEF TypeOK, switches, kkuk, dances, keys
  <2> QED
    BY <2>1, <2>2, <2>3, NothingMoves DEF kkuk, dances, keys
<1> QED
  BY <1>1, <1>2, <1>3, <1>4, <1>5, <1>6, <1>7, <1>8, <1>9, <1>10 DEF Next

-----------------------------------------------------------------------------
(* The theorems *)

THEOREM InvHolds == Spec => []Inv
<1>1. Init => Inv
  BY InitInv
<1>2. Inv /\ [Next]_vars => Inv'
  BY InvNext
<1> QED
  BY <1>1, <1>2, PTL DEF Spec

\* Every variable holds a value of its C type: the count of KKUK stays a byte, and a
\* dance remembers a keycode of VIA's table.
THEOREM TypeCorrect == Spec => []TypeOK
<1>1. Inv => TypeOK
  BY DEF Inv
<1> QED
  BY <1>1, InvHolds, PTL

\* The host never sees a key that is neither held nor sent by a held dance, unless a
\* setting of the kill switch or of KKUK has changed under a held key.
THEOREM NoGhosts == Spec => []NoGhostKey
<1>1. Inv => NoGhostKey
  BY DEF Inv, Dancing, Explained, NoGhostKey, Codes, DanceCodes
<1> QED
  BY <1>1, InvHolds, PTL

\* Of two held keys of one channel the host sees the one pressed last.
THEOREM LastPressed == Spec => []LastWins
<1>1. Inv => LastWins
  <2> SUFFICES ASSUME Inv, ~edited, NEW c \in Channel, NEW i \in {0, 1}, Pair(c, i)
               PROVE  switch[c].keycode[1 - i] \in sent /\ switch[c].keycode[i] \notin sent
    BY DEF LastWins, Pair
  <2> QED
    BY DEF Inv, Dancing, Separated
<1> QED
  BY <1>1, InvHolds, PTL

\* KKUK repeats the report only while a key that counts is held.
THEOREM RepeatsHeld == Spec => RepeatsHeldKeys
<1>1. Inv /\ [Next]_vars
        => [KkukPulse => edited \/ \E k \in Down : ~kill_switch_is_use(k)]_vars
  <2> SUFFICES ASSUME Inv, KkukPulse, ~edited
               PROVE  \E k \in Down : ~kill_switch_is_use(k)
    OBVIOUS
  <2>1. key_cnt >= 1 /\ key_cnt \in Nat
    BY DEF KkukPulse, Pulses, Inv, TypeOK
  <2>2. key_cnt <= Cardinality(Counted)
    BY DEF Inv, CountAgrees
  <2>3. Counted # {}
    BY <2>1, <2>2, FS_EmptySet
  <2> QED
    BY <2>3 DEF Counted
<1> QED
  BY <1>1, InvHolds, PTL DEF Spec, RepeatsHeldKeys

=============================================================================
