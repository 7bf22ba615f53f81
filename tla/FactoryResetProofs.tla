------------------------- MODULE FactoryResetProofs -------------------------
(***************************************************************************)
(* Theorems about FactoryReset, for every number of attempts, of power     *)
(* cuts and of settings the user saves, whether transfers fail or not.     *)
(*                                                                         *)
(* The argument follows a write on its way: from the list of writes that   *)
(* is left of a routine (todo) through the mirror and the queue to the     *)
(* chip.  What a cell holds after the first n entries of such a list       *)
(* (Reach) is kept when the head of the list is carried out, when a list   *)
(* becomes longer, and when part of a run lands.  So "VIA's magic is       *)
(* written after the keymap", which can be seen in the routine, becomes a  *)
(* fact about the chip.                                                    *)
(***************************************************************************)
EXTENDS FactoryReset, SequenceTheorems, TLAPS

-----------------------------------------------------------------------------
(* Lists of writes *)

Val == {"on", "off", "user", "zero", "def", "magic", "this", "other", "valid", "invalid"}

Op == [op : {"update", "write", "flush"}, cell : Cell, val : Val]
Entry == [cell : Cell, val : Val]

Flushes(e) == "op" \in DOMAIN e /\ e.op = "flush"
Writes(e, c) == e.cell = c /\ ~Flushes(e)
Typed(e) == e.val \in Values[e.cell]

\* The first n entries of s do not write c; the last of them that writes c writes v.
Skips(s, n, c) == \A k \in 1 .. n : ~Writes(s[k], c)
Sets(s, n, c, v) ==
  \E j \in 1 .. n : /\ Writes(s[j], c) /\ s[j].val = v
                    /\ \A k \in j + 1 .. n : ~Writes(s[k], c)

\* c holds v after the first n entries of s, from what base holds.
Reach(base, s, n, c, v) == Sets(s, n, c, v) \/ (Skips(s, n, c) /\ base[c] = v)

\* Where s writes b to a it has set c to v before, not counting on what was there.
Orders(s, a, b, c, v) ==
  \A i \in 1 .. Len(s) : Writes(s[i], a) /\ s[i].val = b => Sets(s, i - 1, c, v)

LEMMA CellSet == Cell = {"magic", "user", "flag", "cookie", "via", "map", "macro"}
BY DEF Cell, Values

LEMMA OpFields ==
  \A o \in Op : /\ o.cell \in Cell /\ o.val \in Val
                /\ \A c \in Cell : Writes(o, c) <=> o.cell = c /\ o.op # "flush"
BY DEF Op, Writes, Flushes

LEMMA EntryFields ==
  \A e \in Entry : /\ e.cell \in Cell /\ e.val \in Val
                   /\ \A c \in Cell : Writes(e, c) <=> e.cell = c
BY DEF Entry, Writes, Flushes

LEMMA MakeOp ==
  \A c \in Cell, v \in Val : /\ Update(c, v) \in Op /\ Write(c, v) \in Op
                             /\ [cell |-> c, val |-> v] \in Entry
BY DEF Op, Entry, Update, Write

LEMMA FlushOp == Flush \in Op /\ \A c \in Cell : ~Writes(Flush, c)
<1>1. Flush \in Op
  BY CellSet DEF Op, Flush, Val
<1> QED
  BY <1>1, OpFields DEF Flush

LEMMA Joined ==
  ASSUME NEW S, NEW s \in Seq(S), NEW t \in Seq(S)
  PROVE  /\ s \o t \in Seq(S) /\ Len(s \o t) = Len(s) + Len(t)
         /\ \A i \in 1 .. Len(s) : (s \o t)[i] = s[i]
         /\ \A i \in Len(s) + 1 .. Len(s) + Len(t) : (s \o t)[i] = t[i - Len(s)]
<1>1. Len(s) \in Nat /\ Len(t) \in Nat
  BY LenProperties
<1> QED
  BY <1>1, ConcatProperties

LEMMA Tailed ==
  ASSUME NEW S, NEW s \in Seq(S), s # <<>>
  PROVE  /\ Head(s) = s[1] /\ Head(s) \in S /\ Tail(s) \in Seq(S)
         /\ Len(s) \in Nat \ {0} /\ Len(Tail(s)) = Len(s) - 1
         /\ \A i \in 1 .. Len(s) - 1 : Tail(s)[i] = s[i + 1]
<1>1. Len(s) \in Nat \ {0}
  BY EmptySeq
<1> QED
  BY <1>1, HeadTailProperties, ElementOfSeq

LEMMA Appended ==
  ASSUME NEW S, NEW s \in Seq(S), NEW e \in S
  PROVE  /\ Append(s, e) \in Seq(S) /\ Len(s) \in Nat /\ Len(Append(s, e)) = Len(s) + 1
         /\ \A i \in 1 .. Len(s) : Append(s, e)[i] = s[i]
         /\ Append(s, e)[Len(s) + 1] = e
<1>1. Len(s) \in Nat
  BY LenProperties
<1> QED
  BY <1>1, AppendProperties

-----------------------------------------------------------------------------
(* Carrying out a list *)

\* The head of the list is carried out.
LEMMA ReachTail ==
  ASSUME NEW S, NEW s \in Seq(S), s # <<>>, NEW n \in 0 .. Len(s) - 1,
         NEW base, NEW next, NEW c, NEW v,
         next[c] = IF Writes(Head(s), c) THEN Head(s).val ELSE base[c],
         Reach(base, s, n + 1, c, v)
  PROVE  Reach(next, Tail(s), n, c, v)
<1>1. /\ Head(s) = s[1] /\ n \in Nat
      /\ \A i \in 1 .. n : Tail(s)[i] = s[i + 1]
  BY Tailed
<1>2. CASE Skips(s, n + 1, c) /\ base[c] = v
  <2>1. ~Writes(s[1], c) /\ \A k \in 1 .. n : ~Writes(s[k + 1], c)
    BY <1>1, <1>2 DEF Skips
  <2>2. Skips(Tail(s), n, c) /\ next[c] = v
    BY <1>1, <1>2, <2>1 DEF Skips
  <2> QED
    BY <2>2 DEF Reach
<1>3. CASE Sets(s, n + 1, c, v)
  <2>1. PICK j \in 1 .. n + 1 : /\ Writes(s[j], c) /\ s[j].val = v
                                /\ \A k \in j + 1 .. n + 1 : ~Writes(s[k], c)
    BY <1>3 DEF Sets
  <2>2. CASE j = 1
    <3>1. \A k \in 1 .. n : ~Writes(s[k + 1], c)
      BY <1>1, <2>1, <2>2
    <3>2. Skips(Tail(s), n, c)
      BY <1>1, <3>1 DEF Skips
    <3> QED
      BY <1>1, <2>1, <2>2, <3>2 DEF Reach
  <2>3. CASE j # 1
    <3>1. j - 1 \in 1 .. n /\ Tail(s)[j - 1] = s[j]
      BY <1>1, <2>3
    <3>2. \A k \in j .. n : Tail(s)[k] = s[k + 1] /\ ~Writes(s[k + 1], c)
      BY <1>1, <2>1
    <3>3. \A k \in (j - 1) + 1 .. n : ~Writes(Tail(s)[k], c)
      BY <1>1, <3>2
    <3> QED
      BY <2>1, <3>1, <3>3 DEF Reach, Sets
  <2> QED
    BY <2>2, <2>3
<1> QED
  BY <1>2, <1>3 DEF Reach

\* A longer list begins as the shorter one.
LEMMA ReachAppend ==
  ASSUME NEW S, NEW s \in Seq(S), NEW e \in S, NEW n \in 0 .. Len(s),
         NEW base, NEW c, NEW v, Reach(base, s, n, c, v)
  PROVE  Reach(base, Append(s, e), n, c, v)
<1>1. n \in Nat /\ \A i \in 1 .. n : Append(s, e)[i] = s[i]
  BY Appended
<1> QED
  BY <1>1 DEF Reach, Sets, Skips

\* After the whole longer list a cell holds what the new entry writes, or what it held.
LEMMA ReachLast ==
  ASSUME NEW S, NEW s \in Seq(S), NEW e \in S, NEW base, NEW c, NEW v,
         IF Writes(e, c) THEN e.val = v ELSE Reach(base, s, Len(s), c, v)
  PROVE  Reach(base, Append(s, e), Len(s) + 1, c, v)
<1>1. /\ Len(s) \in Nat /\ Append(s, e)[Len(s) + 1] = e
      /\ \A i \in 1 .. Len(s) : Append(s, e)[i] = s[i]
  BY Appended
<1>2. CASE Writes(e, c)
  BY <1>1, <1>2 DEF Reach, Sets
<1>3. CASE ~Writes(e, c) /\ Sets(s, Len(s), c, v)
  <2>1. PICK j \in 1 .. Len(s) : /\ Writes(s[j], c) /\ s[j].val = v
                                 /\ \A k \in j + 1 .. Len(s) : ~Writes(s[k], c)
    BY <1>3 DEF Sets
  <2>2. \A k \in j + 1 .. Len(s) + 1 : ~Writes(Append(s, e)[k], c)
    BY <1>1, <1>3, <2>1
  <2> QED
    BY <1>1, <2>1, <2>2 DEF Reach, Sets
<1>4. CASE ~Writes(e, c) /\ Skips(s, Len(s), c) /\ base[c] = v
  <2>1. \A k \in 1 .. Len(s) + 1 : ~Writes(Append(s, e)[k], c)
    BY <1>1, <1>4 DEF Skips
  <2> QED
    BY <1>4, <2>1 DEF Reach, Skips
<1> QED
  BY <1>2, <1>3, <1>4 DEF Reach

-----------------------------------------------------------------------------
(* The routines, write by write *)

LEMMA ViaItems ==
  /\ eeconfig_init_via \in Seq(Op) /\ Len(eeconfig_init_via) = 4
  /\ eeconfig_init_via[1] = Update("via", "invalid")
  /\ eeconfig_init_via[2] = Update("map", "def")
  /\ eeconfig_init_via[3] = Update("macro", "def")
  /\ eeconfig_init_via[4] = Update("via", "valid")
<1>1. /\ Update("via", "invalid") \in Op /\ Update("map", "def") \in Op
      /\ Update("macro", "def") \in Op /\ Update("via", "valid") \in Op
  BY MakeOp, CellSet DEF Val
<1> QED
  BY <1>1 DEF eeconfig_init_via

LEMMA UserItems ==
  /\ eeconfig_init_user_datablock \in Seq(Op) /\ Len(eeconfig_init_user_datablock) = 6
  /\ eeconfig_init_user_datablock[1] = Update("user", "zero")
  /\ eeconfig_init_user_datablock[2] = Update("flag", "zero")
  /\ eeconfig_init_user_datablock[3] = Update("cookie", "zero")
  /\ eeconfig_init_user_datablock[4] = Update("user", "def")
  /\ eeconfig_init_user_datablock[5] = Update("flag", "magic")
  /\ eeconfig_init_user_datablock[6] = Update("cookie", "this")
<1>1. /\ Update("user", "zero") \in Op /\ Update("flag", "zero") \in Op
      /\ Update("cookie", "zero") \in Op /\ Update("user", "def") \in Op
      /\ Update("flag", "magic") \in Op /\ Update("cookie", "this") \in Op
  BY MakeOp, CellSet DEF Val
<1> QED
  BY <1>1 DEF eeconfig_init_user_datablock

LEMMA InitItems ==
  /\ eeconfig_init \in Seq(Op) /\ Len(eeconfig_init) = 12
  /\ eeconfig_init[1] = Update("magic", "on")
  /\ \A i \in 2 .. 7 : eeconfig_init[i] = eeconfig_init_user_datablock[i - 1]
  /\ eeconfig_init[8] = Update("via", "invalid")
  /\ \A i \in 9 .. 12 : eeconfig_init[i] = eeconfig_init_via[i - 8]
<1> DEFINE a == << Update("magic", "on") >>
           b == eeconfig_init_user_datablock
           c == << Update("via", "invalid") >>
           d == eeconfig_init_via
           ab == a \o b
           abc == ab \o c
           abcd == abc \o d
<1>1. a \in Seq(Op) /\ c \in Seq(Op) /\ Len(a) = 1 /\ Len(c) = 1
  <2>1. Update("magic", "on") \in Op /\ Update("via", "invalid") \in Op
    BY MakeOp, CellSet DEF Val
  <2> QED
    BY <2>1
<1>2. a[1] = Update("magic", "on") /\ c[1] = Update("via", "invalid")
  OBVIOUS
<1>3. b \in Seq(Op) /\ d \in Seq(Op) /\ Len(b) = 6 /\ Len(d) = 4
  BY UserItems, ViaItems
<1>4. eeconfig_init = abcd
  BY DEF eeconfig_init
<1> HIDE DEF a, b, c, d
<1>5. /\ ab \in Seq(Op) /\ Len(ab) = 7 /\ \A i \in 1 .. 1 : ab[i] = a[i]
      /\ \A i \in 2 .. 7 : ab[i] = b[i - 1]
  <2>1. a \in Seq(Op) /\ b \in Seq(Op)
    BY <1>1, <1>3
  <2>2. /\ ab \in Seq(Op) /\ Len(ab) = Len(a) + Len(b)
        /\ \A i \in 1 .. Len(a) : ab[i] = a[i]
        /\ \A i \in Len(a) + 1 .. Len(a) + Len(b) : ab[i] = b[i - Len(a)]
    BY <2>1, Joined, Zenon
  <2> HIDE DEF ab
  <2> QED
    BY <1>1, <1>3, <2>2
<1> HIDE DEF ab
<1>6. /\ abc \in Seq(Op) /\ Len(abc) = 8 /\ \A i \in 1 .. 7 : abc[i] = ab[i]
      /\ \A i \in 8 .. 8 : abc[i] = c[i - 7]
  <2>1. ab \in Seq(Op) /\ c \in Seq(Op)
    BY <1>1, <1>5
  <2>2. /\ abc \in Seq(Op) /\ Len(abc) = Len(ab) + Len(c)
        /\ \A i \in 1 .. Len(ab) : abc[i] = ab[i]
        /\ \A i \in Len(ab) + 1 .. Len(ab) + Len(c) : abc[i] = c[i - Len(ab)]
    BY <2>1, Joined, Zenon
  <2> HIDE DEF abc
  <2> QED
    BY <1>1, <1>5, <2>2
<1> HIDE DEF abc
<1>7. /\ abcd \in Seq(Op) /\ Len(abcd) = 12 /\ \A i \in 1 .. 8 : abcd[i] = abc[i]
      /\ \A i \in 9 .. 12 : abcd[i] = d[i - 8]
  <2>1. abc \in Seq(Op) /\ d \in Seq(Op)
    BY <1>3, <1>6
  <2>2. /\ abcd \in Seq(Op) /\ Len(abcd) = Len(abc) + Len(d)
        /\ \A i \in 1 .. Len(abc) : abcd[i] = abc[i]
        /\ \A i \in Len(abc) + 1 .. Len(abc) + Len(d) : abcd[i] = d[i - Len(abc)]
    BY <2>1, Joined, Zenon
  <2> HIDE DEF abcd
  <2> QED
    BY <1>3, <1>6, <2>2
<1> HIDE DEF abcd
<1>8. abcd[1] = a[1] /\ abcd[8] = c[1]
  BY <1>5, <1>6, <1>7
<1>9. \A i \in 2 .. 7 : abcd[i] = b[i - 1]
  <2> TAKE i \in 2 .. 7
  <2> QED
    BY <1>5, <1>6, <1>7
<1> QED
  BY <1>2, <1>4, <1>7, <1>8, <1>9 DEF b, d

LEMMA ApplyItems ==
  /\ eeprom_apply_factory_defaults \in Seq(Op) /\ Len(eeprom_apply_factory_defaults) = 25
  /\ eeprom_apply_factory_defaults[1] = Flush
  /\ eeprom_apply_factory_defaults[2] = Update("magic", "off")
  /\ \A i \in 3 .. 14 : eeprom_apply_factory_defaults[i] = eeconfig_init[i - 2]
  /\ \A i \in 15 .. 20 :
       eeprom_apply_factory_defaults[i] = eeconfig_init_user_datablock[i - 14]
  /\ \A i \in {21, 22, 25} : eeprom_apply_factory_defaults[i] = Flush
  /\ eeprom_apply_factory_defaults[23] = Write("flag", "magic")
  /\ eeprom_apply_factory_defaults[24] = Write("cookie", "this")
<1> DEFINE a == << Flush, Update("magic", "off") >>
           b == eeconfig_init
           c == eeconfig_init_user_datablock
           d == << Flush, Flush >>
           e == << Write("flag", "magic"), Write("cookie", "this"), Flush >>
           ab == a \o b
           abc == ab \o c
           abcd == abc \o d
           A == abcd \o e
<1>1. /\ a \in Seq(Op) /\ d \in Seq(Op) /\ e \in Seq(Op)
      /\ Len(a) = 2 /\ Len(d) = 2 /\ Len(e) = 3
  <2>1. /\ Update("magic", "off") \in Op /\ Flush \in Op
        /\ Write("flag", "magic") \in Op /\ Write("cookie", "this") \in Op
    BY MakeOp, FlushOp, CellSet DEF Val
  <2> QED
    BY <2>1
<1>2. /\ a[1] = Flush /\ a[2] = Update("magic", "off") /\ d[1] = Flush /\ d[2] = Flush
      /\ e[1] = Write("flag", "magic") /\ e[2] = Write("cookie", "this") /\ e[3] = Flush
  OBVIOUS
<1>3. b \in Seq(Op) /\ c \in Seq(Op) /\ Len(b) = 12 /\ Len(c) = 6
  BY InitItems, UserItems
<1>4. eeprom_apply_factory_defaults = A
  BY DEF eeprom_apply_factory_defaults
<1> HIDE DEF a, b, c, d, e
<1>5. /\ ab \in Seq(Op) /\ Len(ab) = 14 /\ \A i \in 1 .. 2 : ab[i] = a[i]
      /\ \A i \in 3 .. 14 : ab[i] = b[i - 2]
  <2>1. a \in Seq(Op) /\ b \in Seq(Op)
    BY <1>1, <1>3
  <2>2. /\ ab \in Seq(Op) /\ Len(ab) = Len(a) + Len(b)
        /\ \A i \in 1 .. Len(a) : ab[i] = a[i]
        /\ \A i \in Len(a) + 1 .. Len(a) + Len(b) : ab[i] = b[i - Len(a)]
    BY <2>1, Joined, Zenon
  <2> HIDE DEF ab
  <2> QED
    BY <1>1, <1>3, <2>2
<1> HIDE DEF ab
<1>6. /\ abc \in Seq(Op) /\ Len(abc) = 20 /\ \A i \in 1 .. 14 : abc[i] = ab[i]
      /\ \A i \in 15 .. 20 : abc[i] = c[i - 14]
  <2>1. ab \in Seq(Op) /\ c \in Seq(Op)
    BY <1>3, <1>5
  <2>2. /\ abc \in Seq(Op) /\ Len(abc) = Len(ab) + Len(c)
        /\ \A i \in 1 .. Len(ab) : abc[i] = ab[i]
        /\ \A i \in Len(ab) + 1 .. Len(ab) + Len(c) : abc[i] = c[i - Len(ab)]
    BY <2>1, Joined, Zenon
  <2> HIDE DEF abc
  <2> QED
    BY <1>3, <1>5, <2>2
<1> HIDE DEF abc
<1>7. /\ abcd \in Seq(Op) /\ Len(abcd) = 22 /\ \A i \in 1 .. 20 : abcd[i] = abc[i]
      /\ \A i \in 21 .. 22 : abcd[i] = d[i - 20]
  <2>1. abc \in Seq(Op) /\ d \in Seq(Op)
    BY <1>1, <1>6
  <2>2. /\ abcd \in Seq(Op) /\ Len(abcd) = Len(abc) + Len(d)
        /\ \A i \in 1 .. Len(abc) : abcd[i] = abc[i]
        /\ \A i \in Len(abc) + 1 .. Len(abc) + Len(d) : abcd[i] = d[i - Len(abc)]
    BY <2>1, Joined, Zenon
  <2> HIDE DEF abcd
  <2> QED
    BY <1>1, <1>6, <2>2
<1> HIDE DEF abcd
<1>8. /\ A \in Seq(Op) /\ Len(A) = 25 /\ \A i \in 1 .. 22 : A[i] = abcd[i]
      /\ \A i \in 23 .. 25 : A[i] = e[i - 22]
  <2>1. abcd \in Seq(Op) /\ e \in Seq(Op)
    BY <1>1, <1>7
  <2>2. /\ A \in Seq(Op) /\ Len(A) = Len(abcd) + Len(e)
        /\ \A i \in 1 .. Len(abcd) : A[i] = abcd[i]
        /\ \A i \in Len(abcd) + 1 .. Len(abcd) + Len(e) : A[i] = e[i - Len(abcd)]
    BY <2>1, Joined, Zenon
  <2> HIDE DEF A
  <2> QED
    BY <1>1, <1>7, <2>2
<1> HIDE DEF A
<1>9. A[1] = a[1] /\ A[2] = a[2]
  BY <1>5, <1>6, <1>7, <1>8
<1>10. \A i \in 3 .. 14 : A[i] = b[i - 2]
  <2> TAKE i \in 3 .. 14
  <2>1. i \in 1 .. 14 /\ i \in 1 .. 20 /\ i \in 1 .. 22
    OBVIOUS
  <2>2. A[i] = abcd[i] /\ abcd[i] = abc[i]
    BY <1>7, <1>8, <2>1
  <2>3. abc[i] = ab[i] /\ ab[i] = b[i - 2]
    BY <1>5, <1>6, <2>1
  <2> QED
    BY <2>2, <2>3
<1>11. \A i \in 15 .. 20 : A[i] = c[i - 14]
  <2> TAKE i \in 15 .. 20
  <2>1. i \in 1 .. 20 /\ i \in 1 .. 22
    OBVIOUS
  <2>2. A[i] = abcd[i] /\ abcd[i] = abc[i]
    BY <1>7, <1>8, <2>1
  <2>3. abc[i] = c[i - 14]
    BY <1>6
  <2> QED
    BY <2>2, <2>3
<1>12. A[21] = d[1] /\ A[22] = d[2] /\ A[23] = e[1] /\ A[24] = e[2] /\ A[25] = e[3]
  BY <1>7, <1>8
<1> QED
  BY <1>2, <1>4, <1>8, <1>9, <1>10, <1>11, <1>12 DEF b, c

LEMMA OpWrites ==
  \A c \in Cell, v \in Val :
    /\ Update(c, v).val = v /\ Write(c, v).val = v
    /\ Update(c, v).op # "flush" /\ Write(c, v).op # "flush"
    /\ \A d \in Cell : (Writes(Update(c, v), d) <=> c = d) /\ (Writes(Write(c, v), d) <=> c = d)
BY MakeOp, OpFields DEF Update, Write

LEMMA InitTable ==
  /\ eeconfig_init[1] = Update("magic", "on") /\ eeconfig_init[2] = Update("user", "zero")
  /\ eeconfig_init[3] = Update("flag", "zero") /\ eeconfig_init[4] = Update("cookie", "zero")
  /\ eeconfig_init[5] = Update("user", "def") /\ eeconfig_init[6] = Update("flag", "magic")
  /\ eeconfig_init[7] = Update("cookie", "this") /\ eeconfig_init[8] = Update("via", "invalid")
  /\ eeconfig_init[9] = Update("via", "invalid") /\ eeconfig_init[10] = Update("map", "def")
  /\ eeconfig_init[11] = Update("macro", "def") /\ eeconfig_init[12] = Update("via", "valid")
BY InitItems, UserItems, ViaItems

LEMMA ApplyTable ==
  LET A == eeprom_apply_factory_defaults IN
  /\ A[1] = Flush /\ A[2] = Update("magic", "off")
  /\ A[3] = Update("magic", "on") /\ A[4] = Update("user", "zero")
  /\ A[5] = Update("flag", "zero") /\ A[6] = Update("cookie", "zero")
  /\ A[7] = Update("user", "def") /\ A[8] = Update("flag", "magic")
  /\ A[9] = Update("cookie", "this") /\ A[10] = Update("via", "invalid")
  /\ A[11] = Update("via", "invalid") /\ A[12] = Update("map", "def")
  /\ A[13] = Update("macro", "def") /\ A[14] = Update("via", "valid")
  /\ A[15] = Update("user", "zero") /\ A[16] = Update("flag", "zero")
  /\ A[17] = Update("cookie", "zero") /\ A[18] = Update("user", "def")
  /\ A[19] = Update("flag", "magic") /\ A[20] = Update("cookie", "this")
  /\ A[21] = Flush /\ A[22] = Flush
  /\ A[23] = Write("flag", "magic") /\ A[24] = Write("cookie", "this")
  /\ A[25] = Flush
<1> DEFINE A == eeprom_apply_factory_defaults
           I == eeconfig_init
           U == eeconfig_init_user_datablock
<1>1. /\ A[3] = I[1] /\ A[4] = I[2] /\ A[5] = I[3] /\ A[6] = I[4] /\ A[7] = I[5] /\ A[8] = I[6]
      /\ A[9] = I[7] /\ A[10] = I[8] /\ A[11] = I[9] /\ A[12] = I[10] /\ A[13] = I[11]
      /\ A[14] = I[12]
  BY ApplyItems
<1>2. /\ A[15] = U[1] /\ A[16] = U[2] /\ A[17] = U[3] /\ A[18] = U[4] /\ A[19] = U[5]
      /\ A[20] = U[6]
  BY ApplyItems
<1>3. /\ A[1] = Flush /\ A[2] = Update("magic", "off") /\ A[21] = Flush /\ A[22] = Flush
      /\ A[23] = Write("flag", "magic") /\ A[24] = Write("cookie", "this") /\ A[25] = Flush
  BY ApplyItems
<1> HIDE DEF A, I, U
<1>4. /\ I[1] = Update("magic", "on") /\ I[2] = Update("user", "zero")
      /\ I[3] = Update("flag", "zero") /\ I[4] = Update("cookie", "zero")
      /\ I[5] = Update("user", "def") /\ I[6] = Update("flag", "magic")
      /\ I[7] = Update("cookie", "this") /\ I[8] = Update("via", "invalid")
      /\ I[9] = Update("via", "invalid") /\ I[10] = Update("map", "def")
      /\ I[11] = Update("macro", "def") /\ I[12] = Update("via", "valid")
  BY InitTable DEF I
<1>5. /\ U[1] = Update("user", "zero") /\ U[2] = Update("flag", "zero")
      /\ U[3] = Update("cookie", "zero") /\ U[4] = Update("user", "def")
      /\ U[5] = Update("flag", "magic") /\ U[6] = Update("cookie", "this")
  BY UserItems DEF U
<1> QED
  BY <1>1, <1>2, <1>3, <1>4, <1>5 DEF A

\* eeconfig_init_via writes nothing but VIA's cells, and its magic last.
LEMMA ViaRoutine ==
  LET V == eeconfig_init_via IN
  /\ V \in Seq(Op) /\ Len(V) = 4
  /\ \A i \in 1 .. 4 : Typed(V[i]) /\ V[i].op # "flush"
  /\ \A c \in {"magic", "user", "flag", "cookie"} : Skips(V, 4, c)
  /\ \A c \in {"map", "macro"} : Orders(V, "via", "valid", c, "def")
<1> DEFINE V == eeconfig_init_via
<1>1. \A i \in 1 .. 4 : i = 1 \/ i = 2 \/ i = 3 \/ i = 4
  OBVIOUS
<1>2. \A i \in 1 .. 4 : Typed(V[i]) /\ V[i].op # "flush"
  BY <1>1, ViaItems DEF Typed, Update, Values
<1>3. \A c \in {"magic", "user", "flag", "cookie"} : Skips(V, 4, c)
  BY <1>1, ViaItems, OpWrites, CellSet DEF Skips, Val
<1>4. ASSUME NEW c \in {"map", "macro"} PROVE Orders(V, "via", "valid", c, "def")
  <2>1. Sets(V, 3, c, "def")
    <3>1. CASE c = "map"
      BY <3>1, ViaItems, OpWrites, CellSet DEF Sets, Val
    <3>2. CASE c = "macro"
      BY <3>2, ViaItems, OpWrites, CellSet DEF Sets, Val
    <3> QED
      BY <3>1, <3>2
  <2>2. \A i \in 1 .. 4 : Writes(V[i], "via") /\ V[i].val = "valid" => i = 4
    BY <1>1, ViaItems, OpWrites, CellSet DEF Val
  <2> QED
    BY <2>1, <2>2, ViaItems DEF Orders
<1> QED
  BY <1>2, <1>3, <1>4, ViaItems

\* eeconfig_init does the same after it has put the sentinel into the user block.
LEMMA InitRoutine ==
  LET I == eeconfig_init IN
  /\ I \in Seq(Op) /\ Len(I) = 12
  /\ \A i \in 1 .. 12 : Typed(I[i]) /\ I[i].op # "flush"
  /\ Sets(I, 12, "flag", "magic") /\ Sets(I, 12, "cookie", "this")
  /\ \A c \in {"map", "macro"} : Orders(I, "via", "valid", c, "def")
<1> DEFINE I == eeconfig_init
<1>1. \A i \in 1 .. 12 : \/ i = 1 \/ i = 2 \/ i = 3 \/ i = 4 \/ i = 5 \/ i = 6
                         \/ i = 7 \/ i = 8 \/ i = 9 \/ i = 10 \/ i = 11 \/ i = 12
  OBVIOUS
<1>2. \A i \in 1 .. 12 : Typed(I[i]) /\ I[i].op # "flush"
  BY <1>1, InitTable DEF Typed, Update, Values
<1>3. Sets(I, 12, "flag", "magic")
  <2>1. \A k \in 7 .. 12 : k = 7 \/ k = 8 \/ k = 9 \/ k = 10 \/ k = 11 \/ k = 12
    OBVIOUS
  <2>2. \A k \in 7 .. 12 : ~Writes(I[k], "flag")
    BY <2>1, InitTable, OpWrites, CellSet DEF Val
  <2>3. Writes(I[6], "flag") /\ I[6].val = "magic"
    BY InitTable, OpWrites, CellSet DEF Val
  <2> QED
    BY <2>2, <2>3 DEF Sets
<1>4. Sets(I, 12, "cookie", "this")
  <2>1. \A k \in 8 .. 12 : k = 8 \/ k = 9 \/ k = 10 \/ k = 11 \/ k = 12
    OBVIOUS
  <2>2. \A k \in 8 .. 12 : ~Writes(I[k], "cookie")
    BY <2>1, InitTable, OpWrites, CellSet DEF Val
  <2>3. Writes(I[7], "cookie") /\ I[7].val = "this"
    BY InitTable, OpWrites, CellSet DEF Val
  <2> QED
    BY <2>2, <2>3 DEF Sets
<1>5. ASSUME NEW c \in {"map", "macro"} PROVE Orders(I, "via", "valid", c, "def")
  <2>1. Sets(I, 11, c, "def")
    <3>1. /\ Writes(I[10], "map") /\ I[10].val = "def" /\ ~Writes(I[11], "map")
          /\ Writes(I[11], "macro") /\ I[11].val = "def"
      BY InitTable, OpWrites, CellSet DEF Val
    <3> QED
      BY <3>1 DEF Sets
  <2>2. \A i \in 1 .. 12 : Writes(I[i], "via") /\ I[i].val = "valid" => i = 12
    BY <1>1, InitTable, OpWrites, CellSet DEF Val
  <2> QED
    BY <2>1, <2>2, InitItems DEF Orders
<1> QED
  BY <1>2, <1>3, <1>4, <1>5, InitItems

\* The last of its 25 steps waits for the chip; each cell is left at its default; the
\* first thing written is QMK's magic, and it is back before the flag is.
LEMMA ApplyRoutine ==
  LET A == eeprom_apply_factory_defaults IN
  /\ A \in Seq(Op) /\ Len(A) = 25 /\ A[25] = Flush
  /\ \A i \in 1 .. 25 : Typed(A[i])
  /\ \A c \in {"user", "map", "macro"} : Sets(A, 25, c, "def")
  /\ Sets(A, 25, "magic", "on") /\ Sets(A, 25, "flag", "magic")
  /\ Sets(A, 25, "cookie", "this") /\ Sets(A, 25, "via", "valid")
  /\ \A c \in {"map", "macro"} : Orders(A, "via", "valid", c, "def")
  /\ Orders(A, "flag", "magic", "magic", "on")
  /\ \A i \in 1 .. 25 : Writes(A[i], "magic") /\ A[i].val = "off" => Skips(A, i - 1, "flag")
<1> DEFINE A == eeprom_apply_factory_defaults
<1>0. Len(A) = 25
  BY ApplyItems
<1>1. \A i \in 1 .. 25 : \/ i = 1 \/ i = 2 \/ i = 3 \/ i = 4 \/ i = 5 \/ i = 6 \/ i = 7
                         \/ i = 8 \/ i = 9 \/ i = 10 \/ i = 11 \/ i = 12 \/ i = 13
                         \/ i = 14 \/ i = 15 \/ i = 16 \/ i = 17 \/ i = 18 \/ i = 19
                         \/ i = 20 \/ i = 21 \/ i = 22 \/ i = 23 \/ i = 24 \/ i = 25
  OBVIOUS
<1>2. \A i \in 1 .. 25 : Typed(A[i])
  BY <1>1, ApplyTable DEF Typed, Update, Write, Flush, Values
<1> USE CellSet DEF Val
<1>3. /\ Writes(A[18], "user") /\ A[18].val = "def" /\ Writes(A[12], "map") /\ A[12].val = "def"
      /\ Writes(A[13], "macro") /\ A[13].val = "def" /\ Writes(A[3], "magic") /\ A[3].val = "on"
      /\ Writes(A[23], "flag") /\ A[23].val = "magic" /\ Writes(A[24], "cookie")
      /\ A[24].val = "this" /\ Writes(A[14], "via") /\ A[14].val = "valid"
  BY ApplyTable, OpWrites
<1>4. /\ \A k \in 19 .. 25 : ~Writes(A[k], "user")
      /\ \A k \in 13 .. 25 : ~Writes(A[k], "map")
      /\ \A k \in 14 .. 25 : ~Writes(A[k], "macro")
      /\ \A k \in 4 .. 25 : ~Writes(A[k], "magic")
      /\ \A k \in 24 .. 25 : ~Writes(A[k], "flag")
      /\ \A k \in 25 .. 25 : ~Writes(A[k], "cookie")
      /\ \A k \in 15 .. 25 : ~Writes(A[k], "via")
  <2> SUFFICES ASSUME NEW k \in 1 .. 25
               PROVE  /\ k > 18 => ~Writes(A[k], "user") 
                      /\ k > 12 => ~Writes(A[k], "map")
                      /\ k > 13 => ~Writes(A[k], "macro")
                      /\ k > 3 => ~Writes(A[k], "magic")
                      /\ k > 23 => ~Writes(A[k], "flag")
                      /\ k > 24 => ~Writes(A[k], "cookie")
                      /\ k > 14 => ~Writes(A[k], "via")
    OBVIOUS
  <2> QED
    BY <1>1, ApplyTable, OpWrites, FlushOp, SMTT(30)
<1>5. /\ \A c \in {"user", "map", "macro"} : Sets(A, 25, c, "def")
      /\ Sets(A, 25, "magic", "on") /\ Sets(A, 25, "flag", "magic")
      /\ Sets(A, 25, "cookie", "this") /\ Sets(A, 25, "via", "valid")
  BY <1>3, <1>4 DEF Sets
<1>6. ASSUME NEW c \in {"map", "macro"} PROVE Orders(A, "via", "valid", c, "def")
  <2>1. Sets(A, 13, c, "def")
    <3>1. ~Writes(A[13], "map")
      BY <1>4
    <3> QED
      BY <1>3, <3>1 DEF Sets
  <2>2. \A i \in 1 .. 25 : Writes(A[i], "via") /\ A[i].val = "valid" => i = 14
    BY <1>1, ApplyTable, OpWrites, FlushOp, SMTT(30)
  <2> QED
    BY <2>1, <2>2, <1>0 DEF Orders
<1>7. Orders(A, "flag", "magic", "magic", "on")
  <2>1. \A i \in 1 .. 25 : Writes(A[i], "flag") /\ A[i].val = "magic" => i > 3
    BY ApplyTable, OpWrites, FlushOp
  <2>2. \A i \in 4 .. 25 : Sets(A, i - 1, "magic", "on")
    BY <1>3, <1>4 DEF Sets
  <2> QED
    BY <2>1, <2>2, <1>0 DEF Orders
<1>8. ASSUME NEW i \in 1 .. 25, Writes(A[i], "magic"), A[i].val = "off"
      PROVE  Skips(A, i - 1, "flag")
  <2>1. A[3].val = "on"
    BY <1>3
  <2>2. i <= 2
    BY <1>4, <1>8, <2>1
  <2> QED
    BY <2>2, ApplyTable, FlushOp DEF Skips
<1> QED
  BY <1>2, <1>5, <1>6, <1>7, <1>8, ApplyItems, ApplyTable

-----------------------------------------------------------------------------
(* The inductive invariant *)

\* The queue will leave on the chip what the mirror holds.
Mirrors(c) == Reach(chip, q, Len(q), c, buf[c])

\* The routine will leave v in the mirror.
WillBe(c, v) == Reach(buf, todo, Len(todo), c, v)

\* The routine does not touch c, and nothing on its way to the chip does.
Untouched(c) == Skips(q, Len(q), c) /\ Skips(todo, Len(todo), c)

\* When the routine comes to write b to a, the mirror holds v in c.
Scheduled(a, b, c, v) ==
  \A i \in 1 .. Len(todo) : Writes(todo[i], a) /\ todo[i].val = b => Reach(buf, todo, i - 1, c, v)

\* A part of a run has been sent: the write of c in it is on the chip before its turn.
Early(i, a, c) ==
  /\ Page[c] = Page[a] /\ Skips(q, i - 1, c)
  /\ \E k \in i + 1 .. Len(q) : Writes(q[k], c) /\ q[k].val = chip[c]

\* When the queue comes to write b to a, the chip holds v in c, or more.
Queued(a, b, c, v) ==
  \A i \in 1 .. Len(q) :
    Writes(q[i], a) /\ q[i].val = b => Reach(chip, q, i - 1, c, v) \/ Early(i, a, c)

Ordered(a, b, c, v) == Scheduled(a, b, c, v) /\ Queued(a, b, c, v)

Typing ==
  /\ chip \in [Cell -> Val] /\ buf \in [Cell -> Val]
  /\ \A c \in Cell : chip[c] \in Values[c] /\ buf[c] \in Values[c]
  /\ q \in Seq(Entry) /\ todo \in Seq(Op)
  /\ \A i \in 1 .. Len(q) : Typed(q[i])
  /\ \A i \in 1 .. Len(todo) : Typed(todo[i]) /\ (pc # "apply" => todo[i].op # "flush")
  /\ Len(todo) <= 25
  /\ pc \in {"check", "apply", "start", "run", "clear", "halt"}
  /\ attempt \in 0 .. Attempts /\ cuts \in 0 .. MaxCuts
  /\ pc \in {"check", "apply"} => attempt < Attempts
  /\ resetDue \in BOOLEAN /\ asked \in SUBSET {"firmware", "via", "here"} /\ owed \in BOOLEAN

\* Where nothing is queued, and where no routine runs.
Resting ==
  /\ pc \in {"check", "start", "halt"} => q = <<>>
  /\ pc \notin {"apply", "run"} => todo = <<>>
  /\ pc = "clear" => "via" \in asked

\* The mirror is ahead of the chip by the queue, but for a sentinel VIA has cleared.
Mirroring ==
  \A c \in Cell :
    (c \in {"flag", "cookie"} /\ "via" \in asked => pc \notin {"run", "clear"}) => Mirrors(c)

\* VIA's magic follows what it vouches for.
Vouching == \A c \in {"map", "macro"} : Ordered("via", "valid", c, "def")

\* What an attempt has left to do brings every cell to its default and waits for the
\* chip; on the way QMK's magic is never off under a flag that vouches.
Applying ==
  pc = "apply" =>
    /\ \A c \in {"user", "map", "macro"} : WillBe(c, "def")
    /\ WillBe("magic", "on") /\ WillBe("flag", "magic") /\ WillBe("cookie", "this")
    /\ WillBe("via", "valid")
    /\ Ordered("flag", "magic", "magic", "on") /\ Ordered("magic", "off", "flag", "zero")
    /\ IF todo = <<>> THEN q = <<>> ELSE todo[Len(todo)] = Flush

\* A chip without QMK's magic has no flag either.
Off == chip.magic = "off" => chip.flag = "zero"

\* Nobody has cleared the EEPROM while running.
NotHere == "here" \notin asked

OffKept == NotHere \/ pc = "apply" => Off

MagicKept ==
  NotHere /\ pc \in {"start", "run", "clear"} => chip.magic = "on" /\ Untouched("magic")

\* As long as nobody asks, the sentinel vouches, and nothing is on its way to it.
SentinelKept ==
  asked = {} => /\ Sentinel(chip) /\ chip.magic = "on" /\ pc \notin {"apply", "clear"}
                /\ Untouched("flag") /\ Untouched("cookie")

\* After a clear while running, the mirror will vouch again.
SentinelComing ==
  asked \subseteq {"here"} /\ pc \in {"start", "run"}
    => WillBe("flag", "magic") /\ WillBe("cookie", "this")

FirmwareFirst == "firmware" \in asked => pc \in {"check", "apply", "halt"}

Unasked == OffKept /\ MagicKept /\ SentinelKept /\ SentinelComing /\ FirmwareFirst

Inv == Typing /\ Resting /\ Mirroring /\ Vouching /\ Applying /\ Unasked

-----------------------------------------------------------------------------
(* What lands *)

\* Part of a run, or nothing.
Lands(S) == S = {} \/ \E n \in 1 .. 3 : Run(n) /\ S \subseteq 1 .. n

LEMMA Places ==
  \A c \in Cell : Page[c] \in 0 .. 3 /\ Place[c] \in 0 .. 2
BY CellSet DEF Page, Place

\* The entries of a run go to different cells, of one page, in the order of addresses.
LEMMA RunFacts ==
  ASSUME Typing, NEW n \in 1 .. 3, Run(n)
  PROVE  /\ n \in 1 .. Len(q) /\ Len(q) \in Nat
         /\ \A i \in 1 .. n : q[i] \in Entry /\ q[i].cell \in Cell
         /\ \A i, j \in 1 .. n : i < j => /\ q[i].cell # q[j].cell
                                         /\ Page[q[i].cell] = Page[q[j].cell]
                                         /\ Place[q[i].cell] < Place[q[j].cell]
<1>1. n \in 1 .. Len(q) /\ Len(q) \in Nat /\ q \in Seq(Entry)
  BY LenProperties DEF Run, Typing
<1>2. \A i \in 1 .. n : q[i] \in Entry /\ q[i].cell \in Cell
  BY <1>1, EntryFields, ElementOfSeq
<1>3. \A i \in 1 .. n : Page[q[i].cell] \in 0 .. 3 /\ Place[q[i].cell] \in 0 .. 2
  BY <1>2, Places
<1>4. \A i \in 1 .. n - 1 : /\ Page[q[i].cell] = Page[q[i + 1].cell]
                            /\ Place[q[i].cell] < Place[q[i + 1].cell]
  BY DEF Run
<1>5. ASSUME NEW i \in 1 .. n, NEW j \in 1 .. n, i < j
      PROVE  Page[q[i].cell] = Page[q[j].cell] /\ Place[q[i].cell] < Place[q[j].cell]
  <2>1. \/ i = 1 /\ j = 2
        \/ i = 2 /\ j = 3
        \/ i = 1 /\ j = 3 /\ n = 3
    BY <1>5
  <2>2. CASE j = i + 1
    BY <1>4, <2>2
  <2>3. CASE i = 1 /\ j = 3 /\ n = 3
    BY <1>3, <1>4, <2>3
  <2> QED
    BY <2>1, <2>2, <2>3
<1>6. \A i, j \in 1 .. n : i < j => q[i].cell # q[j].cell
  BY <1>3, <1>5
<1> QED
  BY <1>1, <1>2, <1>5, <1>6

\* A cell holds what landed in it, or what it held.
LEMMA LandedAt ==
  ASSUME Typing, NEW S, Lands(S)
  PROVE  /\ S \subseteq 1 .. Len(q) /\ S \subseteq 1 .. 3
         /\ \A i \in S : q[i] \in Entry /\ Typed(q[i])
         /\ Landed(S) \in [Cell -> Val]
         /\ \A c \in Cell : \/ \E i \in S : Writes(q[i], c) /\ Landed(S)[c] = q[i].val
                            \/ /\ \A i \in S : ~Writes(q[i], c)
                               /\ Landed(S)[c] = chip[c]
<1>1. S \subseteq 1 .. Len(q) /\ S \subseteq 1 .. 3
  <2>1. CASE S = {}
    BY <2>1
  <2>2. CASE \E n \in 1 .. 3 : Run(n) /\ S \subseteq 1 .. n
    <3>1. PICK n \in 1 .. 3 : Run(n) /\ S \subseteq 1 .. n
      BY <2>2
    <3>2. n \in 1 .. Len(q) /\ Len(q) \in Nat
      BY <3>1, RunFacts
    <3> QED
      BY <3>1, <3>2
  <2> QED
    BY <2>1, <2>2 DEF Lands
<1>2. \A i \in S : q[i] \in Entry /\ Typed(q[i])
  BY <1>1, ElementOfSeq DEF Typing
<1>3. ASSUME NEW c \in Cell
      PROVE  /\ Landed(S)[c] \in Val
             /\ \/ \E i \in S : Writes(q[i], c) /\ Landed(S)[c] = q[i].val
                \/ /\ \A i \in S : ~Writes(q[i], c)
                   /\ Landed(S)[c] = chip[c]
  <2>1. CASE \E i \in S : q[i].cell = c
    <3> DEFINE k == CHOOSE i \in S : q[i].cell = c
    <3>1. k \in S /\ q[k].cell = c
      BY <2>1
    <3>2. Landed(S)[c] = q[k].val
      BY <2>1 DEF Landed
    <3> QED
      BY <1>2, <3>1, <3>2, EntryFields
  <2>2. CASE ~\E i \in S : q[i].cell = c
    <3>1. Landed(S)[c] = chip[c] /\ chip[c] \in Val
      BY <2>2 DEF Landed, Typing
    <3> QED
      BY <1>2, <2>2, <3>1, EntryFields
  <2> QED
    BY <2>1, <2>2
<1>4. Landed(S) \in [Cell -> Val]
  BY <1>3 DEF Landed
<1> QED
  BY <1>1, <1>2, <1>3, <1>4

\* What the whole queue will leave stays, whatever part of it has landed.
LEMMA LandedReach ==
  ASSUME Typing, NEW S, Lands(S), NEW c \in Cell, NEW v, Reach(chip, q, Len(q), c, v)
  PROVE  Reach(Landed(S), q, Len(q), c, v)
<1>1. CASE Skips(q, Len(q), c)
  <2>1. Landed(S)[c] = chip[c]
    BY <1>1, LandedAt DEF Skips
  <2>2. ~Sets(q, Len(q), c, v)
    BY <1>1 DEF Skips, Sets
  <2> QED
    BY <1>1, <2>1, <2>2 DEF Reach
<1> QED
  BY <1>1 DEF Reach

\* What is ordered in the queue stays so when a part of a run lands.
LEMMA LandedQueued ==
  ASSUME Typing, NEW S, Lands(S), chip' = Landed(S), q' = q,
         NEW a \in Cell, NEW c \in Cell, a # c, NEW b, NEW v, Queued(a, b, c, v)
  PROVE  Queued(a, b, c, v)'
<1> SUFFICES ASSUME NEW i \in 1 .. Len(q), Writes(q[i], a), q[i].val = b
             PROVE  Reach(chip', q, i - 1, c, v) \/ Early(i, a, c)'
  BY DEF Queued
<1>1. Len(q) \in Nat /\ i \in Nat
  BY LenProperties DEF Typing
<1>2. q[i].cell = a /\ ~Writes(q[i], c)
  BY DEF Writes
<1>3. CASE Sets(q, i - 1, c, v)
  BY <1>3 DEF Reach
<1>4. CASE Skips(q, i - 1, c) /\ \A k \in S : ~Writes(q[k], c)
  <2>1. chip'[c] = chip[c]
    BY <1>4, LandedAt
  <2>2. Reach(chip, q, i - 1, c, v) => Reach(chip', q, i - 1, c, v)
    BY <2>1 DEF Reach
  <2>3. Early(i, a, c) => Early(i, a, c)'
    BY <2>1 DEF Early
  <2> QED
    BY <2>2, <2>3 DEF Queued
<1>5. CASE Skips(q, i - 1, c) /\ \E k \in S : Writes(q[k], c)
  <2>1. PICK k \in S : Writes(q[k], c) /\ chip'[c] = q[k].val
    BY <1>5, LandedAt
  <2>2. k \in 1 .. Len(q) /\ k \in Nat /\ q[k].cell = c
    BY <2>1, LandedAt DEF Writes
  <2>3. k \in i + 1 .. Len(q)
    BY <1>1, <1>2, <1>5, <2>1, <2>2 DEF Skips
  <2>4. Page[c] = Page[a]
    <3>1. PICK n \in 1 .. 3 : Run(n) /\ S \subseteq 1 .. n
      BY <1>5 DEF Lands
    <3>2. k \in 1 .. n /\ i \in 1 .. n /\ i < k
      BY <1>1, <2>1, <2>2, <2>3, <3>1
    <3> QED
      BY <1>2, <2>2, <3>1, <3>2, RunFacts
  <2> QED
    BY <1>5, <2>1, <2>3, <2>4 DEF Early
<1> QED
  BY <1>3, <1>4, <1>5 DEF Queued, Early, Reach

LEMMA Cut ==
  ASSUME NEW S, NEW s \in Seq(S), NEW n \in 1 .. Len(s)
  PROVE  LET t == SubSeq(s, n + 1, Len(s)) IN
         /\ t \in Seq(S) /\ Len(t) = Len(s) - n /\ Len(s) \in Nat
         /\ \A i \in 1 .. Len(s) - n : t[i] = s[i + n]
<1>1. Len(s) \in Nat /\ n \in Nat
  BY LenProperties
<1>2. \A i \in n + 1 .. Len(s) : s[i] \in S
  BY <1>1, ElementOfSeq
<1>3. /\ SubSeq(s, n + 1, Len(s)) \in Seq(S)
      /\ Len(SubSeq(s, n + 1, Len(s))) = Len(s) - n
  <2>1. CASE n = Len(s)
    BY <1>1, <2>1, SubSeqProperties
  <2>2. CASE n < Len(s)
    BY <1>1, <2>2, SubSeqProperties
  <2> QED
    BY <1>1, <2>1, <2>2
<1> QED
  BY <1>1, <1>3, SubSeqProperties

\* What a list leaves in a cell stays when the run at its head is sent.
LEMMA SentReach ==
  ASSUME Typing, NEW n \in 1 .. 3, Run(n), NEW c \in Cell, NEW v,
         NEW m \in n .. Len(q), Reach(chip, q, m, c, v)
  PROVE  Reach(Landed(1 .. n), SubSeq(q, n + 1, Len(q)), m - n, c, v)
<1> DEFINE t == SubSeq(q, n + 1, Len(q))
<1>1. n \in 1 .. Len(q) /\ Len(q) \in Nat /\ m \in Nat
  BY RunFacts
<1>2. \A i \in 1 .. Len(q) - n : t[i] = q[i + n]
  BY <1>1, Cut DEF Typing
<1>3. Lands(1 .. n)
  BY DEF Lands
<1> HIDE DEF t
<1>4. CASE Skips(q, m, c) /\ chip[c] = v
  <2>1. \A i \in 1 .. m - n : ~Writes(t[i], c)
    BY <1>1, <1>2, <1>4 DEF Skips
  <2>2. Landed(1 .. n)[c] = v
    BY <1>1, <1>3, <1>4, LandedAt DEF Skips
  <2> QED
    BY <2>1, <2>2 DEF Reach, Skips, t
<1>5. CASE Sets(q, m, c, v)
  <2>1. PICK j \in 1 .. m : /\ Writes(q[j], c) /\ q[j].val = v
                            /\ \A k \in j + 1 .. m : ~Writes(q[k], c)
    BY <1>5 DEF Sets
  <2>2. CASE j > n
    <3>1. j - n \in 1 .. m - n /\ t[j - n] = q[j]
      BY <1>1, <1>2, <2>2
    <3>2. ASSUME NEW k \in (j - n) + 1 .. m - n PROVE t[k] = q[k + n] /\ ~Writes(q[k + n], c)
      <4>1. k \in 1 .. Len(q) - n /\ k + n \in j + 1 .. m
        BY <1>1, <2>2
      <4> QED
        BY <1>2, <2>1, <4>1
    <3> QED
      BY <2>1, <3>1, <3>2 DEF Reach, Sets, t
  <2>3. CASE j <= n
    <3>1. ASSUME NEW i \in 1 .. m - n PROVE ~Writes(t[i], c)
      <4>1. i \in 1 .. Len(q) - n /\ i + n \in j + 1 .. m
        BY <1>1, <2>3
      <4> QED
        BY <1>2, <2>1, <4>1
    <3>2. PICK i \in 1 .. n : Writes(q[i], c) /\ Landed(1 .. n)[c] = q[i].val
      BY <1>3, <2>1, <2>3, LandedAt
    <3>3. q[i].cell = c /\ q[j].cell = c /\ j \in 1 .. n
      BY <1>1, <2>1, <2>3, <3>2 DEF Writes
    <3>4. i = j
      BY <3>3, RunFacts
    <3> QED
      BY <2>1, <3>1, <3>2, <3>4 DEF Reach, Skips, t
  <2> QED
    BY <1>1, <2>2, <2>3
<1> QED
  BY <1>4, <1>5 DEF Reach

\* The queue stays ordered when the run at its head is sent.
LEMMA SentQueued ==
  ASSUME Typing, NEW n \in 1 .. 3, Run(n), chip' = Landed(1 .. n),
         q' = SubSeq(q, n + 1, Len(q)),
         NEW a \in Cell, NEW c \in Cell, NEW b, NEW v, Queued(a, b, c, v)
  PROVE  Queued(a, b, c, v)'
<1>1. n \in 1 .. Len(q) /\ Len(q) \in Nat
  BY RunFacts
<1>2. Len(q') = Len(q) - n /\ \A i \in 1 .. Len(q) - n : q'[i] = q[i + n]
  BY <1>1, Cut DEF Typing
<1> SUFFICES ASSUME NEW i \in 1 .. Len(q'), Writes(q'[i], a), q'[i].val = b
             PROVE  Reach(chip', q', i - 1, c, v) \/ Early(i, a, c)'
  BY DEF Queued
<1>3. i + n \in 1 .. Len(q) /\ q'[i] = q[i + n] /\ i \in Nat
  BY <1>1, <1>2
<1>4. CASE Reach(chip, q, i + n - 1, c, v)
  <2>1. i + n - 1 \in n .. Len(q) /\ (i + n - 1) - n = i - 1
    BY <1>1, <1>3
  <2> DEFINE m == i + n - 1
  <2>2. Reach(Landed(1 .. n), SubSeq(q, n + 1, Len(q)), m - n, c, v)
    BY <1>4, <2>1, SentReach, Zenon
  <2> QED
    BY <2>1, <2>2
<1>5. CASE Early(i + n, a, c)
  <2>1. PICK k \in i + n + 1 .. Len(q) : Writes(q[k], c) /\ q[k].val = chip[c]
    BY <1>5 DEF Early
  <2>2. k - n \in i + 1 .. Len(q') /\ q'[k - n] = q[k]
    BY <1>1, <1>2, <1>3, <2>1
  <2>3. \A j \in 1 .. i - 1 : q'[j] = q[j + n] /\ ~Writes(q[j + n], c)
    BY <1>1, <1>2, <1>3, <1>5 DEF Early, Skips
  <2>4. ASSUME NEW j \in 1 .. n PROVE ~Writes(q[j], c)
    <3>1. j \in 1 .. (i + n) - 1
      BY <1>1, <1>3
    <3> QED
      BY <1>5, <3>1 DEF Early, Skips
  <2>5. chip'[c] = chip[c]
    BY <2>4, LandedAt DEF Lands
  <2> QED
    BY <1>5, <2>1, <2>2, <2>3, <2>5 DEF Early, Skips
<1> QED
  BY <1>3, <1>4, <1>5 DEF Queued

-----------------------------------------------------------------------------
(* The routine of a boot *)

\* Two routines one after the other keep an order that each of them keeps.
LEMMA JoinOrders ==
  ASSUME NEW s \in Seq(Op), NEW t \in Seq(Op), NEW a, NEW b, NEW c, NEW v,
         Orders(s, a, b, c, v), Orders(t, a, b, c, v)
  PROVE  Orders(s \o t, a, b, c, v)
<1> DEFINE u == s \o t
<1>1. /\ Len(u) = Len(s) + Len(t)
      /\ \A i \in 1 .. Len(s) : u[i] = s[i]
      /\ \A i \in Len(s) + 1 .. Len(s) + Len(t) : u[i] = t[i - Len(s)]
  BY Joined, Zenon
<1>2. Len(s) \in Nat /\ Len(t) \in Nat
  BY LenProperties
<1> HIDE DEF u
<1>3. ASSUME NEW i \in 1 .. Len(u), Writes(u[i], a), u[i].val = b PROVE Sets(u, i - 1, c, v)
  <2>1. CASE i <= Len(s)
    <3>1. i \in 1 .. Len(s) /\ u[i] = s[i]
      BY <1>1, <1>2, <2>1
    <3>2. PICK j \in 1 .. i - 1 : /\ Writes(s[j], c) /\ s[j].val = v
                                  /\ \A k \in j + 1 .. i - 1 : ~Writes(s[k], c)
      BY <1>3, <3>1 DEF Orders, Sets
    <3>3. \A k \in 1 .. i - 1 : u[k] = s[k]
      BY <1>1, <1>2, <3>1
    <3>4. \A k \in j + 1 .. i - 1 : ~Writes(u[k], c)
      BY <3>1, <3>2, <3>3
    <3> QED
      BY <3>2, <3>3, <3>4 DEF Sets
  <2>2. CASE i > Len(s)
    <3> DEFINE l == i - Len(s)
    <3>1. l \in 1 .. Len(t) /\ u[i] = t[l] /\ i = l + Len(s)
      BY <1>1, <1>2, <2>2
    <3> HIDE DEF l
    <3>2. PICK j \in 1 .. l - 1 : /\ Writes(t[j], c) /\ t[j].val = v
                                  /\ \A k \in j + 1 .. l - 1 : ~Writes(t[k], c)
      BY <1>3, <3>1 DEF Orders, Sets
    <3>3. j + Len(s) \in 1 .. i - 1 /\ u[j + Len(s)] = t[j]
      <4>1. /\ j + Len(s) \in 1 .. i - 1 /\ j + Len(s) \in Len(s) + 1 .. Len(s) + Len(t)
            /\ (j + Len(s)) - Len(s) = j
        BY <1>2, <3>1
      <4> QED
        BY <1>1, <4>1
    <3>4. ASSUME NEW k \in (j + Len(s)) + 1 .. i - 1 PROVE ~Writes(u[k], c)
      <4>1. k - Len(s) \in j + 1 .. l - 1 /\ u[k] = t[k - Len(s)]
        BY <1>1, <1>2, <3>1
      <4> QED
        BY <3>2, <4>1
    <3> QED
      BY <3>2, <3>3, <3>4 DEF Sets
  <2> QED
    BY <1>1, <1>2, <2>1, <2>2
<1> QED
  BY <1>3 DEF Orders, u

\* The second of them has the last word.
LEMMA JoinSets ==
  ASSUME NEW s \in Seq(Op), NEW t \in Seq(Op), NEW c, NEW v, Sets(t, Len(t), c, v)
  PROVE  Sets(s \o t, Len(s \o t), c, v)
<1> DEFINE u == s \o t
<1>1. /\ Len(u) = Len(s) + Len(t)
      /\ \A i \in Len(s) + 1 .. Len(s) + Len(t) : u[i] = t[i - Len(s)]
  BY Joined, Zenon
<1>2. Len(s) \in Nat /\ Len(t) \in Nat
  BY LenProperties
<1> HIDE DEF u
<1>3. PICK j \in 1 .. Len(t) : /\ Writes(t[j], c) /\ t[j].val = v
                               /\ \A k \in j + 1 .. Len(t) : ~Writes(t[k], c)
  BY DEF Sets
<1>4. j + Len(s) \in 1 .. Len(u) /\ u[j + Len(s)] = t[j]
  BY <1>1, <1>2
<1>5. ASSUME NEW k \in (j + Len(s)) + 1 .. Len(u) PROVE ~Writes(u[k], c)
  <2>1. k - Len(s) \in j + 1 .. Len(t) /\ u[k] = t[k - Len(s)]
    BY <1>1, <1>2
  <2> QED
    BY <1>3, <2>1
<1> QED
  BY <1>3, <1>4, <1>5 DEF Sets, u

LEMMA JoinSkips ==
  ASSUME NEW s \in Seq(Op), NEW t \in Seq(Op), NEW c,
         Skips(s, Len(s), c), Skips(t, Len(t), c)
  PROVE  Skips(s \o t, Len(s \o t), c)
<1> DEFINE u == s \o t
<1>1. /\ Len(u) = Len(s) + Len(t)
      /\ \A i \in 1 .. Len(s) : u[i] = s[i]
      /\ \A i \in Len(s) + 1 .. Len(s) + Len(t) : u[i] = t[i - Len(s)]
  BY Joined, Zenon
<1>2. Len(s) \in Nat /\ Len(t) \in Nat
  BY LenProperties
<1> HIDE DEF u
<1>3. ASSUME NEW k \in 1 .. Len(u) PROVE ~Writes(u[k], c)
  <2>1. CASE k <= Len(s)
    BY <1>1, <1>2, <2>1 DEF Skips
  <2>2. CASE k > Len(s)
    <3>1. k - Len(s) \in 1 .. Len(t) /\ u[k] = t[k - Len(s)]
      BY <1>1, <1>2, <2>2
    <3> QED
      BY <3>1 DEF Skips
  <2> QED
    BY <1>1, <1>2, <2>1, <2>2
<1> QED
  BY <1>3 DEF Skips, u

\* A boot writes VIA's magic after the keymap and the macros; it writes the sentinel, and
\* QMK's magic, only over a chip that has lost QMK's magic.
LEMMA BootRoutine ==
  ASSUME NEW k
  PROVE  LET K == keyboard_init(k) IN
         /\ K \in Seq(Op) /\ Len(K) <= 16
         /\ \A i \in 1 .. Len(K) : Typed(K[i]) /\ K[i].op # "flush"
         /\ \A c \in {"map", "macro"} : Orders(K, "via", "valid", c, "def")
         /\ k.magic = "on" => \A c \in {"magic", "flag", "cookie"} : Skips(K, Len(K), c)
         /\ k.magic # "on" => /\ Sets(K, Len(K), "flag", "magic")
                              /\ Sets(K, Len(K), "cookie", "this")
<1> DEFINE s == IF k.via = "valid" THEN <<>> ELSE eeconfig_init_via
           t == IF k.magic = "on" THEN <<>> ELSE eeconfig_init
           K == s \o t
<1>1. keyboard_init(k) = K
  BY DEF keyboard_init
<1>2. /\ s \in Seq(Op) /\ Len(s) \in 0 .. 4
      /\ \A i \in 1 .. Len(s) : Typed(s[i]) /\ s[i].op # "flush"
      /\ \A c \in {"map", "macro"} : Orders(s, "via", "valid", c, "def")
      /\ \A c \in {"magic", "flag", "cookie"} : Skips(s, Len(s), c)
  <2>1. CASE k.via = "valid"
    <3>1. s = <<>> /\ Len(s) = 0 /\ s \in Seq(Op)
      BY <2>1
    <3> HIDE DEF s
    <3> QED
      BY <3>1 DEF Orders, Skips
  <2>2. CASE k.via # "valid"
    <3>1. s = eeconfig_init_via
      BY <2>2
    <3> HIDE DEF s
    <3> QED
      BY <3>1, ViaRoutine DEF Skips
  <2> QED
    BY <2>1, <2>2
<1>3. /\ t \in Seq(Op) /\ Len(t) \in 0 .. 12
      /\ \A i \in 1 .. Len(t) : Typed(t[i]) /\ t[i].op # "flush"
      /\ \A c \in {"map", "macro"} : Orders(t, "via", "valid", c, "def")
      /\ k.magic = "on" => \A c \in {"magic", "flag", "cookie"} : Skips(t, Len(t), c)
      /\ k.magic # "on" => /\ Sets(t, Len(t), "flag", "magic")
                           /\ Sets(t, Len(t), "cookie", "this")
  <2>1. CASE k.magic = "on"
    <3>1. t = <<>> /\ Len(t) = 0 /\ t \in Seq(Op)
      BY <2>1
    <3> HIDE DEF t
    <3> QED
      BY <2>1, <3>1 DEF Orders, Skips
  <2>2. CASE k.magic # "on"
    <3>1. t = eeconfig_init
      BY <2>2
    <3> HIDE DEF t
    <3> QED
      BY <2>2, <3>1, InitRoutine
  <2> QED
    BY <2>1, <2>2
<1> HIDE DEF s, t
<1>4. s \in Seq(Op) /\ t \in Seq(Op)
  BY <1>2, <1>3
<1>5. /\ K \in Seq(Op) /\ Len(K) = Len(s) + Len(t)
      /\ \A i \in 1 .. Len(s) : K[i] = s[i]
      /\ \A i \in Len(s) + 1 .. Len(s) + Len(t) : K[i] = t[i - Len(s)]
  BY <1>4, Joined, Zenon
<1>6. \A c \in {"map", "macro"} : Orders(K, "via", "valid", c, "def")
  BY <1>2, <1>3, <1>4, JoinOrders
<1>7. k.magic = "on" => \A c \in {"magic", "flag", "cookie"} : Skips(K, Len(K), c)
  BY <1>2, <1>3, <1>4, JoinSkips
<1>8. k.magic # "on" => /\ Sets(K, Len(K), "flag", "magic")
                        /\ Sets(K, Len(K), "cookie", "this")
  BY <1>3, <1>4, JoinSets
<1> HIDE DEF K
<1>9. ASSUME NEW i \in 1 .. Len(K) PROVE Typed(K[i]) /\ K[i].op # "flush"
  <2>1. CASE i <= Len(s)
    BY <1>2, <1>5, <2>1
  <2>2. CASE i > Len(s)
    <3>1. i - Len(s) \in 1 .. Len(t) /\ K[i] = t[i - Len(s)]
      BY <1>2, <1>3, <1>5, <2>2
    <3> QED
      BY <1>3, <3>1
  <2> QED
    BY <1>2, <1>5, <2>1, <2>2
<1>10. K \in Seq(Op) /\ Len(K) <= 16
  <2>1. Len(s) \in 0 .. 4 /\ Len(t) \in 0 .. 12
    BY <1>2, <1>3, Zenon
  <2>2. Len(K) = Len(s) + Len(t)
    BY <1>5, Zenon
  <2>3. \A x \in 0 .. 4, y \in 0 .. 12 : x + y <= 16
    OBVIOUS
  <2>4. Len(K) <= 16
    BY <2>1, <2>2, <2>3, Zenon
  <2> QED
    BY <1>5, <2>4, Zenon
<1> QED
  BY <1>1, <1>6, <1>7, <1>8, <1>9, <1>10, Zenon

-----------------------------------------------------------------------------
(* The steps keep the types *)

LEMMA InitTyping == Init => Typing
<1> SUFFICES ASSUME Init PROVE Typing
  OBVIOUS
<1>1. q = <<>> /\ todo = <<>> /\ q \in Seq(Entry) /\ todo \in Seq(Op) /\ Len(q) = 0 /\ Len(todo) = 0
  BY DEF Init
<1>2. PICK f \in {<<"on", "magic", "this">>, <<"on", "magic", "other">>, <<"off", "zero", "other">>},
           v \in {"valid", "invalid"} :
           chip = [magic |-> f[1], user |-> "user", flag |-> f[2], cookie |-> f[3],
                   via |-> v, map |-> "user", macro |-> "user"]
  BY DEF Init
<1>3. chip \in [Cell -> Val] /\ \A c \in Cell : chip[c] \in Values[c]
  BY <1>2, CellSet DEF Val, Values
<1>4. /\ pc = "check" /\ attempt = 0 /\ resetDue = FALSE /\ owed = FALSE /\ cuts = 0 /\ buf = chip
      /\ asked \in SUBSET {"firmware", "via", "here"}
  BY DEF Init
<1>5. /\ attempt \in 0 .. Attempts /\ cuts \in 0 .. MaxCuts /\ attempt < Attempts
      /\ resetDue \in BOOLEAN /\ owed \in BOOLEAN
  <2>1. 0 \in 0 .. Attempts /\ 0 \in 0 .. MaxCuts /\ 0 < Attempts
    BY FactoryAssumption
  <2> QED
    BY <1>4, <2>1
<1>6. /\ \A i \in 1 .. Len(q) : Typed(q[i])
      /\ \A i \in 1 .. Len(todo) : Typed(todo[i]) /\ (pc # "apply" => todo[i].op # "flush")
      /\ Len(todo) <= 25
  BY <1>1
<1> QED
  BY <1>1, <1>3, <1>4, <1>5, <1>6 DEF Typing

\* The chip, whatever lands.
LEMMA ChipTyping ==
  ASSUME Typing, NEW S, Lands(S)
  PROVE  Landed(S) \in [Cell -> Val] /\ \A c \in Cell : Landed(S)[c] \in Values[c]
<1>1. ASSUME NEW c \in Cell PROVE Landed(S)[c] \in Values[c]
  <2>1. CASE \E i \in S : Writes(q[i], c) /\ Landed(S)[c] = q[i].val
    BY <2>1, LandedAt DEF Typed, Writes
  <2>2. CASE Landed(S)[c] = chip[c]
    BY <2>2 DEF Typing
  <2> QED
    BY <2>1, <2>2, LandedAt
<1> QED
  BY <1>1, LandedAt

\* A direct write.
LEMMA DirectTyping ==
  ASSUME Typing, NEW c \in {"flag", "cookie"}, NEW ok, NEW landed, Direct(c, ok, landed)
  PROVE  /\ chip' \in [Cell -> Val] /\ \A d \in Cell : chip'[d] \in Values[d]
         /\ \A d \in Cell \ {c} : chip'[d] = chip[d]
         /\ chip'[c] \in {chip[c], "zero"}
<1>1. chip' = chip \/ chip' = [chip EXCEPT ![c] = "zero"]
  BY DEF Direct
<1>2. chip \in [Cell -> Val] /\ c \in Cell /\ \A d \in Cell : chip[d] \in Values[d]
  BY CellSet DEF Typing
<1>3. "zero" \in Val /\ "zero" \in Values[c]
  BY DEF Val, Values
<1> QED
  BY <1>1, <1>2, <1>3

\* The next write of a routine.
LEMMA WriteTyping ==
  ASSUME Typing, NextWrite
  PROVE  LET w == Head(todo)
             e == [cell |-> w.cell, val |-> w.val] IN
         /\ todo # <<>> /\ todo' = Tail(todo)
         /\ w = todo[1] /\ w \in Op /\ w.op # "flush" /\ Typed(w)
         /\ e \in Entry /\ Typed(e) /\ \A c \in Cell : Writes(e, c) <=> Writes(w, c)
         /\ buf' \in [Cell -> Val]
         /\ \A c \in Cell : /\ buf'[c] \in Values[c]
                            /\ buf'[c] = IF Writes(w, c) THEN w.val ELSE buf[c]
         /\ (q' = q /\ buf' = buf) \/ q' = Append(q, e)
<1> DEFINE w == Head(todo)
           e == [cell |-> w.cell, val |-> w.val]
<1>1. todo # <<>> /\ todo' = Tail(todo) /\ w.op # "flush" /\ todo \in Seq(Op)
  BY DEF NextWrite, Typing
<1>2. w = todo[1] /\ w \in Op /\ Len(todo) \in Nat \ {0}
  BY <1>1, Tailed
<1>3. w.cell \in Cell /\ w.val \in Val /\ \A c \in Cell : Writes(w, c) <=> w.cell = c
  BY <1>1, <1>2, OpFields
<1>4. Typed(w)
  BY <1>2 DEF Typing
<1>5. buf' = [buf EXCEPT ![w.cell] = w.val] /\ buf \in [Cell -> Val]
  BY DEF NextWrite, Typing
<1>6. (q' = q /\ buf[w.cell] = w.val) \/ q' = Append(q, e)
  BY DEF NextWrite
<1> HIDE DEF w
<1>7. e \in Entry /\ e.cell = w.cell /\ e.val = w.val
  BY <1>3 DEF Entry
<1>8. Typed(e) /\ \A c \in Cell : Writes(e, c) <=> Writes(w, c)
  BY <1>3, <1>4, <1>7, EntryFields DEF Typed
<1> HIDE DEF e
<1>9. buf' \in [Cell -> Val] /\ \A c \in Cell : buf'[c] = IF Writes(w, c) THEN w.val ELSE buf[c]
  BY <1>3, <1>5
<1>10. \A c \in Cell : buf'[c] \in Values[c]
  BY <1>3, <1>4, <1>9 DEF Typed, Typing
<1>11. (q' = q /\ buf' = buf) \/ q' = Append(q, e)
  BY <1>3, <1>5, <1>6
<1> QED
  BY <1>1, <1>2, <1>4, <1>7, <1>8, <1>9, <1>10, <1>11 DEF w, e

\* The writes of a routine that waits for nothing.
Routine(s) ==
  /\ s \in Seq(Op) /\ Len(s) <= 25
  /\ \A i \in 1 .. Len(s) : Typed(s[i]) /\ s[i].op # "flush"
  /\ \A c \in {"map", "macro"} : Orders(s, "via", "valid", c, "def")

LEMMA EmptyRoutine == Routine(<<>>) /\ Len(<<>>) = 0 /\ <<>> \in Seq(Entry)
BY DEF Routine, Orders

LEMMA OneRoutine ==
  /\ \A c \in {"user", "map", "macro"} :
       /\ Routine(<< Update(c, "user") >>) /\ Len(<< Update(c, "user") >>) = 1
       /\ << Update(c, "user") >>[1] = Update(c, "user")
  /\ Routine(<< Update("magic", "off") >>) /\ Len(<< Update("magic", "off") >>) = 1
  /\ << Update("magic", "off") >>[1] = Update("magic", "off")
<1>1. ASSUME NEW c \in Cell \ {"via"}, NEW v \in Val, v \in Values[c]
      PROVE  /\ Routine(<< Update(c, v) >>) /\ Len(<< Update(c, v) >>) = 1
             /\ << Update(c, v) >>[1] = Update(c, v)
  <2>1. Update(c, v) \in Op /\ Typed(Update(c, v)) /\ Update(c, v).op # "flush"
    BY <1>1, MakeOp DEF Typed, Update
  <2> DEFINE s == << Update(c, v) >>
  <2>2. s \in Seq(Op) /\ Len(s) = 1 /\ s[1] = Update(c, v)
    BY <2>1
  <2> HIDE DEF s
  <2>3. \A i \in 1 .. Len(s) : Typed(s[i]) /\ s[i].op # "flush"
    BY <2>1, <2>2
  <2>4. \A i \in 1 .. Len(s) : ~Writes(s[i], "via")
    BY <2>2, OpWrites, CellSet
  <2> QED
    BY <2>2, <2>3, <2>4 DEF Routine, Orders, s
<1>2. /\ \A c \in {"user", "map", "macro"} :
           c \in Cell \ {"via"} /\ "user" \in Values[c] /\ "user" \in Val
      /\ "magic" \in Cell \ {"via"} /\ "off" \in Val /\ "off" \in Values["magic"]
  BY CellSet DEF Val, Values
<1> QED
  BY <1>1, <1>2

LEMMA KnownRoutines == Routine(eeconfig_init) /\ \A k : Routine(keyboard_init(k))
<1>1. Routine(eeconfig_init)
  BY InitRoutine DEF Routine
<1>2. ASSUME NEW k PROVE Routine(keyboard_init(k))
  <2> DEFINE K == keyboard_init(k)
  <2>1. /\ K \in Seq(Op) /\ Len(K) <= 16
        /\ \A i \in 1 .. Len(K) : Typed(K[i]) /\ K[i].op # "flush"
        /\ \A c \in {"map", "macro"} : Orders(K, "via", "valid", c, "def")
    BY BootRoutine, Zenon
  <2> HIDE DEF K
  <2>2. Len(K) <= 25
    BY <2>1, LenProperties
  <2> QED
    BY <2>1, <2>2 DEF Routine, K
<1> QED
  BY <1>1, <1>2

\* The variables of the boot sequence.
Control ==
  /\ pc \in {"check", "apply", "start", "run", "clear", "halt"}
  /\ attempt \in 0 .. Attempts /\ cuts \in 0 .. MaxCuts
  /\ pc \in {"check", "apply"} => attempt < Attempts
  /\ resetDue \in BOOLEAN /\ asked \in SUBSET {"firmware", "via", "here"} /\ owed \in BOOLEAN

LEMMA ControlStep ==
  ASSUME Typing, [Next]_vars
  PROVE  Control'
<1> USE FactoryAssumption
<1>1. Control
  BY DEF Typing, Control
<1>2. CASE UNCHANGED vars
  BY <1>1, <1>2 DEF vars, Control
<1>3. ASSUME Fails, pc \in {"check", "apply"}, UNCHANGED <<resetDue, asked, owed, cuts>>
      PROVE  Control'
  BY <1>1, <1>3 DEF Fails, Control
<1>4. CASE CheckFails
  BY <1>3, <1>4 DEF CheckFails
<1>5. CASE CheckPasses
  BY <1>1, <1>5 DEF CheckPasses, Control
<1>6. ASSUME NEW ok \in BOOLEAN, NEW landed \in BOOLEAN, CheckBegins(ok, landed) PROVE Control'
  <2>1. CASE ok
    BY <1>1, <1>6, <2>1 DEF CheckBegins, Control
  <2>2. CASE ~ok
    BY <1>3, <1>6, <2>2 DEF CheckBegins
  <2> QED
    BY <2>1, <2>2
<1>7. CASE NextWrite \/ FlushReturns
  BY <1>1, <1>7 DEF NextWrite, FlushReturns, Control
<1>8. CASE FlushGivesUp
  <2>1. pc = "apply"
    <3>1. todo # <<>> /\ Head(todo).op = "flush" /\ todo \in Seq(Op)
      BY <1>8 DEF FlushGivesUp, Typing
    <3>2. Head(todo) = todo[1] /\ 1 \in 1 .. Len(todo)
      BY <3>1, Tailed
    <3> QED
      BY <3>1, <3>2 DEF Typing
  <2> QED
    BY <1>3, <1>8, <2>1 DEF FlushGivesUp
<1>9. CASE ApplyDone \/ QmkInit
  BY <1>1, <1>9 DEF ApplyDone, QmkInit, Control
<1>10. ASSUME NEW n \in 1 .. 3, Send(n) PROVE Control'
  <2>1. owed' \in BOOLEAN
    BY <1>10, <1>1 DEF Send, Note, Control
  <2> QED
    BY <1>1, <1>10, <2>1 DEF Send, Control
<1>11. ASSUME NEW S \in SUBSET (1 .. 3), SendFails(S) PROVE Control'
  <2>1. owed' \in BOOLEAN
    BY <1>11, <1>1 DEF SendFails, Note, Control
  <2> QED
    BY <1>1, <1>11, <2>1 DEF SendFails, Control
<1>12. ASSUME NEW c, Save(c) PROVE Control'
  BY <1>1, <1>12 DEF Save, Control
<1>13. CASE CliClear \/ KeyClear
  BY <1>1, <1>13 DEF CliClear, KeyClear, Control
<1>14. ASSUME NEW ok \in BOOLEAN, NEW landed \in BOOLEAN, ClearFlag(ok, landed) PROVE Control'
  BY <1>1, <1>14 DEF ClearFlag, Running, Control
<1>15. ASSUME NEW ok \in BOOLEAN, NEW landed \in BOOLEAN, ClearCookie(ok, landed) PROVE Control'
  <2>1. owed' \in BOOLEAN /\ resetDue' \in BOOLEAN
    BY <1>15, <1>1 DEF ClearCookie, Control
  <2> QED
    BY <1>1, <1>15, <2>1 DEF ClearCookie, Control
<1>16. ASSUME NEW S \in SUBSET (1 .. 3), Restart(S) PROVE Control'
  <2>1. owed' \in BOOLEAN
    BY <1>16, <1>1 DEF Restart, Note, Control
  <2>2. cuts' \in 0 .. MaxCuts
    BY <1>16, <1>1 DEF Restart, Control
  <2>3. pc' = "check" /\ attempt' = 0 /\ resetDue' = FALSE /\ asked' \in SUBSET {"firmware", "via", "here"}
    BY <1>16, <1>1 DEF Restart, Control
  <2>4. 0 \in 0 .. Attempts /\ 0 < Attempts
    OBVIOUS
  <2> QED
    BY <2>1, <2>2, <2>3, <2>4 DEF Control
<1> QED
  BY <1>2, <1>4, <1>5, <1>6, <1>7, <1>8, <1>9, <1>10, <1>11, <1>12, <1>13, <1>14, <1>15, <1>16
     DEF Next, Booting, Sending

\* The mirror is read again, and a routine begins or none does.
Rereads ==
  /\ chip' \in [Cell -> Val] /\ (\A c \in Cell : chip'[c] \in Values[c])
  /\ q' = <<>> /\ buf' = chip'
  /\ \/ todo' = <<>> /\ pc' # "apply"
     \/ todo' = keyboard_init(chip') /\ pc' = "run"
     \/ pc' = "apply" /\ todo' = eeprom_apply_factory_defaults /\ chip'.flag = "zero"

\* A routine begins in the main loop.
Begins ==
  /\ UNCHANGED <<chip, buf, q, pc>>
  /\ Running /\ Routine(todo') /\ asked \subseteq asked'

\* A word of the sentinel is cleared.
Clears ==
  /\ UNCHANGED <<buf, q, todo>> /\ todo = <<>>
  /\ pc \in {"run", "clear"} /\ pc' \in {"run", "clear"}
  /\ "via" \in asked'
  /\ \E c \in {"flag", "cookie"}, ok, landed \in BOOLEAN : Direct(c, ok, landed)

\* What a step does to the chip, the mirror, the queue and the routine.
LEMMA Kinds ==
  ASSUME Typing, Resting, [Next]_vars
  PROVE  \/ /\ UNCHANGED <<chip, buf, q, todo>>
            /\ \/ pc' = pc /\ asked' = asked
               \/ pc = "check" /\ pc' = "start"
               \/ pc = "apply" /\ pc' = "start" /\ todo = <<>>
         \/ Rereads \/ Begins \/ Clears
         \/ NextWrite \/ FlushReturns
         \/ \E n \in 1 .. 3 : Send(n)
         \/ \E S \in SUBSET (1 .. 3) : SendFails(S)
<1>1. chip \in [Cell -> Val] /\ \A c \in Cell : chip[c] \in Values[c]
  BY DEF Typing
<1>2. CASE UNCHANGED vars
  BY <1>2 DEF vars
<1>3. CASE CheckFails
  <2>1. pc' # "apply" /\ todo' = <<>> /\ q' = <<>> /\ buf' = chip' /\ chip' = chip
    BY <1>3 DEF CheckFails, Fails, eeprom_init
  <2> QED
    BY <1>1, <2>1 DEF Rereads
<1>4. CASE CheckPasses
  BY <1>4 DEF CheckPasses
<1>5. ASSUME NEW ok \in BOOLEAN, NEW landed \in BOOLEAN, CheckBegins(ok, landed) PROVE Rereads
  <2>1. /\ chip' \in [Cell -> Val] /\ \A c \in Cell : chip'[c] \in Values[c]
        /\ chip.flag # "magic" => chip' = chip
    BY <1>1, <1>5, DirectTyping DEF CheckBegins
  <2>2. ok => chip'.flag = "zero"
    <3>1. CASE chip.flag = "magic"
      <4>1. ok => chip' = [chip EXCEPT !["flag"] = "zero"]
        BY <1>5, <3>1 DEF CheckBegins, Direct
      <4> QED
        BY <1>1, <4>1, CellSet
    <3>2. CASE chip.flag # "magic"
      <4>1. chip.flag \in {"magic", "zero"}
        BY <1>1, CellSet DEF Values
      <4> QED
        BY <2>1, <3>2, <4>1
    <3> QED
      BY <3>1, <3>2
  <2>3. CASE ok
    BY <1>5, <2>1, <2>2, <2>3 DEF CheckBegins, eeprom_init, Rereads
  <2>4. CASE ~ok
    <3>1. pc' # "apply" /\ todo' = <<>> /\ q' = <<>> /\ buf' = chip'
      BY <1>5, <2>4 DEF CheckBegins, Fails, eeprom_init
    <3> QED
      BY <2>1, <3>1 DEF Rereads
  <2> QED
    BY <2>3, <2>4
<1>6. CASE FlushGivesUp
  <2>1. pc' # "apply" /\ todo' = <<>> /\ q' = <<>> /\ buf' = chip' /\ chip' = chip
    BY <1>6 DEF FlushGivesUp, Fails, eeprom_init
  <2> QED
    BY <1>1, <2>1 DEF Rereads
<1>7. CASE ApplyDone
  BY <1>7 DEF ApplyDone
<1>8. CASE QmkInit
  <2>1. pc' = "run" /\ todo' = keyboard_init(chip') /\ q' = <<>> /\ buf' = chip' /\ chip' = chip
    BY <1>8 DEF QmkInit, eeprom_init
  <2> QED
    BY <1>1, <2>1 DEF Rereads
<1>9. ASSUME NEW c \in {"user", "map", "macro"}, Save(c) PROVE Begins
  BY <1>9, OneRoutine DEF Save, Begins
<1>10. CASE CliClear
  BY <1>10, KnownRoutines DEF CliClear, Begins
<1>11. CASE KeyClear
  BY <1>11, OneRoutine DEF KeyClear, Begins
<1>12. ASSUME NEW ok \in BOOLEAN, NEW landed \in BOOLEAN, ClearFlag(ok, landed) PROVE Clears
  <2>1. /\ pc = "run" /\ pc' \in {"run", "clear"} /\ "via" \in asked' /\ Direct("flag", ok, landed)
        /\ UNCHANGED <<buf, q, todo>> /\ todo = <<>>
    BY <1>12 DEF ClearFlag, Running
  <2> QED
    BY <2>1 DEF Clears
<1>13. ASSUME NEW ok \in BOOLEAN, NEW landed \in BOOLEAN, ClearCookie(ok, landed) PROVE Clears
  <2>1. /\ pc = "clear" /\ pc' = "run" /\ "via" \in asked' /\ Direct("cookie", ok, landed)
        /\ UNCHANGED <<buf, q, todo>> /\ todo = <<>>
    BY <1>13 DEF ClearCookie, Resting
  <2> QED
    BY <2>1 DEF Clears
<1>14. ASSUME NEW S \in SUBSET (1 .. 3), Restart(S) PROVE Rereads
  <2>1. Lands(S) /\ chip' = Landed(S)
    BY <1>14 DEF Restart, Lands
  <2>2. pc' # "apply" /\ todo' = <<>> /\ q' = <<>> /\ buf' = chip'
    BY <1>14 DEF Restart, eeprom_init
  <2> QED
    BY <2>1, <2>2, ChipTyping DEF Rereads
<1> QED
  BY <1>2, <1>3, <1>4, <1>5, <1>6, <1>7, <1>8, <1>9, <1>10, <1>11, <1>12, <1>13, <1>14
     DEF Next, Booting, Sending

\* What a send leaves of the queue.
LEMMA SendTyping ==
  ASSUME Typing, NEW n \in 1 .. 3, Send(n)
  PROVE  /\ n \in 1 .. Len(q) /\ Len(q) \in Nat /\ Run(n) /\ Lands(1 .. n)
         /\ chip' = Landed(1 .. n) /\ q' = SubSeq(q, n + 1, Len(q))
         /\ q' \in Seq(Entry) /\ Len(q') = Len(q) - n
         /\ \A i \in 1 .. Len(q) - n : q'[i] = q[i + n]
         /\ UNCHANGED <<buf, todo, pc, attempt, resetDue, asked, cuts>>
<1>1. /\ Run(n) /\ chip' = Landed(1 .. n) /\ q' = SubSeq(q, n + 1, Len(q))
      /\ UNCHANGED <<buf, todo, pc, attempt, resetDue, asked, cuts>>
  BY DEF Send
<1>2. n \in 1 .. Len(q) /\ Len(q) \in Nat /\ q \in Seq(Entry) /\ Lands(1 .. n)
  BY <1>1, RunFacts DEF Typing, Lands
<1>3. /\ q' \in Seq(Entry) /\ Len(q') = Len(q) - n
      /\ \A i \in 1 .. Len(q) - n : q'[i] = q[i + n]
  BY <1>1, <1>2, Cut
<1> QED
  BY <1>1, <1>2, <1>3

LEMMA TypingStep ==
  ASSUME Typing, Resting, [Next]_vars
  PROVE  Typing'
<1> DEFINE Chip == /\ chip \in [Cell -> Val] /\ buf \in [Cell -> Val]
                   /\ \A c \in Cell : chip[c] \in Values[c] /\ buf[c] \in Values[c]
           Queue == q \in Seq(Entry) /\ \A i \in 1 .. Len(q) : Typed(q[i])
           List == /\ todo \in Seq(Op) /\ Len(todo) <= 25
                   /\ \A i \in 1 .. Len(todo) :
                        Typed(todo[i]) /\ (pc # "apply" => todo[i].op # "flush")
<1>1. Chip /\ Queue /\ List
  BY DEF Typing
<1>2. Control'
  BY ControlStep
<1>3. CASE /\ UNCHANGED <<chip, buf, q, todo>>
           /\ \/ pc' = pc /\ asked' = asked
              \/ pc = "check" /\ pc' = "start"
              \/ pc = "apply" /\ pc' = "start" /\ todo = <<>>
  <2>1. List'
    BY <1>1, <1>3
  <2> QED
    BY <1>1, <1>2, <1>3, <2>1 DEF Typing, Control
<1>4. CASE Rereads
  <2>1. Chip' /\ Queue'
    BY <1>4, EmptyRoutine DEF Rereads
  <2>2. List'
    <3>1. CASE Routine(todo')
      BY <3>1 DEF Routine
    <3>2. CASE pc' = "apply" /\ todo' = eeprom_apply_factory_defaults
      BY <3>2, ApplyRoutine
    <3> QED
      BY <1>4, <3>1, <3>2, EmptyRoutine, KnownRoutines DEF Rereads
  <2> QED
    BY <1>2, <2>1, <2>2 DEF Typing, Control
<1>5. CASE Begins
  <2>1. Chip' /\ Queue' /\ List'
    BY <1>1, <1>5 DEF Begins, Routine
  <2> QED
    BY <1>2, <2>1 DEF Typing, Control
<1>6. CASE Clears
  <2>1. Chip'
    BY <1>1, <1>6, DirectTyping DEF Clears
  <2>2. Queue' /\ List'
    BY <1>1, <1>6 DEF Clears
  <2> QED
    BY <1>2, <2>1, <2>2 DEF Typing, Control
<1>7. CASE NextWrite
  <2>1. Chip'
    BY <1>1, <1>7, WriteTyping DEF NextWrite
  <2>2. Queue'
    <3>1. CASE q' = q
      BY <1>1, <3>1
    <3>2. CASE q' # q
      <4>1. PICK e \in Entry : Typed(e) /\ q' = Append(q, e)
        BY <1>7, <3>2, WriteTyping
      <4>2. /\ q' \in Seq(Entry) /\ Len(q) \in Nat /\ Len(q') = Len(q) + 1
            /\ \A i \in 1 .. Len(q) : q'[i] = q[i]
            /\ q'[Len(q) + 1] = e
        BY <1>1, <4>1, Appended
      <4> QED
        BY <1>1, <4>1, <4>2
    <3> QED
      BY <3>1, <3>2
  <2>3. List'
    <3>1. /\ todo' \in Seq(Op) /\ Len(todo) \in Nat \ {0} /\ Len(todo') = Len(todo) - 1
          /\ \A i \in 1 .. Len(todo) - 1 : todo'[i] = todo[i + 1]
      BY <1>1, <1>7, WriteTyping, Tailed
    <3>2. pc' = pc
      BY <1>7 DEF NextWrite
    <3> QED
      BY <1>1, <3>1, <3>2
  <2> QED
    BY <1>2, <2>1, <2>2, <2>3 DEF Typing, Control
<1>8. CASE FlushReturns
  <2>1. todo # <<>> /\ todo' = Tail(todo) /\ UNCHANGED <<chip, buf, q, pc>>
    BY <1>8 DEF FlushReturns
  <2>2. /\ todo' \in Seq(Op) /\ Len(todo) \in Nat \ {0} /\ Len(todo') = Len(todo) - 1
        /\ \A i \in 1 .. Len(todo) - 1 : todo'[i] = todo[i + 1]
    BY <1>1, <2>1, Tailed
  <2>3. List'
    BY <1>1, <2>1, <2>2
  <2> QED
    BY <1>1, <1>2, <2>1, <2>3 DEF Typing, Control
<1>9. ASSUME NEW n \in 1 .. 3, Send(n) PROVE Typing'
  <2>1. Chip'
    BY <1>1, <1>9, SendTyping, ChipTyping
  <2>2. Queue'
    <3>1. /\ q' \in Seq(Entry) /\ Len(q') = Len(q) - n /\ Len(q) \in Nat
          /\ \A i \in 1 .. Len(q) - n : q'[i] = q[i + n]
      BY <1>9, SendTyping
    <3>2. ASSUME NEW i \in 1 .. Len(q') PROVE Typed(q'[i])
      <4>1. i + n \in 1 .. Len(q) /\ q'[i] = q[i + n]
        BY <3>1
      <4> QED
        BY <1>1, <4>1
    <3> QED
      BY <3>1, <3>2
  <2>3. List'
    BY <1>1, <1>9, SendTyping
  <2> QED
    BY <1>2, <2>1, <2>2, <2>3 DEF Typing, Control
<1>10. ASSUME NEW S \in SUBSET (1 .. 3), SendFails(S) PROVE Typing'
  <2>1. Lands(S) /\ chip' = Landed(S) /\ UNCHANGED <<buf, q, todo, pc>>
    BY <1>10 DEF SendFails, Lands
  <2>2. Chip' /\ Queue' /\ List'
    BY <1>1, <2>1, ChipTyping
  <2> QED
    BY <1>2, <2>2 DEF Typing, Control
<1> QED
  BY <1>3, <1>4, <1>5, <1>6, <1>7, <1>8, <1>9, <1>10, Kinds

LEMMA RestingStep ==
  ASSUME Typing, Resting, Applying, [Next]_vars
  PROVE  Resting'
<1>1. /\ pc' \in {"check", "start", "halt"} => q' = <<>>
      /\ pc' \notin {"apply", "run"} => todo' = <<>>
  <2>1. CASE /\ UNCHANGED <<chip, buf, q, todo>>
             /\ \/ pc' = pc /\ asked' = asked
                \/ pc = "check" /\ pc' = "start"
                \/ pc = "apply" /\ pc' = "start" /\ todo = <<>>
    BY <2>1 DEF Resting, Applying
  <2>2. CASE Rereads
    BY <2>2 DEF Rereads
  <2>3. CASE Begins
    BY <2>3 DEF Begins, Running
  <2>4. CASE Clears
    BY <2>4 DEF Clears, Resting
  <2>5. CASE NextWrite \/ FlushReturns
    BY <2>5 DEF NextWrite, FlushReturns, Resting
  <2>6. ASSUME NEW n \in 1 .. 3, Send(n) PROVE q # <<>> /\ UNCHANGED <<pc, todo>>
    BY <2>6, SendTyping, EmptyRoutine
  <2>7. ASSUME NEW S \in SUBSET (1 .. 3), SendFails(S) PROVE UNCHANGED <<q, todo, pc>>
    BY <2>7 DEF SendFails
  <2> QED
    BY <2>1, <2>2, <2>3, <2>4, <2>5, <2>6, <2>7, Kinds DEF Resting
<1>2. ASSUME pc' = "clear" PROVE "via" \in asked'
  <2>1. CASE pc = "clear" /\ asked' = asked
    BY <2>1 DEF Resting
  <2>2. CASE \E ok, landed \in BOOLEAN : ClearFlag(ok, landed)
    BY <2>2 DEF ClearFlag
  <2>3. CASE CheckFails \/ CheckPasses \/ FlushGivesUp \/ ApplyDone \/ QmkInit \/ CliClear \/ KeyClear
    BY <1>2, <2>3 DEF CheckFails, CheckPasses, FlushGivesUp, Fails, ApplyDone, QmkInit, CliClear,
       KeyClear, Running
  <2>4. ASSUME NEW ok \in BOOLEAN, NEW landed \in BOOLEAN,
               CheckBegins(ok, landed) \/ ClearCookie(ok, landed)
        PROVE  FALSE
    BY <1>2, <2>4 DEF CheckBegins, ClearCookie, Fails
  <2>5. CASE NextWrite \/ FlushReturns \/ UNCHANGED vars
    BY <1>2, <2>1, <2>5 DEF NextWrite, FlushReturns, vars
  <2>6. ASSUME NEW n \in 1 .. 3, Send(n) PROVE pc = "clear" /\ asked' = asked
    BY <1>2, <2>6 DEF Send
  <2>7. ASSUME NEW S \in SUBSET (1 .. 3), SendFails(S) PROVE pc = "clear" /\ asked' = asked
    BY <1>2, <2>7 DEF SendFails
  <2>8. ASSUME NEW S \in SUBSET (1 .. 3), Restart(S) PROVE FALSE
    BY <1>2, <2>8 DEF Restart
  <2>9. ASSUME NEW c, Save(c) PROVE FALSE
    BY <1>2, <2>9 DEF Save, Running
  <2> QED
    BY <2>1, <2>2, <2>3, <2>4, <2>5, <2>6, <2>7, <2>8, <2>9 DEF Next, Booting, Sending
<1> QED
  BY <1>1, <1>2 DEF Resting

-----------------------------------------------------------------------------
(* The mirror and the order of the writes *)

LEMMA NothingQueued ==
  ASSUME q = <<>>, NEW c, NEW v
  PROVE  Reach(chip, q, Len(q), c, v) <=> chip[c] = v
<1>1. Len(q) = 0
  BY EmptyRoutine
<1> QED
  BY <1>1 DEF Reach, Sets, Skips

LEMMA MirroringStep ==
  ASSUME Typing, Resting, Mirroring, [Next]_vars
  PROVE  Mirroring'
<1> SUFFICES ASSUME NEW c \in Cell,
                    c \in {"flag", "cookie"} /\ "via" \in asked' => pc' \notin {"run", "clear"}
             PROVE  Mirrors(c)'
  BY DEF Mirroring
<1>1. CASE Rereads
  <2>1. q' = <<>> /\ buf' = chip' /\ Len(q') = 0
    BY <1>1, EmptyRoutine DEF Rereads
  <2> QED
    BY <2>1 DEF Mirrors, Reach, Skips
<1>2. CASE Clears
  <2>1. c \notin {"flag", "cookie"}
    BY <1>2 DEF Clears
  <2>2. Mirrors(c) /\ chip'[c] = chip[c]
    BY <1>2, <2>1, DirectTyping DEF Clears, Mirroring
  <2>3. UNCHANGED <<buf, q>>
    BY <1>2 DEF Clears
  <2> QED
    BY <2>2, <2>3 DEF Mirrors, Reach
<1>3. CASE UNCHANGED <<chip, buf, q>> /\ Mirrors(c)
  BY <1>3 DEF Mirrors
<1>4. CASE /\ UNCHANGED <<chip, buf, q, todo>>
           /\ \/ pc' = pc /\ asked' = asked
              \/ pc = "check" /\ pc' = "start"
              \/ pc = "apply" /\ pc' = "start" /\ todo = <<>>
  BY <1>3, <1>4 DEF Mirroring
<1>5. CASE Begins
  BY <1>3, <1>5 DEF Begins, Mirroring
<1>6. CASE FlushReturns
  BY <1>3, <1>6 DEF FlushReturns, Mirroring
<1>7. CASE NextWrite
  <2>1. Mirrors(c) /\ chip' = chip
    BY <1>7 DEF NextWrite, Mirroring
  <2>2. CASE q' = q /\ buf' = buf
    BY <2>1, <2>2 DEF Mirrors
  <2>3. CASE ~(q' = q /\ buf' = buf)
    <3>1. PICK e \in Entry : /\ q' = Append(q, e)
                             /\ Writes(e, c) => buf'[c] = e.val
                             /\ ~Writes(e, c) => buf'[c] = buf[c]
      BY <1>7, <2>3, WriteTyping
    <3>2. q \in Seq(Entry) /\ Len(q') = Len(q) + 1
      BY <3>1, Appended DEF Typing
    <3>3. IF Writes(e, c) THEN e.val = buf'[c] ELSE Reach(chip, q, Len(q), c, buf'[c])
      BY <2>1, <3>1 DEF Mirrors
    <3>4. Reach(chip, Append(q, e), Len(q) + 1, c, buf'[c])
      BY <3>2, <3>3, ReachLast
    <3> QED
      BY <2>1, <3>1, <3>2, <3>4 DEF Mirrors
  <2> QED
    BY <2>2, <2>3
<1>8. ASSUME NEW n \in 1 .. 3, Send(n) PROVE Mirrors(c)'
  <2>1. Mirrors(c)
    BY <1>8, SendTyping DEF Mirroring
  <2>2. /\ Run(n) /\ n \in 1 .. Len(q) /\ Len(q) \in Nat /\ Len(q') = Len(q) - n
        /\ q' = SubSeq(q, n + 1, Len(q)) /\ chip' = Landed(1 .. n) /\ buf' = buf
    BY <1>8, SendTyping, Zenon
  <2>3. Reach(Landed(1 .. n), SubSeq(q, n + 1, Len(q)), Len(q) - n, c, buf[c])
    <3>1. Len(q) \in n .. Len(q)
      BY <2>2
    <3> QED
      BY <2>1, <2>2, <3>1, SentReach DEF Mirrors
  <2> QED
    BY <2>2, <2>3 DEF Mirrors
<1>9. ASSUME NEW S \in SUBSET (1 .. 3), SendFails(S) PROVE Mirrors(c)'
  <2>1. Mirrors(c)
    BY <1>9 DEF SendFails, Mirroring
  <2>2. Lands(S) /\ chip' = Landed(S) /\ UNCHANGED <<q, buf>>
    BY <1>9 DEF SendFails, Lands
  <2>3. Reach(Landed(S), q, Len(q), c, buf[c])
    BY <2>1, <2>2, LandedReach DEF Mirrors
  <2> QED
    BY <2>2, <2>3 DEF Mirrors
<1> QED
  BY <1>1, <1>2, <1>4, <1>5, <1>6, <1>7, <1>8, <1>9, Kinds

\* What the list will leave in the mirror stays when its head is carried out.
LEMMA ScheduledStep ==
  ASSUME Typing, NextWrite \/ FlushReturns
  PROVE  /\ \A c \in Cell : \A v : WillBe(c, v) => WillBe(c, v)'
         /\ \A c \in Cell : \A a, b, v : Scheduled(a, b, c, v) => Scheduled(a, b, c, v)'
<1>1. /\ todo \in Seq(Op) /\ todo # <<>> /\ todo' = Tail(todo)
      /\ \A c \in Cell : buf'[c] = IF Writes(Head(todo), c) THEN Head(todo).val ELSE buf[c]
  <2>1. CASE NextWrite
    BY <2>1, WriteTyping DEF Typing
  <2>2. CASE FlushReturns
    <3>1. /\ todo \in Seq(Op) /\ todo # <<>> /\ todo' = Tail(todo) /\ buf' = buf
          /\ Head(todo).op = "flush"
      BY <2>2 DEF FlushReturns, Typing
    <3>2. Head(todo) \in Op
      BY <3>1, Tailed
    <3>3. \A c \in Cell : ~Writes(Head(todo), c)
      BY <3>1, <3>2, OpFields
    <3> QED
      BY <3>1, <3>3
  <2> QED
    BY <2>1, <2>2
<1>2. /\ Len(todo) \in Nat \ {0} /\ Len(todo') = Len(todo) - 1
      /\ \A i \in 1 .. Len(todo) - 1 : todo'[i] = todo[i + 1]
  BY <1>1, Tailed
<1>3. ASSUME NEW c \in Cell, NEW v, NEW n \in 0 .. Len(todo) - 1, Reach(buf, todo, n + 1, c, v)
      PROVE  Reach(buf', todo', n, c, v)
  BY <1>1, <1>3, ReachTail
<1>4. ASSUME NEW c \in Cell, NEW v, WillBe(c, v) PROVE WillBe(c, v)'
  <2>1. Len(todo) - 1 \in 0 .. Len(todo) - 1 /\ (Len(todo) - 1) + 1 = Len(todo)
    BY <1>2
  <2>2. Reach(buf', todo', Len(todo) - 1, c, v)
    BY <1>3, <1>4, <2>1 DEF WillBe
  <2> QED
    BY <1>2, <2>2 DEF WillBe
<1>5. ASSUME NEW c \in Cell, NEW a, NEW b, NEW v, Scheduled(a, b, c, v)
      PROVE  Scheduled(a, b, c, v)'
  <2> SUFFICES ASSUME NEW i \in 1 .. Len(todo'), Writes(todo'[i], a), todo'[i].val = b
               PROVE  Reach(buf', todo', i - 1, c, v)
    BY DEF Scheduled
  <2>1. /\ i + 1 \in 1 .. Len(todo) /\ todo'[i] = todo[i + 1]
        /\ i - 1 \in 0 .. Len(todo) - 1 /\ (i + 1) - 1 = i /\ (i - 1) + 1 = i
    BY <1>2
  <2>2. Reach(buf, todo, i, c, v)
    BY <1>5, <2>1 DEF Scheduled
  <2> QED
    BY <1>3, <2>1, <2>2
<1> QED
  BY <1>4, <1>5

\* The order of a routine's writes is the order of the queue.
LEMMA QueuedStep ==
  ASSUME Typing, NextWrite \/ FlushReturns,
         NEW a \in Cell, NEW b, NEW c \in Cell, NEW v, Ordered(a, b, c, v), Mirrors(c)
  PROVE  Queued(a, b, c, v)'
<1>1. CASE UNCHANGED <<chip, q>>
  BY <1>1 DEF Queued, Early, Ordered
<1>2. CASE ~UNCHANGED <<chip, q>>
  <2>1. chip' = chip /\ NextWrite
    BY <1>2 DEF NextWrite, FlushReturns
  <2>2. PICK e \in Entry : /\ q' = Append(q, e)
                           /\ Writes(e, a) <=> Writes(Head(todo), a)
                           /\ e.val = Head(todo).val
    BY <1>2, <2>1, WriteTyping
  <2>3. /\ q \in Seq(Entry) /\ Len(q) \in Nat /\ Len(q') = Len(q) + 1
        /\ \A i \in 1 .. Len(q) : q'[i] = q[i]
        /\ q'[Len(q) + 1] = e
    BY <2>2, Appended DEF Typing
  <2> SUFFICES ASSUME NEW i \in 1 .. Len(q'), Writes(q'[i], a), q'[i].val = b
               PROVE  Reach(chip, q', i - 1, c, v) \/ Early(i, a, c)'
    BY <2>1 DEF Queued
  <2>4. CASE i \in 1 .. Len(q)
    <3>1. Writes(q[i], a) /\ q[i].val = b
      BY <2>3, <2>4
    <3>2. CASE Reach(chip, q, i - 1, c, v)
      <4>1. i - 1 \in 0 .. Len(q)
        BY <2>3, <2>4
      <4> QED
        BY <2>2, <2>3, <3>2, <4>1, ReachAppend
    <3>3. CASE Early(i, a, c)
      <4>1. Skips(q', i - 1, c)
        BY <2>3, <2>4, <3>3 DEF Early, Skips
      <4>2. PICK k \in i + 1 .. Len(q) : Writes(q[k], c) /\ q[k].val = chip[c]
        BY <3>3 DEF Early
      <4>3. k \in i + 1 .. Len(q') /\ q'[k] = q[k]
        BY <2>3, <2>4
      <4> QED
        BY <2>1, <3>3, <4>1, <4>2, <4>3 DEF Early
    <3> QED
      BY <2>4, <3>1, <3>2, <3>3 DEF Ordered, Queued
  <2>5. CASE i = Len(q) + 1
    <3>1. Writes(Head(todo), a) /\ Head(todo).val = b
      BY <2>2, <2>3, <2>5
    <3>2. /\ todo \in Seq(Op) /\ todo # <<>> /\ Head(todo) = todo[1] /\ 1 \in 1 .. Len(todo)
      BY <2>1, Tailed DEF NextWrite, Typing
    <3>3. Reach(buf, todo, 1 - 1, c, v)
      BY <3>1, <3>2 DEF Ordered, Scheduled
    <3>4. buf[c] = v
      BY <3>3 DEF Reach, Sets
    <3>5. Reach(chip, q, Len(q), c, v)
      BY <3>4 DEF Mirrors
    <3>6. Reach(chip, Append(q, e), Len(q), c, v)
      BY <2>3, <3>5, ReachAppend
    <3> QED
      BY <2>2, <2>3, <2>5, <3>6
  <2> QED
    BY <2>3, <2>4, <2>5
<1> QED
  BY <1>1, <1>2

LEMMA OrderedStep ==
  ASSUME Typing,
         \/ NextWrite \/ FlushReturns
         \/ \E n \in 1 .. 3 : Send(n)
         \/ \E S \in SUBSET (1 .. 3) : SendFails(S),
         NEW a \in Cell, NEW b, NEW c \in Cell, NEW v, a # c, Ordered(a, b, c, v), Mirrors(c)
  PROVE  Ordered(a, b, c, v)'
<1>1. CASE NextWrite \/ FlushReturns
  BY <1>1, ScheduledStep, QueuedStep DEF Ordered
<1>2. ASSUME NEW n \in 1 .. 3, Send(n) PROVE Ordered(a, b, c, v)'
  <2>1. /\ Run(n) /\ chip' = Landed(1 .. n) /\ q' = SubSeq(q, n + 1, Len(q))
        /\ UNCHANGED <<buf, todo>>
    BY <1>2, SendTyping, Zenon
  <2>2. Queued(a, b, c, v)'
    BY <2>1, SentQueued DEF Ordered
  <2> QED
    BY <2>1, <2>2 DEF Ordered, Scheduled
<1>3. ASSUME NEW S \in SUBSET (1 .. 3), SendFails(S) PROVE Ordered(a, b, c, v)'
  <2>1. Lands(S) /\ chip' = Landed(S) /\ UNCHANGED <<q, buf, todo>>
    BY <1>3 DEF SendFails, Lands
  <2>2. Queued(a, b, c, v)'
    BY <2>1, LandedQueued DEF Ordered
  <2> QED
    BY <2>1, <2>2 DEF Ordered, Scheduled
<1> QED
  BY <1>1, <1>2, <1>3

LEMMA VouchingStep ==
  ASSUME Typing, Resting, Mirroring, Vouching, [Next]_vars
  PROVE  Vouching'
<1> SUFFICES ASSUME NEW c \in {"map", "macro"} PROVE Ordered("via", "valid", c, "def")'
  BY DEF Vouching
<1>1. "via" \in Cell /\ c \in Cell /\ "via" # c /\ c \notin {"flag", "cookie"}
  BY CellSet
<1>2. Ordered("via", "valid", c, "def") /\ Mirrors(c)
  BY <1>1 DEF Vouching, Mirroring
<1>3. CASE Rereads
  <2>1. Queued("via", "valid", c, "def")'
    <3>1. Len(q') = 0
      BY <1>3, EmptyRoutine DEF Rereads
    <3> QED
      BY <3>1 DEF Queued
  <2>2. Orders(todo', "via", "valid", c, "def")
    BY <1>3, EmptyRoutine, KnownRoutines, ApplyRoutine DEF Rereads, Routine
  <2>3. Scheduled("via", "valid", c, "def")'
    BY <2>2 DEF Orders, Scheduled, Reach
  <2> QED
    BY <2>1, <2>3 DEF Ordered
<1>4. CASE Begins
  <2>1. Orders(todo', "via", "valid", c, "def") /\ UNCHANGED <<chip, q>>
    BY <1>4 DEF Begins, Routine
  <2>2. Scheduled("via", "valid", c, "def")'
    BY <2>1 DEF Orders, Scheduled, Reach
  <2>3. Queued("via", "valid", c, "def")'
    BY <1>2, <2>1 DEF Ordered, Queued, Early
  <2> QED
    BY <2>2, <2>3 DEF Ordered
<1>5. CASE Clears
  <2>1. chip'[c] = chip[c]
    BY <1>1, <1>5, DirectTyping DEF Clears
  <2>2. UNCHANGED <<buf, q, todo>>
    BY <1>5 DEF Clears
  <2>3. Queued("via", "valid", c, "def")'
    BY <1>2, <2>1, <2>2 DEF Ordered, Queued, Early, Reach
  <2>4. Scheduled("via", "valid", c, "def")'
    BY <1>2, <2>2 DEF Ordered, Scheduled
  <2> QED
    BY <2>3, <2>4 DEF Ordered
<1>6. CASE UNCHANGED <<chip, buf, q, todo>>
  BY <1>2, <1>6 DEF Ordered, Scheduled, Queued, Early
<1>7. CASE \/ NextWrite \/ FlushReturns
           \/ \E n \in 1 .. 3 : Send(n)
           \/ \E S \in SUBSET (1 .. 3) : SendFails(S)
  BY <1>1, <1>2, <1>7, OrderedStep
<1> QED
  BY <1>3, <1>4, <1>5, <1>6, <1>7, Kinds

LEMMA ApplyingStep ==
  ASSUME Typing, Resting, Mirroring, Applying, [Next]_vars
  PROVE  Applying'
<1> SUFFICES ASSUME pc' = "apply" PROVE Applying'
  BY DEF Applying
<1> USE CellSet
<1>1. CASE Rereads
  <2> DEFINE A == eeprom_apply_factory_defaults
  <2>1. todo' = A /\ chip'.flag = "zero" /\ buf' = chip' /\ q' = <<>> /\ Len(q') = 0
    BY <1>1, EmptyRoutine DEF Rereads
  <2>2. /\ Len(A) = 25 /\ A[25] = Flush
        /\ \A c \in {"user", "map", "macro"} : Sets(A, 25, c, "def")
        /\ Sets(A, 25, "magic", "on") /\ Sets(A, 25, "flag", "magic")
        /\ Sets(A, 25, "cookie", "this") /\ Sets(A, 25, "via", "valid")
        /\ Orders(A, "flag", "magic", "magic", "on")
        /\ \A i \in 1 .. 25 : Writes(A[i], "magic") /\ A[i].val = "off" => Skips(A, i - 1, "flag")
    BY ApplyRoutine, Zenon
  <2> HIDE DEF A
  <2>7. A # <<>>
    <3>1. Len(A) = 25 /\ Len(<<>>) = 0
      BY <2>2
    <3>2. A = <<>> => Len(A) = Len(<<>>)
      BY Zenon
    <3> QED
      BY <3>1, <3>2
  <2>3. /\ \A c \in {"user", "map", "macro"} : WillBe(c, "def")'
        /\ WillBe("magic", "on")' /\ WillBe("flag", "magic")' /\ WillBe("cookie", "this")'
        /\ WillBe("via", "valid")'
    BY <2>1, <2>2 DEF WillBe, Reach
  <2>4. Scheduled("flag", "magic", "magic", "on")'
    BY <2>1, <2>2 DEF Orders, Scheduled, Reach
  <2>5. Scheduled("magic", "off", "flag", "zero")'
    BY <2>1, <2>2 DEF Scheduled, Reach
  <2>6. Queued("flag", "magic", "magic", "on")' /\ Queued("magic", "off", "flag", "zero")'
    BY <2>1 DEF Queued
  <2> QED
    BY <2>1, <2>2, <2>3, <2>4, <2>5, <2>6, <2>7 DEF Applying, Ordered
<1>2. CASE pc = "apply" /\ UNCHANGED <<chip, buf, q, todo>>
  BY <1>2 DEF Applying, WillBe, Ordered, Scheduled, Queued, Early
<1>3. ASSUME pc = "apply",
             \/ NextWrite \/ FlushReturns
             \/ \E n \in 1 .. 3 : Send(n)
             \/ \E S \in SUBSET (1 .. 3) : SendFails(S)
      PROVE  Applying'
  <2>1. \A c \in Cell : Mirrors(c)
    BY <1>3 DEF Mirroring
  <2>2. Ordered("flag", "magic", "magic", "on") /\ Ordered("magic", "off", "flag", "zero")
    BY <1>3 DEF Applying
  <2>3. Ordered("flag", "magic", "magic", "on")' /\ Ordered("magic", "off", "flag", "zero")'
    BY <1>3, <2>1, <2>2, OrderedStep
  <2>4. \A c \in Cell : \A v : WillBe(c, v) => WillBe(c, v)'
    <3>1. CASE NextWrite \/ FlushReturns
      BY <3>1, ScheduledStep
    <3>2. CASE UNCHANGED <<buf, todo>>
      BY <3>2 DEF WillBe
    <3> QED
      BY <1>3, <3>1, <3>2 DEF Send, SendFails
  <2>5. IF todo' = <<>> THEN q' = <<>> ELSE todo'[Len(todo')] = Flush
    <3>1. IF todo = <<>> THEN q = <<>> ELSE todo[Len(todo)] = Flush
      BY <1>3 DEF Applying
    <3>2. CASE NextWrite \/ FlushReturns
      <4>1. todo \in Seq(Op) /\ todo # <<>> /\ todo' = Tail(todo)
        BY <3>2 DEF NextWrite, FlushReturns, Typing
      <4>2. /\ Len(todo) \in Nat \ {0} /\ Len(todo') = Len(todo) - 1 /\ Head(todo) = todo[1]
            /\ \A i \in 1 .. Len(todo) - 1 : todo'[i] = todo[i + 1]
            /\ todo' \in Seq(Op)
        BY <4>1, Tailed
      <4>3. CASE todo' = <<>>
        <5>1. Head(todo).op = "flush"
          <6>1. Len(todo) = 1
            BY <4>2, <4>3, EmptyRoutine
          <6> QED
            BY <3>1, <4>1, <4>2, <6>1 DEF Flush
        <5> QED
          BY <3>2, <4>3, <5>1 DEF NextWrite, FlushReturns
      <4>4. CASE todo' # <<>>
        <5>1. Len(todo') \in Nat \ {0}
          BY <4>2, <4>4, Tailed
        <5>2. todo'[Len(todo')] = todo[Len(todo)]
          BY <4>2, <5>1
        <5> QED
          BY <3>1, <4>1, <4>4, <5>2
      <4> QED
        BY <4>3, <4>4
    <3>3. ASSUME NEW n \in 1 .. 3, Send(n) PROVE q # <<>> /\ todo' = todo
      BY <3>3, SendTyping, EmptyRoutine
    <3>4. ASSUME NEW S \in SUBSET (1 .. 3), SendFails(S) PROVE UNCHANGED <<q, todo>>
      BY <3>4 DEF SendFails
    <3> QED
      BY <1>3, <3>1, <3>2, <3>3, <3>4
  <2>6. /\ \A c \in {"user", "map", "macro"} : WillBe(c, "def")
        /\ WillBe("magic", "on") /\ WillBe("flag", "magic") /\ WillBe("cookie", "this")
        /\ WillBe("via", "valid")
    BY <1>3 DEF Applying
  <2>7. /\ \A c \in {"user", "map", "macro"} : WillBe(c, "def")'
        /\ WillBe("magic", "on")' /\ WillBe("flag", "magic")' /\ WillBe("cookie", "this")'
        /\ WillBe("via", "valid")'
    BY <2>4, <2>6
  <2> QED
    BY <2>3, <2>5, <2>7 DEF Applying
<1>4. CASE \/ NextWrite \/ FlushReturns
           \/ \E n \in 1 .. 3 : Send(n)
           \/ \E S \in SUBSET (1 .. 3) : SendFails(S)
  <2>1. pc' = pc
    BY <1>4 DEF NextWrite, FlushReturns, Send, SendFails
  <2> QED
    BY <1>3, <1>4, <2>1
<1>5. CASE Begins \/ Clears
  BY <1>5 DEF Begins, Clears, Running
<1> QED
  BY <1>1, <1>2, <1>4, <1>5, Kinds

-----------------------------------------------------------------------------
(* Who asked *)

\* What the queue does not write stays on the chip.
LEMMA SkippedLands ==
  ASSUME Typing, NEW S, Lands(S), NEW c \in Cell, Skips(q, Len(q), c)
  PROVE  Landed(S)[c] = chip[c]
BY LandedAt DEF Skips

\* Nothing lands from an empty queue.
LEMMA NothingLands ==
  ASSUME Typing, NEW S, Lands(S), q = <<>>
  PROVE  Landed(S) = chip
<1>1. Len(q) = 0
  BY EmptyRoutine
<1>2. \A c \in Cell : Landed(S)[c] = chip[c]
  BY <1>1, SkippedLands DEF Skips
<1>3. Landed(S) \in [Cell -> Val] /\ chip \in [Cell -> Val]
  BY LandedAt DEF Typing
<1> QED
  BY <1>2, <1>3

\* A run goes to one page: the order of two writes to different pages is the order in
\* which they land.
LEMMA OrderLands ==
  ASSUME Typing, NEW S, Lands(S), NEW a \in Cell, NEW c \in Cell, Page[a] # Page[c],
         NEW b, NEW v, Queued(a, b, c, v), chip[a] # b, Landed(S)[a] = b
  PROVE  chip[c] = v /\ Landed(S)[c] = v
<1>1. PICK k \in S : Writes(q[k], a) /\ q[k].val = b
  BY LandedAt
<1>2. PICK n \in 1 .. 3 : Run(n) /\ S \subseteq 1 .. n
  BY <1>1 DEF Lands
<1>3. k \in 1 .. Len(q) /\ k \in 1 .. n /\ q[k].cell = a
  BY <1>1, <1>2, LandedAt DEF Writes
<1>4. ASSUME NEW i \in 1 .. n PROVE ~Writes(q[i], c)
  <2>1. Page[q[i].cell] = Page[a]
    BY <1>2, <1>3, RunFacts
  <2> QED
    BY <2>1 DEF Writes
<1>5. Landed(S)[c] = chip[c]
  BY <1>2, <1>4, LandedAt
<1>6. Reach(chip, q, k - 1, c, v)
  BY <1>1, <1>3 DEF Queued, Early
<1>7. ~Sets(q, k - 1, c, v)
  BY <1>3, <1>4 DEF Sets
<1> QED
  BY <1>5, <1>6, <1>7 DEF Reach

\* QMK's magic does not go off under a flag, nor a flag come over it.
LEMMA OffLands ==
  ASSUME Typing, Resting, Applying, OffKept, MagicKept, NEW S, Lands(S),
         NotHere \/ pc = "apply"
  PROVE  Landed(S).magic = "off" => Landed(S).flag = "zero"
<1> USE CellSet
<1>1. CASE q = <<>>
  BY <1>1, NothingLands DEF OffKept, Off
<1>2. CASE pc = "apply" /\ q # <<>>
  <2> SUFFICES ASSUME Landed(S)["magic"] = "off", Landed(S)["flag"] # "zero" PROVE FALSE
    OBVIOUS
  <2>1. Queued("flag", "magic", "magic", "on") /\ Queued("magic", "off", "flag", "zero")
    BY <1>2 DEF Applying, Ordered
  <2>2. Page["flag"] # Page["magic"]
    BY DEF Page
  <2>3. Landed(S)["flag"] = "magic"
    BY ChipTyping DEF Values
  <2>4. CASE chip["magic"] = "off"
    <3>1. chip["flag"] # "magic"
      BY <1>2, <2>4 DEF OffKept, Off
    <3>2. chip["magic"] = "on"
      BY <2>1, <2>2, <2>3, <3>1, OrderLands
    <3> QED
      BY <2>4, <3>2
  <2>5. CASE chip["magic"] # "off"
    BY <2>1, <2>2, <2>5, OrderLands
  <2> QED
    BY <2>4, <2>5
<1>3. CASE pc # "apply" /\ q # <<>>
  <2>1. pc \in {"run", "clear"}
    BY <1>3 DEF Resting, Typing
  <2>2. chip.magic = "on" /\ Skips(q, Len(q), "magic")
    BY <1>3, <2>1 DEF MagicKept, Untouched
  <2> QED
    BY <2>2, SkippedLands
<1> QED
  BY <1>1, <1>2, <1>3

LEMMA SentinelLands ==
  ASSUME Typing, Resting, MagicKept, SentinelKept, NEW S, Lands(S), asked = {}
  PROVE  Sentinel(Landed(S)) /\ Landed(S).magic = "on"
<1> USE CellSet
<1>1. CASE q = <<>>
  BY <1>1, NothingLands DEF SentinelKept
<1>2. CASE q # <<>>
  <2>1. pc = "run"
    BY <1>2 DEF SentinelKept, Resting, Typing
  <2>2. \A c \in {"magic", "flag", "cookie"} : Skips(q, Len(q), c)
    BY <2>1 DEF SentinelKept, MagicKept, Untouched, NotHere
  <2>3. \A c \in {"magic", "flag", "cookie"} : Landed(S)[c] = chip[c]
    BY <2>2, SkippedLands
  <2> QED
    BY <2>3 DEF SentinelKept, Sentinel
<1> QED
  BY <1>1, <1>2

\* What nothing writes stays so.
LEMMA UntouchedStep ==
  ASSUME Typing, NEW c \in Cell, Untouched(c),
         \/ NextWrite \/ FlushReturns
         \/ \E n \in 1 .. 3 : Send(n)
         \/ \E S \in SUBSET (1 .. 3) : SendFails(S)
  PROVE  Untouched(c)' /\ chip'[c] = chip[c]
<1>1. ASSUME NextWrite \/ FlushReturns
      PROVE  Skips(todo', Len(todo'), c) /\ ~Writes(Head(todo), c) /\ chip' = chip
  <2>1. todo \in Seq(Op) /\ todo # <<>> /\ todo' = Tail(todo) /\ chip' = chip
    BY <1>1 DEF NextWrite, FlushReturns, Typing
  <2>2. /\ Len(todo) \in Nat \ {0} /\ Len(todo') = Len(todo) - 1 /\ Head(todo) = todo[1]
        /\ \A i \in 1 .. Len(todo) - 1 : todo'[i] = todo[i + 1]
    BY <2>1, Tailed
  <2> QED
    BY <2>1, <2>2 DEF Untouched, Skips
<1>2. CASE FlushReturns
  BY <1>1, <1>2 DEF FlushReturns, Untouched
<1>3. CASE NextWrite
  <2>1. CASE q' = q
    BY <1>1, <1>3, <2>1 DEF Untouched
  <2>2. CASE q' # q
    <3>1. PICK e \in Entry : q' = Append(q, e) /\ (Writes(e, c) <=> Writes(Head(todo), c))
      BY <1>3, <2>2, WriteTyping
    <3>2. /\ Len(q) \in Nat /\ Len(q') = Len(q) + 1
          /\ \A i \in 1 .. Len(q) : q'[i] = q[i]
          /\ q'[Len(q) + 1] = e
      BY <3>1, Appended DEF Typing
    <3>3. Skips(q', Len(q'), c)
      BY <1>1, <1>3, <3>1, <3>2 DEF Untouched, Skips
    <3> QED
      BY <1>1, <1>3, <3>3 DEF Untouched
  <2> QED
    BY <2>1, <2>2
<1>4. ASSUME NEW n \in 1 .. 3, Send(n) PROVE Untouched(c)' /\ chip'[c] = chip[c]
  <2>1. /\ chip' = Landed(1 .. n) /\ Lands(1 .. n) /\ todo' = todo
        /\ n \in 1 .. Len(q) /\ Len(q) \in Nat /\ Len(q') = Len(q) - n
        /\ \A i \in 1 .. Len(q) - n : q'[i] = q[i + n]
    BY <1>4, SendTyping, Zenon
  <2>2. ASSUME NEW i \in 1 .. Len(q') PROVE ~Writes(q'[i], c)
    <3>1. i + n \in 1 .. Len(q) /\ q'[i] = q[i + n]
      BY <2>1
    <3> QED
      BY <3>1 DEF Untouched, Skips
  <2>3. chip'[c] = chip[c]
    BY <2>1, SkippedLands DEF Untouched
  <2> QED
    BY <2>1, <2>2, <2>3 DEF Untouched, Skips
<1>5. ASSUME NEW S \in SUBSET (1 .. 3), SendFails(S) PROVE Untouched(c)' /\ chip'[c] = chip[c]
  <2>1. Lands(S) /\ chip' = Landed(S) /\ UNCHANGED <<q, todo>>
    BY <1>5 DEF SendFails, Lands
  <2> QED
    BY <2>1, SkippedLands DEF Untouched
<1> QED
  BY <1>2, <1>3, <1>4, <1>5

\* With no routine left and nothing queued, the chip holds what was to be written.
LEMMA Arrived ==
  ASSUME NEW c, NEW v, WillBe(c, v), todo = <<>>
  PROVE  buf[c] = v /\ (Mirrors(c) /\ q = <<>> => chip[c] = v)
<1>1. Len(todo) = 0
  BY EmptyRoutine
<1>2. buf[c] = v
  BY <1>1 DEF WillBe, Reach, Sets
<1> QED
  BY <1>2, NothingQueued DEF Mirrors

\* Steps that carry the writes on.
LEMMA UnaskedWrites ==
  ASSUME Inv,
         \/ NextWrite \/ FlushReturns
         \/ \E n \in 1 .. 3 : Send(n)
         \/ \E S \in SUBSET (1 .. 3) : SendFails(S)
  PROVE  Unasked'
<1> USE CellSet DEF Inv, Unasked
<1>1. pc' = pc /\ asked' = asked
  BY DEF NextWrite, FlushReturns, Send, SendFails
<1>2. \A c \in Cell : Untouched(c) => Untouched(c)' /\ chip'[c] = chip[c]
  BY UntouchedStep
<1>3. chip' = chip \/ \E S : Lands(S) /\ chip' = Landed(S)
  <2>1. ASSUME NEW n \in 1 .. 3, Send(n) PROVE Lands(1 .. n) /\ chip' = Landed(1 .. n)
    BY <2>1, SendTyping
  <2>2. ASSUME NEW S \in SUBSET (1 .. 3), SendFails(S) PROVE Lands(S) /\ chip' = Landed(S)
    BY <2>2 DEF SendFails, Lands
  <2> QED
    BY <2>1, <2>2 DEF NextWrite, FlushReturns
<1>4. OffKept'
  BY <1>1, <1>3, OffLands DEF OffKept, Off, NotHere
<1>5. MagicKept'
  BY <1>1, <1>2 DEF MagicKept, NotHere
<1>6. SentinelKept'
  <2> SUFFICES ASSUME asked = {} PROVE SentinelKept'
    BY <1>1 DEF SentinelKept
  <2>1. Sentinel(chip') /\ chip'.magic = "on"
    BY <1>3, SentinelLands DEF SentinelKept
  <2> QED
    BY <1>1, <1>2, <2>1 DEF SentinelKept
<1>7. SentinelComing'
  <2>1. \A c \in Cell : \A v : WillBe(c, v) => WillBe(c, v)'
    <3>1. CASE NextWrite \/ FlushReturns
      BY <3>1, ScheduledStep
    <3>2. CASE UNCHANGED <<buf, todo>>
      BY <3>2 DEF WillBe
    <3> QED
      BY <3>1, <3>2 DEF Send, SendFails
  <2> QED
    BY <1>1, <2>1 DEF SentinelComing
<1>8. FirmwareFirst'
  BY <1>1 DEF FirmwareFirst
<1> QED
  BY <1>4, <1>5, <1>6, <1>7, <1>8

\* An attempt that fails leaves the chip with what it had.
LEMMA UnaskedFails ==
  ASSUME Inv, Fails, asked' = asked, chip' = chip
  PROVE  Unasked'
<1> USE CellSet DEF Inv, Unasked
<1>1. /\ pc' \in {"check", "halt"} /\ todo' = <<>> /\ q' = <<>>
      /\ Len(todo') = 0 /\ Len(q') = 0
  BY EmptyRoutine DEF Fails, eeprom_init
<1>2. \A c \in Cell : Untouched(c)'
  BY <1>1 DEF Untouched, Skips
<1> QED
  BY <1>1, <1>2 DEF OffKept, Off, NotHere, MagicKept, SentinelKept, SentinelComing, FirmwareFirst

\* The check.
LEMMA UnaskedCheck ==
  ASSUME Inv,
         \/ CheckPasses
         \/ \E ok, landed \in BOOLEAN : CheckBegins(ok, landed)
  PROVE  Unasked'
<1> USE CellSet DEF Inv, Unasked
<1>1. CASE CheckPasses
  <2>1. /\ pc = "check" /\ pc' = "start" /\ Sentinel(chip) /\ UNCHANGED <<chip, buf, q, todo>>
        /\ asked' = IF chip.magic = "off" THEN asked \cap {"here"} ELSE {}
    BY <1>1 DEF CheckPasses
  <2>2. q = <<>> /\ todo = <<>> /\ Len(q) = 0 /\ Len(todo) = 0
    BY <2>1, EmptyRoutine DEF Resting
  <2>3. \A c \in Cell : Untouched(c)'
    BY <2>1, <2>2 DEF Untouched, Skips
  <2>4. chip.magic \in {"on", "off"}
    BY DEF Typing, Values
  <2>5. chip.magic = "on" \/ "here" \in asked'
    BY <2>1, <2>4 DEF OffKept, Off, NotHere, Sentinel
  <2>6. WillBe("flag", "magic")' /\ WillBe("cookie", "this")'
    <3>1. Mirrors("flag") /\ Mirrors("cookie")
      BY <2>1 DEF Mirroring
    <3>2. buf["flag"] = "magic" /\ buf["cookie"] = "this"
      BY <2>1, <2>2, <3>1, NothingQueued DEF Mirrors, Sentinel
    <3> QED
      BY <2>1, <2>2, <3>2 DEF WillBe, Reach, Skips
  <2>7. asked' \subseteq {"here"}
    BY <2>1
  <2>8. OffKept' /\ MagicKept'
    BY <2>1, <2>3, <2>5 DEF OffKept, Off, NotHere, MagicKept
  <2>9. SentinelKept'
    BY <2>1, <2>3, <2>5 DEF SentinelKept, Sentinel
  <2>10. SentinelComing' /\ FirmwareFirst'
    BY <2>6, <2>7 DEF SentinelComing, FirmwareFirst
  <2> QED
    BY <2>8, <2>9, <2>10
<1>2. ASSUME NEW ok \in BOOLEAN, NEW landed \in BOOLEAN, CheckBegins(ok, landed) PROVE Unasked'
  <2>1. pc = "check" /\ ~Sentinel(chip) /\ asked' = asked /\ asked # {}
    BY <1>2 DEF CheckBegins, SentinelKept
  <2>2. chip'.magic = chip.magic /\ chip'.flag \in {chip.flag, "zero"}
    BY <1>2, DirectTyping DEF CheckBegins
  <2>3. pc' \in {"check", "apply", "halt"} /\ (pc' = "apply" => ok)
    BY <1>2 DEF CheckBegins, Fails
  <2>4. pc' = "apply" => chip'.flag = "zero"
    <3>1. CASE chip.flag = "magic"
      <4>1. ok => chip' = [chip EXCEPT !["flag"] = "zero"]
        BY <1>2, <3>1 DEF CheckBegins, Direct
      <4> QED
        BY <2>3, <4>1 DEF Typing
    <3>2. CASE chip.flag # "magic"
      <4>1. chip.flag \in {"magic", "zero"}
        BY DEF Typing, Values
      <4> QED
        BY <2>2, <3>2, <4>1
    <3> QED
      BY <3>1, <3>2
  <2>5. OffKept'
    BY <2>1, <2>2, <2>4 DEF OffKept, Off, NotHere
  <2> QED
    BY <2>1, <2>3, <2>5 DEF MagicKept, SentinelKept, SentinelComing, FirmwareFirst
<1> QED
  BY <1>1, <1>2

\* The defaults have been applied.
LEMMA UnaskedDone ==
  ASSUME Inv, ApplyDone
  PROVE  Unasked' /\ (\A c \in {"user", "map", "macro"} : chip[c] = "def")
         /\ Sentinel(chip) /\ chip["via"] = "valid"
<1> USE CellSet DEF Inv, Unasked
<1>1. /\ pc = "apply" /\ todo = <<>> /\ pc' = "start" /\ asked' = {}
      /\ UNCHANGED <<chip, buf, q, todo>>
  BY DEF ApplyDone
<1>2. q = <<>> /\ Len(q) = 0 /\ Len(todo) = 0
  BY <1>1, EmptyRoutine DEF Applying
<1>3. \A c \in Cell : Mirrors(c)
  BY <1>1 DEF Mirroring
<1>4. \A c \in Cell : \A v : WillBe(c, v) => chip[c] = v
  BY <1>1, <1>2, <1>3, Arrived
<1>5. /\ \A c \in {"user", "map", "macro"} : chip[c] = "def"
      /\ chip["magic"] = "on" /\ chip["flag"] = "magic" /\ chip["cookie"] = "this"
      /\ chip["via"] = "valid"
  BY <1>1, <1>4 DEF Applying
<1>6. \A c \in Cell : Untouched(c)'
  BY <1>1, <1>2 DEF Untouched, Skips
<1>7. WillBe("flag", "magic")' /\ WillBe("cookie", "this")'
  BY <1>1 DEF Applying, WillBe
<1> QED
  BY <1>1, <1>5, <1>6, <1>7 DEF OffKept, Off, MagicKept, SentinelKept, SentinelComing,
     FirmwareFirst, Sentinel

\* The boot goes on to the main loop.
LEMMA UnaskedInit ==
  ASSUME Inv, QmkInit
  PROVE  Unasked'
<1> USE CellSet DEF Inv, Unasked
<1> DEFINE K == keyboard_init(chip)
<1>1. /\ pc = "start" /\ pc' = "run" /\ chip' = chip /\ buf' = chip /\ q' = <<>> /\ todo' = K
      /\ asked' = asked
  BY DEF QmkInit, eeprom_init
<1>2. q = <<>> /\ todo = <<>> /\ Len(q') = 0
  BY <1>1, EmptyRoutine DEF Resting
<1>3. /\ chip.magic = "on" => \A c \in {"magic", "flag", "cookie"} : Skips(K, Len(K), c)
      /\ chip.magic # "on" => Sets(K, Len(K), "flag", "magic") /\ Sets(K, Len(K), "cookie", "this")
  BY BootRoutine, Zenon
<1> HIDE DEF K
<1>4. OffKept' /\ FirmwareFirst'
  BY <1>1 DEF OffKept, Off, NotHere, FirmwareFirst
<1>5. MagicKept'
  BY <1>1, <1>2, <1>3 DEF MagicKept, NotHere, Untouched, Skips
<1>6. SentinelKept'
  BY <1>1, <1>2, <1>3 DEF SentinelKept, Sentinel, Untouched, Skips
<1>7. SentinelComing'
  <2> SUFFICES ASSUME asked \subseteq {"here"} PROVE WillBe("flag", "magic")' /\ WillBe("cookie", "this")'
    BY <1>1 DEF SentinelComing
  <2>1. WillBe("flag", "magic") /\ WillBe("cookie", "this") /\ Mirrors("flag") /\ Mirrors("cookie")
    BY <1>1 DEF SentinelComing, Mirroring
  <2>2. chip["flag"] = "magic" /\ chip["cookie"] = "this"
    BY <1>2, <2>1, Arrived
  <2> QED
    BY <1>1, <1>3, <2>2 DEF WillBe, Reach
<1> QED
  BY <1>4, <1>5, <1>6, <1>7

\* What the user does in the main loop.
LEMMA UnaskedRun ==
  ASSUME Inv,
         (\E c \in {"user", "map", "macro"} : Save(c)) \/ CliClear \/ KeyClear
  PROVE  Unasked'
<1> USE CellSet DEF Inv, Unasked
<1>1. /\ pc = "run" /\ todo = <<>> /\ UNCHANGED <<chip, buf, q, pc>>
      /\ asked' = asked \/ (asked = {} /\ asked' = {"here"})
  BY DEF Save, CliClear, KeyClear, Running
<1>2. OffKept' /\ FirmwareFirst'
  BY <1>1 DEF OffKept, Off, NotHere, FirmwareFirst
<1>3. asked \subseteq {"here"} => buf["flag"] = "magic" /\ buf["cookie"] = "this"
  BY <1>1, Arrived DEF SentinelComing
<1>4. ASSUME NEW c \in {"user", "map", "macro"}, Save(c)
      PROVE  MagicKept' /\ SentinelKept' /\ SentinelComing'
  <2>1. todo' = << Update(c, "user") >> /\ asked' = asked
    BY <1>4 DEF Save
  <2>2. Len(todo') = 1 /\ todo'[1] = Update(c, "user")
    BY <2>1, OneRoutine
  <2>3. \A d \in {"magic", "flag", "cookie"} : Skips(todo', Len(todo'), d)
    BY <2>2, OpWrites DEF Skips, Val
  <2>4. MagicKept' /\ SentinelKept'
    BY <1>1, <2>1, <2>3 DEF MagicKept, NotHere, SentinelKept, Sentinel, Untouched
  <2>5. SentinelComing'
    BY <1>1, <1>3, <2>1, <2>3 DEF SentinelComing, WillBe, Reach
  <2> QED
    BY <2>4, <2>5
<1>5. CASE CliClear
  <2>1. todo' = eeconfig_init /\ asked' = {"here"}
    BY <1>5 DEF CliClear
  <2>2. WillBe("flag", "magic")' /\ WillBe("cookie", "this")'
    BY <2>1, InitRoutine DEF WillBe, Reach
  <2> QED
    BY <1>2, <2>1, <2>2 DEF MagicKept, NotHere, SentinelKept, SentinelComing
<1>6. CASE KeyClear
  <2>1. todo' = << Update("magic", "off") >> /\ asked' = {"here"} /\ asked = {}
    BY <1>6 DEF KeyClear
  <2>2. Len(todo') = 1 /\ todo'[1] = Update("magic", "off")
    BY <2>1, OneRoutine
  <2>3. \A d \in {"flag", "cookie"} : Skips(todo', Len(todo'), d)
    BY <2>2, OpWrites DEF Skips, Val
  <2>4. WillBe("flag", "magic")' /\ WillBe("cookie", "this")'
    BY <1>1, <1>3, <2>1, <2>3 DEF WillBe, Reach
  <2> QED
    BY <1>2, <2>1, <2>4 DEF MagicKept, NotHere, SentinelKept, SentinelComing
<1> QED
  BY <1>2, <1>4, <1>5, <1>6

\* VIA asks for a reset.
LEMMA UnaskedClear ==
  ASSUME Inv, \E ok, landed \in BOOLEAN : ClearFlag(ok, landed) \/ ClearCookie(ok, landed)
  PROVE  Unasked'
<1> USE CellSet DEF Inv, Unasked
<1>1. PICK ok \in BOOLEAN, landed \in BOOLEAN : ClearFlag(ok, landed) \/ ClearCookie(ok, landed)
  OBVIOUS
<1>2. /\ pc \in {"run", "clear"} /\ pc' \in {"run", "clear"}
      /\ UNCHANGED <<buf, q, todo>> /\ asked' = asked \cup {"via"}
  BY <1>1 DEF ClearFlag, ClearCookie, Running, Resting
<1>3. chip'.magic = chip.magic /\ chip'.flag \in {chip.flag, "zero"}
  BY <1>1, DirectTyping DEF ClearFlag, ClearCookie
<1> QED
  BY <1>2, <1>3 DEF OffKept, Off, NotHere, MagicKept, Untouched, SentinelKept, SentinelComing,
     FirmwareFirst

\* A restart, in the middle of anything.
LEMMA UnaskedRestart ==
  ASSUME Inv, NEW S \in SUBSET (1 .. 3), Restart(S)
  PROVE  Unasked'
<1> USE CellSet DEF Inv, Unasked
<1>1. /\ Lands(S) /\ chip' = Landed(S) /\ pc' = "check" /\ todo' = <<>> /\ q' = <<>>
      /\ asked' = IF Running /\ q = <<>> /\ chip.magic = "on" THEN asked \ {"here"} ELSE asked
      /\ Len(todo') = 0 /\ Len(q') = 0
  BY EmptyRoutine DEF Restart, Lands, eeprom_init
<1>2. \A c \in Cell : Untouched(c)'
  BY <1>1 DEF Untouched, Skips
<1>3. CASE asked' = asked
  <2>1. OffKept'
    BY <1>1, <1>3, OffLands DEF OffKept, Off, NotHere
  <2>2. SentinelKept'
    BY <1>1, <1>2, <1>3, SentinelLands DEF SentinelKept
  <2> QED
    BY <1>1, <2>1, <2>2 DEF MagicKept, SentinelComing, FirmwareFirst
<1>4. CASE Running /\ q = <<>> /\ chip.magic = "on" /\ asked' = asked \ {"here"}
  <2>1. chip' = chip /\ pc = "run" /\ todo = <<>>
    BY <1>1, <1>4, NothingLands DEF Running
  <2>2. OffKept'
    BY <1>4, <2>1 DEF OffKept, Off
  <2>3. SentinelKept'
    <3> SUFFICES ASSUME asked' = {} PROVE Sentinel(chip)
      BY <1>1, <1>2, <1>4, <2>1 DEF SentinelKept, Sentinel
    <3>1. asked \subseteq {"here"}
      BY <1>4
    <3>2. WillBe("flag", "magic") /\ WillBe("cookie", "this") /\ Mirrors("flag") /\ Mirrors("cookie")
      BY <2>1, <3>1 DEF SentinelComing, Mirroring
    <3> QED
      BY <1>4, <2>1, <3>2, Arrived DEF Sentinel
  <2> QED
    BY <1>1, <2>2, <2>3 DEF MagicKept, SentinelComing, FirmwareFirst
<1> QED
  BY <1>1, <1>3, <1>4

LEMMA UnaskedStep ==
  ASSUME Inv, [Next]_vars
  PROVE  Unasked'
<1>1. CASE UNCHANGED vars
  BY <1>1 DEF vars, Inv, Unasked, OffKept, Off, NotHere, MagicKept, Untouched, SentinelKept,
     Sentinel, SentinelComing, WillBe, FirmwareFirst
<1>2. CASE CheckFails \/ FlushGivesUp
  BY <1>2, UnaskedFails DEF CheckFails, FlushGivesUp
<1>3. CASE ApplyDone
  BY <1>3, UnaskedDone
<1>4. CASE QmkInit
  BY <1>4, UnaskedInit
<1> QED
  BY <1>1, <1>2, <1>3, <1>4, UnaskedWrites, UnaskedCheck, UnaskedRun, UnaskedClear, UnaskedRestart
     DEF Next, Booting, Sending

\* VIA's magic lands on macros at their defaults; a keymap that is not was edited behind it.
LEMMA MagicLands ==
  ASSUME Typing, Vouching, NEW S, Lands(S), chip["via"] = "invalid", Landed(S)["via"] = "valid"
  PROVE  /\ Landed(S)["macro"] = "def"
         /\ \/ Landed(S)["map"] = "def"
            \/ \E i \in 2 .. Len(q) : q[i] = [cell |-> "map", val |-> "user"]
<1> DEFINE Edited == \E i \in 2 .. Len(q) : q[i] = [cell |-> "map", val |-> "user"]
<1> USE CellSet
<1>1. \A c \in {"map", "macro"} : Queued("via", "valid", c, "def")
  BY DEF Vouching, Ordered
<1>2. Landed(S)["macro"] = "def"
  <2>1. Page["via"] # Page["macro"]
    BY DEF Page
  <2> QED
    BY <1>1, <2>1, OrderLands
<1>3. PICK k \in S : Writes(q[k], "via") /\ q[k].val = "valid"
  BY LandedAt
<1>4. PICK n \in 1 .. 3 : Run(n) /\ S \subseteq 1 .. n
  BY <1>3 DEF Lands
<1>5. /\ k \in 1 .. Len(q) /\ k \in 1 .. n /\ q[k].cell = "via" /\ n \in 1 .. Len(q)
      /\ Len(q) \in Nat
  BY <1>3, <1>4, LandedAt, RunFacts DEF Writes
<1>6. k = 1
  <2> SUFFICES ASSUME k # 1 PROVE FALSE
    OBVIOUS
  <2>1. 1 \in 1 .. n /\ 1 < k
    BY <1>5
  <2>2. Place[q[1].cell] < Place["via"] /\ q[1].cell \in Cell
    BY <1>4, <1>5, <2>1, RunFacts
  <2> QED
    BY <2>2, Places DEF Place
<1>7. chip["map"] = "def" \/ Early(1, "via", "map")
  <2>1. Reach(chip, q, 1 - 1, "map", "def") \/ Early(1, "via", "map")
    BY <1>1, <1>3, <1>5, <1>6 DEF Queued
  <2> QED
    BY <2>1 DEF Reach, Sets
<1>8. ASSUME NEW i \in 1 .. Len(q), Writes(q[i], "map"), q[i].val # "def" PROVE Edited
  <2>1. q[i] \in Entry /\ q[i].cell = "map" /\ q[i].val \in {"user", "def"}
    BY <1>8, ElementOfSeq, EntryFields DEF Typing, Typed, Values, Writes
  <2>2. q[i] = [cell |-> "map", val |-> "user"]
    BY <1>8, <2>1 DEF Entry
  <2>3. i # 1
    BY <1>5, <1>6, <2>1
  <2> QED
    BY <1>5, <2>2, <2>3
<1>9. CASE chip["map"] = "def"
  <2>1. \/ Landed(S)["map"] = chip["map"]
        \/ \E i \in S : Writes(q[i], "map") /\ Landed(S)["map"] = q[i].val
    BY LandedAt
  <2> QED
    BY <1>2, <1>8, <1>9, <2>1, LandedAt
<1>10. CASE chip["map"] # "def"
  <2>1. PICK i \in 2 .. Len(q) : Writes(q[i], "map") /\ q[i].val = chip["map"]
    BY <1>7, <1>10 DEF Early
  <2> QED
    BY <1>2, <1>5, <1>8, <1>10, <2>1
<1> QED
  BY <1>9, <1>10

\* Only what lands from the queue changes VIA's magic.
LEMMA MagicStep ==
  ASSUME Typing, Resting, [Next]_vars
  PROVE  chip'["via"] = chip["via"] \/ \E S : Lands(S) /\ chip' = Landed(S)
<1> USE CellSet
<1>1. CASE \/ CheckFails \/ CheckPasses \/ NextWrite \/ FlushReturns \/ FlushGivesUp
           \/ ApplyDone \/ QmkInit \/ CliClear \/ KeyClear \/ UNCHANGED vars
           \/ \E c \in {"user", "map", "macro"} : Save(c)
  BY <1>1 DEF CheckFails, CheckPasses, NextWrite, FlushReturns, FlushGivesUp, ApplyDone,
     QmkInit, CliClear, KeyClear, Save, vars
<1>2. CASE \E ok, landed \in BOOLEAN : CheckBegins(ok, landed)
  BY <1>2, DirectTyping DEF CheckBegins
<1>3. CASE \E ok, landed \in BOOLEAN : ClearFlag(ok, landed) \/ ClearCookie(ok, landed)
  BY <1>3, DirectTyping DEF ClearFlag, ClearCookie
<1>4. ASSUME NEW n \in 1 .. 3, Send(n) PROVE Lands(1 .. n) /\ chip' = Landed(1 .. n)
  BY <1>4, SendTyping
<1>5. ASSUME NEW S \in SUBSET (1 .. 3), SendFails(S) PROVE Lands(S) /\ chip' = Landed(S)
  BY <1>5 DEF SendFails, Lands
<1>6. ASSUME NEW S \in SUBSET (1 .. 3), Restart(S) PROVE Lands(S) /\ chip' = Landed(S)
  BY <1>6 DEF Restart, Lands
<1> QED
  BY <1>1, <1>2, <1>3, <1>4, <1>5, <1>6 DEF Next, Booting, Sending

-----------------------------------------------------------------------------
(* The theorems *)

LEMMA InitInv == Init => Inv
<1> SUFFICES ASSUME Init PROVE Inv
  OBVIOUS
<1> USE CellSet
<1>1. Typing
  BY InitTyping
<1>2. /\ q = <<>> /\ todo = <<>> /\ pc = "check" /\ buf = chip /\ Len(q) = 0 /\ Len(todo) = 0
      /\ asked = IF Sentinel(chip) THEN {} ELSE {"firmware"}
  BY EmptyRoutine DEF Init
<1>3. Off /\ (Sentinel(chip) => chip.magic = "on")
  BY DEF Init, Off, Sentinel
<1>4. Resting /\ Applying
  BY <1>2 DEF Resting, Applying
<1>5. Mirroring
  BY <1>2 DEF Mirroring, Mirrors, Reach, Skips
<1>6. Vouching
  BY <1>2 DEF Vouching, Ordered, Scheduled, Queued
<1>7. \A c \in Cell : Untouched(c)
  BY <1>2 DEF Untouched, Skips
<1>8. Unasked
  BY <1>2, <1>3, <1>7 DEF Unasked, OffKept, MagicKept, SentinelKept, SentinelComing, FirmwareFirst
<1> QED
  BY <1>1, <1>4, <1>5, <1>6, <1>8 DEF Inv

LEMMA StepInv == Inv /\ [Next]_vars => Inv'
<1> SUFFICES ASSUME Inv, [Next]_vars PROVE Inv'
  OBVIOUS
<1>1. Typing /\ Resting /\ Mirroring /\ Vouching /\ Applying
  BY DEF Inv
<1> QED
  BY <1>1, TypingStep, RestingStep, MirroringStep, VouchingStep, ApplyingStep, UnaskedStep DEF Inv

\* The inductive invariant holds in every reachable state.
THEOREM InvHolds == Spec => []Inv
BY InitInv, StepInv, PTL DEF Spec

\* Every variable keeps its type: the attempts stay below the limit of hw.c:34-55, and no
\* routine is longer than the one that writes the defaults.
THEOREM TypeCorrect == Spec => []TypeOK
<1>1. Inv => TypeOK
  <2> SUFFICES ASSUME Typing PROVE TypeOK
    BY DEF Inv
  <2>1. Len(q) \in Nat /\ DOMAIN q = 1 .. Len(q) /\ \A i \in 1 .. Len(q) : q[i] \in Entry
    BY LenProperties, ElementOfSeq DEF Typing
  <2>2. \A i \in DOMAIN q : q[i].cell \in Cell /\ q[i].val \in Values[q[i].cell]
    BY <2>1, EntryFields DEF Typing, Typed
  <2>3. Len(todo) <= Len(eeprom_apply_factory_defaults)
    BY ApplyItems DEF Typing
  <2> QED
    BY <2>2, <2>3 DEF Typing, TypeOK
<1> QED
  BY <1>1, InvHolds, PTL

\* A boot wipes the settings only if someone asked for it or the firmware is new, whatever
\* boots were cut short before (hw.c:34-55).
THEOREM OnlyWhenAsked == Spec => []ResetOnlyWhenAsked
<1>1. Inv => ResetOnlyWhenAsked
  BY DEF Inv, Unasked, SentinelKept, ResetOnlyWhenAsked
<1> QED
  BY <1>1, InvHolds, PTL

\* A reset that is reported as done is on the chip: the defaults, the sentinel and VIA's
\* magic, after any number of attempts that failed (eeprom_auto_factory_reset.c:105-120).
THEOREM DoneIsStored == Spec => AppliedIsStored
<1>1. Inv /\ [Next]_vars => [ApplyDone => Defaulted(chip) /\ Sentinel(chip) /\ chip.via = "valid"]_vars
  BY UnaskedDone DEF Defaulted
<1> QED
  BY <1>1, InvHolds, PTL DEF Spec, AppliedIsStored

\* VIA's magic comes to the chip over macros that hold their defaults and a keymap that
\* does, or that the user has edited behind it (via.c:106-117).
THEOREM MagicVouches == Spec => KeymapVouched
<1>1. Inv /\ [Next]_vars
        => [chip.via = "invalid" /\ chip'.via = "valid"
              => /\ chip'.macro = "def"
                 /\ \/ chip'.map = "def"
                    \/ \E i \in 2 .. Len(q) : q[i] = [cell |-> "map", val |-> "user"]]_vars
  BY MagicLands, MagicStep DEF Inv
<1> QED
  BY <1>1, InvHolds, PTL DEF Spec, KeymapVouched

=============================================================================
