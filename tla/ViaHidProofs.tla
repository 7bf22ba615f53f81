---------------------------- MODULE ViaHidProofs ----------------------------
(***************************************************************************)
(* Proofs about ViaHid, for every size of its rings, every delay and every *)
(* number of commands and configurations.                                  *)
(*                                                                         *)
(* FlowControl is not inductive: the permission that a configuration adds  *)
(* is a new one only because a device that is not configured has none      *)
(* armed, and the start of via_hid_task empties a ring only that nobody    *)
(* could have filled (Silent).                                             *)
(*                                                                         *)
(* RightAnswers follows from two invariants: Ordered, that all that is     *)
(* under way is in the order of the commands, from the first ring to the   *)
(* endpoint, and OneAtATime, where the one command of a patient host is.   *)
(***************************************************************************)
EXTENDS ViaHid, SequenceTheorems, TLAPS

\* Taking the oldest element off a ring.
LEMMA TailShorter ==
  ASSUME NEW S, NEW q \in Seq(S), q # <<>>
  PROVE  Head(q) \in S /\ Tail(q) \in Seq(S) /\ Len(Tail(q)) = Len(q) - 1
BY HeadTailProperties

\* Putting one more in.
LEMMA AppendLonger ==
  ASSUME NEW S, NEW q \in Seq(S), NEW e \in S
  PROVE  Append(q, e) \in Seq(S) /\ Len(Append(q, e)) = Len(q) + 1
BY AppendProperties

LEMMA LenNat ==
  ASSUME NEW S, NEW q \in Seq(S)
  PROVE  Len(q) \in Nat /\ (Len(q) = 0 <=> q = <<>>)
BY LenProperties, EmptySeq

\* What the FIFO holds after an answer was copied to it.
LEMMA LoadsType ==
  ASSUME fifo \in Seq(Packet), NEW b \in Packet, NEW f \in Loads(b)
  PROVE  f \in Seq(Packet)
<1>1. <<b>> \in Seq(Packet)
  OBVIOUS
<1>2. CASE fifo = <<>>
  BY <1>1, <1>2 DEF Loads
<1>3. CASE fifo # <<>>
  <2>1. Head(fifo) \in Packet
    BY <1>3, TailShorter
  <2>2. <<Head(fifo), b>> \in Seq(Packet)
    BY <2>1
  <2> QED
    BY <1>1, <1>3, <2>2 DEF Loads
<1> QED
  BY <1>2, <1>3

LEMMA PacketType ==
  ASSUME NEW n \in Number
  PROVE  Command(n) \in Packet /\ Answer(n) \in Packet
BY DEF Command, Answer, Packet

LEMMA NextNumber ==
  ASSUME TypeOK, DataOut
  PROVE  sent + 1 \in Number
<1>1. sent \in Number
  BY DEF TypeOK
<1>2. sent < MaxCommands
  BY DEF DataOut
<1> QED
  BY <1>1, <1>2, ViaAssumption DEF Number

-----------------------------------------------------------------------------

\* Every action keeps the types and the rings inside their room.
LEMMA TypeKept ==
  ASSUME TypeOK, [Next]_vars
  PROVE  TypeOK'
<1> USE ViaAssumption DEF TypeOK, host, link
<1>1. CASE DataOut
  <2>1. sent + 1 \in Number
    BY <1>1, NextNumber
  <2>2. 0 \in Number
    BY DEF Number
  <2>3. buf' \in Packet
    BY <1>1, <2>1, PacketType DEF DataOut
  <2>4. rx' \in Seq(Number) /\ Len(rx') <= RxRoom
    <3>1. CASE hooked /\ HasRoom(rx, RxRoom)
      <4>1. rx' = Append(rx, sent + 1)
        BY <1>1, <3>1 DEF DataOut
      <4>2. Append(rx, sent + 1) \in Seq(Number) /\ Len(Append(rx, sent + 1)) = Len(rx) + 1
        BY <2>1, AppendLonger
      <4>3. Len(rx) \in Nat
        BY LenNat
      <4> QED
        BY <3>1, <4>1, <4>2, <4>3 DEF HasRoom
    <3>2. CASE ~(hooked /\ HasRoom(rx, RxRoom))
      BY <1>1, <3>2 DEF DataOut
    <3> QED
      BY <3>1, <3>2
  <2>5. lost' \in BOOLEAN
    BY <1>1 DEF DataOut
  <2>6. {owed', sent', last'} \subseteq Number
    BY <1>1, <2>1, <2>2 DEF DataOut
  <2> QED
    BY <1>1, <2>3, <2>4, <2>5, <2>6 DEF DataOut
<1>2. CASE DataOutEmpty
  BY <1>2 DEF DataOutEmpty
<1>3. CASE Sof
  <2>1. Head(tx) \in Number /\ Tail(tx) \in Seq(Number) /\ Len(Tail(tx)) = Len(tx) - 1
    BY <1>3, TailShorter DEF Sof
  <2>2. buf' \in Packet
    BY <1>3, <2>1, PacketType DEF Sof
  <2>3. Len(tx) \in Nat
    BY LenNat
  <2>4. tx' \in Seq(Number) /\ Len(tx') <= TxRoom
    BY <1>3, <2>1, <2>3 DEF Sof
  <2> QED
    BY <1>3, <2>2, <2>4 DEF Sof
<1>4. CASE Load
  <2>1. fifo' \in Seq(Packet)
    BY <1>4, LoadsType DEF Load
  <2> QED
    BY <1>4, <2>1 DEF Load
<1>5. CASE BusReset
  <2>1. fifo' \in Seq(Packet)
    BY <1>5, EmptySeq DEF BusReset
  <2>2. owed' \in Number
    BY <1>5 DEF BusReset, Number
  <2> QED
    BY <1>5, <2>1, <2>2 DEF BusReset
<1>6. CASE HidInit
  <2>1. inits' \in 0 .. MaxInits
    BY <1>6 DEF HidInit
  <2>2. {hooked', armed', loading', patient', lost'} \subseteq BOOLEAN
    BY <1>6 DEF HidInit
  <2> QED
    BY <1>6, <2>1, <2>2 DEF HidInit
<1>7. CASE Hook
  <2>1. rx' \in Seq(Number) /\ Len(rx') <= RxRoom
    BY <1>7, EmptySeq DEF Hook
  <2> QED
    BY <1>7, <2>1 DEF Hook
<1>8. CASE Take
  <2>1. Head(rx) \in Number /\ Tail(rx) \in Seq(Number) /\ Len(Tail(rx)) = Len(rx) - 1
    BY <1>8, TailShorter DEF Take
  <2>2. Len(rx) \in Nat
    BY LenNat
  <2> QED
    BY <1>8, <2>1, <2>2 DEF Take
<1>9. CASE Respond
  <2>1. CASE HasRoom(tx, TxRoom)
    <3>1. Append(tx, job) \in Seq(Number) /\ Len(Append(tx, job)) = Len(tx) + 1
      BY AppendLonger
    <3>2. Len(tx) \in Nat
      BY LenNat
    <3>3. tx' = Append(tx, job)
      BY <1>9, <2>1 DEF Respond
    <3>4. Len(tx) < TxRoom
      BY <2>1 DEF HasRoom
    <3>5. tx' \in Seq(Number) /\ Len(tx') <= TxRoom
      BY <3>1, <3>2, <3>3, <3>4
    <3> QED
      BY <1>9, <2>1, <3>5 DEF Respond
  <2>2. CASE ~HasRoom(tx, TxRoom)
    BY <1>9, <2>2 DEF Respond
  <2> QED
    BY <2>1, <2>2
<1>10. CASE Stamp
  BY <1>10 DEF Stamp
<1>11. CASE Tick
  BY <1>11 DEF Tick
<1>12. CASE HostReads
  <2>1. Head(fifo) \in Packet /\ Tail(fifo) \in Seq(Packet)
    BY <1>12, TailShorter DEF HostReads
  <2>2. 0 \in Number /\ Head(fifo).number \in Number
    BY <2>1 DEF Packet, Number
  <2>3. {owed', sent', last'} \subseteq Number
    BY <1>12, <2>2 DEF HostReads
  <2> QED
    BY <1>12, <2>1, <2>3 DEF HostReads
<1>13. CASE UNCHANGED vars
  BY <1>13 DEF vars
<1> QED
  BY <1>1, <1>2, <1>3, <1>4, <1>5, <1>6, <1>7, <1>8, <1>9, <1>10, <1>11, <1>12, <1>13
     DEF Next, MainStep

LEMMA TypeHolds == Init => TypeOK
<1> SUFFICES ASSUME Init PROVE TypeOK
  OBVIOUS
<1>1. 0 \in Number
  BY ViaAssumption DEF Number
<1>2. buf \in Packet
  BY <1>1, PacketType DEF Init
<1>3. rx \in Seq(Number) /\ tx \in Seq(Number) /\ fifo \in Seq(Packet)
  BY EmptySeq DEF Init
<1>4. Len(rx) = 0 /\ Len(tx) = 0
  BY DEF Init
<1>5. {hooked, armed, loading, patient, lost} \subseteq BOOLEAN
  BY DEF Init
<1>6. wait \in 0 .. Delay /\ {owed, sent, last} \subseteq Number /\ inits \in 0 .. MaxInits
  BY <1>1, ViaAssumption DEF Init
<1>7. Len(rx) <= RxRoom /\ Len(tx) <= TxRoom
  BY <1>4, ViaAssumption
<1>8. device \in {"configured", "reset"} /\ pc \in {"idle", "handling", "stamp"} /\ job \in Number
  BY <1>1 DEF Init
<1> QED
  BY <1>2, <1>3, <1>5, <1>6, <1>7, <1>8 DEF TypeOK

\* The rings never hold more than they take, and every variable keeps its type
\* (usbd_hid.c:1125-1249, via_hid.c:69-117).
THEOREM TypeCorrect == Spec => []TypeOK
<1>1. TypeOK /\ [Next]_vars => TypeOK'
  BY TypeKept
<1> QED
  BY <1>1, TypeHolds, PTL DEF Spec

-----------------------------------------------------------------------------

\* The permissions are a number, and what a device that waits to be configured or to
\* be taken notice of cannot have.
Silent ==
  /\ armed => device = "configured"
  /\ ~hooked => rx = <<>>

FlowInv == TypeOK /\ Silent /\ FlowControl

Bit(b) == IF b THEN 1 ELSE 0

LEMMA SilentKept ==
  ASSUME TypeOK, Silent, [Next]_vars
  PROVE  Silent'
<1> USE DEF Silent, host, link
<1>1. CASE DataOut
  BY <1>1 DEF DataOut
<1>2. CASE DataOutEmpty
  BY <1>2 DEF DataOutEmpty
<1>3. CASE Sof
  BY <1>3 DEF Sof
<1>4. CASE Load
  BY <1>4 DEF Load
<1>5. CASE BusReset
  BY <1>5 DEF BusReset
<1>6. CASE HidInit
  BY <1>6 DEF HidInit
<1>7. CASE Hook
  BY <1>7 DEF Hook
<1>8. CASE Take
  BY <1>8 DEF Take
<1>9. CASE Respond
  BY <1>9 DEF Respond
<1>10. CASE Stamp
  BY <1>10 DEF Stamp
<1>11. CASE Tick
  BY <1>11 DEF Tick
<1>12. CASE HostReads
  BY <1>12 DEF HostReads
<1>13. CASE UNCHANGED vars
  BY <1>13 DEF vars
<1> QED
  BY <1>1, <1>2, <1>3, <1>4, <1>5, <1>6, <1>7, <1>8, <1>9, <1>10, <1>11, <1>12, <1>13
     DEF Next, MainStep

\* Each action passes the permission on, adds the one of a configuration, or loses it
\* where the device is not configured, a packet was lost or a ring holds another one.
LEMMA FlowKept ==
  ASSUME FlowInv, [Next]_vars
  PROVE  FlowControl'
<1> DEFINE Sum == Len(rx) + Len(tx) + Bit(armed) + Bit(pc = "handling")
<1>a. Tokens = Sum /\ Tokens' = Sum'
  BY DEF Tokens, Bit
<1>b. TypeOK'
  BY TypeKept DEF FlowInv
<1>c. /\ Len(rx) \in Nat /\ Len(tx) \in Nat /\ Len(rx') \in Nat /\ Len(tx') \in Nat
      /\ inits \in Nat /\ inits' \in Nat
  BY <1>b, LenNat, ViaAssumption DEF FlowInv, TypeOK
<1>d. /\ Sum <= inits
      /\ device = "configured" /\ ~lost => Sum >= 1
  BY <1>a DEF FlowInv, FlowControl
<1> SUFFICES /\ Sum' <= inits'
             /\ device' = "configured" /\ ~lost' => Sum' >= 1
  BY <1>a DEF FlowControl
<1> USE DEF Bit, host, link
<1>1. CASE DataOut
  <2>1. armed /\ ~armed' /\ pc' = pc /\ tx' = tx /\ inits' = inits
    BY <1>1 DEF DataOut
  <2>2. CASE hooked /\ HasRoom(rx, RxRoom)
    <3>1. sent + 1 \in Number
      BY <1>1, NextNumber DEF FlowInv
    <3>2. rx' = Append(rx, sent + 1)
      BY <1>1, <2>2 DEF DataOut
    <3>3. Len(rx') = Len(rx) + 1
      BY <3>1, <3>2, AppendLonger DEF FlowInv, TypeOK
    <3> QED
      BY <1>c, <1>d, <2>1, <3>3
  <2>3. CASE hooked /\ ~HasRoom(rx, RxRoom)
    <3>1. rx' = rx
      BY <1>1, <2>3 DEF DataOut
    <3>2. Len(rx) >= 1
      BY <1>c, <2>3, ViaAssumption DEF HasRoom
    <3>3. Sum' = Sum - 1 /\ Sum' >= 1
      BY <1>c, <2>1, <3>1, <3>2
    <3> QED
      BY <1>c, <1>d, <2>1, <3>3
  <2>4. CASE ~hooked
    <3>1. rx' = rx /\ lost'
      BY <1>1, <2>4 DEF DataOut
    <3>2. Sum' <= Sum
      BY <1>c, <2>1, <3>1
    <3> QED
      BY <1>c, <1>d, <2>1, <3>1, <3>2
  <2> QED
    BY <2>2, <2>3, <2>4
<1>2. CASE DataOutEmpty
  <2>1. ~armed' /\ rx' = rx /\ tx' = tx /\ pc' = pc /\ inits' = inits /\ lost'
    BY <1>2 DEF DataOutEmpty
  <2> QED
    BY <1>c, <1>d, <2>1
<1>3. CASE Sof
  <2>1. Len(tx') = Len(tx) - 1
    BY <1>3, TailShorter DEF Sof, FlowInv, TypeOK
  <2>2. armed' /\ rx' = rx /\ pc' = pc /\ inits' = inits
    BY <1>3 DEF Sof
  <2> QED
    BY <1>c, <1>d, <2>1, <2>2
<1>4. CASE Load
  BY <1>4, <1>d DEF Load
<1>5. CASE BusReset
  <2>1. device' # "configured" /\ ~armed' /\ rx' = rx /\ tx' = tx /\ pc' = pc /\ inits' = inits
    BY <1>5 DEF BusReset
  <2> QED
    BY <1>c, <1>d, <2>1
<1>6. CASE HidInit
  <2>1. ~armed
    BY <1>6 DEF HidInit, FlowInv, Silent
  <2>2. armed' /\ rx' = rx /\ tx' = tx /\ pc' = pc /\ inits' = inits + 1
    BY <1>6 DEF HidInit
  <2> QED
    BY <1>c, <1>d, <2>1, <2>2
<1>7. CASE Hook
  <2>1. rx' = rx
    BY <1>7 DEF Hook, FlowInv, Silent
  <2>2. armed' = armed /\ tx' = tx /\ pc' = pc /\ inits' = inits /\ device' = device /\ lost' = lost
    BY <1>7 DEF Hook
  <2> QED
    BY <1>d, <2>1, <2>2
<1>8. CASE Take
  <2>1. Len(rx') = Len(rx) - 1
    BY <1>8, TailShorter DEF Take, FlowInv, TypeOK
  <2>2. /\ armed' = armed /\ tx' = tx /\ pc = "idle" /\ pc' = "handling"
        /\ inits' = inits /\ device' = device /\ lost' = lost
    BY <1>8 DEF Take
  <2> QED
    BY <1>c, <1>d, <2>1, <2>2
<1>9. CASE Respond
  <2>1. /\ armed' = armed /\ rx' = rx /\ pc = "handling" /\ pc' # "handling"
        /\ inits' = inits /\ device' = device /\ lost' = lost
    BY <1>9 DEF Respond
  <2>2. CASE HasRoom(tx, TxRoom)
    <3>1. tx' = Append(tx, job)
      BY <1>9, <2>2 DEF Respond
    <3>2. Len(tx') = Len(tx) + 1
      BY <3>1, AppendLonger DEF FlowInv, TypeOK
    <3> QED
      BY <1>c, <1>d, <2>1, <3>2
  <2>3. CASE ~HasRoom(tx, TxRoom)
    <3>1. tx' = tx /\ Len(tx) >= 1
      BY <1>9, <1>c, <2>3, ViaAssumption DEF Respond, HasRoom
    <3> QED
      BY <1>c, <1>d, <2>1, <3>1
  <2> QED
    BY <2>2, <2>3
<1>10. CASE Stamp
  <2>1. /\ armed' = armed /\ rx' = rx /\ tx' = tx /\ pc = "stamp" /\ pc' = "idle"
        /\ inits' = inits /\ device' = device /\ lost' = lost
    BY <1>10 DEF Stamp
  <2> QED
    BY <1>c, <1>d, <2>1
<1>11. CASE Tick
  BY <1>11, <1>d DEF Tick
<1>12. CASE HostReads
  BY <1>12, <1>d DEF HostReads
<1>13. CASE UNCHANGED vars
  BY <1>13, <1>d DEF vars
<1> QED
  BY <1>1, <1>2, <1>3, <1>4, <1>5, <1>6, <1>7, <1>8, <1>9, <1>10, <1>11, <1>12, <1>13
     DEF Next, MainStep, FlowInv

LEMMA FlowHolds == Init => FlowInv
<1> SUFFICES ASSUME Init PROVE FlowInv
  OBVIOUS
<1>1. Tokens = 0
  BY DEF Init, Tokens
<1>2. FlowControl
  BY <1>1 DEF FlowControl, Init
<1>3. Silent
  BY DEF Init, Silent
<1> QED
  BY <1>2, <1>3, TypeHolds DEF FlowInv

\* There is one permission to send per configuration at most, and a configured device
\* whose packets were all taken notice of is never without one: a command or an answer
\* that a full ring drops cannot make the channel deaf (usbd_hid.c:1125-1180).
THEOREM NeverDeaf == Spec => []FlowControl
<1>1. FlowInv /\ [Next]_vars => FlowInv'
  BY TypeKept, SilentKept, FlowKept DEF FlowInv
<1>2. FlowInv => FlowControl
  BY DEF FlowInv
<1> QED
  BY <1>1, <1>2, FlowHolds, PTL DEF Spec

-----------------------------------------------------------------------------
(* The order of the answers *)

\* Sequences of commands: each newer than the one before it, all of them newer than
\* n, none of them newer than n.
Ascend(q) == \A i, j \in 1 .. Len(q) : i < j => q[i] < q[j]
Above(n, q) == \A i \in 1 .. Len(q) : n < q[i]
Upto(n, q) == \A i \in 1 .. Len(q) : q[i] <= n

IsAnswer(p) == p.kind = "answer"

\* A command older than the ones in the queues r and t and in the main loop's hands, h.
Older(n, r, h, t) == Above(n, r) /\ Above(n, t) /\ \A j \in h : n < j

\* Until their answers are started, commands stay in the order they came in.
Queues(s, r, h, t) ==
  /\ Ascend(r) /\ Upto(s, r)
  /\ \A j \in h : j <= s /\ Above(j, r)
  /\ Ascend(t) /\ Upto(s, t)
  /\ \A i \in 1 .. Len(t) : Above(t[i], r) /\ \A j \in h : t[i] < j

\* An answer on its way: newer than the last the host has.
OnWay(n, s, r, h, t, l) == l < n /\ n <= s /\ Older(n, r, h, t)

\* And so do their answers, started ones, y, and those in the endpoint, f, until the
\* host has them.
Answers(s, r, h, t, l, y, f) ==
  /\ l <= s /\ Older(l, r, h, t)
  /\ \A n \in y : OnWay(n, s, r, h, t, l)
  /\ \A i \in 1 .. Len(f) : IsAnswer(f[i]) =>
       OnWay(f[i].number, s, r, h, t, l) /\ \A n \in y : f[i].number < n
  /\ \A i, j \in 1 .. Len(f) :
       i < j /\ IsAnswer(f[i]) /\ IsAnswer(f[j]) => f[i].number < f[j].number

\* The command in the main loop's hands, and the answer that is started.
Handled == IF pc = "handling" THEN {job} ELSE {}
Started == IF loading /\ IsAnswer(buf) THEN {buf.number} ELSE {}

Ordered ==
  /\ Queues(sent, rx, Handled, tx)
  /\ Answers(sent, rx, Handled, tx, last, Started, fifo)

\* What a queue of commands keeps when the next one joins it.
LEMMA JoinedOrder ==
  ASSUME NEW q \in Seq(Number), NEW n \in Number
  PROVE  /\ Ascend(q) /\ (\A i \in 1 .. Len(q) : q[i] < n) => Ascend(Append(q, n))
         /\ \A m \in Nat : Above(m, q) /\ m < n => Above(m, Append(q, n))
         /\ \A m \in Nat : Upto(m, q) /\ n <= m => Upto(m, Append(q, n))
         /\ \A i \in 1 .. Len(Append(q, n)) :
              (i \in 1 .. Len(q) /\ Append(q, n)[i] = q[i]) \/ Append(q, n)[i] = n
<1>. DEFINE d == Append(q, n)
<1>1. /\ Len(q) \in Nat /\ Len(d) = Len(q) + 1
      /\ \A i \in 1 .. Len(q) : d[i] = q[i]
      /\ d[Len(q) + 1] = n
  BY AppendProperties, LenProperties
<1>. HIDE DEF d
<1>2. \A i \in 1 .. Len(d) : (i \in 1 .. Len(q) /\ d[i] = q[i]) \/ (i = Len(q) + 1 /\ d[i] = n)
  BY <1>1
<1>3. ASSUME Ascend(q), \A i \in 1 .. Len(q) : q[i] < n
      PROVE  Ascend(d)
  <2>1. SUFFICES ASSUME NEW i \in 1 .. Len(d), NEW j \in 1 .. Len(d), i < j
                 PROVE  d[i] < d[j]
    BY DEF Ascend
  <2>2. i \in 1 .. Len(q) /\ d[i] = q[i]
    BY <1>1, <1>2, <2>1
  <2>3. CASE j \in 1 .. Len(q) /\ d[j] = q[j]
    BY <1>3, <2>1, <2>2, <2>3 DEF Ascend
  <2>4. CASE d[j] = n
    BY <1>3, <2>2, <2>4
  <2>. QED
    BY <1>2, <2>3, <2>4
<1>4. \A m \in Nat : Above(m, q) /\ m < n => Above(m, d)
  BY <1>2 DEF Above
<1>5. \A m \in Nat : Upto(m, q) /\ n <= m => Upto(m, d)
  BY <1>2 DEF Upto
<1>. QED
  BY <1>2, <1>3, <1>4, <1>5 DEF d

\* What it keeps when the oldest leaves it.
LEMMA LeftOrder ==
  ASSUME NEW q \in Seq(Number), q # <<>>
  PROVE  /\ Ascend(q) => Ascend(Tail(q)) /\ Above(Head(q), Tail(q))
         /\ \A m : Above(m, q) => Above(m, Tail(q)) /\ m < Head(q)
         /\ \A m : Upto(m, q) => Upto(m, Tail(q)) /\ Head(q) <= m
         /\ \A i \in 1 .. Len(Tail(q)) : i + 1 \in 1 .. Len(q) /\ Tail(q)[i] = q[i + 1]
         /\ 1 \in 1 .. Len(q) /\ Head(q) = q[1]
<1>. DEFINE d == Tail(q)
<1>1. /\ Len(q) \in Nat \ {0} /\ Len(d) = Len(q) - 1
      /\ \A i \in 1 .. Len(d) : d[i] = q[i + 1]
      /\ Head(q) = q[1]
  BY HeadTailProperties, EmptySeq
<1>. HIDE DEF d
<1>2. /\ 1 \in 1 .. Len(q)
      /\ \A i \in 1 .. Len(d) : i + 1 \in 1 .. Len(q) /\ 1 < i + 1 /\ d[i] = q[i + 1]
  BY <1>1
<1>3. ASSUME Ascend(q)
      PROVE  Ascend(d) /\ Above(q[1], d)
  <2>1. ASSUME NEW i \in 1 .. Len(d), NEW j \in 1 .. Len(d), i < j
        PROVE  d[i] < d[j]
    <3>1. i + 1 < j + 1
      BY <2>1
    <3>. QED
      BY <1>2, <1>3, <3>1 DEF Ascend
  <2>2. Above(q[1], d)
    BY <1>2, <1>3 DEF Ascend, Above
  <2>. QED
    BY <2>1, <2>2 DEF Ascend
<1>4. \A m : Above(m, q) => Above(m, d) /\ m < q[1]
  BY <1>2 DEF Above
<1>5. \A m : Upto(m, q) => Upto(m, d) /\ q[1] <= m
  BY <1>2 DEF Upto
<1>. QED
  BY <1>1, <1>2, <1>3, <1>4, <1>5 DEF d

LEMMA OrderTypes ==
  ASSUME TypeOK
  PROVE  /\ rx \in Seq(Number) /\ tx \in Seq(Number) /\ Handled \in SUBSET Number
         /\ sent \in Number /\ last \in Number /\ Started \in SUBSET Number
         /\ fifo \in Seq(Packet) /\ buf \in Packet /\ buf.number \in Number
         /\ \A i \in 1 .. Len(rx) : rx[i] \in Number
         /\ \A i \in 1 .. Len(tx) : tx[i] \in Number
         /\ \A i \in 1 .. Len(fifo) : fifo[i].number \in Number
         /\ \A n \in Number : n \in Nat
<1>1. rx \in Seq(Number) /\ tx \in Seq(Number) /\ fifo \in Seq(Packet) /\ buf \in Packet
  BY DEF TypeOK
<1>2. \A p \in Packet : p.number \in Number
  BY DEF Packet
<1>3. /\ \A i \in 1 .. Len(rx) : rx[i] \in Number
      /\ \A i \in 1 .. Len(tx) : tx[i] \in Number
      /\ \A i \in 1 .. Len(fifo) : fifo[i] \in Packet
  BY <1>1, ElementOfSeq
<1>4. \A n \in Number : n \in Nat
  BY ViaAssumption DEF Number
<1>. QED
  BY <1>1, <1>2, <1>3, <1>4 DEF TypeOK, Handled, Started

\* Fewer commands in hand and fewer answers started, and more commands sent, only make
\* the order easier.
LEMMA FewerOrder ==
  ASSUME TypeOK, Ordered, NEW h \in SUBSET Handled, NEW y \in SUBSET Started,
         NEW s \in Number, sent <= s
  PROVE  /\ Queues(s, rx, h, tx)
         /\ Answers(s, rx, h, tx, last, y, fifo) /\ Answers(s, rx, h, tx, last, y, <<>>)
<1>1. \A n \in Number : n <= sent => n <= s
  BY OrderTypes
<1>2. Upto(s, rx) /\ Upto(s, tx) /\ last <= s /\ \A j \in h : j <= s
  BY <1>1, OrderTypes DEF Ordered, Queues, Answers, Upto
<1>3. Queues(s, rx, h, tx)
  BY <1>2 DEF Ordered, Queues
<1>4. \A n \in Number : OnWay(n, sent, rx, Handled, tx, last) => OnWay(n, s, rx, h, tx, last)
  BY <1>1 DEF OnWay, Older
<1>5. Answers(s, rx, h, tx, last, y, fifo)
  BY <1>2, <1>4, OrderTypes DEF Ordered, Answers, Older
<1>6. \A i \in 1 .. Len(<<>>) : FALSE
  OBVIOUS
<1>7. Answers(s, rx, h, tx, last, y, <<>>)
  BY <1>5, <1>6 DEF Answers
<1>. QED
  BY <1>3, <1>5, <1>7

\* The next command arrives, and takes the buffer from an answer.
LEMMA ArrivalOrder ==
  ASSUME TypeOK, Ordered, sent + 1 \in Number
  PROVE  /\ Queues(sent + 1, Append(rx, sent + 1), Handled, tx)
         /\ Answers(sent + 1, Append(rx, sent + 1), Handled, tx, last, {}, fifo)
<1>. DEFINE n == sent + 1
            r == Append(rx, n)
<1>1. sent \in Nat /\ sent <= n /\ \A m \in Number : m <= sent => m < n /\ m <= n
  BY OrderTypes
<1>2. Queues(n, rx, Handled, tx) /\ Answers(n, rx, Handled, tx, last, {}, fifo)
  BY <1>1, FewerOrder
<1>. HIDE DEF n
<1>3. Ascend(r) /\ Upto(n, r)
  <2>1. \A i \in 1 .. Len(rx) : rx[i] < n
    BY <1>1, OrderTypes DEF Ordered, Queues, Upto
  <2>2. n \in Nat /\ n <= n
    BY <1>1, OrderTypes DEF n
  <2>. QED
    BY <1>2, <2>1, <2>2, OrderTypes, JoinedOrder DEF Queues, n
<1>4. \A m \in Number : m <= sent /\ Above(m, rx) => Above(m, r)
  BY <1>1, OrderTypes, JoinedOrder DEF n
<1>. HIDE DEF r
<1>5. Queues(n, r, Handled, tx)
  <2>1. \A j \in Handled : Above(j, r)
    BY <1>4, OrderTypes DEF Ordered, Queues
  <2>2. \A i \in 1 .. Len(tx) : Above(tx[i], r)
    BY <1>4, OrderTypes DEF Ordered, Queues, Upto
  <2>. QED
    BY <1>2, <1>3, <2>1, <2>2 DEF Queues
<1>6. \A m \in Number : OnWay(m, sent, rx, Handled, tx, last) => OnWay(m, n, r, Handled, tx, last)
  BY <1>1, <1>4, OrderTypes DEF OnWay, Older
<1>7. Answers(n, r, Handled, tx, last, {}, fifo)
  BY <1>1, <1>4, <1>6, OrderTypes DEF Ordered, Answers, Older
<1>. QED
  BY <1>5, <1>7 DEF r, n

\* An answer is started.
LEMMA StartOrder ==
  ASSUME TypeOK, Ordered, tx # <<>>
  PROVE  /\ Queues(sent, rx, Handled, Tail(tx))
         /\ Answers(sent, rx, Handled, Tail(tx), last, {Head(tx)}, fifo)
<1>1. /\ Ascend(tx) /\ Upto(sent, tx)
      /\ \A i \in 1 .. Len(tx) : Above(tx[i], rx) /\ \A j \in Handled : tx[i] < j
  BY DEF Ordered, Queues
<1>2. /\ Ascend(Tail(tx)) /\ Above(Head(tx), Tail(tx)) /\ Upto(sent, Tail(tx)) /\ Head(tx) <= sent
      /\ \A m : Above(m, tx) => Above(m, Tail(tx)) /\ m < Head(tx)
      /\ \A i \in 1 .. Len(Tail(tx)) : i + 1 \in 1 .. Len(tx) /\ Tail(tx)[i] = tx[i + 1]
      /\ 1 \in 1 .. Len(tx) /\ Head(tx) = tx[1]
  BY <1>1, OrderTypes, LeftOrder
<1>3. \A i \in 1 .. Len(Tail(tx)) : Above(Tail(tx)[i], rx) /\ \A j \in Handled : Tail(tx)[i] < j
  BY <1>1, <1>2
<1>4. Queues(sent, rx, Handled, Tail(tx))
  BY <1>2, <1>3 DEF Ordered, Queues
<1>5. Older(Head(tx), rx, Handled, Tail(tx))
  BY <1>1, <1>2 DEF Older
<1>6. \A m : Older(m, rx, Handled, tx) => Older(m, rx, Handled, Tail(tx)) /\ m < Head(tx)
  BY <1>2 DEF Older
<1>7. OnWay(Head(tx), sent, rx, Handled, Tail(tx), last)
  BY <1>2, <1>5, <1>6 DEF OnWay, Ordered, Answers
<1>8. Answers(sent, rx, Handled, Tail(tx), last, {Head(tx)}, fifo)
  BY <1>6, <1>7 DEF Ordered, Answers, OnWay
<1>. QED
  BY <1>4, <1>8

\* The main loop takes a command in hand.
LEMMA TakeOrder ==
  ASSUME TypeOK, Ordered, rx # <<>>, pc = "idle"
  PROVE  /\ Queues(sent, Tail(rx), {Head(rx)}, tx)
         /\ Answers(sent, Tail(rx), {Head(rx)}, tx, last, Started, fifo)
<1>1. /\ Ascend(rx) /\ Upto(sent, rx)
      /\ \A i \in 1 .. Len(tx) : Above(tx[i], rx)
  BY DEF Ordered, Queues
<1>2. /\ Ascend(Tail(rx)) /\ Above(Head(rx), Tail(rx)) /\ Upto(sent, Tail(rx)) /\ Head(rx) <= sent
      /\ \A m : Above(m, rx) => Above(m, Tail(rx)) /\ m < Head(rx)
  BY <1>1, OrderTypes, LeftOrder
<1>3. Queues(sent, Tail(rx), {Head(rx)}, tx)
  BY <1>1, <1>2 DEF Ordered, Queues
<1>4. \A m : Older(m, rx, Handled, tx) => Older(m, Tail(rx), {Head(rx)}, tx)
  BY <1>2 DEF Older
<1>5. Answers(sent, Tail(rx), {Head(rx)}, tx, last, Started, fifo)
  BY <1>4 DEF Ordered, Answers, OnWay
<1>. QED
  BY <1>3, <1>5

\* It queues the answer.
LEMMA RespondOrder ==
  ASSUME TypeOK, Ordered, pc = "handling"
  PROVE  /\ Queues(sent, rx, {}, Append(tx, job))
         /\ Answers(sent, rx, {}, Append(tx, job), last, Started, fifo)
<1>. DEFINE t == Append(tx, job)
<1>1. /\ job <= sent /\ Above(job, rx) /\ Ascend(tx) /\ Upto(sent, tx) /\ job \in Number
      /\ \A i \in 1 .. Len(tx) : Above(tx[i], rx) /\ tx[i] < job
  BY DEF Ordered, Queues, Handled, TypeOK
<1>2. /\ Ascend(t) /\ Upto(sent, t)
      /\ \A m \in Nat : Above(m, tx) /\ m < job => Above(m, t)
      /\ \A i \in 1 .. Len(t) : (i \in 1 .. Len(tx) /\ t[i] = tx[i]) \/ t[i] = job
  BY <1>1, OrderTypes, JoinedOrder
<1>. HIDE DEF t
<1>3. \A i \in 1 .. Len(t) : Above(t[i], rx)
  BY <1>1, <1>2
<1>4. Queues(sent, rx, {}, t)
  BY <1>2, <1>3 DEF Ordered, Queues
<1>5. \A m \in Number : Older(m, rx, Handled, tx) => Older(m, rx, {}, t)
  BY <1>2, OrderTypes DEF Older, Handled
<1>6. Answers(sent, rx, {}, t, last, Started, fifo)
  BY <1>5, OrderTypes DEF Ordered, Answers, OnWay
<1>. QED
  BY <1>4, <1>6 DEF t

\* A packet is copied to the endpoint.
LEMMA LoadOrder ==
  ASSUME TypeOK, Ordered, loading, NEW f \in Loads(buf)
  PROVE  Answers(sent, rx, Handled, tx, last, {}, f)
<1>1. IsAnswer(buf) =>
        /\ OnWay(buf.number, sent, rx, Handled, tx, last)
        /\ \A i \in 1 .. Len(fifo) : IsAnswer(fifo[i]) => fifo[i].number < buf.number
  BY DEF Ordered, Answers, Started
<1>2. /\ last <= sent /\ Older(last, rx, Handled, tx)
      /\ \A i \in 1 .. Len(fifo) :
           IsAnswer(fifo[i]) => OnWay(fifo[i].number, sent, rx, Handled, tx, last)
  BY DEF Ordered, Answers
<1>3. CASE f = fifo
  BY <1>3 DEF Ordered, Answers
<1>4. CASE f = <<buf>>
  <2>1. Len(f) = 1 /\ f[1] = buf
    BY <1>4
  <2>2. /\ \A i \in 1 .. Len(f) : f[i] = buf
        /\ \A i, j \in 1 .. Len(f) : ~(i < j)
    BY <2>1
  <2>. QED
    BY <1>1, <1>2, <2>2 DEF Answers
<1>5. CASE fifo # <<>> /\ f = <<Head(fifo), buf>>
  <2>1. Len(f) = 2 /\ f[1] = fifo[1] /\ f[2] = buf /\ 1 \in 1 .. Len(fifo)
    <3>1. fifo \in Seq(Packet)
      BY OrderTypes
    <3>2. Len(fifo) \in Nat \ {0}
      BY <1>5, <3>1, EmptySeq
    <3>. QED
      BY <1>5, <3>1, <3>2
  <2>2. /\ \A i \in 1 .. Len(f) : i = 1 \/ i = 2
        /\ \A i, j \in 1 .. Len(f) : i < j => i = 1 /\ j = 2
    BY <2>1
  <2>. QED
    BY <1>1, <1>2, <2>1, <2>2 DEF Answers
<1>. QED
  BY <1>3, <1>4, <1>5 DEF Loads

\* The host reads what the endpoint held longest.
LEMMA ReadOrder ==
  ASSUME TypeOK, Ordered, fifo # <<>>
  PROVE  /\ IsAnswer(Head(fifo)) => Head(fifo).number > last
         /\ Answers(sent, rx, Handled, tx,
                    IF IsAnswer(Head(fifo)) THEN Head(fifo).number ELSE last,
                    Started, Tail(fifo))
<1>. DEFINE f == Tail(fifo)
<1>1. /\ fifo \in Seq(Packet) /\ Len(fifo) \in Nat \ {0} /\ Len(f) = Len(fifo) - 1
      /\ \A i \in 1 .. Len(f) : f[i] = fifo[i + 1]
      /\ Head(fifo) = fifo[1]
  BY OrderTypes, HeadTailProperties, EmptySeq
<1>. HIDE DEF f
<1>2. /\ 1 \in 1 .. Len(fifo)
      /\ \A i \in 1 .. Len(f) : i + 1 \in 1 .. Len(fifo) /\ 1 < i + 1 /\ f[i] = fifo[i + 1]
  BY <1>1
<1>3. ASSUME NEW i \in 1 .. Len(f), NEW j \in 1 .. Len(f), i < j,
             IsAnswer(f[i]), IsAnswer(f[j])
      PROVE  f[i].number < f[j].number
  <2>1. i + 1 < j + 1
    BY <1>3
  <2>. QED
    BY <1>2, <1>3, <2>1 DEF Ordered, Answers
<1>4. CASE ~IsAnswer(Head(fifo))
  BY <1>2, <1>3, <1>4 DEF Ordered, Answers, f
<1>5. CASE IsAnswer(fifo[1])
  <2>. DEFINE m == fifo[1].number
  <2>1. /\ OnWay(m, sent, rx, Handled, tx, last) /\ \A n \in Started : m < n
        /\ \A i \in 1 .. Len(f) : IsAnswer(f[i]) => m < f[i].number
    BY <1>2, <1>5 DEF Ordered, Answers
  <2>. HIDE DEF m
  <2>2. \A n \in Number : OnWay(n, sent, rx, Handled, tx, last) /\ m < n
                            => OnWay(n, sent, rx, Handled, tx, m)
    BY DEF OnWay
  <2>3. m > last /\ m <= sent /\ Older(m, rx, Handled, tx)
    <3>1. m \in Nat /\ last \in Nat
      BY <1>2, OrderTypes DEF m
    <3>. QED
      BY <2>1, <3>1 DEF OnWay
  <2>4. \A n \in Started : OnWay(n, sent, rx, Handled, tx, m)
    BY <2>1, <2>2, OrderTypes DEF Ordered, Answers
  <2>5. \A i \in 1 .. Len(f) : IsAnswer(f[i]) =>
          OnWay(f[i].number, sent, rx, Handled, tx, m) /\ \A n \in Started : f[i].number < n
    BY <1>2, <2>1, <2>2, OrderTypes DEF Ordered, Answers
  <2>6. Answers(sent, rx, Handled, tx, m, Started, f)
    BY <1>3, <2>3, <2>4, <2>5 DEF Answers
  <2>. QED
    BY <1>1, <1>5, <2>3, <2>6 DEF f, m
<1>. QED
  BY <1>1, <1>4, <1>5

\* Every step keeps the order.
LEMMA OrderKept ==
  ASSUME TypeOK, Ordered, [Next]_vars
  PROVE  Ordered'
<1>. USE DEF host, link
<1>1. CASE UNCHANGED <<sent, rx, pc, job, tx, last, loading, buf, fifo>>
  BY <1>1 DEF Ordered, Handled, Started
<1>2. CASE DataOut
  <2>1. UNCHANGED <<pc, job, tx, last, fifo>> /\ sent' = sent + 1 /\ sent + 1 \in Number
    BY <1>2, NextNumber DEF DataOut
  <2>2. Handled' = Handled /\ Started' = {}
    BY <1>2, <2>1 DEF Handled, Started, DataOut, Command, IsAnswer
  <2>3. CASE rx' = Append(rx, sent + 1)
    BY <2>1, <2>2, <2>3, ArrivalOrder DEF Ordered
  <2>4. CASE rx' = rx
    <3>1. sent <= sent + 1 /\ {} \in SUBSET Started
      BY OrderTypes
    <3>2. /\ Queues(sent + 1, rx, Handled, tx)
          /\ Answers(sent + 1, rx, Handled, tx, last, {}, fifo)
      BY <2>1, <3>1, FewerOrder
    <3>. QED
      BY <2>1, <2>2, <2>4, <3>2 DEF Ordered
  <2>. QED
    BY <1>2, <2>3, <2>4 DEF DataOut
<1>3. CASE DataOutEmpty
  BY <1>1, <1>3 DEF DataOutEmpty
<1>4. CASE Sof
  <2>1. /\ UNCHANGED <<sent, rx, pc, job, last, fifo>> /\ tx # <<>> /\ tx' = Tail(tx)
        /\ loading' /\ buf' = Answer(Head(tx))
    BY <1>4 DEF Sof
  <2>2. Handled' = Handled /\ Started' = {Head(tx)}
    BY <2>1 DEF Handled, Started, Answer, IsAnswer
  <2>. QED
    BY <2>1, <2>2, StartOrder DEF Ordered
<1>5. CASE Load
  <2>1. /\ UNCHANGED <<sent, rx, pc, job, tx, last, buf>> /\ loading /\ ~loading'
        /\ fifo' \in Loads(buf)
    BY <1>5 DEF Load
  <2>2. Handled' = Handled /\ Started' = {}
    BY <2>1 DEF Handled, Started
  <2>3. Answers(sent, rx, Handled, tx, last, {}, fifo')
    BY <2>1, LoadOrder
  <2>. QED
    BY <2>1, <2>2, <2>3 DEF Ordered
<1>6. CASE BusReset
  <2>1. /\ UNCHANGED <<sent, rx, pc, job, tx, last, buf>> /\ fifo' = <<>>
        /\ loading' \in {FALSE, loading}
    BY <1>6 DEF BusReset
  <2>2. Handled' = Handled /\ Started' \in SUBSET Started
    <3>1. CASE ~loading'
      BY <2>1, <3>1 DEF Handled, Started
    <3>2. CASE loading'
      <4>1. loading
        BY <2>1, <3>2
      <4>2. Started' = Started
        BY <2>1, <3>2, <4>1 DEF Started
      <4>. QED
        BY <2>1, <4>2 DEF Handled
    <3>. QED
      BY <3>1, <3>2
  <2>3. sent \in Number /\ sent <= sent /\ Handled \in SUBSET Handled
    BY OrderTypes
  <2>4. /\ Queues(sent, rx, Handled, tx)
        /\ Answers(sent, rx, Handled, tx, last, Started', <<>>)
    BY <2>2, <2>3, FewerOrder
  <2>. QED
    BY <2>1, <2>2, <2>4 DEF Ordered
<1>7. CASE HidInit
  BY <1>1, <1>7 DEF HidInit
<1>8. CASE Hook
  <2>1. UNCHANGED <<sent, pc, job, tx, last, loading, buf, fifo>> /\ rx' = <<>>
    BY <1>8 DEF Hook
  <2>2. Handled' = Handled /\ Started' = Started
    BY <2>1 DEF Handled, Started
  <2>3. \A i \in 1 .. Len(<<>>) : FALSE
    OBVIOUS
  <2>4. /\ Queues(sent, <<>>, Handled, tx)
        /\ Answers(sent, <<>>, Handled, tx, last, Started, fifo)
    BY <2>3 DEF Ordered, Queues, Answers, OnWay, Older, Ascend, Above, Upto
  <2>. QED
    BY <2>1, <2>2, <2>4 DEF Ordered
<1>9. CASE Take
  <2>1. /\ UNCHANGED <<sent, tx, last, loading, buf, fifo>> /\ rx # <<>> /\ rx' = Tail(rx)
        /\ pc = "idle" /\ pc' = "handling" /\ job' = Head(rx)
    BY <1>9 DEF Take
  <2>2. Handled' = {Head(rx)} /\ Started' = Started
    BY <2>1 DEF Handled, Started
  <2>. QED
    BY <2>1, <2>2, TakeOrder DEF Ordered
<1>10. CASE Respond
  <2>1. /\ UNCHANGED <<sent, rx, last, loading, buf, fifo>> /\ pc = "handling"
        /\ pc' # "handling" /\ tx' \in {tx, Append(tx, job)}
    BY <1>10 DEF Respond
  <2>2. Handled' = {} /\ Started' = Started
    BY <2>1 DEF Handled, Started
  <2>3. CASE tx' = Append(tx, job)
    BY <2>1, <2>2, <2>3, RespondOrder DEF Ordered
  <2>4. CASE tx' = tx
    <3>1. sent \in Number /\ sent <= sent /\ {} \in SUBSET Handled
          /\ Started \in SUBSET Started
      BY OrderTypes
    <3>2. Queues(sent, rx, {}, tx) /\ Answers(sent, rx, {}, tx, last, Started, fifo)
      BY <3>1, FewerOrder
    <3>. QED
      BY <2>1, <2>2, <2>4, <3>2 DEF Ordered
  <2>. QED
    BY <2>1, <2>3, <2>4
<1>11. CASE Stamp
  <2>1. /\ UNCHANGED <<sent, rx, tx, job, last, loading, buf, fifo>>
        /\ pc = "stamp" /\ pc' = "idle"
    BY <1>11 DEF Stamp
  <2>. QED
    BY <2>1 DEF Ordered, Handled, Started
<1>12. CASE Tick
  BY <1>1, <1>12 DEF Tick
<1>13. CASE HostReads
  <2>1. /\ UNCHANGED <<sent, rx, pc, job, tx, loading, buf>>
        /\ fifo # <<>> /\ fifo' = Tail(fifo)
        /\ last' = IF IsAnswer(Head(fifo)) THEN Head(fifo).number ELSE last
    BY <1>13 DEF HostReads, IsAnswer
  <2>2. Handled' = Handled /\ Started' = Started
    BY <2>1 DEF Handled, Started
  <2>3. Answers(sent, rx, Handled, tx, last', Started, Tail(fifo))
    BY <2>1, ReadOrder
  <2>. QED
    BY <2>1, <2>2, <2>3 DEF Ordered
<1>14. CASE UNCHANGED vars
  BY <1>1, <1>14 DEF vars
<1>. QED
  BY <1>2, <1>3, <1>4, <1>5, <1>6, <1>7, <1>8, <1>9, <1>10, <1>11, <1>12, <1>13, <1>14
     DEF Next, MainStep

-----------------------------------------------------------------------------
(* The first session *)

\* Nothing is under way in the rings and the main loop, or on the way back.
NoneIn == rx = <<>> /\ pc # "handling" /\ tx = <<>>
NoneOut == ~loading /\ fifo = <<>>

\* In the first session a patient host has at most one command under way: the one it
\* waits for.  Before it there is none.
OneAtATime ==
  /\ inits = 0 => device = "reset" /\ NoneIn /\ NoneOut /\ owed = 0
  /\ patient /\ inits = 1 /\ device = "configured" =>
       \/ NoneIn /\ NoneOut
       \/ /\ owed # 0
          /\ \/ rx = <<owed>> /\ pc # "handling" /\ tx = <<>> /\ NoneOut
             \/ rx = <<>> /\ pc = "handling" /\ job = owed /\ tx = <<>> /\ NoneOut
             \/ rx = <<>> /\ pc # "handling" /\ tx = <<owed>> /\ NoneOut
             \/ NoneIn /\ loading /\ buf = Answer(owed) /\ fifo = <<>>
             \/ NoneIn /\ ~loading /\ fifo = <<Answer(owed)>>

\* A sequence of one.
LEMMA Single ==
  \A x : /\ Head(<<x>>) = x /\ Tail(<<x>>) = <<>> /\ <<x>> # <<>> /\ Len(<<x>>) = 1
         /\ Append(<<>>, x) = <<x>> /\ Len(<<>>) = 0
OBVIOUS

\* Every step keeps it.
LEMMA OneAtATimeKept ==
  ASSUME TypeOK, OneAtATime, [Next]_vars
  PROVE  OneAtATime'
<1>. USE DEF host, link, NoneIn, NoneOut
<1>1. inits \in Nat /\ owed \in Nat /\ sent \in Nat /\ job \in Nat
  BY OrderTypes, ViaAssumption DEF TypeOK, Number
<1>2. CASE DataOut
  <2>1. /\ UNCHANGED <<device, inits, patient, pc, tx, loading, fifo>>
        /\ device = "configured" /\ (patient => owed = 0)
        /\ owed' = IF patient THEN sent + 1 ELSE 0
        /\ rx' = IF hooked /\ HasRoom(rx, RxRoom) THEN Append(rx, sent + 1) ELSE rx
    BY <1>2 DEF DataOut
  <2>2. inits # 0
    BY <2>1 DEF OneAtATime
  <2>3. ASSUME patient, inits = 1
        PROVE  \/ NoneIn' /\ NoneOut'
               \/ owed' # 0 /\ rx' = <<owed'>> /\ (pc # "handling")' /\ tx' = <<>> /\ NoneOut'
    <3>1. NoneIn /\ NoneOut /\ owed' = sent + 1 /\ owed' # 0
      BY <1>1, <2>1, <2>3 DEF OneAtATime
    <3>2. rx' = rx \/ rx' = <<owed'>>
      BY <2>1, <3>1, Single
    <3>. QED
      BY <2>1, <3>1, <3>2
  <2>. QED
    BY <2>1, <2>2, <2>3 DEF OneAtATime
<1>3. CASE DataOutEmpty
  BY <1>3 DEF DataOutEmpty, OneAtATime
<1>4. CASE Sof
  <2>1. /\ UNCHANGED <<device, inits, patient, owed, pc, rx, fifo>>
        /\ device = "configured" /\ tx # <<>> /\ tx' = Tail(tx)
        /\ buf' = Answer(Head(tx)) /\ loading'
    BY <1>4 DEF Sof
  <2>2. inits # 0
    BY <2>1 DEF OneAtATime
  <2>3. ASSUME patient, inits = 1
        PROVE  owed # 0 /\ NoneIn' /\ buf' = Answer(owed) /\ fifo = <<>>
    <3>1. owed # 0 /\ rx = <<>> /\ pc # "handling" /\ tx = <<owed>> /\ NoneOut
      BY <2>1, <2>3 DEF OneAtATime
    <3>. QED
      BY <2>1, <3>1, Single
  <2>. QED
    BY <2>1, <2>2, <2>3 DEF OneAtATime
<1>5. CASE Load
  <2>1. /\ UNCHANGED <<device, inits, patient, owed, pc, rx, tx, buf>>
        /\ loading /\ ~loading' /\ fifo' \in Loads(buf)
    BY <1>5 DEF Load
  <2>2. inits # 0
    BY <2>1 DEF OneAtATime
  <2>3. ASSUME patient, inits = 1, device = "configured"
        PROVE  owed # 0 /\ NoneIn' /\ fifo' = <<Answer(owed)>>
    <3>1. owed # 0 /\ NoneIn /\ buf = Answer(owed) /\ fifo = <<>>
      BY <2>1, <2>3 DEF OneAtATime
    <3>. QED
      BY <2>1, <3>1 DEF Loads
  <2>. QED
    BY <2>1, <2>2, <2>3 DEF OneAtATime
<1>6. CASE BusReset
  <2>1. device = "configured" /\ device' = "reset" /\ inits' = inits
    BY <1>6 DEF BusReset
  <2>. QED
    BY <2>1 DEF OneAtATime
<1>7. CASE HidInit
  <2>1. /\ UNCHANGED <<rx, tx, pc, job, buf, loading, fifo, patient, owed>>
        /\ inits' = inits + 1
    BY <1>7 DEF HidInit
  <2>2. inits' # 0 /\ (inits' = 1 => inits = 0)
    BY <1>1, <2>1
  <2>. QED
    BY <2>1, <2>2 DEF OneAtATime
<1>8. CASE Hook
  <2>1. /\ UNCHANGED <<device, inits, tx, pc, job, buf, loading, fifo, patient, owed>>
        /\ rx' = <<>>
    BY <1>8 DEF Hook
  <2>. QED
    BY <2>1 DEF OneAtATime
<1>9. CASE Take
  <2>1. /\ UNCHANGED <<device, inits, tx, buf, loading, fifo, patient, owed>>
        /\ pc = "idle" /\ pc' = "handling" /\ rx # <<>> /\ job' = Head(rx) /\ rx' = Tail(rx)
    BY <1>9 DEF Take
  <2>2. inits # 0
    BY <2>1 DEF OneAtATime
  <2>3. ASSUME patient, inits = 1, device = "configured"
        PROVE  owed # 0 /\ rx' = <<>> /\ job' = owed /\ tx = <<>> /\ NoneOut
    <3>1. owed # 0 /\ rx = <<owed>> /\ tx = <<>> /\ NoneOut
      BY <2>1, <2>3 DEF OneAtATime
    <3>. QED
      BY <2>1, <3>1, Single
  <2>. QED
    BY <2>1, <2>2, <2>3 DEF OneAtATime
<1>10. CASE Respond
  <2>1. /\ UNCHANGED <<device, inits, rx, buf, loading, fifo, patient, owed>>
        /\ pc = "handling" /\ pc' # "handling" /\ tx' \in {tx, Append(tx, job)}
    BY <1>10 DEF Respond
  <2>2. inits # 0
    BY <2>1 DEF OneAtATime
  <2>3. ASSUME patient, inits = 1, device = "configured"
        PROVE  owed # 0 /\ rx = <<>> /\ (tx' = <<>> \/ tx' = <<owed>>) /\ NoneOut
    <3>1. owed # 0 /\ rx = <<>> /\ job = owed /\ tx = <<>> /\ NoneOut
      BY <2>1, <2>3 DEF OneAtATime
    <3>. QED
      BY <2>1, <3>1, Single
  <2>. QED
    BY <2>1, <2>2, <2>3 DEF OneAtATime
<1>11. CASE Stamp
  BY <1>11 DEF Stamp, OneAtATime
<1>12. CASE Tick
  BY <1>12 DEF Tick, OneAtATime
<1>13. CASE HostReads
  <2>1. /\ UNCHANGED <<device, inits, rx, tx, pc, buf, loading, patient>>
        /\ device = "configured" /\ fifo # <<>> /\ fifo' = Tail(fifo) /\ owed' = 0
    BY <1>13 DEF HostReads
  <2>2. inits # 0
    BY <2>1 DEF OneAtATime
  <2>3. ASSUME patient, inits = 1
        PROVE  NoneIn /\ NoneOut'
    <3>1. NoneIn /\ ~loading /\ fifo = <<Answer(owed)>>
      BY <2>1, <2>3 DEF OneAtATime
    <3>. QED
      BY <2>1, <3>1, Single
  <2>. QED
    BY <2>1, <2>2, <2>3 DEF OneAtATime
<1>14. CASE UNCHANGED vars
  BY <1>14 DEF vars, OneAtATime
<1>. QED
  BY <1>2, <1>3, <1>4, <1>5, <1>6, <1>7, <1>8, <1>9, <1>10, <1>11, <1>12, <1>13, <1>14
     DEF Next, MainStep

LEMMA AnswersInit == Init => Ordered /\ OneAtATime
<1>. SUFFICES ASSUME Init
              PROVE  Ordered /\ OneAtATime
  OBVIOUS
<1>1. /\ rx = <<>> /\ tx = <<>> /\ fifo = <<>> /\ Handled = {} /\ Started = {}
      /\ sent = 0 /\ last = 0
  BY DEF Init, Handled, Started
<1>2. \A i \in 1 .. Len(<<>>) : FALSE
  OBVIOUS
<1>3. Queues(0, <<>>, {}, <<>>) /\ Answers(0, <<>>, {}, <<>>, 0, {}, <<>>)
  BY <1>2 DEF Queues, Answers, Older, Ascend, Above, Upto
<1>4. OneAtATime
  BY DEF Init, OneAtATime, NoneIn, NoneOut
<1>. QED
  BY <1>1, <1>3, <1>4 DEF Ordered

\* The host never gets an answer twice or late, whatever resets come in between, and in
\* the first session what a patient host reads is the answer to its command: for every
\* size of the rings and any number of commands and configurations (via_hid.c:69-117,
\* usbd_hid.c:683, 1175).
THEOREM AnswersAreRight == Spec => RightAnswers
<1>. DEFINE Right ==
       HostReads =>
         /\ Head(fifo).kind = "answer" => Head(fifo).number > last
         /\ patient /\ inits = 1 => Head(fifo) = Answer(owed)
<1>1. TypeOK /\ Ordered /\ OneAtATime /\ [Next]_vars => (TypeOK /\ Ordered /\ OneAtATime)'
  BY TypeKept, OrderKept, OneAtATimeKept
<1>2. TypeOK /\ Ordered /\ OneAtATime => Right
  <2>. SUFFICES ASSUME TypeOK, Ordered, OneAtATime, HostReads
                PROVE  /\ Head(fifo).kind = "answer" => Head(fifo).number > last
                       /\ patient /\ inits = 1 => Head(fifo) = Answer(owed)
    OBVIOUS
  <2>1. device = "configured" /\ fifo # <<>>
    BY DEF HostReads
  <2>2. Head(fifo).kind = "answer" => Head(fifo).number > last
    BY <2>1, ReadOrder DEF IsAnswer
  <2>3. patient /\ inits = 1 => fifo = <<Answer(owed)>>
    BY <2>1 DEF OneAtATime, NoneOut
  <2>. QED
    BY <2>2, <2>3, Single
<1>. QED
  BY <1>1, <1>2, TypeHolds, AnswersInit, PTL DEF Spec, RightAnswers

=============================================================================
