-------------------------- MODULE HidReportsProofs --------------------------
(***************************************************************************)
(* Proofs about module HidReports, for any length of the rings and any     *)
(* number of reports: the report path cannot wedge, the rings are bounded  *)
(* queues, and the reports of each kind arrive in the order they were made.*)
(***************************************************************************)
EXTENDS HidReports, SequenceTheorems, TLAPS

\* The next index of a ring is an index of it.
LEMMA FollowingInSlot ==
  ASSUME NEW i \in Slot
  PROVE  Following(i) \in Slot
BY HidAssumption, SMT DEF Slot, Following

\* A report read from a ring, and the ring after it, are well typed.
LEMMA TakenType ==
  ASSUME NEW r \in [in : Slot, out : Slot, slot : [Slot -> 0 .. MaxReports]]
  PROVE  /\ Taken(r) \in [in : Slot, out : Slot, slot : [Slot -> 0 .. MaxReports]]
         /\ Whole(Oldest(r)) \in Buffer
<1>1. Following(r.out) \in Slot
  BY FollowingInSlot
<1>2. r.slot[r.out] \in 0 .. MaxReports
  OBVIOUS
<1> QED
  BY <1>1, <1>2 DEF Taken, Oldest, Whole, Buffer

\* Writing half of a report's buffer, a slot or the end of a ring keeps their types.
LEMMA HalvesType ==
  ASSUME NEW b \in Buffer, NEW n \in 0 .. MaxReports
  PROVE  [b EXCEPT !.lo = n] \in Buffer /\ [b EXCEPT !.hi = n] \in Buffer
BY DEF Buffer

LEMMA WrittenType ==
  ASSUME NEW r \in [in : Slot, out : Slot, slot : [Slot -> 0 .. MaxReports]],
         NEW i \in Slot, NEW n \in 0 .. MaxReports
  PROVE  /\ [r EXCEPT !.slot[i] = n] \in [in : Slot, out : Slot, slot : [Slot -> 0 .. MaxReports]]
         /\ [r EXCEPT !.in = i] \in [in : Slot, out : Slot, slot : [Slot -> 0 .. MaxReports]]
<1>1. [r.slot EXCEPT ![i] = n] \in [Slot -> 0 .. MaxReports]
  OBVIOUS
<1>2. ASSUME NEW f \in [Slot -> 0 .. MaxReports]
      PROVE  [r EXCEPT !.slot = f] \in [in : Slot, out : Slot, slot : [Slot -> 0 .. MaxReports]]
  OBVIOUS
<1>3. [r EXCEPT !.slot[i] = n] = [r EXCEPT !.slot = [r.slot EXCEPT ![i] = n]]
  OBVIOUS
<1> QED
  BY <1>1, <1>2, <1>3

\* Whatever an endpoint holds once a transfer was started on it, it holds one.
LEMMA LoadsType ==
  ASSUME NEW fifo \in Seq(Buffer), NEW b \in Buffer, NEW f \in Loads(fifo, b)
  PROVE  f \in Seq(Buffer) /\ f # <<>>
<1>1. <<b>> \in Seq(Buffer) /\ <<b>> # <<>>
  <2>1. Append(<<>>, b) \in Seq(Buffer) /\ Append(<<>>, b) # <<>>
    BY EmptySeq, AppendProperties
  <2>2. Append(<<>>, b) = <<b>>
    OBVIOUS
  <2> QED
    BY <2>1, <2>2
<1>2. CASE fifo = <<>>
  BY <1>1, <1>2 DEF Loads
<1>3. CASE fifo # <<>>
  <2>1. Append(fifo, b) \in Seq(Buffer) /\ Append(fifo, b) # <<>>
    BY AppendProperties
  <2>2. f \in {<<b>>, fifo, Append(fifo, b)}
    BY <1>3 DEF Loads
  <2> QED
    BY <1>1, <1>3, <2>1, <2>2
<1> QED
  BY <1>2, <1>3

-----------------------------------------------------------------------------

\* The types are kept by every action: the indices of the rings never leave them,
\* however the main loop's write and TIM2's read interleave (qbuffer.c:38-105).
LEMMA TypeKept ==
  ASSUME TypeOK, [Next]_vars
  PROVE  TypeOK'
<1> USE HidAssumption DEF TypeOK
<1> DEFINE Rings == [Stream -> [in : Slot, out : Slot, slot : [Slot -> 0 .. MaxReports]]]
<1>1. ASSUME NEW s \in Stream, Send(s)
      PROVE  TypeOK'
  BY <1>1 DEF Send
<1>2. CASE Copy
  <2>1. [hid_buf[job.stream] EXCEPT !.lo = job.report] \in Buffer
    BY HalvesType
  <2>2. hid_buf' \in [Stream -> Buffer]
    BY <1>2, <2>1 DEF Copy
  <2> QED
    BY <1>2, <2>2 DEF Copy
<1>3. CASE CopyRest
  <2>1. [hid_buf[job.stream] EXCEPT !.hi = job.report] \in Buffer
    BY HalvesType
  <2>2. hid_buf' \in [Stream -> Buffer]
    BY <1>3, <2>1 DEF CopyRest
  <2> QED
    BY <1>3, <2>2 DEF CopyRest
<1>4. CASE Test
  BY <1>4 DEF Test
<1>5. CASE Claim
  BY <1>5 DEF Claim
<1>6. CASE Transmit
  <2>1. ep' \in [Stream -> Seq(Buffer)]
    <3>1. CASE device = "reset"
      BY <1>6, <3>1 DEF Transmit
    <3>2. CASE device # "reset"
      <4>1. PICK f \in Loads(ep[job.stream], hid_buf[job.stream]) :
              ep' = [ep EXCEPT ![job.stream] = f]
        BY <1>6, <3>2 DEF Transmit
      <4>2. f \in Seq(Buffer)
        BY LoadsType
      <4> QED
        BY <4>1, <4>2
    <3> QED
      BY <3>1, <3>2
  <2> QED
    BY <1>6, <2>1 DEF Transmit
<1>7. CASE Queue
  <2>1. ring' \in Rings
    <3>1. CASE HasRoom(ring[job.stream])
      <4> DEFINE r == ring[job.stream]
      <4>1. ring' = [ring EXCEPT ![job.stream] = [r EXCEPT !.slot[r.in] = job.report]]
        BY <1>7, <3>1 DEF Queue
      <4>2. [r EXCEPT !.slot[r.in] = job.report]
              \in [in : Slot, out : Slot, slot : [Slot -> 0 .. MaxReports]]
        BY WrittenType
      <4> QED
        BY <4>1, <4>2
    <3>2. CASE ~HasRoom(ring[job.stream])
      BY <1>7, <3>2 DEF Queue
    <3> QED
      BY <3>1, <3>2
  <2> QED
    BY <1>7, <2>1 DEF Queue
<1>8. CASE Publish
  <2>1. Following(ring[job.stream].in) \in Slot
    BY FollowingInSlot
  <2>2. [ring[job.stream] EXCEPT !.in = Following(@)]
          \in [in : Slot, out : Slot, slot : [Slot -> 0 .. MaxReports]]
    BY <2>1, WrittenType
  <2>3. ring' \in Rings
    BY <1>8, <2>2 DEF Publish
  <2> QED
    BY <1>8, <2>3 DEF Publish
<1>9. CASE Backup
  <2>1. PICK s \in Stream :
          /\ ring' = [ring EXCEPT ![s] = Taken(@)]
          /\ hid_buf' = [hid_buf EXCEPT ![s] = Whole(Oldest(ring[s]))]
          /\ \E f \in Loads(ep[s], Whole(Oldest(ring[s]))) : ep' = [ep EXCEPT ![s] = f]
    BY <1>9 DEF Backup
  <2>2. Taken(ring[s]) \in [in : Slot, out : Slot, slot : [Slot -> 0 .. MaxReports]]
        /\ Whole(Oldest(ring[s])) \in Buffer
    BY TakenType
  <2>3. ep' \in [Stream -> Seq(Buffer)]
    <3>1. PICK f \in Loads(ep[s], Whole(Oldest(ring[s]))) : ep' = [ep EXCEPT ![s] = f]
      BY <2>1
    <3>2. f \in Seq(Buffer)
      BY <2>2, LoadsType
    <3> QED
      BY <3>1, <3>2
  <2>4. ring' \in Rings /\ hid_buf' \in [Stream -> Buffer]
    BY <2>1, <2>2
  <2> QED
    BY <1>9, <2>3, <2>4 DEF Backup
<1>10. CASE BackupLost
  <2>1. \A s \in Stream :
          /\ Taken(ring[s]) \in [in : Slot, out : Slot, slot : [Slot -> 0 .. MaxReports]]
          /\ Whole(Oldest(ring[s])) \in Buffer
    BY TakenType
  <2>2. ring' \in Rings /\ hid_buf' \in [Stream -> Buffer]
    BY <1>10, <2>1 DEF BackupLost
  <2> QED
    BY <1>10, <2>2 DEF BackupLost
<1>11. ASSUME NEW s \in Stream, DataIn(s)
       PROVE  TypeOK'
  <2>1. Head(ep[s]) \in Buffer /\ Tail(ep[s]) \in Seq(Buffer)
    BY <1>11 DEF DataIn
  <2>2. got' \in [Stream -> SUBSET Buffer] /\ ep' \in [Stream -> Seq(Buffer)]
    BY <1>11, <2>1 DEF DataIn
  <2> QED
    BY <1>11, <2>2 DEF DataIn
<1>12. CASE ViaIn
  BY <1>12 DEF ViaIn
<1>13. CASE Suspend
  BY <1>13 DEF Suspend
<1>14. CASE Resume
  BY <1>14 DEF Resume
<1>15. CASE BusReset
  BY <1>15 DEF BusReset
<1>16. CASE HidInit
  BY <1>16 DEF HidInit
<1>17. CASE UNCHANGED vars
  BY <1>17 DEF vars
<1> QED
  BY <1>1, <1>2, <1>3, <1>4, <1>5, <1>6, <1>7, <1>8, <1>9, <1>10, <1>11, <1>12, <1>13,
     <1>14, <1>15, <1>16, <1>17 DEF Next, MainStep

\* Every reachable state is well typed, for every length of the rings and any
\* number of reports (qbuffer.c:38-126).
THEOREM TypeCorrect == Spec => []TypeOK
<1>1. Init => TypeOK
  <2> SUFFICES ASSUME Init
               PROVE  TypeOK
    OBVIOUS
  <2> USE HidAssumption
  <2>1. 0 \in Slot /\ 0 \in 0 .. MaxReports
    BY DEF Slot
  <2>2. Whole(0) \in Buffer
    BY <2>1 DEF Whole, Buffer
  <2>3. ring \in [Stream -> [in : Slot, out : Slot, slot : [Slot -> 0 .. MaxReports]]]
    BY <2>1 DEF Init
  <2>4. hid_buf \in [Stream -> Buffer] /\ ep \in [Stream -> Seq(Buffer)]
    BY <2>2 DEF Init
  <2> QED
    BY <2>1, <2>3, <2>4 DEF Init, TypeOK
<1>2. TypeOK /\ [Next]_vars => TypeOK'
  BY TypeKept
<1> QED
  BY <1>1, <1>2, PTL DEF Spec

\* A step that makes the state BUSY starts a transfer, or is followed by the start
\* of one; one that ends a transfer makes it IDLE (usbd_hid.c:926-947, 1104-1123).
LEMMA NotWedgedKept ==
  ASSUME TypeOK, NotWedged, [Next]_vars
  PROVE  NotWedged'
<1> USE DEF NotWedged
<1>1. ASSUME NEW s \in Stream, Send(s)
      PROVE  NotWedged'
  BY <1>1 DEF Send
<1>2. CASE Copy
  BY <1>2 DEF Copy
<1>3. CASE CopyRest
  BY <1>3 DEF CopyRest
<1>4. CASE Test
  BY <1>4 DEF Test
<1>5. CASE Claim
  BY <1>5 DEF Claim
<1>6. CASE Transmit
  <2>1. CASE device = "reset"
    BY <1>6, <2>1 DEF Transmit
  <2>2. CASE device # "reset"
    <3>1. PICK f \in Loads(ep[job.stream], hid_buf[job.stream]) :
            ep' = [ep EXCEPT ![job.stream] = f]
      BY <1>6, <2>2 DEF Transmit
    <3>2. f # <<>>
      BY LoadsType DEF TypeOK
    <3>3. job.stream \in Stream /\ ep'[job.stream] # <<>>
      BY <3>1, <3>2 DEF TypeOK
    <3> QED
      BY <3>3
  <2> QED
    BY <2>1, <2>2
<1>7. CASE Queue
  BY <1>7 DEF Queue
<1>8. CASE Publish
  BY <1>8 DEF Publish
<1>9. CASE Backup
  <2>1. PICK s \in Stream :
          \E f \in Loads(ep[s], Whole(Oldest(ring[s]))) : ep' = [ep EXCEPT ![s] = f]
    BY <1>9 DEF Backup
  <2>2. PICK f \in Loads(ep[s], Whole(Oldest(ring[s]))) : ep' = [ep EXCEPT ![s] = f]
    BY <2>1
  <2>3. Whole(Oldest(ring[s])) \in Buffer
    BY TakenType DEF TypeOK
  <2>4. f # <<>>
    BY <2>3, LoadsType DEF TypeOK
  <2>5. ep'[s] # <<>>
    BY <2>2, <2>4 DEF TypeOK
  <2> QED
    BY <2>5
<1>10. CASE BackupLost
  BY <1>10 DEF BackupLost
<1>11. ASSUME NEW s \in Stream, DataIn(s)
       PROVE  NotWedged'
  BY <1>11 DEF DataIn
<1>12. CASE ViaIn
  BY <1>12 DEF ViaIn
<1>13. CASE Suspend
  BY <1>13 DEF Suspend
<1>14. CASE Resume
  BY <1>14 DEF Resume
<1>15. CASE BusReset
  BY <1>15 DEF BusReset
<1>16. CASE HidInit
  BY <1>16 DEF HidInit
<1>17. CASE UNCHANGED vars
  BY <1>17 DEF vars
<1> QED
  BY <1>1, <1>2, <1>3, <1>4, <1>5, <1>6, <1>7, <1>8, <1>9, <1>10, <1>11, <1>12, <1>13,
     <1>14, <1>15, <1>16, <1>17 DEF Next, MainStep

\* The report path never wedges: however the main loop, TIM2, the end of VIA
\* transfers, suspends and resets interleave, a BUSY state of a configured device
\* has a transfer under way, or one about to be started, whose end makes it IDLE
\* (usbd_hid.c:926-947, 1104-1123, 2039-2074).
THEOREM NeverWedged == Spec => []NotWedged
<1>1. Init => NotWedged
  BY DEF Init, NotWedged
<1>2. TypeOK /\ NotWedged /\ [Next]_vars => NotWedged'
  BY NotWedgedKept
<1> QED
  BY <1>1, <1>2, TypeCorrect, PTL DEF Spec

-----------------------------------------------------------------------------
(* The rings are queues *)

Ring == [in : Slot, out : Slot, slot : [Slot -> 0 .. MaxReports]]

\* The remainders that an index of a ring can need.
LEMMA Remainder ==
  /\ \A x \in 0 .. Length - 1 : x % Length = x
  /\ \A x \in Length .. 2 * Length - 1 : x % Length = x - Length
BY HidAssumption, SMT

\* The next index: the first one after the last.
LEMMA FollowingIs ==
  ASSUME NEW i \in Slot
  PROVE  Following(i) = IF i + 1 = Length THEN 0 ELSE i + 1
<1>1. /\ i + 1 \in 0 .. Length - 1 \/ i + 1 \in Length .. 2 * Length - 1
      /\ i + 1 < Length \/ i + 1 = Length
  BY HidAssumption DEF Slot
<1>. QED
  BY <1>1, Remainder, HidAssumption DEF Following, Slot

\* How much a ring holds.
LEMMA AvailableIs ==
  ASSUME NEW r \in Ring
  PROVE  /\ r.in \in Slot /\ r.out \in Slot
         /\ Available(r) = IF r.out <= r.in THEN r.in - r.out ELSE Length + r.in - r.out
         /\ Available(r) \in 0 .. Length - 1
<1>1. r.in \in Slot /\ r.out \in Slot
  BY DEF Ring
<1>2. PICK a : a = Length + r.in - r.out
  OBVIOUS
<1>3. /\ r.out <= r.in => a \in Length .. 2 * Length - 1 /\ a - Length = r.in - r.out
      /\ ~(r.out <= r.in) => a \in 0 .. Length - 1
  BY <1>1, <1>2, HidAssumption DEF Slot
<1>4. Available(r) = a % Length
  BY <1>2 DEF Available
<1>5. Available(r) = IF r.out <= r.in THEN r.in - r.out ELSE Length + r.in - r.out
  BY <1>2, <1>3, <1>4, Remainder
<1>. QED
  BY <1>1, <1>5, HidAssumption DEF Slot

\* The slot of the k-th report a ring holds.
Place(r, k) == (r.out + k - 1) % Length

LEMMA PlaceIs ==
  ASSUME NEW r \in Ring, NEW k \in 1 .. Length
  PROVE  /\ Place(r, k) \in Slot
         /\ Place(r, k) = IF r.out + k - 1 < Length THEN r.out + k - 1
                                                    ELSE r.out + k - 1 - Length
<1>1. r.out \in Slot
  BY DEF Ring
<1>2. PICK a : a = r.out + k - 1
  OBVIOUS
<1>3. /\ a < Length => a \in 0 .. Length - 1
      /\ ~(a < Length) => a \in Length .. 2 * Length - 1 /\ a - Length \in 0 .. Length - 1
  BY <1>1, <1>2, HidAssumption DEF Slot
<1>4. Place(r, k) = a % Length
  BY <1>2 DEF Place
<1>5. CASE a < Length
  BY <1>2, <1>3, <1>4, <1>5, Remainder DEF Slot
<1>6. CASE ~(a < Length)
  <2>1. a % Length = a - Length
    BY <1>3, <1>6, Remainder
  <2>. QED
    BY <1>1, <1>2, <1>3, <1>4, <1>6, <2>1, HidAssumption DEF Slot
<1>. QED
  BY <1>5, <1>6

\* What a ring holds, as a sequence.
LEMMA ContentsIs ==
  ASSUME NEW r \in Ring
  PROVE  /\ Contents(r) \in Seq(0 .. MaxReports)
         /\ Len(Contents(r)) = Available(r)
         /\ \A k \in 1 .. Available(r) : Contents(r)[k] = r.slot[Place(r, k)]
<1>1. Available(r) \in Nat /\ Available(r) <= Length
  BY AvailableIs, HidAssumption
<1>2. \A k \in 1 .. Available(r) : k \in 1 .. Length
  BY <1>1, HidAssumption
<1>3. Contents(r) = [k \in 1 .. Available(r) |-> r.slot[Place(r, k)]]
  BY DEF Contents, Place
<1>4. \A k \in 1 .. Available(r) : r.slot[Place(r, k)] \in 0 .. MaxReports
  BY <1>2, PlaceIs DEF Ring
<1>5. Contents(r) \in [1 .. Available(r) -> 0 .. MaxReports]
  BY <1>3, <1>4
<1>6. Contents(r) \in Seq(0 .. MaxReports)
  BY <1>1, <1>5, SeqDef
<1>7. Len(Contents(r)) \in Nat /\ DOMAIN Contents(r) = 1 .. Len(Contents(r))
  BY <1>6, LenProperties
<1>8. DOMAIN Contents(r) = 1 .. Available(r)
  BY <1>3
<1>9. Len(Contents(r)) = Available(r)
  BY <1>1, <1>7, <1>8
<1>. QED
  BY <1>3, <1>6, <1>9

\* A write into the free slot does not show.
LEMMA WriteIsHidden ==
  ASSUME NEW r \in Ring, NEW n \in 0 .. MaxReports
  PROVE  Contents([r EXCEPT !.slot[r.in] = n]) = Contents(r)
<1>. DEFINE w == [r EXCEPT !.slot[r.in] = n]
<1>1. /\ w.in = r.in /\ w.out = r.out
      /\ \A i \in Slot : i # r.in => w.slot[i] = r.slot[i]
  BY DEF Ring
<1>2. Available(w) = Available(r) /\ \A k : Place(w, k) = Place(r, k)
  BY <1>1 DEF Available, Place
<1>. HIDE DEF w
<1>3. ASSUME NEW k \in 1 .. Available(r)
      PROVE  Place(r, k) \in Slot /\ Place(r, k) # r.in
  <2>1. k \in 1 .. Length
    BY AvailableIs, HidAssumption
  <2>. QED
    BY <2>1, AvailableIs, PlaceIs, HidAssumption DEF Slot
<1>4. \A k \in 1 .. Available(r) : w.slot[Place(w, k)] = r.slot[Place(r, k)]
  BY <1>1, <1>2, <1>3
<1>5. Contents(w) = Contents(r)
  BY <1>2, <1>4 DEF Contents, Place
<1>. QED
  BY <1>5 DEF w

\* Publishing the slot puts it at the back.
LEMMA PublishAppends ==
  ASSUME NEW r \in Ring, HasRoom(r)
  PROVE  /\ Len(Contents(r)) < Length - 1
         /\ Contents([r EXCEPT !.in = Following(@)]) = Append(Contents(r), r.slot[r.in])
<1>. DEFINE p == [r EXCEPT !.in = Following(@)]
            c == Append(Contents(r), r.slot[r.in])
<1>1. /\ p.in = Following(r.in) /\ p.out = r.out /\ p.slot = r.slot
      /\ r.slot[r.in] \in 0 .. MaxReports
      /\ p \in Ring
  BY FollowingInSlot DEF Ring
<1>2. \A k : Place(p, k) = Place(r, k)
  BY <1>1 DEF Place
<1>. HIDE DEF p
<1>3. /\ Available(r) \in 0 .. Length - 1 /\ Available(p) = Available(r) + 1
      /\ Available(r) < Length - 1
  BY <1>1, AvailableIs, FollowingIs, HidAssumption DEF HasRoom, Slot
<1>4. /\ Contents(r) \in Seq(0 .. MaxReports) /\ Contents(p) \in Seq(0 .. MaxReports)
      /\ Len(Contents(r)) = Available(r) /\ Len(Contents(p)) = Available(r) + 1
  BY <1>1, <1>3, ContentsIs
<1>5. /\ c \in Seq(0 .. MaxReports) /\ Len(c) = Available(r) + 1
      /\ \A k \in 1 .. Available(r) : c[k] = Contents(r)[k]
      /\ c[Available(r) + 1] = r.slot[r.in]
  BY <1>1, <1>4, AppendProperties
<1>6. Place(r, Available(r) + 1) = r.in
  <2>1. Available(r) + 1 \in 1 .. Length
    BY <1>3, HidAssumption
  <2>. QED
    BY <1>3, <2>1, AvailableIs, PlaceIs, HidAssumption DEF Slot
<1>. HIDE DEF c
<1>7. ASSUME NEW k \in 1 .. Available(r) + 1
      PROVE  Contents(p)[k] = c[k]
  <2>1. Contents(p)[k] = r.slot[Place(r, k)]
    BY <1>1, <1>2, <1>3, ContentsIs
  <2>2. CASE k = Available(r) + 1
    BY <2>1, <2>2, <1>5, <1>6
  <2>3. CASE k # Available(r) + 1
    <3>1. k \in 1 .. Available(r)
      BY <2>3, <1>3
    <3>. QED
      BY <3>1, <2>1, <1>5, ContentsIs
  <2>. QED
    BY <2>2, <2>3
<1>8. Contents(p) = c
  BY <1>4, <1>5, <1>7, SeqEqual
<1>. QED
  BY <1>3, <1>4, <1>8 DEF p, c

\* A read takes the front.
LEMMA TakenIsTail ==
  ASSUME NEW r \in Ring, Available(r) > 0
  PROVE  /\ Contents(r) # <<>> /\ Contents(r)[1] = Oldest(r)
         /\ Contents(Taken(r)) = Tail(Contents(r))
         /\ HasRoom(r) => HasRoom(Taken(r))
<1>. DEFINE t == Taken(r)
            c == Tail(Contents(r))
<1>1. /\ t.out = Following(r.out) /\ t.in = r.in /\ t.slot = r.slot
      /\ t \in Ring
  BY FollowingInSlot DEF Ring, Taken
<1>. HIDE DEF t
<1>2. /\ Available(r) \in 1 .. Length - 1 /\ Available(t) = Available(r) - 1
      /\ HasRoom(r) => HasRoom(t)
  BY <1>1, AvailableIs, FollowingIs, HidAssumption DEF HasRoom, Slot
<1>3. /\ Contents(r) \in Seq(0 .. MaxReports) /\ Contents(t) \in Seq(0 .. MaxReports)
      /\ Len(Contents(r)) = Available(r) /\ Len(Contents(t)) = Available(r) - 1
  BY <1>1, <1>2, ContentsIs
<1>4. Contents(r) # <<>>
  BY <1>2, <1>3, EmptySeq
<1>5. /\ c \in Seq(0 .. MaxReports) /\ Len(c) = Available(r) - 1
      /\ \A k \in 1 .. Available(r) - 1 : c[k] = Contents(r)[k + 1]
  BY <1>3, <1>4, HeadTailProperties
<1>6. Contents(r)[1] = Oldest(r)
  <2>1. 1 \in 1 .. Available(r) /\ 1 \in 1 .. Length
    BY <1>2, HidAssumption
  <2>2. Place(r, 1) = r.out
    <3>1. Place(r, 1) = IF r.out + 1 - 1 < Length THEN r.out + 1 - 1
                                                  ELSE r.out + 1 - 1 - Length
      BY <2>1, PlaceIs
    <3>2. r.out \in Slot
      BY AvailableIs
    <3>. QED
      BY <3>1, <3>2, HidAssumption DEF Slot
  <2>3. Contents(r)[1] = r.slot[Place(r, 1)]
    BY <2>1, ContentsIs
  <2>. QED
    BY <2>2, <2>3 DEF Oldest
<1>. HIDE DEF c
<1>7. ASSUME NEW k \in 1 .. Available(r) - 1
      PROVE  Contents(t)[k] = c[k]
  <2>1. /\ k \in 1 .. Length /\ k + 1 \in 1 .. Length
        /\ k + 1 \in 1 .. Available(r) /\ k \in 1 .. Available(t)
    BY <1>2, HidAssumption
  <2>2. Place(t, k) = Place(r, k + 1)
    <3>1. /\ Place(t, k) = IF t.out + k - 1 < Length THEN t.out + k - 1
                                                     ELSE t.out + k - 1 - Length
          /\ Place(r, k + 1) = IF r.out + (k + 1) - 1 < Length THEN r.out + (k + 1) - 1
                                                     ELSE r.out + (k + 1) - 1 - Length
      BY <1>1, <2>1, PlaceIs
    <3>2. /\ r.out \in Slot /\ Length \in Nat
          /\ t.out = IF r.out + 1 = Length THEN 0 ELSE r.out + 1
      BY <1>1, AvailableIs, FollowingIs, HidAssumption
    <3>. QED
      BY <2>1, <3>1, <3>2 DEF Slot
  <2>3. Contents(t)[k] = t.slot[Place(t, k)] /\ Contents(r)[k + 1] = r.slot[Place(r, k + 1)]
    BY <1>1, <2>1, ContentsIs
  <2>. QED
    BY <1>1, <1>5, <2>2, <2>3
<1>8. Contents(t) = c
  BY <1>3, <1>5, <1>7, SeqEqual
<1>. QED
  BY <1>2, <1>4, <1>6, <1>8 DEF t, c

-----------------------------------------------------------------------------
(* The order on the wire *)

\* A buffer that is not torn.
IsWhole(b) == b.lo = b.hi

\* Two reports of one kind, in the order they were made: sent is the set of those
\* sent past the queue.
InOrder(sent, a, b) ==
  IsWhole(a) /\ IsWhole(b) /\ (a.lo \in sent <=> b.lo \in sent) => a.lo <= b.lo

\* A report under way or arrived is one of the first last reports, and one that came
\* from the queue is no newer than what the queue c still holds.
Behind(sent, last, c, b) ==
  IsWhole(b) =>
    b.lo \in 1 .. last /\ (b.lo \notin sent => \A i \in 1 .. Len(c) : b.lo <= c[i])

\* A buffer that may follow what the endpoint e holds and what arrived, g.
Fits(sent, last, c, e, g, b) ==
  /\ Behind(sent, last, c, b)
  /\ \A a \in g : InOrder(sent, a, b)
  /\ \A i \in 1 .. Len(e) : InOrder(sent, e[i], b)

\* The queue c holds reports that were not sent past it, in order.
QueueOrder(sent, last, c) ==
  /\ \A i \in 1 .. Len(c) : c[i] \in 1 .. last /\ c[i] \notin sent
  /\ \A i, j \in 1 .. Len(c) : i < j => c[i] <= c[j]

\* What arrived, what is under way and what is queued are in order.
Wire(sent, last, c, e, g) ==
  /\ QueueOrder(sent, last, c)
  /\ \A a \in g : Behind(sent, last, c, a)
  /\ \A i \in 1 .. Len(e) : Behind(sent, last, c, e[i])
  /\ \A i, j \in 1 .. Len(e) : i < j => InOrder(sent, e[i], e[j])
  /\ \A a \in g, i \in 1 .. Len(e) : InOrder(sent, a, e[i])

\* Sending the next report past the queue, or making it without sending it at all,
\* disturbs nothing.
LEMMA NextReport ==
  ASSUME NEW sent, NEW more, NEW last \in Nat, NEW c \in Seq(0 .. MaxReports),
         NEW e \in Seq(Buffer), NEW g \in SUBSET Buffer,
         NEW later \in Nat, last <= later,
         \A n \in 1 .. last : n \in sent <=> n \in more
  PROVE  /\ Wire(sent, last, c, e, g) => Wire(more, later, c, e, g)
         /\ \A b \in Buffer : Wire(sent, last, c, e, g) /\ Fits(sent, last, c, e, g, b)
                                => Fits(more, later, c, e, g, b)
<1>1. ASSUME NEW b \in Buffer, Behind(sent, last, c, b)
      PROVE  Behind(more, later, c, b)
  <2>1. SUFFICES ASSUME IsWhole(b)
                 PROVE  /\ b.lo \in 1 .. later
                        /\ b.lo \notin more => \A i \in 1 .. Len(c) : b.lo <= c[i]
    BY DEF Behind
  <2>2. /\ b.lo \in 1 .. last
        /\ b.lo \notin sent => \A i \in 1 .. Len(c) : b.lo <= c[i]
    BY <1>1, <2>1 DEF Behind
  <2>3. b.lo \in 1 .. later
    BY <2>2
  <2>4. b.lo \in sent <=> b.lo \in more
    BY <2>2
  <2>. QED
    BY <2>2, <2>3, <2>4
<1>2. ASSUME NEW a \in Buffer, NEW b \in Buffer, InOrder(sent, a, b),
             Behind(sent, last, c, a), Behind(sent, last, c, b)
      PROVE  InOrder(more, a, b)
  <2>1. SUFFICES ASSUME IsWhole(a), IsWhole(b), a.lo \in more <=> b.lo \in more
                 PROVE  a.lo <= b.lo
    BY DEF InOrder
  <2>2. a.lo \in 1 .. last /\ b.lo \in 1 .. last
    BY <1>2, <2>1 DEF Behind
  <2>3. a.lo \in sent <=> b.lo \in sent
    BY <2>1, <2>2
  <2>. QED
    BY <1>2, <2>1, <2>3 DEF InOrder
<1>3. \A i \in 1 .. Len(e) : e[i] \in Buffer
  BY ElementOfSeq
<1>4. ASSUME Wire(sent, last, c, e, g)
      PROVE  Wire(more, later, c, e, g)
  <2>1. QueueOrder(more, later, c)
    <3>1. ASSUME NEW i \in 1 .. Len(c)
          PROVE  c[i] \in 1 .. later /\ c[i] \notin more
      <4>1. c[i] \in 1 .. last /\ c[i] \notin sent
        BY <1>4 DEF Wire, QueueOrder
      <4>2. c[i] \in 1 .. later
        BY <4>1
      <4>. QED
        BY <4>1, <4>2
    <3>. QED
      BY <1>4, <3>1 DEF Wire, QueueOrder
  <2>2. /\ \A a \in g : Behind(more, later, c, a)
        /\ \A i \in 1 .. Len(e) : Behind(more, later, c, e[i])
    BY <1>1, <1>3, <1>4 DEF Wire
  <2>3. \A i, j \in 1 .. Len(e) : i < j => InOrder(more, e[i], e[j])
    BY <1>2, <1>3, <1>4 DEF Wire
  <2>4. \A a \in g, i \in 1 .. Len(e) : InOrder(more, a, e[i])
    BY <1>2, <1>3, <1>4 DEF Wire
  <2>. QED
    BY <2>1, <2>2, <2>3, <2>4 DEF Wire
<1>5. ASSUME NEW b \in Buffer, Wire(sent, last, c, e, g), Fits(sent, last, c, e, g, b)
      PROVE  Fits(more, later, c, e, g, b)
  BY <1>1, <1>2, <1>3, <1>5 DEF Wire, Fits
<1>. QED
  BY <1>4, <1>5

\* The next report may join the queue.
LEMMA JoinsQueue ==
  ASSUME NEW sent, NEW last \in Nat, NEW c \in Seq(0 .. MaxReports),
         NEW e \in Seq(Buffer), NEW g \in SUBSET Buffer,
         last + 1 \in 0 .. MaxReports, last + 1 \notin sent,
         Wire(sent, last, c, e, g)
  PROVE  Wire(sent, last + 1, Append(c, last + 1), e, g)
<1>. DEFINE n == last + 1
            d == Append(c, n)
<1>1. /\ Len(c) \in Nat /\ Len(d) = Len(c) + 1
      /\ \A i \in 1 .. Len(c) : d[i] = c[i]
      /\ d[Len(c) + 1] = n
  BY AppendProperties
<1>. HIDE DEF d
<1>2. \A i \in 1 .. Len(d) : (i \in 1 .. Len(c) /\ d[i] = c[i]) \/ (i = Len(c) + 1 /\ d[i] = n)
  BY <1>1
<1>3. ASSUME NEW b \in Buffer, Behind(sent, last, c, b)
      PROVE  Behind(sent, n, d, b)
  <2>1. SUFFICES ASSUME IsWhole(b)
                 PROVE  /\ b.lo \in 1 .. n
                        /\ b.lo \notin sent => \A i \in 1 .. Len(d) : b.lo <= d[i]
    BY DEF Behind
  <2>2. /\ b.lo \in 1 .. last
        /\ b.lo \notin sent => \A i \in 1 .. Len(c) : b.lo <= c[i]
    BY <1>3, <2>1 DEF Behind
  <2>3. b.lo \in 1 .. n /\ b.lo <= n
    BY <2>2
  <2>. QED
    BY <1>2, <2>2, <2>3
<1>4. QueueOrder(sent, n, d)
  <2>1. ASSUME NEW i \in 1 .. Len(c)
        PROVE  c[i] \in 1 .. n /\ c[i] <= n /\ c[i] \notin sent
    <3>1. c[i] \in 1 .. last /\ c[i] \notin sent
      BY DEF Wire, QueueOrder
    <3>2. c[i] \in 1 .. n /\ c[i] <= n
      BY <3>1
    <3>. QED
      BY <3>1, <3>2
  <2>2. n \in 1 .. n
    OBVIOUS
  <2>3. ASSUME NEW i \in 1 .. Len(d)
        PROVE  d[i] \in 1 .. n /\ d[i] \notin sent
    BY <1>2, <2>1, <2>2
  <2>4. ASSUME NEW i \in 1 .. Len(d), NEW j \in 1 .. Len(d), i < j
        PROVE  d[i] <= d[j]
    <3>1. i \in 1 .. Len(c) /\ d[i] = c[i]
      BY <1>1, <1>2, <2>4
    <3>2. CASE j \in 1 .. Len(c) /\ d[j] = c[j]
      BY <2>4, <3>1, <3>2 DEF Wire, QueueOrder
    <3>3. CASE d[j] = n
      BY <2>1, <3>1, <3>3
    <3>. QED
      BY <1>2, <3>2, <3>3
  <2>. QED
    BY <2>3, <2>4 DEF QueueOrder
<1>5. \A i \in 1 .. Len(e) : e[i] \in Buffer
  BY ElementOfSeq
<1>6. Wire(sent, n, d, e, g)
  BY <1>3, <1>4, <1>5 DEF Wire
<1>. QED
  BY <1>6 DEF d

\* Taking the oldest report from the queue disturbs nothing, and the report fits.
LEMMA LeavesQueue ==
  ASSUME NEW sent, NEW last \in Nat, NEW c \in Seq(0 .. MaxReports), c # <<>>,
         NEW e \in Seq(Buffer), NEW g \in SUBSET Buffer,
         Wire(sent, last, c, e, g)
  PROVE  /\ Wire(sent, last, Tail(c), e, g)
         /\ Fits(sent, last, Tail(c), e, g, Whole(c[1]))
         /\ \A b \in Buffer : Fits(sent, last, c, e, g, b)
                                => Fits(sent, last, Tail(c), e, g, b)
<1>. DEFINE d == Tail(c)
            w == Whole(c[1])
<1>1. /\ Len(c) \in Nat \ {0} /\ Len(d) = Len(c) - 1
      /\ \A i \in 1 .. Len(d) : d[i] = c[i + 1]
  BY HeadTailProperties, EmptySeq
<1>. HIDE DEF d
<1>2. /\ 1 \in 1 .. Len(c)
      /\ \A i \in 1 .. Len(d) : i + 1 \in 1 .. Len(c) /\ 1 < i + 1 /\ d[i] = c[i + 1]
  BY <1>1
<1>3. \A b : Behind(sent, last, c, b) => Behind(sent, last, d, b)
  BY <1>2 DEF Behind
<1>4. QueueOrder(sent, last, d)
  <2>1. \A i \in 1 .. Len(d) : d[i] \in 1 .. last /\ d[i] \notin sent
    BY <1>2 DEF Wire, QueueOrder
  <2>2. ASSUME NEW i \in 1 .. Len(d), NEW j \in 1 .. Len(d), i < j
        PROVE  d[i] <= d[j]
    <3>1. i + 1 < j + 1
      BY <2>2
    <3>. QED
      BY <1>2, <3>1 DEF Wire, QueueOrder
  <2>. QED
    BY <2>1, <2>2 DEF QueueOrder
<1>5. Wire(sent, last, d, e, g)
  BY <1>3, <1>4 DEF Wire
<1>6. /\ w.lo = c[1] /\ w.hi = c[1] /\ c[1] \in 1 .. last /\ c[1] \notin sent
      /\ \A i \in 1 .. Len(d) : c[1] <= d[i]
  BY <1>2 DEF Whole, Wire, QueueOrder
<1>7. ASSUME NEW b, Behind(sent, last, c, b)
      PROVE  InOrder(sent, b, w)
  <2>1. IsWhole(b) /\ b.lo \notin sent => b.lo <= c[1]
    BY <1>2, <1>7 DEF Behind
  <2>. QED
    BY <1>6, <2>1 DEF InOrder
<1>8. Fits(sent, last, d, e, g, w)
  BY <1>6, <1>7 DEF Fits, Behind, Wire
<1>9. \A b \in Buffer : Fits(sent, last, c, e, g, b) => Fits(sent, last, d, e, g, b)
  BY <1>3 DEF Fits
<1>. QED
  BY <1>5, <1>8, <1>9 DEF d

\* Starting a transfer of a buffer that fits keeps the order, and the buffer fits
\* again.
LEMMA LoadKeeps ==
  ASSUME NEW sent, NEW last \in Nat, NEW c \in Seq(0 .. MaxReports),
         NEW e \in Seq(Buffer), NEW g \in SUBSET Buffer, NEW b \in Buffer,
         Wire(sent, last, c, e, g), Fits(sent, last, c, e, g, b),
         NEW f \in Loads(e, b)
  PROVE  Wire(sent, last, c, f, g) /\ Fits(sent, last, c, f, g, b)
<1>1. Len(e) \in Nat
  OBVIOUS
<1>2. \/ f = <<b>> \/ f = e
      \/ /\ Len(f) = Len(e) + 1 /\ f[Len(e) + 1] = b
         /\ \A i \in 1 .. Len(e) : f[i] = e[i]
  <2>1. f = <<b>> \/ f = e \/ f = Append(e, b)
    BY DEF Loads
  <2>. QED
    BY <2>1, AppendProperties
<1>3. InOrder(sent, b, b)
  BY DEF InOrder, Buffer
<1>4. CASE f = e
  BY <1>4
<1>5. CASE f = <<b>>
  <2>1. Len(f) = 1 /\ f[1] = b
    BY <1>5
  <2>2. \A i \in 1 .. Len(f) : i = 1 /\ f[i] = b
    BY <2>1
  <2>3. \A i, j \in 1 .. Len(f) : ~(i < j)
    BY <2>1
  <2>. QED
    BY <1>3, <2>2, <2>3 DEF Wire, Fits
<1>6. CASE /\ Len(f) = Len(e) + 1 /\ f[Len(e) + 1] = b
           /\ \A i \in 1 .. Len(e) : f[i] = e[i]
  <2>1. \A i \in 1 .. Len(f) : (i \in 1 .. Len(e) /\ f[i] = e[i]) \/ (i = Len(e) + 1 /\ f[i] = b)
    BY <1>1, <1>6
  <2>2. ASSUME NEW i \in 1 .. Len(f), NEW j \in 1 .. Len(f), i < j
        PROVE  InOrder(sent, f[i], f[j])
    <3>1. i \in 1 .. Len(e) /\ f[i] = e[i]
      BY <1>1, <1>6, <2>2
    <3>2. CASE j \in 1 .. Len(e) /\ f[j] = e[j]
      BY <2>2, <3>1, <3>2 DEF Wire
    <3>3. CASE f[j] = b
      BY <3>1, <3>3 DEF Fits
    <3>. QED
      BY <2>1, <3>2, <3>3
  <2>3. \A i \in 1 .. Len(f) : Behind(sent, last, c, f[i])
    BY <2>1 DEF Wire, Fits
  <2>4. \A a \in g, i \in 1 .. Len(f) : InOrder(sent, a, f[i])
    BY <2>1 DEF Wire, Fits
  <2>5. \A i \in 1 .. Len(f) : InOrder(sent, f[i], b)
    BY <1>3, <2>1 DEF Fits
  <2>. QED
    BY <2>2, <2>3, <2>4, <2>5 DEF Wire, Fits
<1>. QED
  BY <1>2, <1>4, <1>5, <1>6

\* The host takes what the endpoint held longest.
LEMMA ArrivalKeeps ==
  ASSUME NEW sent, NEW last \in Nat, NEW c \in Seq(0 .. MaxReports),
         NEW e \in Seq(Buffer), NEW g \in SUBSET Buffer, e # <<>>,
         Wire(sent, last, c, e, g)
  PROVE  /\ Wire(sent, last, c, Tail(e), g \cup {Head(e)})
         /\ \A a \in g : InOrder(sent, a, Head(e))
         /\ \A b \in Buffer : Fits(sent, last, c, e, g, b)
                                => Fits(sent, last, c, Tail(e), g \cup {Head(e)}, b)
<1>. DEFINE f == Tail(e)
<1>1. /\ Len(e) \in Nat \ {0} /\ Len(f) = Len(e) - 1
      /\ \A i \in 1 .. Len(f) : f[i] = e[i + 1]
      /\ Head(e) = e[1]
  BY HeadTailProperties, EmptySeq
<1>. HIDE DEF f
<1>2. /\ 1 \in 1 .. Len(e)
      /\ \A i \in 1 .. Len(f) : i + 1 \in 1 .. Len(e) /\ 1 < i + 1 /\ f[i] = e[i + 1]
  BY <1>1
<1>3. ASSUME NEW i \in 1 .. Len(f), NEW j \in 1 .. Len(f), i < j
      PROVE  InOrder(sent, f[i], f[j])
  <2>1. i + 1 < j + 1
    BY <1>3
  <2>. QED
    BY <1>2, <2>1 DEF Wire
<1>4. \A a \in g : InOrder(sent, a, Head(e))
  BY <1>1, <1>2 DEF Wire
<1>5. ASSUME NEW a \in g \cup {Head(e)}
      PROVE  Behind(sent, last, c, a) /\ \A i \in 1 .. Len(f) : InOrder(sent, a, f[i])
  <2>1. CASE a \in g
    BY <1>2, <2>1 DEF Wire
  <2>2. CASE a = e[1]
    BY <1>2, <2>2 DEF Wire
  <2>. QED
    BY <1>1, <2>1, <2>2
<1>6. \A i \in 1 .. Len(f) : Behind(sent, last, c, f[i])
  BY <1>2 DEF Wire
<1>7. Wire(sent, last, c, f, g \cup {Head(e)})
  BY <1>3, <1>5, <1>6 DEF Wire
<1>8. ASSUME NEW b \in Buffer, Fits(sent, last, c, e, g, b)
      PROVE  Fits(sent, last, c, f, g \cup {Head(e)}, b)
  BY <1>1, <1>2, <1>8 DEF Fits
<1>. QED
  BY <1>4, <1>7, <1>8 DEF f

\* A bus reset leaves nothing under way.
LEMMA ResetKeeps ==
  ASSUME NEW sent, NEW last, NEW c, NEW e, NEW g, Wire(sent, last, c, e, g)
  PROVE  /\ Wire(sent, last, c, <<>>, g)
         /\ \A b : Fits(sent, last, c, e, g, b) => Fits(sent, last, c, <<>>, g, b)
<1>1. \A i \in 1 .. Len(<<>>) : FALSE
  OBVIOUS
<1>. QED
  BY <1>1 DEF Wire, Fits

-----------------------------------------------------------------------------
(* Every step is a step of the queues, and keeps the order *)

\* The reports that are made and whose call has returned are 1 .. Last.
Last == IF pc = "idle" THEN made ELSE made - 1

\* The report of a call in progress is the last one made, and the slot it was
\* written to is not yet published.
JobReady ==
  /\ pc # "idle" => job.report = made /\ made \in Report
  /\ pc = "publish" =>
       /\ HasRoom(ring[job.stream])
       /\ ring[job.stream].slot[ring[job.stream].in] = made

\* Rings, queues, endpoints and buffers have their types.
LEMMA RingType ==
  ASSUME TypeOK
  PROVE  /\ job.stream \in Stream /\ job.report \in 0 .. MaxReports
         /\ made \in 0 .. MaxReports /\ MaxReports \in Nat
         /\ \A s \in Stream : /\ ring[s] \in Ring /\ Contents(ring[s]) \in Seq(0 .. MaxReports)
                              /\ ep[s] \in Seq(Buffer) /\ got[s] \in SUBSET Buffer
                              /\ hid_buf[s] \in Buffer
<1>1. \A s \in Stream : ring[s] \in Ring
  BY DEF TypeOK, Ring
<1>2. \A s \in Stream : Contents(ring[s]) \in Seq(0 .. MaxReports)
  BY <1>1, ContentsIs
<1>. QED
  BY <1>1, <1>2, HidAssumption DEF TypeOK

\* The main loop's write of a slot shows in no queue.
LEMMA QueueHides ==
  ASSUME TypeOK, Queue
  PROVE  \A s \in Stream : Contents(ring'[s]) = Contents(ring[s])
<1>1. CASE ~HasRoom(ring[job.stream])
  BY <1>1 DEF Queue
<1>2. CASE HasRoom(ring[job.stream])
  <2>. DEFINE r == ring[job.stream]
              w == [r EXCEPT !.slot[r.in] = job.report]
  <2>1. ring' = [ring EXCEPT ![job.stream] = w]
    BY <1>2 DEF Queue
  <2>2. Contents(w) = Contents(r)
    BY RingType, WriteIsHidden
  <2>. HIDE DEF w
  <2>. QED
    BY <2>1, <2>2, RingType DEF TypeOK
<1>. QED
  BY <1>1, <1>2

\* Publishing puts the report of the call at the back of its queue.
LEMMA PublishPuts ==
  ASSUME TypeOK, JobReady, Publish
  PROVE  /\ Len(Contents(ring[job.stream])) < Length - 1
         /\ Contents(ring'[job.stream]) = Append(Contents(ring[job.stream]), made)
         /\ \A s \in Stream \ {job.stream} : ring'[s] = ring[s]
<1>. DEFINE r == ring[job.stream]
            p == [r EXCEPT !.in = Following(@)]
<1>1. ring' = [ring EXCEPT ![job.stream] = p]
  BY DEF Publish
<1>2. r \in Ring /\ HasRoom(r) /\ r.slot[r.in] = made
  BY RingType DEF JobReady, Publish
<1>3. Len(Contents(r)) < Length - 1 /\ Contents(p) = Append(Contents(r), made)
  BY <1>2, PublishAppends
<1>. HIDE DEF p
<1>. QED
  BY <1>1, <1>3, RingType DEF TypeOK

\* TIM2 takes the front of one queue ...
LEMMA BackupTakes ==
  ASSUME TypeOK, Backup
  PROVE  \E s \in Stream :
           LET c == Contents(ring[s]) IN
           /\ c # <<>> /\ Contents(ring'[s]) = Tail(c)
           /\ HasRoom(ring[s]) => HasRoom(ring'[s])
           /\ ring'[s].in = ring[s].in /\ ring'[s].slot = ring[s].slot
           /\ hid_buf' = [hid_buf EXCEPT ![s] = Whole(c[1])] /\ Whole(c[1]) \in Buffer
           /\ \E f \in Loads(ep[s], Whole(c[1])) : ep' = [ep EXCEPT ![s] = f]
           /\ \A o \in Stream \ {s} : ring'[o] = ring[o]
<1>1. PICK s \in Stream :
        /\ Available(ring[s]) > 0
        /\ ring' = [ring EXCEPT ![s] = Taken(@)]
        /\ hid_buf' = [hid_buf EXCEPT ![s] = Whole(Oldest(ring[s]))]
        /\ \E f \in Loads(ep[s], Whole(Oldest(ring[s]))) : ep' = [ep EXCEPT ![s] = f]
  BY DEF Backup, Turn
<1>2. ring[s] \in Ring
  BY RingType
<1>3. /\ Contents(ring[s]) # <<>> /\ Contents(ring[s])[1] = Oldest(ring[s])
      /\ Contents(Taken(ring[s])) = Tail(Contents(ring[s]))
      /\ HasRoom(ring[s]) => HasRoom(Taken(ring[s]))
  BY <1>1, <1>2, TakenIsTail
<1>4. Whole(Oldest(ring[s])) \in Buffer
  BY <1>2, TakenType DEF Ring
<1>5. Taken(ring[s]).in = ring[s].in /\ Taken(ring[s]).slot = ring[s].slot
  BY <1>2 DEF Taken, Ring
<1>6. ring'[s] = Taken(ring[s]) /\ \A o \in Stream \ {s} : ring'[o] = ring[o]
  BY <1>1 DEF TypeOK
<1>. QED
  BY <1>1, <1>3, <1>4, <1>5, <1>6

\* ... or of every queue that is not empty.
LEMMA LostTakes ==
  ASSUME TypeOK, BackupLost, NEW s \in Stream
  PROVE  LET c == Contents(ring[s]) IN
         \/ ring'[s] = ring[s] /\ hid_buf'[s] = hid_buf[s]
         \/ /\ c # <<>> /\ Contents(ring'[s]) = Tail(c)
            /\ HasRoom(ring[s]) => HasRoom(ring'[s])
            /\ ring'[s].in = ring[s].in /\ ring'[s].slot = ring[s].slot
            /\ hid_buf'[s] = Whole(c[1])
<1>1. ring[s] \in Ring
  BY RingType
<1>2. CASE Available(ring[s]) > 0
  <2>1. ring'[s] = Taken(ring[s]) /\ hid_buf'[s] = Whole(Oldest(ring[s]))
    BY <1>2 DEF BackupLost
  <2>2. /\ Contents(ring[s]) # <<>> /\ Contents(ring[s])[1] = Oldest(ring[s])
        /\ Contents(Taken(ring[s])) = Tail(Contents(ring[s]))
        /\ HasRoom(ring[s]) => HasRoom(Taken(ring[s]))
    BY <1>1, <1>2, TakenIsTail
  <2>3. Taken(ring[s]).in = ring[s].in /\ Taken(ring[s]).slot = ring[s].slot
    BY <1>1 DEF Taken, Ring
  <2>. QED
    BY <2>1, <2>2, <2>3
<1>3. CASE ~(Available(ring[s]) > 0)
  BY <1>3 DEF BackupLost
<1>. QED
  BY <1>2, <1>3

\* Every step keeps the report of the call and its slot.
LEMMA JobKept ==
  ASSUME TypeOK, JobReady, [Next]_vars
  PROVE  JobReady'
<1>1. ASSUME NEW s \in Stream, Send(s)
      PROVE  JobReady'
  BY <1>1, RingType DEF Send, JobReady, Report
<1>2. CASE UNCHANGED <<pc, job, made, ring>>
  BY <1>2 DEF JobReady
<1>3. CASE Copy \/ CopyRest \/ Test \/ Claim
  BY <1>3 DEF Copy, CopyRest, Test, Claim, JobReady
<1>4. CASE Transmit \/ Publish
  BY <1>4 DEF Transmit, Publish, JobReady
<1>5. CASE Queue
  <2>1. CASE HasRoom(ring[job.stream])
    <3>. DEFINE r == ring[job.stream]
                w == [r EXCEPT !.slot[r.in] = job.report]
    <3>1. ring' = [ring EXCEPT ![job.stream] = w] /\ UNCHANGED <<job, made>> /\ job.report = made
      BY <1>5, <2>1 DEF Queue, JobReady
    <3>2. w.in = r.in /\ w.out = r.out /\ w.slot[r.in] = job.report
      BY RingType DEF Ring
    <3>3. ring'[job.stream] = w
      BY <3>1, RingType DEF TypeOK
    <3>. HIDE DEF w
    <3>. QED
      BY <1>5, <2>1, <3>1, <3>2, <3>3 DEF JobReady, HasRoom, Queue
  <2>2. CASE ~HasRoom(ring[job.stream])
    BY <1>5, <2>2 DEF Queue, JobReady
  <2>. QED
    BY <2>1, <2>2
<1>6. CASE Backup
  <2>1. /\ UNCHANGED <<pc, job, made>>
        /\ HasRoom(ring[job.stream]) => HasRoom(ring'[job.stream])
        /\ ring'[job.stream].in = ring[job.stream].in
        /\ ring'[job.stream].slot = ring[job.stream].slot
    BY <1>6, BackupTakes, RingType DEF Backup
  <2>. QED
    BY <2>1 DEF JobReady
<1>7. CASE BackupLost
  <2>1. /\ UNCHANGED <<pc, job, made>>
        /\ HasRoom(ring[job.stream]) => HasRoom(ring'[job.stream])
        /\ ring'[job.stream].in = ring[job.stream].in
        /\ ring'[job.stream].slot = ring[job.stream].slot
    BY <1>7, LostTakes, RingType DEF BackupLost
  <2>. QED
    BY <2>1 DEF JobReady
<1>8. ASSUME NEW s \in Stream, DataIn(s)
      PROVE  JobReady'
  BY <1>2, <1>8 DEF DataIn
<1>9. CASE ViaIn \/ Suspend \/ Resume \/ BusReset \/ HidInit \/ UNCHANGED vars
  BY <1>2, <1>9 DEF ViaIn, Suspend, Resume, BusReset, HidInit, vars
<1>. QED
  BY <1>1, <1>3, <1>4, <1>5, <1>6, <1>7, <1>8, <1>9 DEF Next, MainStep

\* Every step is one of the queue of a stream, or leaves it alone.
LEMMA QueueStep ==
  ASSUME TypeOK, JobReady, [Next]_vars, NEW s \in Stream
  PROVE  LET c == Contents(ring[s])
             d == Contents(ring'[s]) IN
         \/ d = c
         \/ c # <<>> /\ d = Tail(c)
         \/ \E n \in Report : Len(c) < Length - 1 /\ d = Append(c, n)
<1>1. CASE UNCHANGED ring
  BY <1>1
<1>2. CASE Queue
  BY <1>2, QueueHides
<1>3. CASE Publish
  <2>1. made \in Report
    BY <1>3 DEF JobReady, Publish
  <2>2. CASE s = job.stream
    BY <1>3, <2>1, <2>2, PublishPuts
  <2>3. CASE s # job.stream
    BY <1>3, <2>3, PublishPuts
  <2>. QED
    BY <2>2, <2>3
<1>4. CASE Backup
  BY <1>4, BackupTakes
<1>5. CASE BackupLost
  BY <1>5, LostTakes
<1>6. CASE \E o \in Stream : Send(o) \/ DataIn(o)
  BY <1>1, <1>6 DEF Send, DataIn
<1>7. CASE Copy \/ CopyRest \/ Test \/ Claim \/ Transmit
  BY <1>1, <1>7 DEF Copy, CopyRest, Test, Claim, Transmit
<1>8. CASE ViaIn \/ Suspend \/ Resume \/ BusReset \/ HidInit \/ UNCHANGED vars
  BY <1>1, <1>8 DEF ViaIn, Suspend, Resume, BusReset, HidInit, vars
<1>. QED
  BY <1>2, <1>3, <1>4, <1>5, <1>6, <1>7, <1>8 DEF Next, MainStep

\* A ring that nothing was put into holds nothing.
LEMMA InitEmpty == Init => \A s \in Stream : Contents(ring[s]) = <<>>
<1>. SUFFICES ASSUME Init, NEW s \in Stream
              PROVE  Contents(ring[s]) = <<>>
  OBVIOUS
<1>. DEFINE r == [in |-> 0, out |-> 0, slot |-> [i \in Slot |-> 0]]
<1>1. ring[s] = r
  BY DEF Init
<1>2. r \in Ring
  <2>1. 0 \in Slot /\ 0 \in 0 .. MaxReports
    BY HidAssumption DEF Slot
  <2>. QED
    BY <2>1 DEF Ring
<1>3. r.in = 0 /\ r.out = 0
  OBVIOUS
<1>. HIDE DEF r
<1>4. Available(r) = 0
  BY <1>2, <1>3, AvailableIs
<1>5. Contents(r) \in Seq(0 .. MaxReports) /\ Len(Contents(r)) = 0
  BY <1>2, <1>4, ContentsIs
<1>. QED
  BY <1>1, <1>5, EmptySeq

\* The rings are bounded queues: for every length, the main loop's write in two
\* steps and TIM2's read between them are, to their users, one operation each
\* (qbuffer.c:38-105).
THEOREM RingsKeepFifo ==
  ASSUME Stream = {"kbd", "exk"}
  PROVE  Spec => RingsAreQueues
<1>1. Init => /\ JobReady
              /\ Contents(ring["kbd"]) = <<>> /\ Contents(ring["exk"]) = <<>>
  BY InitEmpty DEF Init, JobReady
<1>2. TypeOK /\ JobReady /\ [Next]_vars => JobReady'
  BY JobKept
<1>3. ASSUME TypeOK, JobReady, [Next]_vars
      PROVE  [KeyQueue!Take \/ \E r \in Report : KeyQueue!Put(r)]_(Contents(ring["kbd"]))
  <2>. DEFINE c == Contents(ring["kbd"])
              d == Contents(ring'["kbd"])
  <2>1. \/ d = c
        \/ c # <<>> /\ d = Tail(c)
        \/ \E n \in Report : Len(c) < Length - 1 /\ d = Append(c, n)
    BY <1>3, QueueStep
  <2>2. c' = d
    OBVIOUS
  <2>. HIDE DEF c, d
  <2>3. [KeyQueue!Take \/ \E r \in Report : KeyQueue!Put(r)]_c
    BY <2>1, <2>2 DEF KeyQueue!Take, KeyQueue!Put, c
  <2>. QED
    BY <2>3 DEF c
<1>4. ASSUME TypeOK, JobReady, [Next]_vars
      PROVE  [ExkQueue!Take \/ \E r \in Report : ExkQueue!Put(r)]_(Contents(ring["exk"]))
  <2>. DEFINE c == Contents(ring["exk"])
              d == Contents(ring'["exk"])
  <2>1. \/ d = c
        \/ c # <<>> /\ d = Tail(c)
        \/ \E n \in Report : Len(c) < Length - 1 /\ d = Append(c, n)
    BY <1>4, QueueStep
  <2>2. c' = d
    OBVIOUS
  <2>. HIDE DEF c, d
  <2>3. [ExkQueue!Take \/ \E r \in Report : ExkQueue!Put(r)]_c
    BY <2>1, <2>2 DEF ExkQueue!Take, ExkQueue!Put, c
  <2>. QED
    BY <2>3 DEF c
<1>. QED
  BY <1>1, <1>2, <1>3, <1>4, TypeCorrect, PTL
     DEF Spec, RingsAreQueues, KeyQueue!Fifo, ExkQueue!Fifo

-----------------------------------------------------------------------------
(* The order of the reports *)

\* The reports sent past the queue are settled, and for every stream what arrived,
\* what is under way and what is queued are in order.
WireOrder ==
  /\ \A n \in direct : n \in 1 .. Last
  /\ \A s \in Stream : Wire(direct, Last, Contents(ring[s]), ep[s], got[s])

\* What the main loop is about to send is the report of the call, or the last one
\* TIM2 took from the queue over it, or a mixture of the two.
BufferFits ==
  pc \in {"test", "claim", "transmit"} =>
    LET s == job.stream IN
    \/ IsWhole(hid_buf[s]) /\ hid_buf[s].lo = made
    \/ Fits(direct, Last, Contents(ring[s]), ep[s], got[s], hid_buf[s])

\* While a call is in progress its report is not yet settled.
LEMMA LastIs ==
  ASSUME TypeOK, JobReady
  PROVE  /\ Last \in Nat /\ Last <= made
         /\ pc # "idle" => made = Last + 1
BY RingType DEF JobReady, Last, Report

\* When only what is made or sent changes, in step, the order stays.
LEMMA MoreKeeps ==
  ASSUME TypeOK, JobReady, WireOrder, UNCHANGED <<ring, ep, got>>,
         Last' \in Nat, Last <= Last',
         \A n \in 1 .. Last : n \in direct <=> n \in direct',
         \A n \in direct' : n \in 1 .. Last'
  PROVE  WireOrder'
<1>1. ASSUME NEW s \in Stream
      PROVE  Wire(direct', Last', Contents(ring[s]), ep[s], got[s])
  <2>1. /\ Contents(ring[s]) \in Seq(0 .. MaxReports) /\ ep[s] \in Seq(Buffer)
        /\ got[s] \in SUBSET Buffer
    BY RingType
  <2>2. Wire(direct, Last, Contents(ring[s]), ep[s], got[s])
    BY DEF WireOrder
  <2>3. Last \in Nat
    BY LastIs
  <2>. QED
    BY <2>1, <2>2, <2>3, NextReport
<1>. QED
  BY <1>1 DEF WireOrder

\* Every step keeps the order.
LEMMA OrderKept ==
  ASSUME TypeOK, JobReady, WireOrder, BufferFits, [Next]_vars
  PROVE  WireOrder' /\ BufferFits'
<1>. DEFINE C(s) == Contents(ring[s])
<1>1. ASSUME NEW s \in Stream, Send(s)
      PROVE  WireOrder' /\ BufferFits'
  <2>1. /\ UNCHANGED <<ring, ep, got, direct>> /\ Last = made /\ Last' \in {made, made + 1}
        /\ pc' \in {"idle", "copy"}
    BY <1>1, RingType DEF Send, Last
  <2>2. Last' \in Nat /\ Last <= Last'
    BY <2>1, RingType
  <2>3. \A n \in direct' : n \in 1 .. Last'
    BY <2>1, <2>2, LastIs DEF WireOrder
  <2>4. WireOrder'
    BY <2>1, <2>2, <2>3, MoreKeeps
  <2>. QED
    BY <2>1, <2>4 DEF BufferFits
<1>2. ASSUME UNCHANGED <<ring, ep, got, direct, Last>>
      PROVE  WireOrder'
  BY <1>2 DEF WireOrder
<1>3. CASE Copy
  <2>1. UNCHANGED <<ring, ep, got, direct, Last>> /\ pc' = "copying"
    BY <1>3 DEF Copy, Last
  <2>. QED
    BY <1>2, <2>1 DEF BufferFits
<1>4. CASE CopyRest
  <2>1. UNCHANGED <<ring, ep, got, direct, Last, job, made>> /\ pc # "idle"
    BY <1>4 DEF CopyRest, Last
  <2>2. hid_buf'[job.stream].hi = made /\ hid_buf'[job.stream] \in Buffer
    <3>1. [hid_buf[job.stream] EXCEPT !.hi = job.report] \in Buffer
      BY RingType, HalvesType
    <3>2. hid_buf'[job.stream] = [hid_buf[job.stream] EXCEPT !.hi = job.report]
      BY <1>4, RingType DEF CopyRest, TypeOK
    <3>3. job.report = made
      BY <2>1 DEF JobReady
    <3>4. [hid_buf[job.stream] EXCEPT !.hi = job.report].hi = job.report
      BY RingType DEF Buffer
    <3>. QED
      BY <3>1, <3>2, <3>3, <3>4
  <2>3. \/ IsWhole(hid_buf'[job.stream]) /\ hid_buf'[job.stream].lo = made
        \/ ~IsWhole(hid_buf'[job.stream])
    BY <2>2 DEF IsWhole
  <2>4. ASSUME NEW b, ~IsWhole(b), NEW s
        PROVE  Fits(direct, Last, C(s), ep[s], got[s], b)
    BY <2>4 DEF Fits, Behind, InOrder
  <2>5. BufferFits'
    <3>1. \/ IsWhole(hid_buf'[job.stream]) /\ hid_buf'[job.stream].lo = made
          \/ Fits(direct, Last, C(job.stream), ep[job.stream], got[job.stream],
                  hid_buf'[job.stream])
      BY <2>3, <2>4
    <3>. QED
      BY <2>1, <3>1 DEF BufferFits
  <2>. QED
    BY <1>2, <2>1, <2>5
<1>5. ASSUME UNCHANGED <<ring, ep, got, direct, Last, job, made, hid_buf>>,
             pc' \in {"test", "claim", "transmit"} => pc \in {"test", "claim", "transmit"}
      PROVE  WireOrder' /\ BufferFits'
  BY <1>2, <1>5 DEF BufferFits
<1>6. CASE Test \/ Claim
  <2>1. UNCHANGED <<ring, ep, got, direct, Last, job, made, hid_buf>>
        /\ pc \in {"test", "claim", "transmit"}
    BY <1>6 DEF Test, Claim, Last
  <2>. QED
    BY <1>5, <2>1
<1>7. CASE Transmit
  <2>. DEFINE t == job.stream
              now == direct \cup {made}
  <2>1. /\ UNCHANGED <<ring, got, made>> /\ direct' = now /\ pc = "transmit" /\ pc' = "idle"
        /\ Last' = made /\ made = Last + 1 /\ Last \in Nat /\ t \in Stream
    <3>1. pc = "transmit" /\ pc' = "idle" /\ UNCHANGED <<ring, got, made, job>>
          /\ direct' = direct \cup {job.report}
      BY <1>7 DEF Transmit
    <3>. QED
      BY <3>1, LastIs, RingType DEF JobReady, Last
  <2>2. ASSUME NEW s \in Stream
        PROVE  /\ Wire(now, made, C(s), ep[s], got[s])
               /\ \A b \in Buffer : Fits(direct, Last, C(s), ep[s], got[s], b)
                                      => Fits(now, made, C(s), ep[s], got[s], b)
    <3>1. /\ C(s) \in Seq(0 .. MaxReports) /\ ep[s] \in Seq(Buffer) /\ got[s] \in SUBSET Buffer
          /\ made \in Nat
      BY RingType
    <3>2. Wire(direct, Last, C(s), ep[s], got[s])
      BY DEF WireOrder
    <3>3. Last <= made /\ \A n \in 1 .. Last : n \in direct <=> n \in now
      BY <2>1
    <3>. HIDE DEF C, now
    <3>. QED
      BY <2>1, <3>1, <3>2, <3>3, NextReport
  <2>3. Fits(now, made, C(t), ep[t], got[t], hid_buf[t])
    <3>1. CASE Fits(direct, Last, C(t), ep[t], got[t], hid_buf[t])
      BY <2>1, <2>2, <3>1, RingType
    <3>2. CASE IsWhole(hid_buf[t]) /\ hid_buf[t].lo = made
      <4>1. made \in 1 .. made /\ made \in now
        BY <2>1
      <4>2. Behind(now, made, C(t), hid_buf[t])
        BY <3>2, <4>1 DEF Behind
      <4>3. ASSUME NEW a \in Buffer, Behind(now, made, C(t), a)
            PROVE  InOrder(now, a, hid_buf[t])
        <5>1. IsWhole(a) => a.lo <= made
          BY <4>3, <2>1 DEF Behind
        <5>. QED
          BY <3>2, <5>1 DEF InOrder
      <4>4. /\ \A a \in got[t] : a \in Buffer /\ Behind(now, made, C(t), a)
            /\ \A i \in 1 .. Len(ep[t]) : ep[t][i] \in Buffer /\ Behind(now, made, C(t), ep[t][i])
        <5>1. ep[t] \in Seq(Buffer) /\ got[t] \in SUBSET Buffer
          BY RingType
        <5>2. \A i \in 1 .. Len(ep[t]) : ep[t][i] \in Buffer
          BY <5>1, ElementOfSeq
        <5>3. Wire(now, made, C(t), ep[t], got[t])
          BY <2>1, <2>2
        <5>. QED
          BY <5>1, <5>2, <5>3 DEF Wire
      <4>. QED
        BY <4>2, <4>3, <4>4 DEF Fits
    <3>. QED
      BY <2>1, <3>1, <3>2 DEF BufferFits
  <2>4. ASSUME NEW s \in Stream
        PROVE  Wire(now, made, C(s), ep'[s], got[s])
    <3>1. CASE ep'[s] = ep[s]
      BY <2>2, <3>1
    <3>2. CASE s = t /\ ep'[t] \in Loads(ep[t], hid_buf[t])
      <4>1. /\ C(t) \in Seq(0 .. MaxReports) /\ ep[t] \in Seq(Buffer)
            /\ got[t] \in SUBSET Buffer /\ hid_buf[t] \in Buffer /\ made \in Nat
        BY RingType
      <4>2. Wire(now, made, C(t), ep[t], got[t])
        BY <2>1, <2>2
      <4>. HIDE DEF C, now
      <4>. QED
        BY <2>3, <3>2, <4>1, <4>2, LoadKeeps
    <3>3. ep'[s] = ep[s] \/ (s = t /\ ep'[t] \in Loads(ep[t], hid_buf[t]))
      BY <1>7, <2>1 DEF Transmit, TypeOK
    <3>. QED
      BY <3>1, <3>2, <3>3
  <2>5. \A n \in now : n \in 1 .. made
    <3>1. \A n \in direct : n \in 1 .. Last
      BY DEF WireOrder
    <3>. QED
      BY <2>1, <3>1
  <2>6. WireOrder'
    BY <2>1, <2>4, <2>5 DEF WireOrder
  <2>. QED
    BY <2>1, <2>6 DEF BufferFits
<1>8. CASE Queue
  <2>1. /\ UNCHANGED <<ep, got, direct, made>> /\ pc' \in {"idle", "publish"}
        /\ Last' = IF pc' = "idle" THEN made ELSE Last
        /\ made = Last + 1 /\ Last \in Nat /\ made \in Nat
    BY <1>8, LastIs, RingType DEF Queue, Last
  <2>2. \A s \in Stream : Contents(ring'[s]) = Contents(ring[s])
    BY <1>8, QueueHides
  <2>3. Last' \in Nat /\ Last <= Last'
    BY <2>1
  <2>4. ASSUME NEW s \in Stream
        PROVE  Wire(direct, Last', Contents(ring'[s]), ep[s], got[s])
    <3>1. /\ C(s) \in Seq(0 .. MaxReports) /\ ep[s] \in Seq(Buffer) /\ got[s] \in SUBSET Buffer
      BY RingType
    <3>2. Wire(direct, Last, C(s), ep[s], got[s])
      BY DEF WireOrder
    <3>3. Wire(direct, Last', C(s), ep[s], got[s])
      <4>. HIDE DEF C
      <4>. QED
        BY <2>1, <2>3, <3>1, <3>2, NextReport
    <3>. QED
      BY <2>2, <3>3
  <2>5. \A n \in direct : n \in 1 .. Last'
    BY <2>1, <2>3 DEF WireOrder
  <2>6. WireOrder'
    BY <2>1, <2>4, <2>5 DEF WireOrder
  <2>. QED
    BY <2>1, <2>6 DEF BufferFits
<1>9. CASE Publish
  <2>. DEFINE t == job.stream
  <2>1. /\ UNCHANGED <<ep, got, direct, made>> /\ pc' = "idle"
        /\ Last' = Last + 1 /\ made = Last + 1 /\ Last \in Nat /\ made \in 0 .. MaxReports
    BY <1>9, LastIs, RingType DEF Publish, Last
  <2>2. /\ Contents(ring'[t]) = Append(Contents(ring[t]), made)
        /\ \A s \in Stream \ {t} : ring'[s] = ring[s]
    BY <1>9, PublishPuts
  <2>3. made \notin direct /\ \A n \in direct : n \in 1 .. Last'
    BY <2>1 DEF WireOrder
  <2>4. ASSUME NEW s \in Stream
        PROVE  Wire(direct, Last', Contents(ring'[s]), ep[s], got[s])
    <3>1. /\ C(s) \in Seq(0 .. MaxReports) /\ ep[s] \in Seq(Buffer) /\ got[s] \in SUBSET Buffer
      BY RingType
    <3>2. Wire(direct, Last, C(s), ep[s], got[s])
      BY DEF WireOrder
    <3>3. CASE s = t
      <4>1. Wire(direct, Last + 1, Append(C(s), Last + 1), ep[s], got[s])
        <5>1. Last + 1 \in 0 .. MaxReports /\ Last + 1 \notin direct
          BY <2>1, <2>3
        <5>. HIDE DEF C
        <5>. QED
          BY <2>1, <3>1, <3>2, <5>1, JoinsQueue
      <4>2. Contents(ring'[s]) = Append(C(s), Last + 1)
        BY <2>1, <2>2, <3>3
      <4>. QED
        BY <2>1, <4>1, <4>2
    <3>4. CASE s # t
      <4>1. Contents(ring'[s]) = C(s)
        BY <2>2, <3>4
      <4>2. Last' \in Nat /\ Last <= Last'
        BY <2>1
      <4>3. Wire(direct, Last', C(s), ep[s], got[s])
        <5>. HIDE DEF C
        <5>. QED
          BY <2>1, <3>1, <3>2, <4>2, NextReport
      <4>. QED
        BY <4>1, <4>3
    <3>. QED
      BY <3>3, <3>4
  <2>5. WireOrder'
    BY <2>1, <2>3, <2>4 DEF WireOrder
  <2>. QED
    BY <2>1, <2>5 DEF BufferFits
<1>10. CASE Backup
  <2>1. UNCHANGED <<pc, job, made, got, direct, Last>>
    BY <1>10 DEF Backup, Last
  <2>2. PICK s \in Stream :
          /\ C(s) # <<>> /\ Contents(ring'[s]) = Tail(C(s))
          /\ hid_buf' = [hid_buf EXCEPT ![s] = Whole(C(s)[1])] /\ Whole(C(s)[1]) \in Buffer
          /\ \E f \in Loads(ep[s], Whole(C(s)[1])) : ep' = [ep EXCEPT ![s] = f]
          /\ \A o \in Stream \ {s} : ring'[o] = ring[o]
    BY <1>10, BackupTakes
  <2>3. PICK f \in Loads(ep[s], Whole(C(s)[1])) : ep' = [ep EXCEPT ![s] = f]
    BY <2>2
  <2>4. /\ ep'[s] = f /\ hid_buf'[s] = Whole(C(s)[1])
        /\ \A o \in Stream \ {s} : ep'[o] = ep[o] /\ hid_buf'[o] = hid_buf[o]
    BY <2>2, <2>3 DEF TypeOK
  <2>5. /\ Wire(direct, Last, Tail(C(s)), f, got[s])
        /\ Fits(direct, Last, Tail(C(s)), f, got[s], Whole(C(s)[1]))
    <3>1. /\ C(s) \in Seq(0 .. MaxReports) /\ ep[s] \in Seq(Buffer) /\ got[s] \in SUBSET Buffer
          /\ Last \in Nat
      BY RingType, LastIs
    <3>2. Wire(direct, Last, C(s), ep[s], got[s])
      BY DEF WireOrder
    <3>. HIDE DEF C
    <3>3. /\ Wire(direct, Last, Tail(C(s)), ep[s], got[s])
          /\ Fits(direct, Last, Tail(C(s)), ep[s], got[s], Whole(C(s)[1]))
      BY <2>2, <3>1, <3>2, LeavesQueue
    <3>4. Tail(C(s)) \in Seq(0 .. MaxReports)
      BY <2>2, <3>1, HeadTailProperties
    <3>. QED
      BY <2>2, <2>3, <3>1, <3>3, <3>4, LoadKeeps
  <2>6. WireOrder'
    <3>1. ASSUME NEW o \in Stream
          PROVE  Wire(direct, Last, Contents(ring'[o]), ep'[o], got[o])
      BY <2>2, <2>4, <2>5 DEF WireOrder
    <3>. QED
      BY <2>1, <3>1 DEF WireOrder
  <2>7. BufferFits'
    <3>1. CASE job.stream = s
      <4>1. Fits(direct, Last, Contents(ring'[s]), ep'[s], got[s], hid_buf'[s])
        BY <2>2, <2>4, <2>5
      <4>. QED
        BY <2>1, <3>1, <4>1 DEF BufferFits
    <3>2. CASE job.stream # s
      <4>1. /\ ring'[job.stream] = ring[job.stream] /\ ep'[job.stream] = ep[job.stream]
            /\ hid_buf'[job.stream] = hid_buf[job.stream]
        BY <2>2, <2>4, <3>2, RingType
      <4>. QED
        BY <2>1, <4>1 DEF BufferFits
    <3>. QED
      BY <3>1, <3>2
  <2>. QED
    BY <2>6, <2>7
<1>11. CASE BackupLost
  <2>1. UNCHANGED <<pc, job, made, ep, got, direct, Last>>
    BY <1>11 DEF BackupLost, Last
  <2>2. ASSUME NEW s \in Stream
        PROVE  \/ ring'[s] = ring[s] /\ hid_buf'[s] = hid_buf[s]
               \/ /\ Contents(ring'[s]) = Tail(C(s))
                  /\ Wire(direct, Last, Tail(C(s)), ep[s], got[s])
                  /\ Fits(direct, Last, Tail(C(s)), ep[s], got[s], hid_buf'[s])
    <3>1. /\ C(s) \in Seq(0 .. MaxReports) /\ ep[s] \in Seq(Buffer) /\ got[s] \in SUBSET Buffer
          /\ Last \in Nat
      BY RingType, LastIs
    <3>2. Wire(direct, Last, C(s), ep[s], got[s])
      BY DEF WireOrder
    <3>3. \/ ring'[s] = ring[s] /\ hid_buf'[s] = hid_buf[s]
          \/ C(s) # <<>> /\ Contents(ring'[s]) = Tail(C(s)) /\ hid_buf'[s] = Whole(C(s)[1])
      BY <1>11, LostTakes
    <3>. HIDE DEF C
    <3>. QED
      BY <3>1, <3>2, <3>3, LeavesQueue
  <2>3. WireOrder'
    <3>1. ASSUME NEW s \in Stream
          PROVE  Wire(direct, Last, Contents(ring'[s]), ep[s], got[s])
      BY <2>2 DEF WireOrder
    <3>. QED
      BY <2>1, <3>1 DEF WireOrder
  <2>4. BufferFits'
    <3>1. job.stream \in Stream
      BY RingType
    <3>2. CASE ring'[job.stream] = ring[job.stream] /\ hid_buf'[job.stream] = hid_buf[job.stream]
      BY <2>1, <3>2 DEF BufferFits
    <3>3. CASE /\ Contents(ring'[job.stream]) = Tail(C(job.stream))
               /\ Fits(direct, Last, Tail(C(job.stream)), ep[job.stream], got[job.stream],
                       hid_buf'[job.stream])
      BY <2>1, <3>3 DEF BufferFits
    <3>. QED
      BY <2>2, <3>1, <3>2, <3>3
  <2>. QED
    BY <2>3, <2>4
<1>12. ASSUME NEW s \in Stream, DataIn(s)
       PROVE  WireOrder' /\ BufferFits'
  <2>1. /\ UNCHANGED <<ring, hid_buf, pc, job, made, direct, Last>> /\ ep[s] # <<>>
        /\ ep'[s] = Tail(ep[s]) /\ got'[s] = got[s] \cup {Head(ep[s])}
        /\ \A o \in Stream \ {s} : ep'[o] = ep[o] /\ got'[o] = got[o]
    BY <1>12 DEF DataIn, Last, TypeOK
  <2>2. /\ Wire(direct, Last, C(s), ep'[s], got'[s])
        /\ \A b \in Buffer : Fits(direct, Last, C(s), ep[s], got[s], b)
                               => Fits(direct, Last, C(s), ep'[s], got'[s], b)
    <3>1. /\ C(s) \in Seq(0 .. MaxReports) /\ ep[s] \in Seq(Buffer) /\ got[s] \in SUBSET Buffer
          /\ Last \in Nat
      BY RingType, LastIs
    <3>2. Wire(direct, Last, C(s), ep[s], got[s])
      BY DEF WireOrder
    <3>. HIDE DEF C
    <3>3. /\ Wire(direct, Last, C(s), Tail(ep[s]), got[s] \cup {Head(ep[s])})
          /\ \A b \in Buffer :
               Fits(direct, Last, C(s), ep[s], got[s], b)
                 => Fits(direct, Last, C(s), Tail(ep[s]), got[s] \cup {Head(ep[s])}, b)
      BY <2>1, <3>1, <3>2, ArrivalKeeps
    <3>. QED
      BY <2>1, <3>3
  <2>3. WireOrder'
    <3>1. ASSUME NEW o \in Stream
          PROVE  Wire(direct, Last, C(o), ep'[o], got'[o])
      BY <2>1, <2>2 DEF WireOrder
    <3>. QED
      BY <2>1, <3>1 DEF WireOrder
  <2>4. BufferFits'
    <3>1. CASE job.stream = s
      BY <2>1, <2>2, <3>1, RingType DEF BufferFits
    <3>2. CASE job.stream # s
      BY <2>1, <3>2, RingType DEF BufferFits
    <3>. QED
      BY <3>1, <3>2
  <2>. QED
    BY <2>3, <2>4
<1>13. CASE BusReset
  <2>1. /\ UNCHANGED <<ring, hid_buf, pc, job, made, got, direct, Last>>
        /\ \A s \in Stream : ep'[s] = <<>>
    BY <1>13 DEF BusReset, Last
  <2>2. WireOrder'
    <3>1. ASSUME NEW s \in Stream
          PROVE  Wire(direct, Last, C(s), ep'[s], got[s])
      BY <2>1, ResetKeeps DEF WireOrder
    <3>. QED
      BY <2>1, <3>1 DEF WireOrder
  <2>3. BufferFits'
    BY <2>1, ResetKeeps, RingType DEF BufferFits, WireOrder
  <2>. QED
    BY <2>2, <2>3
<1>14. CASE ViaIn \/ Suspend \/ Resume \/ HidInit \/ UNCHANGED vars
  BY <1>5, <1>14 DEF ViaIn, Suspend, Resume, HidInit, vars, Last
<1>. QED
  BY <1>1, <1>3, <1>4, <1>6, <1>7, <1>8, <1>9, <1>10, <1>11, <1>12, <1>13, <1>14
     DEF Next, MainStep

\* The order holds in every reachable state.
LEMMA OrderHolds == Spec => [](TypeOK /\ JobReady /\ WireOrder /\ BufferFits)
<1>1. Init => JobReady /\ WireOrder /\ BufferFits
  <2>. SUFFICES ASSUME Init
                PROVE  JobReady /\ WireOrder /\ BufferFits
    OBVIOUS
  <2>1. /\ pc = "idle" /\ direct = {}
        /\ \A s \in Stream : Contents(ring[s]) = <<>> /\ ep[s] = <<>> /\ got[s] = {}
    BY InitEmpty DEF Init
  <2>2. \A i \in 1 .. Len(<<>>) : FALSE
    OBVIOUS
  <2>3. Wire({}, Last, <<>>, <<>>, {})
    BY <2>2 DEF Wire, QueueOrder
  <2>. QED
    BY <2>1, <2>3 DEF JobReady, WireOrder, BufferFits
<1>2. TypeOK /\ JobReady /\ WireOrder /\ BufferFits /\ [Next]_vars
        => JobReady' /\ WireOrder' /\ BufferFits'
  BY JobKept, OrderKept
<1>. QED
  BY <1>1, <1>2, TypeCorrect, PTL DEF Spec

\* Reports reach the host in the order they were made, those sent at once among
\* themselves and the queued ones among themselves: for any length of the rings, and
\* whichever interrupt comes where (usbd_hid.c:1251-1284, 2039-2074).
THEOREM KindsStayInOrder == Spec => KindsInOrder
<1>. DEFINE Ordered ==
       \A s \in Stream : DataIn(s) =>
         LET new == Head(ep[s]) IN
         \A old \in got[s] :
           new.lo = new.hi /\ old.lo = old.hi /\ (new.lo \in direct <=> old.lo \in direct)
             => old.lo <= new.lo
<1>1. TypeOK /\ JobReady /\ WireOrder => Ordered
  <2>. SUFFICES ASSUME TypeOK, JobReady, WireOrder, NEW s \in Stream, DataIn(s),
                       NEW old \in got[s]
                PROVE  InOrder(direct, old, Head(ep[s]))
    BY DEF InOrder, IsWhole
  <2>1. /\ Contents(ring[s]) \in Seq(0 .. MaxReports) /\ ep[s] \in Seq(Buffer)
        /\ got[s] \in SUBSET Buffer /\ Last \in Nat /\ ep[s] # <<>>
        /\ Wire(direct, Last, Contents(ring[s]), ep[s], got[s])
    BY RingType, LastIs DEF DataIn, WireOrder
  <2>. QED
    BY <2>1, ArrivalKeeps
<1>. QED
  BY <1>1, OrderHolds, PTL DEF KindsInOrder

=============================================================================
