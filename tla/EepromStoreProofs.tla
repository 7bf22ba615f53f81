------------------------- MODULE EepromStoreProofs -------------------------
(***************************************************************************)
(* Theorems about EepromStore, for every size of the EEPROM, of its pages  *)
(* and of the write queue, and any number of writes.                       *)
(***************************************************************************)
EXTENDS EepromStore, SequenceTheorems, TLAPS

-----------------------------------------------------------------------------
(* The queue and the run at its head *)

\* The fields of a queue entry.
LEMMA EntryFields == \A e \in Entry : e.addr \in Addr /\ e.data \in Nat
BY DEF Entry

\* The fields of an entry at a place of a queue.
LEMMA QueueFields ==
  ASSUME write_q \in Seq(Entry), NEW i \in 1 .. Len(write_q)
  PROVE  write_q[i].addr \in Addr /\ write_q[i].data \in Nat
BY ElementOfSeq, EntryFields

\* What taking n entries off a queue leaves.
LEMMA RestProperties ==
  ASSUME write_q \in Seq(Entry), NEW n \in 1 .. Len(write_q)
  PROVE  /\ Rest(n) \in Seq(Entry)
         /\ Len(Rest(n)) = Len(write_q) - n
         /\ \A i \in 1 .. Len(write_q) - n : Rest(n)[i] = write_q[i + n]
<1>1. Len(write_q) \in Nat
  BY LenProperties
<1>2. \A i \in n + 1 .. Len(write_q) : write_q[i] \in Entry
  BY <1>1, ElementOfSeq
<1>. QED
  BY <1>1, <1>2, SubSeqProperties, SMTT(20) DEF Rest

\* A run covers the addresses Base, Base + 1, ... and no address twice.
LEMMA ChunkProperties ==
  ASSUME write_q \in Seq(Entry), NEW n, Chunk(n)
  PROVE  /\ n \in 1 .. Len(write_q)
         /\ Base \in Addr
         /\ \A i \in 1 .. n : write_q[i].addr = Base + i - 1
<1>1. n \in 1 .. Len(write_q) /\ Len(write_q) \in Nat
  BY LenProperties DEF Chunk
<1>2. write_q[1].addr \in Addr
  BY <1>1, QueueFields
<1>. QED
  BY <1>1, <1>2 DEF Chunk, Run, Base

\* Programming part of a run leaves a chip.
LEMMA ProgrammedType ==
  ASSUME TypeOK, NEW n, Chunk(n), NEW S \in SUBSET (1 .. n)
  PROVE  Programmed(S) \in [Addr -> Nat]
<1>1. n \in 1 .. Len(write_q) /\ Len(write_q) \in Nat
  BY ChunkProperties, LenProperties DEF TypeOK
<1>2. \A i \in 1 .. Len(write_q) : write_q[i].data \in Nat
  BY QueueFields DEF TypeOK
<1>3. Base \in Addr
  BY ChunkProperties DEF TypeOK
<1>. QED
  BY <1>1, <1>2, <1>3, SizeAssumption DEF Programmed, TypeOK, Addr

\* A torn page leaves a chip.
LEMMA TornType ==
  ASSUME TypeOK, NEW S, PageTorn(S)
  PROVE  chip' \in [Addr -> Nat]
BY ProgrammedType DEF PageTorn

\* A page written leaves a chip.
LEMMA WrittenType ==
  ASSUME TypeOK, NEW n, PageWritten(n)
  PROVE  /\ chip' \in [Addr -> Nat]
         /\ Rest(n) \in Seq(Entry)
         /\ Len(Rest(n)) \in Nat
         /\ Len(Rest(n)) < Len(write_q)
<1>1. n \in 1 .. Len(write_q) /\ Len(write_q) \in Nat
  BY ChunkProperties, LenProperties DEF TypeOK, PageWritten
<1>2. chip' \in [Addr -> Nat]
  BY <1>1, ProgrammedType DEF PageWritten
<1>. QED
  BY <1>1, <1>2, RestProperties DEF TypeOK

-----------------------------------------------------------------------------
(* Type correctness *)

\* A write that waits for its place has been recorded, shows in the mirror, and
\* has not waited for too long.
WaitingOK ==
  /\ pc \in {"full", "direct"} =>
       /\ hist # <<>>
       /\ eeprom_buf[Latest.addr] = Latest.data
  /\ pc = "full" => stall < MaxStall

\* A cell that was never read is known to be.
BlankIsLost ==
  \A a \in Addr : eeprom_buf[a] = Blank => a \in lost

\* The write being made is an entry.
LEMMA LatestType ==
  ASSUME TypeOK, WaitingOK, pc \in {"full", "direct"}
  PROVE  Len(hist) \in Nat \ {0} /\ Latest \in Entry
<1>1. Len(hist) \in Nat \ {0}
  BY EmptySeq DEF TypeOK, WaitingOK
<1>2. hist[Len(hist)] \in Addr
  BY <1>1, ElementOfSeq DEF TypeOK
<1>. QED
  BY <1>1, <1>2 DEF Latest, Entry

\* A mirror read up to k is a mirror.
LEMMA RereadType ==
  ASSUME NEW k \in ReadLengths, NEW cells \in [Addr -> Nat],
         NEW before \in [Addr -> Nat \cup {Blank}]
  PROVE  Reread(k, cells, before) \in [Addr -> Nat \cup {Blank}]
BY DEF Reread

\* A restart keeps the types.
LEMMA RestartType ==
  ASSUME TypeOK, chip' \in [Addr -> Nat], NEW k \in ReadLengths, Restart(k)
  PROVE  TypeOK'
<1>1. eeprom_buf' \in [Addr -> Nat \cup {Blank}]
  BY RereadType, [a \in Addr |-> Blank] \in [Addr -> Nat \cup {Blank}] DEF Restart
<1>2. write_q' \in Seq(Entry) /\ Len(write_q') <= Cap
  BY SizeAssumption, EmptySeq DEF Restart
<1>3. since' \in Nat
  BY LenProperties DEF Restart, TypeOK
<1>4. stall' \in 0 .. MaxStall /\ pc' = "idle" /\ phase' = "boot"
  BY SizeAssumption DEF Restart
<1>5. lost' \in SUBSET Addr
  BY DEF Restart, Unread
<1>6. hist' \in Seq(Addr) /\ flushed' \in [Addr -> Nat]
  BY DEF Restart, TypeOK
<1>. QED
  BY <1>1, <1>2, <1>3, <1>4, <1>5, <1>6 DEF TypeOK

\* Every step keeps the types.
LEMMA TypeStep ==
  ASSUME TypeOK, WaitingOK, BlankIsLost, [Next]_vars
  PROVE  TypeOK'
<1>. USE SizeAssumption
<1>0. Len(hist) \in Nat /\ Len(write_q) \in Nat
  BY LenProperties DEF TypeOK
<1>1. CASE \E n \in 1 .. Cap : FullThenQueued(n)
  <2>1. PICK n \in 1 .. Cap : FullThenQueued(n)
    BY <1>1
  <2>2. /\ chip' \in [Addr -> Nat]
        /\ Rest(n) \in Seq(Entry) /\ Len(Rest(n)) \in Nat
        /\ Len(Rest(n)) < Len(write_q)
    BY <2>1, WrittenType DEF FullThenQueued
  <2>3. write_q' \in Seq(Entry) /\ Len(write_q') <= Cap
    BY <1>0, <2>1, <2>2, LatestType, AppendProperties DEF FullThenQueued, TypeOK
  <2>. QED
    BY <2>1, <2>2, <2>3 DEF FullThenQueued, TypeOK
<1>2. CASE \E n \in 1 .. Cap : FullThenLate(n) \/ FlushWrites(n) \/ TaskWrites(n)
  <2>1. PICK n \in 1 .. Cap : FullThenLate(n) \/ FlushWrites(n) \/ TaskWrites(n)
    BY <1>2
  <2>2. /\ chip' \in [Addr -> Nat]
        /\ Rest(n) \in Seq(Entry) /\ Len(Rest(n)) \in Nat
        /\ Len(Rest(n)) < Len(write_q)
    BY <2>1, WrittenType DEF FullThenLate, FlushWrites, TaskWrites
  <2>. QED
    BY <1>0, <2>1, <2>2 DEF FullThenLate, FlushWrites, TaskWrites, TypeOK
<1>3. CASE \E S \in Subsets : FullFails(S) \/ FlushFails(S) \/ TaskFails(S) \/ FlushGivesUp(S)
  <2>1. PICK S \in Subsets : FullFails(S) \/ FlushFails(S) \/ TaskFails(S) \/ FlushGivesUp(S)
    BY <1>3
  <2>2. chip' \in [Addr -> Nat]
    BY <2>1, TornType DEF FullFails, FlushFails, TaskFails, FlushGivesUp, PageFailed
  <2>3. Queued \in SUBSET Addr
    <3>1. DOMAIN write_q = 1 .. Len(write_q)
      BY LenProperties DEF TypeOK
    <3>. QED
      BY <3>1, QueueFields DEF Queued, TypeOK
  <2>4. CASE FullFails(S)
    BY <2>2, <2>4 DEF FullFails, TypeOK, WaitingOK
  <2>5. CASE FlushFails(S) \/ TaskFails(S)
    BY <2>2, <2>5 DEF FlushFails, TaskFails, TypeOK
  <2>6. CASE FlushGivesUp(S)
    BY <1>0, <2>2, <2>3, <2>6, EmptySeq DEF FlushGivesUp, TypeOK
  <2>. QED
    BY <2>1, <2>4, <2>5, <2>6
<1>4. CASE \E ok, landed \in BOOLEAN : DirectWrite(ok, landed)
  BY <1>0, <1>4, LatestType DEF DirectWrite, TypeOK, Entry
<1>5. CASE \E a \in Addr : WriteByte(a)
  <2>1. PICK a \in Addr : WriteByte(a)
    BY <1>5
  <2>2. hist' \in Seq(Addr)
    BY <2>1, AppendProperties DEF WriteByte, TypeOK
  <2>3. [addr |-> a, data |-> Len(hist) + 1] \in Entry
    BY <1>0 DEF Entry
  <2>4. write_q' \in Seq(Entry) /\ Len(write_q') <= Cap
    <3>1. CASE Len(write_q) < Cap
      <4>1. write_q' = Append(write_q, [addr |-> a, data |-> Len(hist) + 1])
        BY <2>1, <3>1 DEF WriteByte
      <4>. QED
        BY <1>0, <2>3, <3>1, <4>1, AppendProperties DEF TypeOK
    <3>. QED
      BY <2>1, <3>1 DEF WriteByte, TypeOK
  <2>. QED
    BY <1>0, <2>1, <2>2, <2>4 DEF WriteByte, TypeOK
<1>6. CASE FlushBegin
  BY <1>6 DEF FlushBegin, TypeOK
<1>7. CASE FlushReturns
  <2>1. flushed' \in [Addr -> Nat]
    BY <1>7 DEF FlushReturns, TypeOK, BlankIsLost
  <2>. QED
    BY <1>7, <2>1 DEF FlushReturns, TypeOK
<1>8. CASE \E k \in ReadLengths : Reinit(k)
  <2>1. PICK k \in ReadLengths : Reinit(k)
    BY <1>8
  <2>2. eeprom_buf' \in [Addr -> Nat \cup {Blank}]
    BY <2>1, RereadType DEF Reinit, TypeOK
  <2>. QED
    BY <1>0, <2>1, <2>2, EmptySeq DEF Reinit, TypeOK, Unread
<1>9. CASE \E k \in ReadLengths : PowerCut(k)
  BY <1>9, RestartType DEF PowerCut, TypeOK
<1>10. CASE \E S \in Subsets, k \in ReadLengths : PowerCutTears(S, k)
  BY <1>10, RestartType, TornType DEF PowerCutTears
<1>11. CASE UNCHANGED vars
  BY <1>11 DEF vars, TypeOK
<1>. QED
  BY <1>1, <1>2, <1>3, <1>4, <1>5, <1>6, <1>7, <1>8, <1>9, <1>10, <1>11 DEF Next, Call

\* The initial states satisfy every part of the invariant.
LEMMA InitType ==
  ASSUME Init
  PROVE  TypeOK /\ WaitingOK /\ BlankIsLost /\ Coherent
<1>. USE SizeAssumption
<1>1. PICK k \in ReadLengths :
        /\ eeprom_buf = Reread(k, chip, [a \in Addr |-> Blank])
        /\ lost = Unread(k)
  BY DEF Init
<1>2. chip \in [Addr -> Nat] /\ flushed \in [Addr -> Nat]
  BY DEF Init
<1>3. eeprom_buf \in [Addr -> Nat \cup {Blank}]
  BY <1>1, <1>2, RereadType, [a \in Addr |-> Blank] \in [Addr -> Nat \cup {Blank}]
<1>4. lost = {a \in Addr : k <= a} /\ k \in Int
  BY <1>1 DEF Unread, ReadLengths
<1>5. \A a \in Addr \ lost : eeprom_buf[a] = chip[a]
  BY <1>1, <1>4 DEF Reread, Addr
<1>6. TypeOK
  BY <1>2, <1>3, <1>4, EmptySeq DEF Init, TypeOK
<1>7. WaitingOK
  BY DEF Init, WaitingOK
<1>8. BlankIsLost
  BY <1>2, <1>5 DEF BlankIsLost, Blank
<1>9. \A a \in Addr : Places(write_q, a) = {}
  BY EmptySeq DEF Init, Places
<1>. QED
  BY <1>5, <1>6, <1>7, <1>8, <1>9 DEF Coherent, Settles

-----------------------------------------------------------------------------
(* The mirror, the queue and the chip agree *)

\* While a caller waits, the mirror already holds its write, the last one made.
LEMMA WaitingStep ==
  ASSUME TypeOK, WaitingOK, [Next]_vars
  PROVE  WaitingOK'
<1>. USE SizeAssumption
<1>0. Len(hist) \in Nat
  BY LenProperties DEF TypeOK
<1>1. CASE \E a \in Addr : WriteByte(a)
  <2>1. PICK a \in Addr : WriteByte(a)
    BY <1>1
  <2>2. /\ hist' # <<>> /\ Len(hist') = Len(hist) + 1
        /\ hist'[Len(hist')] = a
    BY <2>1, AppendProperties DEF WriteByte, TypeOK
  <2>3. eeprom_buf'[a] = Len(hist) + 1
    BY <2>1 DEF WriteByte, TypeOK
  <2>4. stall' < MaxStall
    BY <2>1 DEF WriteByte
  <2>. QED
    BY <2>2, <2>3, <2>4 DEF WaitingOK, Latest
<1>2. CASE \E n \in 1 .. Cap : FullThenLate(n)
  BY <1>2 DEF FullThenLate, WaitingOK, Latest
<1>3. CASE \E S \in Subsets : FullFails(S)
  BY <1>0, <1>3 DEF FullFails, WaitingOK, Latest, TypeOK
<1>4. CASE UNCHANGED vars
  BY <1>4 DEF vars, WaitingOK, Latest
<1>5. CASE \/ \E n \in 1 .. Cap : FullThenQueued(n) \/ FlushWrites(n) \/ TaskWrites(n)
           \/ \E S \in Subsets :
                FlushFails(S) \/ FlushGivesUp(S) \/ TaskFails(S)
           \/ \E ok, landed \in BOOLEAN : DirectWrite(ok, landed)
           \/ FlushReturns \/ FlushBegin
           \/ \E k \in ReadLengths : Reinit(k) \/ PowerCut(k)
           \/ \E S \in Subsets, k \in ReadLengths : PowerCutTears(S, k)
  <2>1. pc' \in {"idle", "flush"}
    BY <1>5 DEF FullThenQueued, FlushWrites, TaskWrites, FlushFails, FlushGivesUp,
                TaskFails, DirectWrite, FlushReturns, FlushBegin, Reinit, PowerCut,
                PowerCutTears, Restart
  <2>. QED
    BY <2>1 DEF WaitingOK
<1>. QED
  BY <1>1, <1>2, <1>3, <1>4, <1>5 DEF Next, Call

\* A cell never read is accounted for as lost.
LEMMA BlankStep ==
  ASSUME TypeOK, WaitingOK, BlankIsLost, [Next]_vars
  PROVE  BlankIsLost'
<1>. USE SizeAssumption
<1>0. Len(hist) \in Nat
  BY LenProperties DEF TypeOK
<1>1. CASE \E a \in Addr : WriteByte(a)
  BY <1>0, <1>1 DEF WriteByte, BlankIsLost, TypeOK, Blank
<1>2. CASE \/ \E n \in 1 .. Cap : FullThenQueued(n)
           \/ \E ok, landed \in BOOLEAN : DirectWrite(ok, landed)
  <2>1. eeprom_buf[Latest.addr] # Blank
    BY <1>0, <1>2, LatestType, EntryFields
       DEF FullThenQueued, DirectWrite, WaitingOK, Blank
  <2>2. eeprom_buf' = eeprom_buf /\ lost \ {Latest.addr} \subseteq lost'
    BY <1>2 DEF FullThenQueued, DirectWrite
  <2>. QED
    BY <2>1, <2>2 DEF BlankIsLost
<1>3. ASSUME NEW k \in ReadLengths, chip' \in [Addr -> Nat], Reinit(k) \/ Restart(k)
      PROVE  BlankIsLost'
  <2>2. k \in Int /\ lost' = {a \in Addr : k <= a}
    BY <1>3 DEF ReadLengths, Reinit, Restart, Unread
  <2>3. \A a \in Addr \ lost' : eeprom_buf'[a] \in Nat
    BY <1>3, <2>2 DEF Reinit, Restart, Reread, TypeOK, Addr
  <2>. QED
    BY <2>3 DEF BlankIsLost, Blank
<1>4. CASE /\ UNCHANGED eeprom_buf
           /\ lost \subseteq lost'
  BY <1>4 DEF BlankIsLost
<1>5. CASE \/ \E k \in ReadLengths : PowerCut(k)
           \/ \E S \in Subsets, k \in ReadLengths : PowerCutTears(S, k)
  BY <1>3, <1>5, TornType DEF PowerCut, PowerCutTears, TypeOK
<1>6. CASE \/ \E n \in 1 .. Cap : FullThenLate(n) \/ FlushWrites(n) \/ TaskWrites(n)
           \/ \E S \in Subsets :
                FullFails(S) \/ FlushFails(S) \/ FlushGivesUp(S) \/ TaskFails(S)
           \/ FlushReturns \/ FlushBegin \/ UNCHANGED vars
  BY <1>4, <1>6
     DEF vars, FullThenLate, FlushWrites, TaskWrites, FullFails, FlushFails,
         FlushGivesUp, TaskFails, FlushReturns, FlushBegin
<1>7. CASE \E k \in ReadLengths : Reinit(k)
  BY <1>3, <1>7 DEF Reinit, TypeOK
<1>. QED
  BY <1>1, <1>2, <1>5, <1>6, <1>7 DEF Next, Call

\* Sending the run at the head of the queue changes nothing about where the
\* addresses settle: the run holds an address once, so its only entry is the one
\* that lands.
LEMMA SendSettles ==
  ASSUME TypeOK, NEW n, Chunk(n), NEW a \in Addr, NEW v,
         Settles(write_q, chip[a], a, v)
  PROVE  Settles(Rest(n), Programmed(1 .. n)[a], a, v)
<1>. USE SizeAssumption
<1>1. /\ n \in 1 .. Len(write_q) /\ Len(write_q) \in Nat
      /\ Base \in Addr
      /\ \A i \in 1 .. n : write_q[i].addr = Base + i - 1
  BY ChunkProperties, LenProperties DEF TypeOK
<1>2. /\ Len(Rest(n)) = Len(write_q) - n
      /\ \A i \in 1 .. Len(write_q) - n : Rest(n)[i] = write_q[i + n]
  BY <1>1, RestProperties DEF TypeOK
<1>. DEFINE r == Rest(n)
<1>7. \A j \in Places(r, a) : j + n \in Places(write_q, a) /\ r[j] = write_q[j + n]
  <2>1. TAKE j \in Places(r, a)
  <2>2. j \in 1 .. Len(write_q) - n /\ r[j].addr = a
    BY <1>2 DEF Places
  <2>3. r[j] = write_q[j + n] /\ j + n \in 1 .. Len(write_q)
    BY <1>1, <1>2, <2>2
  <2>. QED
    BY <2>2, <2>3 DEF Places
<1>8. \A i \in Places(write_q, a) :
        i > n => i - n \in Places(r, a) /\ r[i - n] = write_q[i]
  <2>1. TAKE i \in Places(write_q, a)
  <2>2. i \in 1 .. Len(write_q) /\ write_q[i].addr = a
    BY DEF Places
  <2>3. SUFFICES ASSUME i > n PROVE i - n \in Places(r, a) /\ r[i - n] = write_q[i]
    OBVIOUS
  <2>4. i - n \in 1 .. Len(write_q) - n /\ (i - n) + n = i
    BY <1>1, <2>2, <2>3
  <2>5. r[i - n] = write_q[i]
    BY <1>2, <2>4
  <2>. QED
    BY <1>2, <2>2, <2>4, <2>5 DEF Places
<1>9. \A i \in Places(write_q, a) : i <= n => i = a - Base + 1
  <2>1. TAKE i \in Places(write_q, a)
  <2>2. i \in 1 .. Len(write_q) /\ write_q[i].addr = a
    BY DEF Places
  <2>. QED
    BY <1>1, <2>2 DEF Addr
<1>10. a - Base + 1 \in 1 .. n => a - Base + 1 \in Places(write_q, a)
  <2>1. SUFFICES ASSUME a - Base + 1 \in 1 .. n
                 PROVE  a - Base + 1 \in Places(write_q, a)
    OBVIOUS
  <2>2. write_q[a - Base + 1].addr = Base + (a - Base + 1) - 1
    BY <1>1, <2>1
  <2>3. Base + (a - Base + 1) - 1 = a
    BY <1>1 DEF Addr
  <2>. QED
    BY <1>1, <2>1, <2>2, <2>3 DEF Places
<1>. HIDE DEF r
<1>3. Programmed(1 .. n)[a] =
        IF a - Base + 1 \in 1 .. n THEN write_q[a - Base + 1].data ELSE chip[a]
  BY DEF Programmed
<1>4. CASE Places(write_q, a) = {}
  <2>1. Places(r, a) = {} /\ a - Base + 1 \notin 1 .. n
    BY <1>4, <1>7, <1>10
  <2>2. Settles(r, Programmed(1 .. n)[a], a, v)
    BY <1>3, <1>4, <2>1 DEF Settles
  <2>. QED
    BY <2>2 DEF r
<1>5. CASE Places(write_q, a) # {}
  <2>1. PICK i \in Places(write_q, a) :
               write_q[i].data = v /\ \A j \in Places(write_q, a) : j <= i
    BY <1>5 DEF Settles
  <2>2. i \in 1 .. Len(write_q)
    BY <2>1 DEF Places
  <2>3. CASE i <= n
    <3>1. i = a - Base + 1 /\ i \in 1 .. n
      BY <1>1, <1>9, <2>1, <2>2, <2>3
    <3>2. Places(r, a) = {}
      <4>1. ASSUME NEW j \in Places(r, a) PROVE FALSE
        <5>1. j \in Nat \ {0}
          BY <1>1, <1>2 DEF Places, r
        <5>2. j + n <= i
          BY <1>7, <2>1, <4>1
        <5>. QED
          BY <1>1, <2>2, <2>3, <5>1, <5>2
      <4>. QED
        BY <4>1
    <3>3. Settles(r, Programmed(1 .. n)[a], a, v)
      BY <1>3, <2>1, <3>1, <3>2 DEF Settles
    <3>. QED
      BY <3>3 DEF r
  <2>4. CASE i > n
    <3>1. i - n \in Places(r, a) /\ r[i - n].data = v
      BY <1>8, <2>1, <2>4
    <3>2. \A j \in Places(r, a) : j <= i - n
      <4>1. TAKE j \in Places(r, a)
      <4>2. j \in Int
        BY <1>1, <1>2 DEF Places, r
      <4>3. j + n <= i
        BY <1>7, <2>1
      <4>. QED
        BY <1>1, <2>2, <4>2, <4>3
    <3>3. Settles(r, Programmed(1 .. n)[a], a, v)
      BY <3>1, <3>2 DEF Settles
    <3>. QED
      BY <3>3 DEF r
  <2>. QED
    BY <1>1, <2>2, <2>3, <2>4
<1>. QED
  BY <1>4, <1>5

\* Part of a run reaches only cells the queue still holds an entry for.
LEMMA TornSettles ==
  ASSUME TypeOK, NEW S, PageTorn(S), NEW a \in Addr, NEW v,
         Settles(write_q, chip[a], a, v)
  PROVE  Settles(write_q, chip'[a], a, v)
<1>. USE SizeAssumption
<1>1. PICK n \in 1 .. Len(write_q) : Chunk(n) /\ S \subseteq 1 .. n
  BY DEF PageTorn
<1>2. /\ Len(write_q) \in Nat /\ Base \in Addr
      /\ \A i \in 1 .. n : write_q[i].addr = Base + i - 1
  BY <1>1, ChunkProperties, LenProperties DEF TypeOK
<1>3. ASSUME Places(write_q, a) = {} PROVE chip'[a] = chip[a]
  <2>1. ASSUME a - Base + 1 \in S PROVE FALSE
    <3>1. a - Base + 1 \in 1 .. n /\ Base + (a - Base + 1) - 1 = a
      BY <1>1, <1>2, <2>1 DEF Addr
    <3>2. write_q[a - Base + 1].addr = a
      BY <1>2, <3>1
    <3>. QED
      BY <1>2, <1>3, <3>1, <3>2 DEF Places
  <2>. QED
    BY <2>1 DEF PageTorn, Programmed
<1>. QED
  BY <1>3 DEF Settles

\* A new entry settles its own address and leaves the others where they were.
LEMMA AppendSettles ==
  ASSUME NEW q \in Seq(Entry), NEW e \in Entry, NEW a, NEW cell, NEW v,
         IF a = e.addr THEN v = e.data ELSE Settles(q, cell, a, v)
  PROVE  Settles(Append(q, e), cell, a, v)
<1>. DEFINE r == Append(q, e)
<1>1. /\ Len(q) \in Nat /\ Len(r) = Len(q) + 1
      /\ r[Len(q) + 1] = e /\ \A i \in 1 .. Len(q) : r[i] = q[i]
  BY AppendProperties, LenProperties
<1>. HIDE DEF r
<1>2. CASE a = e.addr
  <2>1. Len(q) + 1 \in Places(r, a) /\ \A j \in Places(r, a) : j <= Len(q) + 1
    BY <1>1, <1>2 DEF Places
  <2>2. Settles(r, cell, a, v)
    BY <1>1, <1>2, <2>1 DEF Settles
  <2>. QED
    BY <2>2 DEF r
<1>3. CASE a # e.addr
  <2>1. Places(r, a) = Places(q, a)
    BY <1>1, <1>3 DEF Places
  <2>2. \A i \in Places(q, a) : r[i] = q[i]
    BY <1>1 DEF Places
  <2>3. Settles(r, cell, a, v)
    BY <1>3, <2>1, <2>2 DEF Settles
  <2>. QED
    BY <2>3 DEF r
<1>. QED
  BY <1>2, <1>3

\* Every step keeps mirror, queue and chip in agreement.
LEMMA CoherentStep ==
  ASSUME TypeOK, TypeOK', WaitingOK, Coherent, [Next]_vars
  PROVE  Coherent'
<1>. USE SizeAssumption
<1>0. Len(hist) \in Nat /\ Len(write_q) \in Nat
  BY LenProperties DEF TypeOK
<1>1. CASE \E n \in 1 .. Cap : FullThenQueued(n)
  <2>1. PICK n \in 1 .. Cap : FullThenQueued(n)
    BY <1>1
  <2>2. Chunk(n) /\ chip' = Programmed(1 .. n) /\ Rest(n) \in Seq(Entry)
    BY <2>1, WrittenType DEF FullThenQueued, PageWritten
  <2>3. Latest \in Entry /\ eeprom_buf' = eeprom_buf
        /\ eeprom_buf[Latest.addr] = Latest.data
    BY <2>1, LatestType DEF FullThenQueued, WaitingOK
  <2>4. ASSUME NEW a \in Addr \ (lost' \cup Waiting')
        PROVE  Settles(write_q', chip'[a], a, eeprom_buf'[a])
    <3>1. a # Latest.addr => a \notin lost \cup Waiting
      BY <2>1, <2>4 DEF FullThenQueued, Waiting
    <3>2. a # Latest.addr => Settles(Rest(n), chip'[a], a, eeprom_buf[a])
      BY <2>2, <3>1, SendSettles DEF Coherent
    <3>3. Settles(Append(Rest(n), Latest), chip'[a], a, eeprom_buf[a])
      BY <2>2, <2>3, <3>2, AppendSettles
    <3>. QED
      BY <2>1, <2>3, <3>3 DEF FullThenQueued
  <2>. QED
    BY <2>4 DEF Coherent
<1>2. CASE \E n \in 1 .. Cap : FullThenLate(n) \/ FlushWrites(n) \/ TaskWrites(n)
  <2>1. PICK n \in 1 .. Cap : FullThenLate(n) \/ FlushWrites(n) \/ TaskWrites(n)
    BY <1>2
  <2>2. Chunk(n) /\ chip' = Programmed(1 .. n) /\ write_q' = Rest(n)
        /\ eeprom_buf' = eeprom_buf /\ lost' = lost
    BY <2>1 DEF FullThenLate, FlushWrites, TaskWrites, PageWritten
  <2>3. Waiting' = Waiting
    BY <2>1 DEF FullThenLate, FlushWrites, TaskWrites, Waiting, Latest
  <2>4. ASSUME NEW a \in Addr \ (lost \cup Waiting)
        PROVE  Settles(Rest(n), Programmed(1 .. n)[a], a, eeprom_buf[a])
    BY <2>2, <2>4, SendSettles DEF Coherent
  <2>. QED
    BY <2>2, <2>3, <2>4 DEF Coherent
<1>3. CASE \E S \in Subsets : FullFails(S) \/ FlushFails(S) \/ TaskFails(S)
  <2>1. PICK S \in Subsets : FullFails(S) \/ FlushFails(S) \/ TaskFails(S)
    BY <1>3
  <2>2. PageTorn(S) /\ write_q' = write_q /\ eeprom_buf' = eeprom_buf /\ lost' = lost
    BY <2>1 DEF FullFails, FlushFails, TaskFails, PageFailed
  <2>3. Waiting' = Waiting
    BY <2>1 DEF FullFails, FlushFails, TaskFails, Waiting, Latest
  <2>4. ASSUME NEW a \in Addr \ (lost \cup Waiting)
        PROVE  Settles(write_q, chip'[a], a, eeprom_buf[a])
    BY <2>2, <2>4, TornSettles DEF Coherent
  <2>. QED
    BY <2>2, <2>3, <2>4 DEF Coherent
<1>4. CASE \E S \in Subsets : FlushGivesUp(S)
  <2>1. PICK S \in Subsets : FlushGivesUp(S)
    BY <1>4
  <2>2. DOMAIN write_q = 1 .. Len(write_q)
    BY LenProperties DEF TypeOK
  <2>3. ASSUME NEW a \in Addr \ (lost' \cup Waiting')
        PROVE  Settles(write_q', chip'[a], a, eeprom_buf'[a])
    <3>1. a \notin lost \cup Waiting /\ Places(write_q, a) = {}
      BY <2>1, <2>2, <2>3 DEF FlushGivesUp, Waiting, Queued, Places
    <3>2. Settles(write_q, chip'[a], a, eeprom_buf[a])
      BY <2>1, <3>1, TornSettles DEF FlushGivesUp, PageFailed, Coherent
    <3>3. Places(write_q', a) = {}
      BY <2>1, EmptySeq DEF FlushGivesUp, Places
    <3>. QED
      BY <2>1, <3>1, <3>2, <3>3 DEF FlushGivesUp, Settles
  <2>. QED
    BY <2>3 DEF Coherent
<1>5. CASE \E ok, landed \in BOOLEAN : DirectWrite(ok, landed)
  <2>1. PICK ok \in BOOLEAN, landed \in BOOLEAN : DirectWrite(ok, landed)
    BY <1>5
  <2>2. Latest \in Entry /\ eeprom_buf[Latest.addr] = Latest.data
        /\ DOMAIN write_q = 1 .. Len(write_q)
    BY <2>1, LatestType, LenProperties DEF DirectWrite, WaitingOK, TypeOK
  <2>3. ASSUME NEW a \in Addr \ (lost' \cup Waiting')
        PROVE  Settles(write_q', chip'[a], a, eeprom_buf'[a])
    <3>1. CASE a = Latest.addr
      <4>1. a \notin Queued /\ chip'[a] = Latest.data
        BY <2>1, <2>3, <3>1 DEF DirectWrite, TypeOK
      <4>2. Places(write_q, a) = {}
        BY <2>2, <4>1 DEF Queued, Places
      <4>. QED
        BY <2>1, <2>2, <3>1, <4>1, <4>2 DEF DirectWrite, Settles
    <3>2. CASE a # Latest.addr
      <4>1. a \notin lost \cup Waiting /\ chip'[a] = chip[a]
        BY <2>1, <2>3, <3>2 DEF DirectWrite, Waiting, TypeOK
      <4>. QED
        BY <2>1, <4>1 DEF DirectWrite, Coherent
    <3>. QED
      BY <3>1, <3>2
  <2>. QED
    BY <2>3 DEF Coherent
<1>6. CASE \E b \in Addr : WriteByte(b)
  <2>1. PICK b \in Addr : WriteByte(b)
    BY <1>6
  <2>2. hist'[Len(hist')] = b
    BY <2>1, AppendProperties DEF WriteByte, TypeOK
  <2>. DEFINE e == [addr |-> b, data |-> Len(hist) + 1]
  <2>3. e \in Entry /\ e.addr = b /\ e.data = Len(hist) + 1
    BY <1>0 DEF Entry
  <2>. HIDE DEF e
  <2>4. ASSUME NEW a \in Addr \ (lost' \cup Waiting')
        PROVE  Settles(write_q', chip'[a], a, eeprom_buf'[a])
    <3>1. IF a = b THEN eeprom_buf'[a] = Len(hist) + 1 ELSE eeprom_buf'[a] = eeprom_buf[a]
      BY <2>1 DEF WriteByte, TypeOK
    <3>2. a # b => a \notin lost \cup Waiting
      BY <2>1, <2>4 DEF WriteByte, Waiting
    <3>3. CASE Len(write_q) < Cap
      <4>1. write_q' = Append(write_q, e) /\ chip' = chip
        BY <2>1, <3>3 DEF WriteByte, e
      <4>2. IF a = e.addr THEN eeprom_buf'[a] = e.data
                          ELSE Settles(write_q, chip[a], a, eeprom_buf'[a])
        BY <2>3, <3>1, <3>2 DEF Coherent
      <4>3. Settles(Append(write_q, e), chip[a], a, eeprom_buf'[a])
        BY <2>3, <4>2, AppendSettles DEF TypeOK
      <4>. QED
        BY <4>1, <4>3
    <3>4. CASE ~(Len(write_q) < Cap)
      <4>1. write_q' = write_q /\ chip' = chip /\ pc' = "full"
        BY <2>1, <3>4 DEF WriteByte
      <4>2. a # b
        BY <2>2, <2>4, <4>1 DEF Waiting, Latest
      <4>. QED
        BY <3>1, <3>2, <4>1, <4>2 DEF Coherent
    <3>. QED
      BY <3>3, <3>4
  <2>. QED
    BY <2>4 DEF Coherent
<1>7. CASE FlushBegin \/ FlushReturns \/ UNCHANGED vars
  <2>1. UNCHANGED <<write_q, chip, eeprom_buf, lost>> /\ Waiting' = Waiting
    BY <1>7 DEF FlushBegin, FlushReturns, vars, Waiting, Latest
  <2>. QED
    BY <2>1 DEF Coherent
<1>8. ASSUME NEW k \in ReadLengths, Reinit(k) \/ Restart(k) PROVE Coherent'
  <2>1. /\ k \in Int /\ lost' = {a \in Addr : k <= a} /\ write_q' = <<>>
        /\ pc' = "idle"
    BY <1>8 DEF ReadLengths, Reinit, Restart, Unread
  <2>2. \A a \in Addr \ lost' : eeprom_buf'[a] = chip'[a]
    BY <1>8, <2>1 DEF Reinit, Restart, Reread, Addr
  <2>3. \A a \in Addr : Places(write_q', a) = {}
    BY <2>1, EmptySeq DEF Places
  <2>. QED
    BY <2>2, <2>3 DEF Coherent, Settles
<1>9. CASE \/ \E k \in ReadLengths : Reinit(k) \/ PowerCut(k)
           \/ \E S \in Subsets, k \in ReadLengths : PowerCutTears(S, k)
  BY <1>8, <1>9 DEF PowerCut, PowerCutTears
<1>. QED
  BY <1>1, <1>2, <1>3, <1>4, <1>5, <1>6, <1>7, <1>9 DEF Next, Call

-----------------------------------------------------------------------------

\* The inductive invariant: the type invariant and Coherent need that a write
\* waiting for its place is recorded and shows in the mirror, and that a cell
\* that was never read is marked.
IInv == TypeOK /\ WaitingOK /\ BlankIsLost /\ Coherent

\* The inductive invariant holds in every reachable state.
THEOREM IInvHolds == Spec => []IInv
<1>1. Init => IInv
  BY InitType DEF IInv
<1>2. IInv /\ [Next]_vars => IInv'
  BY TypeStep, WaitingStep, BlankStep, CoherentStep DEF IInv
<1>. QED
  BY <1>1, <1>2, PTL DEF Spec

\* Every variable keeps its type, however large the EEPROM and the queue are.
THEOREM TypeCorrect == Spec => []TypeOK
<1>1. IInv => TypeOK
  BY DEF IInv
<1>. QED
  BY <1>1, IInvHolds, PTL

\* The mirror is backed by the queue and the chip: whatever fails, and wherever
\* power is cut, an address that is not in lost shows what the chip will hold
\* when the queue has been sent (eeprom.c:74-137, 283-323).
THEOREM MirrorCoherent == Spec => []Coherent
<1>1. IInv => Coherent
  BY DEF IInv
<1>. QED
  BY <1>1, IInvHolds, PTL

-----------------------------------------------------------------------------
(* What a power cut can find on the chip: writes to different pages land   *)
(* in the order they were made, and what a flush reported as stored is     *)
(* never undone.  Both follow from one invariant about the queue, the chip *)
(* and the numbers of the writes.                                          *)

\* The last write that is queued, sent or given up: one that waits for its place
\* is not counted.
Settled == IF pc \in {"full", "direct"} THEN Len(hist) - 1 ELSE Len(hist)

InQueue(q, w) == \E i \in 1 .. Len(q) : q[i].data = w

\* q the queue, c the chip, h the addresses of the writes, top the last one
\* settled, s the last one the order does not cover, f what flushes promised:
\* no write is ahead of its time ...
Bounded(q, c, h, s, f, top) ==
  /\ s <= top
  /\ \A a \in Addr : f[a] <= c[a] /\ c[a] <= top
  /\ \A i \in 1 .. Len(q) :
       /\ q[i].data <= top
       /\ h[q[i].data] = q[i].addr
       /\ f[q[i].addr] < q[i].data

\* ... the queue is in the order of the writes ...
Increasing(q) ==
  \A i, j \in 1 .. Len(q) : i < j => q[i].data < q[j].data

\* ... a write that has left it landed, and everything still in it is newer ...
Gone(q, c, h, s, top) ==
  \A w \in s + 1 .. top :
    ~InQueue(q, w) =>
      /\ w <= c[h[w]]
      /\ \A i \in 1 .. Len(q) : w < q[i].data

\* ... and one that landed before it left has only its own page ahead of it.
Ahead(q, c, s) ==
  \A j \in 1 .. Len(q) :
    s < q[j].data /\ c[q[j].addr] = q[j].data =>
      \A i \in 1 .. j : PageOf(q[i].addr) = PageOf(q[j].addr)

OrderInv(q, c, h, s, f, top) ==
  Bounded(q, c, h, s, f, top) /\ Increasing(q) /\ Gone(q, c, h, s, top) /\ Ahead(q, c, s)

Ordered == OrderInv(write_q, chip, hist, since, flushed, Settled)

-----------------------------------------------------------------------------

\* The writes settled, i.e. queued or on the chip, are among those made.
LEMMA SettledType ==
  ASSUME TypeOK, WaitingOK
  PROVE  /\ Settled \in Nat /\ Settled <= Len(hist) /\ Len(hist) \in Nat
         /\ \A w \in 1 .. Settled : hist[w] \in Addr
<1>1. Len(hist) \in Nat /\ (pc \in {"full", "direct"} => Len(hist) # 0)
  BY LenProperties, EmptySeq DEF TypeOK, WaitingOK
<1>2. \A w \in 1 .. Len(hist) : hist[w] \in Addr
  BY ElementOfSeq DEF TypeOK
<1>. QED
  BY <1>1, <1>2 DEF Settled

\* A cell of the chip after part of a run was programmed.
LEMMA ProgrammedCell ==
  ASSUME TypeOK, NEW n, Chunk(n), NEW S \in SUBSET (1 .. n)
  PROVE  /\ \A x \in S : /\ x \in 1 .. Len(write_q)
                         /\ write_q[x].addr \in Addr
                         /\ Programmed(S)[write_q[x].addr] = write_q[x].data
         /\ \A a \in Addr :
              \/ Programmed(S)[a] = chip[a]
              \/ \E x \in S : write_q[x].addr = a /\ Programmed(S)[a] = write_q[x].data
<1>1. /\ n \in 1 .. Len(write_q) /\ Len(write_q) \in Nat /\ Base \in Int
      /\ \A i \in 1 .. n : write_q[i].addr = Base + i - 1
  <2>1. Len(write_q) \in Nat
    BY LenProperties DEF TypeOK
  <2>2. /\ n \in 1 .. Len(write_q) /\ Base \in Addr
        /\ \A i \in 1 .. n : write_q[i].addr = Base + i - 1
    BY ChunkProperties DEF TypeOK
  <2>. QED
    BY <2>1, <2>2, SizeAssumption DEF Addr
<1>2. ASSUME NEW x \in S
      PROVE  /\ x \in 1 .. Len(write_q) /\ write_q[x].addr \in Addr
             /\ write_q[x].addr - Base + 1 = x
             /\ Programmed(S)[write_q[x].addr] = write_q[x].data
  <2>1. x \in 1 .. n /\ x \in 1 .. Len(write_q)
    <3>1. x \in 1 .. n
      OBVIOUS
    <3>2. n \in 1 .. Len(write_q) /\ Len(write_q) \in Nat
      BY <1>1
    <3>. QED
      BY <3>1, <3>2
  <2>2. write_q[x].addr \in Addr
    BY <2>1, QueueFields DEF TypeOK
  <2>3. write_q[x].addr - Base + 1 = x
    BY <1>1, <2>1
  <2>. QED
    BY <2>1, <2>2, <2>3 DEF Programmed
<1>3. ASSUME NEW a \in Addr, a - Base + 1 \in S
      PROVE  \E x \in S : write_q[x].addr = a /\ Programmed(S)[a] = write_q[x].data
  <2>1. write_q[a - Base + 1].addr = Base + (a - Base + 1) - 1
    BY <1>1, <1>3
  <2>2. Base + (a - Base + 1) - 1 = a
    BY <1>1, SizeAssumption DEF Addr
  <2>. QED
    BY <1>3, <2>1, <2>2 DEF Programmed
<1>4. ASSUME NEW a \in Addr, a - Base + 1 \notin S
      PROVE  Programmed(S)[a] = chip[a]
  BY <1>4 DEF Programmed
<1>. QED
  BY <1>2, <1>3, <1>4

\* Programming part of a run, which stays in the queue.
LEMMA OrderTorn ==
  ASSUME TypeOK, WaitingOK, NEW n, Chunk(n), NEW S \in SUBSET (1 .. n), Ordered
  PROVE  OrderInv(write_q, Programmed(S), hist, since, flushed, Settled)
<1>. DEFINE c == Programmed(S)
<1>1. /\ \A x \in S : /\ x \in 1 .. Len(write_q)
                      /\ write_q[x].addr \in Addr
                      /\ c[write_q[x].addr] = write_q[x].data
      /\ \A a \in Addr : \/ c[a] = chip[a]
                         \/ \E x \in S : write_q[x].addr = a /\ c[a] = write_q[x].data
  BY ProgrammedCell
<1>2. c \in [Addr -> Nat]
  BY ProgrammedType
<1>. HIDE DEF c
<1>3. /\ Settled \in Nat /\ since \in Nat /\ flushed \in [Addr -> Nat]
      /\ chip \in [Addr -> Nat] /\ Len(write_q) \in Nat
      /\ \A w \in 1 .. Settled : hist[w] \in Addr
      /\ n \in 1 .. Len(write_q)
      /\ \A i \in 1 .. Len(write_q) : write_q[i].addr \in Addr /\ write_q[i].data \in Nat
  BY SettledType, LenProperties, QueueFields, ChunkProperties DEF TypeOK
<1>4. Bounded(write_q, c, hist, since, flushed, Settled)
  <2>1. \A a \in Addr : flushed[a] <= c[a] /\ c[a] <= Settled
    <3>1. TAKE a \in Addr
    <3>2. /\ flushed[a] <= chip[a] /\ chip[a] <= Settled
          /\ \A x \in 1 .. Len(write_q) :
               write_q[x].data <= Settled /\ flushed[write_q[x].addr] < write_q[x].data
      BY DEF Ordered, OrderInv, Bounded
    <3>3. CASE c[a] = chip[a]
      BY <3>2, <3>3
    <3>4. CASE \E x \in S : write_q[x].addr = a /\ c[a] = write_q[x].data
      <4>1. PICK x \in S : write_q[x].addr = a /\ c[a] = write_q[x].data
        BY <3>4
      <4>2. x \in 1 .. Len(write_q)
        BY <1>1
      <4>3. flushed[a] < c[a] /\ c[a] <= Settled
        BY <3>2, <4>1, <4>2
      <4>. QED
        BY <1>2, <1>3, <4>3
    <3>. QED
      BY <1>1, <3>3, <3>4
  <2>. QED
    BY <2>1 DEF Ordered, OrderInv, Bounded
<1>5. Gone(write_q, c, hist, since, Settled)
  <2>1. ASSUME NEW w \in since + 1 .. Settled, ~InQueue(write_q, w)
        PROVE  w <= c[hist[w]] /\ \A i \in 1 .. Len(write_q) : w < write_q[i].data
    <3>1. w <= chip[hist[w]] /\ \A i \in 1 .. Len(write_q) : w < write_q[i].data
      BY <2>1 DEF Ordered, OrderInv, Gone
    <3>2. hist[w] \in Addr /\ w \in Nat
      BY <1>3
    <3>. QED
      BY <1>1, <1>3, <3>1, <3>2
  <2>. QED
    BY <2>1 DEF Gone
<1>6. Ahead(write_q, c, since)
  <2>1. ASSUME NEW j \in 1 .. Len(write_q), since < write_q[j].data,
               c[write_q[j].addr] = write_q[j].data, NEW i \in 1 .. j
        PROVE  PageOf(write_q[i].addr) = PageOf(write_q[j].addr)
    <3>1. CASE chip[write_q[j].addr] = write_q[j].data
      BY <2>1, <3>1 DEF Ordered, OrderInv, Ahead
    <3>2. CASE \E x \in S : write_q[x].addr = write_q[j].addr
                            /\ c[write_q[j].addr] = write_q[x].data
      <4>1. PICK x \in S : write_q[x].data = write_q[j].data
        BY <2>1, <3>2
      <4>2. x = j
        BY <1>1, <1>3, <4>1 DEF Ordered, OrderInv, Increasing
      <4>3. j \in 1 .. n /\ i \in 1 .. n
        BY <1>3, <4>2
      <4>. QED
        BY <4>3 DEF Chunk, Run
    <3>. QED
      BY <1>1, <1>3, <2>1, <3>1, <3>2
  <2>. QED
    BY <2>1 DEF Ahead
<1>7. Increasing(write_q)
  BY DEF Ordered, OrderInv
<1>. QED
  BY <1>4, <1>5, <1>6, <1>7 DEF OrderInv, c

\* Sending the whole run, which leaves the queue.
LEMMA OrderSend ==
  ASSUME TypeOK, WaitingOK, NEW n, Chunk(n), Ordered
  PROVE  OrderInv(Rest(n), Programmed(1 .. n), hist, since, flushed, Settled)
<1>. DEFINE r == Rest(n)
            c == Programmed(1 .. n)
<1>0. 1 .. n \in SUBSET (1 .. n)
  OBVIOUS
<1>1. \A x \in 1 .. n : c[write_q[x].addr] = write_q[x].data
  BY <1>0, ProgrammedCell
<1>2. OrderInv(write_q, c, hist, since, flushed, Settled)
  BY <1>0, OrderTorn
<1>3. /\ n \in 1 .. Len(write_q) /\ Len(write_q) \in Nat
      /\ Len(r) = Len(write_q) - n
      /\ \A i \in 1 .. Len(write_q) - n : r[i] = write_q[i + n]
  BY ChunkProperties, RestProperties, LenProperties DEF TypeOK
<1>. HIDE DEF r, c
<1>4. \A i \in 1 .. Len(r) : i + n \in 1 .. Len(write_q) /\ r[i] = write_q[i + n]
  BY <1>3
<1>5. Bounded(r, c, hist, since, flushed, Settled)
  BY <1>2, <1>4 DEF OrderInv, Bounded
<1>6. Increasing(r)
  <2>1. ASSUME NEW i \in 1 .. Len(r), NEW j \in 1 .. Len(r), i < j
        PROVE  r[i].data < r[j].data
    <3>1. i + n < j + n
      BY <1>3, <2>1
    <3>. QED
      BY <1>2, <1>4, <3>1 DEF OrderInv, Increasing
  <2>. QED
    BY <2>1 DEF Increasing
<1>7. Gone(r, c, hist, since, Settled)
  <2>1. ASSUME NEW w \in since + 1 .. Settled, ~InQueue(r, w)
        PROVE  w <= c[hist[w]] /\ \A i \in 1 .. Len(r) : w < r[i].data
    <3>1. CASE InQueue(write_q, w)
      <4>1. PICK x \in 1 .. Len(write_q) : write_q[x].data = w
        BY <3>1 DEF InQueue
      <4>2. x \in 1 .. n
        <5>1. ASSUME x > n PROVE FALSE
          <6>1. x - n \in 1 .. Len(r) /\ (x - n) + n = x
            BY <1>3, <5>1
          <6>. QED
            BY <1>4, <2>1, <4>1, <6>1 DEF InQueue
        <5>. QED
          BY <1>3, <5>1
      <4>3. c[hist[w]] = w
        BY <1>1, <1>2, <4>1, <4>2 DEF OrderInv, Bounded
      <4>4. \A i \in 1 .. Len(r) : x < i + n
        BY <1>3, <4>2
      <4>5. \A i \in 1 .. Len(r) : w < r[i].data
        BY <1>2, <1>4, <4>1, <4>4 DEF OrderInv, Increasing
      <4>6. w \in Int
        BY LenProperties, SettledType DEF TypeOK
      <4>. QED
        BY <4>3, <4>5, <4>6
    <3>2. CASE ~InQueue(write_q, w)
      BY <1>2, <1>4, <2>1, <3>2 DEF OrderInv, Gone
    <3>. QED
      BY <3>1, <3>2
  <2>. QED
    BY <2>1 DEF Gone
<1>8. Ahead(r, c, since)
  <2>1. ASSUME NEW j \in 1 .. Len(r), since < r[j].data, c[r[j].addr] = r[j].data,
               NEW i \in 1 .. j
        PROVE  PageOf(r[i].addr) = PageOf(r[j].addr)
    <3>1. i \in 1 .. Len(r) /\ i + n \in 1 .. j + n
      BY <1>3
    <3>. QED
      BY <1>2, <1>4, <2>1, <3>1 DEF OrderInv, Ahead
  <2>. QED
    BY <2>1 DEF Ahead
<1>9. OrderInv(r, c, hist, since, flushed, Settled)
  BY <1>5, <1>6, <1>7, <1>8 DEF OrderInv
<1>. QED
  BY <1>9 DEF r, c

\* Queueing write top + 1.
LEMMA OrderAppend ==
  ASSUME NEW q \in Seq(Entry), NEW c \in [Addr -> Nat], NEW h, NEW g, NEW s \in Nat,
         NEW f \in [Addr -> Nat], NEW top \in Nat, NEW e \in Entry,
         OrderInv(q, c, h, s, f, top),
         \A w \in 1 .. top : g[w] = h[w],
         e.data = top + 1, g[top + 1] = e.addr
  PROVE  OrderInv(Append(q, e), c, g, s, f, top + 1)
<1>. DEFINE r == Append(q, e)
<1>1. /\ Len(q) \in Nat /\ Len(r) = Len(q) + 1
      /\ r[Len(q) + 1] = e /\ \A i \in 1 .. Len(q) : r[i] = q[i]
  BY AppendProperties, LenProperties
<1>2. /\ e.addr \in Addr
      /\ \A i \in 1 .. Len(q) : q[i].addr \in Addr /\ q[i].data \in Nat
  BY EntryFields, ElementOfSeq
<1>3. \A i \in 1 .. Len(q) : /\ q[i].data \in 1 .. top
                             /\ h[q[i].data] = q[i].addr
                             /\ f[q[i].addr] < q[i].data
  <2>1. TAKE i \in 1 .. Len(q)
  <2>2. q[i].data <= top /\ f[q[i].addr] < q[i].data /\ h[q[i].data] = q[i].addr
    BY DEF OrderInv, Bounded
  <2>3. f[q[i].addr] \in Nat
    BY <1>2
  <2>. QED
    BY <1>2, <2>2, <2>3
<1>. HIDE DEF r
<1>4. ASSUME NEW i \in 1 .. Len(r)
      PROVE  (i = Len(q) + 1 /\ r[i] = e) \/ (i \in 1 .. Len(q) /\ r[i] = q[i])
  <2>1. i = Len(q) + 1 \/ i \in 1 .. Len(q)
    BY <1>1
  <2>. QED
    BY <1>1, <2>1
<1>5. s <= top /\ \A a \in Addr : f[a] <= c[a] /\ c[a] <= top
  BY DEF OrderInv, Bounded
<1>6. Bounded(r, c, g, s, f, top + 1)
  <2>1. \A a \in Addr : f[a] <= c[a] /\ c[a] <= top + 1
    BY <1>5
  <2>2. ASSUME NEW i \in 1 .. Len(r)
        PROVE  r[i].data <= top + 1 /\ g[r[i].data] = r[i].addr /\ f[r[i].addr] < r[i].data
    <3>1. CASE r[i] = e
      <4>1. f[e.addr] <= top /\ f[e.addr] \in Nat
        BY <1>2, <1>5
      <4>. QED
        BY <3>1, <4>1
    <3>2. CASE i \in 1 .. Len(q) /\ r[i] = q[i]
      <4>1. q[i].data <= top + 1
        BY <1>3, <3>2
      <4>2. g[q[i].data] = q[i].addr
        BY <1>3, <3>2
      <4>. QED
        BY <1>3, <3>2, <4>1, <4>2
    <3>. QED
      BY <1>4, <3>1, <3>2
  <2>. QED
    BY <1>5, <2>1, <2>2 DEF Bounded
<1>7. Increasing(r)
  <2>1. ASSUME NEW i \in 1 .. Len(r), NEW j \in 1 .. Len(r), i < j
        PROVE  r[i].data < r[j].data
    <3>1. i \in 1 .. Len(q) /\ r[i] = q[i]
      BY <1>1, <1>4, <2>1
    <3>2. CASE r[j] = e
      BY <1>3, <3>1, <3>2
    <3>3. CASE j \in 1 .. Len(q) /\ r[j] = q[j]
      BY <2>1, <3>1, <3>3 DEF OrderInv, Increasing
    <3>. QED
      BY <1>4, <3>2, <3>3
  <2>. QED
    BY <2>1 DEF Increasing
<1>8. Gone(r, c, g, s, top + 1)
  <2>1. ASSUME NEW w \in s + 1 .. top + 1, ~InQueue(r, w)
        PROVE  w <= c[g[w]] /\ \A i \in 1 .. Len(r) : w < r[i].data
    <3>1. Len(q) + 1 \in 1 .. Len(r)
      BY <1>1
    <3>2. w # top + 1
      BY <1>1, <2>1, <3>1 DEF InQueue
    <3>3. w \in s + 1 .. top /\ w \in 1 .. top
      BY <3>2
    <3>4. ~InQueue(q, w)
      BY <1>1, <2>1 DEF InQueue
    <3>5. w <= c[h[w]] /\ \A i \in 1 .. Len(q) : w < q[i].data
      BY <3>3, <3>4 DEF OrderInv, Gone
    <3>6. w <= c[g[w]]
      BY <3>3, <3>5
    <3>7. ASSUME NEW i \in 1 .. Len(r) PROVE w < r[i].data
      <4>1. CASE r[i] = e
        BY <3>3, <4>1
      <4>2. CASE i \in 1 .. Len(q) /\ r[i] = q[i]
        BY <3>5, <4>2
      <4>. QED
        BY <1>4, <4>1, <4>2
    <3>. QED
      BY <3>6, <3>7
  <2>. QED
    BY <2>1 DEF Gone
<1>9. Ahead(r, c, s)
  <2>1. ASSUME NEW j \in 1 .. Len(r), s < r[j].data, c[r[j].addr] = r[j].data,
               NEW i \in 1 .. j
        PROVE  PageOf(r[i].addr) = PageOf(r[j].addr)
    <3>1. r[j] # e
      <4>1. c[e.addr] <= top /\ c[e.addr] \in Nat
        BY <1>2, <1>5
      <4>. QED
        BY <2>1, <4>1
    <3>2. j \in 1 .. Len(q) /\ r[j] = q[j] /\ i \in 1 .. Len(q) /\ r[i] = q[i]
      BY <1>1, <1>4, <3>1
    <3>. QED
      BY <2>1, <3>2 DEF OrderInv, Ahead
  <2>. QED
    BY <2>1 DEF Ahead
<1>10. OrderInv(r, c, g, s, f, top + 1)
  BY <1>6, <1>7, <1>8, <1>9 DEF OrderInv
<1>. QED
  BY <1>10 DEF r

\* With the queue emptied, the order starts again.
LEMMA OrderEmpty ==
  ASSUME NEW c, NEW h, NEW f, NEW top \in Nat,
         \A a \in Addr : f[a] <= c[a] /\ c[a] <= top
  PROVE  OrderInv(<<>>, c, h, top, f, top)
BY EmptySeq DEF OrderInv, Bounded, Increasing, Gone, Ahead

-----------------------------------------------------------------------------

\* With nothing written and nothing queued, the order holds.
LEMMA OrderInit == ASSUME Init PROVE Ordered
<1>1. /\ hist = <<>> /\ Len(hist) = 0 /\ Settled = 0 /\ since = 0 /\ write_q = <<>>
  BY EmptySeq DEF Init, Settled
<1>2. \A a \in Addr : flushed[a] <= chip[a] /\ chip[a] <= 0
  BY DEF Init
<1>. QED
  BY <1>1, <1>2, OrderEmpty DEF Ordered

\* Every step keeps the order: of the queue entries among themselves, of what the
\* chip holds, and of the two against each other.
LEMMA OrderStep ==
  ASSUME IInv, IInv', Ordered, [Next]_vars
  PROVE  Ordered'
<1>. USE SizeAssumption DEF IInv
<1>0. /\ Settled \in Nat /\ Settled <= Len(hist) /\ Len(hist) \in Nat
      /\ since \in Nat /\ flushed \in [Addr -> Nat] /\ chip \in [Addr -> Nat]
      /\ chip' \in [Addr -> Nat] /\ write_q \in Seq(Entry)
  BY SettledType DEF TypeOK
<1>1. CASE \E n \in 1 .. Cap : FullThenLate(n) \/ FlushWrites(n) \/ TaskWrites(n)
  <2>1. PICK n \in 1 .. Cap : FullThenLate(n) \/ FlushWrites(n) \/ TaskWrites(n)
    BY <1>1
  <2>2. /\ Chunk(n) /\ chip' = Programmed(1 .. n) /\ write_q' = Rest(n)
        /\ UNCHANGED <<hist, since, flushed>> /\ Settled' = Settled
    BY <2>1 DEF FullThenLate, FlushWrites, TaskWrites, PageWritten, Settled
  <2>. QED
    BY <2>2, OrderSend DEF Ordered
<1>2. CASE \E S \in Subsets : FullFails(S) \/ FlushFails(S) \/ TaskFails(S)
  <2>1. PICK S \in Subsets : FullFails(S) \/ FlushFails(S) \/ TaskFails(S)
    BY <1>2
  <2>2. /\ PageTorn(S) /\ UNCHANGED <<write_q, hist, since, flushed>>
        /\ Settled' = Settled
    BY <2>1 DEF FullFails, FlushFails, TaskFails, PageFailed, Settled
  <2>3. PICK n \in 1 .. Len(write_q) : Chunk(n) /\ S \subseteq 1 .. n
    BY <2>2 DEF PageTorn
  <2>. QED
    BY <2>2, <2>3, OrderTorn DEF Ordered, PageTorn
<1>3. CASE \E n \in 1 .. Cap : FullThenQueued(n)
  <2>1. PICK n \in 1 .. Cap : FullThenQueued(n)
    BY <1>3
  <2>2. /\ Chunk(n) /\ chip' = Programmed(1 .. n) /\ Rest(n) \in Seq(Entry)
        /\ write_q' = Append(Rest(n), Latest)
        /\ UNCHANGED <<hist, since, flushed>>
        /\ Settled' = Settled + 1 /\ Len(hist) = Settled + 1
    BY <1>0, <2>1, WrittenType DEF FullThenQueued, PageWritten, Settled
  <2>3. OrderInv(Rest(n), chip', hist, since, flushed, Settled)
    BY <2>2, OrderSend
  <2>4. Latest \in Entry /\ Latest.data = Settled + 1 /\ hist[Settled + 1] = Latest.addr
    BY <2>1, <2>2, LatestType DEF Latest, FullThenQueued
  <2>5. OrderInv(Append(Rest(n), Latest), chip', hist, since, flushed, Settled + 1)
    BY <1>0, <2>2, <2>3, <2>4, OrderAppend
  <2>. QED
    BY <2>2, <2>5 DEF Ordered
<1>4. CASE \E a \in Addr : WriteByte(a)
  <2>1. PICK a \in Addr : WriteByte(a)
    BY <1>4
  <2>2. /\ hist' = Append(hist, a) /\ UNCHANGED <<chip, since, flushed>>
        /\ Settled = Len(hist)
    BY <2>1 DEF WriteByte, Settled
  <2>3. /\ Len(hist') = Len(hist) + 1 /\ hist'[Len(hist) + 1] = a
        /\ \A w \in 1 .. Len(hist) : hist'[w] = hist[w]
    BY <2>2, AppendProperties DEF TypeOK
  <2>. DEFINE e == [addr |-> a, data |-> Len(hist) + 1]
  <2>4. e \in Entry /\ e.addr = a /\ e.data = Len(hist) + 1
    BY <1>0 DEF Entry
  <2>. HIDE DEF e
  <2>5. CASE Len(write_q) < Cap
    <3>1. write_q' = Append(write_q, e) /\ Settled' = Settled + 1
      BY <1>0, <2>1, <2>2, <2>3, <2>5 DEF WriteByte, Settled, e
    <3>2. OrderInv(Append(write_q, e), chip, hist', since, flushed, Settled + 1)
      BY <1>0, <2>2, <2>3, <2>4, OrderAppend DEF Ordered
    <3>. QED
      BY <2>2, <3>1, <3>2 DEF Ordered
  <2>6. CASE ~(Len(write_q) < Cap)
    <3>1. write_q' = write_q /\ Settled' = Settled
      BY <1>0, <2>1, <2>2, <2>3, <2>6 DEF WriteByte, Settled
    <3>2. \A i \in 1 .. Len(write_q) : write_q[i].data \in 1 .. Settled
      <4>1. TAKE i \in 1 .. Len(write_q)
      <4>2. write_q[i].addr \in Addr /\ write_q[i].data \in Nat
        BY <1>0, QueueFields
      <4>3. flushed[write_q[i].addr] < write_q[i].data /\ write_q[i].data <= Settled
        BY DEF Ordered, OrderInv, Bounded
      <4>. QED
        BY <1>0, <4>2, <4>3
    <3>3. Bounded(write_q, chip, hist', since, flushed, Settled)
      BY <2>2, <2>3, <3>2 DEF Ordered, OrderInv, Bounded
    <3>4. Gone(write_q, chip, hist', since, Settled)
      <4>1. \A w \in since + 1 .. Settled : hist'[w] = hist[w]
        BY <1>0, <2>2, <2>3
      <4>. QED
        BY <4>1 DEF Ordered, OrderInv, Gone
    <3>. QED
      BY <2>2, <3>1, <3>3, <3>4 DEF Ordered, OrderInv
  <2>. QED
    BY <2>5, <2>6
<1>5. CASE \E ok, landed \in BOOLEAN : DirectWrite(ok, landed)
  <2>1. PICK ok \in BOOLEAN, landed \in BOOLEAN : DirectWrite(ok, landed)
    BY <1>5
  <2>2. /\ UNCHANGED <<write_q, hist, flushed>> /\ since' = Len(hist)
        /\ Settled' = Len(hist) /\ Len(hist) = Settled + 1
        /\ Latest.data = Len(hist)
    BY <1>0, <2>1 DEF DirectWrite, Settled, Latest
  <2>3. \A a \in Addr : chip'[a] = chip[a] \/ chip'[a] = Len(hist)
    BY <1>0, <2>1, <2>2 DEF DirectWrite
  <2>4. \A a \in Addr : flushed[a] <= chip'[a] /\ chip'[a] <= Len(hist)
    <3>1. TAKE a \in Addr
    <3>2. flushed[a] <= chip[a] /\ chip[a] <= Settled
      BY DEF Ordered, OrderInv, Bounded
    <3>3. flushed[a] \in Nat /\ chip[a] \in Nat
      BY <1>0
    <3>4. CASE chip'[a] = chip[a]
      BY <1>0, <2>2, <3>2, <3>3, <3>4
    <3>5. CASE chip'[a] = Len(hist)
      BY <1>0, <2>2, <3>2, <3>3, <3>5
    <3>. QED
      BY <2>3, <3>4, <3>5
  <2>5. \A i \in 1 .. Len(write_q) : write_q[i].data <= Settled /\ write_q[i].data \in Nat
    BY <1>0, QueueFields DEF Ordered, OrderInv, Bounded
  <2>6. Bounded(write_q, chip', hist, Len(hist), flushed, Len(hist))
    BY <1>0, <2>2, <2>4, <2>5 DEF Ordered, OrderInv, Bounded
  <2>7. Gone(write_q, chip', hist, Len(hist), Len(hist))
    BY <1>0 DEF Gone
  <2>8. Ahead(write_q, chip', Len(hist))
    BY <1>0, <2>2, <2>5 DEF Ahead
  <2>9. Increasing(write_q)
    BY DEF Ordered, OrderInv
  <2>. QED
    BY <2>2, <2>6, <2>7, <2>8, <2>9 DEF Ordered, OrderInv
<1>6. ASSUME \A a \in Addr : flushed[a] <= chip'[a] /\ chip'[a] <= Settled,
             write_q' = <<>>, since' = Len(hist), Settled' = Len(hist),
             UNCHANGED <<hist, flushed>>
      PROVE  Ordered'
  <2>1. \A a \in Addr : flushed[a] <= chip'[a] /\ chip'[a] <= Len(hist)
    BY <1>0, <1>6
  <2>2. OrderInv(<<>>, chip', hist, Len(hist), flushed, Len(hist))
    BY <1>0, <2>1, OrderEmpty
  <2>. QED
    BY <1>6, <2>2 DEF Ordered
<1>7. \A a \in Addr : flushed[a] <= chip[a] /\ chip[a] <= Settled
  BY DEF Ordered, OrderInv, Bounded
<1>8. ASSUME NEW S, PageTorn(S)
      PROVE  \A a \in Addr : flushed[a] <= chip'[a] /\ chip'[a] <= Settled
  <2>1. PICK n \in 1 .. Len(write_q) : Chunk(n) /\ S \subseteq 1 .. n
    BY <1>8 DEF PageTorn
  <2>2. OrderInv(write_q, chip', hist, since, flushed, Settled)
    BY <1>8, <2>1, OrderTorn DEF PageTorn
  <2>. QED
    BY <2>2 DEF OrderInv, Bounded
<1>9. CASE \E S \in Subsets : FlushGivesUp(S)
  BY <1>6, <1>8, <1>9 DEF FlushGivesUp, PageFailed, Settled
<1>10. CASE \E k \in ReadLengths : Reinit(k) \/ PowerCut(k)
  BY <1>6, <1>7, <1>10 DEF Reinit, PowerCut, Restart, Settled
<1>11. CASE \E S \in Subsets, k \in ReadLengths : PowerCutTears(S, k)
  BY <1>6, <1>8, <1>11 DEF PowerCutTears, Restart, Settled
<1>12. CASE FlushBegin \/ UNCHANGED vars
  <2>1. UNCHANGED <<write_q, chip, hist, since, flushed, Settled>>
    BY <1>12 DEF FlushBegin, vars, Settled
  <2>. QED
    BY <2>1 DEF Ordered
<1>13. CASE FlushReturns
  <2>1. /\ UNCHANGED <<write_q, chip, hist, since, Settled>> /\ write_q = <<>>
        /\ Waiting = {}
    BY <1>13 DEF FlushReturns, Settled, Waiting
  <2>2. \A a \in Addr \ lost : eeprom_buf[a] = chip[a]
    BY <2>1, EmptySeq DEF Coherent, Settles, Places
  <2>3. \A a \in Addr : flushed'[a] <= chip[a]
    BY <1>0, <1>7, <1>13, <2>2 DEF FlushReturns
  <2>4. Bounded(write_q, chip, hist, since, flushed', Settled)
    BY <1>7, <2>1, <2>3, EmptySeq DEF Ordered, OrderInv, Bounded
  <2>. QED
    BY <2>1, <2>4 DEF Ordered, OrderInv
<1>. QED
  BY <1>1, <1>2, <1>3, <1>4, <1>5, <1>9, <1>10, <1>11, <1>12, <1>13 DEF Next, Call

\* The order invariant holds in every reachable state.
THEOREM OrderHolds == Spec => [](IInv /\ Ordered)
<1>1. Init => IInv /\ Ordered
  BY InitType, OrderInit DEF IInv
<1>2. (IInv /\ Ordered) /\ [Next]_vars => (IInv /\ Ordered)'
  <2>1. ASSUME IInv, Ordered, [Next]_vars PROVE IInv'
    BY <2>1, TypeStep, WaitingStep, BlankStep, CoherentStep DEF IInv
  <2>. QED
    BY <2>1, OrderStep
<1>. QED
  BY <1>1, <1>2, PTL DEF Spec

\* The order invariant, which speaks of the queue too, gives the one of the chip.
LEMMA OrderedIsInOrder ==
  ASSUME IInv, Ordered
  PROVE  InOrder
<1>1. /\ Settled \in Nat /\ Len(hist) \in Nat /\ Len(hist) <= Settled + 1
      /\ since \in Nat /\ Len(write_q) \in Nat
      /\ \A w \in 1 .. Len(hist) : hist[w] \in Addr
  BY SettledType, LenProperties, ElementOfSeq DEF IInv, TypeOK, Settled
<1>2. SUFFICES ASSUME NEW i \in since + 1 .. Len(hist), NEW j \in since + 1 .. Len(hist),
                      i < j, PageOf(hist[i]) # PageOf(hist[j]), chip[hist[j]] = j
               PROVE  chip[hist[i]] >= i
  BY DEF InOrder
<1>3. i \in 1 .. Len(hist) /\ j \in 1 .. Len(hist)
  BY <1>1
<1>4. j <= Settled
  <2>1. chip[hist[j]] <= Settled
    BY <1>1, <1>3 DEF Ordered, OrderInv, Bounded
  <2>. QED
    BY <1>2, <2>1
<1>5. i \in since + 1 .. Settled /\ j \in since + 1 .. Settled
  BY <1>1, <1>2, <1>4
<1>6. CASE ~InQueue(write_q, i)
  <2>1. i <= chip[hist[i]]
    BY <1>5, <1>6 DEF Ordered, OrderInv, Gone
  <2>2. chip[hist[i]] \in Nat
    BY <1>1, <1>3 DEF IInv, TypeOK
  <2>. QED
    BY <1>1, <2>1, <2>2
<1>7. CASE InQueue(write_q, i)
  <2>1. PICK x \in 1 .. Len(write_q) : write_q[x].data = i
    BY <1>7 DEF InQueue
  <2>2. InQueue(write_q, j)
    <3>1. ASSUME ~InQueue(write_q, j) PROVE FALSE
      <4>1. j < write_q[x].data
        BY <1>5, <3>1 DEF Ordered, OrderInv, Gone
      <4>. QED
        BY <1>1, <1>2, <2>1, <4>1
    <3>. QED
      BY <3>1
  <2>3. PICK y \in 1 .. Len(write_q) : write_q[y].data = j
    BY <2>2 DEF InQueue
  <2>4. x \in 1 .. y
    <3>1. ASSUME y < x PROVE FALSE
      <4>1. j < i
        BY <2>1, <2>3, <3>1 DEF Ordered, OrderInv, Increasing
      <4>. QED
        BY <1>1, <1>2, <4>1
    <3>. QED
      BY <1>1, <3>1
  <2>5. write_q[x].addr = hist[i] /\ write_q[y].addr = hist[j]
    BY <2>1, <2>3 DEF Ordered, OrderInv, Bounded
  <2>6. PageOf(write_q[x].addr) = PageOf(write_q[y].addr)
    <3>1. since < write_q[y].data /\ chip[write_q[y].addr] = write_q[y].data
      BY <1>1, <1>2, <2>3, <2>5
    <3>. QED
      BY <2>4, <3>1 DEF Ordered, OrderInv, Ahead
  <2>. QED
    BY <1>2, <2>5, <2>6
<1>. QED
  BY <1>6, <1>7

\* After a power cut a write vouches for every earlier write to another page
\* (eeprom.c:74-137): no partial page, retry or restart breaks the order, unless
\* the queue was bypassed or emptied in between.
THEOREM LandsInOrder == Spec => []InOrder
BY OrderHolds, OrderedIsInOrder, PTL

\* What eeprom_flush_pending reported as stored is never undone (eeprom.c:144-173).
THEOREM FlushIsDurable == Spec => []FlushDurable
<1>1. ASSUME IInv, Ordered PROVE FlushDurable
  <2>1. SUFFICES ASSUME NEW a \in Addr PROVE chip[a] >= flushed[a]
    BY DEF FlushDurable
  <2>2. flushed[a] <= chip[a]
    BY <1>1 DEF Ordered, OrderInv, Bounded
  <2>3. flushed[a] \in Nat /\ chip[a] \in Nat
    BY <1>1 DEF IInv, TypeOK
  <2>. QED
    BY <2>2, <2>3
<1>. QED
  BY <1>1, OrderHolds, PTL

=============================================================================
