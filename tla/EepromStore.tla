---------------------------- MODULE EepromStore ----------------------------
(***************************************************************************)
(* The write-behind EEPROM of                                              *)
(*   src/src/ap/modules/qmk/port/platforms/eeprom.c  over the I2C chip of  *)
(*   src/src/hw/driver/eeprom/zd24c128.c.                                  *)
(*                                                                         *)
(* QMK reads and writes a RAM mirror, eeprom_buf; every write also joins   *)
(* the queue write_q, which eeprom_update sends to the chip one page-sized *)
(* run of consecutive addresses at a time.  A full queue makes the writer  *)
(* wait and, after 2 ms, write to the chip directly.  Boot code can flush  *)
(* the queue, which gives up (and empties it) when the chip stalls, and    *)
(* eeprom_init, called several times while booting, re-reads the mirror    *)
(* and empties the queue.                                                  *)
(*                                                                         *)
(* Abstractions                                                            *)
(*  - a cell holds the number of the write that produced its value, so two *)
(*    writes are never confused; 0 is what the chip held at the beginning  *)
(*    and Blank a mirror cell that was never read.                         *)
(*  - one call of eeprom_update sends one run: a page takes longer than    *)
(*    the 100 us slice.  A call that sends more is a sequence of such.     *)
(*  - a run whose transfer fails, or that the power cut interrupts, leaves *)
(*    any subset of its cells programmed.                                  *)
(*  - "after 2 ms" and "after 200 ms without progress" are a choice made   *)
(*    after each call of eeprom_update, and MaxStall calls in a row bound  *)
(*    it (EEPROM_FLUSH_MAX_SPIN in the code).                              *)
(*  - everything runs in the main loop: no interrupt writes the EEPROM.    *)
(***************************************************************************)
EXTENDS Integers, Sequences

CONSTANTS
  NAddr,      \* TOTAL_EEPROM_BYTE_COUNT
  PageSize,   \* EEPROM_WRITE_PAGE_SIZE = EEPROM_PAGE_SIZE
  Cap,        \* entries write_q holds, EEPROM_WRITE_Q_BUF_MAX - 1
  MaxStall,   \* calls of eeprom_update without progress before giving up
  MaxWrites,  \* bound: writes in a behaviour
  Faulty      \* whether the I2C bus fails

ASSUME SizeAssumption ==
  /\ NAddr \in Nat \ {0} /\ PageSize \in Nat \ {0} /\ Cap \in Nat \ {0}
  /\ MaxStall \in Nat \ {0} /\ MaxWrites \in Nat /\ Faulty \in BOOLEAN

Addr == 0 .. NAddr - 1
PageOf(a) == a \div PageSize

Blank == -1

VARIABLES
  eeprom_buf,  \* the RAM mirror
  chip,        \* the cells of the EEPROM
  write_q,     \* entries [addr, data] not yet sent
  pc,          \* the call in progress: "idle", "full" or "direct" (in
               \* eeprom_write_byte), "flush" (in eeprom_flush_pending)
  stall,       \* its calls of eeprom_update without progress
  phase,       \* "boot" until qmkInit's eeprom_init, then "run"
  hist,        \* history: the address of write 1, 2, ...
  lost,        \* history: addresses whose latest write was given up, or whose
               \* mirror cell was not read
  since,       \* history: the last write the queue's order says nothing about
  flushed      \* history: what the last successful flush promised per address

vars == <<eeprom_buf, chip, write_q, pc, stall, phase, hist, lost, since, flushed>>

-----------------------------------------------------------------------------
(* The run of entries eeprom_update sends *)

Queued == {write_q[i].addr : i \in DOMAIN write_q}

Base == write_q[1].addr

\* Mutant: a run goes on past the end of its page.
RunAcrossPages(n) ==
  /\ n <= Len(write_q)
  /\ \A i \in 1 .. n : write_q[i].addr = Base + i - 1

\* The first n entries are consecutive addresses of one page.
Run(n) ==
  /\ n <= Len(write_q)
  /\ \A i \in 1 .. n : /\ write_q[i].addr = Base + i - 1
                       /\ PageOf(write_q[i].addr) = PageOf(Base)

\* Mutant: a single entry is kept for a later run.
ChunkOfTwo(n) == n \in 2 .. Len(write_q) /\ Run(n) /\ ~Run(n + 1)

\* ... and there is no longer such run.
Chunk(n) == n \in 1 .. Len(write_q) /\ Run(n) /\ ~Run(n + 1)

\* The chip once the cells of the run at the positions in S are programmed.
Programmed(S) ==
  [a \in Addr |-> IF a - Base + 1 \in S THEN write_q[a - Base + 1].data ELSE chip[a]]

\* Mutants: one entry too few, or too many, leaves the queue.
RestLeavesOne(n) == SubSeq(write_q, n, Len(write_q))
RestTakesOneMore(n) == SubSeq(write_q, n + 2, Len(write_q))

\* qbufferRead(&write_q, NULL, n)
Rest(n) == SubSeq(write_q, n + 1, Len(write_q))

\* eepromWritePage succeeds on a run of n entries.
PageWritten(n) == Chunk(n) /\ chip' = Programmed(1 .. n)

\* Only the cells of the run at the positions in S land.
PageTorn(S) ==
  /\ \E n \in 1 .. Len(write_q) : Chunk(n) /\ S \subseteq 1 .. n
  /\ chip' = Programmed(S)

\* eepromWritePage fails: nothing leaves the queue, part of the run may land.
PageFailed(S) == Faulty /\ PageTorn(S)

Subsets == SUBSET (1 .. Cap)

-----------------------------------------------------------------------------
(* eeprom_init and power *)

\* A mirror re-read up to address k: eepromRead stops at the first error and
\* eeprom_init ignores its result.
Reread(k, cells, before) == [a \in Addr |-> IF a < k THEN cells[a] ELSE before[a]]

ReadLengths == IF Faulty THEN 0 .. NAddr ELSE {NAddr}

Unread(k) == {a \in Addr : k <= a}

Init ==
  /\ chip = [a \in Addr |-> 0]
  /\ \E k \in ReadLengths :
       /\ eeprom_buf = Reread(k, chip, [a \in Addr |-> Blank])
       /\ lost = Unread(k)
  /\ write_q = <<>> /\ pc = "idle" /\ stall = 0 /\ phase = "boot"
  /\ hist = <<>> /\ since = 0
  /\ flushed = [a \in Addr |-> 0]

\* eeprom_init again: a retry of hwInit, the factory reset, or qmkInit, after
\* which the main loop runs.  Entries still queued are dropped.
Reinit(k) ==
  /\ pc = "idle" /\ phase = "boot"
  /\ phase' \in {"boot", "run"}
  /\ eeprom_buf' = Reread(k, chip, eeprom_buf)
  /\ lost' = Unread(k)
  /\ write_q' = <<>> /\ since' = Len(hist)
  /\ UNCHANGED <<chip, pc, stall, hist, flushed>>

\* The MCU starts again, and hwInit calls eeprom_init.
Restart(k) ==
  /\ eeprom_buf' = Reread(k, chip', [a \in Addr |-> Blank])
  /\ lost' = Unread(k)
  /\ write_q' = <<>> /\ since' = Len(hist)
  /\ pc' = "idle" /\ stall' = 0 /\ phase' = "boot"
  /\ UNCHANGED <<hist, flushed>>

\* Power is cut or the MCU is reset between two transfers (mcu_reset drains for a
\* while, then resets in any case) ...
PowerCut(k) == UNCHANGED chip /\ Restart(k)

\* ... or while eeprom_update is sending a run.
PowerCutTears(S, k) ==
  /\ pc \in {"full", "flush"} \/ (phase = "run" /\ pc = "idle")
  /\ PageTorn(S)
  /\ Restart(k)

-----------------------------------------------------------------------------
(* eeprom_write_byte *)

Latest == [addr |-> hist[Len(hist)], data |-> Len(hist)]

\* The mirror changes first; then the write is queued, or the caller finds the
\* queue full.
WriteByte(a) ==
  LET w == Len(hist) + 1 IN
  /\ pc = "idle" /\ w <= MaxWrites
  /\ hist' = Append(hist, a)
  /\ eeprom_buf' = [eeprom_buf EXCEPT ![a] = w]
  /\ IF Len(write_q) < Cap
     THEN /\ write_q' = Append(write_q, [addr |-> a, data |-> w])
          /\ lost' = lost \ {a}
          /\ pc' = pc
     ELSE /\ pc' = "full"
          /\ UNCHANGED <<write_q, lost>>
  /\ stall' = 0
  /\ UNCHANGED <<chip, phase, since, flushed>>

\* Waiting: a run leaves the queue, and the write takes its place ...
FullThenQueued(n) ==
  /\ pc = "full" /\ PageWritten(n)
  /\ write_q' = Append(Rest(n), Latest)
  /\ lost' = lost \ {Latest.addr}
  /\ pc' = "idle" /\ stall' = 0
  /\ UNCHANGED <<eeprom_buf, phase, hist, since, flushed>>

\* ... unless that took too long: the time is looked at before the queue is.
FullThenLate(n) ==
  /\ pc = "full" /\ PageWritten(n)
  /\ write_q' = Rest(n)
  /\ pc' = "direct"
  /\ UNCHANGED <<eeprom_buf, stall, phase, hist, lost, since, flushed>>

FullFails(S) ==
  /\ pc = "full" /\ PageFailed(S)
  /\ stall' = stall + 1
  /\ pc' \in {"full", "direct"} /\ (stall' >= MaxStall => pc' = "direct")
  /\ UNCHANGED <<eeprom_buf, write_q, phase, hist, lost, since, flushed>>

\* The write goes to the chip past the queue; ok is eepromWriteByte's result, a
\* failed one may have landed.
DirectWrite(ok, landed) ==
  /\ pc = "direct"
  /\ ok => landed
  /\ ok \/ Faulty
  /\ chip' = IF landed THEN [chip EXCEPT ![Latest.addr] = Latest.data] ELSE chip
  /\ lost' = IF ok /\ Latest.addr \notin Queued THEN lost \ {Latest.addr}
                                                ELSE lost \cup {Latest.addr}
  /\ since' = Len(hist)
  /\ pc' = "idle" /\ stall' = 0
  /\ UNCHANGED <<eeprom_buf, write_q, phase, hist, flushed>>

-----------------------------------------------------------------------------
(* eeprom_task *)

TaskWrites(n) ==
  /\ pc = "idle" /\ phase = "run" /\ PageWritten(n)
  /\ write_q' = Rest(n)
  /\ UNCHANGED <<eeprom_buf, pc, stall, phase, hist, lost, since, flushed>>

TaskFails(S) ==
  /\ pc = "idle" /\ phase = "run" /\ PageFailed(S)
  /\ UNCHANGED <<eeprom_buf, write_q, pc, stall, phase, hist, lost, since, flushed>>

-----------------------------------------------------------------------------
(* eeprom_flush_pending, called while the factory defaults are applied *)

FlushBegin ==
  /\ pc = "idle" /\ phase = "boot"
  /\ pc' = "flush" /\ stall' = 0
  /\ UNCHANGED <<eeprom_buf, chip, write_q, phase, hist, lost, since, flushed>>

FlushWrites(n) ==
  /\ pc = "flush" /\ PageWritten(n)
  /\ write_q' = Rest(n)
  /\ stall' = 0
  /\ UNCHANGED <<eeprom_buf, pc, phase, hist, lost, since, flushed>>

\* Mutant: the count of calls without progress starts again.
FlushFailsAgain(S) ==
  /\ pc = "flush" /\ PageFailed(S)
  /\ stall' = (stall + 1) % MaxStall
  /\ UNCHANGED <<eeprom_buf, write_q, pc, phase, hist, lost, since, flushed>>

FlushFails(S) ==
  /\ pc = "flush" /\ PageFailed(S)
  /\ stall + 1 < MaxStall /\ stall' = stall + 1
  /\ UNCHANGED <<eeprom_buf, write_q, pc, phase, hist, lost, since, flushed>>

\* The chip made no progress for too long: the queue is emptied, false returned.
FlushGivesUp(S) ==
  /\ pc = "flush" /\ PageFailed(S)
  /\ write_q' = <<>> /\ since' = Len(hist)
  /\ lost' = lost \cup Queued
  /\ pc' = "idle" /\ stall' = 0
  /\ UNCHANGED <<eeprom_buf, phase, hist, flushed>>

\* Mutant: the run in flight is taken for the last one.
FlushReturnsEarly ==
  /\ pc = "flush" /\ Len(write_q) <= 1
  /\ pc' = "idle" /\ stall' = 0
  /\ flushed' = [a \in Addr |-> IF a \in lost THEN flushed[a] ELSE eeprom_buf[a]]
  /\ UNCHANGED <<eeprom_buf, chip, write_q, phase, hist, lost, since>>

\* Nothing is pending: true is returned.
FlushReturns ==
  /\ pc = "flush" /\ write_q = <<>>
  /\ pc' = "idle" /\ stall' = 0
  /\ flushed' = [a \in Addr |-> IF a \in lost THEN flushed[a] ELSE eeprom_buf[a]]
  /\ UNCHANGED <<eeprom_buf, chip, write_q, phase, hist, lost, since>>

-----------------------------------------------------------------------------

\* A call that has begun goes on: the caller blocks in it.
Call ==
  \/ \E n \in 1 .. Cap : FullThenQueued(n) \/ FullThenLate(n) \/ FlushWrites(n)
  \/ \E S \in Subsets : FullFails(S) \/ FlushFails(S) \/ FlushGivesUp(S)
  \/ \E ok, landed \in BOOLEAN : DirectWrite(ok, landed)
  \/ FlushReturns

Next ==
  \/ Call
  \/ \E a \in Addr : WriteByte(a)
  \/ \E n \in 1 .. Cap : TaskWrites(n)
  \/ \E S \in Subsets : TaskFails(S)
  \/ FlushBegin
  \/ \E k \in ReadLengths : Reinit(k)
  \/ \E k \in ReadLengths : PowerCut(k)
  \/ \E S \in Subsets, k \in ReadLengths : PowerCutTears(S, k)

Spec == Init /\ [][Next]_vars

\* The main loop goes on, and a chip that fails does not fail for ever.
FairSpec ==
  /\ Spec
  /\ WF_vars(Call)
  /\ SF_vars(\E n \in 1 .. Cap : TaskWrites(n))

-----------------------------------------------------------------------------
(* Properties *)

Entry == [addr : Addr, data : Nat]

TypeOK ==
  /\ hist \in Seq(Addr)
  /\ eeprom_buf \in [Addr -> Nat \cup {Blank}]
  /\ chip \in [Addr -> Nat]
  /\ write_q \in Seq(Entry) /\ Len(write_q) <= Cap
  /\ pc \in {"idle", "full", "direct", "flush"}
  /\ stall \in 0 .. MaxStall
  /\ phase \in {"boot", "run"}
  /\ lost \in SUBSET Addr
  /\ since \in Nat
  /\ flushed \in [Addr -> Nat]

\* The write of eeprom_write_byte that has not been queued yet.
Waiting == IF pc \in {"full", "direct"} THEN {Latest.addr} ELSE {}

\* Where queue q holds address a, and what address a will hold once q is sent.
Places(q, a) == {i \in 1 .. Len(q) : q[i].addr = a}

Settles(q, cell, a, value) ==
  IF Places(q, a) = {}
  THEN cell = value
  ELSE \E i \in Places(q, a) : q[i].data = value /\ \A j \in Places(q, a) : j <= i

\* What the mirror shows is on the chip or on its way there: the last entry
\* queued for an address carries the mirror's value, and an address without an
\* entry is equal in both.  The exceptions are the writes the code gives up
\* (eeprom.c:167, 314) and the cells a failed read left out (eeprom.c:70).
Coherent ==
  \A a \in Addr \ (lost \cup Waiting) : Settles(write_q, chip[a], a, eeprom_buf[a])

\* Writes to different pages reach the chip in the order they were made, so that
\* after a power cut a marker written last vouches for everything before it
\* (the sentinel of eeprom.c:59-65, the COOKIE of eeconfig_port.c).
InOrder ==
  \A i, j \in since + 1 .. Len(hist) :
    i < j /\ PageOf(hist[i]) # PageOf(hist[j]) /\ chip[hist[j]] = j
      => chip[hist[i]] >= i

\* What eeprom_flush_pending reported as stored stays stored: no later retry,
\* power cut or restart brings an older value back (eeprom.c:144-173).
FlushDurable == \A a \in Addr : chip[a] >= flushed[a]

\* eeprom_write_byte and eeprom_flush_pending return, also when every transfer
\* fails (eeprom.c:163-169, 295-309).
CallsReturn == pc # "idle" ~> pc = "idle"

\* Once the main loop runs, whatever is queued is eventually sent.
Drains == phase = "run" /\ write_q # <<>> ~> write_q = <<>>

\* docs/eeprom.md:18-19 promises no loss of data: a full queue is retried for
\* 2 ms and then written directly.  With a chip that never fails and nothing
\* queued, the chip holds what the mirror shows.
NothingLost == pc = "idle" /\ write_q = <<>> => chip = eeprom_buf

=============================================================================
