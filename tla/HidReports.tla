----------------------------- MODULE HidReports -----------------------------
(***************************************************************************)
(* How key reports reach the host: usbHidSendReport and usbHidSendReportEXK*)
(* of src/src/hw/driver/usb/usb_hid/usbd_hid.c, the ring buffer they fall  *)
(* back to (src/src/common/core/qbuffer.c), and the two interrupts.        *)
(*                                                                         *)
(* The main loop sends a report at once when the HID state is IDLE and     *)
(* queues it when it is BUSY.  TIM2, which fires a fixed time after each   *)
(* start of frame, sends the oldest queued report when the state is IDLE.  *)
(* The USB interrupt makes the state IDLE when a transfer ends.  TIM2      *)
(* preempts the USB interrupt and both preempt the main loop; neither is   *)
(* preempted inside what is an action here.                                *)
(*                                                                         *)
(* Keyboard and extra-key reports have a buffer, a ring and an endpoint of *)
(* their own, but the state is one variable for both, and the end of a VIA *)
(* transfer makes it IDLE too.                                             *)
(*                                                                         *)
(* Abstractions                                                            *)
(*  - a report is its number: reports are told apart by when they were     *)
(*    made.  A buffer has two halves, so that a copy can be interrupted.   *)
(*  - the hardware reads a buffer when the transfer is started (a transmit *)
(*    FIFO, no DMA).  What the host gets when a transfer is started on an  *)
(*    endpoint that still has one is left open.                            *)
(*  - the rings hold whole reports: that report_exk_q is created with the  *)
(*    element size of the keyboard's is not modelled.                      *)
(*  - a VIA response may be under way at any time.                          *)
(*  - a suspended bus is resumed before it is reset.                       *)
(***************************************************************************)
EXTENDS Integers, Sequences

CONSTANTS
  Stream,      \* "kbd" and "exk"
  Length,      \* slots of a ring (128 in the code)
  MaxReports,  \* bound: reports the keyboard makes
  Via,         \* whether VIA is in use
  Replug       \* whether the bus is suspended, resumed and reset

ASSUME HidAssumption ==
  /\ Stream # {} /\ Stream \subseteq {"kbd", "exk"}
  /\ Length \in Nat \ {0} /\ MaxReports \in Nat
  /\ Via \in BOOLEAN /\ Replug \in BOOLEAN

Slot == 0 .. Length - 1

VARIABLES
  state,    \* p_hhid->state
  device,   \* "configured", or "reset": no class is initialised
  suspended,\* is_suspended, and dev_state = USBD_STATE_SUSPENDED
  ring,     \* report_q and report_exk_q: in, out and the slots
  hid_buf,  \* hid_buf and hid_buf_exk
  ep,       \* the transfers an endpoint holds
  pc,       \* where the main loop is in a send call, or "idle"
  job,      \* that call's stream and report
  made,     \* reports made so far
  got,      \* history: what the host received
  direct    \* history: the reports sent past the queue

vars == <<state, device, suspended, ring, hid_buf, ep, pc, job, made,
          got, direct>>

-----------------------------------------------------------------------------
(* The ring *)

Following(i) == (i + 1) % Length

\* qbufferAvailable
Available(r) == (Length + r.in - r.out) % Length

\* What the ring holds, oldest first.
Contents(r) == [i \in 1 .. Available(r) |-> r.slot[(r.out + i - 1) % Length]]

\* Mutant: a full ring is not recognised.
NeverFull(r) == TRUE

\* qbufferWrite's test: one slot stays free.
HasRoom(r) == Following(r.in) # r.out

\* Mutants: the read forgets to wrap, or skips a slot.
TakenPastEnd(r) == [r EXCEPT !.out = @ + 1]
TakenTwo(r) == [r EXCEPT !.out = Following(Following(@))]

\* qbufferRead of one report ...
Taken(r) == [r EXCEPT !.out = Following(@)]

\* ... and what it copies.
Oldest(r) == r.slot[r.out]

-----------------------------------------------------------------------------
(* The endpoints *)

\* dev_state = USBD_STATE_CONFIGURED
Online == device = "configured" /\ ~suspended

Whole(n) == [lo |-> n, hi |-> n]

\* USBD_LL_Transmit: what an endpoint may hold after buffer b is given to it; its
\* FIFO has room for two reports.
Loads(fifo, b) ==
  IF fifo = <<>> THEN {<<b>>}
  ELSE {<<b>>, fifo} \cup (IF Len(fifo) = 1 THEN {Append(fifo, b)} ELSE {})

Init ==
  /\ state = "IDLE" /\ device = "configured" /\ suspended = FALSE
  /\ ring = [s \in Stream |-> [in |-> 0, out |-> 0, slot |-> [i \in Slot |-> 0]]]
  /\ hid_buf = [s \in Stream |-> Whole(0)]
  /\ ep = [s \in Stream |-> <<>>]
  /\ pc = "idle" /\ job \in [stream : Stream, report : {0}]
  /\ made = 0
  /\ got = [s \in Stream |-> {}] /\ direct = {}

-----------------------------------------------------------------------------
(* usbHidSendReport, usbHidSendReportEXK *)

\* The keyboard makes a report.  On a suspended bus the call wakes the host and
\* drops it.
Send(s) ==
  /\ pc = "idle" /\ made < MaxReports
  /\ made' = made + 1
  /\ job' = [stream |-> s, report |-> made + 1]
  /\ pc' = IF suspended THEN pc ELSE "copy"
  /\ UNCHANGED <<state, device, suspended, ring, hid_buf, ep, got, direct>>

\* memcpy(hid_buf, p_data, length), in two halves.
Copy ==
  /\ pc = "copy" /\ pc' = "copying"
  /\ hid_buf' = [hid_buf EXCEPT ![job.stream].lo = job.report]
  /\ UNCHANGED <<state, device, suspended, ring, ep, job, made, got, direct>>

CopyRest ==
  /\ pc = "copying" /\ pc' = "test"
  /\ hid_buf' = [hid_buf EXCEPT ![job.stream].hi = job.report]
  /\ UNCHANGED <<state, device, suspended, ring, ep, job, made, got, direct>>

\* USBD_HID_SendReport tests the state ...
Test ==
  /\ pc = "test"
  /\ pc' = IF Online /\ state = "IDLE" THEN "claim" ELSE "queue"
  /\ UNCHANGED <<state, device, suspended, ring, hid_buf, ep, job, made, got, direct>>

\* ... and sets it ...
Claim ==
  /\ pc = "claim" /\ pc' = "transmit"
  /\ state' = "BUSY"
  /\ UNCHANGED <<device, suspended, ring, hid_buf, ep, job, made, got, direct>>

\* ... and starts the transfer, if the endpoint is open.
Transmit ==
  /\ pc = "transmit" /\ pc' = "idle"
  /\ IF device = "reset"
     THEN UNCHANGED ep
     ELSE \E f \in Loads(ep[job.stream], hid_buf[job.stream]) :
            ep' = [ep EXCEPT ![job.stream] = f]
  /\ direct' = direct \cup {job.report}
  /\ UNCHANGED <<state, device, suspended, ring, hid_buf, job, made, got>>

\* qbufferWrite fills the slot; a full ring drops the report, and the result is
\* not looked at ...
Queue ==
  /\ pc = "queue"
  /\ IF HasRoom(ring[job.stream])
     THEN /\ ring' = [ring EXCEPT ![job.stream].slot[ring[job.stream].in] = job.report]
          /\ pc' = "publish"
     ELSE pc' = "idle" /\ UNCHANGED ring
  /\ UNCHANGED <<state, device, suspended, hid_buf, ep, job, made, got, direct>>

\* ... then publishes the new end.
Publish ==
  /\ pc = "publish" /\ pc' = "idle"
  /\ ring' = [ring EXCEPT ![job.stream].in = Following(@)]
  /\ UNCHANGED <<state, device, suspended, hid_buf, ep, job, made, got, direct>>

-----------------------------------------------------------------------------
(* TIM2 *)

\* The keyboard's ring is looked at before the other.
Turn(s) ==
  /\ Available(ring[s]) > 0
  /\ \A o \in Stream \ {s} : s = "exk" => Available(ring[o]) = 0

\* Mutant: a single report is left for the next one to push out.
BackupOfTwo ==
  /\ Online /\ state = "IDLE" /\ state' = "BUSY"
  /\ \E s \in Stream :
       /\ Turn(s) /\ Available(ring[s]) > 1
       /\ ring' = [ring EXCEPT ![s] = Taken(@)]
       /\ hid_buf' = [hid_buf EXCEPT ![s] = Whole(Oldest(ring[s]))]
       /\ \E f \in Loads(ep[s], Whole(Oldest(ring[s]))) : ep' = [ep EXCEPT ![s] = f]
  /\ UNCHANGED <<device, suspended, pc, job, made, got, direct>>

\* HAL_TIM_PWM_PulseFinishedCallback sends the oldest report ...
Backup ==
  /\ Online /\ state = "IDLE" /\ state' = "BUSY"
  /\ \E s \in Stream :
       /\ Turn(s)
       /\ ring' = [ring EXCEPT ![s] = Taken(@)]
       /\ hid_buf' = [hid_buf EXCEPT ![s] = Whole(Oldest(ring[s]))]
       /\ \E f \in Loads(ep[s], Whole(Oldest(ring[s]))) : ep' = [ep EXCEPT ![s] = f]
  /\ UNCHANGED <<device, suspended, pc, job, made, got, direct>>

\* ... and takes one from each ring for nothing when the device is not configured.
BackupLost ==
  /\ ~Online /\ state = "IDLE"
  /\ \E s \in Stream : Available(ring[s]) > 0
  /\ ring' = [s \in Stream |-> IF Available(ring[s]) > 0 THEN Taken(ring[s]) ELSE ring[s]]
  /\ hid_buf' = [s \in Stream |-> IF Available(ring[s]) > 0 THEN Whole(Oldest(ring[s]))
                                                            ELSE hid_buf[s]]
  /\ UNCHANGED <<state, device, suspended, ep, pc, job, made, got, direct>>

-----------------------------------------------------------------------------
(* The USB interrupt and the host *)

\* The host takes a report, and USBD_HID_DataIn makes the state IDLE.
DataIn(s) ==
  /\ Online /\ ep[s] # <<>>
  /\ got' = [got EXCEPT ![s] = @ \cup {Head(ep[s])}]
  /\ ep' = [ep EXCEPT ![s] = Tail(@)]
  /\ state' = "IDLE"
  /\ UNCHANGED <<device, suspended, ring, hid_buf, pc, job, made, direct>>

\* A VIA response has been transferred, and USBD_HID_DataIn takes it for a report.
ViaIn ==
  /\ Via /\ Online
  /\ state' = "IDLE"
  /\ UNCHANGED <<device, suspended, ring, hid_buf, ep, pc, job, made, got, direct>>

Suspend ==
  /\ Replug /\ ~suspended /\ suspended' = TRUE
  /\ UNCHANGED <<state, device, ring, hid_buf, ep, pc, job, made, got, direct>>

Resume ==
  /\ suspended /\ suspended' = FALSE
  /\ UNCHANGED <<state, device, ring, hid_buf, ep, pc, job, made, got, direct>>

\* A bus reset empties the endpoints, and USBD_HID_DeInit runs; neither changes the
\* state or the rings.
BusReset ==
  /\ Replug /\ ~suspended /\ device' = "reset"
  /\ ep' = [s \in Stream |-> <<>>]
  /\ UNCHANGED <<state, suspended, ring, hid_buf, pc, job, made, got, direct>>

\* Mutant: the state survives the new configuration.
InitKeepsState ==
  /\ ~suspended /\ device = "reset" /\ device' = "configured"
  /\ UNCHANGED <<state, suspended, ring, hid_buf, ep, pc, job, made, got, direct>>

\* USBD_HID_Init
HidInit ==
  /\ ~suspended /\ device = "reset" /\ device' = "configured"
  /\ state' = "IDLE"
  /\ UNCHANGED <<suspended, ring, hid_buf, ep, pc, job, made, got, direct>>

-----------------------------------------------------------------------------

MainStep == Copy \/ CopyRest \/ Test \/ Claim \/ Transmit \/ Queue \/ Publish

Next ==
  \/ \E s \in Stream : Send(s)
  \/ MainStep
  \/ Backup \/ BackupLost
  \/ \E s \in Stream : DataIn(s)
  \/ ViaIn
  \/ Suspend \/ Resume \/ BusReset \/ HidInit

Spec == Init /\ [][Next]_vars

\* Calls go on, frames come (and TIM2 with them), and the host polls.
FairSpec ==
  /\ Spec
  /\ WF_vars(MainStep)
  /\ WF_vars(Backup)
  /\ WF_vars(\E s \in Stream : DataIn(s))

-----------------------------------------------------------------------------
(* Properties *)

Report == 1 .. MaxReports
Buffer == [lo : 0 .. MaxReports, hi : 0 .. MaxReports]

\* Every variable holds a value of its C type; the indices stay inside the rings.
TypeOK ==
  /\ state \in {"IDLE", "BUSY"}
  /\ device \in {"configured", "reset"} /\ suspended \in BOOLEAN
  /\ ring \in [Stream -> [in : Slot, out : Slot, slot : [Slot -> 0 .. MaxReports]]]
  /\ hid_buf \in [Stream -> Buffer]
  /\ ep \in [Stream -> Seq(Buffer)]
  /\ pc \in {"idle", "copy", "copying", "test", "claim", "transmit", "queue", "publish"}
  /\ job \in [stream : Stream, report : 0 .. MaxReports]
  /\ made \in 0 .. MaxReports /\ direct \in SUBSET (0 .. MaxReports)
  /\ got \in [Stream -> SUBSET Buffer]

\* The state is BUSY only while somebody will make it IDLE again: a transfer is
\* under way, or the main loop is about to start one.  Else no report would ever
\* be sent again (usbd_hid.c:926-947, 1104-1123).
NotWedged ==
  state = "BUSY" /\ device = "configured" =>
    pc = "transmit" \/ \E s \in Stream : ep[s] # <<>>

\* Reports sent at once reach the host in the order they were made, and so do the
\* queued ones among themselves, whichever interrupt comes where, and also when
\* transfers are started over one another.  (Across the two a newer report may
\* overtake an older one.)  Torn reports aside (usbd_hid.c:1251-1284, 2039-2074).
KindsInOrder ==
  [][\A s \in Stream : DataIn(s) =>
       LET new == Head(ep[s]) IN
       \A old \in got[s] :
         new.lo = new.hi /\ old.lo = old.hi /\ (new.lo \in direct <=> old.lo \in direct)
           => old.lo <= new.lo]_vars

\* The main loop's half-finished write and TIM2's read of the ring together behave
\* like a bounded queue, although neither waits for the other (qbuffer.c:38-105).
KeyQueue == INSTANCE ReportFifo WITH queue <- Contents(ring["kbd"]), Room <- Length - 1
ExkQueue == INSTANCE ReportFifo WITH queue <- Contents(ring["exk"]), Room <- Length - 1

RingsAreQueues == KeyQueue!Fifo /\ ExkQueue!Fifo

\* Once the keyboard is quiet, what is queued is sent, as long as the device stays
\* configured (usbd_hid.c:2039-2074).
BacklogDrains ==
  \A s \in Stream : Available(ring[s]) > 0 ~> Available(ring[s]) = 0 \/ ~Online

\* docs/features_keyinput.md:40 "usbHidSendReport() / usbHidSendReportEXK() sends
\* the report at once or puts it in the queue": with room in the ring and the
\* device configured, a report whose call has returned is one of the two.
SentOrQueued ==
  \A n \in 1 .. made : (n = job.report /\ pc # "idle") \/
    \E s \in Stream :
      \/ Whole(n) \in got[s]
      \/ \E i \in DOMAIN ep[s] : ep[s][i] = Whole(n)
      \/ \E i \in DOMAIN Contents(ring[s]) : Contents(ring[s])[i] = n

=============================================================================
