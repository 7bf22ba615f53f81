------------------------------- MODULE ViaHid -------------------------------
(***************************************************************************)
(* The VIA raw HID channel: src/src/ap/modules/qmk/port/via_hid.c and the  *)
(* VIA endpoints of src/src/hw/driver/usb/usb_hid/usbd_hid.c.              *)
(*                                                                         *)
(* The host sends a command on the OUT endpoint; the USB interrupt puts it *)
(* in a ring, the main loop carries it out and puts the answer in a second *)
(* ring, and a start of frame that comes a while after that sends the      *)
(* answer and only then lets the host send again.  So the OUT endpoint     *)
(* being armed is a token that travels with the command: it is what keeps  *)
(* the rings from overflowing, and when it is lost the channel is deaf     *)
(* until the host configures the device again.                             *)
(*                                                                         *)
(* One buffer, via_hid_usb_report, holds the command that came and the     *)
(* answer that goes; the answer reaches the endpoint's FIFO in a later     *)
(* pass of the interrupt, which handles a command that arrived first.      *)
(*                                                                         *)
(* Abstractions                                                            *)
(*  - a command is its number, an answer the number of its command.        *)
(*  - the rings are bounded queues: HidReports checks qbuffer.c for one    *)
(*    writer and one reader that interrupt each other, as here.            *)
(*  - what a command does to the settings is left out, and so are the      *)
(*    counter of dropped commands, which is only logged, and suspends,     *)
(*    which only stop the frames.                                          *)
(*  - a host is patient, one command at a time, or sends whenever it can.  *)
(***************************************************************************)
EXTENDS Integers, Sequences

CONSTANTS
  RxRoom,       \* commands the first ring takes (15 in the code)
  TxRoom,       \* answers the second ring takes (127)
  Delay,        \* via_report_time, 20 ms
  MaxCommands,  \* bound: commands the host sends
  MaxInits,     \* bound: configurations
  Empty         \* whether the host may send an empty packet

ASSUME ViaAssumption ==
  /\ RxRoom \in Nat \ {0} /\ TxRoom \in Nat \ {0}
  /\ Delay \in Nat \ {0} /\ MaxCommands \in Nat /\ MaxInits \in Nat
  /\ Empty \in BOOLEAN

VARIABLES
  device,   \* "configured", or "reset": no class is initialised
  hooked,   \* via_hid_init has registered via_hid_receive
  armed,    \* the OUT endpoint takes the next packet
  buf,      \* via_hid_usb_report
  rx,       \* via_hid_rx_q
  tx,       \* via_report_q
  pc,       \* where the main loop is in via_hid_task, or "idle"
  job,      \* the command it holds
  wait,     \* millis() - via_report_pre_time, up to Delay
  loading,  \* an answer was started and is still to be copied to the FIFO
  fifo,     \* what the IN endpoint holds
  patient,  \* the host's habit
  owed,     \* the command a patient host waits for, or 0
  sent,     \* commands sent so far
  last,     \* history: the newest command whose answer the host has
  inits,    \* history: configurations so far
  lost      \* history: a packet of this configuration was not passed on

vars == <<device, hooked, armed, buf, rx, tx, pc, job, wait, loading, fifo,
          patient, owed, sent, last, inits, lost>>

host == <<patient, owed, sent, last>>
link == <<device, inits, lost>>

Command(n) == [kind |-> "command", number |-> n]
Answer(n) == [kind |-> "answer", number |-> n]

\* Nothing is running, and the device has yet to be configured.
Init ==
  /\ device = "reset" /\ hooked = FALSE /\ armed = FALSE
  /\ buf = Answer(0) /\ rx = <<>> /\ tx = <<>>
  /\ pc = "idle" /\ job = 0 /\ wait = Delay
  /\ loading = FALSE /\ fifo = <<>>
  /\ patient \in BOOLEAN /\ owed = 0 /\ sent = 0 /\ last = 0
  /\ inits = 0 /\ lost = FALSE

-----------------------------------------------------------------------------
(* The USB interrupt *)

\* Mutant: the test for a full ring is missing.
AlwaysRoom(ring, room) == TRUE

\* qbufferWrite succeeds.
HasRoom(ring, room) == Len(ring) < room

\* Mutant: the endpoint is armed as soon as the command is taken.
DataOutRearms ==
  /\ device = "configured" /\ armed /\ UNCHANGED armed
  /\ sent < MaxCommands /\ (patient => owed = 0)
  /\ sent' = sent + 1 /\ owed' = IF patient THEN sent + 1 ELSE 0
  /\ buf' = Command(sent + 1)
  /\ rx' = IF hooked /\ HasRoom(rx, RxRoom) THEN Append(rx, sent + 1) ELSE rx
  /\ lost' = (lost \/ ~hooked)
  /\ UNCHANGED <<device, hooked, tx, pc, job, wait, loading, fifo, patient, last, inits>>

\* A command arrives: USBD_HID_DataOut and via_hid_receive.  While QMK is still
\* starting nobody takes it; a full ring drops it.
DataOut ==
  /\ device = "configured" /\ armed /\ armed' = FALSE
  /\ sent < MaxCommands /\ (patient => owed = 0)
  /\ sent' = sent + 1 /\ owed' = IF patient THEN sent + 1 ELSE 0
  /\ buf' = Command(sent + 1)
  /\ rx' = IF hooked /\ HasRoom(rx, RxRoom) THEN Append(rx, sent + 1) ELSE rx
  /\ lost' = (lost \/ ~hooked)
  /\ UNCHANGED <<device, hooked, tx, pc, job, wait, loading, fifo, patient, last, inits>>

\* An empty packet is ignored, but it has used the endpoint up.
DataOutEmpty ==
  /\ Empty /\ device = "configured" /\ armed /\ armed' = FALSE
  /\ patient => owed = 0
  /\ lost' = TRUE
  /\ UNCHANGED <<device, hooked, buf, rx, tx, pc, job, wait, loading, fifo, host, inits>>

\* Mutant: the endpoint is not armed again.
SofDeaf ==
  /\ device = "configured" /\ tx # <<>> /\ wait >= Delay
  /\ buf' = Answer(Head(tx)) /\ tx' = Tail(tx)
  /\ loading' = TRUE
  /\ UNCHANGED <<hooked, armed, rx, pc, job, wait, fifo, host, link>>

\* USBD_HID_SOF starts the oldest answer and arms the OUT endpoint.
Sof ==
  /\ device = "configured" /\ tx # <<>> /\ wait >= Delay
  /\ buf' = Answer(Head(tx)) /\ tx' = Tail(tx)
  /\ loading' = TRUE /\ armed' = TRUE
  /\ UNCHANGED <<hooked, rx, pc, job, wait, fifo, host, link>>

\* What the FIFO may hold after buffer b was copied to it: over a packet that is
\* still there, either or both.
Loads(b) == IF fifo = <<>> THEN {<<b>>} ELSE {<<b>>, fifo, <<Head(fifo), b>>}

\* The next pass of the interrupt copies what the buffer holds by then.
Load ==
  /\ loading /\ loading' = FALSE
  /\ fifo' \in Loads(buf)
  /\ UNCHANGED <<hooked, armed, buf, rx, tx, pc, job, wait, host, link>>

\* A bus reset disarms the OUT endpoint and flushes the FIFOs, and perhaps ends a
\* transfer that was started; the rings keep what they hold.  The host's program
\* starts over.
BusReset ==
  /\ device = "configured" /\ device' = "reset"
  /\ armed' = FALSE /\ loading' \in {FALSE, loading} /\ fifo' = <<>> /\ owed' = 0
  /\ UNCHANGED <<hooked, buf, rx, tx, pc, job, wait, patient, sent, last, inits, lost>>

\* USBD_HID_Init
HidInit ==
  /\ device = "reset" /\ device' = "configured"
  /\ inits < MaxInits /\ inits' = inits + 1
  /\ armed' = TRUE /\ lost' = FALSE
  /\ UNCHANGED <<hooked, buf, rx, tx, pc, job, wait, loading, fifo, host>>

-----------------------------------------------------------------------------
(* The main loop *)

\* via_hid_init
Hook ==
  /\ ~hooked /\ hooked' = TRUE /\ rx' = <<>>
  /\ UNCHANGED <<armed, buf, tx, pc, job, wait, loading, fifo, host, link>>

\* Mutant: the newest command is taken first.
TakeNewest ==
  /\ hooked /\ pc = "idle" /\ rx # <<>>
  /\ pc' = "handling" /\ job' = rx[Len(rx)] /\ rx' = SubSeq(rx, 1, Len(rx) - 1)
  /\ UNCHANGED <<hooked, armed, buf, tx, wait, loading, fifo, host, link>>

\* via_hid_task takes a command and carries it out, which may take long ...
Take ==
  /\ hooked /\ pc = "idle" /\ rx # <<>>
  /\ pc' = "handling" /\ job' = Head(rx) /\ rx' = Tail(rx)
  /\ UNCHANGED <<hooked, armed, buf, tx, wait, loading, fifo, host, link>>

\* ... usbHidEnqueueViaResponse queues the answer, or drops it when the ring is full ...
Respond ==
  /\ pc = "handling"
  /\ IF HasRoom(tx, TxRoom)
     THEN tx' = Append(tx, job) /\ pc' = "stamp"
     ELSE UNCHANGED tx /\ pc' = "idle"
  /\ UNCHANGED <<hooked, armed, buf, rx, job, wait, loading, fifo, host, link>>

\* ... and only then starts the delay.
Stamp ==
  /\ pc = "stamp" /\ pc' = "idle" /\ wait' = 0
  /\ UNCHANGED <<hooked, armed, buf, rx, tx, job, loading, fifo, host, link>>

-----------------------------------------------------------------------------
(* Time and the host *)

Tick ==
  /\ wait < Delay /\ wait' = wait + 1
  /\ UNCHANGED <<hooked, armed, buf, rx, tx, pc, job, loading, fifo, host, link>>

\* The host reads the IN endpoint; a patient one takes what comes for its answer.
HostReads ==
  /\ device = "configured" /\ fifo # <<>> /\ fifo' = Tail(fifo)
  /\ owed' = 0
  /\ last' = IF Head(fifo).kind = "answer" THEN Head(fifo).number ELSE last
  /\ UNCHANGED <<hooked, armed, buf, rx, tx, pc, job, wait, loading, patient, sent, link>>

MainStep == Take \/ Respond \/ Stamp

Next ==
  \/ DataOut \/ DataOutEmpty \/ Sof \/ Load \/ BusReset \/ HidInit
  \/ Hook \/ MainStep \/ Tick \/ HostReads

Spec == Init /\ [][Next]_vars

\* The firmware finishes booting, its main loop goes round, time passes, frames and
\* interrupts come while the device is configured, and the host polls the endpoint.
FairSpec ==
  /\ Spec
  /\ WF_vars(Hook) /\ WF_vars(MainStep) /\ WF_vars(Tick)
  /\ WF_vars(Sof) /\ WF_vars(Load) /\ WF_vars(HostReads)

-----------------------------------------------------------------------------
(* Properties *)

Number == 0 .. MaxCommands
Packet == [kind : {"command", "answer"}, number : Number]

\* Every variable holds a value of its C type, and no ring more than it takes.
TypeOK ==
  /\ device \in {"configured", "reset"}
  /\ {hooked, armed, loading, patient, lost} \subseteq BOOLEAN
  /\ buf \in Packet /\ fifo \in Seq(Packet)
  /\ rx \in Seq(Number) /\ Len(rx) <= RxRoom
  /\ tx \in Seq(Number) /\ Len(tx) <= TxRoom
  /\ pc \in {"idle", "handling", "stamp"} /\ job \in Number
  /\ wait \in 0 .. Delay
  /\ {owed, sent, last} \subseteq Number /\ inits \in 0 .. MaxInits

\* The permissions to send: the armed endpoint, and the commands on their way that
\* will arm it.
Tokens ==
  Len(rx) + Len(tx) + (IF armed THEN 1 ELSE 0) + (IF pc = "handling" THEN 1 ELSE 0)

\* One permission per configuration is all there ever is: as long as the device is
\* configured once the rings hold one command, and it takes more configurations than
\* a ring has room for to drop one.  And unless a packet came to nobody, there always
\* is one: a drop never makes the channel deaf (usbd_hid.c:679, 1125-1144, 1175-1180).
FlowControl ==
  /\ Tokens <= inits
  /\ device = "configured" /\ ~lost => Tokens >= 1

\* The host gets an answer at most once and in the order of the commands, whatever
\* resets and habits of the host come in between.  And what a patient host reads is the
\* answer to the command it waits for, not the command itself or an older answer,
\* although they share a buffer; this holds up to the first re-configuration, which
\* keeps the answers of the session before (via_hid.c:69-117, usbd_hid.c:683, 1175).
RightAnswers ==
  [][HostReads =>
       /\ Head(fifo).kind = "answer" => Head(fifo).number > last
       /\ patient /\ inits = 1 => Head(fifo) = Answer(owed)]_vars

\* A configured device comes to take a command, and a patient host is answered, unless
\* the configuration ends or has lost a packet (usbd_hid.c:1125-1180, via_hid.c:91-117).
KeepsServing ==
  /\ device = "configured" ~> armed \/ lost \/ device = "reset"
  /\ owed # 0 ~> owed = 0 \/ lost

=============================================================================
