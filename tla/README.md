# TLA+ verification of the H7S keyboard firmware

TLA+ models of the firmware's own control logic (USB polling mode, deferred
resets, write-behind EEPROM, factory reset, HID reports, VIA, ...), the TLC
configurations that check them on small instances, and TLAPS proofs for every
value of the constants.  Vendored code (QMK's quantum, lib8tion, the ST HAL) is
modelled only where the firmware's own control flow runs through it.  The build
considered is the brick60 board: ZD24C128 EEPROM, factory reset, USB monitor,
BootMode, kill switch, KKUK, tap dance and VIA all enabled.

Run from this directory:

    tlc -workers 2 -config UsbBootMode.cfg UsbBootMode
    tlapm UsbBootModeProofs.tla

## 1. The system

One main loop (`ap.c` apMain) runs for ever:

    cliUpdate; usbProcess; usbHidMonitorBackgroundService;
    qmkUpdate = { via_hid_task; keyboard_task; eeprom_task; idle_task }

Two interrupts run over it: the USB OTG_HS interrupt (SOF, data in and out,
suspend) and the TIM2 pulse (HID backup reports).  There is no RTOS: every race is
one of the main loop with an interrupt, or of the program with a reset or power cut.

| component | state it keeps | operations | talks to | hard part | correct when |
|---|---|---|---|---|---|
| BootMode and deferred reset (`usb.c`, `bootmode.c`, `usb_monitor.c`, `bootloader.c`) | three request slots, RAM copies of mode and monitor toggle, RTC boot word | apply, save, arm, confirm, expire, commit, grace reset, toggle | EEPROM, monitor (SOF), VIA, CLI | two contexts, one slot; wrapping deadlines; reset with a write queued | a downgrade needs two events; nothing of the monitor survives its switch; a reset waits its grace and comes; RAM and chip agree once nothing is queued |
| Write-behind EEPROM (`platforms/eeprom.c`, `zd24c128.c`, `qbuffer.c`) | RAM mirror, queue, chip | write, update, flush, re-init | everything that saves | torn pages, failing I2C, full queue, give-up | mirror = chip + queue; order kept; calls return; flush durable |
| Factory reset (`eeprom_auto_factory_reset.c`, `hw.c`, `eeconfig_port.c`, quantum `eeconfig.c`, `via.c`) | sentinel (flag, cookie), the user block, VIA's magic, keymap | check, retry, apply defaults, schedule a clear | EEPROM | power cut at any write, retries | never unasked, never half, ends |
| HID reports (`usbd_hid.c`) | endpoint state, two backup queues, report buffers | send, back up, data-in, TIM2 drain | host | unlocked test-and-set, overtaking | the host ends on the last state |
| Instability monitor (`usbd_hid.c`) | score, warm-up, hold-off, speed | SOF, suspend, resume, tick | BootMode | wrapping microseconds, speed changes | no score from a legal gap |
| VIA channel (`via_hid.c`, `usbd_hid.c`) | RX ring, response queue, pacing clock | receive, process, respond, re-arm | all settings | drop, re-arm only on answer | each accepted command is answered, the channel never goes deaf |
| Kill switch, KKUK (`kill_switch.c`, `kkuk.c`) | held flags, counters, config | key event, idle, VIA set | HID | live reconfiguration | no stuck key |
| Tap dance (`tapdance.c`, `process_tap_dance.c`) | per-dance state, the one active dance, one timer | press, release, term, interrupt, VIA set | HID | dances share a timer; live reconfiguration | a dance ends, and what it pressed is released |
| Debounce (`debounce_profile.c`, `debounce_runtime.c`, `*_pk.c`, `matrix.c`) | raw and debounced matrix, counters, profile | scan, time, VIA set | QMK | profile change between two scans, allocation failure | each mode keeps its promise; no edge is forgotten |
| RGB, CLI, log, drivers, USB stack | buffers, registers | I/O | | | not modelled |

PROJECT.json lists the components with their files and the hazards with the line
at which each bites and the properties that would catch it.

## 2. Plan

| order | module | what | abstract specification / composition | status |
|---|---|---|---|---|
| 1 | UsbBootMode | request slots, clock, SOF interrupt | takes the monitor's event and the EEPROM's delay as choices | done, safety proved |
| 2 | EepromStore | mirror, queue, chip | the mirror is the abstract store | done, order and durability proved |
| 3 | FactoryReset | boot and reset over the queue | refines the store to seven cells | done, safety proved |
| 4 | HidReports | direct send, backup queue, TIM2 | its rings implement the bounded queue ReportFifo | done, safety and the rings' refinement proved |
| 5 | ViaHid | RX ring, response ring, endpoint arming, pacing | the VIA transfers that HidReports takes as given; its rings are the bounded queues HidReports checks | done, safety proved |
| 6 | SofMonitor, MCSofMonitor | the scoring behind SofEvent and BackgroundEvent of UsbBootMode | what UsbBootMode answers to a request is a choice here, when a request comes is a choice there | done, safety proved |
| 7 | KillSwitch, Kkuk, TapDance | the key features, one module each | composed by KeyFeatures, with settings in MCKeyFeatures | done, safety proved |
| 8 | Debounce | matrix scan, three algorithms, runtime, profile | | done, safety proved |

Each of these modules but MCSofMonitor, MCKeyFeatures, ReportFifo and the three that
KeyFeatures composes has a module of theorems named after it (section 5).  Left to prove:
a refinement of EepromStore to an abstract key-value store.

## 3. Modules

### UsbBootMode
`pc` is the point of the main loop; each action is the code between two points at
which the SOF interrupt is looked at.  The three slots have the code's names and
fields.  `ProcessEntry` is usbProcess's snapshot, `ProcessApply`, `ProcessArmed`,
`ProcessExpire`, `ProcessCommit` its two services, `FireReset` the deferred reset.
The read of the deadline and the clearing of the slot are separate steps, and so
are the read of the stage by a main-loop request (`BackgroundEvent`) and what it
does with it (`BackgroundRequest`), because the interrupt can come between; the
interrupt itself (`SofEvent`) is not interrupted by the main loop.  `ViaToggle` ends
where the new value becomes visible, and `MonitorResetQueues` is the rest of it.
`armAge`, `resetAge`, `resetFor` are history.  The EEPROM is one slot `nvm` and a
flag `queued`.

### EepromStore
`eeprom_buf`, `write_q` and `chip`; a value is the number of the write it came
from.  `Chunk(n)` is the run one eeprom_update sends.  `PageWritten`, `PageTorn`
and `PageFailed` are the three ends of a transfer.  `WriteByte` with
`FullThenQueued`, `FullThenLate`, `FullFails`, `DirectWrite` is eeprom_write_byte;
the five `Flush` actions are eeprom_flush_pending; `Reinit` is every later
eeprom_init; `PowerCut` and `PowerCutTears` restart the MCU between and inside
transfers.  `lost` names the addresses the code has given up, `since` the last
write whose order is no longer claimed, `flushed` what a flush promised.

### FactoryReset
Seven cells stand for QMK's magic, the user block, flag, cookie, VIA's magic,
keymap and macros.  The routines are the lists of writes they make, in order,
and `todo` is what is left of the one that runs: a power cut or a failed flush can
come between any two.  `CheckFails/CheckPasses/CheckBegins`, `Fails`, `NextWrite`,
`FlushReturns`, `FlushGivesUp`, `ApplyDone`, `QmkInit` are the boot; `ClearFlag` and
`ClearCookie` the two direct writes of a VIA clear; `CliClear` and `KeyClear` the
clears that run in place; `Save` a setting the user changes.

### HidReports and ReportFifo
`state` is p_hhid->state, shared by both kinds of report.  A send call of the main
loop is `Send`, `Copy`, `CopyRest` (memcpy in two halves), `Test`, `Claim`,
`Transmit` or `Queue`, `Publish`: the points between them are where TIM2 (`Backup`,
`BackupLost`) and the USB interrupt (`DataIn`, `ViaIn`, `Suspend`, `Resume`,
`BusReset`, `HidInit`) can come.  A report is its number, a buffer two halves, an
endpoint (`ep`) the transfers it holds; `Loads` leaves open what the hardware does
with a transfer started over another.  `got` and `direct` are history.  ReportFifo is
the abstract bounded queue; the map to it is `Contents`.

### ViaHid
The OUT endpoint being `armed` is a permission to send.  `DataOut` uses it up and puts
the command in `rx` (or drops it, or nobody takes it: `lost`); the main loop's `Take`,
`Respond` and `Stamp` are via_hid_task, cut where the SOF interrupt can come; `Sof`
takes the oldest answer out of `tx`, puts it into the buffer it shares with the
commands and arms the endpoint; `Load` is the later pass of the interrupt that copies
the buffer to the FIFO, whatever it holds by then.  `Hook` is via_hid_init, which comes
after USB has been started.  A `patient` host waits for each answer, another does not.

### SofMonitor
`mon` is sof_monitor, `enum` is enum_monitor, `dev` the state of the device stack.
The pure operators are the functions of usbd_hid.c by their names without the prefix
(`ProcessDelta`, `CommitDowngrade`, `HandleSpeedChange`, ...), each on the record it
changes and the time it is given.  `Sof` is the interrupt; the background tick is
`BackgroundService`, `BackgroundTrack` (up to the test of the deadline),
`BackgroundDelta` (the read of prev_tick_us) and `BackgroundScore`, because the
interrupt can come between these.  All times are relative to the clock, and `Tick`
shifts them.  `h` is what the bus really did, in terms of silences; SOFs come no faster
than the bus's frames.  That a request is made at all is what UsbBootMode calls
SofEvent and BackgroundEvent.

### KillSwitch, Kkuk, TapDance, KeyFeatures
Each feature is a module of operators on the keyboard report (a set of keycodes) and
the changes of its own state; KeyFeatures calls them in the order in which
process_record_quantum, process_record_user and idle_task do.  `Press`, `Release`,
`DancePress`, `DanceRelease` are the key events, `tap_dance_task`, `KkukPulse` and
`KkukQuiet` the periodic tasks, `ViaSwitch`, `ViaKkuk`, `ViaDance` the settings VIA
changes at any time.  `report` is the report being built, `sent` the last the host got.

### Debounce
`Run` is one scan through the chosen algorithm: `Updated` ages the counters, `Transferred`
starts, cancels or applies, `LooksAgain` says when a scan without an edge still looks at
the switches.  What the three algorithms have in common is written once, with `Defer`,
`Eager` and `Asym` telling them apart.  `Scan` is matrix_scan with debounce(): the retry of
an allocation and the pass-through are its other two disjuncts.  `Apply` is
debounce_profile_apply_current and what the runtime does for it, the actions named after the
setters are VIA's.  `heap` counts blocks, `age` and `quiet` time samples and keys.

## 4. Runs

| run | shows | bounds |
|---|---|---|
| UsbBootMode | type, MonitorOffIsQuiet, ConfirmWindow, ModeCacheCoherent, ResetNotEarly, ResetServed, CommitServed hold | two modes (downgrade possible or not), a clock of 9 ticks that wraps many times, delays of one tick, a pass of at most one tick, one host command per task call |
| BootModeUserReset | a user's reset is withdrawn (finding) | grace 2 so that the toggle fits into it |
| EepromStore | Coherent, InOrder, FlushDurable, CallsReturn, Drains hold | three addresses on two pages, a queue of two, three writes, every transfer may fail |
| EepromOverflow | the direct write is overwritten by an older one (finding) | two addresses, four writes, no fault |
| FactoryReset | ResetOnlyWhenAsked, KeymapVouched, AppliedIsStored, BootEnds hold | three attempts as in the code, two restarts, two settings saved by the user, any transfer may fail |
| FactoryClear | a scheduled clear is skipped after a power cut (finding) | two restarts, no fault, only VIA clears |
| HidReports | TypeOK, NotWedged, KindsInOrder, BacklogDrains hold and both rings implement ReportFifo | both kinds of report, rings of three slots (two reports), four reports, VIA, suspends and resets |
| HidLost | a report is neither sent nor queued (finding) | keyboard reports only, no VIA, no reset, three reports, rings too large to fill |
| SofMonitor | ScoresBelowThreshold, AskedForCause (AskedAfterGaps and AskedAfterChanges), SilenceReported, Recovers hold | the code's constants scaled to units of a frame with their order kept (a score of one event below the threshold, two reach it, full speed stricter than high speed, the delay after a request longer than a stalled background tick), silences of up to six units; alternatives of five quiet units, four bus resets, one suspend, two toggles, and mixes |
| ViaHid | TypeOK, FlowControl, RightAnswers, KeepsServing hold | rings of two, five commands, four configurations (one more than fill a ring), a delay of two, empty packets |
| KeyFeatures | TypeOK, NoGhostKey, LastWins, RepeatsHeldKeys, DanceEnds hold | four plain keys, two dances with hold, double and plain actions, kill switches off, on, or two with a key in common; runs of up to five presses, of four taps, or shorter ones with taps or a changed setting among them |
| Debounce | TypeOK, NothingForgotten, Debounced, Settles hold | two switches, delays of one and two, scans up to three units apart, every sample, every profile, every allocation may fail |

Bounds are small because the interesting cases are: the clock must wrap (9 > twice
every delay and four times the longest pass, which are also the assumptions under which
signed differences mean anything), a page boundary must lie inside the address range, the queue must be
full, an attempt must fail and a restart must come before and after the sentinel, and
a ring must fill and wrap (four reports through three slots).
ViaHid needs more configurations than a ring has room for,
which is when a command can be dropped; two switches are enough for Debounce because a
switch affects another only through the two flags of the scan; and no property of the
monitor relates more than two bad intervals.
`CHECK_DEADLOCK FALSE`: in FactoryReset the program really stops, in main's LED loop; in
SofMonitor, ViaHid and KeyFeatures the budgets of the environment run out.

### Fairness
The main loop has no blocking call without a timeout, hence weak fairness of its
steps (UsbBootMode), of a call in progress (EepromStore `Call`) and of booting
(FactoryReset).  Time passes.  `Drains` needs strong fairness of a successful
transfer: a chip that fails for ever is a broken chip, and the code retries for ever.
In UsbBootMode the SOF interrupt, the host and power cuts are never fair.  In HidReports
the host polls its endpoints and TIM2 fires after every frame, so `DataIn` and `Backup`
are weakly fair while they stay possible; new reports, VIA, suspends and resets are not.
In ViaHid the main loop, the frames of a configured device and the host's polling are
weakly fair, commands, resets and configurations are not: a device nobody configures
serves nobody.  In SofMonitor only time and the background tick are; that frames come back
is a premise of Recovers, not an assumption.  In KeyFeatures tap_dance_task and the end of
a term are fair, the user's fingers are not.  In Debounce the scan of an unchanged matrix
and time are fair, and a successful allocation is not.

### Findings
Four disagreements of the code with its documents, each shown by a run that TLC
refutes: `UserResetKept` (usb.c:403), `NothingLost` (eeprom.c:311), `ClearCarriedOut`
(eeconfig_port.c:31), `SentOrQueued` (usbd_hid.c:1264).  PROJECT.json quotes the lines.  `ClearCarriedOut` also bites without a power cut: a flush that fails after the
sentinel landed makes the retry of hw.c:40 find it and report success.

Further observations, stated in the models as what the code does and excluded from the
properties by name:

- usb.c:208, 415-438: the deferred reset does not look at the EEPROM queue, so it may come
  while the new mode is queued, and the mode is lost; features_bootmode.md:51 says the
  store writes at once.  (`Restart` with `queued`; ModeCacheCoherent is what remains true.)
- usbd_hid.c:1125, via_hid.c:75, hw.c:145: a VIA packet that is empty, or comes before
  via_hid_init, leaves the OUT endpoint unarmed until the next configuration (`lost`).
- usbd_hid.c:683: the VIA rings survive a re-configuration, so that the first answers of a new
  session may be to commands of the old one; RightAnswers claims the exact answer up to the
  first re-configuration only.
- usbd_hid.c:1240-1247: a SOF between the write of an answer and the stamp of its time sends
  the answer without its 20 ms; nothing depends on it.
- usbd_hid.c:1357: SOFs reach the class only while the device is configured, so a
  re-enumeration at the same speed and a resume restart neither the hold-off nor the warm-up,
  and the gap is scored; features_instability_monitor.md:49 describes a hold-off right after every
  configuration.  The branch for a suspended device (1400-1422) runs only when a bus reset ends
  a suspend.
- usbd_hid.c:1933: a background tick that a SOF overtook between its deadline check and its
  scoring stores the older now_us as prev_tick_us, and the next healthy interval may seem
  too long; one point follows at most, never a request (`Still`, section 5).
- usbd_hid.c:1923: a bus that falls silent during the warm-up is never reported.
- process_tap_dance.c:125: a dance that ends on its release clears active_td of another one,
  which then waits for its own next press (`disarmed`).
- kill_switch.c:255: a kill switch changed under a held key leaves a flag that can later put
  back a key nobody holds (`edited`).
- debounce_runtime.c:259: a profile change drops the counters, and an edge on its way is
  forgotten until some switch moves (`unseen`).  The status VIA reads stays "error" after a
  retry from the scan has succeeded.

## 5. Proofs

| module | theorem | argument |
|---|---|---|
| UsbBootModeProofs | TypeCorrect, OffIsQuiet, CacheCoherent, ConfirmedInWindow, NeverEarly | `IInv` = TypeOK, RequestReady (the slot's stage and its next mode belong together), QuietIsOff (the point between the toggle and its clean-up is reached only with the monitor off), MonitorOffIsQuiet, ModeCacheCoherent, and for the times ResetDeadline and Window. OffIsQuiet alone is not inductive: an enabled monitor may have armed a request just before the toggle, so the invariant must say that the clean-up comes before any other point of the loop is reached. The two properties about times speak of how long a request has waited, which the code does not know; ResetDeadline and Window state each of its deadlines as the clock plus what remains of the wait, modulo the clock's width, and say at which points of a pass an unconfirmed request may be how old. |
| EepromStoreProofs | TypeCorrect, MirrorCoherent | `IInv` = TypeOK, WaitingOK (the write that waits is the latest one), BlankIsLost, Coherent. The core is a lemma on `Settles`: taking a run off the queue and programming it leaves the value each address settles to unchanged. |
| EepromStoreProofs | LandsInOrder, FlushIsDurable | `Ordered`: queued numbers are bounded by the number of writes, increase along the queue, and whatever has left the queue is on the chip or superseded. From it, what lands is older than all that remains queued. |
| FactoryResetProofs | TypeCorrect, OnlyWhenAsked, MagicVouches, DoneIsStored | A write is followed from `todo` through mirror and queue to the chip: `Reach` says what a cell holds after part of such a list. `Inv` = Typing, Resting (which lists are empty where), Mirroring (chip and queue make the mirror), Vouching (wherever VIA's magic is valid, under way or to be written, keymap and macros are before it), Applying (while a reset runs, what the rest of it will write is the defaults and the sentinel) and Unasked (until somebody asks: flag, magic and sentinel agree). None of the properties is inductive alone, because what they say of the chip was decided when the routine was started; and a torn run must leave a state in which the same holds of what is still queued. |
| HidReportsProofs | TypeCorrect, NeverWedged | TypeOK is inductive: each index moves by `Following`, which stays inside the ring. NotWedged is inductive relative to it: whoever makes the state BUSY has filled an endpoint (`LoadsType`: a transfer never leaves it empty) or is at `transmit`, and whoever empties one makes the state IDLE or resets the device. |
| HidReportsProofs | RingsKeepFifo | a refinement, step by step: writing the free slot leaves `Contents` alone, publishing the index appends, taking is Tail, and anything else stutters, whichever of the two is half-way. The theorem is about a firmware with both kinds of report, since the property names both rings. |
| HidReportsProofs | KindsStayInOrder | JobReady (what the unfinished call holds), WireOrder (delivered, in the endpoint, in the buffer and in the ring: direct and queued reports each ascend) and BufferFits (the shared buffer may hold a newer report only while its owner is about to send it). |
| ViaHidProofs | TypeCorrect, NeverDeaf | permissions are conserved: each action moves one between `armed`, `rx`, `job` and `tx`. To be inductive it needs that a device that is not configured has nothing armed, and that before via_hid_init `rx` is empty (`Silent`). |
| ViaHidProofs | AnswersAreRight | Ordered: commands and answers ascend from `rx` through the command in work, `tx` and the buffer to the endpoint. OneAtATime: with a patient host and a single configuration exactly one of these places is taken, so nothing overwrites the shared buffer. |
| KeyFeaturesProofs | TypeCorrect, NoGhosts, LastPressed, RepeatsHeld | `Inv` = TypeOK, Dancing (no key is held twice, only finished dances remember a keycode, the host has the report being built) and, while no setting changed under a held key, FlagsAgree (the kill switch's flags are the keys held), CountAgrees (KKUK counts no key that is not held), Explained (each key of the report is held or remembered by a dance) and Separated (of two opposed held keys the last is reported, the other is not). The properties need all of them at once: a release puts back the other key because its flag says it is held. |
| DebounceProofs | TypeCorrect, EdgesAreKept | `Counting` (a counter that runs has set counters_need_update) makes NothingForgotten inductive; a switch that moves makes the scan look at all of them, and one whose time is over was either applied, or makes the scan look again. For the blocks: whoever starts an algorithm has freed its block before. |
| DebounceProofs | TimesAreKept | `Timing` relates each counter and the time since the last scan to how long switch and key have rested: a counter never has run for longer than that. A change of profile resets the counters, so it holds again at once. |
| SofMonitorProofs | ThresholdsHold | `Inv` = the types and `Below`: no score is at the threshold of the speed the monitor knows. It survives a new speed because score is cleared and slow_score eased by one, and the two speeds' thresholds differ by one at most (4 and 3 in the code): with a larger difference the code would be wrong. |
| SofMonitorProofs | CausesAreReal | For the gaps, `GapInv` relates the scores to the history. `Uncaused`: with neither close gaps nor a long one, the fast score is at most one event's cap and the slow score at most one, and the healthy time since is less than they take to decay, counted from the times of the last decays (`FastRoom`, `SlowRoom`). A second gap then comes either late enough to find no points, or counts as close. `PrevKept` and `NoSofKept` say how far prev_tick_us and the no-SOF deadline may be behind the last SOF: by one unit, after a tick that was overtaken, and only while there are no points to add to (`Still`). `LateKept` says what such a tick finds: the bus still silent (`Silent`), or a SOF that came between (`Overtaken`), whose hold-off or fresh slow point keeps it from scoring the gap again without cause. For the changes it is ChangesAreCounted. |
| SofMonitorProofs | ChangesAreCounted | `Account`, a full window's worth for each point of the persistent score plus the two counts, never exceeds the changes there were since the last request, or they were enough: a window that fills moves its count into the score, one that runs out and a first SOF only take away, and a request clears all. It needs that the monitor knows a speed once it saw a SOF (`Heard`). |

Assumptions: the ASSUMEs of the modules.  Sizes are positive; the clock of UsbBootMode is
wider than twice its delays and than four of its passes; NoCode is no key; in SofMonitor
each interval's cap is below the threshold, the speeds' slow thresholds differ by one at
most, the delays that hold the scoring off are not empty (50 ms, 2 s and 50 ms), one slow
point is below its threshold (4 and 3) and does not decay within one unit (12 and 60 ms), the
no-SOF timeout (64 frames) is longer than an interval that is scored, the bounds of the
times leave room for these, the thresholds of the counts fit their eight bits and the longest delay is shorter
than the clock; RingsKeepFifo assumes both kinds of report.  All of them hold of the
code's constants, and TLC evaluates them in the runs.

Model-checked only: every liveness property (ResetServed, CommitServed, CallsReturn,
Drains, BootEnds, BacklogDrains, SilenceReported, Recovers, KeepsServing, DanceEnds,
Settles), because the prover has no liveness under fairness; and the four
findings, which are counterexamples.  Every other property of a passing run is a theorem.

## 6. Not modelled

report_exk_q is created with the element size of report_q (usbd_hid.c:689), so its copies
are longer than its elements; the rings of HidReports hold whole reports.  A newer
direct report may overtake older queued ones: no document promises an order across
the two, and none is claimed.  In SofMonitor micros() does not wrap and never reads 0 (the code compares deadlines with <,
usbd_hid.c:1494, and takes 0 for unset); in ViaHid suspends only stop the frames.  Modifiers, layers,
tap-hold keys, the stored copies of the key features' settings and the values of their
times are left out.  The 100 us slice of eeprom_update, the counters the CLI prints, log texts and the layout of the slots are left out.
Drivers and the USB stack are pure I/O.  RGB, the indicators, the CLI and the rest of QMK
keep no state that another component depends on in a way worth checking.  The vendored HAL, CMSIS
and device stack are by far most of the repository's lines; they are register access and
external here.
