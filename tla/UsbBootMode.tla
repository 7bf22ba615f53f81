---------------------------- MODULE UsbBootMode ----------------------------
(***************************************************************************)
(* The BootMode control plane of src/src/hw/driver/usb/usb.c: which USB    *)
(* polling mode the keyboard boots with, and who may reset it.             *)
(*                                                                         *)
(* Three request slots are shared by the main loop and the USB interrupt:  *)
(*   boot_mode_apply_request  the user's mode change (VIA, via_hid_task)   *)
(*   boot_mode_request        the instability monitor's downgrade, armed   *)
(*                            and confirmed from the SOF interrupt         *)
(*   usb_reset_request        the deferred reset every change ends in      *)
(* The main loop (apMain) runs  cli, usbProcess, monitor background tick,  *)
(* via_hid_task, eeprom_task  over and over; `pc' is the point it is at,   *)
(* and SofEvent is the interrupt, enabled at every such point.             *)
(*                                                                         *)
(* Abstractions                                                            *)
(*  - millis() is a counter modulo Wrap (2^32 in the code); deadlines are  *)
(*    compared as the code does, by the sign of the wrapped difference.    *)
(*  - the main loop is assumed to start a pass at least every MaxLag ticks *)
(*    (`lag' is the age of the running pass).                              *)
(*  - the EEPROM write queue is reduced to its effect on the mode's slot:  *)
(*    nvm is what the chip holds, and eeprom_task may or may not bring it  *)
(*    up to date with the RAM copy (module EepromStore has the queue).     *)
(*    Which value of the monitor toggle survives a reset is left open.     *)
(*  - the monitor's scoring is an event at any time (module SofMonitor).   *)
(*  - modes are 0..NModes-1 in polling order, FS_1K = 0.                   *)
(***************************************************************************)
EXTENDS Integers

CONSTANTS
  NModes,     \* USB_BOOT_MODE_MAX
  Default,    \* USB_BOOT_MODE_DEFAULT_VALUE, per board
  Wrap,       \* the width of millis()
  Confirm,    \* USB_BOOT_MONITOR_CONFIRM_DELAY_MS
  Grace,      \* USB_BOOTMODE_APPLY_GRACE_MS = USB_RESET_RESPONSE_GRACE_MS
  MaxLag,     \* bound: ticks one pass of the main loop may take
  MaxCmds     \* bound: host commands one via_hid_task call serves

Mode == 0 .. NModes - 1

ASSUME ModesAssumption == NModes \in Nat \ {0} /\ Default \in Mode
ASSUME ClockAssumption ==
  /\ Wrap \in Nat \ {0} /\ Confirm \in Nat /\ Grace \in Nat
  /\ MaxLag \in Nat /\ MaxCmds \in Nat
  /\ 2 * (2 * Confirm + MaxLag + 1) < Wrap
  /\ 2 * (Grace + MaxLag + 1) < Wrap
  /\ 4 * MaxLag < Wrap

Corrupt == NModes  \* any stored value >= USB_BOOT_MODE_MAX

VARIABLES
  now,                      \* millis()
  lag,                      \* ticks since the main loop's pass began
  pc,                       \* where the main loop is
  cmds,                     \* host commands left in this via_hid_task call
  snap,                     \* usbProcess's three entry snapshots
  seen,                     \* the stage a main-loop downgrade request has read
  usb_boot_mode,            \* RAM cache of the mode
  usb_instability_enabled,  \* RAM cache of the monitor toggle
  nvm,                      \* the EEPROM slot of usb_boot_mode
  queued,                   \* a write of that slot waits in the EEPROM queue
  rtc_boot_mode,            \* HW_RTC_BOOT_MODE: "app" or "boot"
  boot_mode_apply_request,
  boot_mode_request,
  usb_reset_request,
  armAge,                   \* history: ticks from ARMED to COMMIT
  resetAge,                 \* history: ticks since the reset became pending
  resetFor                  \* history: who asked for the pending reset

requests == <<boot_mode_apply_request, boot_mode_request, usb_reset_request>>
caches   == <<usb_boot_mode, usb_instability_enabled>>
storage  == <<nvm, queued>>
clock    == <<now, lag>>
resetHistory == <<resetAge, resetFor>>
vars == <<clock, pc, cmds, snap, seen, caches, storage, rtc_boot_mode,
          requests, armAge, resetHistory>>

-----------------------------------------------------------------------------
(* Clock arithmetic *)

Plus(t, d) == (t + d) % Wrap

\* (int32_t)(t - u) >= 0
Reached(t, u) == 2 * ((t - u) % Wrap) < Wrap

\* (int32_t)(t - u) > 0
After(t, u) == t # u /\ Reached(t, u)

-----------------------------------------------------------------------------
(* The request slots *)

NoRequest == [stage |-> "IDLE", next_mode |-> 0, ready_ms |-> 0, timeout_ms |-> 0]

NoReset == [pending |-> FALSE, from_monitor |-> FALSE, ready_ms |-> 0]

NoSnapshot == [apply |-> FALSE, monitor |-> FALSE, reset |-> FALSE]

\* Mutant: the reset is due at once.
GraceResetAtOnce(r) ==
  IF r.pending THEN r ELSE [pending |-> TRUE, from_monitor |-> FALSE, ready_ms |-> now]

\* Mutant: every request pushes the deadline back.
GraceResetPostponed(r) ==
  [r EXCEPT !.pending = TRUE, !.ready_ms = Plus(now, Grace)]

\* usbScheduleGraceReset: the first request fixes the origin flag, a later one
\* can only bring the deadline forward.
GraceReset(r) ==
  LET ready == Plus(now, Grace) IN
  IF r.pending
  THEN [r EXCEPT !.ready_ms = IF After(@, ready) THEN ready ELSE @]
  ELSE [pending |-> TRUE, from_monitor |-> FALSE, ready_ms |-> ready]

\* The history of a reset request made on behalf of who.
NoteReset(who) ==
  /\ resetAge' = IF usb_reset_request.pending THEN resetAge ELSE 0
  /\ resetFor' = (IF usb_reset_request.pending THEN resetFor ELSE {}) \cup {who}

\* usbRequestBootModeDowngrade, given the stage the caller has read.
Requested(req, stage, mode) ==
  CASE stage = "IDLE" ->
         [stage |-> "ARMED", next_mode |-> mode,
          ready_ms |-> Plus(now, Confirm), timeout_ms |-> Plus(now, 2 * Confirm)]
    [] stage = "ARMED" ->
         [req EXCEPT !.next_mode = mode,
                     !.stage = IF Reached(now, req.ready_ms) THEN "COMMIT" ELSE @]
    [] OTHER -> req

\* Mutant: the downgrade is not bounded below.
HasTargetAlways == TRUE

\* usbHidResolveDowngradeTarget: one step down, none below full speed.
HasTarget == usb_boot_mode > 0

Target == usb_boot_mode - 1

-----------------------------------------------------------------------------
(* Boot *)

\* hwInit loads both caches from the chip; a slot out of range reads as the
\* default, whose repair is queued and then dropped by qmkInit's eeprom_init.
Loaded(stored) == IF stored \in Mode THEN stored ELSE Default

Init ==
  /\ nvm \in Mode \cup {Corrupt}
  /\ queued = FALSE
  /\ usb_boot_mode = Loaded(nvm)
  /\ usb_instability_enabled \in BOOLEAN
  /\ boot_mode_apply_request = [pending |-> FALSE, mode |-> Default]
  /\ boot_mode_request = NoRequest
  /\ usb_reset_request = NoReset
  /\ rtc_boot_mode = "app"
  /\ snap = NoSnapshot /\ seen = "IDLE"
  /\ now = 0 /\ lag = 0 /\ pc = "cli" /\ cmds = 0
  /\ armAge = 0 /\ resetAge = 0 /\ resetFor = {}

\* Any reset: RAM is lost with the writes still queued, the chip keeps nvm, and
\* the boot-mode register is consumed (a bootloader session ends in the app).
Restart ==
  /\ usb_boot_mode' = Loaded(nvm)
  /\ usb_instability_enabled' \in BOOLEAN
  /\ queued' = FALSE
  /\ boot_mode_apply_request' = [pending |-> FALSE, mode |-> Default]
  /\ boot_mode_request' = NoRequest
  /\ usb_reset_request' = NoReset
  /\ rtc_boot_mode' = "app"
  /\ snap' = NoSnapshot /\ seen' = "IDLE"
  /\ now' = 0 /\ lag' = 0 /\ pc' = "cli" /\ cmds' = 0
  /\ armAge' = 0 /\ resetAge' = 0 /\ resetFor' = {}
  /\ UNCHANGED nvm

-----------------------------------------------------------------------------
(* Steps of the main loop *)

\* Mutant: the write is queued only while none is.
StoreOnce(mode) ==
  /\ usb_boot_mode' = mode
  /\ queued' = (~queued /\ usb_boot_mode # mode)

\* usbBootModeStore: nothing when the cache agrees, else the cache changes and
\* the write joins the EEPROM queue.
Store(mode) ==
  /\ usb_boot_mode' = mode
  /\ queued' = (queued \/ usb_boot_mode # mode)

\* usbBootModeSaveAndReset
SaveAndReset(mode, who, reset) ==
  /\ Store(mode)
  /\ usb_reset_request' = reset
  /\ NoteReset(who)

\* cliUpdate: `boot set <mode>', or nothing.
CliBootSet(mode) ==
  /\ pc = "cli" /\ pc' = "process"
  /\ SaveAndReset(mode, "user", GraceReset(usb_reset_request))
  /\ UNCHANGED <<clock, cmds, snap, seen, usb_instability_enabled, nvm,
                 rtc_boot_mode, boot_mode_apply_request, boot_mode_request, armAge>>

CliIdle ==
  /\ pc = "cli" /\ pc' = "process"
  /\ UNCHANGED <<clock, cmds, snap, seen, caches, storage, rtc_boot_mode,
                 requests, armAge, resetHistory>>

\* Mutant: the snapshot looks for an armed request only.
ProcessEntryArmedOnly ==
  /\ pc = "process" /\ pc' = "apply"
  /\ snap' = [apply   |-> boot_mode_apply_request.pending,
              monitor |-> usb_instability_enabled /\ boot_mode_request.stage = "ARMED",
              reset   |-> usb_reset_request.pending]
  /\ UNCHANGED <<clock, cmds, seen, caches, storage, rtc_boot_mode,
                 requests, armAge, resetHistory>>

\* usbProcess reads the three slots once, and serves only what it saw.
ProcessEntry ==
  /\ pc = "process" /\ pc' = "apply"
  /\ snap' = [apply   |-> boot_mode_apply_request.pending,
              monitor |-> usb_instability_enabled /\ boot_mode_request.stage # "IDLE",
              reset   |-> usb_reset_request.pending]
  /\ UNCHANGED <<clock, cmds, seen, caches, storage, rtc_boot_mode,
                 requests, armAge, resetHistory>>

\* usbProcessBootModeApply
ProcessApply ==
  /\ pc = "apply" /\ pc' = "downgrade"
  /\ IF snap.apply /\ boot_mode_apply_request.pending
     THEN /\ boot_mode_apply_request' = [boot_mode_apply_request EXCEPT !.pending = FALSE]
          /\ SaveAndReset(boot_mode_apply_request.mode, "user", GraceReset(usb_reset_request))
     ELSE UNCHANGED <<boot_mode_apply_request, usb_boot_mode, queued,
                      usb_reset_request, resetHistory>>
  /\ UNCHANGED <<clock, cmds, snap, seen, usb_instability_enabled, nvm,
                 rtc_boot_mode, boot_mode_request, armAge>>

\* Mutant: an armed request has no deadline.
ProcessArmedForever ==
  /\ pc = "downgrade" /\ pc' = "reset"
  /\ ~snap.monitor \/ boot_mode_request.stage # "COMMIT"
  /\ UNCHANGED <<clock, cmds, snap, seen, caches, storage, rtc_boot_mode,
                 requests, armAge, resetHistory>>

\* usbProcessBootModeDowngrade, ARMED: the deadline is read here and, if it has
\* passed, the slot is cleared in a step of its own (ProcessExpire), so that an
\* interrupt can come between.
ProcessArmed ==
  /\ pc = "downgrade"
  /\ ~snap.monitor \/ boot_mode_request.stage # "COMMIT"
  /\ pc' = IF /\ snap.monitor
              /\ boot_mode_request.stage = "ARMED"
              /\ Reached(now, boot_mode_request.timeout_ms)
           THEN "expire" ELSE "reset"
  /\ UNCHANGED <<clock, cmds, snap, seen, caches, storage, rtc_boot_mode,
                 requests, armAge, resetHistory>>

\* usbBootModeRequestReset after the deadline.
ProcessExpire ==
  /\ pc = "expire" /\ pc' = "reset"
  /\ boot_mode_request' = NoRequest
  /\ armAge' = 0
  /\ UNCHANGED <<clock, cmds, snap, seen, caches, storage, rtc_boot_mode,
                 boot_mode_apply_request, usb_reset_request, resetHistory>>

\* usbProcessBootModeDowngrade, COMMIT: store, schedule, and mark the pending
\* reset (whoever it was for) as the monitor's.
ProcessCommit ==
  /\ pc = "downgrade" /\ pc' = "reset"
  /\ snap.monitor /\ boot_mode_request.stage = "COMMIT"
  /\ SaveAndReset(boot_mode_request.next_mode, "monitor",
                  [GraceReset(usb_reset_request) EXCEPT !.from_monitor = TRUE])
  /\ boot_mode_request' = NoRequest
  /\ armAge' = 0
  /\ UNCHANGED <<clock, cmds, snap, seen, usb_instability_enabled, nvm,
                 rtc_boot_mode, boot_mode_apply_request>>

ResetDue ==
  snap.reset /\ usb_reset_request.pending /\ Reached(now, usb_reset_request.ready_ms)

\* usbProcessDeferredReset: detach from the host and reset the chip.
FireReset ==
  /\ pc = "reset" /\ ResetDue
  /\ Restart

ProcessDone ==
  /\ pc = "reset" /\ ~ResetDue /\ pc' = "background"
  /\ snap' = NoSnapshot
  /\ UNCHANGED <<clock, cmds, seen, caches, storage, rtc_boot_mode,
                 requests, armAge, resetHistory>>

\* usbHidMonitorBackgroundService: the tick may decide on a downgrade from the
\* main loop (at most one: enumeration events need a device that is not
\* configured, a missing SOF one that is); usbRequestBootModeDowngrade reads the
\* stage (here) and then acts on what it read (BackgroundRequest).
BackgroundEvent ==
  /\ pc = "background" /\ pc' = "request"
  /\ usb_instability_enabled /\ HasTarget
  /\ seen' = boot_mode_request.stage
  /\ UNCHANGED <<clock, cmds, snap, caches, storage, rtc_boot_mode,
                 requests, armAge, resetHistory>>

\* What a request does to the slot and to its history.
RequestDowngrade(stage) ==
  /\ boot_mode_request' = Requested(boot_mode_request, stage, Target)
  /\ armAge' = IF stage = "IDLE" THEN 0 ELSE armAge

BackgroundRequest ==
  /\ pc = "request" /\ pc' = "via"
  /\ RequestDowngrade(seen)
  /\ seen' = "IDLE" /\ cmds' = MaxCmds
  /\ UNCHANGED <<clock, snap, caches, storage, rtc_boot_mode,
                 boot_mode_apply_request, usb_reset_request, resetHistory>>

BackgroundDone ==
  /\ pc = "background" /\ pc' = "via"
  /\ cmds' = MaxCmds
  /\ UNCHANGED <<clock, snap, seen, caches, storage, rtc_boot_mode,
                 requests, armAge, resetHistory>>

\* One host command of via_hid_task.
HostCommand ==
  /\ pc = "via" /\ cmds > 0 /\ cmds' = cmds - 1

\* VIA channel 13, value 2: usbBootModeScheduleApply.
ViaApply(mode) ==
  /\ HostCommand /\ pc' = pc
  /\ boot_mode_apply_request' = [pending |-> TRUE, mode |-> mode]
  /\ UNCHANGED <<clock, snap, seen, caches, storage, rtc_boot_mode,
                 boot_mode_request, usb_reset_request, armAge, resetHistory>>

\* VIA channel 13, value 3: usbInstabilityStore, up to the point where the new
\* value is visible to the interrupt. Switching off goes on in MonitorResetQueues.
ViaToggle(enable) ==
  /\ HostCommand
  /\ usb_instability_enabled # enable
  /\ usb_instability_enabled' = enable
  /\ pc' = IF enable THEN "via" ELSE "quiet"
  /\ UNCHANGED <<clock, snap, seen, usb_boot_mode, storage, rtc_boot_mode,
                 requests, armAge, resetHistory>>

\* Mutant: a reset the monitor has scheduled is left pending.
MonitorResetRequestOnly ==
  /\ pc = "quiet" /\ pc' = "via"
  /\ boot_mode_request' = NoRequest
  /\ armAge' = 0
  /\ UNCHANGED <<clock, cmds, snap, seen, caches, storage, rtc_boot_mode,
                 boot_mode_apply_request, usb_reset_request, resetHistory>>

\* usbMonitorResetQueues
MonitorResetQueues ==
  /\ pc = "quiet" /\ pc' = "via"
  /\ boot_mode_request' = NoRequest
  /\ armAge' = 0
  /\ IF usb_reset_request.from_monitor
     THEN /\ usb_reset_request' = NoReset
          /\ resetAge' = 0 /\ resetFor' = {}
     ELSE UNCHANGED <<usb_reset_request, resetHistory>>
  /\ UNCHANGED <<clock, cmds, snap, seen, caches, storage, rtc_boot_mode,
                 boot_mode_apply_request>>

\* bootloader_jump_deferred (VIA "jump to bootloader") and mcu_reset_deferred
\* (EEPROM clear, QK_REBOOT): write the boot-mode register, then ask for a reset.
ViaReset(bootMode) ==
  /\ HostCommand /\ pc' = pc
  /\ rtc_boot_mode' = bootMode
  /\ usb_reset_request' = GraceReset(usb_reset_request)
  /\ NoteReset("user")
  /\ UNCHANGED <<clock, snap, seen, caches, storage, boot_mode_apply_request,
                 boot_mode_request, armAge>>

ViaDone ==
  /\ pc = "via" /\ pc' = "eeprom"
  /\ cmds' = 0
  /\ UNCHANGED <<clock, snap, seen, caches, storage, rtc_boot_mode,
                 requests, armAge, resetHistory>>

\* eeprom_task: the queued write reaches the chip or stays queued (others are
\* ahead of it, or the chip is busy), and the pass ends.
EepromTask(written) ==
  /\ pc = "eeprom" /\ pc' = "cli"
  /\ written => queued
  /\ nvm' = IF written THEN usb_boot_mode ELSE nvm
  /\ queued' = (queued /\ ~written)
  /\ lag' = 0
  /\ UNCHANGED <<now, cmds, snap, seen, caches, rtc_boot_mode, requests, armAge, resetHistory>>

MainStep ==
  \/ \E m \in Mode : CliBootSet(m)
  \/ CliIdle
  \/ ProcessEntry \/ ProcessApply
  \/ ProcessArmed \/ ProcessExpire \/ ProcessCommit
  \/ FireReset \/ ProcessDone
  \/ BackgroundEvent \/ BackgroundRequest \/ BackgroundDone
  \/ \E m \in Mode : ViaApply(m)
  \/ \E b \in BOOLEAN : ViaToggle(b)
  \/ MonitorResetQueues
  \/ \E b \in {"app", "boot"} : ViaReset(b)
  \/ ViaDone
  \/ \E w \in BOOLEAN : EepromTask(w)

-----------------------------------------------------------------------------
(* The interrupt, the clock and the power supply *)

\* The SOF interrupt decides on a downgrade (usbHidMonitorCommitDowngrade).
SofEvent ==
  /\ usb_instability_enabled /\ HasTarget
  /\ RequestDowngrade(boot_mode_request.stage)
  /\ UNCHANGED <<clock, pc, cmds, snap, seen, caches, storage, rtc_boot_mode,
                 boot_mode_apply_request, usb_reset_request, resetHistory>>

\* Bounds: the ages saturate where the properties stop telling them apart.
ArmCap   == 2 * Confirm + 2 * MaxLag + 1
ResetCap == Grace

Older(age, cap) == IF age < cap THEN age + 1 ELSE age

Tick ==
  /\ lag < MaxLag
  /\ lag' = lag + 1
  /\ now' = Plus(now, 1)
  /\ armAge' = IF boot_mode_request.stage = "ARMED" THEN Older(armAge, ArmCap) ELSE armAge
  /\ resetAge' = IF usb_reset_request.pending THEN Older(resetAge, ResetCap) ELSE resetAge
  /\ UNCHANGED <<pc, cmds, snap, seen, caches, storage, rtc_boot_mode,
                 requests, resetFor>>

\* Unplugged, or reset by pin.
PowerCut == Restart

Next == MainStep \/ SofEvent \/ Tick \/ PowerCut

Spec == Init /\ [][Next]_vars

\* The main loop never stops, and time passes.
FairSpec == Spec /\ WF_vars(MainStep) /\ WF_vars(Tick)

-----------------------------------------------------------------------------
(* Properties *)

Stage == {"IDLE", "ARMED", "COMMIT"}
Tick0 == 0 .. Wrap - 1

Pc == {"cli", "process", "apply", "downgrade", "expire", "reset", "background",
       "request", "via", "quiet", "eeprom"}

\* Every variable holds a value of its C type that the code gives it.
TypeOK ==
  /\ now \in Tick0 /\ lag \in 0 .. MaxLag
  /\ pc \in Pc /\ cmds \in 0 .. MaxCmds
  /\ snap \in [apply : BOOLEAN, monitor : BOOLEAN, reset : BOOLEAN]
  /\ seen \in Stage
  /\ usb_boot_mode \in Mode /\ usb_instability_enabled \in BOOLEAN
  /\ nvm \in Mode \cup {Corrupt} /\ queued \in BOOLEAN
  /\ rtc_boot_mode \in {"app", "boot"}
  /\ boot_mode_apply_request \in [pending : BOOLEAN, mode : Mode]
  /\ boot_mode_request \in
       [stage : Stage, next_mode : Mode, ready_ms : Tick0, timeout_ms : Tick0]
  /\ usb_reset_request \in
       [pending : BOOLEAN, from_monitor : BOOLEAN, ready_ms : Tick0]
  /\ armAge \in 0 .. ArmCap /\ resetAge \in 0 .. ResetCap
  /\ resetFor \in SUBSET {"user", "monitor"}

\* Once the monitor is switched off and usbInstabilityStore has returned, no
\* downgrade is armed or committed and no reset marked as the monitor's is
\* pending: an interrupt that slips in while the toggle is being processed
\* cannot leave one behind (usb.c:117-127, 522-540).
MonitorOffIsQuiet ==
  ~usb_instability_enabled /\ pc # "quiet" =>
    /\ boot_mode_request.stage = "IDLE"
    /\ ~usb_reset_request.from_monitor

\* The confirmation window, however the clock wraps and whoever armed the request,
\* main loop or interrupt: a downgrade is committed only when a second event comes
\* at least the confirm delay after the one that armed it (usb.c:294-333), and an
\* unconfirmed one does not outlive its window: after twice the confirm delay the
\* main loop drops it within two of its passes (usb.c:381-384).
ConfirmWindow ==
  /\ boot_mode_request.stage = "COMMIT" => armAge >= Confirm
  /\ boot_mode_request.stage = "ARMED" => armAge <= 2 * Confirm + 2 * MaxLag

\* No deferred reset comes before the grace of the request that made it pending:
\* the answer to that host command has had time to leave (usb.c:269-291).
ResetNotEarly == [][FireReset => resetAge >= Grace]_vars

\* RAM and chip agree on the mode unless a write is queued, or the slot holds
\* garbage that reads as the default (usb.c:154-174, 202-215, 248-261).
ModeCacheCoherent ==
  ~queued => usb_boot_mode = Loaded(nvm)

\* A pending reset is carried out or withdrawn, although the sources keep asking
\* and may push the deadline (usb.c:269-291, 415-438).
ResetServed == usb_reset_request.pending ~> ~usb_reset_request.pending

\* A committed downgrade does not stay committed: the main loop's snapshot, taken
\* before the interrupt may commit it, must not overlook it for ever
\* (usb.c:387-407, 474-509).
CommitServed == boot_mode_request.stage = "COMMIT" ~> boot_mode_request.stage = "IDLE"

\* usb.c:70 "identifies a reset the USB monitor caused"; features_bootmode.md:108
\* "the moment 1 is written ... a reset is scheduled": a pending reset that the
\* user asked for is withdrawn by nothing but the restart itself.
UserResetKept ==
  [][ /\ "user" \in resetFor
      /\ usb_reset_request.pending /\ ~usb_reset_request'.pending
      => FireReset \/ PowerCut ]_vars

=============================================================================
