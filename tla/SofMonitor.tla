---------------------------- MODULE SofMonitor ----------------------------
(***************************************************************************)
(* The USB instability monitor of usbd_hid.c: it watches the start-of-     *)
(* frame interrupts (SOF), the enumeration and the suspends of the bus,    *)
(* keeps scores of what looks unstable, and asks for a slower polling mode *)
(* when a score reaches its threshold.                                     *)
(*                                                                         *)
(* Two actors share the monitor's state with no lock: the SOF interrupt    *)
(* (USBD_HID_SOF -> usbHidMonitorSof) and the main loop's background tick  *)
(* (usbHidMonitorBackgroundTick), which looks for SOFs that stopped coming *)
(* and for enumerations that do not finish.                                *)
(*                                                                         *)
(* Abstractions                                                            *)
(*  - timestamps and deadlines are kept relative to micros(): the clock is *)
(*    always 0, a deadline ahead is positive, a timestamp behind negative, *)
(*    and Tick shifts them all; whatever is older than Floor is alike.     *)
(*    Differences are unsigned as in the code (Sub), so a timestamp ahead  *)
(*    of the one it is subtracted from gives a huge interval.  That        *)
(*    micros() itself wraps every 71 minutes is left out, and so is its    *)
(*    taking the value 0 that marks an unset timestamp.                    *)
(*  - the main loop begins one background tick per unit of time.           *)
(*  - an interrupt comes between the tick's deadline check, its reading of *)
(*    prev_tick_us and its scoring, not inside one of these three steps.   *)
(*  - what usbRequestBootModeDowngrade answers is open (UsbBootMode models *)
(*    it); the boot mode does not change before the reset it ends in.      *)
(*  - the ST device stack is external: SOFs reach the class only while the *)
(*    device is configured, and a bus reset may end a suspend without the  *)
(*    resume callback that clears is_suspended.                            *)
(***************************************************************************)
EXTENDS Integers, FiniteSetsExt

CONSTANTS
  Huge,            \* 2^32 us, what a negative difference becomes
  Floor, Over,     \* bounds: the oldest timestamp and the oldest deadline told apart
  Params,          \* what usbHidSofMonitorApplySpeedParams caches per speed
  Holdoff,         \* USB_SOF_MONITOR_CONFIG_HOLDOFF_US, RESUME_HOLDOFF_US
  Confirm,         \* USB_BOOT_MONITOR_CONFIRM_DELAY_US
  Recovery,        \* USB_SOF_MONITOR_RECOVERY_DELAY_US
  NoSofFactor,     \* USB_SOF_MONITOR_NO_SOF_TIMEOUT_FACTOR
  WarmupTimeout,   \* USB_SOF_MONITOR_WARMUP_TIMEOUT_US
  WarmupGrace,     \* USB_SOF_MONITOR_WARMUP_GRACE_US
  SpeedWindow, SuspendWindow,    \* the event windows
  EventThreshold,  \* USB_SOF_MONITOR_SPEED_THRESHOLD, SUSPEND_THRESHOLD
  Persistent,      \* USB_SOF_MONITOR_PERSISTENT_THRESHOLD
  EnumTimeout,     \* USB_ENUM_MONITOR_ATTEMPT_TIMEOUT_US
  EnumThreshold,   \* USB_ENUM_MONITOR_FAIL_THRESHOLD
  EnumCap,         \* USB_ENUM_MONITOR_SCORE_CAP
  EnumRecovery,    \* USB_ENUM_MONITOR_RECOVERY_US
  Slower,          \* usbHidResolveDowngradeTarget: the boot mode has a slower one
  MaxGap,          \* bound: the longest silence told apart
  Budgets          \* bounds: bus resets, suspends, units without a SOF, toggles

Speed == {"HS", "FS"}
Latest == Max({Holdoff, Confirm, Recovery, WarmupTimeout, WarmupGrace, SpeedWindow,
                   SuspendWindow, EnumTimeout, Params["HS"].expected * NoSofFactor,
                   Params["FS"].expected * NoSofFactor})
Time == Floor .. Latest
Unset == Floor - 1  \* stable_since_us = 0: no stable period is being timed
NoParams == [expected |-> 0, stable |-> 0, decay |-> 0, slowDecay |-> 0,
             threshold |-> 0, slowThreshold |-> 0, cap |-> 0, frames |-> 0]

ASSUME ParamsAssumption ==
  /\ DOMAIN Params = Speed
  /\ \A s \in Speed :
       /\ \A f \in DOMAIN NoParams : Params[s][f] \in Nat \ {0}
       /\ Params[s].expected < Params[s].stable
       /\ Params[s].cap < Params[s].threshold
       /\ \A o \in Speed : Params[s].slowThreshold <= Params[o].slowThreshold + 1

ASSUME TimeAssumption ==
  /\ {Holdoff, Confirm, Recovery, NoSofFactor, WarmupTimeout, WarmupGrace, SpeedWindow,
      SuspendWindow, EnumTimeout, EnumRecovery} \subseteq Nat
  /\ {Floor, Over, Huge} \subseteq Int
  /\ Floor <= Over /\ Over < 0 /\ Latest < Huge

(* What keeps a single gap from being enough.  The bounds Floor and MaxGap *)
(* leave room for the decay intervals and for the no-SOF timeout.          *)
ASSUME GapAssumption ==
  /\ Holdoff > 0 /\ Confirm > 0 /\ Recovery > 0 /\ MaxGap \in Nat
  /\ \A s \in Speed :
       /\ Params[s].slowThreshold > 1 /\ Params[s].slowDecay > 1
       /\ Params[s].stable < Params[s].expected * NoSofFactor
       /\ Params[s].expected * NoSofFactor <= MaxGap + 1
       /\ Floor < -Params[s].stable
       /\ Floor <= -Params[s].decay /\ Floor <= -Params[s].slowDecay

ASSUME CountAssumption ==
  /\ {EventThreshold, Persistent} \subseteq 1 .. 255 /\ {EnumThreshold, EnumCap} \subseteq Nat \ {0}
  /\ Slower \in BOOLEAN

VARIABLES
  dev,      \* the device stack: dev_state, dev_old_state, dev_speed, is_suspended
  enabled,  \* usb_instability_enabled
  mon,      \* sof_monitor, sof_prev_dev_state, sof_prev_suspended
  enum,     \* enum_monitor
  bg,       \* the background tick: where it is, its now_us and delta_us
  ran,      \* a background tick began since the clock moved
  left,     \* bus events and toggles left (bounds)
  h         \* history: what the bus really did

vars == <<dev, enabled, mon, enum, bg, ran, left, h>>

-----------------------------------------------------------------------------
(* Unsigned differences, and the cached parameters.                        *)
Sub(t, u) == IF t >= u THEN t - u ELSE Huge + t - u
Least(a, b) == IF a < b THEN a ELSE b
Par(m) == IF m.speed \in Speed THEN Params[m.speed] ELSE NoParams

PrimeTimeout(m, t) ==
  [m EXCEPT !.noSof = t + (IF Par(m).expected > 0
                        THEN Par(m).expected * NoSofFactor
                        ELSE WarmupTimeout)]

(* The assignments every branch of usbHidMonitorSof repeats: forget the    *)
(* scores of the past and start the warm-up again at time t.               *)
Restart(m, t) ==
  [m EXCEPT !.score = 0, !.decay = t, !.slowDecay = t, !.good = 0,
            !.warm = FALSE, !.warmEnd = t + WarmupTimeout]

(* What asking for a slower mode does to the monitor; ok is the answer of  *)
(* usbRequestBootModeDowngrade.                                            *)
CommitDowngrade(m, t, kind, ok) ==
  [m EXCEPT !.holdoff = t + (IF Slower /\ ok THEN Confirm ELSE Recovery),
            !.score = 0, !.slow = 0, !.persist = 0, !.speedN = 0, !.suspN = 0,
            !.speedEnd = Over, !.suspEnd = Over, !.grace = FALSE,
            !.asked = IF Slower THEN kind ELSE "none"]

-----------------------------------------------------------------------------
(* usbHidMonitorProcessDelta: one interval of length d, seen at time t.    *)
WarmTarget(m, t) ==
  IF m.grace /\ t <= m.graceEnd
  THEN IF Par(m).frames \div 2 = 0 THEN 1 ELSE Par(m).frames \div 2
  ELSE Par(m).frames

Warmup(m, t, d) ==
  LET target == WarmTarget(m, t)
      good == IF d >= Par(m).stable THEN 0
              ELSE IF m.good < target THEN m.good + 1 ELSE m.good
      graced == [m EXCEPT !.good = good, !.grace = @ /\ t <= m.graceEnd]
  IN IF good >= target \/ t >= m.warmEnd
     THEN [graced EXCEPT !.warm = TRUE, !.decay = t, !.slowDecay = t, !.grace = FALSE]
     ELSE graced

Decayed(m, t) ==
  LET fast == m.score > 0 /\ Sub(t, m.decay) >= Par(m).decay
      slow == m.slow > 0 /\ Sub(t, m.slowDecay) >= Par(m).slowDecay
  IN [m EXCEPT !.score = IF fast THEN @ - 1 ELSE @, !.decay = IF fast THEN t ELSE @,
               !.slow = IF slow THEN @ - 1 ELSE @, !.slowDecay = IF slow THEN t ELSE @]

PointsUncapped(m, d) ==  \* mutant: event_score_cap is not applied
  LET missed == (d + Par(m).expected - 1) \div Par(m).expected
  IN IF missed > 1 THEN missed - 1 ELSE 1

Points(m, d) ==
  LET missed == (d + Par(m).expected - 1) \div Par(m).expected
  IN IF missed > 1 THEN Least(missed - 1, Par(m).cap) ELSE 1

Scored(m, t, d, ok) ==
  LET s == [m EXCEPT !.score = Least(@ + Points(m, d), 255), !.decay = t,
                     !.slow = Least(@ + 1, 255), !.slowDecay = t]
  IN IF s.score >= Par(m).threshold \/ s.slow >= Par(m).slowThreshold
     THEN CommitDowngrade(s, t, "sof", ok)
     ELSE s

ProcessDelta(m, t, d, ok) ==
  LET p == PrimeTimeout(m, t)
      w == IF p.warm THEN p ELSE Warmup(p, t, d)
  IN IF Par(m).expected = 0 THEN m
     ELSE IF t < p.holdoff THEN [p EXCEPT !.decay = t, !.slowDecay = t]
     ELSE IF ~w.warm THEN w
     ELSE IF d < Par(m).stable THEN Decayed(w, t)
     ELSE Scored(w, t, d, ok)

-----------------------------------------------------------------------------
(* Repeated speed changes and suspends.                                    *)
BumpPersistent(m, t, kind, ok) ==
  LET b == [m EXCEPT !.persist = Least(@ + 1, 255)]
  IN IF b.persist >= Persistent THEN CommitDowngrade(b, t, kind, ok) ELSE b

Graced(m, t) ==
  IF m.warm THEN [m EXCEPT !.grace = TRUE, !.graceEnd = t + WarmupGrace] ELSE m

HandleSpeedChange(m, t, ok) ==
  LET fresh == m.speedN = 0 \/ t >= m.speedEnd
      n == IF fresh THEN 1 ELSE m.speedN + 1
      g == Graced(m, t)
  IN IF Par(m).frames = 0 THEN [m EXCEPT !.speedN = 0, !.speedEnd = Over]
     ELSE IF n >= EventThreshold
     THEN BumpPersistent([g EXCEPT !.speedN = 0, !.speedEnd = t + SpeedWindow],
                         t, "speed", ok)
     ELSE [g EXCEPT !.speedN = n, !.speedEnd = IF fresh THEN t + SpeedWindow ELSE @]

HandleSuspend(m, t, ok) ==
  LET fresh == m.suspN = 0 \/ t >= m.suspEnd
      n == IF fresh THEN 1 ELSE m.suspN + 1
      g == Graced(m, t)
  IN IF Par(m).frames = 0 THEN [m EXCEPT !.suspN = 0, !.suspEnd = Over]
     ELSE IF n >= EventThreshold
     THEN BumpPersistent([g EXCEPT !.suspN = 0, !.suspEnd = t + SuspendWindow],
                         t, "suspend", ok)
     ELSE [g EXCEPT !.suspN = n, !.suspEnd = IF fresh THEN t + SuspendWindow ELSE @]

-----------------------------------------------------------------------------
(* usbHidMonitorSof, called with dev_state = CONFIGURED: the branches for  *)
(* the other states cannot be reached.                                     *)
FirstSof(m, t) ==
  IF m.prevState = dev.state THEN m
  ELSE PrimeTimeout(
         [Restart(m, t) EXCEPT
            !.prev = t, !.slow = 0, !.holdoff = t + Holdoff, !.speed = dev.speed,
            !.speedN = 0, !.suspN = 0, !.persist = 0, !.speedEnd = Over, !.suspEnd = Over,
            !.grace = FALSE, !.graceEnd = Over, !.prevState = dev.state], t)

SuspendedSof(m, t, ok) ==
  LET s == IF m.prevSusp THEN m ELSE HandleSuspend(m, t, ok)
  IN PrimeTimeout(
       [Restart(s, t) EXCEPT
          !.prevSusp = TRUE, !.prev = t, !.slow = IF @ > 0 THEN @ - 1 ELSE 0,
          !.holdoff = t + Holdoff, !.speed = dev.speed], t)

NewSpeedKeepsSlow(m, t, ok) ==  \* mutant: slow_score is not eased
  IF dev.speed = m.speed THEN m
  ELSE LET s == [HandleSpeedChange(m, t, ok) EXCEPT !.speed = dev.speed]
       IN PrimeTimeout([Restart(s, t) EXCEPT !.holdoff = t + Holdoff], t)

NewSpeedUncached(m, t, ok) ==  \* mutant: the new speed's parameters are not cached
  IF dev.speed = m.speed THEN m
  ELSE PrimeTimeout([Restart(HandleSpeedChange(m, t, ok), t) EXCEPT
                       !.slow = IF @ > 0 THEN @ - 1 ELSE 0, !.holdoff = t + Holdoff], t)

NewSpeed(m, t, ok) ==
  IF dev.speed = m.speed THEN m
  ELSE LET s == [HandleSpeedChange(m, t, ok) EXCEPT !.speed = dev.speed]
       IN PrimeTimeout([Restart(s, t) EXCEPT !.slow = IF @ > 0 THEN @ - 1 ELSE 0,
                                             !.holdoff = t + Holdoff], t)

AwakeSof(m, t, ok) ==
  LET s == NewSpeed([m EXCEPT !.prevSusp = FALSE], t, ok)
  IN ProcessDelta([s EXCEPT !.prev = t], t, Sub(t, s.prev), ok)

MonitorSof(m, t, ok) ==
  LET s == FirstSof([m EXCEPT !.asked = "none"], t)
  IN IF dev.suspended THEN SuspendedSof(s, t, ok) ELSE AwakeSof(s, t, ok)

-----------------------------------------------------------------------------
(* History.  silence: time since the monitor last handled a SOF; good: the *)
(* healthy stretch since the last interval that was too long; close: two   *)
(* such intervals with less than Quiet of healthy time between them; long: *)
(* one reached the no-SOF timeout; close and long are forgotten with the   *)
(* scores.  changes: speed changes and suspends seen since a request.      *)
(* Quiet is what the points of one event take to decay.  Each waits for    *)
(* the first SOF after its time, less than stable later; and a point may   *)
(* be given for nothing: a late background tick may store a now_us older   *)
(* than the SOF that overtook it as prev_tick_us, and the next interval,   *)
(* healthy and no longer than stable, then seems too long.                 *)
Quiet == Max({Params[s].cap * (Params[s].decay + Params[s].stable) : s \in Speed}
             \cup {Params[s].slowDecay + Params[s].stable : s \in Speed})
NoSofTime(m) == Par(m).expected * NoSofFactor
Outgrown(m) == h.silence >= Par(m).stable
Forget(g, m) == IF m.score = 0 /\ m.slow = 0 /\ m.asked = "none"
                THEN [g EXCEPT !.close = FALSE, !.long = FALSE] ELSE g
Seen == [h EXCEPT !.long = @ \/ (Par(mon).expected > 0 /\ h.silence >= NoSofTime(mon)),
                  !.changes = IF mon.asked = "none" THEN @ ELSE 0]
Changed == IF dev.suspended THEN ~mon.prevSusp
           ELSE mon.speed \in Speed /\ dev.speed # mon.speed
SofHistory(m) ==
  Forget([Seen EXCEPT
            !.silence = 0,
            !.good = IF Outgrown(mon) THEN 0 ELSE Least(@ + h.silence, Quiet),
            !.close = @ \/ (Outgrown(mon) /\ h.good < Quiet),
            !.changes = IF Changed THEN Least(@ + 1, EventThreshold * Persistent) ELSE @], m)

-----------------------------------------------------------------------------
Init ==
  /\ dev \in [state : {"default"}, old : {"default"}, suspended : {FALSE},
              speed : IF Slower THEN Speed ELSE {"FS"}]
  /\ enabled = TRUE
  /\ mon = [prev |-> Floor, decay |-> Floor, slowDecay |-> Floor, holdoff |-> Over,
            warmEnd |-> Over, noSof |-> Over, speed |-> "none", score |-> 0, slow |-> 0, good |-> 0,
            warm |-> FALSE, speedN |-> 0, speedEnd |-> Over, suspN |-> 0, suspEnd |-> Over,
            persist |-> 0, grace |-> FALSE, graceEnd |-> Over, asked |-> "none",
            prevState |-> "default", prevSusp |-> FALSE]
  /\ enum = [deadline |-> Over, since |-> Unset, fail |-> 0, pending |-> "none", waiting |-> FALSE]
  /\ bg = [pc |-> "idle", now |-> 0, delta |-> 0]
  /\ ran = FALSE
  /\ left \in Budgets
  /\ h = [silence |-> 0, good |-> Quiet, close |-> FALSE, long |-> FALSE, changes |-> 0]

(* One background tick begins in every unit of time.  The clock runs       *)
(* freely while SOFs keep coming and once a silence is longer than MaxGap; *)
(* other units are counted in left.quiet.                                  *)
Older(t, oldest) == IF t > oldest THEN t - 1 ELSE t
Stamps == {"prev", "decay", "slowDecay", "since"}
Deadlines == {"holdoff", "warmEnd", "noSof", "speedEnd", "suspEnd", "graceEnd", "deadline"}
Aged(r) == [f \in DOMAIN r |-> IF f \in Stamps THEN Older(r[f], Floor)
                               ELSE IF f \in Deadlines THEN Older(r[f], Over) ELSE r[f]]
Steady == /\ dev.state = "configured"
          /\ h.silence + 1 < Params[dev.speed].stable \/ h.silence > MaxGap
Tick ==
  /\ ran \/ ~enabled
  /\ mon' = Aged(mon) /\ enum' = Aged(enum)
  /\ bg' = IF bg.pc = "idle" THEN bg ELSE [bg EXCEPT !.now = @ - 1]
  /\ ran' = FALSE
  /\ h' = [h EXCEPT !.silence = Least(@ + 1, MaxGap + 1)]
  /\ IF Steady THEN UNCHANGED left
     ELSE left.quiet > 0 /\ left' = [left EXCEPT !.quiet = @ - 1]
  /\ UNCHANGED <<dev, enabled>>

-----------------------------------------------------------------------------
(* The bus, through the ST device stack and the callbacks of usbd_conf.c.  *)
Bus(d) ==
  /\ dev' = d
  /\ UNCHANGED <<enabled, mon, enum, bg, ran, h>>

BusReset ==
  /\ left.resets > 0
  /\ left' = [left EXCEPT !.resets = @ - 1]
  /\ \E s \in (IF Slower THEN Speed ELSE {"FS"}) :
       Bus([dev EXCEPT !.state = "default", !.speed = s])

SetAddress ==
  /\ dev.state = "default"
  /\ Bus([dev EXCEPT !.state = "addressed"])
  /\ UNCHANGED left

SetConfiguration ==
  /\ dev.state = "addressed"
  /\ Bus([dev EXCEPT !.state = "configured"])
  /\ UNCHANGED left

Suspend ==
  /\ left.suspends > 0 /\ dev.state # "suspended"
  /\ left' = [left EXCEPT !.suspends = @ - 1]
  /\ Bus([dev EXCEPT !.old = dev.state, !.state = "suspended", !.suspended = TRUE])

Resume ==
  /\ dev.suspended
  /\ Bus([dev EXCEPT !.suspended = FALSE,
                     !.state = IF @ = "suspended" THEN dev.old ELSE @])
  /\ UNCHANGED left

(* USBD_HID_SOF's monitor part.  The device stack passes a SOF on only     *)
(* while the device is configured.                                         *)
Sof ==
  /\ dev.state = "configured" /\ enabled
  /\ h.silence >= Params[dev.speed].expected
  /\ \E ok \in BOOLEAN : mon' = MonitorSof(mon, 0, ok)
  /\ h' = SofHistory(mon')
  /\ UNCHANGED <<dev, enabled, enum, bg, ran, left>>

-----------------------------------------------------------------------------
(* The main loop.  VIA switches the monitor on and off between two ticks.  *)
InstabilityStore ==
  /\ bg.pc = "idle" /\ dev.state = "configured" /\ left.toggles > 0
  /\ enabled' = ~enabled
  /\ left' = [left EXCEPT !.toggles = @ - 1]
  /\ UNCHANGED <<dev, mon, enum, bg, ran, h>>

BackgroundService ==
  /\ bg.pc = "idle" /\ enabled /\ ~ran
  /\ bg' = [bg EXCEPT !.pc = "begun", !.now = 0]
  /\ ran' = TRUE
  /\ UNCHANGED <<dev, enabled, mon, enum, left, h>>

RefreshEventWindows(m, t) ==
  LET speedOver == m.speedN > 0 /\ t >= m.speedEnd
      suspOver == m.suspN > 0 /\ t >= m.suspEnd
  IN [m EXCEPT !.speedN = IF speedOver THEN 0 ELSE @, !.speedEnd = IF speedOver THEN Over ELSE @,
               !.suspN = IF suspOver THEN 0 ELSE @, !.suspEnd = IF suspOver THEN Over ELSE @,
               !.grace = @ /\ t < m.graceEnd]

(* usbHidMonitorTrackEnumeration: the monitor of enumerations, and whether *)
(* it asks for a slower mode.                                              *)
Configured(e, t) ==
  LET over == e.fail > 0 /\ e.since # Unset /\ Sub(t, e.since) >= EnumRecovery
      settled == [e EXCEPT !.waiting = FALSE, !.pending = dev.state]
  IN IF e.fail = 0 \/ e.since = Unset THEN [settled EXCEPT !.since = t]
     ELSE IF over
     THEN [settled EXCEPT !.fail = @ - 1, !.since = IF e.fail > 1 THEN t ELSE Unset]
     ELSE settled

Expired(e, t) == e.waiting /\ e.pending = dev.state /\ t >= e.deadline

Enumerating(e, t) ==
  IF ~e.waiting \/ e.pending # dev.state
  THEN [e EXCEPT !.since = Unset, !.waiting = TRUE, !.pending = dev.state,
                 !.deadline = t + EnumTimeout]
  ELSE IF ~Expired(e, t) THEN [e EXCEPT !.since = Unset]
  ELSE [e EXCEPT !.since = Unset, !.fail = Least(@ + 1, EnumCap),
                 !.deadline = t + EnumTimeout]

EnumFailed(e, t) == Expired(e, t) /\ Least(e.fail + 1, EnumCap) >= EnumThreshold

TrackEnumeration(e, t) ==
  IF dev.state = "configured" THEN Configured(e, t)
  ELSE IF dev.state = "suspended"
  THEN [e EXCEPT !.since = Unset, !.waiting = FALSE, !.pending = dev.state]
  ELSE IF EnumFailed(e, t)
  THEN [Enumerating(e, t) EXCEPT !.fail = 0, !.waiting = FALSE]
  ELSE Enumerating(e, t)

(* usbHidMonitorBackgroundTick up to the test of no_sof_deadline_us.       *)
BackgroundTrack ==
  LET t == bg.now
      m == RefreshEventWindows([mon EXCEPT !.asked = "none"], t)
      asks == dev.state \in {"default", "addressed"} /\ EnumFailed(enum, t)
      late == /\ dev.state = "configured" /\ ~dev.suspended
              /\ Par(mon).expected # 0 /\ mon.warm
              /\ t >= mon.noSof
  IN /\ bg.pc = "begun"
     /\ enum' = TrackEnumeration(enum, t)
     /\ \E ok \in BOOLEAN : mon' = IF asks THEN CommitDowngrade(m, t, "enum", ok) ELSE m
     /\ bg' = [bg EXCEPT !.pc = IF late THEN "late" ELSE "idle", !.now = IF late THEN @ ELSE 0]
     /\ h' = Forget(Seen, mon')
     /\ UNCHANGED <<dev, enabled, ran, left>>

BackgroundDeltaLate ==  \* mutant: prev_tick_us is stored before it is read
  /\ bg.pc = "late"
  /\ bg' = [bg EXCEPT !.pc = "delta", !.delta = 0]
  /\ UNCHANGED <<dev, enabled, mon, enum, ran, left, h>>

BackgroundDelta ==
  /\ bg.pc = "late"
  /\ bg' = [bg EXCEPT !.pc = "delta", !.delta = Sub(bg.now, mon.prev)]
  /\ UNCHANGED <<dev, enabled, mon, enum, ran, left, h>>

BackgroundScore ==
  /\ bg.pc = "delta"
  /\ bg' = [bg EXCEPT !.pc = "idle", !.now = 0, !.delta = 0]
  /\ \E ok \in BOOLEAN :
       mon' = ProcessDelta([mon EXCEPT !.prev = bg.now, !.asked = "none"], bg.now, bg.delta, ok)
  /\ h' = Forget(Seen, mon')
  /\ UNCHANGED <<dev, enabled, enum, ran, left>>

Background == BackgroundService \/ BackgroundTrack \/ BackgroundDelta \/ BackgroundScore

Next ==
  \/ Tick \/ Sof \/ InstabilityStore \/ Background
  \/ BusReset \/ SetAddress \/ SetConfiguration \/ Suspend \/ Resume

Spec == Init /\ [][Next]_vars
(* Time passes, the main loop keeps running; the bus and the host owe      *)
(* nothing.                                                                *)
FairSpec == Spec /\ WF_vars(Tick) /\ WF_vars(Background)

-----------------------------------------------------------------------------
TypeOK ==
  /\ dev \in [state : {"default", "addressed", "configured", "suspended"},
              old : {"default", "addressed", "configured"},
              speed : Speed, suspended : BOOLEAN]
  /\ enabled \in BOOLEAN /\ ran \in BOOLEAN
  /\ \A f \in (Stamps \cup Deadlines) \cap DOMAIN mon : mon[f] \in Time
  /\ \A f \in {"score", "slow", "persist", "speedN", "suspN"} : mon[f] \in 0 .. 255
  /\ mon.speed \in Speed \cup {"none"} /\ mon.good \in Nat
  /\ mon.asked \in {"none", "sof", "speed", "suspend", "enum"}
  /\ enum.fail \in 0 .. EnumCap /\ enum.deadline \in Time
  /\ enum.since \in Time \cup {Unset}
  /\ bg \in [pc : {"idle", "begun", "late", "delta"}, now : {-1, 0}, delta : Nat]

(* Types hold and, between two handlers, no score, count or failed attempt *)
(* stands at its threshold: whoever brings one there also asks and clears  *)
(* it.  The thresholds change under the scores when the bus comes back at  *)
(* another speed, and slow_score survives that.                            *)
ScoresBelowThreshold ==
  /\ TypeOK
  /\ Par(mon).expected > 0 =>
       mon.score < Par(mon).threshold /\ mon.slow < Par(mon).slowThreshold
  /\ mon.persist < Persistent /\ mon.speedN < EventThreshold /\ mon.suspN < EventThreshold
  /\ enum.fail < EnumThreshold

(* A slower mode is asked for only with cause.  On account of SOFs: two    *)
(* intervals were too long with less healthy time between them than the    *)
(* scores take to decay, or one was as long as the no-SOF timeout; a       *)
(* single shorter gap, or gaps far apart, never suffice, however the SOF   *)
(* interrupt and the background tick interleave.                           *)
AskedAfterGaps == mon.asked = "sof" => h.close \/ h.long

(* On account of speed changes or suspends: there were as many of them     *)
(* since the last request as the windows and the persistent score ask for, *)
(* however the windows run out and the bus is reset in between.            *)
AskedAfterChanges ==
  mon.asked \in {"speed", "suspend"} => h.changes >= EventThreshold * Persistent

(* Whatever the request is on account of, the cause was there.             *)
AskedForCause == AskedAfterGaps /\ AskedAfterChanges

(* A bus that falls silent for good once the warm-up is over is reported,  *)
(* and again and again while it stays silent: no hold-off lasts.           *)
Deaf == /\ dev.state = "configured" /\ ~dev.suspended /\ enabled /\ Slower
        /\ mon.warm /\ h.silence > MaxGap
SilenceReported == <>[]Deaf => []<>(mon.asked = "sof")

(* While time passes, a device that stays configured is forgiven its       *)
(* failed enumerations; and whatever interrupted it - a suspend, a new     *)
(* speed, a switch-off, a request - the monitor finishes its warm-up and   *)
(* watches again once SOFs keep coming to an awake, configured device.     *)
Stays == dev.state = "configured" /\ enabled
Recovers ==
  []<><<Tick>>_vars =>
    /\ <>[]Stays => <>[](enum.fail = 0)
    /\ []<><<Sof>>_vars /\ <>[](Stays /\ ~dev.suspended) => <>[](mon.warm)
=============================================================================
