------------------------- MODULE UsbBootModeProofs -------------------------
(***************************************************************************)
(* Theorems about UsbBootMode, for any number of modes, any delays and any *)
(* width of the clock that four of the longest passes do not fill.  How    *)
(* long a request has waited is tied to the clock by stating each deadline *)
(* as the present plus what remains of the wait, modulo the clock.         *)
(***************************************************************************)
EXTENDS UsbBootMode, TLAPS

USE DEF Mode, Tick0, Stage

\* Instants stay instants.
LEMMA ClockType ==
  /\ Wrap \in Nat \ {0} /\ 0 \in Tick0
  /\ \A t \in Int : t % Wrap \in Tick0
  /\ ArmCap \in Nat /\ ResetCap \in Nat
  /\ \A t \in Tick0, d \in Nat : Plus(t, d) \in Tick0
<1>1. Wrap \in Nat \ {0} /\ ArmCap \in Nat /\ ResetCap \in Nat
  BY ClockAssumption DEF ArmCap, ResetCap
<1>2. \A t \in Int : t % Wrap \in Tick0
  BY <1>1
<1>. QED
  BY <1>1, <1>2 DEF Plus

\* Whatever the slot holds, a mode is loaded.
LEMMA LoadedType == \A stored \in Mode \cup {Corrupt} : Loaded(stored) \in Mode
BY ModesAssumption DEF Loaded

\* Scheduling a reset yields a reset request.
LEMMA GraceType ==
  ASSUME TypeOK
  PROVE  GraceReset(usb_reset_request) \in
           [pending : BOOLEAN, from_monitor : BOOLEAN, ready_ms : Tick0]
BY ClockType, ClockAssumption DEF GraceReset, TypeOK

\* Requesting a downgrade yields a downgrade request.
LEMMA RequestedType ==
  ASSUME TypeOK, HasTarget, NEW stage \in Stage
  PROVE  Requested(boot_mode_request, stage, Target) \in
           [stage : Stage, next_mode : Mode, ready_ms : Tick0, timeout_ms : Tick0]
<1>1. Target \in Mode
  BY ModesAssumption DEF TypeOK, HasTarget, Target
<1>2. Plus(now, Confirm) \in Tick0 /\ Plus(now, 2 * Confirm) \in Tick0
  <2>1. Confirm \in Nat /\ 2 * Confirm \in Nat /\ now \in Tick0
    BY ClockAssumption DEF TypeOK
  <2>. QED
    BY <2>1, ClockType
<1>. QED
  BY <1>1, <1>2 DEF Requested, TypeOK

\* The empty requests are requests.
LEMMA NoneTypes ==
  /\ NoRequest \in [stage : Stage, next_mode : Mode, ready_ms : Tick0, timeout_ms : Tick0]
  /\ NoReset \in [pending : BOOLEAN, from_monitor : BOOLEAN, ready_ms : Tick0]
  /\ NoSnapshot \in [apply : BOOLEAN, monitor : BOOLEAN, reset : BOOLEAN]
  /\ 0 \in 0 .. MaxLag /\ 0 \in 0 .. MaxCmds /\ 0 \in 0 .. ArmCap /\ 0 \in 0 .. ResetCap
BY ClockType, ModesAssumption, ClockAssumption DEF NoRequest, NoReset, NoSnapshot

\* Storing a mode and scheduling the reset keep the types.
LEMMA SaveAndResetType ==
  ASSUME TypeOK, NEW mode \in Mode, NEW who \in {"user", "monitor"}, NEW reset,
         reset \in [pending : BOOLEAN, from_monitor : BOOLEAN, ready_ms : Tick0],
         SaveAndReset(mode, who, reset)
  PROVE  /\ usb_boot_mode' \in Mode /\ queued' \in BOOLEAN
         /\ usb_reset_request' \in [pending : BOOLEAN, from_monitor : BOOLEAN, ready_ms : Tick0]
         /\ resetAge' \in 0 .. ResetCap /\ resetFor' \in SUBSET {"user", "monitor"}
BY NoneTypes DEF SaveAndReset, Store, NoteReset, TypeOK

\* A restart keeps the types.
LEMMA RestartType == ASSUME TypeOK, Restart PROVE TypeOK'
BY NoneTypes, LoadedType, ClockType, ModesAssumption DEF Restart, TypeOK, Pc

\* A request the main loop is about to make is one the monitor may make.
RequestReady == pc = "request" => HasTarget /\ usb_instability_enabled

\* The toggle is off while its queues are being reset.
QuietIsOff == pc = "quiet" => ~usb_instability_enabled

\* Every step keeps the types.
LEMMA TypeStep ==
  ASSUME TypeOK, RequestReady, [Next]_vars
  PROVE  TypeOK'
<1>. USE NoneTypes DEF Pc, clock, caches, storage, requests, resetHistory
<1>1. CASE \E m \in Mode : CliBootSet(m)
  <2>1. PICK m \in Mode : CliBootSet(m)
    BY <1>1
  <2>2. SaveAndReset(m, "user", GraceReset(usb_reset_request))
    BY <2>1 DEF CliBootSet
  <2>. QED
    BY <2>1, <2>2, SaveAndResetType, GraceType DEF CliBootSet, TypeOK
<1>2. CASE CliIdle
  BY <1>2 DEF CliIdle, TypeOK
<1>3. CASE ProcessEntry
  BY <1>3 DEF ProcessEntry, TypeOK
<1>4. CASE ProcessApply
  <2>1. CASE snap.apply /\ boot_mode_apply_request.pending
    <3>1. /\ boot_mode_apply_request.mode \in Mode
          /\ SaveAndReset(boot_mode_apply_request.mode, "user", GraceReset(usb_reset_request))
      BY <1>4, <2>1 DEF ProcessApply, TypeOK
    <3>2. boot_mode_apply_request' \in [pending : BOOLEAN, mode : Mode]
      BY <1>4, <2>1 DEF ProcessApply, TypeOK
    <3>. QED
      BY <1>4, <3>1, <3>2, SaveAndResetType, GraceType DEF ProcessApply, TypeOK
  <2>2. CASE ~(snap.apply /\ boot_mode_apply_request.pending)
    BY <1>4, <2>2 DEF ProcessApply, TypeOK
  <2>. QED
    BY <2>1, <2>2
<1>5. CASE ProcessArmed
  BY <1>5 DEF ProcessArmed, TypeOK
<1>6. CASE ProcessExpire
  BY <1>6 DEF ProcessExpire, TypeOK
<1>7. CASE ProcessCommit
  <2>. DEFINE reset == [GraceReset(usb_reset_request) EXCEPT !.from_monitor = TRUE]
  <2>1. reset \in [pending : BOOLEAN, from_monitor : BOOLEAN, ready_ms : Tick0]
    BY GraceType
  <2>2. boot_mode_request.next_mode \in Mode
        /\ SaveAndReset(boot_mode_request.next_mode, "monitor", reset)
    BY <1>7 DEF ProcessCommit, TypeOK
  <2>. HIDE DEF reset
  <2>. QED
    BY <1>7, <2>1, <2>2, SaveAndResetType DEF ProcessCommit, TypeOK
<1>8. CASE FireReset
  BY <1>8, RestartType DEF FireReset
<1>9. CASE ProcessDone
  BY <1>9 DEF ProcessDone, TypeOK
<1>10. CASE BackgroundEvent
  BY <1>10 DEF BackgroundEvent, TypeOK
<1>11. CASE BackgroundRequest
  <2>1. seen \in Stage /\ HasTarget
    BY <1>11 DEF BackgroundRequest, RequestReady, TypeOK
  <2>2. boot_mode_request' = Requested(boot_mode_request, seen, Target)
        /\ armAge' \in 0 .. ArmCap
    BY <1>11 DEF BackgroundRequest, RequestDowngrade, TypeOK
  <2>3. MaxCmds \in 0 .. MaxCmds
    BY ClockAssumption
  <2>. QED
    BY <1>11, <2>1, <2>2, <2>3, RequestedType DEF BackgroundRequest, TypeOK
<1>12. CASE BackgroundDone
  BY <1>12, ClockAssumption DEF BackgroundDone, TypeOK
<1>13. CASE \E m \in Mode : ViaApply(m)
  <2>1. PICK m \in Mode : ViaApply(m)
    BY <1>13
  <2>2. boot_mode_apply_request' \in [pending : BOOLEAN, mode : Mode]
    BY <2>1 DEF ViaApply
  <2>3. cmds' \in 0 .. MaxCmds
    BY <2>1, ClockAssumption DEF ViaApply, HostCommand, TypeOK
  <2>. QED
    BY <2>1, <2>2, <2>3 DEF ViaApply, TypeOK
<1>14. CASE \E b \in BOOLEAN : ViaToggle(b)
  BY <1>14, ClockAssumption DEF ViaToggle, HostCommand, TypeOK
<1>15. CASE MonitorResetQueues
  <2>1. /\ usb_reset_request' \in [pending : BOOLEAN, from_monitor : BOOLEAN, ready_ms : Tick0]
        /\ resetAge' \in 0 .. ResetCap /\ resetFor' \in SUBSET {"user", "monitor"}
    BY <1>15 DEF MonitorResetQueues, TypeOK
  <2>. QED
    BY <1>15, <2>1 DEF MonitorResetQueues, TypeOK
<1>16. CASE \E b \in {"app", "boot"} : ViaReset(b)
  <2>1. /\ usb_reset_request' \in [pending : BOOLEAN, from_monitor : BOOLEAN, ready_ms : Tick0]
        /\ resetAge' \in 0 .. ResetCap /\ resetFor' \in SUBSET {"user", "monitor"}
    BY <1>16, GraceType DEF ViaReset, NoteReset, TypeOK
  <2>. QED
    BY <1>16, <2>1, ClockAssumption DEF ViaReset, HostCommand, TypeOK
<1>17. CASE ViaDone
  BY <1>17 DEF ViaDone, TypeOK
<1>18. CASE \E w \in BOOLEAN : EepromTask(w)
  BY <1>18 DEF EepromTask, TypeOK
<1>19. CASE SofEvent
  <2>1. boot_mode_request.stage \in Stage /\ HasTarget
    BY <1>19 DEF SofEvent, TypeOK
  <2>2. boot_mode_request' = Requested(boot_mode_request, boot_mode_request.stage, Target)
        /\ armAge' \in 0 .. ArmCap
    BY <1>19 DEF SofEvent, RequestDowngrade, TypeOK
  <2>. QED
    BY <1>19, <2>1, <2>2, RequestedType DEF SofEvent, TypeOK
<1>20. CASE Tick
  <2>1. now' \in Tick0
    BY <1>20, ClockType DEF Tick, TypeOK
  <2>2. armAge' \in 0 .. ArmCap
    BY <1>20, ClockType DEF Tick, Older, TypeOK
  <2>4. resetAge' \in 0 .. ResetCap
    BY <1>20, ClockType DEF Tick, Older, TypeOK
  <2>3. lag' \in 0 .. MaxLag
    BY <1>20, ClockAssumption DEF Tick, TypeOK
  <2>. QED
    BY <1>20, <2>1, <2>2, <2>3, <2>4 DEF Tick, TypeOK
<1>21. CASE PowerCut
  BY <1>21, RestartType DEF PowerCut
<1>22. CASE UNCHANGED vars
  BY <1>22 DEF vars, TypeOK
<1>. QED
  BY <1>1, <1>2, <1>3, <1>4, <1>5, <1>6, <1>7, <1>8, <1>9, <1>10, <1>11, <1>12, <1>13,
     <1>14, <1>15, <1>16, <1>17, <1>18, <1>19, <1>20, <1>21, <1>22 DEF Next, MainStep

\* The initial states have the types.
LEMMA TypeInit == ASSUME Init PROVE TypeOK
BY NoneTypes, LoadedType, ClockType, ModesAssumption DEF Init, TypeOK, Pc

\* A main-loop request is made with the toggle on and a lower mode left, since
\* neither can change between the event and the request.
LEMMA RequestReadyStep ==
  ASSUME TypeOK, RequestReady, [Next]_vars
  PROVE  RequestReady'
<1>. USE DEF clock, caches, storage, requests, resetHistory, HasTarget
<1>1. CASE BackgroundEvent
  BY <1>1 DEF BackgroundEvent, RequestReady
<1>2. CASE SofEvent \/ Tick \/ UNCHANGED vars
  BY <1>2 DEF SofEvent, Tick, vars, RequestReady
<1>3. CASE \E m \in Mode : ViaApply(m)
  BY <1>3 DEF ViaApply, HostCommand, RequestReady
<1>4. CASE \E b \in {"app", "boot"} : ViaReset(b)
  BY <1>4 DEF ViaReset, HostCommand, RequestReady
<1>5. CASE FireReset \/ PowerCut
  BY <1>5 DEF FireReset, PowerCut, Restart, RequestReady
<1>6. CASE \/ \E m \in Mode : CliBootSet(m)
           \/ CliIdle \/ ProcessEntry \/ ProcessApply \/ ProcessArmed
           \/ ProcessExpire \/ ProcessCommit \/ ProcessDone
  BY <1>6 DEF CliBootSet, CliIdle, ProcessEntry, ProcessApply, ProcessArmed,
              ProcessExpire, ProcessCommit, ProcessDone, RequestReady
<1>7. CASE \/ BackgroundRequest \/ BackgroundDone
           \/ \E b \in BOOLEAN : ViaToggle(b)
           \/ MonitorResetQueues \/ ViaDone
           \/ \E w \in BOOLEAN : EepromTask(w)
  BY <1>7 DEF BackgroundRequest, BackgroundDone, ViaToggle, MonitorResetQueues,
              ViaDone, EepromTask, RequestReady
<1>. QED
  BY <1>1, <1>2, <1>3, <1>4, <1>5, <1>6, <1>7 DEF Next, MainStep

\* The queues are cleared only after the toggle is off.
LEMMA QuietIsOffStep ==
  ASSUME QuietIsOff, [Next]_vars
  PROVE  QuietIsOff'
<1>. USE DEF clock, caches, storage, requests, resetHistory
<1>1. CASE \E b \in BOOLEAN : ViaToggle(b)
  BY <1>1 DEF ViaToggle, HostCommand, QuietIsOff
<1>2. CASE SofEvent \/ Tick \/ UNCHANGED vars
  BY <1>2 DEF SofEvent, Tick, vars, QuietIsOff
<1>3. CASE \/ \E m \in Mode : ViaApply(m)
           \/ \E b \in {"app", "boot"} : ViaReset(b)
  BY <1>3 DEF ViaApply, ViaReset, HostCommand, QuietIsOff
<1>4. CASE FireReset \/ PowerCut
  BY <1>4 DEF FireReset, PowerCut, Restart, QuietIsOff
<1>5. CASE \/ \E m \in Mode : CliBootSet(m)
           \/ CliIdle \/ ProcessEntry \/ ProcessApply \/ ProcessArmed
           \/ ProcessExpire \/ ProcessCommit \/ ProcessDone
  BY <1>5 DEF CliBootSet, CliIdle, ProcessEntry, ProcessApply, ProcessArmed,
              ProcessExpire, ProcessCommit, ProcessDone, QuietIsOff
<1>6. CASE \/ BackgroundEvent \/ BackgroundRequest \/ BackgroundDone
           \/ MonitorResetQueues \/ ViaDone
           \/ \E w \in BOOLEAN : EepromTask(w)
  BY <1>6 DEF BackgroundEvent, BackgroundRequest, BackgroundDone, MonitorResetQueues,
              ViaDone, EepromTask, QuietIsOff
<1>. QED
  BY <1>1, <1>2, <1>3, <1>4, <1>5, <1>6 DEF Next, MainStep

-----------------------------------------------------------------------------
(* The monitor is silent once it is off *)

\* A later request leaves the origin of a pending reset alone, a first one is the
\* user's.
LEMMA GraceKeepsOrigin ==
  ASSUME TypeOK
  PROVE  GraceReset(usb_reset_request).from_monitor => usb_reset_request.from_monitor
BY DEF GraceReset, TypeOK

\* Every step keeps the monitor quiet while it is off.
LEMMA QuietStep ==
  ASSUME TypeOK, RequestReady, QuietIsOff, MonitorOffIsQuiet, [Next]_vars
  PROVE  MonitorOffIsQuiet'
<1>. USE DEF clock, caches, storage, requests, resetHistory
<1>1. CASE \/ \E m \in Mode : CliBootSet(m)
           \/ \E b \in {"app", "boot"} : ViaReset(b)
           \/ ProcessApply
  <2>1. /\ UNCHANGED <<usb_instability_enabled, boot_mode_request>>
        /\ \/ usb_reset_request' = GraceReset(usb_reset_request)
           \/ usb_reset_request' = usb_reset_request
        /\ pc # "quiet" /\ pc' # "quiet"
    BY <1>1 DEF CliBootSet, ViaReset, HostCommand, ProcessApply, SaveAndReset
  <2>. QED
    BY <2>1, GraceKeepsOrigin DEF MonitorOffIsQuiet
<1>2. CASE ProcessExpire
  BY <1>2 DEF ProcessExpire, MonitorOffIsQuiet, NoRequest
<1>3. CASE ProcessCommit
  <2>1. usb_instability_enabled /\ UNCHANGED usb_instability_enabled
    BY <1>3 DEF ProcessCommit, MonitorOffIsQuiet
  <2>. QED
    BY <2>1 DEF MonitorOffIsQuiet
<1>4. CASE FireReset \/ PowerCut
  BY <1>4 DEF FireReset, PowerCut, Restart, MonitorOffIsQuiet, NoRequest, NoReset
<1>5. CASE BackgroundRequest
  BY <1>5 DEF BackgroundRequest, RequestReady, MonitorOffIsQuiet
<1>6. CASE SofEvent
  BY <1>6 DEF SofEvent, MonitorOffIsQuiet
<1>7. CASE \E b \in BOOLEAN : ViaToggle(b)
  BY <1>7 DEF ViaToggle, HostCommand, MonitorOffIsQuiet
<1>8. CASE MonitorResetQueues
  BY <1>8 DEF MonitorResetQueues, MonitorOffIsQuiet, NoRequest, NoReset
<1>9. CASE UNCHANGED <<usb_instability_enabled, boot_mode_request, usb_reset_request>>
           /\ (pc = "quiet" => pc' = "quiet")
  BY <1>9 DEF MonitorOffIsQuiet
<1>10. CASE \/ CliIdle \/ ProcessEntry \/ ProcessArmed \/ ProcessDone
            \/ BackgroundEvent \/ BackgroundDone \/ ViaDone
            \/ \E m \in Mode : ViaApply(m)
            \/ \E w \in BOOLEAN : EepromTask(w)
            \/ Tick \/ UNCHANGED vars
  BY <1>9, <1>10 DEF CliIdle, ProcessEntry, ProcessArmed, ProcessDone, BackgroundEvent,
     BackgroundDone, ViaDone, ViaApply, HostCommand, EepromTask, Tick, vars
<1>. QED
  BY <1>1, <1>2, <1>3, <1>4, <1>5, <1>6, <1>7, <1>8, <1>10 DEF Next, MainStep

-----------------------------------------------------------------------------
(* The cached mode and the stored one *)

\* Every step keeps the cached mode and the stored one in agreement.
LEMMA CacheStep ==
  ASSUME TypeOK, ModeCacheCoherent, [Next]_vars
  PROVE  ModeCacheCoherent'
<1>. USE DEF clock, caches, storage, requests, resetHistory
<1>1. CASE \/ \E m \in Mode : CliBootSet(m)
           \/ ProcessApply \/ ProcessCommit
  <2>1. nvm' = nvm /\ (\/ UNCHANGED <<usb_boot_mode, queued>>
                       \/ \E m \in Mode : Store(m))
    BY <1>1 DEF CliBootSet, ProcessApply, ProcessCommit, SaveAndReset, TypeOK
  <2>. QED
    BY <2>1 DEF ModeCacheCoherent, Store, Loaded
<1>2. CASE \E w \in BOOLEAN : EepromTask(w)
  BY <1>2 DEF EepromTask, ModeCacheCoherent, Loaded, TypeOK
<1>3. CASE FireReset \/ PowerCut
  BY <1>3 DEF FireReset, PowerCut, Restart, ModeCacheCoherent, Loaded
<1>4. CASE UNCHANGED <<usb_boot_mode, nvm, queued>>
  BY <1>4 DEF ModeCacheCoherent, Loaded
<1>5. CASE \/ CliIdle \/ ProcessEntry \/ ProcessArmed \/ ProcessExpire \/ ProcessDone
           \/ BackgroundEvent \/ BackgroundRequest \/ BackgroundDone \/ ViaDone
           \/ MonitorResetQueues \/ SofEvent \/ Tick \/ UNCHANGED vars
  BY <1>4, <1>5 DEF CliIdle, ProcessEntry, ProcessArmed, ProcessExpire, ProcessDone,
     BackgroundEvent, BackgroundRequest, BackgroundDone, ViaDone, MonitorResetQueues,
     SofEvent, Tick, vars
<1>6. CASE \/ \E m \in Mode : ViaApply(m)
           \/ \E b \in BOOLEAN : ViaToggle(b)
           \/ \E b \in {"app", "boot"} : ViaReset(b)
  BY <1>4, <1>6 DEF ViaApply, ViaToggle, ViaReset
<1>. QED
  BY <1>1, <1>2, <1>3, <1>5, <1>6 DEF Next, MainStep

-----------------------------------------------------------------------------
(* Deadlines on a clock that wraps *)

\* A remainder, where the code takes one: of a sum or a difference of two instants.
LEMMA Remainder ==
  ASSUME NEW x \in -Wrap .. 2 * Wrap - 1
  PROVE  x % Wrap = IF x < 0 THEN x + Wrap ELSE IF x < Wrap THEN x ELSE x - Wrap
<1>1. Wrap \in Nat \ {0} /\ x \in Int
  BY ClockAssumption
<1>2. \A W \in Nat \ {0} : \A y \in -W .. -1 : y % W = y + W
  OBVIOUS
<1>3. \A W \in Nat \ {0} : \A y \in 0 .. W - 1 : y % W = y
  OBVIOUS
<1>4. \A W \in Nat \ {0} : \A y \in W .. 2 * W - 1 : y % W = y - W
  OBVIOUS
<1>5. CASE x < 0
  BY <1>1, <1>2, <1>5
<1>6. CASE 0 <= x /\ x < Wrap
  BY <1>1, <1>3, <1>6
<1>7. CASE Wrap <= x
  BY <1>1, <1>4, <1>7
<1>. QED
  BY <1>1, <1>5, <1>6, <1>7

\* A deadline d ticks ahead has not been reached, one that is past has: as long as
\* the distance is less than half of the clock.
LEMMA Deadline ==
  ASSUME NEW t \in Tick0, NEW d \in Int, -Wrap < d, d <= Wrap
  PROVE  /\ (t + d) % Wrap \in Tick0
         /\ d > 0 /\ 2 * d <= Wrap => ~Reached(t, (t + d) % Wrap)
         /\ d <= 0 /\ -2 * d < Wrap => Reached(t, (t + d) % Wrap)
<1>. DEFINE r == (t + d) % Wrap
<1>1. Wrap \in Nat \ {0} /\ t \in 0 .. Wrap - 1
  BY ClockAssumption
<1>2. r = IF t + d < 0 THEN t + d + Wrap ELSE IF t + d < Wrap THEN t + d ELSE t + d - Wrap
  <2>1. PICK x \in -Wrap .. 2 * Wrap - 1 : x = t + d
    BY <1>1
  <2>2. x % Wrap = IF x < 0 THEN x + Wrap ELSE IF x < Wrap THEN x ELSE x - Wrap
    BY Remainder
  <2>3. r = x % Wrap
    BY <2>1, Zenon
  <2>. HIDE DEF r
  <2>. QED
    BY <1>1, <2>1, <2>2, <2>3
<1>3. r \in 0 .. Wrap - 1
  BY <1>1, <1>2
<1>. HIDE DEF r
<1>4. (t - r) % Wrap = IF t - r < 0 THEN t - r + Wrap ELSE t - r
  <2>1. t - r \in -Wrap .. 2 * Wrap - 1 /\ t - r < Wrap
    BY <1>1, <1>3
  <2>. QED
    BY <2>1, Remainder
<1>5. d > 0 => (t - r) % Wrap = (IF d = Wrap THEN 0 ELSE Wrap - d)
  BY <1>1, <1>2, <1>3, <1>4
<1>6. d <= 0 => (t - r) % Wrap = -d
  BY <1>1, <1>2, <1>3, <1>4
<1>7. d > 0 /\ 2 * d <= Wrap => ~Reached(t, r)
  BY <1>1, <1>5 DEF Reached
<1>8. d <= 0 /\ -2 * d < Wrap => Reached(t, r)
  BY <1>1, <1>6 DEF Reached
<1>. QED
  BY <1>3, <1>7, <1>8 DEF r

\* A deadline stays where it is when the clock ticks.
LEMMA TickNearer ==
  ASSUME NEW t \in Tick0, NEW d \in Int, -Wrap < d, d < Wrap
  PROVE  (Plus(t, 1) + d - 1) % Wrap = (t + d) % Wrap
<1>1. Wrap \in Nat \ {0} /\ t \in 0 .. Wrap - 1
  BY ClockAssumption
<1>2. t + 1 \in -Wrap .. 2 * Wrap - 1 /\ t + d \in -Wrap .. 2 * Wrap - 1
  BY <1>1
<1>3. Plus(t, 1) = IF t + 1 < Wrap THEN t + 1 ELSE 0
  BY <1>1, <1>2, Remainder DEF Plus
<1>4. CASE t + 1 < Wrap
  <2>1. Plus(t, 1) + d - 1 = t + d
    BY <1>1, <1>3, <1>4
  <2>. QED
    BY <2>1
<1>5. CASE t + 1 = Wrap
  <2>1. Plus(t, 1) + d - 1 = d - 1 /\ t + d = d - 1 + Wrap
    BY <1>1, <1>3, <1>5
  <2>2. d - 1 \in -Wrap .. 2 * Wrap - 1 /\ d - 1 < Wrap
    BY <1>1
  <2>3. (d - 1) % Wrap = IF d - 1 < 0 THEN d - 1 + Wrap ELSE d - 1
    BY <2>2, Remainder
  <2>4. (t + d) % Wrap = IF t + d < Wrap THEN t + d ELSE t + d - Wrap
    BY <1>1, <1>2, <1>5, Remainder
  <2>. QED
    BY <1>1, <2>1, <2>2, <2>3, <2>4
<1>. QED
  BY <1>1, <1>4, <1>5

-----------------------------------------------------------------------------
(* A reset is not early *)

\* While the grace of the first request lasts, the deadline is its end, whoever asks
\* again.
ResetDeadline ==
  usb_reset_request.pending /\ resetAge < Grace =>
    usb_reset_request.ready_ms = (now + (Grace - resetAge)) % Wrap

\* A request leaves the deadline of a pending reset alone, or sets it.
LEMMA GraceDeadline ==
  ASSUME TypeOK, ResetDeadline, NEW who, NoteReset(who), now' = now,
         usb_reset_request' \in {GraceReset(usb_reset_request),
                                 [GraceReset(usb_reset_request) EXCEPT !.from_monitor = TRUE]}
  PROVE  ResetDeadline'
<1>1. /\ Wrap \in Nat \ {0} /\ Grace \in Nat /\ 2 * Grace < Wrap /\ now \in 0 .. Wrap - 1
      /\ resetAge \in Nat
  BY ClockAssumption, ClockType DEF TypeOK
<1>2. /\ usb_reset_request'.pending = GraceReset(usb_reset_request).pending
      /\ usb_reset_request'.ready_ms = GraceReset(usb_reset_request).ready_ms
  BY GraceType
<1>3. CASE usb_reset_request.pending
  <2>. SUFFICES ASSUME resetAge < Grace
                PROVE  usb_reset_request'.ready_ms = (now + (Grace - resetAge)) % Wrap
    BY <1>3 DEF ResetDeadline, NoteReset
  <2>. DEFINE r == usb_reset_request.ready_ms
              u == Plus(now, Grace)
  <2>1. r = (now + (Grace - resetAge)) % Wrap
    BY <1>3 DEF ResetDeadline
  <2>2. u = IF now + Grace < Wrap THEN now + Grace ELSE now + Grace - Wrap
    <3>1. now + Grace \in -Wrap .. 2 * Wrap - 1
      BY <1>1
    <3>. QED
      BY <1>1, <3>1, Remainder DEF Plus
  <2>3. r = IF now + Grace - resetAge < Wrap THEN now + Grace - resetAge
                                             ELSE now + Grace - resetAge - Wrap
    <3>1. now + (Grace - resetAge) \in -Wrap .. 2 * Wrap - 1
      BY <1>1
    <3>. QED
      BY <1>1, <2>1, <3>1, Remainder
  <2>. HIDE DEF r, u
  <2>4. ~After(r, u)
    <3>1. r - u \in -Wrap .. 2 * Wrap - 1
      BY <1>1, <2>2, <2>3
    <3>2. (r - u) % Wrap = IF r - u < 0 THEN r - u + Wrap ELSE r - u
      BY <1>1, <2>2, <2>3, <3>1, Remainder
    <3>3. r # u => (r - u) % Wrap = Wrap - resetAge
      BY <1>1, <2>2, <2>3, <3>2
    <3>. QED
      BY <1>1, <3>3 DEF After, Reached
  <2>5. GraceReset(usb_reset_request).ready_ms = r
    BY <1>3, <2>4 DEF GraceReset, r, u, TypeOK
  <2>. QED
    BY <1>2, <2>1, <2>5
<1>4. CASE ~usb_reset_request.pending
  <2>1. resetAge' = 0 /\ GraceReset(usb_reset_request).ready_ms = (now + Grace) % Wrap
    BY <1>4 DEF NoteReset, GraceReset, Plus
  <2>. QED
    BY <1>1, <1>2, <2>1 DEF ResetDeadline
<1>. QED
  BY <1>3, <1>4

LEMMA ResetDeadlineStep ==
  ASSUME TypeOK, ResetDeadline, [Next]_vars
  PROVE  ResetDeadline'
<1>. USE DEF clock, caches, storage, requests, resetHistory
<1>1. CASE UNCHANGED <<now, usb_reset_request, resetAge>>
  BY <1>1 DEF ResetDeadline
<1>2. CASE \E m \in Mode : CliBootSet(m)
  <2>1. PICK m \in Mode : CliBootSet(m)
    BY <1>2
  <2>2. /\ NoteReset("user") /\ now' = now
        /\ usb_reset_request' = GraceReset(usb_reset_request)
    BY <2>1 DEF CliBootSet, SaveAndReset
  <2>. QED
    BY <2>2, GraceDeadline
<1>3. CASE ProcessApply
  <2>1. CASE snap.apply /\ boot_mode_apply_request.pending
    <3>1. /\ NoteReset("user") /\ now' = now
          /\ usb_reset_request' = GraceReset(usb_reset_request)
      BY <1>3, <2>1 DEF ProcessApply, SaveAndReset
    <3>. QED
      BY <3>1, GraceDeadline
  <2>2. CASE ~(snap.apply /\ boot_mode_apply_request.pending)
    BY <1>1, <1>3, <2>2 DEF ProcessApply
  <2>. QED
    BY <2>1, <2>2
<1>4. CASE ProcessCommit
  <2>1. /\ NoteReset("monitor") /\ now' = now
        /\ usb_reset_request' = [GraceReset(usb_reset_request) EXCEPT !.from_monitor = TRUE]
    BY <1>4 DEF ProcessCommit, SaveAndReset
  <2>. QED
    BY <2>1, GraceDeadline
<1>5. CASE \E b \in {"app", "boot"} : ViaReset(b)
  <2>1. /\ NoteReset("user") /\ now' = now
        /\ usb_reset_request' = GraceReset(usb_reset_request)
    BY <1>5 DEF ViaReset
  <2>. QED
    BY <2>1, GraceDeadline
<1>6. CASE MonitorResetQueues
  <2>1. CASE usb_reset_request.from_monitor
    BY <1>6, <2>1 DEF MonitorResetQueues, NoReset, ResetDeadline
  <2>2. CASE ~usb_reset_request.from_monitor
    BY <1>1, <1>6, <2>2 DEF MonitorResetQueues
  <2>. QED
    BY <2>1, <2>2
<1>7. CASE FireReset \/ PowerCut
  BY <1>7 DEF FireReset, PowerCut, Restart, NoReset, ResetDeadline
<1>8. CASE Tick
  <2>. SUFFICES ASSUME usb_reset_request'.pending, resetAge' < Grace
                PROVE  usb_reset_request'.ready_ms = (now' + (Grace - resetAge')) % Wrap
    BY DEF ResetDeadline
  <2>1. /\ Wrap \in Nat \ {0} /\ Grace \in Nat /\ 2 * Grace < Wrap /\ now \in Tick0
        /\ resetAge \in 0 .. Grace
    BY ClockAssumption, ClockType DEF TypeOK, ResetCap
  <2>2. /\ usb_reset_request' = usb_reset_request /\ now' = Plus(now, 1)
        /\ resetAge' = Older(resetAge, ResetCap)
    BY <1>8 DEF Tick
  <2>3. resetAge' = resetAge + 1 /\ resetAge < Grace
    BY <2>1, <2>2 DEF Older, ResetCap
  <2>4. usb_reset_request.ready_ms = (now + (Grace - resetAge)) % Wrap
    BY <2>2, <2>3 DEF ResetDeadline
  <2>5. (now' + (Grace - resetAge) - 1) % Wrap = (now + (Grace - resetAge)) % Wrap
    <3>. DEFINE d == Grace - resetAge
    <3>1. d \in Int /\ -Wrap < d /\ d < Wrap
      BY <2>1, <2>3
    <3>. HIDE DEF d
    <3>2. (Plus(now, 1) + d - 1) % Wrap = (now + d) % Wrap
      BY <2>1, <3>1, TickNearer
    <3>. QED
      BY <2>2, <3>2 DEF d
  <2>6. now' \in Int /\ now' + (Grace - resetAge) - 1 = now' + (Grace - resetAge')
    BY <2>1, <2>2, <2>3, ClockType
  <2>. QED
    BY <2>2, <2>4, <2>5, <2>6
<1>9. CASE \/ CliIdle \/ ProcessEntry \/ ProcessArmed \/ ProcessExpire \/ ProcessDone
           \/ BackgroundEvent \/ BackgroundRequest \/ BackgroundDone \/ ViaDone
           \/ \E m \in Mode : ViaApply(m)
           \/ \E b \in BOOLEAN : ViaToggle(b)
           \/ \E w \in BOOLEAN : EepromTask(w)
           \/ SofEvent \/ UNCHANGED vars
  BY <1>1, <1>9 DEF CliIdle, ProcessEntry, ProcessArmed, ProcessExpire, ProcessDone,
     BackgroundEvent, BackgroundRequest, BackgroundDone, ViaDone, ViaApply, ViaToggle,
     EepromTask, SofEvent, vars
<1>. QED
  BY <1>2, <1>3, <1>4, <1>5, <1>6, <1>7, <1>8, <1>9 DEF Next, MainStep

\* A deadline that is reached is one whose grace is over.
LEMMA DueIsOld ==
  ASSUME TypeOK, ResetDeadline, FireReset
  PROVE  resetAge >= Grace
<1>. SUFFICES ASSUME resetAge < Grace PROVE FALSE
  BY ClockType, ClockAssumption DEF TypeOK
<1>1. /\ Wrap \in Nat \ {0} /\ Grace \in Nat /\ 2 * Grace < Wrap /\ now \in Tick0
      /\ resetAge \in Nat
  BY ClockAssumption, ClockType DEF TypeOK
<1>2. /\ Reached(now, usb_reset_request.ready_ms)
      /\ usb_reset_request.ready_ms = (now + (Grace - resetAge)) % Wrap
  BY DEF FireReset, ResetDue, ResetDeadline
<1>. DEFINE d == Grace - resetAge
<1>3. d \in Int /\ d > 0 /\ 2 * d <= Wrap /\ -Wrap < d /\ d <= Wrap
  BY <1>1
<1>4. ~Reached(now, (now + d) % Wrap)
  BY <1>1, <1>3, Deadline
<1>. QED
  BY <1>2, <1>4

-----------------------------------------------------------------------------
(* The confirmation window *)

\* Both deadlines of an armed request count from the event that armed it.
ArmDeadlines ==
  boot_mode_request.stage = "ARMED" =>
    /\ boot_mode_request.ready_ms = (now + (Confirm - armAge)) % Wrap
    /\ boot_mode_request.timeout_ms = (now + (2 * Confirm - armAge)) % Wrap

\* The points of a pass at which the armed request has not been looked at.
Unserved == {"cli", "process", "apply", "downgrade", "expire"}

\* How old an armed request may be: each pass looks at it once, unless it was armed
\* after the snapshot of that pass.
ArmBound ==
  boot_mode_request.stage = "ARMED" =>
    /\ armAge <= 2 * Confirm + lag + (IF pc \in Unserved THEN MaxLag ELSE 0)
    /\ pc \in {"apply", "downgrade"} /\ ~snap.monitor => armAge <= lag

\* A committed request has waited for its confirmation.
LateCommit == boot_mode_request.stage = "COMMIT" => armAge >= Confirm

\* What the main loop has read is still there when it acts on it, or further on.
SeenIsThere == pc = "request" /\ seen # "IDLE" => boot_mode_request.stage # "IDLE"

Window == ArmDeadlines /\ ArmBound /\ LateCommit /\ SeenIsThere

\* The numbers behind it.
LEMMA WindowNumbers ==
  ASSUME TypeOK
  PROVE  /\ Wrap \in Nat \ {0} /\ Confirm \in Nat /\ MaxLag \in Nat /\ lag \in 0 .. MaxLag
         /\ now \in Tick0 /\ armAge \in 0 .. ArmCap /\ armAge \in Nat
         /\ ArmCap = 2 * Confirm + 2 * MaxLag + 1
         /\ 4 * Confirm < Wrap /\ 4 * MaxLag < Wrap /\ 4 * Confirm + 2 * MaxLag < Wrap
BY ClockAssumption, ClockType DEF TypeOK, ArmCap

\* An armed request is never as old as its history can tell.
LEMMA ArmedAge ==
  ASSUME TypeOK, ArmBound, boot_mode_request.stage = "ARMED"
  PROVE  armAge <= 2 * Confirm + 2 * MaxLag
BY WindowNumbers DEF ArmBound

\* An event commits the request only after the confirm delay, and arms an idle slot.
LEMMA RequestKeeps ==
  ASSUME TypeOK, ArmDeadlines, LateCommit, NEW stage \in Stage,
         stage # "IDLE" => boot_mode_request.stage # "IDLE",
         RequestDowngrade(stage), now' = now
  PROVE  /\ ArmDeadlines' /\ LateCommit' /\ boot_mode_request'.stage # "IDLE"
         /\ boot_mode_request'.stage = "ARMED" =>
              armAge' = 0 \/ (boot_mode_request.stage = "ARMED" /\ armAge' = armAge)
<1>1. boot_mode_request \in
        [stage : Stage, next_mode : Mode, ready_ms : Tick0, timeout_ms : Tick0]
  BY DEF TypeOK
<1>2. CASE stage = "IDLE"
  <2>1. /\ armAge' = 0 /\ boot_mode_request'.stage = "ARMED"
        /\ boot_mode_request'.ready_ms = (now + Confirm) % Wrap
        /\ boot_mode_request'.timeout_ms = (now + 2 * Confirm) % Wrap
    BY <1>2 DEF RequestDowngrade, Requested, Plus
  <2>2. now + (Confirm - 0) = now + Confirm /\ now + (2 * Confirm - 0) = now + 2 * Confirm
    BY WindowNumbers
  <2>. QED
    BY <2>1, <2>2 DEF ArmDeadlines, LateCommit
<1>3. CASE stage = "ARMED"
  <2>1. /\ armAge' = armAge
        /\ boot_mode_request' =
             [boot_mode_request EXCEPT
                !.next_mode = Target,
                !.stage = IF Reached(now, boot_mode_request.ready_ms) THEN "COMMIT" ELSE @]
    BY <1>3 DEF RequestDowngrade, Requested
  <2>2. /\ boot_mode_request'.stage = IF Reached(now, boot_mode_request.ready_ms)
                                      THEN "COMMIT" ELSE boot_mode_request.stage
        /\ boot_mode_request'.ready_ms = boot_mode_request.ready_ms
        /\ boot_mode_request'.timeout_ms = boot_mode_request.timeout_ms
    BY <1>1, <2>1
  <2>3. ASSUME boot_mode_request.stage = "ARMED", Reached(now, boot_mode_request.ready_ms)
        PROVE  armAge >= Confirm
    <3>. SUFFICES ASSUME armAge < Confirm PROVE FALSE
      BY WindowNumbers
    <3>. DEFINE d == Confirm - armAge
    <3>1. d \in Int /\ d > 0 /\ 2 * d <= Wrap /\ -Wrap < d /\ d <= Wrap
      BY WindowNumbers
    <3>2. boot_mode_request.ready_ms = (now + d) % Wrap
      BY <2>3 DEF ArmDeadlines
    <3>. HIDE DEF d
    <3>3. ~Reached(now, (now + d) % Wrap)
      BY <3>1, WindowNumbers, Deadline
    <3>. QED
      BY <2>3, <3>2, <3>3
  <2>4. boot_mode_request.stage \in {"ARMED", "COMMIT"}
    BY <1>1, <1>3
  <2>. QED
    BY <2>1, <2>2, <2>3, <2>4 DEF ArmDeadlines, LateCommit
<1>4. CASE stage = "COMMIT"
  <2>1. armAge' = armAge /\ boot_mode_request' = boot_mode_request
    BY <1>4 DEF RequestDowngrade, Requested
  <2>. QED
    BY <1>1, <1>4, <2>1 DEF ArmDeadlines, LateCommit
<1>. QED
  BY <1>2, <1>3, <1>4

\* The main loop drops an armed request at its second look at the latest.
LEMMA ArmedIsYoung ==
  ASSUME TypeOK, Window, ProcessArmed, boot_mode_request.stage = "ARMED", pc' = "reset"
  PROVE  armAge <= 2 * Confirm + lag
<1>1. pc = "downgrade"
  BY DEF ProcessArmed
<1>2. CASE ~snap.monitor
  BY <1>1, <1>2, WindowNumbers DEF Window, ArmBound
<1>3. CASE snap.monitor
  <2>. DEFINE d == 2 * Confirm - armAge
  <2>1. ~Reached(now, boot_mode_request.timeout_ms)
    BY <1>3 DEF ProcessArmed
  <2>2. boot_mode_request.timeout_ms = (now + d) % Wrap
    BY DEF Window, ArmDeadlines
  <2>3. armAge <= 2 * Confirm + 2 * MaxLag
    BY ArmedAge DEF Window
  <2>4. d \in Int /\ -Wrap < d /\ d <= Wrap /\ -2 * d < Wrap
    BY <2>3, WindowNumbers
  <2>5. d > 0
    <3>. HIDE DEF d
    <3>1. d <= 0 => Reached(now, (now + d) % Wrap)
      BY <2>4, WindowNumbers, Deadline
    <3>. QED
      BY <2>1, <2>2, <2>4, <3>1
  <2>. QED
    BY <2>5, WindowNumbers
<1>. QED
  BY <1>2, <1>3

LEMMA WindowStep ==
  ASSUME TypeOK, MonitorOffIsQuiet, Window, [Next]_vars
  PROVE  Window'
<1>. USE DEF clock, caches, storage, requests, resetHistory
<1>1. CASE /\ UNCHANGED <<now, lag, seen, boot_mode_request, armAge>>
           /\ pc # "request" => pc' # "request"
           /\ pc' \in Unserved \/ pc \notin Unserved
           /\ pc' \in Unserved => pc \in Unserved
           /\ pc' \in {"apply", "downgrade"} => pc \in {"apply", "downgrade"} /\ snap' = snap
  BY <1>1 DEF Window, ArmDeadlines, ArmBound, LateCommit, SeenIsThere
<1>2. CASE \/ \E m \in Mode : CliBootSet(m)
           \/ CliIdle \/ ProcessApply \/ ProcessDone
           \/ BackgroundDone \/ ViaDone
           \/ \E m \in Mode : ViaApply(m)
           \/ \E b \in BOOLEAN : ViaToggle(b)
           \/ \E b \in {"app", "boot"} : ViaReset(b)
           \/ UNCHANGED vars
  BY <1>1, <1>2 DEF CliBootSet, CliIdle, ProcessApply, ProcessDone, BackgroundDone, ViaDone,
     ViaApply, ViaToggle, ViaReset, HostCommand, Unserved, vars
<1>3. CASE ProcessEntry
  <2>1. boot_mode_request.stage = "ARMED" => snap'.monitor
    BY <1>3 DEF ProcessEntry, MonitorOffIsQuiet
  <2>2. /\ UNCHANGED <<now, lag, boot_mode_request, armAge>>
        /\ pc = "process" /\ pc' = "apply"
    BY <1>3 DEF ProcessEntry
  <2>. QED
    BY <2>1, <2>2 DEF Window, ArmDeadlines, ArmBound, LateCommit, SeenIsThere, Unserved
<1>4. CASE ProcessArmed
  <2>1. /\ UNCHANGED <<now, lag, boot_mode_request, armAge>>
        /\ pc = "downgrade" /\ pc' \in {"expire", "reset"}
    BY <1>4 DEF ProcessArmed
  <2>2. pc' = "reset" /\ boot_mode_request.stage = "ARMED" => armAge <= 2 * Confirm + lag
    BY <1>4, ArmedIsYoung
  <2>3. ArmBound'
    BY <2>1, <2>2, WindowNumbers DEF Window, ArmBound, Unserved
  <2>. QED
    BY <2>1, <2>3 DEF Window, ArmDeadlines, LateCommit, SeenIsThere
<1>5. CASE ProcessExpire \/ ProcessCommit \/ MonitorResetQueues \/ FireReset \/ PowerCut
  <2>1. boot_mode_request'.stage = "IDLE" /\ pc' # "request"
    BY <1>5 DEF ProcessExpire, ProcessCommit, MonitorResetQueues, FireReset, PowerCut, Restart,
       NoRequest
  <2>. QED
    BY <2>1 DEF Window, ArmDeadlines, ArmBound, LateCommit, SeenIsThere
<1>6. CASE BackgroundEvent
  <2>1. /\ UNCHANGED <<now, lag, boot_mode_request, armAge>>
        /\ seen' = boot_mode_request.stage /\ pc = "background" /\ pc' = "request"
    BY <1>6 DEF BackgroundEvent
  <2>. QED
    BY <2>1 DEF Window, ArmDeadlines, ArmBound, LateCommit, SeenIsThere, Unserved
<1>7. CASE BackgroundRequest
  <2>1. /\ seen \in Stage /\ (seen # "IDLE" => boot_mode_request.stage # "IDLE")
        /\ RequestDowngrade(seen) /\ UNCHANGED <<now, lag>> /\ pc = "request" /\ pc' = "via"
    BY <1>7 DEF BackgroundRequest, Window, SeenIsThere, TypeOK
  <2>2. /\ ArmDeadlines' /\ LateCommit'
        /\ boot_mode_request'.stage = "ARMED" =>
             armAge' = 0 \/ (boot_mode_request.stage = "ARMED" /\ armAge' = armAge)
    BY <2>1, RequestKeeps DEF Window
  <2>3. ArmBound'
    BY <2>1, <2>2, WindowNumbers DEF Window, ArmBound, Unserved
  <2>. QED
    BY <2>1, <2>2, <2>3 DEF Window, SeenIsThere
<1>8. CASE SofEvent
  <2>1. /\ boot_mode_request.stage \in Stage
        /\ RequestDowngrade(boot_mode_request.stage) /\ UNCHANGED <<now, lag, pc, snap, seen>>
    BY <1>8 DEF SofEvent, TypeOK
  <2>2. /\ ArmDeadlines' /\ LateCommit' /\ boot_mode_request'.stage # "IDLE"
        /\ boot_mode_request'.stage = "ARMED" =>
             armAge' = 0 \/ (boot_mode_request.stage = "ARMED" /\ armAge' = armAge)
    BY <2>1, RequestKeeps DEF Window
  <2>3. ArmBound'
    BY <2>1, <2>2, WindowNumbers DEF Window, ArmBound
  <2>. QED
    BY <2>2, <2>3 DEF Window, SeenIsThere
<1>9. CASE \E w \in BOOLEAN : EepromTask(w)
  <2>1. /\ UNCHANGED <<now, boot_mode_request, armAge>>
        /\ pc = "eeprom" /\ pc' = "cli" /\ lag' = 0
    BY <1>9 DEF EepromTask
  <2>2. ArmBound'
    BY <2>1, WindowNumbers DEF Window, ArmBound, Unserved
  <2>. QED
    BY <2>1, <2>2 DEF Window, ArmDeadlines, LateCommit, SeenIsThere
<1>10. CASE Tick
  <2>1. /\ UNCHANGED <<pc, snap, seen, boot_mode_request>> /\ lag' = lag + 1
        /\ now' = Plus(now, 1)
        /\ armAge' = IF boot_mode_request.stage = "ARMED" THEN Older(armAge, ArmCap) ELSE armAge
    BY <1>10 DEF Tick
  <2>2. ASSUME boot_mode_request.stage = "ARMED"
        PROVE  /\ armAge' = armAge + 1
               /\ boot_mode_request.ready_ms = (now' + (Confirm - armAge')) % Wrap
               /\ boot_mode_request.timeout_ms = (now' + (2 * Confirm - armAge')) % Wrap
    <3>1. armAge <= 2 * Confirm + 2 * MaxLag
      BY <2>2, ArmedAge DEF Window
    <3>2. armAge' = armAge + 1
      BY <2>1, <2>2, <3>1, WindowNumbers DEF Older
    <3>3. /\ boot_mode_request.ready_ms = (now + (Confirm - armAge)) % Wrap
          /\ boot_mode_request.timeout_ms = (now + (2 * Confirm - armAge)) % Wrap
      BY <2>2 DEF Window, ArmDeadlines
    <3>4. ASSUME NEW d \in Int, -Wrap < d, d < Wrap
          PROVE  (now' + (d - 1)) % Wrap = (now + d) % Wrap
      <4>1. (Plus(now, 1) + d - 1) % Wrap = (now + d) % Wrap
        BY <3>4, WindowNumbers, TickNearer
      <4>2. Plus(now, 1) \in Int
        <5>1. now \in Tick0 /\ 1 \in Nat
          BY WindowNumbers DEF TypeOK
        <5>2. Plus(now, 1) \in Tick0
          BY <5>1, ClockType
        <5>. QED
          BY <5>2, WindowNumbers
      <4>3. Plus(now, 1) + d - 1 = Plus(now, 1) + (d - 1)
        BY <3>4, <4>2
      <4>. QED
        BY <2>1, <4>1, <4>3
    <3>5. /\ Confirm - armAge \in Int /\ -Wrap < Confirm - armAge /\ Confirm - armAge < Wrap
          /\ (Confirm - armAge) - 1 = Confirm - armAge'
      BY <3>1, <3>2, WindowNumbers
    <3>6. /\ 2 * Confirm - armAge \in Int /\ -Wrap < 2 * Confirm - armAge
          /\ 2 * Confirm - armAge < Wrap /\ (2 * Confirm - armAge) - 1 = 2 * Confirm - armAge'
      BY <3>1, <3>2, WindowNumbers
    <3>7. (now' + (Confirm - armAge')) % Wrap = (now + (Confirm - armAge)) % Wrap
      BY <3>4, <3>5
    <3>8. (now' + (2 * Confirm - armAge')) % Wrap = (now + (2 * Confirm - armAge)) % Wrap
      BY <3>4, <3>6
    <3>. QED
      BY <3>2, <3>3, <3>7, <3>8
  <2>3. ArmDeadlines'
    BY <2>1, <2>2 DEF ArmDeadlines
  <2>4. ArmBound'
    BY <2>1, <2>2, WindowNumbers DEF Window, ArmBound
  <2>5. LateCommit' /\ SeenIsThere'
    BY <2>1 DEF Window, LateCommit, SeenIsThere
  <2>. QED
    BY <2>3, <2>4, <2>5 DEF Window
<1>. QED
  BY <1>2, <1>3, <1>4, <1>5, <1>6, <1>7, <1>8, <1>9, <1>10 DEF Next, MainStep

-----------------------------------------------------------------------------

\* The inductive invariant.  MonitorOffIsQuiet needs RequestReady, or a request
\* of the main loop could arm a downgrade after the toggle went off, and
\* QuietIsOff, or the reset of the queues could end with the toggle on.
IInv ==
  /\ TypeOK /\ RequestReady /\ QuietIsOff /\ MonitorOffIsQuiet /\ ModeCacheCoherent
  /\ ResetDeadline /\ Window

\* The inductive invariant holds in every reachable state.
THEOREM IInvHolds == Spec => []IInv
<1>1. Init => IInv
  <2>1. Init => TypeOK
    BY TypeInit
  <2>2. Init => RequestReady /\ QuietIsOff
    BY DEF Init, RequestReady, QuietIsOff
  <2>3. Init => MonitorOffIsQuiet /\ ModeCacheCoherent
    BY DEF Init, MonitorOffIsQuiet, ModeCacheCoherent, NoRequest, NoReset, Loaded
  <2>4. Init => ResetDeadline /\ Window
    BY DEF Init, ResetDeadline, Window, ArmDeadlines, ArmBound, LateCommit, SeenIsThere,
       NoRequest, NoReset
  <2>. QED
    BY <2>1, <2>2, <2>3, <2>4 DEF IInv
<1>2. IInv /\ [Next]_vars => IInv'
  BY TypeStep, RequestReadyStep, QuietIsOffStep, QuietStep, CacheStep, ResetDeadlineStep,
     WindowStep DEF IInv
<1>. QED
  BY <1>1, <1>2, PTL DEF Spec

\* Every variable keeps its type, for any delays and any width of the clock.
THEOREM TypeCorrect == Spec => []TypeOK
<1>1. IInv => TypeOK
  BY DEF IInv
<1>. QED
  BY <1>1, IInvHolds, PTL

\* Switching the monitor off leaves nothing of it behind, wherever the interrupt
\* comes (usb.c:117-127, 522-540).
THEOREM OffIsQuiet == Spec => []MonitorOffIsQuiet
<1>1. IInv => MonitorOffIsQuiet
  BY DEF IInv
<1>. QED
  BY <1>1, IInvHolds, PTL

\* The mode in RAM is the stored one unless its write is queued (usb.c:202-215).
THEOREM CacheCoherent == Spec => []ModeCacheCoherent
<1>1. IInv => ModeCacheCoherent
  BY DEF IInv
<1>. QED
  BY <1>1, IInvHolds, PTL

\* A downgrade is committed only by an event that comes at least the confirm delay
\* after the one that armed it, and an unconfirmed one is gone after twice that delay
\* and two passes of the main loop, however the clock wraps and whoever armed it
\* (usb.c:294-333, 381-384).
THEOREM ConfirmedInWindow == Spec => []ConfirmWindow
<1>1. IInv => ConfirmWindow
  <2>. SUFFICES ASSUME IInv PROVE ConfirmWindow
    OBVIOUS
  <2>1. boot_mode_request.stage = "COMMIT" => armAge >= Confirm
    BY DEF IInv, Window, LateCommit
  <2>2. boot_mode_request.stage = "ARMED" => armAge <= 2 * Confirm + 2 * MaxLag
    BY ArmedAge DEF IInv, Window
  <2>. QED
    BY <2>1, <2>2 DEF ConfirmWindow
<1>. QED
  BY <1>1, IInvHolds, PTL

\* No reset comes before the grace of the request that made it pending is over, however
\* often a reset is asked for meanwhile (usb.c:269-291, 415-438).
THEOREM NeverEarly == Spec => ResetNotEarly
<1>1. IInv /\ [Next]_vars => [FireReset => resetAge >= Grace]_vars
  BY DueIsOld DEF IInv
<1>. QED
  BY <1>1, IInvHolds, PTL DEF Spec, ResetNotEarly

=============================================================================
