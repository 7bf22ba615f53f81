---------------------------- MODULE FactoryReset ----------------------------
(***************************************************************************)
(* The factory reset of src/src/hw/driver/eeprom_auto_factory_reset.c,     *)
(* with the boot sequence around it (src/src/hw/hw.c, main.c, qmk.c) and   *)
(* the routine that writes the defaults (port/platforms/eeprom.c           *)
(* eeprom_apply_factory_defaults, port/eeconfig_port.c, quantum eeconfig.c *)
(* and via.c).                                                             *)
(*                                                                         *)
(* A sentinel, two words of the user block, tells the next boot that the   *)
(* reset was completed: the flag MAGIC and the cookie of this firmware.    *)
(* VIA asks for a reset by clearing both, straight on the chip.            *)
(*                                                                         *)
(* Abstractions                                                            *)
(*  - the EEPROM is seven cells: QMK's magic word, the user block (boot    *)
(*    mode, monitor, debounce, ...), the two words of the sentinel, VIA's  *)
(*    magic, and the keymap and the macros behind it.  A block lands as a  *)
(*    whole.                                                               *)
(*  - the write-behind queue is the one of module EepromStore: entries     *)
(*    land in order, and a transfer that fails or is cut short leaves part *)
(*    of a run of one page on the chip.  When a run is sent is left open   *)
(*    (a full queue, a flush or eeprom_task).                              *)
(*  - reads do not fail, but for the sentinel's.                           *)
(*  - the routines that write the defaults are lists of writes, made one   *)
(*    by one: `todo' is what is left of them.                              *)
(***************************************************************************)
EXTENDS Integers, Sequences

CONSTANTS
  Attempts,  \* retry_limit of hwRunFactoryResetWithRetry
  MaxCuts,   \* bound: resets and power cuts in a behaviour
  MaxSaves,  \* bound: queued entries beyond which the user saves nothing
  ClearsHere,\* whether the CLI and the keycode clear the EEPROM too
  Faulty     \* whether transfers fail

ASSUME FactoryAssumption ==
  /\ Attempts \in Nat \ {0} /\ MaxCuts \in Nat /\ MaxSaves \in Nat
  /\ ClearsHere \in BOOLEAN /\ Faulty \in BOOLEAN

VARIABLES
  chip,     \* the cells of the EEPROM
  buf,      \* the RAM mirror
  q,        \* the write-behind queue, entries [cell, val]
  todo,     \* what is left of the routine that is running
  pc,       \* "check", "apply" (in hwInit), "start", "run", "clear" (between the
            \* two writes of a VIA clear), "halt"
  attempt,  \* attempts of hwRunFactoryResetWithRetry that failed
  resetDue, \* a clear has scheduled a reset
  asked,    \* history: who asked for a reset that may not have been completed:
            \* new firmware, VIA, or a command that clears while running
  owed,     \* history: an acknowledged clear has not reached the chip yet
  cuts      \* restarts so far

vars == <<chip, buf, q, todo, pc, attempt, resetDue, asked, owed, cuts>>

-----------------------------------------------------------------------------
(* The cells *)

Values == [magic  |-> {"on", "off"},
           user   |-> {"user", "zero", "def"},
           flag   |-> {"magic", "zero"},
           cookie |-> {"this", "other", "zero"},
           via    |-> {"valid", "invalid"},
           map    |-> {"user", "def"},
           macro  |-> {"user", "def"}]

Cell == DOMAIN Values

\* The pages, and the order of addresses within one.
Page  == [magic |-> 0, user |-> 1, flag |-> 1, cookie |-> 1, via |-> 2, map |-> 2, macro |-> 3]
Place == [magic |-> 0, user |-> 0, flag |-> 1, cookie |-> 2, via |-> 0, map |-> 1, macro |-> 0]

Sentinel(c)  == c.flag = "magic" /\ c.cookie = "this"
Defaulted(c) == c.user = "def" /\ c.map = "def" /\ c.macro = "def"

-----------------------------------------------------------------------------
(* The routines that write the defaults *)

Update(cell, val) == [op |-> "update", cell |-> cell, val |-> val]
Write(cell, val)  == [op |-> "write", cell |-> cell, val |-> val]
Flush             == [op |-> "flush", cell |-> "magic", val |-> "on"]

\* Mutant: the cookie is left cleared.
UserDatablockNoCookie ==
  << Update("user", "zero"), Update("flag", "zero"), Update("cookie", "zero"),
     Update("user", "def"), Update("flag", "magic") >>

\* eeconfig_init_user_datablock: the block is zeroed, the defaults follow, then
\* the sentinel.
eeconfig_init_user_datablock ==
  << Update("user", "zero"), Update("flag", "zero"), Update("cookie", "zero"),
     Update("user", "def"), Update("flag", "magic"), Update("cookie", "this") >>

\* Mutant: the magic is saved before the macros.
InitViaEarly ==
  << Update("via", "invalid"), Update("map", "def"), Update("via", "valid"),
     Update("macro", "def") >>

\* eeconfig_init_via
eeconfig_init_via ==
  << Update("via", "invalid"), Update("map", "def"), Update("macro", "def"),
     Update("via", "valid") >>

\* eeconfig_init_quantum
eeconfig_init ==
  << Update("magic", "on") >> \o eeconfig_init_user_datablock
  \o << Update("via", "invalid") >> \o eeconfig_init_via

\* eeprom_apply_factory_defaults(true)
eeprom_apply_factory_defaults ==
  << Flush, Update("magic", "off") >> \o eeconfig_init
  \o eeconfig_init_user_datablock \o << Flush, Flush >>
  \o << Write("flag", "magic"), Write("cookie", "this"), Flush >>

\* via_init and quantum_init, on a mirror just read.
keyboard_init(c) ==
  (IF c.via = "valid" THEN <<>> ELSE eeconfig_init_via)
  \o (IF c.magic = "on" THEN <<>> ELSE eeconfig_init)

-----------------------------------------------------------------------------
(* The chip and the queue *)

\* The first n entries of the queue go to ascending places of one page.
Run(n) ==
  /\ n \in 1 .. Len(q)
  /\ \A i \in 1 .. n - 1 : /\ Page[q[i].cell] = Page[q[i + 1].cell]
                           /\ Place[q[i].cell] < Place[q[i + 1].cell]

\* The chip once the entries at the places in S have landed.
Landed(S) ==
  [c \in Cell |-> IF \E i \in S : q[i].cell = c
                  THEN q[CHOOSE i \in S : q[i].cell = c].val
                  ELSE chip[c]]

\* What the histories become when the chip does.
Note == owed' = (owed /\ ~Defaulted(chip'))

\* eeprom_update sends a run ...
Send(n) ==
  /\ Run(n)
  /\ chip' = Landed(1 .. n)
  /\ q' = SubSeq(q, n + 1, Len(q))
  /\ Note
  /\ UNCHANGED <<buf, todo, pc, attempt, resetDue, asked, cuts>>

\* ... or only part of it lands, and the queue is as before.
SendFails(S) ==
  /\ Faulty
  /\ \E n \in 1 .. 3 : Run(n) /\ S \subseteq 1 .. n
  /\ chip' = Landed(S)
  /\ Note
  /\ UNCHANGED <<buf, q, todo, pc, attempt, resetDue, asked, cuts>>

\* eeprom_init
eeprom_init == buf' = chip' /\ q' = <<>>

\* A write that goes past the queue, and may fail after it landed.
Direct(cell, ok, landed) ==
  /\ ok => landed
  /\ ok \/ Faulty
  /\ chip' = IF landed THEN [chip EXCEPT ![cell] = "zero"] ELSE chip

-----------------------------------------------------------------------------
(* hwInit *)

\* A chip in use, with this firmware's sentinel or another one's, or a blank one.
Init ==
  /\ chip \in {[magic |-> f[1], user |-> "user", flag |-> f[2], cookie |-> f[3],
                via |-> v, map |-> "user", macro |-> "user"] :
                 f \in {<<"on", "magic", "this">>, <<"on", "magic", "other">>,
                        <<"off", "zero", "other">>},
                 v \in {"valid", "invalid"}}
  /\ buf = chip /\ q = <<>> /\ todo = <<>> /\ pc = "check" /\ attempt = 0
  /\ resetDue = FALSE /\ owed = FALSE /\ cuts = 0
  /\ asked = IF Sentinel(chip) THEN {} ELSE {"firmware"}

\* Mutant: one attempt too many.
FailsOneMore ==
  /\ attempt' = attempt + 1
  /\ pc' = IF attempt' <= Attempts THEN "check" ELSE "halt"
  /\ todo' = <<>> /\ eeprom_init

\* Mutant: the attempts are not counted.
FailsUncounted ==
  /\ attempt' = attempt
  /\ pc' = "check"
  /\ todo' = <<>> /\ eeprom_init

\* An attempt of hwRunFactoryResetWithRetry fails: the mirror is read again, and
\* after the last one hwInit returns false and main stops.
Fails ==
  /\ attempt' = attempt + 1
  /\ pc' = IF attempt' < Attempts THEN "check" ELSE "halt"
  /\ todo' = <<>> /\ eeprom_init

\* eepromAutoFactoryResetCheck cannot read the sentinel.
CheckFails ==
  /\ pc = "check" /\ Faulty
  /\ UNCHANGED chip /\ Fails
  /\ UNCHANGED <<resetDue, asked, owed, cuts>>

\* The sentinel vouches: no reset.
CheckPasses ==
  /\ pc = "check" /\ Sentinel(chip)
  /\ pc' = "start"
  /\ asked' = IF chip.magic = "off" THEN asked \cap {"here"} ELSE {}
  /\ UNCHANGED <<chip, buf, q, todo, attempt, resetDue, owed, cuts>>

\* It does not: a flag of other firmware is cleared first, formatting does
\* nothing, and the defaults are to be written.
CheckBegins(ok, landed) ==
  /\ pc = "check" /\ ~Sentinel(chip)
  /\ IF chip.flag = "magic"
     THEN Direct("flag", ok, landed)
     ELSE ok /\ landed /\ UNCHANGED chip
  /\ IF ok
     THEN /\ pc' = "apply" /\ todo' = eeprom_apply_factory_defaults
          /\ eeprom_init /\ UNCHANGED attempt
     ELSE Fails
  /\ UNCHANGED <<resetDue, asked, owed, cuts>>

\* The next write of the routine: into the mirror, and into the queue unless it
\* is an update that changes nothing.
NextWrite ==
  /\ todo # <<>> /\ Head(todo).op # "flush"
  /\ LET w == Head(todo) IN
     /\ buf' = [buf EXCEPT ![w.cell] = w.val]
     /\ q' = IF w.op = "update" /\ buf[w.cell] = w.val
             THEN q ELSE Append(q, [cell |-> w.cell, val |-> w.val])
  /\ todo' = Tail(todo)
  /\ UNCHANGED <<chip, pc, attempt, resetDue, asked, owed, cuts>>

\* Mutant: what is queued is not waited for.
FlushReturnsAtOnce ==
  /\ todo # <<>> /\ Head(todo).op = "flush"
  /\ todo' = Tail(todo)
  /\ UNCHANGED <<chip, buf, q, pc, attempt, resetDue, asked, owed, cuts>>

\* eeprom_flush_pending returns true ...
FlushReturns ==
  /\ todo # <<>> /\ Head(todo).op = "flush" /\ q = <<>>
  /\ todo' = Tail(todo)
  /\ UNCHANGED <<chip, buf, q, pc, attempt, resetDue, asked, owed, cuts>>

\* ... or gives up, and the attempt has failed.
FlushGivesUp ==
  /\ todo # <<>> /\ Head(todo).op = "flush" /\ q # <<>> /\ Faulty
  /\ UNCHANGED chip /\ Fails
  /\ UNCHANGED <<resetDue, asked, owed, cuts>>

\* eepromAutoFactoryResetCheck returns true after the defaults were applied.
ApplyDone ==
  /\ pc = "apply" /\ todo = <<>>
  /\ pc' = "start"
  /\ asked' = {}
  /\ UNCHANGED <<chip, buf, q, todo, attempt, resetDue, owed, cuts>>

\* qmkInit
QmkInit ==
  /\ pc = "start"
  /\ pc' = "run"
  /\ UNCHANGED chip /\ eeprom_init
  /\ todo' = keyboard_init(chip)
  /\ UNCHANGED <<attempt, resetDue, asked, owed, cuts>>

-----------------------------------------------------------------------------
(* The main loop *)

Running == pc = "run" /\ todo = <<>>

\* A setting or a key changes (eeprom_update_*).
Save(cell) ==
  /\ Running /\ Len(q) < MaxSaves
  /\ todo' = << Update(cell, "user") >>
  /\ UNCHANGED <<chip, buf, q, pc, attempt, resetDue, asked, owed, cuts>>

\* CLI `qmk clear eeprom': the defaults are written while running.
CliClear ==
  /\ Running /\ ClearsHere /\ asked = {}
  /\ todo' = eeconfig_init
  /\ asked' = {"here"}
  /\ UNCHANGED <<chip, buf, q, pc, attempt, resetDue, owed, cuts>>

\* QK_CLEAR_EEPROM: QMK's magic is cleared, and a reset scheduled.
KeyClear ==
  /\ Running /\ ClearsHere /\ asked = {}
  /\ todo' = << Update("magic", "off") >>
  /\ asked' = {"here"} /\ resetDue' = TRUE
  /\ UNCHANGED <<chip, buf, q, pc, attempt, owed, cuts>>

\* eepromScheduleDeferredFactoryReset: the flag, then the cookie, and a reset is
\* scheduled once both are cleared.
ClearFlag(ok, landed) ==
  /\ Running /\ ~owed
  /\ Direct("flag", ok, landed)
  /\ pc' = IF ok THEN "clear" ELSE pc
  /\ asked' = asked \cup {"via"}
  /\ UNCHANGED <<buf, q, todo, attempt, resetDue, owed, cuts>>

ClearCookie(ok, landed) ==
  /\ pc = "clear" /\ pc' = "run"
  /\ Direct("cookie", ok, landed)
  /\ resetDue' = (resetDue \/ ok)
  /\ owed' = (ok /\ ~Defaulted(chip'))
  /\ UNCHANGED <<buf, q, todo, attempt, asked, cuts>>

-----------------------------------------------------------------------------

\* Power is cut, or the scheduled reset comes, possibly while a run is being sent.
Restart(S) ==
  /\ resetDue \/ cuts < MaxCuts
  /\ S = {} \/ \E n \in 1 .. 3 : Run(n) /\ S \subseteq 1 .. n
  /\ chip' = Landed(S)
  /\ Note
  /\ eeprom_init
  /\ todo' = <<>> /\ pc' = "check" /\ attempt' = 0 /\ resetDue' = FALSE
  /\ cuts' = IF resetDue THEN cuts ELSE cuts + 1
  /\ asked' = IF Running /\ q = <<>> /\ chip.magic = "on" THEN asked \ {"here"} ELSE asked

Booting ==
  \/ CheckFails \/ CheckPasses
  \/ \E ok, landed \in BOOLEAN : CheckBegins(ok, landed)
  \/ NextWrite \/ FlushReturns \/ FlushGivesUp
  \/ ApplyDone \/ QmkInit

Sending == \E n \in 1 .. 3 : Send(n)

Next ==
  \/ Booting
  \/ Sending
  \/ \E S \in SUBSET (1 .. 3) : SendFails(S)
  \/ \E c \in {"user", "map", "macro"} : Save(c)
  \/ CliClear \/ KeyClear
  \/ \E ok, landed \in BOOLEAN : ClearFlag(ok, landed) \/ ClearCookie(ok, landed)
  \/ \E S \in SUBSET (1 .. 3) : Restart(S)

Spec == Init /\ [][Next]_vars

\* hwInit goes on, and a flush keeps sending; resets that were asked for do not
\* repeat for ever.
FairSpec == Spec /\ WF_vars(Booting) /\ WF_vars(Sending)

-----------------------------------------------------------------------------
(* Properties *)

TypeOK ==
  /\ \A c \in Cell : chip[c] \in Values[c] /\ buf[c] \in Values[c]
  /\ \A i \in DOMAIN q : q[i].cell \in Cell /\ q[i].val \in Values[q[i].cell]
  /\ Len(todo) <= Len(eeprom_apply_factory_defaults)
  /\ pc \in {"check", "apply", "start", "run", "clear", "halt"}
  /\ attempt \in 0 .. Attempts /\ cuts \in 0 .. MaxCuts
  /\ resetDue \in BOOLEAN /\ asked \in SUBSET {"firmware", "via", "here"} /\ owed \in BOOLEAN

\* VIA's magic appears on the chip only over macros and a keymap that were completely
\* written, whatever was cut short before; where they share a run, the keymap may
\* already be the one that the user has edited since (via.c:106-117).
KeymapVouched ==
  [][chip.via = "invalid" /\ chip'.via = "valid"
       => /\ chip'.macro = "def"
          /\ chip'.map = "def" \/ \E i \in 2 .. Len(q) : q[i] = [cell |-> "map", val |-> "user"]]_vars

\* When the reset is reported as done, the defaults and the sentinel are on the
\* chip: not in the queue, and not in the mirror only, also after attempts that
\* failed half-way (eeprom_auto_factory_reset.c:105-120).
AppliedIsStored ==
  [][ApplyDone => Defaulted(chip) /\ Sentinel(chip) /\ chip.via = "valid"]_vars

\* A boot wipes the settings only if someone asked for it or the firmware is new:
\* no interrupted boot makes the next one start over unasked (hw.c:34-55).
ResetOnlyWhenAsked == pc = "apply" => asked # {}

\* Booting ends, in the main loop or at the LED of main, however often the chip
\* fails (hw.c:34-55).
BootEnds == pc = "check" ~> pc \in {"run", "halt"}

\* docs/features_auto_factory_reset.md:22 calls the flag "whether the automatic
\* reset is complete: once MAGIC is recorded it is considered complete".  A clear
\* that VIA was told is scheduled has been carried out when the next session has
\* nothing left to write.
ClearCarriedOut == Running /\ ~resetDue /\ q = <<>> => ~owed

=============================================================================
