------------------------------ MODULE TapDance ------------------------------
(***************************************************************************)
(* The eight tap dances: src/src/ap/modules/qmk/port/tapdance.c and        *)
(* quantum/process_keycode/process_tap_dance.c.  A dance counts taps until *)
(* its term is over, another key is pressed or its configuration says that *)
(* no more can come; then it registers the keycode the configuration has   *)
(* for it, which its reset unregisters.  VIA changes the configuration at  *)
(* any time.                                                               *)
(*                                                                         *)
(* active_td and last_tap_time are one for all dances.  The term is a      *)
(* Boolean, whether it is over.  A tapped keycode is registered and        *)
(* unregistered at once.  Keycodes are basic ones; the modifiers that a    *)
(* dance remembers are left out, and so is on_each_release, which is NULL. *)
(***************************************************************************)
EXTENDS Integers

CONSTANTS
  Dance,   \* tap dance slots
  Code,    \* keycodes a dance may send
  NoCode   \* KC_NO

ASSUME TapDanceAssumption == NoCode \notin Code /\ NoCode \notin Dance

VARIABLES
  dance,      \* tap_dance_actions[].state, with tapdance_runtime[].active_keycode
  active_td,  \* the dance that waits for its term, or NoCode
  term_over,  \* timer_elapsed(last_tap_time) > term
  action      \* tapdance_state[].actions

dances == <<dance, active_td, term_over, action>>

Action == [tap : Code \cup {NoCode}, hold : Code \cup {NoCode},
           double : Code \cup {NoCode}, tap_hold : Code \cup {NoCode}]

Fresh == [count |-> 0, pressed |-> FALSE, finished |-> FALSE, interrupted |-> FALSE,
          code |-> NoCode]

\* tapdance_step
Step(s) ==
  CASE s.count = 1 -> IF s.interrupted \/ ~s.pressed THEN "SINGLE_TAP" ELSE "SINGLE_HOLD"
    [] s.count = 2 -> IF s.interrupted THEN "DOUBLE_SINGLE_TAP"
                      ELSE IF s.pressed THEN "DOUBLE_HOLD" ELSE "DOUBLE_TAP"
    [] OTHER -> "MORE_TAPS"

\* The first that is a keycode.
Or(k, other) == IF k = NoCode THEN other ELSE k

\* tapdance_on_dance_finished: the keycode it registers in this step, ...
Chosen(e, step) ==
  CASE step \in {"SINGLE_TAP", "DOUBLE_SINGLE_TAP"} -> e.tap
    [] step = "SINGLE_HOLD" -> Or(e.hold, e.tap)
    [] step = "DOUBLE_TAP"  -> Or(e.double, e.tap)
    [] step = "DOUBLE_HOLD" -> Or(e.tap_hold, Or(e.hold, e.tap))
    [] OTHER -> NoCode

\* ... and those it taps before.
Tapped(e, step) ==
  IF \/ step = "DOUBLE_SINGLE_TAP"
     \/ step = "DOUBLE_TAP" /\ e.double = NoCode
     \/ step = "DOUBLE_HOLD" /\ e.tap_hold = NoCode
  THEN {e.tap} ELSE {}

\* A dance and the report, after on_dance_finished.
Registered(s, e, report) ==
  LET code == Chosen(e, Step(s)) IN
  [dance  |-> [s EXCEPT !.finished = TRUE, !.code = code],
   report |-> (report \ Tapped(e, Step(s))) \cup ({code} \ {NoCode})]

\* process_tap_dance_action_on_reset, with tapdance_on_reset
Reset(r) == [dance |-> Fresh, report |-> r.report \ {r.dance.code}]

\* process_tap_dance_action_on_dance_finished: once per dance, and no release will
\* come for a key that is up.
Finish(s, e, report) ==
  LET r == IF s.finished THEN [dance |-> s, report |-> report] ELSE Registered(s, e, report)
  IN  IF s.pressed THEN r ELSE Reset(r)

\* preprocess_tap_dance: the press of another key finishes the active dance.
Interrupts(other) == active_td \notin {NoCode, other}

Interrupted(report) ==
  Finish([dance[active_td] EXCEPT !.interrupted = TRUE], action[active_td], report)

\* The dances and the report when the press of a key reaches process_record.
Before(other, report) ==
  IF Interrupts(other)
  THEN [dances |-> [dance EXCEPT ![active_td] = Interrupted(report).dance],
        report |-> Interrupted(report).report]
  ELSE [dances |-> dance, report |-> report]

\* The press of a dance's own key: a third tap and later ones are sent at once.
TapReport(d, n, report) == IF n >= 3 THEN report \ {action[d].tap} ELSE report

\* tapdance_should_finish_immediate
Immediate(e, n) ==
  \/ n = 1 /\ NoCode \notin {e.tap, e.hold} /\ e.double = NoCode /\ e.tap_hold = NoCode
  \/ n = 2 /\ e.double # NoCode

\* The release of a dance's key.
Released(d, report) ==
  LET s == [dance[d] EXCEPT !.pressed = FALSE] IN
  IF Immediate(action[d], s.count) \/ s.finished
  THEN Finish(s, action[d], report)
  ELSE [dance |-> s, report |-> report]

\* The active dance afterwards: a dance that finishes at once clears it, whichever
\* dance it is.
ActiveAfterRelease(d) ==
  IF Immediate(action[d], dance[d].count) \/ (dance[d].finished /\ active_td = d)
  THEN NoCode ELSE active_td

\* Mutant: the term only ends a dance whose key is held.
TermEndsHeld == active_td # NoCode /\ term_over /\ ~dance[active_td].interrupted /\ dance[active_td].pressed

\* tap_dance_task has something to finish.
TermEnds == active_td # NoCode /\ term_over /\ ~dance[active_td].interrupted

\* tapdance_set_value, one field of a slot
SetAction ==
  \E d \in Dance, k \in Code \cup {NoCode}, f \in {"tap", "hold", "double", "tap_hold"} :
    action' = [action EXCEPT ![d][f] = k]

=============================================================================
