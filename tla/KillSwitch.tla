----------------------------- MODULE KillSwitch -----------------------------
(***************************************************************************)
(* The kill switch, src/src/ap/modules/qmk/port/kill_switch.c: of the two  *)
(* keys of a channel the one pressed last is reported, and the other again *)
(* when it is let go.  VIA changes a channel at any time, also while its   *)
(* keys are held.                                                          *)
(*                                                                         *)
(* The key that is pressed or let go is itself added to the report or      *)
(* deleted right after this, by process_action: KeyFeatures composes them. *)
(* Keycodes are basic ones, so the narrowing to uint8_t in add_key and     *)
(* del_key changes nothing.                                                *)
(***************************************************************************)
EXTENDS Integers

CONSTANTS
  Plain,    \* basic keycodes on keys of their own
  No,       \* KC_NO
  Channel   \* "lr" and "ud"

ASSUME KillSwitchAssumption == No \notin Plain

VARIABLES
  switch,      \* kill_switch_config: enable and keycode[2]
  key_pressed  \* key_pressed_lr and key_pressed_ud

Switch == [enable : BOOLEAN, keycode : [{0, 1} -> Plain \cup {No}]]

\* kill_switch_is_use
kill_switch_is_use(k) == \E c \in Channel : switch[c].enable /\ k \in {switch[c].keycode[i] : i \in {0, 1}}

\* The places keycode k has in the channels that are switched on.
Places(k) == {p \in Channel \X {0, 1} : switch[p[1]].enable /\ switch[p[1]].keycode[p[2]] = k}

\* The other keys of those channels that are held, as far as the flags know.
Opposite(k) == {switch[p[1]].keycode[1 - p[2]] : p \in {q \in Places(k) : key_pressed[q[1]][1 - q[2]]}}

\* Mutant: a release does not clear the flag.
FlagsKept(k, pressed) ==
  [c \in Channel |-> [i \in {0, 1} |-> IF <<c, i>> \in Places(k) THEN TRUE ELSE key_pressed[c][i]]]

\* kill_switch_process sets or clears the flags ...
Flags(k, pressed) ==
  [c \in Channel |-> [i \in {0, 1} |-> IF <<c, i>> \in Places(k) THEN pressed ELSE key_pressed[c][i]]]

\* Mutant: the opposite key stays in the report.
SwitchedNever(k, pressed, report) == IF pressed THEN report ELSE report \cup (Opposite(k) \ {No})

\* ... and takes the opposite keys out of the report or puts them back.
Switched(k, pressed, report) ==
  IF pressed THEN report \ Opposite(k) ELSE report \cup (Opposite(k) \ {No})

\* via_qmk_kill_switch_set_value, one field of a channel
SetSwitch ==
  \E c \in Channel :
    \/ switch' = [switch EXCEPT ![c].enable = ~@]
    \/ \E i \in {0, 1}, k \in Plain \cup {No} : switch' = [switch EXCEPT ![c].keycode[i] = k]

=============================================================================
