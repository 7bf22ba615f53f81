---------------------------- MODULE KeyFeatures -----------------------------
(***************************************************************************)
(* How the key features of this firmware share one keyboard report: the    *)
(* kill switch, KKUK and the tap dances, as process_record_quantum         *)
(* (quantum/quantum.c), process_record_user and idle_task (qmk.c) call     *)
(* them.  All of it is the main loop, so that a handler runs to its end;   *)
(* what interleaves is the keys of the user, the commands of VIA and time. *)
(*                                                                         *)
(* Abstractions                                                            *)
(*  - the keyboard report is the set of its keycodes: it has room for 20.  *)
(*  - a plain key is its keycode, one key each; the keymap is not edited   *)
(*    while a key is held.  Modifiers and layers are left out.             *)
(*  - what a handler sends in the middle of its work is left out, what it  *)
(*    sent last is kept.                                                   *)
(***************************************************************************)
EXTENDS Kkuk, TapDance, Sequences, FiniteSets

CONSTANTS
  Budgets,   \* bounds: events of plain keys and of dances, and settings VIA changes
  Switches,  \* settings to start from: of all channels, and of all dances
  Actions

ASSUME KeyFeaturesAssumption ==
  /\ Budgets \subseteq [keys : Nat, taps : Nat, edits : Nat]
  /\ Switches \subseteq [Channel -> Switch] /\ Actions \subseteq [Dance -> Action]
  /\ NoCode \notin Plain

VARIABLES
  report,    \* keyboard_report->keys
  sent,      \* the last report handed to the host
  held,      \* plain keys that are down, in the order of their presses
  budget,    \* events and settings left
  edited,    \* history: a setting of the kill switch or of KKUK changed under a held key
  disarmed   \* history: dances that lost active_td to the release of another one

switches == <<switch, key_pressed>>
keys == <<report, sent, held>>
vars == <<switches, kkuk, dances, keys, budget, edited, disarmed>>

Down == {held[i] : i \in DOMAIN held}

\* The keys that are down once k is let go, in the same order.
Without(k) ==
  LET n == CHOOSE i \in DOMAIN held : held[i] = k IN
  [i \in 1 .. Len(held) - 1 |-> IF i < n THEN held[i] ELSE held[i + 1]]

Init ==
  /\ switch \in Switches
  /\ key_pressed = [c \in Channel |-> [i \in {0, 1} |-> FALSE]]
  /\ kkuk_on \in BOOLEAN /\ key_cnt = 0 /\ pre_cnt = 0 /\ is_kkuk_mode = FALSE
  /\ delay_over = TRUE /\ repeat_over = TRUE
  /\ action \in Actions
  /\ dance = [d \in Dance |-> Fresh] /\ active_td = NoCode /\ term_over = TRUE
  /\ report = {} /\ sent = {} /\ held = <<>>
  /\ budget \in Budgets
  /\ edited = FALSE /\ disarmed = {}

Spend(f) == budget[f] > 0 /\ budget' = [budget EXCEPT ![f] = @ - 1]

-----------------------------------------------------------------------------
(* Keys: process_record_quantum *)

\* The press of a plain key finishes the active dance; then come the kill switch,
\* KKUK and the key itself.
Press(k) ==
  LET before == Before(k, report) IN
  /\ Spend("keys") /\ k \notin Down
  /\ dance' = before.dances
  /\ active_td' = IF Interrupts(k) THEN NoCode ELSE active_td
  /\ key_pressed' = Flags(k, TRUE)
  /\ kkuk_process(k, TRUE)
  /\ report' = Switched(k, TRUE, before.report) \cup {k}
  /\ sent' = report' /\ held' = Append(held, k)
  /\ UNCHANGED <<switch, term_over, action, edited, disarmed>>

Release(k) ==
  /\ Spend("keys") /\ k \in Down
  /\ key_pressed' = Flags(k, FALSE)
  /\ kkuk_process(k, FALSE)
  /\ report' = Switched(k, FALSE, report) \ {k}
  /\ sent' = report' /\ held' = Without(k)
  /\ UNCHANGED <<switch, dances, edited, disarmed>>

\* The press of a dance's key finishes the active dance if that is another one, and
\* counts.  Taps from the fourth on are all alike.
DancePress(d) ==
  LET before == Before(d, report)
      n == IF dance[d].count < 4 THEN dance[d].count + 1 ELSE 4
  IN
  /\ Spend("taps") /\ ~dance[d].pressed
  /\ dance' = [before.dances EXCEPT ![d].count = n, ![d].pressed = TRUE]
  /\ active_td' = d /\ term_over' = FALSE
  /\ report' = TapReport(d, n, before.report) /\ sent' = report'
  /\ disarmed' = disarmed \ {d}
  /\ UNCHANGED <<switches, kkuk, action, held, edited>>

DanceRelease(d) ==
  /\ Spend("taps") /\ dance[d].pressed
  /\ dance' = [dance EXCEPT ![d] = Released(d, report).dance]
  /\ active_td' = ActiveAfterRelease(d)
  /\ report' = Released(d, report).report /\ sent' = report'
  /\ disarmed' = disarmed \cup ({active_td} \ {d, active_td', NoCode})
  /\ UNCHANGED <<switches, kkuk, term_over, action, held, edited>>

-----------------------------------------------------------------------------
(* The rest of the main loop, VIA and time *)

tap_dance_task ==
  /\ TermEnds /\ active_td' = NoCode
  /\ LET r == Finish(dance[active_td], action[active_td], report) IN
       /\ dance' = [dance EXCEPT ![active_td] = r.dance]
       /\ report' = r.report /\ sent' = report'
  /\ UNCHANGED <<switches, kkuk, term_over, action, held, budget, edited, disarmed>>

\* kkuk_idle clears the report and sends it, then restores it and sends it.
KkukPulse ==
  /\ Pulses /\ KkukIdle
  /\ sent' = report
  /\ UNCHANGED <<switches, dances, report, held, budget, edited, disarmed>>

KkukQuiet ==
  /\ ~Pulses /\ KkukIdle
  /\ UNCHANGED <<switches, dances, keys, budget, edited, disarmed>>

\* VIA changes a setting; the flags and the count are not told.
ViaSwitch ==
  /\ Spend("edits") /\ SetSwitch
  /\ edited' = (edited \/ held # <<>>)
  /\ UNCHANGED <<key_pressed, kkuk, dances, keys, disarmed>>

ViaKkuk ==
  /\ Spend("edits") /\ SetKkuk
  /\ edited' = (edited \/ held # <<>>)
  /\ UNCHANGED <<switches, dances, keys, disarmed>>

ViaDance ==
  /\ Spend("edits") /\ SetAction
  /\ UNCHANGED <<switches, kkuk, dance, active_td, term_over, keys, edited, disarmed>>

\* A term or an interval ends.
TermPasses ==
  /\ ~term_over /\ term_over' = TRUE
  /\ UNCHANGED <<switches, kkuk, dance, active_td, action, keys, budget, edited, disarmed>>

KkukTimePasses ==
  /\ ~(delay_over /\ repeat_over)
  /\ delay_over' \in {delay_over, TRUE} /\ repeat_over' \in {repeat_over, TRUE}
  /\ UNCHANGED <<switches, kkuk_on, key_cnt, pre_cnt, is_kkuk_mode, dances, keys, budget,
                 edited, disarmed>>

Next ==
  \/ \E k \in Plain : Press(k) \/ Release(k)
  \/ \E d \in Dance : DancePress(d) \/ DanceRelease(d)
  \/ tap_dance_task \/ KkukPulse \/ KkukQuiet
  \/ ViaSwitch \/ ViaKkuk \/ ViaDance
  \/ TermPasses \/ KkukTimePasses

Spec == Init /\ [][Next]_vars

\* The main loop goes round and time passes; what the user does is up to the user.
FairSpec == Spec /\ WF_vars(tap_dance_task) /\ WF_vars(TermPasses)

-----------------------------------------------------------------------------
(* Properties *)

DanceState ==
  [count : 0 .. 4, pressed : BOOLEAN, finished : BOOLEAN, interrupted : BOOLEAN,
   code : Code \cup {NoCode}]

\* Every variable holds a value of its C type.
TypeOK ==
  /\ switch \in [Channel -> Switch] /\ key_pressed \in [Channel -> [{0, 1} -> BOOLEAN]]
  /\ {kkuk_on, is_kkuk_mode, delay_over, repeat_over, term_over, edited} \subseteq BOOLEAN
  /\ key_cnt \in 0 .. 255 /\ pre_cnt \in 0 .. 255
  /\ dance \in [Dance -> DanceState] /\ active_td \in Dance \cup {NoCode}
  /\ action \in [Dance -> Action]
  /\ report \subseteq Plain \cup Code /\ sent \subseteq Plain \cup Code
  /\ held \in Seq(Plain) /\ disarmed \subseteq Dance
  /\ budget \in [keys : Nat, taps : Nat, edits : Nat]

DanceCodes == {dance[d].code : d \in {e \in Dance : dance[e].pressed}}

\* Every key the host sees is a key that is held or what a held dance sends, in
\* whatever order keys, terms and settings come.  Only a kill switch that is changed
\* under a held key can leave a flag behind that later puts back a key nobody holds
\* (kill_switch.c:106-116, 255-279, tapdance.c:433-458).
NoGhostKey == ~edited => sent \subseteq Down \cup DanceCodes

Earlier(a, b) == \E i, j \in DOMAIN held : i < j /\ held[i] = a /\ held[j] = b

\* Of the two keys of a kill switch that are both held the host sees the one pressed
\* last, however they were pressed and let go before, and whatever KKUK and the dances
\* do, if no dance sends one of them and no other channel has them
\* (kill_switch.c:78-161, kkuk.c:142-152).
LastWins ==
  ~edited => \A c \in Channel, i \in {0, 1} :
    LET a == switch[c].keycode[i]
        b == switch[c].keycode[1 - i]
    IN  /\ switch[c].enable /\ Earlier(a, b)
        /\ \A o \in Channel \ {c} : {a, b} \cap {switch[o].keycode[j] : j \in {0, 1}} = {}
        /\ {a, b} \cap Code = {}
        => b \in sent /\ a \notin sent

\* KKUK releases and presses the keys again only while a key that counts is held: the
\* count is neither left too high by the kill switch nor by a lost release
\* (kkuk.c:101-153, 156-184).
RepeatsHeldKeys ==
  [][KkukPulse => edited \/ \E k \in Down : ~kill_switch_is_use(k)]_vars

\* A dance that was started comes to its end although all of them share one timer,
\* unless the release of another dance has made the firmware forget it: that dance
\* waits for its next press, however late, and its taps then count together
\* (process_tap_dance.c:115-130, 164-250).
DanceEnds ==
  \A d \in Dance :
    dance[d].count > 0 /\ ~dance[d].finished
      ~> dance[d].count = 0 \/ dance[d].finished \/ d \in disarmed

=============================================================================
