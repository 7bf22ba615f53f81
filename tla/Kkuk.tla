-------------------------------- MODULE Kkuk --------------------------------
(***************************************************************************)
(* KKUK, src/src/ap/modules/qmk/port/kkuk.c: while two or more keys are    *)
(* held the whole report is released and pressed again at an interval.     *)
(* Keys of the kill switch do not count.                                   *)
(*                                                                         *)
(* A timer is a Boolean, whether its time is over.  pre_time = millis()+10 *)
(* makes the age of pre_time huge, so that entering the mode repeats at    *)
(* once; is_req_repeqt and state are back at rest when kkuk_idle returns.  *)
(***************************************************************************)
EXTENDS KillSwitch

VARIABLES
  kkuk_on,      \* kkuk_config.enable
  key_cnt, pre_cnt,
  is_kkuk_mode,
  delay_over,   \* millis() - pre_time_delay >= delay_time
  repeat_over   \* millis() - pre_time >= repeat_time

kkuk == <<kkuk_on, key_cnt, pre_cnt, is_kkuk_mode, delay_over, repeat_over>>

\* Mutant: the count goes below zero.
LessUnguarded(n) == n - 1

\* One key fewer.
Less(n) == IF n > 0 THEN n - 1 ELSE 0

\* Mutant: a release is skipped for the kill switch's keys, a press is not.
kkuk_process_presses(k, pressed) ==
  IF kkuk_on /\ (pressed \/ ~kill_switch_is_use(k))
  THEN /\ key_cnt' = IF pressed THEN (key_cnt + 1) % 256 ELSE Less(key_cnt)
       /\ delay_over' = FALSE
       /\ UNCHANGED <<kkuk_on, pre_cnt, is_kkuk_mode, repeat_over>>
  ELSE UNCHANGED kkuk

\* kkuk_process of a basic keycode; with the kill switch as it was before it.
kkuk_process(k, pressed) ==
  IF kkuk_on /\ ~kill_switch_is_use(k)
  THEN /\ key_cnt' = IF pressed THEN (key_cnt + 1) % 256 ELSE Less(key_cnt)
       /\ delay_over' = FALSE
       /\ UNCHANGED <<kkuk_on, pre_cnt, is_kkuk_mode, repeat_over>>
  ELSE UNCHANGED kkuk

\* kkuk_idle: the mode after its first half, and whether the interval is over, ...
Mode == IF is_kkuk_mode THEN key_cnt > 0 ELSE key_cnt >= 2 /\ delay_over
Interval == repeat_over \/ (Mode /\ ~is_kkuk_mode)

\* ... whether it then releases and presses the keys, ...
Pulses == Interval /\ Mode /\ (key_cnt >= 2 \/ (key_cnt = 1 /\ pre_cnt = 2))

\* ... and what it leaves behind.
KkukIdle ==
  /\ kkuk_on
  /\ is_kkuk_mode' = Mode
  /\ pre_cnt' = IF Interval THEN key_cnt ELSE pre_cnt
  /\ repeat_over' = (repeat_over /\ ~Interval)
  /\ UNCHANGED <<kkuk_on, key_cnt, delay_over>>

\* via_qmk_kkuk_set_value: the switch; the times are what the timers stand for.
SetKkuk == kkuk_on' = ~kkuk_on /\ UNCHANGED <<key_cnt, pre_cnt, is_kkuk_mode, delay_over, repeat_over>>

=============================================================================
