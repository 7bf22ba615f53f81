--------------------------- MODULE MCKeyFeatures ---------------------------
(***************************************************************************)
(* Settings for KeyFeatures: a kill switch on two keys, on or off, or two  *)
(* with a key in common; dances that have every kind of end; a long run of *)
(* keys, of taps, or of both, or a setting changed in a shorter one.  With *)
(* four keys KKUK repeats while both keys of a kill switch are held.       *)
(***************************************************************************)
EXTENDS KeyFeatures, TLC

CONSTANTS k1, k2, k3, x, y

MCSwitch(on, k, l) == [enable |-> on, keycode |-> (0 :> k @@ 1 :> l)]

MCSwitches ==
  {("lr" :> MCSwitch(on, k1, k2) @@ "ud" :> MCSwitch(FALSE, No, No)) : on \in BOOLEAN}
  \cup {("lr" :> MCSwitch(TRUE, k1, k2) @@ "ud" :> MCSwitch(TRUE, k1, x))}

MCBudget(k, t, e) == [keys |-> k, taps |-> t, edits |-> e]

MCBudgets ==
  {MCBudget(5, 0, 0), MCBudget(1, 4, 0), MCBudget(3, 1, 0), MCBudget(3, 0, 1),
   MCBudget(0, 4, 1)}

MCHold == [tap |-> x, hold |-> y, double |-> No, tap_hold |-> No]
MCDouble == [tap |-> x, hold |-> No, double |-> y, tap_hold |-> No]
MCTap == [tap |-> y, hold |-> No, double |-> No, tap_hold |-> No]

MCActions ==
  {("td0" :> MCHold @@ "td1" :> MCTap), ("td0" :> MCHold @@ "td1" :> MCDouble),
   ("td0" :> MCDouble @@ "td1" :> MCTap)}

=============================================================================
