--------------------------- MODULE MCSofMonitor ---------------------------
(* SofMonitor with the code's constants scaled down; what the checks rely  *)
(* on is kept: one event's points stay below the threshold, two reach it,  *)
(* full speed has lower thresholds and slower decay than high speed.       *)
EXTENDS SofMonitor

MCFloor == -5
MCOver == -2
MCParams ==
  [HS |-> [expected |-> 1, stable |-> 2, decay |-> 1, slowDecay |-> 2,
           threshold |-> 2, slowThreshold |-> 3, cap |-> 1, frames |-> 2],
   FS |-> [expected |-> 1, stable |-> 2, decay |-> 2, slowDecay |-> 2,
           threshold |-> 2, slowThreshold |-> 2, cap |-> 1, frames |-> 1]]
MCBudget(r, s, q, t) == [resets |-> r, suspends |-> s, quiet |-> q, toggles |-> t]
MCBudgets == {MCBudget(0, 0, 5, 0), MCBudget(4, 0, 0, 0), MCBudget(1, 0, 2, 0),
              MCBudget(0, 1, 3, 0), MCBudget(1, 1, 0, 0), MCBudget(0, 0, 2, 2)}
=============================================================================
