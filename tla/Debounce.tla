------------------------------ MODULE Debounce ------------------------------
(***************************************************************************)
(* Debouncing: matrix_scan samples the switches and one of three           *)
(* algorithms, quantum/debounce/*_pk.c, turns the samples into key states. *)
(* quantum/debounce_runtime.c runs the algorithm that                      *)
(* port/debounce_profile.c has chosen; VIA changes it or its delays at any *)
(* time between two scans, which starts it anew on a fresh block of        *)
(* counters.  When there is no memory for the block the samples are passed *)
(* through and every scan tries again.                                     *)
(*                                                                         *)
(* Abstractions                                                            *)
(*  - a scan takes any sample: bounces between two scans are not seen.     *)
(*  - the static variables of an algorithm that is not in use are left     *)
(*    out, its block is not: a change of algorithm keeps it.               *)
(*  - matrix_need_update is FALSE between two scans and is a local value   *)
(*    here; g_runtime.config is equal to the profile's values, whose       *)
(*    delays never reach the limits of an algorithm.                       *)
(*  - keeping the profile in the EEPROM is left out.                       *)
(***************************************************************************)
EXTENDS Integers

CONSTANTS
  Key,       \* switches
  MaxDelay,  \* DEBOUNCE_PROFILE_MAX_DELAY_MS, 30
  MaxMs      \* UINT8_MAX, where the time between two scans is cut off

ASSUME DebounceAssumption ==
  MaxDelay \in Nat \ {0} /\ MaxMs \in Nat /\ MaxDelay <= MaxMs

VARIABLES
  raw,          \* raw_matrix: is the switch closed
  key,          \* matrix: is the key down; with its counter and the bit "pressed" of that
  values,       \* debounce_profile_state.values
  status,       \* debounce_profile_get_status
  algo,         \* g_runtime.algo
  ready,        \* debounce_runtime_is_ready
  heap,         \* blocks of counters each algorithm has from malloc and not freed
  need_update,  \* counters_need_update
  elapsed,      \* milliseconds since last_time, up to MaxMs, while something is counted
  age,          \* history: milliseconds since the sample changed, up to MaxDelay
  quiet,        \* history: milliseconds since the key changed under this profile, likewise
  unseen        \* history: keys unsettled when an algorithm started, not counted since

profile == <<values, status>>
clock == <<need_update, elapsed>>
vars == <<raw, key, profile, algo, ready, heap, clock, age, quiet, unseen>>

Type == {"sym_defer_pk", "sym_eager_pk", "asym_eager_defer_pk"}
NoAlgo == "none"
Delay == 1 .. MaxDelay

\* sym_defer_pk has one delay.
Values == {v \in [type : Type, pre : Delay, post : Delay] :
             v.type = "sym_defer_pk" => v.pre = v.post}

KeyState == [cooked : BOOLEAN, count : 0 .. MaxDelay, pressed : BOOLEAN]

\* A key whose counter is new.
Cleared(down) == [cooked |-> down, count |-> 0, pressed |-> FALSE]

\* Before matrix_init: debounce_profile_init has read the profile.
Init ==
  /\ raw = [k \in Key |-> FALSE] /\ key = [k \in Key |-> Cleared(FALSE)]
  /\ values \in Values /\ status = "pending"
  /\ algo = NoAlgo /\ ready = FALSE
  /\ heap = [t \in Type |-> 0]
  /\ need_update = FALSE /\ elapsed = 0
  /\ age = [k \in Key |-> MaxDelay] /\ quiet = [k \in Key |-> MaxDelay]
  /\ unseen = {}

-----------------------------------------------------------------------------
(* The algorithms: what debounce_*_pk_run does with a key c and its switch *)

Defer == values.type = "sym_defer_pk"
Eager == values.type = "sym_eager_pk"
Asym == values.type = "asym_eager_defer_pk"

Ends(c) == c.count > 0 /\ c.count <= elapsed

\* Mutant: the end of the time in which changes are ignored goes unnoticed.
LooksAgainNever(c) == FALSE

\* Was this the end of a time in which the switch was ignored?
LooksAgain(c) == Ends(c) /\ (Eager \/ (Asym /\ c.pressed))

\* update_debounce_counters, with _and_transfer_if_expired where a change is deferred
Updated(c, closed) ==
  [c EXCEPT !.count = IF c.count > elapsed THEN c.count - elapsed ELSE 0,
            !.cooked = IF Ends(c) /\ (Defer \/ (Asym /\ ~c.pressed)) THEN closed ELSE @]

\* A switch that differs from its key, and whose counter is free, starts it.
Starts(c, closed) == closed # c.cooked /\ c.count = 0

\* Mutant: a switch that bounces back keeps its counter.
CancelsNever(c, closed) == FALSE

\* A switch that is back before its time is over was a bounce.
Cancels(c, closed) == closed = c.cooked /\ (Defer \/ (Asym /\ ~c.pressed))

\* start_debounce_counters and transfer_matrix_values; an eager algorithm changes the
\* key as its counter starts.
Transferred(c, closed) ==
  IF Starts(c, closed)
  THEN [cooked  |-> IF Eager \/ (Asym /\ closed) THEN closed ELSE c.cooked,
        count   |-> IF Asym /\ closed THEN values.pre ELSE values.post,
        pressed |-> IF Asym THEN closed ELSE c.pressed]
  ELSE IF Cancels(c, closed) THEN [c EXCEPT !.count = 0] ELSE c

-----------------------------------------------------------------------------
(* The runtime *)

\* Mutant: the block is not freed.
FreedNever(h, t) == h

\* debounce_*_pk_free: the block that the algorithm's pointer points to.
Freed(h, t) == [h EXCEPT ![t] = IF @ > 0 THEN @ - 1 ELSE 0]

\* debounce_*_pk_init
Allocated(h, t, ok) == [h EXCEPT ![t] = IF ok THEN @ + 1 ELSE @]

\* debounce_profile_apply_current with profile v: debounce_runtime_apply_config takes
\* the algorithm, frees its block - also when another one has run so far - and starts it.
Apply(v) ==
  \E ok \in BOOLEAN :
    /\ values' = v /\ algo' = v.type
    /\ heap' = Allocated(Freed(heap, v.type), v.type, ok)
    /\ ready' = ok /\ status' = IF ok THEN "ready" ELSE "error"
    /\ key' = [k \in Key |-> Cleared(key[k].cooked)]
    /\ need_update' = FALSE /\ elapsed' = 0
    /\ quiet' = [k \in Key |-> MaxDelay]
    /\ unseen' = {k \in Key : raw[k] # key[k].cooked}
    /\ UNCHANGED <<raw, age>>

MatrixInit == algo = NoAlgo /\ Apply(values)

\* Mutant: only the counters started here are remembered.
NeedsStarted(late, look, u, sample) ==
  IF look THEN \E k \in Key : Starts(u[k], sample[k])
  ELSE IF late THEN \E k \in Key : u[k].count > 0 ELSE need_update

\* counters_need_update after a scan, with the keys u of its first half.
Needs(late, look, u, sample) ==
  \/ IF late THEN \E k \in Key : u[k].count > 0 ELSE need_update
  \/ look /\ \E k \in Key : Starts(u[k], sample[k])

\* debounce, with the algorithm that is ready.
Run(sample) ==
  LET late == need_update /\ elapsed > 0
      look == sample # raw \/ (late /\ \E k \in Key : LooksAgain(key[k]))
      u == [k \in Key |-> IF late THEN Updated(key[k], sample[k]) ELSE key[k]]
  IN
  /\ key' = [k \in Key |-> IF look THEN Transferred(u[k], sample[k]) ELSE u[k]]
  /\ need_update' = Needs(late, look, u, sample)
  /\ elapsed' = IF need_update \/ look THEN 0 ELSE elapsed
  /\ quiet' = [k \in Key |-> IF key'[k].cooked # key[k].cooked THEN 0 ELSE quiet[k]]
  /\ unseen' = {k \in unseen : sample[k] # key'[k].cooked /\ key'[k].count = 0}

\* matrix_scan: the sample goes to the algorithm.  If it is not ready it is started
\* again first, with counters that are clear as they have been since it could not be
\* started, and if that fails again the sample is passed through.
Scan(sample) ==
  /\ algo # NoAlgo
  /\ raw' = sample
  /\ age' = [k \in Key |-> IF sample[k] # raw[k] THEN 0 ELSE age[k]]
  /\ \/ ready /\ Run(sample) /\ UNCHANGED <<ready, heap>>
     \/ /\ ~ready /\ ready' = TRUE /\ heap' = Allocated(Freed(heap, algo), algo, TRUE)
        /\ Run(sample)
     \/ /\ ~ready /\ heap' = Freed(heap, algo)
        /\ key' = [k \in Key |-> Cleared(sample[k])]
        /\ unseen' = {}
        /\ UNCHANGED <<ready, clock, quiet>>
  /\ UNCHANGED <<profile, algo>>

-----------------------------------------------------------------------------
(* VIA, and time *)

\* debounce_profile_set_mode
SetMode(t) ==
  /\ algo # NoAlgo
  /\ Apply([values EXCEPT !.type = t,
                          !.post = IF t = "sym_defer_pk" THEN values.pre ELSE @])

\* debounce_profile_set_single_delay
SetSingle(d) ==
  /\ algo # NoAlgo /\ values.type = "sym_defer_pk"
  /\ Apply([values EXCEPT !.pre = d, !.post = d])

\* debounce_profile_set_press_delay
SetPress(d) ==
  /\ algo # NoAlgo /\ values.type = "asym_eager_defer_pk"
  /\ Apply([values EXCEPT !.pre = d])

\* debounce_profile_set_release_delay
SetRelease(d) ==
  /\ algo # NoAlgo /\ values.type # "sym_defer_pk"
  /\ Apply([values EXCEPT !.post = d])

Later(n, max) == IF n < max THEN n + 1 ELSE n

Tick ==
  /\ elapsed' = IF need_update THEN Later(elapsed, MaxMs) ELSE elapsed
  /\ age' = [k \in Key |-> Later(age[k], MaxDelay)]
  /\ quiet' = [k \in Key |-> Later(quiet[k], MaxDelay)]
  /\ UNCHANGED <<raw, key, profile, algo, ready, heap, need_update, unseen>>

Next ==
  \/ MatrixInit
  \/ \E sample \in [Key -> BOOLEAN] : Scan(sample)
  \/ \E t \in Type : SetMode(t)
  \/ \E d \in Delay : SetSingle(d) \/ SetPress(d) \/ SetRelease(d)
  \/ Tick

Spec == Init /\ [][Next]_vars

\* The matrix is scanned again and again, also when no switch moves, and time passes;
\* VIA owes nothing.
FairSpec == Spec /\ WF_vars(Scan(raw)) /\ WF_vars(Tick)

-----------------------------------------------------------------------------
(* Properties *)

\* Every variable holds a value of its C type.  A change of algorithm frees the block
\* of the new one, not the old one's, and yet no algorithm ever has two, and none runs
\* without one (debounce_runtime.c:121-148, 235-276).
TypeOK ==
  /\ raw \in [Key -> BOOLEAN] /\ key \in [Key -> KeyState]
  /\ values \in Values /\ status \in {"pending", "ready", "error"}
  /\ algo \in {NoAlgo, values.type} /\ {ready, need_update} \subseteq BOOLEAN
  /\ heap \in [Type -> 0 .. 1]
  /\ ready => algo # NoAlgo /\ heap[algo] = 1
  /\ status = "ready" => ready
  /\ elapsed \in 0 .. MaxMs
  /\ age \in [Key -> 0 .. MaxDelay] /\ quiet \in [Key -> 0 .. MaxDelay]
  /\ unseen \subseteq Key

\* A switch that differs from its key is being counted, and the algorithm knows that it
\* has something to count, whatever the other switches do: no edge is forgotten.  The
\* exception are edges on their way when VIA changes the profile: those are forgotten
\* until the next edge of any switch (sym_defer_pk.c:65-130, and the other two).
NothingForgotten ==
  \A k \in Key \ unseen : raw[k] # key[k].cooked => key[k].count > 0 /\ need_update

\* What readme.txt:53-70 says of the modes, while the profile stays: Balanced lets a key
\* change only when its switch has been steady for the delay; Fast lets it change at
\* once, and then ignores the switch for the delay; Advanced lets it go down at once,
\* and up when the press delay is over and the switch has been open for the release
\* delay.
Allows(k) ==
  CASE Defer -> age'[k] >= values.post
    [] Eager -> quiet[k] >= values.post
    [] OTHER -> raw'[k] \/ (age'[k] >= values.post /\ quiet[k] >= values.pre)

Debounced ==
  [][ready /\ UNCHANGED profile
     => \A k \in Key : key'[k].cooked # key[k].cooked => Allows(k)]_vars

\* A key comes to be what its switch is, or the switch goes back (the *_run functions,
\* debounce_runtime.c:181-203), even if there is never any memory for counters.
Settles ==
  \A k \in Key : raw[k] # key[k].cooked ~> raw[k] = key[k].cooked \/ k \in unseen

=============================================================================
