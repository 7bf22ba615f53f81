--------------------------- MODULE DebounceProofs ---------------------------
(***************************************************************************)
(* For any number of switches and any delays: no edge of a switch is       *)
(* forgotten, and a key changes only when its mode allows it.              *)
(*                                                                         *)
(* NothingForgotten is not inductive: a scan that starts nothing leaves    *)
(* counters_need_update as it is, so one must know that every counter that *)
(* runs has set it (Counting).  Debounced speaks of how long switches and  *)
(* keys have rested, which the code does not know: it has counters, and    *)
(* Timing relates them to those times.                                     *)
(***************************************************************************)
EXTENDS Debounce, TLAPS

\* Every counter that runs is known to run.
Counting == \A k \in Key : key[k].count > 0 => need_update

IInv == TypeOK /\ Counting /\ NothingForgotten

LEMMA ClearedType == \A b \in BOOLEAN : Cleared(b) \in KeyState
BY DebounceAssumption DEF Cleared, KeyState

\* Both halves of a scan keep the type of a key.
LEMMA UpdatedType ==
  ASSUME TypeOK, NEW c \in KeyState, NEW closed \in BOOLEAN
  PROVE  Updated(c, closed) \in KeyState
<1>1. elapsed \in Nat /\ MaxDelay \in Nat /\ c.count \in 0 .. MaxDelay
  BY DebounceAssumption DEF TypeOK, KeyState
<1>2. (IF c.count > elapsed THEN c.count - elapsed ELSE 0) \in 0 .. MaxDelay
  BY <1>1
<1>3. (IF Ends(c) /\ (Defer \/ (Asym /\ ~c.pressed)) THEN closed ELSE c.cooked) \in BOOLEAN
  BY DEF KeyState
<1> QED
  BY <1>2, <1>3 DEF Updated, KeyState

LEMMA TransferredType ==
  ASSUME TypeOK, NEW c \in KeyState, NEW closed \in BOOLEAN
  PROVE  Transferred(c, closed) \in KeyState
<1>1. values.pre \in 0 .. MaxDelay /\ values.post \in 0 .. MaxDelay /\ 0 \in 0 .. MaxDelay
  BY DebounceAssumption DEF TypeOK, Values, Delay
<1>2. CASE Starts(c, closed)
  BY <1>1, <1>2 DEF Transferred, KeyState
<1>3. CASE ~Starts(c, closed)
  BY <1>1, <1>3 DEF Transferred, KeyState
<1> QED
  BY <1>2, <1>3

\* An algorithm that is freed before it is started has one block, or none.
LEMMA HeapType ==
  ASSUME heap \in [Type -> 0 .. 1], NEW t \in Type, NEW ok \in BOOLEAN
  PROVE  /\ Freed(heap, t) \in [Type -> 0 .. 1]
         /\ Allocated(Freed(heap, t), t, ok) \in [Type -> 0 .. 1]
         /\ ok => Allocated(Freed(heap, t), t, ok)[t] = 1
<1> DEFINE h == Freed(heap, t)
<1>0. heap[t] \in 0 .. 1
  OBVIOUS
<1>1. h = [heap EXCEPT ![t] = 0]
  <2>1. (IF heap[t] > 0 THEN heap[t] - 1 ELSE 0) = 0
    BY <1>0
  <2> QED
    BY <2>1 DEF Freed
<1>2. h \in [Type -> 0 .. 1] /\ h[t] = 0
  BY <1>1
<1>3. Allocated(h, t, ok) = [h EXCEPT ![t] = IF ok THEN 1 ELSE 0]
  BY <1>2 DEF Allocated
<1> HIDE DEF h
<1>4. Allocated(h, t, ok) \in [Type -> 0 .. 1] /\ (ok => Allocated(h, t, ok)[t] = 1)
  BY <1>2, <1>3
<1> QED
  BY <1>2, <1>4 DEF h

-----------------------------------------------------------------------------

\* A new profile keeps the types.
LEMMA ApplyType ==
  ASSUME TypeOK, NEW v \in Values, Apply(v)
  PROVE  TypeOK'
<1> PICK ok \in BOOLEAN :
      /\ values' = v /\ algo' = v.type
      /\ heap' = Allocated(Freed(heap, v.type), v.type, ok)
      /\ ready' = ok /\ status' = IF ok THEN "ready" ELSE "error"
      /\ key' = [k \in Key |-> Cleared(key[k].cooked)]
      /\ need_update' = FALSE /\ elapsed' = 0
      /\ quiet' = [k \in Key |-> MaxDelay]
      /\ unseen' = {k \in Key : raw[k] # key[k].cooked}
      /\ UNCHANGED <<raw, age>>
  BY DEF Apply
<1>1. v.type \in Type /\ v.type # NoAlgo
  BY DEF Values, Type, NoAlgo
<1>2. heap' \in [Type -> 0 .. 1] /\ (ready' => heap'[algo'] = 1)
  BY <1>1, HeapType DEF TypeOK
<1>3. \A k \in Key : key[k].cooked \in BOOLEAN
  BY DEF TypeOK, KeyState
<1>4. key' \in [Key -> KeyState]
  BY <1>3, ClearedType
<1>5. elapsed' \in 0 .. MaxMs /\ quiet' \in [Key -> 0 .. MaxDelay] /\ age' \in [Key -> 0 .. MaxDelay]
  BY DebounceAssumption DEF TypeOK
<1>6. status' \in {"pending", "ready", "error"} /\ (status' = "ready" => ready') /\ ready' \in BOOLEAN
  OBVIOUS
<1>7. algo' \in {NoAlgo, values'.type} /\ (ready' => algo' # NoAlgo)
  BY <1>1
<1>8. unseen' \subseteq Key /\ need_update' \in BOOLEAN /\ raw' \in [Key -> BOOLEAN] /\ values' \in Values
  BY DEF TypeOK
<1> QED
  BY <1>2, <1>4, <1>5, <1>6, <1>7, <1>8 DEF TypeOK

LEMMA RunType ==
  ASSUME TypeOK, NEW sample \in [Key -> BOOLEAN], Run(sample)
  PROVE  /\ key' \in [Key -> KeyState] /\ need_update' \in BOOLEAN
         /\ elapsed' \in 0 .. MaxMs /\ quiet' \in [Key -> 0 .. MaxDelay]
         /\ unseen' \subseteq Key
<1> DEFINE late == need_update /\ elapsed > 0
           look == sample # raw \/ (late /\ \E k \in Key : LooksAgain(key[k]))
           u == [k \in Key |-> IF late THEN Updated(key[k], sample[k]) ELSE key[k]]
<1>1. u \in [Key -> KeyState]
  BY UpdatedType DEF TypeOK
<1>2. key' = [k \in Key |-> IF look THEN Transferred(u[k], sample[k]) ELSE u[k]]
  BY DEF Run
<1>3. need_update' = Needs(late, look, u, sample)
  BY DEF Run
<1>4. elapsed' \in {0, elapsed}
  BY DEF Run
<1> HIDE DEF u
<1>5. \A k \in Key : Transferred(u[k], sample[k]) \in KeyState
  BY <1>1, TransferredType
<1>6. key' \in [Key -> KeyState]
  BY <1>1, <1>2, <1>5
<1>7. need_update' \in BOOLEAN
  BY <1>3 DEF Needs, TypeOK
<1>8. elapsed' \in 0 .. MaxMs
  BY <1>4, DebounceAssumption DEF TypeOK
<1>9. quiet' \in [Key -> 0 .. MaxDelay] /\ unseen' \subseteq Key
  BY DebounceAssumption DEF Run, TypeOK
<1> QED
  BY <1>6, <1>7, <1>8, <1>9

LEMMA ScanType ==
  ASSUME TypeOK, NEW sample \in [Key -> BOOLEAN], Scan(sample)
  PROVE  TypeOK'
<1>1. raw' \in [Key -> BOOLEAN] /\ age' \in [Key -> 0 .. MaxDelay]
  BY DebounceAssumption DEF Scan, TypeOK
<1>2. values' = values /\ status' = status /\ algo' = algo /\ algo \in Type
  BY DEF Scan, TypeOK, Values, profile
<1>3. CASE ready /\ Run(sample) /\ UNCHANGED <<ready, heap>>
  BY <1>1, <1>2, <1>3, RunType DEF TypeOK
<1>4. CASE /\ ~ready /\ ready' = TRUE /\ heap' = Allocated(Freed(heap, algo), algo, TRUE)
           /\ Run(sample)
  <2>1. heap' \in [Type -> 0 .. 1] /\ heap'[algo] = 1
    BY <1>2, <1>4, HeapType DEF TypeOK
  <2>2. algo = values.type
    BY <1>2, <1>4 DEF TypeOK, NoAlgo, Type
  <2>3. algo # NoAlgo
    BY <1>2 DEF NoAlgo, Type
  <2> QED
    BY <1>1, <1>2, <1>4, <2>1, <2>2, <2>3, RunType DEF TypeOK
<1>5. CASE /\ ~ready /\ heap' = Freed(heap, algo)
           /\ key' = [k \in Key |-> Cleared(sample[k])]
           /\ unseen' = {}
           /\ UNCHANGED <<ready, clock, quiet>>
  <2>1. heap' \in [Type -> 0 .. 1]
    BY <1>2, <1>5, HeapType DEF TypeOK
  <2>2. key' \in [Key -> KeyState]
    BY <1>5, ClearedType
  <2> QED
    BY <1>1, <1>2, <1>5, <2>1, <2>2 DEF TypeOK, clock
<1> QED
  BY <1>3, <1>4, <1>5 DEF Scan

LEMMA TypeKept ==
  ASSUME TypeOK, [Next]_vars
  PROVE  TypeOK'
<1>1. CASE MatrixInit
  BY <1>1, ApplyType DEF MatrixInit, TypeOK
<1>2. ASSUME NEW sample \in [Key -> BOOLEAN], Scan(sample)
      PROVE  TypeOK'
  BY <1>2, ScanType
<1>3. ASSUME NEW t \in Type, SetMode(t)
      PROVE  TypeOK'
  <2> DEFINE v == [values EXCEPT !.type = t,
                                 !.post = IF t = "sym_defer_pk" THEN values.pre ELSE @]
  <2>1. v \in Values
    BY DEF TypeOK, Values
  <2> QED
    BY <1>3, <2>1, ApplyType DEF SetMode
<1>4. ASSUME NEW d \in Delay, SetSingle(d)
      PROVE  TypeOK'
  <2>1. [values EXCEPT !.pre = d, !.post = d] \in Values
    BY DEF TypeOK, Values
  <2> QED
    BY <1>4, <2>1, ApplyType DEF SetSingle
<1>5. ASSUME NEW d \in Delay, SetPress(d)
      PROVE  TypeOK'
  <2>1. [values EXCEPT !.pre = d] \in Values
    BY <1>5 DEF TypeOK, Values, SetPress
  <2> QED
    BY <1>5, <2>1, ApplyType DEF SetPress
<1>6. ASSUME NEW d \in Delay, SetRelease(d)
      PROVE  TypeOK'
  <2>1. [values EXCEPT !.post = d] \in Values
    BY <1>6 DEF TypeOK, Values, SetRelease
  <2> QED
    BY <1>6, <2>1, ApplyType DEF SetRelease
<1>7. CASE Tick
  <2>1. \A n \in 0 .. MaxDelay : Later(n, MaxDelay) \in 0 .. MaxDelay
    BY DebounceAssumption DEF Later
  <2>2. \A n \in 0 .. MaxMs : Later(n, MaxMs) \in 0 .. MaxMs
    BY DebounceAssumption DEF Later
  <2>3. elapsed' \in 0 .. MaxMs
    BY <1>7, <2>2 DEF Tick, TypeOK
  <2>4. age' \in [Key -> 0 .. MaxDelay] /\ quiet' \in [Key -> 0 .. MaxDelay]
    BY <1>7, <2>1 DEF Tick, TypeOK
  <2> QED
    BY <1>7, <2>3, <2>4 DEF Tick, TypeOK, profile
<1>8. CASE UNCHANGED vars
  BY <1>8 DEF vars, profile, clock, TypeOK
<1> QED
  BY <1>1, <1>2, <1>3, <1>4, <1>5, <1>6, <1>7, <1>8 DEF Next

LEMMA TypeHolds == Init => TypeOK
<1> SUFFICES ASSUME Init PROVE TypeOK
  OBVIOUS
<1>1. key \in [Key -> KeyState]
  BY ClearedType DEF Init
<1>2. elapsed \in 0 .. MaxMs /\ age \in [Key -> 0 .. MaxDelay] /\ quiet \in [Key -> 0 .. MaxDelay]
  BY DebounceAssumption DEF Init
<1>3. raw \in [Key -> BOOLEAN] /\ heap \in [Type -> 0 .. 1] /\ unseen \subseteq Key
  BY DEF Init
<1>4. ~ready /\ ~need_update /\ ready \in BOOLEAN /\ need_update \in BOOLEAN
  BY DEF Init
<1>5. values \in Values /\ algo \in {NoAlgo, values.type} /\ status = "pending"
  BY DEF Init
<1> QED
  BY <1>1, <1>2, <1>3, <1>4, <1>5 DEF TypeOK

\* Every variable keeps its type; in particular no algorithm runs without a block of
\* counters of its own or loses one (debounce_runtime.c:121-148, 235-276).
THEOREM TypeCorrect == Spec => []TypeOK
<1>1. TypeOK /\ [Next]_vars => TypeOK'
  BY TypeKept
<1> QED
  BY <1>1, TypeHolds, PTL DEF Spec


-----------------------------------------------------------------------------

\* A new profile stops every counter, and remembers which edges it forgets.
LEMMA ApplyKeeps ==
  ASSUME TypeOK, NEW v \in Values, Apply(v)
  PROVE  Counting' /\ NothingForgotten'
<1>1. \A k \in Key : key'[k].count = 0 /\ key'[k].cooked = key[k].cooked
  BY DEF Apply, Cleared
<1>2. raw' = raw /\ unseen' = {k \in Key : raw[k] # key[k].cooked}
  BY DEF Apply
<1> QED
  BY <1>1, <1>2 DEF Counting, NothingForgotten

\* The first half of a scan leaves a counter that runs, or the key as its switch, or
\* makes the second half look at it.
LEMMA UpdatedSettles ==
  ASSUME TypeOK, NEW c \in KeyState, NEW closed \in BOOLEAN, ~LooksAgain(c)
  PROVE  /\ Updated(c, closed).count > 0 <=> c.count > elapsed
         /\ c.count > 0 /\ c.count <= elapsed => Updated(c, closed).cooked = closed
         /\ c.count = 0 => Updated(c, closed).cooked = c.cooked
<1>1. elapsed \in Nat /\ c.count \in Nat /\ values.type \in Type
  BY DebounceAssumption DEF TypeOK, KeyState, Values
<1>2. Updated(c, closed).count = IF c.count > elapsed THEN c.count - elapsed ELSE 0
  BY DEF Updated, KeyState
<1>3. Updated(c, closed).cooked
        = IF Ends(c) /\ (Defer \/ (Asym /\ ~c.pressed)) THEN closed ELSE c.cooked
  BY DEF Updated, KeyState
<1>4. Ends(c) => Defer \/ (Asym /\ ~c.pressed)
  BY <1>1 DEF LooksAgain, Defer, Eager, Asym, Type
<1> QED
  BY <1>1, <1>2, <1>3, <1>4 DEF Ends

\* The second half starts a counter for every switch that differs from its key and has
\* none.
LEMMA TransferredSettles ==
  ASSUME TypeOK, NEW c \in KeyState, NEW closed \in BOOLEAN
  PROVE  /\ Transferred(c, closed).count > 0 => c.count > 0 \/ Starts(c, closed)
         /\ closed # Transferred(c, closed).cooked => Transferred(c, closed).count > 0
<1>1. values.pre > 0 /\ values.post > 0 /\ c.count \in Nat
  BY DebounceAssumption DEF TypeOK, Values, Delay, KeyState
<1>2. CASE Starts(c, closed)
  <2>1. Transferred(c, closed).count > 0
    BY <1>1, <1>2 DEF Transferred
  <2> QED
    BY <1>2, <2>1
<1>3. CASE ~Starts(c, closed) /\ Cancels(c, closed)
  <2>1. Transferred(c, closed).count = 0 /\ Transferred(c, closed).cooked = c.cooked
    BY <1>3 DEF Transferred, KeyState
  <2> QED
    BY <1>3, <2>1 DEF Cancels
<1>4. CASE ~Starts(c, closed) /\ ~Cancels(c, closed)
  <2>1. Transferred(c, closed) = c
    BY <1>4 DEF Transferred
  <2> QED
    BY <1>1, <1>4, <2>1 DEF Starts
<1> QED
  BY <1>2, <1>3, <1>4

\* A run of the algorithm forgets no edge: those that were counted still are, or are
\* settled; those that come are counted.
LEMMA RunKeeps ==
  ASSUME IInv, NEW sample \in [Key -> BOOLEAN], Run(sample), raw' = sample
  PROVE  Counting' /\ NothingForgotten'
<1> DEFINE late == need_update /\ elapsed > 0
           look == sample # raw \/ (late /\ \E k \in Key : LooksAgain(key[k]))
           u == [k \in Key |-> IF late THEN Updated(key[k], sample[k]) ELSE key[k]]
<1>1. /\ key' = [k \in Key |-> IF look THEN Transferred(u[k], sample[k]) ELSE u[k]]
      /\ need_update' = Needs(late, look, u, sample)
      /\ unseen' = {k \in unseen : sample[k] # key'[k].cooked /\ key'[k].count = 0}
  BY DEF Run
<1>2. u \in [Key -> KeyState] /\ \A k \in Key : key[k] \in KeyState /\ sample[k] \in BOOLEAN
  BY UpdatedType DEF IInv, TypeOK
<1>3. \A k \in Key : key'[k].count \in Nat
  BY RunType, DebounceAssumption DEF IInv, KeyState
\* what the first half counts, it knows to count
<1>4. ASSUME NEW k \in Key, u[k].count > 0
      PROVE  IF late THEN \E l \in Key : u[l].count > 0 ELSE need_update
  BY <1>4 DEF IInv, Counting
<1>5. CASE look
  <2>1. \A k \in Key : key'[k] = Transferred(u[k], sample[k])
    BY <1>1, <1>5
  <2>2. ASSUME NEW k \in Key
        PROVE  /\ key'[k].count > 0 => need_update'
               /\ sample[k] # key'[k].cooked => key'[k].count > 0
    <3> HIDE DEF u, late, look
    <3>1. /\ key'[k].count > 0 => u[k].count > 0 \/ Starts(u[k], sample[k])
          /\ sample[k] # key'[k].cooked => key'[k].count > 0
      BY <1>2, <2>1, TransferredSettles DEF IInv
    <3>2. u[k].count > 0 \/ Starts(u[k], sample[k]) => Needs(late, look, u, sample)
      BY <1>4, <1>5 DEF Needs
    <3> QED
      BY <1>1, <3>1, <3>2
  <2> QED
    BY <2>2 DEF Counting, NothingForgotten
<1>6. CASE ~look
  <2>1. key' = u /\ sample = raw
    BY <1>1, <1>6
  <2>2. ASSUME NEW k \in Key, key'[k].count > 0
        PROVE  need_update'
    BY <1>1, <1>4, <2>1, <2>2 DEF Needs
  <2>3. CASE late
    <3>1. ASSUME NEW k \in Key, k \notin unseen', sample[k] # key'[k].cooked
          PROVE  key'[k].count > 0
      <4>1. key'[k] = Updated(key[k], sample[k])
        BY <2>1, <2>3
      <4>2. ~LooksAgain(key[k]) /\ key[k].count \in Nat /\ elapsed \in Nat
        BY <1>2, <1>6, <2>3, DebounceAssumption DEF IInv, TypeOK, KeyState
      <4> HIDE DEF late, look, u
      <4>3. CASE key[k].count > elapsed
        BY <1>2, <4>1, <4>2, <4>3, UpdatedSettles DEF IInv
      <4>4. CASE key[k].count > 0 /\ key[k].count <= elapsed
        BY <1>2, <3>1, <4>1, <4>2, <4>4, UpdatedSettles DEF IInv
      <4>5. CASE key[k].count = 0
        <5>1. key'[k].cooked = key[k].cooked
          BY <1>2, <4>1, <4>2, <4>5, UpdatedSettles DEF IInv
        <5>2. k \in unseen
          BY <2>1, <3>1, <4>5, <5>1 DEF IInv, NothingForgotten
        <5> QED
          BY <1>1, <1>3, <3>1, <5>2
      <4> QED
        BY <4>2, <4>3, <4>4, <4>5
    <3> QED
      BY <2>2, <3>1 DEF Counting, NothingForgotten
  <2>4. CASE ~late
    <3>1. key' = key
      BY <2>1, <2>4 DEF IInv, TypeOK
    <3>2. ASSUME NEW k \in Key, k \notin unseen', sample[k] # key'[k].cooked
          PROVE  key'[k].count > 0
      <4>1. CASE k \in unseen
        BY <1>1, <1>3, <3>2, <4>1
      <4>2. CASE k \notin unseen
        BY <2>1, <3>1, <3>2, <4>2 DEF IInv, NothingForgotten
      <4> QED
        BY <4>1, <4>2
    <3> QED
      BY <2>2, <3>2 DEF Counting, NothingForgotten
  <2> QED
    BY <2>3, <2>4
<1> QED
  BY <1>5, <1>6

LEMMA EdgesKept ==
  ASSUME IInv, [Next]_vars
  PROVE  Counting' /\ NothingForgotten'
<1>1. CASE MatrixInit
  BY <1>1, ApplyKeeps DEF MatrixInit, IInv, TypeOK
<1>2. ASSUME NEW sample \in [Key -> BOOLEAN], Scan(sample)
      PROVE  Counting' /\ NothingForgotten'
  <2>1. CASE Run(sample)
    BY <1>2, <2>1, RunKeeps DEF Scan
  <2>2. CASE /\ key' = [k \in Key |-> Cleared(sample[k])]
             /\ UNCHANGED clock
    <3>1. \A k \in Key : key'[k].count = 0 /\ key'[k].cooked = sample[k]
      BY <2>2 DEF Cleared
    <3> QED
      BY <1>2, <3>1 DEF Scan, Counting, NothingForgotten
  <2> QED
    BY <1>2, <2>1, <2>2 DEF Scan, clock
<1>3. ASSUME NEW t \in Type, SetMode(t)
      PROVE  Counting' /\ NothingForgotten'
  <2> DEFINE v == [values EXCEPT !.type = t,
                                 !.post = IF t = "sym_defer_pk" THEN values.pre ELSE @]
  <2>1. v \in Values
    BY DEF IInv, TypeOK, Values
  <2> QED
    BY <1>3, <2>1, ApplyKeeps DEF SetMode, IInv
<1>4. ASSUME NEW d \in Delay, SetSingle(d) \/ SetPress(d) \/ SetRelease(d)
      PROVE  Counting' /\ NothingForgotten'
  <2>1. CASE SetSingle(d)
    <3>1. [values EXCEPT !.pre = d, !.post = d] \in Values
      BY DEF IInv, TypeOK, Values
    <3> QED
      BY <2>1, <3>1, ApplyKeeps DEF SetSingle, IInv
  <2>2. CASE SetPress(d)
    <3>1. [values EXCEPT !.pre = d] \in Values
      BY <2>2 DEF IInv, TypeOK, Values, SetPress
    <3> QED
      BY <2>2, <3>1, ApplyKeeps DEF SetPress, IInv
  <2>3. CASE SetRelease(d)
    <3>1. [values EXCEPT !.post = d] \in Values
      BY <2>3 DEF IInv, TypeOK, Values, SetRelease
    <3> QED
      BY <2>3, <3>1, ApplyKeeps DEF SetRelease, IInv
  <2> QED
    BY <1>4, <2>1, <2>2, <2>3
<1>5. CASE Tick
  BY <1>5 DEF Tick, IInv, Counting, NothingForgotten
<1>6. CASE UNCHANGED vars
  BY <1>6 DEF vars, clock, IInv, Counting, NothingForgotten
<1> QED
  BY <1>1, <1>2, <1>3, <1>4, <1>5, <1>6 DEF Next

LEMMA IInvInit == Init => IInv
<1> SUFFICES ASSUME Init PROVE IInv
  OBVIOUS
<1>1. \A k \in Key : key[k].count = 0 /\ key[k].cooked = raw[k]
  BY DEF Init, Cleared
<1> QED
  BY <1>1, TypeHolds DEF IInv, Counting, NothingForgotten

\* Whatever the switches, the clock, VIA and malloc do: a switch that differs from its
\* key is being counted and the algorithm knows it, unless VIA has changed the profile
\* while the edge was on its way (sym_defer_pk.c:65-130 and the other two algorithms).
THEOREM EdgesAreKept == Spec => []NothingForgotten
<1>1. IInv /\ [Next]_vars => IInv'
  BY TypeKept, EdgesKept DEF IInv
<1>2. IInv => NothingForgotten
  BY DEF IInv
<1> QED
  BY <1>1, <1>2, IInvInit, PTL DEF Spec

-----------------------------------------------------------------------------
(* The times the modes promise *)

\* A counter that started with delay d and is c now has run for so long, or longer
\* than is told apart: e is the time since the counters were updated, t the history.
HasRun(d, c, e, t) == t = MaxDelay \/ d - c + e <= t

\* Balanced: what is counted is a switch that differs from its key and has been steady.
DeferTimed(v, e, c, closed, a) ==
  c.count > 0 => closed # c.cooked /\ HasRun(v.post, c.count, e, a)

\* Fast: what is counted is the time since the key changed.
EagerTimed(v, e, c, q) ==
  IF c.count > 0 THEN HasRun(v.post, c.count, e, q) ELSE v.post <= q

\* Advanced: the one after a press, the other before a release.
AsymTimed(v, e, c, closed, a, q) ==
  IF c.count > 0 /\ c.pressed
  THEN c.cooked /\ HasRun(v.pre, c.count, e, q)
  ELSE /\ c.cooked => v.pre <= q
       /\ c.count > 0 => c.cooked /\ ~closed /\ HasRun(v.post, c.count, e, a)

Timed(v, e, c, closed, a, q) ==
  /\ v.type = "sym_defer_pk" => DeferTimed(v, e, c, closed, a)
  /\ v.type = "sym_eager_pk" => EagerTimed(v, e, c, q)
  /\ v.type = "asym_eager_defer_pk" => AsymTimed(v, e, c, closed, a, q)

\* Every counter agrees with the history, and an algorithm that is not ready has none.
Timing ==
  /\ ~ready => \A k \in Key : key[k].count = 0 /\ quiet[k] = MaxDelay
  /\ \A k \in Key : Timed(values, elapsed, key[k], raw[k], age[k], quiet[k])

\* What the times come to: one that has run out, one that goes on, one that starts, and
\* one more millisecond.
LEMMA RunsOut ==
  ASSUME NEW d \in Delay, NEW c \in Nat, NEW e \in Nat, NEW t \in 0 .. MaxDelay,
         HasRun(d, c, e, t), c <= e
  PROVE  d <= t
BY DebounceAssumption DEF HasRun, Delay

LEMMA GoesOn ==
  ASSUME NEW d \in Delay, NEW c \in Nat, NEW e \in Nat, NEW t \in 0 .. MaxDelay,
         HasRun(d, c, e, t), c > e
  PROVE  HasRun(d, c - e, 0, t)
BY DebounceAssumption DEF HasRun, Delay

LEMMA StartsAnew ==
  ASSUME NEW d \in Delay, NEW t \in 0 .. MaxDelay
  PROVE  HasRun(d, d, 0, t)
BY DebounceAssumption DEF HasRun, Delay

LEMMA GrowsOlder ==
  ASSUME NEW d \in Delay, NEW c \in Nat, NEW e \in Nat, NEW e2 \in {e, Later(e, MaxMs)},
         NEW t \in 0 .. MaxDelay
  PROVE  /\ HasRun(d, c, e, t) => HasRun(d, c, e2, Later(t, MaxDelay))
         /\ d <= t => d <= Later(t, MaxDelay)
<1>1. e2 \in Nat /\ e2 <= e + 1
  BY DebounceAssumption DEF Later
<1> QED
  BY <1>1, DebounceAssumption DEF HasRun, Delay, Later

-----------------------------------------------------------------------------
(* One key in one run of an algorithm: c before it, u between its halves, n after it, *)
(* its switch r before and s now.                                                     *)

Transfers(c) == Defer \/ (Asym /\ ~c.pressed)

FirstHalf(c, u, s) ==
  /\ u.pressed = c.pressed
  /\ c.count > elapsed => u.count = c.count - elapsed /\ u.cooked = c.cooked
  /\ c.count <= elapsed => u.count = 0
  /\ c.count = 0 => u.cooked = c.cooked
  /\ Ends(c) /\ Transfers(c) => u.cooked = s
  /\ Ends(c) /\ ~Transfers(c) => u.cooked = c.cooked

SecondHalf(look, u, n, s) ==
  /\ ~look => n = u
  /\ look /\ Starts(u, s)
       => /\ n.cooked = IF Eager \/ (Asym /\ s) THEN s ELSE u.cooked
          /\ n.count = IF Asym /\ s THEN values.pre ELSE values.post
          /\ n.pressed = IF Asym THEN s ELSE u.pressed
  /\ look /\ ~Starts(u, s) /\ Cancels(u, s)
       => n.count = 0 /\ n.cooked = u.cooked /\ n.pressed = u.pressed
  /\ look /\ ~Starts(u, s) /\ ~Cancels(u, s) => n = u

LEMMA FirstHalfDone ==
  ASSUME TypeOK, NEW c \in KeyState, NEW s \in BOOLEAN, NEW late \in BOOLEAN,
         ~late => c.count = 0 \/ elapsed = 0
  PROVE  FirstHalf(c, IF late THEN Updated(c, s) ELSE c, s)
<1>1. elapsed \in Nat /\ c.count \in Nat
  BY DebounceAssumption DEF TypeOK, KeyState
<1>2. CASE late
  <2> DEFINE u == Updated(c, s)
  <2>1. /\ u.pressed = c.pressed
        /\ u.count = IF c.count > elapsed THEN c.count - elapsed ELSE 0
        /\ u.cooked = IF Ends(c) /\ (Defer \/ (Asym /\ ~c.pressed)) THEN s ELSE c.cooked
    BY DEF Updated, KeyState
  <2> HIDE DEF u
  <2>2. c.count > elapsed \/ c.count = 0 => ~Ends(c)
    BY <1>1 DEF Ends
  <2>3. FirstHalf(c, u, s)
    BY <1>1, <2>1, <2>2 DEF FirstHalf, Transfers
  <2> QED
    BY <1>2, <2>3 DEF u
<1>3. CASE ~late
  <2>1. ~Ends(c)
    BY <1>1, <1>3 DEF Ends
  <2>2. FirstHalf(c, c, s)
    BY <1>1, <1>3, <2>1 DEF FirstHalf
  <2> QED
    BY <1>3, <2>2
<1> QED
  BY <1>2, <1>3

LEMMA SecondHalfDone ==
  ASSUME TypeOK, NEW u \in KeyState, NEW s \in BOOLEAN, NEW look \in BOOLEAN
  PROVE  SecondHalf(look, u, IF look THEN Transferred(u, s) ELSE u, s)
<1>1. CASE ~look
  BY <1>1 DEF SecondHalf
<1>2. CASE look
  <2> DEFINE n == Transferred(u, s)
  <2>1. Starts(u, s)
          => /\ n.cooked = IF Eager \/ (Asym /\ s) THEN s ELSE u.cooked
             /\ n.count = IF Asym /\ s THEN values.pre ELSE values.post
             /\ n.pressed = IF Asym THEN s ELSE u.pressed
    BY DEF Transferred
  <2>2. ~Starts(u, s) /\ Cancels(u, s)
          => n.count = 0 /\ n.cooked = u.cooked /\ n.pressed = u.pressed
    BY DEF Transferred, KeyState
  <2>3. ~Starts(u, s) /\ ~Cancels(u, s) => n = u
    BY DEF Transferred
  <2> HIDE DEF n
  <2>4. SecondHalf(look, u, n, s)
    BY <1>2, <2>1, <2>2, <2>3 DEF SecondHalf
  <2> QED
    BY <1>2, <2>4 DEF n
<1> QED
  BY <1>1, <1>2

\* Balanced: a key changes only after its switch has been steady for the delay.
LEMMA DeferKept ==
  ASSUME TypeOK, Defer, NEW look \in BOOLEAN,
         NEW c \in KeyState, NEW u \in KeyState, NEW n \in KeyState,
         NEW r \in BOOLEAN, NEW s \in BOOLEAN, s # r => look,
         NEW a \in 0 .. MaxDelay, NEW a2, a2 = IF s # r THEN 0 ELSE a,
         FirstHalf(c, u, s), SecondHalf(look, u, n, s),
         DeferTimed(values, elapsed, c, r, a)
  PROVE  /\ DeferTimed(values, 0, n, s, a2)
         /\ n.cooked # c.cooked => a2 >= values.post
<1>0. ~Eager /\ ~Asym
  BY DEF Defer, Eager, Asym
<1>1. /\ elapsed \in Nat /\ c.count \in Nat /\ u.count \in Nat /\ n.count \in Nat
      /\ values.post \in Delay /\ a2 \in 0 .. MaxDelay
  BY DebounceAssumption DEF TypeOK, KeyState, Values
<1>2. {c.cooked, u.cooked, n.cooked} \subseteq BOOLEAN
  BY DEF KeyState
<1>3. u.cooked # c.cooked => s = r /\ values.post <= a
  <2>1. CASE Ends(c)
    <3>1. r # c.cooked /\ HasRun(values.post, c.count, elapsed, a) /\ c.count <= elapsed
      BY <2>1 DEF Ends, DeferTimed
    <3>2. values.post <= a
      BY <1>1, <3>1, RunsOut
    <3>3. u.cooked = s
      BY <2>1 DEF FirstHalf, Transfers
    <3> QED
      BY <1>2, <3>1, <3>2, <3>3
  <2>2. CASE ~Ends(c)
    BY <1>1, <2>2 DEF Ends, FirstHalf
  <2> QED
    BY <2>1, <2>2
<1>4. n.cooked = u.cooked
  BY <1>0 DEF SecondHalf
<1>5. n.cooked # c.cooked => a2 >= values.post
  <2>1. n.cooked # c.cooked => s = r /\ values.post <= a
    BY <1>3, <1>4
  <2>2. s = r => a2 = a
    OBVIOUS
  <2>3. values.post <= a => a >= values.post
    BY <1>1 DEF Delay
  <2> QED
    BY <2>1, <2>2, <2>3
<1>6. u.count > 0 => r # u.cooked /\ HasRun(values.post, u.count, 0, a)
  <2> SUFFICES ASSUME u.count > 0
               PROVE  r # u.cooked /\ HasRun(values.post, u.count, 0, a)
    OBVIOUS
  <2>1. c.count > elapsed
    BY <1>1 DEF FirstHalf
  <2>2. u.count = c.count - elapsed /\ u.cooked = c.cooked
    BY <2>1 DEF FirstHalf
  <2>3. c.count > 0
    BY <1>1, <2>1
  <2>4. r # c.cooked /\ HasRun(values.post, c.count, elapsed, a)
    BY <2>3 DEF DeferTimed
  <2> QED
    BY <1>1, <2>1, <2>2, <2>4, GoesOn
<1>7. ASSUME n.count > 0
      PROVE  s # n.cooked /\ HasRun(values.post, n.count, 0, a2)
  <2>1. CASE look /\ Starts(u, s)
    <3>1. n.count = values.post /\ s # u.cooked
      BY <1>0, <2>1 DEF SecondHalf, Starts
    <3> QED
      BY <1>1, <1>4, <3>1, StartsAnew
  <2>2. CASE ~(look /\ Starts(u, s))
    <3>0. ~(look /\ Cancels(u, s))
      <4>1. SUFFICES ASSUME look /\ Cancels(u, s) PROVE n.count = 0
        BY <1>1, <1>7
      <4> QED
        BY <2>2, <4>1 DEF SecondHalf
    <3>1. n = u
      BY <2>2, <3>0 DEF SecondHalf
    <3>2. r # u.cooked /\ HasRun(values.post, u.count, 0, a)
      BY <1>6, <1>7, <3>1
    <3>3. s = r
      <4>1. CASE look
        <5>1. s # u.cooked
          BY <3>0, <4>1 DEF Cancels
        <5> QED
          BY <1>2, <3>2, <5>1
      <4> QED
        BY <4>1
    <3> QED
      BY <3>1, <3>2, <3>3
  <2> QED
    BY <2>1, <2>2
<1> QED
  BY <1>5, <1>7 DEF DeferTimed

\* Fast: a key changes only when it has been left alone for the delay.
LEMMA EagerKept ==
  ASSUME TypeOK, Eager, NEW look \in BOOLEAN,
         NEW c \in KeyState, NEW u \in KeyState, NEW n \in KeyState, NEW s \in BOOLEAN,
         NEW q \in 0 .. MaxDelay, NEW q2, q2 = IF n.cooked # c.cooked THEN 0 ELSE q,
         FirstHalf(c, u, s), SecondHalf(look, u, n, s),
         EagerTimed(values, elapsed, c, q)
  PROVE  /\ EagerTimed(values, 0, n, q2)
         /\ n.cooked # c.cooked => q >= values.post
<1>0. ~Defer /\ ~Asym
  BY DEF Defer, Eager, Asym
<1>1. /\ elapsed \in Nat /\ c.count \in Nat /\ u.count \in Nat /\ n.count \in Nat
      /\ values.post \in Delay /\ q2 \in 0 .. MaxDelay
  BY DebounceAssumption DEF TypeOK, KeyState, Values
<1>3. u.cooked = c.cooked
  BY <1>0, <1>1 DEF FirstHalf, Ends, Transfers
<1>4. EagerTimed(values, 0, u, q)
  <2>1. CASE c.count > elapsed
    <3>1. u.count = c.count - elapsed /\ u.count > 0 /\ c.count > 0
      BY <1>1, <2>1 DEF FirstHalf
    <3>2. HasRun(values.post, c.count, elapsed, q)
      BY <3>1 DEF EagerTimed
    <3>3. HasRun(values.post, u.count, 0, q)
      BY <1>1, <2>1, <3>1, <3>2, GoesOn
    <3> QED
      BY <3>1, <3>3 DEF EagerTimed
  <2>2. CASE c.count <= elapsed
    <3>1. u.count = 0 /\ ~(u.count > 0)
      BY <2>2 DEF FirstHalf
    <3>2. values.post <= q
      BY <1>1, <2>2, RunsOut DEF EagerTimed
    <3> QED
      BY <3>1, <3>2 DEF EagerTimed
  <2> QED
    BY <1>1, <2>1, <2>2
<1>5. CASE look /\ Starts(u, s)
  <2>1. n.count = values.post /\ n.count > 0 /\ ~(u.count > 0)
    BY <1>0, <1>1, <1>5 DEF SecondHalf, Starts, Delay
  <2>2. HasRun(values.post, n.count, 0, q2)
    BY <1>1, <2>1, StartsAnew
  <2>3. q >= values.post
    BY <1>1, <1>4, <2>1 DEF EagerTimed, Delay
  <2> QED
    BY <2>1, <2>2, <2>3 DEF EagerTimed
<1>6. CASE ~(look /\ Starts(u, s))
  <2>1. n = u
    BY <1>0, <1>6 DEF SecondHalf, Cancels
  <2> QED
    BY <1>3, <1>4, <2>1
<1> QED
  BY <1>5, <1>6

\* Advanced: a key goes down with its switch, and up only when the press delay is over
\* and the switch has been open for the release delay.
LEMMA AsymKept ==
  ASSUME TypeOK, Asym, NEW look \in BOOLEAN,
         NEW c \in KeyState, NEW u \in KeyState, NEW n \in KeyState,
         NEW r \in BOOLEAN, NEW s \in BOOLEAN, s # r => look,
         NEW a \in 0 .. MaxDelay, NEW a2, a2 = IF s # r THEN 0 ELSE a,
         NEW q \in 0 .. MaxDelay, NEW q2, q2 = IF n.cooked # c.cooked THEN 0 ELSE q,
         FirstHalf(c, u, s), SecondHalf(look, u, n, s),
         AsymTimed(values, elapsed, c, r, a, q)
  PROVE  /\ AsymTimed(values, 0, n, s, a2, q2)
         /\ n.cooked # c.cooked => s \/ (a2 >= values.post /\ q >= values.pre)
<1>0. ~Defer /\ ~Eager
  BY DEF Defer, Eager, Asym
<1>1. /\ elapsed \in Nat /\ c.count \in Nat /\ u.count \in Nat /\ n.count \in Nat
      /\ values.pre \in Delay /\ values.post \in Delay
      /\ a2 \in 0 .. MaxDelay /\ q2 \in 0 .. MaxDelay
  BY DebounceAssumption DEF TypeOK, KeyState, Values
<1>2. /\ {c.cooked, u.cooked, n.cooked} \subseteq BOOLEAN
      /\ {c.pressed, u.pressed, n.pressed} \subseteq BOOLEAN
  BY DEF KeyState
\* the key changes in the first half: its switch has been open
<1>3. CASE u.cooked # c.cooked
  <2>1. Ends(c) /\ ~c.pressed /\ u.cooked = s /\ u.count = 0
    <3>1. Ends(c)
      BY <1>1, <1>3 DEF FirstHalf, Ends
    <3>2. Transfers(c)
      BY <1>3, <3>1 DEF FirstHalf
    <3>3. c.count <= elapsed
      BY <3>1 DEF Ends
    <3> QED
      BY <1>0, <3>1, <3>2, <3>3 DEF FirstHalf, Transfers
  <2>2. /\ c.count > 0 /\ c.count <= elapsed
        /\ c.cooked /\ ~r /\ HasRun(values.post, c.count, elapsed, a) /\ values.pre <= q
    BY <2>1 DEF Ends, AsymTimed
  <2>3. values.post <= a
    BY <1>1, <2>2, RunsOut
  <2>4. ~s /\ s = r
    BY <1>2, <1>3, <2>1, <2>2
  <2>5. a2 >= values.post /\ q >= values.pre
    BY <1>1, <2>2, <2>3, <2>4 DEF Delay
  <2>6. n.cooked = s /\ n.count = 0
    <3>1. ~Starts(u, s)
      BY <2>1 DEF Starts
    <3> QED
      BY <2>1, <3>1 DEF SecondHalf
  <2>7. ~n.cooked /\ ~(n.count > 0)
    BY <2>4, <2>6
  <2> QED
    BY <2>5, <2>7 DEF AsymTimed
\* otherwise what held of it still does
<1>4. CASE u.cooked = c.cooked
  <2>1. AsymTimed(values, 0, u, r, a, q)
    <3>1. CASE c.count > elapsed
      <4>1. u.count = c.count - elapsed /\ u.count > 0 /\ c.count > 0 /\ u.pressed = c.pressed
        BY <1>1, <3>1 DEF FirstHalf
      <4>2. CASE c.pressed
        <5>1. c.cooked /\ HasRun(values.pre, c.count, elapsed, q)
          BY <4>1, <4>2 DEF AsymTimed
        <5>2. HasRun(values.pre, u.count, 0, q)
          BY <1>1, <3>1, <4>1, <5>1, GoesOn
        <5> QED
          BY <1>4, <4>1, <4>2, <5>1, <5>2 DEF AsymTimed
      <4>3. CASE ~c.pressed
        <5>1. c.cooked /\ ~r /\ HasRun(values.post, c.count, elapsed, a) /\ values.pre <= q
          BY <4>1, <4>3 DEF AsymTimed
        <5>2. HasRun(values.post, u.count, 0, a)
          BY <1>1, <3>1, <4>1, <5>1, GoesOn
        <5> QED
          BY <1>4, <4>1, <4>3, <5>1, <5>2 DEF AsymTimed
      <4> QED
        BY <4>2, <4>3
    <3>2. CASE c.count <= elapsed
      <4>1. u.count = 0 /\ ~(u.count > 0)
        BY <3>2 DEF FirstHalf
      <4>2. c.cooked => values.pre <= q
        <5>1. CASE c.count > 0 /\ c.pressed
          <6>1. HasRun(values.pre, c.count, elapsed, q)
            BY <5>1 DEF AsymTimed
          <6> QED
            BY <1>1, <3>2, <6>1, RunsOut
        <5>2. CASE ~(c.count > 0 /\ c.pressed)
          BY <5>2 DEF AsymTimed
        <5> QED
          BY <5>1, <5>2
      <4> QED
        BY <1>4, <4>1, <4>2 DEF AsymTimed
    <3> QED
      BY <1>1, <3>1, <3>2
  <2>2. CASE look /\ Starts(u, s)
    <3>0. ~(u.count > 0) /\ s # u.cooked
      BY <2>2 DEF Starts
    <3>1. CASE s
      <4>1. n.count = values.pre /\ n.cooked = s /\ n.pressed = s
        BY <1>0, <2>2, <3>1 DEF SecondHalf
      <4>2. n.count > 0 /\ HasRun(values.pre, n.count, 0, q2)
        BY <1>1, <4>1, StartsAnew DEF Delay
      <4> QED
        BY <3>1, <4>1, <4>2 DEF AsymTimed
    <3>2. CASE ~s
      <4>1. n.count = values.post /\ n.cooked = u.cooked /\ n.pressed = s
        BY <1>0, <2>2, <3>2 DEF SecondHalf
      <4>2. HasRun(values.post, n.count, 0, a2)
        BY <1>1, <4>1, StartsAnew
      <4>3. values.pre <= q /\ n.cooked
        BY <1>2, <2>1, <3>0, <3>2, <4>1 DEF AsymTimed
      <4>4. q2 = q
        BY <1>4, <4>1
      <4> QED
        BY <1>4, <3>2, <4>1, <4>2, <4>3, <4>4 DEF AsymTimed
    <3> QED
      BY <3>1, <3>2
  <2>3. CASE look /\ Cancels(u, s)
    <3>1. ~Starts(u, s)
      BY <2>3 DEF Cancels, Starts
    <3>2. n.count = 0 /\ ~(n.count > 0) /\ n.cooked = u.cooked /\ ~u.pressed
      BY <1>0, <2>3, <3>1 DEF SecondHalf, Cancels
    <3>3. q2 = q /\ (u.cooked => values.pre <= q)
      BY <1>4, <2>1, <3>2 DEF AsymTimed
    <3> QED
      BY <1>4, <3>2, <3>3 DEF AsymTimed
  <2>4. CASE ~(look /\ Starts(u, s)) /\ ~(look /\ Cancels(u, s))
    <3>1. n = u
      BY <2>4 DEF SecondHalf
    <3>2. q2 = q
      BY <1>4, <3>1
    <3>3. u.count > 0 /\ ~u.pressed => s = r
      <4> SUFFICES ASSUME u.count > 0, ~u.pressed, look PROVE s = r
        OBVIOUS
      <4>1. ~r /\ u.cooked
        BY <2>1 DEF AsymTimed
      <4>2. s # u.cooked
        BY <2>4 DEF Cancels
      <4> QED
        BY <1>2, <4>1, <4>2
    <3>4. CASE u.count > 0 /\ ~u.pressed
      <4>1. s = r /\ a2 = a
        BY <3>3, <3>4
      <4> QED
        BY <1>4, <2>1, <3>1, <3>2, <4>1
    <3>5. CASE ~(u.count > 0 /\ ~u.pressed)
      <4>1. AsymTimed(values, 0, u, s, a2, q)
        BY <2>1, <3>5 DEF AsymTimed
      <4> QED
        BY <1>4, <3>1, <3>2, <4>1
    <3> QED
      BY <3>4, <3>5
  <2> QED
    BY <2>2, <2>3, <2>4
<1> QED
  BY <1>3, <1>4

\* One key in one run, whatever the algorithm; Permits is what Allows says of it.
Permits(s, a2, q) ==
  /\ Defer => a2 >= values.post
  /\ Eager => q >= values.post
  /\ Asym => s \/ (a2 >= values.post /\ q >= values.pre)

LEMMA KeyKept ==
  ASSUME TypeOK, NEW late \in BOOLEAN, NEW look \in BOOLEAN,
         NEW c \in KeyState, NEW r \in BOOLEAN, NEW s \in BOOLEAN, s # r => look,
         ~late => c.count = 0 \/ elapsed = 0,
         NEW u, u = IF late THEN Updated(c, s) ELSE c,
         NEW n, n = IF look THEN Transferred(u, s) ELSE u,
         NEW a \in 0 .. MaxDelay, NEW a2, a2 = IF s # r THEN 0 ELSE a,
         NEW q \in 0 .. MaxDelay, NEW q2, q2 = IF n.cooked # c.cooked THEN 0 ELSE q,
         Timed(values, elapsed, c, r, a, q)
  PROVE  /\ Timed(values, 0, n, s, a2, q2)
         /\ n.cooked # c.cooked => Permits(s, a2, q)
         /\ n.count > 0 => c.count > 0 \/ look
<1>1. u \in KeyState /\ n \in KeyState
  <2>1. u \in KeyState
    BY UpdatedType
  <2> QED
    BY <2>1, TransferredType
<1>2. FirstHalf(c, u, s) /\ SecondHalf(look, u, n, s)
  BY <1>1, FirstHalfDone, SecondHalfDone
<1>3. n.count > 0 => c.count > 0 \/ look
  <2> SUFFICES ASSUME n.count > 0, ~look PROVE c.count > 0
    OBVIOUS
  <2>1. u.count > 0
    BY <1>2 DEF SecondHalf
  <2>2. elapsed \in Nat /\ c.count \in Nat
    BY DebounceAssumption DEF TypeOK, KeyState
  <2> QED
    BY <1>2, <2>1, <2>2 DEF FirstHalf
<1>4. CASE Defer
  <2>1. DeferTimed(values, elapsed, c, r, a)
    BY <1>4 DEF Timed, Defer
  <2>2. /\ DeferTimed(values, 0, n, s, a2)
        /\ n.cooked # c.cooked => a2 >= values.post
    BY <1>1, <1>2, <1>4, <2>1, DeferKept
  <2> QED
    BY <1>3, <1>4, <2>2 DEF Timed, Permits, Defer, Eager, Asym
<1>5. CASE Eager
  <2>1. EagerTimed(values, elapsed, c, q)
    BY <1>5 DEF Timed, Eager
  <2>2. /\ EagerTimed(values, 0, n, q2)
        /\ n.cooked # c.cooked => q >= values.post
    BY <1>1, <1>2, <1>5, <2>1, EagerKept
  <2> QED
    BY <1>3, <1>5, <2>2 DEF Timed, Permits, Defer, Eager, Asym
<1>6. CASE Asym
  <2>1. AsymTimed(values, elapsed, c, r, a, q)
    BY <1>6 DEF Timed, Asym
  <2>2. /\ AsymTimed(values, 0, n, s, a2, q2)
        /\ n.cooked # c.cooked => s \/ (a2 >= values.post /\ q >= values.pre)
    BY <1>1, <1>2, <1>6, <2>1, AsymKept
  <2> QED
    BY <1>3, <1>6, <2>2 DEF Timed, Permits, Defer, Eager, Asym
<1> QED
  BY <1>4, <1>5, <1>6 DEF TypeOK, Values, Type, Defer, Eager, Asym

-----------------------------------------------------------------------------

TInv == IInv /\ Timing

\* A run of the algorithm keeps the times, and changes a key only as its mode says.
LEMMA RunTimes ==
  ASSUME TInv, NEW sample \in [Key -> BOOLEAN], Run(sample), raw' = sample,
         age' = [k \in Key |-> IF sample[k] # raw[k] THEN 0 ELSE age[k]],
         values' = values
  PROVE  /\ \A k \in Key : Timed(values', elapsed', key'[k], raw'[k], age'[k], quiet'[k])
         /\ \A k \in Key : key'[k].cooked # key[k].cooked => Allows(k)
<1> DEFINE late == need_update /\ elapsed > 0
           look == sample # raw \/ (late /\ \E k \in Key : LooksAgain(key[k]))
           u == [k \in Key |-> IF late THEN Updated(key[k], sample[k]) ELSE key[k]]
<1>1. /\ key' = [k \in Key |-> IF look THEN Transferred(u[k], sample[k]) ELSE u[k]]
      /\ elapsed' = IF need_update \/ look THEN 0 ELSE elapsed
      /\ quiet' = [k \in Key |-> IF key'[k].cooked # key[k].cooked THEN 0 ELSE quiet[k]]
  BY DEF Run
<1>2. late \in BOOLEAN /\ look \in BOOLEAN /\ elapsed \in Nat
  BY DebounceAssumption DEF TInv, IInv, TypeOK
<1> SUFFICES ASSUME NEW k \in Key
             PROVE  /\ Timed(values', elapsed', key'[k], raw'[k], age'[k], quiet'[k])
                    /\ key'[k].cooked # key[k].cooked => Allows(k)
  OBVIOUS
<1> DEFINE w == IF late THEN Updated(key[k], sample[k]) ELSE key[k]
<1>3. /\ key[k] \in KeyState /\ raw[k] \in BOOLEAN /\ sample[k] \in BOOLEAN
      /\ age[k] \in 0 .. MaxDelay /\ quiet[k] \in 0 .. MaxDelay
  BY DEF TInv, IInv, TypeOK
<1>4. key[k].count \in Nat
  BY <1>3, DebounceAssumption DEF KeyState
<1>5. sample[k] # raw[k] => look
  OBVIOUS
<1>6. ~late => key[k].count = 0 \/ elapsed = 0
  BY <1>2, <1>4 DEF TInv, IInv, Counting
<1>7. /\ key'[k] = IF look THEN Transferred(w, sample[k]) ELSE w
      /\ age'[k] = IF sample[k] # raw[k] THEN 0 ELSE age[k]
      /\ quiet'[k] = IF key'[k].cooked # key[k].cooked THEN 0 ELSE quiet[k]
  BY <1>1
<1>8. Timed(values, elapsed, key[k], raw[k], age[k], quiet[k])
  BY DEF TInv, Timing
<1>9. key[k].count > 0 => need_update
  BY DEF TInv, IInv, Counting
<1> HIDE DEF late, look, u
<1>10. w = IF late THEN Updated(key[k], sample[k]) ELSE key[k]
  OBVIOUS
<1> HIDE DEF w
<1>11. /\ Timed(values, 0, key'[k], sample[k], age'[k], quiet'[k])
       /\ key'[k].cooked # key[k].cooked => Permits(sample[k], age'[k], quiet[k])
       /\ key'[k].count > 0 => key[k].count > 0 \/ look
  <2> DEFINE c == key[k]
             n == key'[k]
             s == sample[k]
             r == raw[k]
             a == age[k]
             a2 == age'[k]
             q == quiet[k]
             q2 == quiet'[k]
  <2>1. /\ c \in KeyState /\ r \in BOOLEAN /\ s \in BOOLEAN /\ (s # r => look)
        /\ ~late => c.count = 0 \/ elapsed = 0
        /\ w = IF late THEN Updated(c, s) ELSE c
        /\ n = IF look THEN Transferred(w, s) ELSE w
    BY <1>3, <1>5, <1>6, <1>7, <1>10
  <2>2. /\ a \in 0 .. MaxDelay /\ a2 = IF s # r THEN 0 ELSE a
        /\ q \in 0 .. MaxDelay /\ q2 = IF n.cooked # c.cooked THEN 0 ELSE q
        /\ Timed(values, elapsed, c, r, a, q)
    BY <1>3, <1>7, <1>8
  <2>3. TypeOK
    BY DEF TInv, IInv
  <2> HIDE DEF c, n, s, r, a, a2, q, q2
  <2>4. /\ Timed(values, 0, n, s, a2, q2)
        /\ n.cooked # c.cooked => Permits(s, a2, q)
        /\ n.count > 0 => c.count > 0 \/ look
    BY <1>2, <2>1, <2>2, <2>3, KeyKept
  <2> QED
    BY <2>4 DEF c, n, s, r, a, a2, q, q2
<1>12. Timed(values', elapsed', key'[k], raw'[k], age'[k], quiet'[k])
  <2>1. CASE key'[k].count > 0
    <3>1. elapsed' = 0
      BY <1>1, <1>9, <1>11, <2>1
    <3> QED
      BY <1>11, <3>1
  <2>2. CASE ~(key'[k].count > 0)
    BY <1>11, <2>2 DEF Timed, DeferTimed, EagerTimed, AsymTimed
  <2> QED
    BY <2>1, <2>2
<1>13. Permits(sample[k], age'[k], quiet[k]) => Allows(k)
  <2>1. values.type \in Type
    BY DEF TInv, IInv, TypeOK, Values
  <2> QED
    BY <2>1 DEF Permits, Allows, Defer, Eager, Asym, Type
<1> QED
  BY <1>11, <1>12, <1>13

\* A new profile starts with nothing counted, as if no key had changed for long.
LEMMA FreshTimed ==
  ASSUME NEW v \in Values, NEW e, NEW c \in KeyState, c.count = 0, NEW r, NEW a
  PROVE  Timed(v, e, c, r, a, MaxDelay)
<1>1. ~(c.count > 0) /\ v.pre <= MaxDelay /\ v.post <= MaxDelay
  BY DebounceAssumption DEF Values, Delay
<1> QED
  BY <1>1 DEF Timed, DeferTimed, EagerTimed, AsymTimed

LEMMA ApplyTimes ==
  ASSUME TInv, NEW v \in Values, Apply(v)
  PROVE  Timing' /\ \A k \in Key : key'[k].cooked = key[k].cooked
<1>1. \A k \in Key : key'[k] = Cleared(key[k].cooked) /\ quiet'[k] = MaxDelay
  BY DEF Apply
<1>2. \A k \in Key : key'[k].count = 0 /\ key'[k].cooked = key[k].cooked
  BY DEF Apply, Cleared
<1>3. values' = v /\ TypeOK'
  BY ApplyType DEF TInv, IInv, Apply
<1>4. \A k \in Key : key'[k] \in KeyState
  BY <1>3 DEF TypeOK
<1>5. \A k \in Key : Timed(values', elapsed', key'[k], raw'[k], age'[k], quiet'[k])
  BY <1>1, <1>2, <1>3, <1>4, FreshTimed
<1> QED
  BY <1>1, <1>2, <1>5 DEF Timing

LEMMA TickTimes ==
  ASSUME TInv, Tick
  PROVE  Timing'
<1>1. /\ values' = values /\ key' = key /\ raw' = raw /\ ready' = ready
      /\ elapsed' \in {elapsed, Later(elapsed, MaxMs)}
      /\ \A k \in Key : /\ age'[k] = Later(age[k], MaxDelay)
                        /\ quiet'[k] = Later(quiet[k], MaxDelay)
  BY DEF Tick, profile
<1>2. ASSUME NEW k \in Key
      PROVE  Timed(values', elapsed', key'[k], raw'[k], age'[k], quiet'[k])
  <2> DEFINE c == key[k]
             a == age[k]
             q == quiet[k]
  <2>1. /\ elapsed \in Nat /\ c.count \in Nat /\ a \in 0 .. MaxDelay /\ q \in 0 .. MaxDelay
        /\ values.pre \in Delay /\ values.post \in Delay
    BY DebounceAssumption DEF TInv, IInv, TypeOK, KeyState, Values
  <2>2. Timed(values, elapsed, c, raw[k], a, q)
    BY DEF TInv, Timing
  <2> HIDE DEF c, a, q
  <2>3. /\ HasRun(values.post, c.count, elapsed, a)
             => HasRun(values.post, c.count, elapsed', Later(a, MaxDelay))
        /\ HasRun(values.post, c.count, elapsed, q)
             => HasRun(values.post, c.count, elapsed', Later(q, MaxDelay))
        /\ HasRun(values.pre, c.count, elapsed, q)
             => HasRun(values.pre, c.count, elapsed', Later(q, MaxDelay))
        /\ values.pre <= q => values.pre <= Later(q, MaxDelay)
        /\ values.post <= q => values.post <= Later(q, MaxDelay)
    BY <1>1, <2>1, GrowsOlder
  <2>4. Timed(values, elapsed', c, raw[k], Later(a, MaxDelay), Later(q, MaxDelay))
    BY <2>2, <2>3 DEF Timed, DeferTimed, EagerTimed, AsymTimed
  <2> QED
    BY <1>1, <2>4 DEF c, a, q
<1>3. ~ready' => \A k \in Key : key'[k].count = 0 /\ quiet'[k] = MaxDelay
  BY <1>1, DebounceAssumption DEF TInv, Timing, Later
<1> QED
  BY <1>2, <1>3 DEF Timing

LEMMA ScanTimes ==
  ASSUME TInv, NEW sample \in [Key -> BOOLEAN], Scan(sample)
  PROVE  /\ Timing'
         /\ ready => \A k \in Key : key'[k].cooked # key[k].cooked => Allows(k)
<1>1. /\ raw' = sample /\ values' = values
      /\ age' = [k \in Key |-> IF sample[k] # raw[k] THEN 0 ELSE age[k]]
  BY DEF Scan, profile
<1>2. CASE Run(sample) /\ ready'
  <2>1. /\ \A k \in Key : Timed(values', elapsed', key'[k], raw'[k], age'[k], quiet'[k])
        /\ \A k \in Key : key'[k].cooked # key[k].cooked => Allows(k)
    BY <1>1, <1>2, RunTimes
  <2> QED
    BY <1>2, <2>1 DEF Timing
<1>3. CASE /\ ~ready /\ key' = [k \in Key |-> Cleared(sample[k])]
           /\ UNCHANGED quiet
  <2>1. \A k \in Key : key'[k].count = 0 /\ quiet'[k] = MaxDelay
    BY <1>3 DEF Cleared, TInv, Timing
  <2>2. TypeOK'
    BY ScanType DEF TInv, IInv
  <2>3. values' \in Values /\ \A k \in Key : key'[k] \in KeyState
    BY <2>2 DEF TypeOK
  <2>4. \A k \in Key : Timed(values', elapsed', key'[k], raw'[k], age'[k], quiet'[k])
    BY <2>1, <2>3, FreshTimed
  <2> QED
    BY <1>3, <2>1, <2>4 DEF Timing
<1>4. CASE ready /\ Run(sample) /\ UNCHANGED <<ready, heap>>
  BY <1>2, <1>4
<1>5. CASE /\ ~ready /\ ready' = TRUE /\ heap' = Allocated(Freed(heap, algo), algo, TRUE)
           /\ Run(sample)
  BY <1>2, <1>5
<1>6. CASE /\ ~ready /\ heap' = Freed(heap, algo)
           /\ key' = [k \in Key |-> Cleared(sample[k])]
           /\ unseen' = {}
           /\ UNCHANGED <<ready, clock, quiet>>
  BY <1>3, <1>6
<1> QED
  BY <1>4, <1>5, <1>6 DEF Scan

\* What a step of [Next]_vars may do to a key.
Obeys == ready /\ UNCHANGED profile
           => \A k \in Key : key'[k].cooked # key[k].cooked => Allows(k)

LEMMA TimesKept ==
  ASSUME TInv, [Next]_vars
  PROVE  Timing' /\ Obeys
<1>1. ASSUME NEW v \in Values, Apply(v)
      PROVE  Timing' /\ Obeys
  BY <1>1, ApplyTimes DEF Obeys
<1>2. CASE MatrixInit
  BY <1>1, <1>2 DEF MatrixInit, TInv, IInv, TypeOK
<1>3. ASSUME NEW sample \in [Key -> BOOLEAN], Scan(sample)
      PROVE  Timing' /\ Obeys
  BY <1>3, ScanTimes DEF Obeys
<1>4. ASSUME NEW t \in Type, SetMode(t)
      PROVE  Timing' /\ Obeys
  <2>1. [values EXCEPT !.type = t,
                       !.post = IF t = "sym_defer_pk" THEN values.pre ELSE @] \in Values
    BY DEF TInv, IInv, TypeOK, Values
  <2> QED
    BY <1>1, <1>4, <2>1 DEF SetMode
<1>5. ASSUME NEW d \in Delay, SetSingle(d) \/ SetPress(d) \/ SetRelease(d)
      PROVE  Timing' /\ Obeys
  <2>1. CASE SetSingle(d)
    <3>1. [values EXCEPT !.pre = d, !.post = d] \in Values
      BY DEF TInv, IInv, TypeOK, Values
    <3> QED
      BY <1>1, <2>1, <3>1 DEF SetSingle
  <2>2. CASE SetPress(d)
    <3>1. [values EXCEPT !.pre = d] \in Values
      BY <2>2 DEF TInv, IInv, TypeOK, Values, SetPress
    <3> QED
      BY <1>1, <2>2, <3>1 DEF SetPress
  <2>3. CASE SetRelease(d)
    <3>1. [values EXCEPT !.post = d] \in Values
      BY <2>3 DEF TInv, IInv, TypeOK, Values, SetRelease
    <3> QED
      BY <1>1, <2>3, <3>1 DEF SetRelease
  <2> QED
    BY <1>5, <2>1, <2>2, <2>3
<1>6. CASE Tick
  <2>1. key' = key
    BY <1>6 DEF Tick
  <2> QED
    BY <1>6, <2>1, TickTimes DEF Obeys
<1>7. CASE UNCHANGED vars
  <2>1. key' = key
    BY <1>7 DEF vars
  <2>2. Timing'
    BY <1>7 DEF vars, profile, clock, TInv, Timing
  <2> QED
    BY <2>1, <2>2 DEF Obeys
<1> QED
  BY <1>2, <1>3, <1>4, <1>5, <1>6, <1>7 DEF Next

LEMMA TimesHold == Init => TInv
<1> SUFFICES ASSUME Init PROVE Timing
  BY IInvInit DEF TInv
<1>1. \A k \in Key : key[k].count = 0 /\ quiet[k] = MaxDelay /\ key[k] \in KeyState
  BY ClearedType DEF Init, Cleared
<1>2. values \in Values
  BY DEF Init
<1>3. \A k \in Key : Timed(values, elapsed, key[k], raw[k], age[k], quiet[k])
  BY <1>1, <1>2, FreshTimed
<1> QED
  BY <1>1, <1>3 DEF Timing

\* While the profile stays and the algorithm has its counters, a key changes only when
\* the mode allows it, by readme.txt:53-70: Balanced after the switch has been steady,
\* Fast once the key has been left alone, Advanced at once down and after both delays up.
THEOREM TimesAreKept == Spec => Debounced
<1>1. TInv /\ [Next]_vars => TInv'
  BY TypeKept, EdgesKept, TimesKept DEF TInv, IInv
<1>2. TInv /\ [Next]_vars
        => [ready /\ UNCHANGED profile
             => \A k \in Key : key'[k].cooked # key[k].cooked => Allows(k)]_vars
  BY TimesKept DEF Obeys
<1> QED
  BY <1>1, <1>2, TimesHold, PTL DEF Spec, Debounced

=============================================================================
