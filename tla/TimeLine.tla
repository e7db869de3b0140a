------------------------------- MODULE TimeLine -------------------------------
(***************************************************************************)
(* The integer time line of the radiation hydrodynamics simulations        *)
(* (TimeLine.hpp) and the loop over it                                     *)
(* (TaskBasedRadiationHydrodynamicsSimulation.cpp; the loop of             *)
(* RadiationHydrodynamicsSimulation.cpp is the same), with restart dumps.  *)
(*                                                                         *)
(* Time is measured in halves of the integer unit, so that a physical time *)
(* step may lie between two integer ones: an integer step of n is a        *)
(* physical one of 2 n.  The rounding of floating-point numbers is left    *)
(* out.                                                                    *)
(***************************************************************************)
EXTENDS Integers, FiniteSetsExt

CONSTANTS
  Bits,      \* TIMELINE_MAX_INTEGER_TIMELINE_SIZE is 2^63
  Minima,    \* the values of "minimum time step" to look at
  Maxima,    \* the values of "maximum time step" to look at
  Requests,  \* the time steps the hydrodynamics may ask for
  Limits,    \* the values of number_of_steps to look at, 0 for no limit
  MaxCrash   \* bound: number of crashes

(* 1 << k, for all the shifts that occur. *)
Pow2[k \in 0 .. Bits + 1] == IF k = 0 THEN 1 ELSE 2 * Pow2[k - 1]

Size == Pow2[Bits]

ASSUME TimeAssumption ==
  /\ Bits \in Nat /\ Limits \subseteq Nat /\ MaxCrash \in Nat
  /\ Minima \subseteq Nat /\ Maxima \subseteq Nat /\ Requests \subseteq Nat

VARIABLES
  minimum,   \* _minimum_timestep
  maximum,   \* _maximum_timestep
  limit,     \* number_of_steps
  current,   \* _current_time
  hasNext,   \* has_next_step
  actual,    \* actual_timestep, as an integer
  numStep,   \* num_step
  early,     \* advance gave up because a step was too small
  covered,   \* the time the state of the gas was evolved over
  pc,        \* "start", "loop", "advance", "dump" or "end"
  disk,      \* the restart dump: the variables above, or nothing yet
  crashes    \* number of crashes so far (for the bound)

state == <<minimum, maximum, current, hasNext, actual, numStep, early, covered>>
vars  == <<minimum, maximum, current, hasNext, actual, numStep, early, covered,
           limit, pc, disk, crashes>>

(* n, n >> 1, n >> 2, ..., 0 *)
Halvings(n) == {n \div Pow2[k] : k \in 0 .. Bits + 1}

(* while (to_physical_time_interval(n) > t) n >>= 1 *)
RoundDown(n, t) == Max({x \in Halvings(n) : 2 * x <= t})

(* while (left % n > 0) n >>= 1 *)
Fit(n, left) == Max({x \in Halvings(n) : x > 0 /\ left % x = 0})

(* The constructor. *)
MinimumStep(t) == IF t > 0 THEN Max({1, RoundDown(Size, t)}) ELSE 1

MaximumStep(t, least) == IF t > 0 THEN Max({least, RoundDown(Size, t)}) ELSE Size

Init ==
  /\ \E t \in Minima : minimum = MinimumStep(t)
  /\ \E t \in Maxima : maximum = MaximumStep(t, minimum)
  /\ limit \in Limits
  /\ current = 0
  /\ hasNext = FALSE
  /\ actual = 0
  /\ numStep = 0
  /\ early = FALSE
  /\ covered = 0
  /\ pc = "advance"
  /\ disk = <<>>
  /\ crashes = 0

-----------------------------------------------------------------------------
(* TimeLine::advance for a request of t; the first call is made before the *)
(* loop, the others at the end of its body.                                *)
FaultNoMinimum(step) == FALSE     \* Seeded fault: steps below the minimum are taken
TooSmall(step) == step < minimum

Advance(t) ==
  LET rounded == RoundDown(maximum, t)
      step    == IF rounded = 0 THEN 0 ELSE Fit(rounded, Size - current)
  IN
  /\ pc = "advance"
  /\ \/ /\ step = 0 \/ TooSmall(step)
        /\ actual' = step
        /\ hasNext' = FALSE
        /\ early' = TRUE
        /\ UNCHANGED current
     \/ /\ step # 0 /\ ~ TooSmall(step)
        /\ current' = current + step
        /\ actual' = step
        /\ hasNext' = (current' < Size)
        /\ UNCHANGED early
  /\ pc' = IF numStep = 0 THEN "loop" ELSE "dump"
  /\ UNCHANGED <<minimum, maximum, numStep, covered, limit, disk, crashes>>

(* The end of the body: maybe a restart dump is written. *)
Saved == [minimum |-> minimum, maximum |-> maximum, current |-> current,
          hasNext |-> hasNext, actual |-> actual, numStep |-> numStep,
          early |-> early, covered |-> covered]

Dump ==
  /\ pc = "dump"
  /\ disk' \in {disk, Saved}
  /\ pc' = "loop"
  /\ UNCHANGED <<state, limit, crashes>>

(* break after number_of_steps steps *)
LastStep == limit > 0 /\ numStep = limit

(* The body of the loop: the gas is evolved over actual_timestep. *)
Step ==
  /\ pc = "loop"
  /\ hasNext
  /\ ~ LastStep
  /\ numStep' = numStep + 1
  /\ covered' = covered + actual
  /\ pc' = "advance"
  /\ UNCHANGED <<minimum, maximum, current, hasNext, actual, early, limit, disk, crashes>>

(* while (has_next_step ...) *)
End ==
  /\ pc = "loop"
  /\ ~ hasNext \/ LastStep
  /\ pc' = "end"
  /\ UNCHANGED <<state, limit, disk, crashes>>

(* The process stops or is killed, and is started again from the dump. *)
FaultForgetStep(d) == 0    \* Seeded fault: the size of the step is not restored
StoredStep(d) == d.actual

Restart ==
  /\ pc \in {"loop", "advance", "dump"}
  /\ crashes < MaxCrash
  /\ disk # <<>>
  /\ crashes' = crashes + 1
  /\ minimum' = disk.minimum /\ maximum' = disk.maximum
  /\ current' = disk.current /\ hasNext' = disk.hasNext
  /\ actual' = StoredStep(disk) /\ numStep' = disk.numStep
  /\ early' = disk.early /\ covered' = disk.covered
  /\ pc' = "loop"
  /\ UNCHANGED <<limit, disk>>

Next ==
  \/ \E t \in Requests : Advance(t)
  \/ Dump \/ Step \/ End \/ Restart
  \/ pc = "end" /\ UNCHANGED vars

Spec == Init /\ [][Next]_vars

-----------------------------------------------------------------------------
(* The current time stays on the grid of the smallest step, and the end    *)
(* can be reached with steps of the last size: the end is never overshot,  *)
(* whatever the sequence of requests.                                      *)
Aligned ==
  /\ current % minimum = 0
  /\ ~ early /\ actual > 0 => (Size - current) % actual = 0

(* No time is covered twice or left out, across restarts from a dump: what *)
(* was covered and the step that is pending add up to the current time.    *)
Accounted ==
  /\ pc \in {"loop", "dump"} /\ ~ early => covered + actual = current
  /\ pc = "advance" => covered = current
=============================================================================
