-------------------------- MODULE SpatialCalibrator --------------------------
(***************************************************************************)
(* The projection of a batch of primitives to the plane of the belt        *)
(* (edge_ops/gema_vision, SpatialCalibrator::apply_batch, in the consumer  *)
(* of the pipeline) while another thread loads a homography.  Homographies *)
(* are numbered by their loads.                                            *)
(***************************************************************************)
EXTENDS Integers

CONSTANTS
  BatchSize,  \* primitives in the batch
  MaxLoads    \* bound on the homographies loaded

VARIABLES
  H_,           \* 0 before the first load
  calibrated_,
  loader,       \* where load_from_vector is: its mutex is taken in "flag"
  coords,       \* physical_coords_mm: which H_ it is by, or -1 for {-1, -1}
  has,          \* has_physical_coords
  step, i       \* what apply_batch is doing, to which primitive

vars == <<H_, calibrated_, loader, coords, has, step, i>>

Primitives == 1 .. BatchSize

TypeOK ==
  /\ H_ \in 0 .. MaxLoads /\ calibrated_ \in BOOLEAN /\ loader \in {"idle", "flag"}
  /\ coords \in [Primitives -> -1 .. MaxLoads] /\ has \in [Primitives -> BOOLEAN]
  /\ step \in {"batch", "check", "project", "done"} /\ i \in 1 .. BatchSize + 1

Init ==
  /\ H_ = 0 /\ calibrated_ = FALSE /\ loader = "idle"
  /\ coords = [p \in Primitives |-> -1] /\ has = [p \in Primitives |-> FALSE]
  /\ step = "batch" /\ i = 1

ApplyState == <<coords, has, step, i>>
Calibration == <<H_, calibrated_, loader>>

\* Mutant: the flag is set first, and before the mutex is taken.
LoadFlagFirst ==
  \/ loader = "idle" /\ ~calibrated_ /\ calibrated_' = TRUE
     /\ UNCHANGED <<H_, loader, ApplyState>>
  \/ loader = "idle" /\ calibrated_ /\ H_ < MaxLoads /\ H_' = H_ + 1 /\ loader' = "flag"
     /\ UNCHANGED <<calibrated_, ApplyState>>

\* load_from_vector, with the mutex: a matrix that is not degenerate replaces
\* the other...
Load ==
  /\ loader = "idle" /\ H_ < MaxLoads /\ H_' = H_ + 1 /\ loader' = "flag"
  /\ UNCHANGED <<calibrated_, ApplyState>>

\* ... and then the flag is set, which is read without the mutex.
LoadFlag ==
  /\ loader = "flag" /\ loader' = "idle" /\ calibrated_' = TRUE
  /\ UNCHANGED <<H_, ApplyState>>

\* apply_batch: nothing at all without a homography.
ApplyBatch ==
  /\ step = "batch" /\ step' = IF calibrated_ THEN "check" ELSE "done"
  /\ UNCHANGED <<Calibration, coords, has, i>>

\* apply, for one primitive after the other, tests the flag again...
ApplyCheck ==
  /\ step = "check"
  /\ IF i > BatchSize THEN step' = "done" /\ UNCHANGED i
     ELSE IF calibrated_ THEN step' = "project" /\ UNCHANGED i
     ELSE i' = i + 1 /\ UNCHANGED step
  /\ UNCHANGED <<Calibration, coords, has>>

\* ... and projects with the mutex.  A point at infinity comes back as
\* {-1, -1}, and has coordinates all the same.
Project ==
  /\ step = "project" /\ loader = "idle"
  /\ \E c \in {H_, -1} : coords' = [coords EXCEPT ![i] = c]
  /\ has' = [has EXCEPT ![i] = TRUE]
  /\ step' = "check" /\ i' = i + 1
  /\ UNCHANGED Calibration

Next == Load \/ LoadFlag \/ ApplyBatch \/ ApplyCheck \/ Project

Spec == Init /\ [][Next]_vars

-----------------------------------------------------------------------------
(* Properties                                                              *)

\* No primitive is projected by the empty matrix of before the first load.
CoordsByLoaded == \A p \in Primitives : has[p] => coords[p] # 0

\* A batch is projected whole or not at all; a homography that is loaded in
\* the middle of it divides it in two.
CoordsInOrder ==
  step = "done" => \A p, q \in Primitives : p < q =>
    /\ has[p] = has[q]
    /\ coords[q] # -1 => coords[p] <= coords[q]

\* What a batch that is projected during a load can look like.
CalibratorInv == TypeOK /\ CoordsByLoaded /\ CoordsInOrder
=============================================================================
