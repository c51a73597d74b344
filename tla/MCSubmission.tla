---------------------------- MODULE MCSubmission ----------------------------
(***************************************************************************)
(* Instances of Submission for TLC.                                         *)
(***************************************************************************)
EXTENDS Submission

CONSTANTS p1, p2

TwoIntents == <<p2, p1>>
OneIntent == <<p1>>
\* Three slices of p1 are 5, 5, 5 (TWAP) or 6, 3, 6 (VWAP); p2 is empty.
SliceableQty == [p \in Parents |-> IF p = p1 THEN 15 ELSE 0]
=============================================================================
