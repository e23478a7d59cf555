------------------------- MODULE MCPickerHandshake -------------------------
(* PickerHandshake on small instances: CRD sessions and applications are    *)
(* interchangeable, so the safety runs use them as symmetry sets.           *)
EXTENDS PickerHandshake, TLC

Symmetry == Permutations(Sessions) \cup Permutations(Apps)
=============================================================================
