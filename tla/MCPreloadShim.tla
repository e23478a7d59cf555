----------------------------- MODULE MCPreloadShim -----------------------------
(* PreloadShim with interchangeable handle addresses and threads.           *)
EXTENDS PreloadShim, TLC

Symmetry == Permutations(Handles) \cup Permutations(Threads)
=============================================================================
