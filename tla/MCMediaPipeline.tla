-------------------------- MODULE MCMediaPipeline --------------------------
(* Small instances of MediaPipeline for TLC. *)
EXTENDS MediaPipeline, TLC

CONSTANTS i1, i2, v1, w1, w2, s

\* Workers are interchangeable, and so are the images.
Symmetry == Permutations(Workers) \cup Permutations(Images)
=============================================================================
