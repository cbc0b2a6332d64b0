---------------------------- MODULE MCTextStorage ----------------------------
(* TextStorage for TLC: taps are interchangeable, and so are characters.      *)
EXTENDS TextStorage

Symmetry == Permutations(Tap) \cup Permutations(Char)
=============================================================================
