----------------------------- MODULE MCStartup -----------------------------
(* Startup with two files of two texts; the files are interchangeable.      *)
EXTENDS Startup, TLC

FileSymmetry == Permutations(Files)
=============================================================================
