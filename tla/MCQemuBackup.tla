---------------------------- MODULE MCQemuBackup ----------------------------
(* Instances of QemuBackup for TLC: blocks and processes are model values. *)
EXTENDS QemuBackup, TLC

(* Sound for the runs that check safety only.                              *)
Symmetry == Permutations(Blocks) \cup Permutations(Procs)
=============================================================================
