----------------------- MODULE MCThistleDescriptors ------------------------
(* Small instances of ThistleDescriptors.                                  *)
EXTENDS ThistleDescriptors, TLC

CONSTANTS sh, a, b, c, p1

(* The processes the shell starts, and the pipes, are interchangeable.     *)
Alike == Permutations({a, b, c} \cap Procs) \cup Permutations(Pipes)
=============================================================================
