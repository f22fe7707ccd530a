------------------------------- MODULE MCVfs -------------------------------
(* A small instance of Vfs.                                                *)
EXTENDS Vfs

MCOrder == <<"a", "b">>

(* A directory with a file that is not loaded yet.                         *)
MCImage ==
  [[n \in Nodes |-> Free] EXCEPT ![1] = [Dir EXCEPT !.ent["b"] = 2],
                                 ![2] = [Dir EXCEPT !.ent["b"] = 3],
                                 ![3] = LazyReg]

(* Links to the root, and to a name that is free, a directory, a file or   *)
(* the link itself.                                                        *)
MCTargets == {<<>>, <<"a">>}
=============================================================================
