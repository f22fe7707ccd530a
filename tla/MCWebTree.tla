----------------------------- MODULE MCWebTree -----------------------------
(* A small instance of WebTree.                                            *)
EXTENDS WebTree

MCWalk == << <<"a">>, <<"d">>, <<"d", "x">> >>

(* A file of the core, and a directory with a file that is fetched when it *)
(* is needed.                                                              *)
MCBase ==
  [p \in {<<"a">>, <<"d">>, <<"d", "x">>} |->
    CASE p = <<"a">> -> [k |-> "file", text |-> "s", sum |-> "s", mode |-> 0, lazy |-> FALSE]
      [] p = <<"d">> -> [k |-> "dir", mode |-> 0]
      [] OTHER -> [k |-> "file", text |-> "t", sum |-> "t", mode |-> 0, lazy |-> TRUE]]

MCSize == [text \in {"empty", "s", "t", "v", "w"} |-> IF text = "empty" THEN 0 ELSE 1]

(* Nothing, or a changed and a removed file.                               *)
MCStarts ==
  { MCBase,
    [MCBase EXCEPT ![<<"a">>] = [k |-> "file", text |-> "v", sum |-> "v", mode |-> 0, lazy |-> FALSE],
                   ![<<"d", "x">>] = [k |-> "none"]] }
=============================================================================
