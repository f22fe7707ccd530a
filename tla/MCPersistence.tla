--------------------------- MODULE MCPersistence ---------------------------
(* A small instance of Persistence.                                        *)
EXTENDS Persistence

MCWalk == << <<"a">>, <<"d">>, <<"d", "x">> >>

(* Browser: a file of the core, and a directory with a file that is        *)
(* fetched when it is needed; an earlier life has removed the former,      *)
MCBase ==
  [p \in {<<"a">>, <<"d">>, <<"d", "x">>} |->
    CASE p = <<"a">> -> [k |-> "file", text |-> "s", sum |-> "s", mode |-> 0, lazy |-> FALSE]
      [] p = <<"d">> -> [k |-> "dir", mode |-> 0]
      [] OTHER -> [k |-> "file", text |-> "t", sum |-> "t", mode |-> 0, lazy |-> TRUE]]

MCSize == [text \in {"empty", "s", "t", "v"} |-> IF text = "empty" THEN 0 ELSE 1]

(* or has put a copy of it into the place of the latter.                   *)
MCWebStarts ==
  { [MCBase EXCEPT ![<<"a">>] = [k |-> "none"]],
    [MCBase EXCEPT ![<<"d", "x">>] = MCBase[<<"a">>]] }

(* Directory: an image of one file; saved are nothing, a file with two     *)
(* names, or a link and a file.                                            *)
MCImage ==
  [p \in {<<"a">>, <<"d">>, <<"d", "x">>} |->
    IF p = <<"a">> THEN [k |-> "file", text |-> "v", id |-> <<"a">>] ELSE [k |-> "none"]]

MCDirStarts ==
  { [MCImage EXCEPT ![<<"d">>] = [k |-> "dir"], ![<<"d", "x">>] = MCImage[<<"a">>]],
    [MCImage EXCEPT ![<<"a">>] = [k |-> "link", to |-> "/t"], ![<<"d">>] = [k |-> "dir"],
                    ![<<"d", "x">>] = [k |-> "file", text |-> "v", id |-> <<"d", "x">>]] }

MCLinkNames == {<<"a">>}

(* The root of the guest is one directory of the host.                     *)
MCTarget ==
  [p \in {<<"a">>, <<"d">>, <<"d", "x">>} |->
    [to \in {"/t", "t"} |-> "t"]]
=============================================================================
