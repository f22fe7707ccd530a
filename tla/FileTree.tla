------------------------------ MODULE FileTree ------------------------------
(***************************************************************************)
(* What a user of the file system sees, without nodes, counts of links,    *)
(* capacity or loading: what each path shows, and which paths are names of *)
(* the same file.  A change is made by one call and changes what the call  *)
(* names; a call that is refused changes no file; reading a file's payload *)
(* from its source is not a change, nor is starting again from the saved   *)
(* tree.                                                                   *)
(***************************************************************************)
EXTENDS Sequences, SequencesExt

CONSTANTS
  Paths     \* absolute paths, as sequences of names; the root is not one

VARIABLES
  view,     \* what is at each path
  same,     \* the paths that lead to one thing, for each thing
  answer    \* what the last call returned

vars == <<view, same, answer>>

Nothing == [kind |-> "none"]
Directory == [kind |-> "dir"]

Shown(p) == view[p] # Nothing
Empty(p) == \A q \in Paths : IsStrictPrefix(p, q) => ~Shown(q)
Under(p) == Len(p) = 1 \/ (Front(p) \in Paths /\ view[Front(p)] = Directory)

Init ==
  /\ view \in [Paths -> {Nothing, Directory} \cup {[kind |-> "file", text |-> <<"s">>]}]
  /\ \A p \in Paths : Shown(p) => Under(p)
  /\ same = {{p} : p \in {q \in Paths : Shown(q)}}
  /\ answer = "ok"

---------------------------------------------------------------------------
(* Each of these is a change that can be seen at p.                        *)

(* A write changes one file, under all of its names.                       *)
Put(p) ==
  /\ view[p].kind = "file" /\ view'[p].kind = "file"
  /\ \E names \in same :
       /\ p \in names
       /\ view' = [q \in Paths |-> IF q \in names THEN view'[p] ELSE view[q]]
  /\ UNCHANGED same

(* Something new gets a name; a new file may take the place of a symbolic  *)
(* link that leads nowhere.                                                *)
Add(p) ==
  /\ ~Shown(p) \/ (view[p].kind = "link" /\ view'[p].kind = "file")
  /\ Under(p) /\ view'[p] # Nothing
  /\ view' = [view EXCEPT ![p] = view'[p]]
  /\ same' = same \cup {{p}}

(* A file gets one more name.                                              *)
Link(p) ==
  /\ ~Shown(p) /\ Under(p)
  /\ \E names \in same :
       /\ \A q \in names : view[q].kind = "file" /\ view' = [view EXCEPT ![p] = view[q]]
       /\ same' = (same \ {names}) \cup {names \cup {p}}

Without(p) == {names \ {p} : names \in same} \ {{}}

Drop(p) ==
  /\ Shown(p) /\ view'[p] = Nothing
  /\ Empty(p)
  /\ view' = [view EXCEPT ![p] = Nothing]
  /\ same' = Without(p)

(* Everything at and below p is afterwards at and below q.                 *)
Move(p) ==
  /\ Shown(p) /\ view'[p] = Nothing
  /\ \E q \in {x \in Paths : ~IsPrefix(p, x) /\ view'[x] = view[p]} :
    LET Came(x) == p \o SubSeq(x, Len(q) + 1, Len(x))
        Went(x) == IF IsPrefix(p, x) THEN q \o SubSeq(x, Len(p) + 1, Len(x)) ELSE x
    IN  /\ Under(q) /\ Empty(q)
        /\ Shown(q) => (view[p] = Directory <=> view[q] = Directory)
        /\ view' = [x \in Paths |->
             CASE IsPrefix(q, x) -> IF Came(x) \in Paths THEN view[Came(x)] ELSE Nothing
               [] IsPrefix(p, x) /\ ~IsPrefix(q, x) -> Nothing
               [] OTHER -> view[x]]
        /\ same' = {{Went(x) : x \in names} : names \in Without(q)}

---------------------------------------------------------------------------
Change ==
  /\ answer' = "ok"
  /\ \/ UNCHANGED view /\ UNCHANGED same
     \/ \E p \in {q \in Paths : view'[q] # view[q]} :
          Put(p) \/ Add(p) \/ Link(p) \/ Drop(p) \/ Move(p)

(* No room: nothing has changed, but that a symbolic link that led to a    *)
(* file that did not exist is gone.                                        *)
Refuse ==
  /\ answer' = "ENOSPC"
  /\ \/ UNCHANGED view /\ UNCHANGED same
     \/ \E p \in Paths : view[p].kind = "link" /\ Drop(p)

Next == Change \/ Refuse

Spec == Init /\ [][Next]_vars
=============================================================================
