------------------------------ MODULE DirTree ------------------------------
(***************************************************************************)
(* How the command line keeps a file system in a directory of the host     *)
(* (main/dir.ts, and the chained saves of main/boot.ts).  Files, links and *)
(* hard links are real ones; a manifest says what the host cannot say.  A  *)
(* save compares the new tree with what it remembers of the last one,      *)
(* changes the directory entry by entry, and replaces the manifest last.   *)
(* A link that leads to a path of the guest's root is a relative one there.*)
(* The process can end between any two of these steps, and the host can    *)
(* refuse each of them.                                                    *)
(*                                                                         *)
(* A tree is a function from paths to entries; the names of one file carry *)
(* the same id, which is the first of them.  The directory itself is seen  *)
(* as such a tree, with inodes for ids.  Modes and owners are left out.    *)
(***************************************************************************)
EXTENDS Integers, FiniteSets, SequencesExt

CONSTANTS
  Walk,         \* all paths, in the order a save meets them, parents first
  Starts,       \* trees that an earlier life may have saved
  Image,        \* what an empty directory is filled with
  Texts,        \* what programs write into files
  Targets,      \* where symbolic links may lead
  LinkNames,    \* the paths where programs make symbolic links
  Target,       \* what leads there from a path of the directory
  MaxChanges,   \* bound: changes by programs, in all lives
  MaxSaves,     \* bound: saves that wait or are under way
  MaxCrashes    \* bound: lives after the first

Paths == ToSet(Walk)

Nothing == [k |-> "none"]
Dir == [k |-> "dir"]
Sym(to) == [k |-> "link", to |-> to]
File(text, id) == [k |-> "file", text |-> text, id |-> id]
Empty == "empty"

VARIABLES
  live,       \* the tree programs see
  queue,      \* trees whose save has not begun
  job,        \* the save under way
  old,        \* DirTree.old: the last tree that was read or saved
  host,       \* the directory
  manifest,   \* the manifest in it
  failed,     \* a save of this life was given up
  tried,      \* trees whose save began after the last exact one
  changes, crashes

memory == <<live, queue, job, old, failed>>
vars == <<memory, host, manifest, tried, changes, crashes>>

Up(p) == {q \in Paths : IsStrictPrefix(q, p)}
Down(p) == {q \in Paths : IsStrictPrefix(p, q)}

NoTree == [p \in Paths |-> Nothing]
Absent == [p \in Paths |-> [k |-> "absent"]]

(* The names of the file at p, and a tree with the first name as id.       *)
Names(tree, p) == {q \in Paths : tree[q].k = "file" /\ tree[q].id = tree[p].id}

First(S) ==
  Walk[CHOOSE i \in DOMAIN Walk : Walk[i] \in S /\ \A j \in 1..(i - 1) : Walk[j] \notin S]
LastOf(S) ==
  Walk[CHOOSE i \in DOMAIN Walk : Walk[i] \in S /\ \A j \in (i + 1)..Len(Walk) : Walk[j] \notin S]

Renumbered(tree) ==
  [p \in Paths |-> IF tree[p].k = "file" THEN [tree[p] EXCEPT !.id = First(Names(tree, p))]
                   ELSE tree[p]]

(* rm with recursive and force.                                            *)
Cut(tree, p) == Renumbered([q \in Paths |-> IF q = p \/ q \in Down(p) THEN Nothing ELSE tree[q]])

---------------------------------------------------------------------------
(* What the directory has for an entry: of links, the way from there.      *)
Raw(p, e) == IF e.k = "link" THEN Sym(Target[p][e.to]) ELSE e

(* A file that stands for a link has its target as its text.               *)
Marker(to) == "THISTLE-LINK " \o to
IsMarker(e) == e.k = "file" /\ \E to \in Targets : e.text = Marker(to)
Marked(e) == Sym(CHOOSE to \in Targets : e.text = Marker(to))

(* Both are read as the link that they stand for when the manifest knows   *)
(* of it.                                                                  *)
Read(p, entry, known) ==
  IF known.k # "link" THEN entry
  ELSE IF IsMarker(entry) THEN Marked(entry)
  ELSE IF entry = Raw(p, known) THEN known
  ELSE entry

(* pull: what the directory shows to the next life.                        *)
Pulled == Renumbered([p \in Paths |-> Read(p, host[p], manifest[p])])

Saved == IF manifest = Absent THEN NoTree ELSE manifest

Unseeded == manifest = Absent /\ host = NoTree

---------------------------------------------------------------------------
(* What a save has to do: it removes what is gone, the deepest first, makes *)
(* directories, and puts files and links in their places.                  *)
Idle == [at |-> "idle"]

Job(tree) ==
  [at |-> "look", tree |-> tree,
   rm |-> {p \in Paths : old[p].k # "none" /\ tree[p].k = "none"},
   mkdir |-> {p \in Paths : tree[p].k = "dir"},
   put |-> {p \in Paths : tree[p].k \in {"file", "link"}}]

Removing == job # Idle /\ job.rm # {}
Making == job # Idle /\ job.rm = {} /\ job.mkdir # {}
Putting == job # Idle /\ job.rm = {} /\ job.mkdir = {} /\ job.put # {}

(* What is put, and the step to the next.                                  *)
Subject == First(job.put)
Wanted == job.tree[Subject]
Done == [job EXCEPT !.at = "look", !.put = @ \ {Subject}]

(* Faulty variant: what has not changed is written anew all the same.      *)
NeverKept(p, e) == FALSE
(* An entry stays when the last tree had it and the host still has its     *)
(* like; the further names of a file are compared with the first.          *)
FileKept(p, e) == old[p].k = "file" /\ old[p].text = e.text /\ host[p].k = "file"
NameKept(p, e) == host[p].k = "file" /\ host[e.id].k = "file" /\ host[p].id = host[e.id].id

LinkKept(p, e) ==
  /\ old[p] = e
  /\ host[p] = Raw(p, e) \/ (host[p].k = "file" /\ host[p].text = Marker(e.to))

Kept(p, e) ==
  \/ e.k = "link" /\ LinkKept(p, e)
  \/ e.k = "file" /\ e.id = p /\ FileKept(p, e)
  \/ e.k = "file" /\ e.id # p /\ NameKept(p, e)

(* Where the last tree had the same link and the host has something else,  *)
(* a file will stand for it; a directory cannot be looked at as a link.    *)
Wrong(p, e) == e.k = "link" /\ old[p] = e /\ host[p].k # "none"
Unreadable(p, e) == Wrong(p, e) /\ host[p].k = "dir"

---------------------------------------------------------------------------
(* A start: an empty directory is filled with the image.                   *)
Init ==
  /\ manifest \in Starts \cup {Absent}
  /\ host = [p \in Paths |-> Raw(p, Saved[p])]
  /\ live = IF manifest = Absent THEN Image ELSE manifest
  /\ queue = IF manifest = Absent THEN <<Image>> ELSE <<>>
  /\ old = Saved /\ job = Idle /\ failed = FALSE
  /\ tried = {} /\ changes = 0 /\ crashes = 0

Change(tree) ==
  /\ changes < MaxChanges /\ changes' = changes + 1
  /\ live' = Renumbered(tree)
  /\ UNCHANGED <<queue, job, old, failed, host, manifest, tried, crashes>>

HasDir(tree, p) == \A q \in Up(p) : tree[q].k = "dir"

WriteFile(p, text) ==
  /\ HasDir(live, p)
  /\ \/ live[p] = Nothing /\ Change([live EXCEPT ![p] = File(text, p)])
     \/ /\ live[p].k = "file"
        /\ Change([q \in Paths |-> IF q \in Names(live, p) THEN [live[q] EXCEPT !.text = text]
                                   ELSE live[q]])

MakeDir(p) == HasDir(live, p) /\ live[p] = Nothing /\ Change([live EXCEPT ![p] = Dir])

(* A command may first remove what is in the way.                          *)
Symlink(p, to) ==
  /\ p \in LinkNames /\ HasDir(live, p) /\ live[p].k # "dir" /\ live[p] # Sym(to)
  /\ Change([live EXCEPT ![p] = Sym(to)])

Unlink(p) ==
  /\ live[p].k # "none" /\ \A q \in Down(p) : live[q].k = "none"
  /\ Change([live EXCEPT ![p] = Nothing])

Link(p, q) == live[p].k = "file" /\ HasDir(live, q) /\ live[q] = Nothing /\ Change([live EXCEPT ![q] = live[p]])

RenameFile(p, q) ==
  /\ p # q /\ live[p].k = "file" /\ HasDir(live, q) /\ live[q].k \in {"none", "file", "link"}
  /\ Change([live EXCEPT ![q] = live[p], ![p] = Nothing])

(* After every command: the tree of this moment, behind the others.        *)
Flush ==
  /\ Len(queue) + (IF job = Idle THEN 0 ELSE 1) < MaxSaves
  /\ queue' = Append(queue, live)
  /\ UNCHANGED <<live, job, old, failed, host, manifest, tried, changes, crashes>>

Begin ==
  /\ job = Idle /\ queue # <<>>
  /\ job' = Job(Head(queue)) /\ queue' = Tail(queue)
  /\ tried' = tried \cup {Head(queue)}
  /\ UNCHANGED <<live, old, failed, host, manifest, changes, crashes>>

(* A save that fails is given up; what it remembers stays as it was.       *)
Fail ==
  /\ job # Idle
  /\ job' = Idle /\ failed' = TRUE
  /\ UNCHANGED <<live, queue, old, host, manifest, tried, changes, crashes>>

Step(directory, rest) ==
  /\ host' = directory /\ job' = rest
  /\ UNCHANGED <<live, queue, old, failed, manifest, tried, changes, crashes>>

RemoveGone ==
  /\ Removing
  /\ LET p == LastOf(job.rm) IN Step(Cut(host, p), [job EXCEPT !.rm = @ \ {p}])

(* A file in the way makes mkdir fail, and so does a link, which leads to  *)
(* no directory.                                                           *)
MakeDirectory ==
  /\ Making
  /\ LET p == First(job.mkdir)
     IN  host[p].k \in {"none", "dir"} /\ Step([host EXCEPT ![p] = Dir], [job EXCEPT !.mkdir = @ \ {p}])

Look == Putting /\ job.at = "look"

Keep == Look /\ Kept(Subject, Wanted) /\ Step(host, Done)

RemoveOther ==
  /\ Look /\ ~Kept(Subject, Wanted) /\ ~Unreadable(Subject, Wanted)
  /\ Step(Cut(host, Subject), [job EXCEPT !.at = IF Wrong(Subject, Wanted) THEN "wrong" ELSE "gone"])

(* The first name of a file is written anew, and not in one step; so is    *)
(* the file that stands for a link, also for one that the host refuses.    *)
Create ==
  /\ Putting /\ job.at \in {"gone", "wrong"}
  /\ Wanted.k = "file" => Wanted.id = Subject
  /\ Step([host EXCEPT ![Subject] = File(Empty, Subject)], [job EXCEPT !.at = "open"])

Text(e) == IF e.k = "link" THEN Marker(e.to) ELSE e.text

Fill ==
  /\ Putting /\ job.at = "open"
  /\ Step([host EXCEPT ![Subject].text = Text(Wanted)], Done)

Joined(p, e) == Renumbered([host EXCEPT ![p] = host[e.id]])

LinkName ==
  /\ Putting /\ job.at = "gone" /\ Wanted.k = "file" /\ Wanted.id # Subject
  /\ Step(Joined(Subject, Wanted), Done)

MakeLink ==
  /\ Putting /\ job.at = "gone" /\ Wanted.k = "link"
  /\ Step([host EXCEPT ![Subject] = Raw(Subject, Wanted)], Done)

Finish ==
  /\ job # Idle /\ job.rm = {} /\ job.mkdir = {} /\ job.put = {}
  /\ manifest' = job.tree /\ old' = job.tree /\ job' = Idle
  /\ tried' = IF failed THEN tried ELSE {}
  /\ UNCHANGED <<live, queue, failed, host, changes, crashes>>

(* The process ends, and another one starts on what it left.               *)
Crash ==
  /\ crashes < MaxCrashes /\ crashes' = crashes + 1
  /\ live' = IF Unseeded THEN Image ELSE Pulled
  /\ queue' = IF Unseeded THEN <<Image>> ELSE <<>>
  /\ old' = Pulled /\ job' = Idle /\ failed' = FALSE
  /\ UNCHANGED <<host, manifest, tried, changes>>

Next ==
  \/ \E p \in Paths :
       \/ \E text \in Texts : WriteFile(p, text)
       \/ \E to \in Targets : Symlink(p, to)
       \/ MakeDir(p) \/ Unlink(p)
       \/ \E q \in Paths : Link(p, q) \/ RenameFile(p, q)
  \/ Flush \/ Begin \/ Fail \/ Finish \/ Crash
  \/ RemoveGone \/ MakeDirectory \/ Keep \/ RemoveOther \/ Create \/ Fill \/ LinkName \/ MakeLink

Spec == Init /\ [][Next]_vars

---------------------------------------------------------------------------
(* Properties.                                                             *)

(* Live tree and directory are trees whose files are numbered by their     *)
(* first names.                                                            *)
Contents == Texts \cup {Empty} \cup {Marker(to) : to \in Targets}

Entries == {Nothing, Dir} \cup {Sym(to) : to \in Targets}
             \cup {File(text, id) : text \in Contents, id \in Paths}

IsTree(tree) ==
  /\ tree \in [Paths -> Entries]
  /\ \A p \in Paths : tree[p] # Nothing => HasDir(tree, p)
  /\ Renumbered(tree) = tree
  /\ \A p, q \in Paths : tree[p].k = "file" /\ q \in Names(tree, p) => tree[p] = tree[q]

TypeOK == IsTree(live) /\ IsTree(host) /\ IsTree(old) /\ Len(queue) <= MaxSaves

(* What a user can tell of an entry.                                       *)
Shown(e) == IF e.k = "file" THEN [k |-> "file", text |-> e.text] ELSE e

(* A save that has come to its end is what the next start shows, with the  *)
(* names of one file still one file, unless an earlier save of this life   *)
(* failed (DirTree.push and pull).                                         *)
SavedIsPulled ==
  tried = {} =>
    \A p \in Paths : /\ Shown(Pulled[p]) = Shown(Saved[p])
                     /\ Saved[p].k = "file" => Names(Saved, p) \subseteq Names(Pulled, p)

(* What no save since has changed, its names included.                     *)
Untouched(p) ==
  \A tree \in tried : /\ Shown(tree[p]) = Shown(Saved[p])
                      /\ tree[p].k = "file" => Names(tree, p) = Names(Saved, p)

(* The link that an entry is or, by its text, stands for; and an entry     *)
(* that has come from another one.                                         *)
Meant(e) == Shown(IF IsMarker(e) THEN Marked(e) ELSE e)
StandsFor(p, e, wanted) == Meant(e) = Meant(wanted) \/ e = Raw(p, wanted)

(* The names that saves since the last exact one have made names of one    *)
(* file with p, one of them or several in turn.                            *)
Closed(S) == \A tree \in tried : \A q \in S : tree[q].k = "file" => Names(tree, q) \subseteq S
Sources(p) == {q \in Paths : \A S \in SUBSET Paths : p \in S /\ Closed(S) => q \in S}

(* Whatever saves failed or were cut off: an entry that can be read is as  *)
(* the last whole save left it, or as another one wrote it under one of    *)
(* these names, or empty when a text was on its way; a link may have       *)
(* become the file that stands for it, or the way that the directory has   *)
(* to where it leads.  What none of them changed is there.                 *)
NothingForeign ==
  \A p \in Paths :
    LET now == Shown(Pulled[p])
    IN  /\ Untouched(p) => now = Shown(Saved[p])
        /\ now.k # "none" =>
             \/ StandsFor(p, Pulled[p], Saved[p])
             \/ \E tree \in tried, q \in Sources(p) : StandsFor(p, Pulled[p], tree[q])
             \/ /\ now = [k |-> "file", text |-> Empty]
                /\ \E tree \in tried : tree[p].k \in {"file", "link"}
=============================================================================
