---------------------------- MODULE Persistence ----------------------------
(***************************************************************************)
(* The operating system keeps its file system in a tree of its host        *)
(* (Host.tree of main/boot.ts), which is either the browser's storage over *)
(* a static root (WebTree) or a directory (DirTree).  Programs, the saves  *)
(* after each command, their failures and the restarts are the same; what  *)
(* a save does to the storage is not.  Both owe the same two promises.     *)
(***************************************************************************)
EXTENDS Integers, Sequences

CONSTANTS
  Walk,
  WebTexts, Base, WebStarts, Size,                          \* see WebTree
  Texts, Image, DirStarts, Targets, LinkNames, Target,      \* see DirTree
  MaxChanges, MaxSaves, MaxCrashes

VARIABLES
  tree,       \* which of both the host has
  live, queue, job, tried, changes, crashes,
  known,      \* what the tree remembers of the last save
  data,       \* the storage
  manifest,   \* and the manifest in it
  mounted, saved,   \* only WebTree's
  failed            \* only DirTree's

vars == <<tree, live, queue, job, tried, changes, crashes, known, data, manifest,
          mounted, saved, failed>>

W == INSTANCE WebTree WITH Texts <- WebTexts, Starts <- WebStarts, overlay <- known
D == INSTANCE DirTree WITH Starts <- DirStarts, old <- known, host <- data

(* Directories come before what is in them.                                *)
ASSUME PathAssumption ==
  /\ Walk \in Seq(Seq(STRING))
  /\ \A i, j \in DOMAIN Walk : Walk[i] \in D!Up(Walk[j]) => i < j
  /\ MaxSaves \in Nat \ {0}

(* What a host may start with are trees; no text is taken for an entry of  *)
(* another kind, the sums of the root are checked when it is loaded, a     *)
(* file that stands for a link tells which one, and a relative link is put *)
(* into the directory as it is.                                            *)
ASSUME WebAssumption ==
  /\ W!Contents \cap {"none", "dir"} = {}
  /\ W!IsTree(Base) /\ \A start \in WebStarts : W!IsTree(start)
  /\ \A p \in W!Paths : Base[p].k = "file" => Base[p].sum = Base[p].text

ASSUME DirAssumption ==
  /\ D!IsTree(Image) /\ \A start \in DirStarts : D!IsTree(start)
  /\ \A to \in Targets : D!Marker(to) # D!Empty
  /\ \A to, other \in Targets : D!Marker(to) = D!Marker(other) => to = other
  /\ Target \in [D!Paths -> [Targets -> Targets]]
  /\ \A p \in D!Paths, to \in Targets : Target[p][Target[p][to]] = Target[p][to]

Init ==
  \/ tree = "browser" /\ W!Init /\ failed = FALSE
  \/ tree = "directory" /\ D!Init /\ mounted = TRUE /\ saved = <<>>

Next ==
  \/ tree = "browser" /\ W!Next /\ UNCHANGED <<tree, failed>>
  \/ tree = "directory" /\ D!Next /\ UNCHANGED <<tree, mounted, saved>>

Spec == Init /\ [][Next]_vars

---------------------------------------------------------------------------
(* The storage holds a tree, and programs see one.                         *)
TypeOK == IF tree = "browser" THEN W!TypeOK ELSE D!TypeOK

(* A save that has come to its end is what the next start shows, whatever  *)
(* lives ended before it; in a directory, unless a save of the same life   *)
(* failed before, and in a browser but for files with a sum of other bytes *)
(* (Os.flush and Os.restore with either tree).                             *)
SavedIsPulled == IF tree = "browser" THEN W!SavedIsPulled ELSE D!SavedIsPulled

(* What an unfinished save leaves behind was written by some save, and     *)
(* what none of them changed is still there.                               *)
NothingForeign == IF tree = "browser" THEN W!NothingForeign ELSE D!NothingForeign
=============================================================================
