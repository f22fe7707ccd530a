------------------------------ MODULE WebTree ------------------------------
(***************************************************************************)
(* How the browser keeps a file system (main/webtree.ts, and the chained   *)
(* saves of main/boot.ts): a static root that never changes, files in the  *)
(* browser's storage for what was written, and a manifest that says which  *)
(* of both make the tree.  A save changes the files one by one, removes    *)
(* those that are no longer used, and replaces the manifest last.  The     *)
(* page can vanish between any two of these steps, and the storage can     *)
(* refuse each of them.                                                    *)
(*                                                                         *)
(* The running tree is a function from paths to entries, and each file has *)
(* one name; the numbers that entries carry are the subject of TreeFs.     *)
(* A sum is represented by the text it is the sum of: an entry whose sum   *)
(* and text differ carries a sum that is not that of its bytes.            *)
(***************************************************************************)
EXTENDS Integers, SequencesExt

CONSTANTS
  Walk,         \* all paths, in the order a save meets them
  Base,         \* the static root: an entry, or none, for each path
  Starts,       \* trees that an earlier life of the page may have saved
  Texts,        \* what programs write
  Size,         \* the length of each text
  MaxChanges,   \* bound: changes by programs, in all lives of the page
  MaxSaves,     \* bound: saves that wait or are under way
  MaxCrashes    \* bound: lives of the page after the first

Paths == ToSet(Walk)

Nothing == [k |-> "none"]
Dir(mode) == [k |-> "dir", mode |-> mode]
File(text, sum, mode, lazy) ==
  [k |-> "file", text |-> text, sum |-> sum, mode |-> mode, lazy |-> lazy]
Empty == "empty"
RootTexts == {Base[p].text : p \in {q \in Paths : Base[q].k = "file"}}
Contents == Texts \cup RootTexts \cup {Empty}

VARIABLES
  live,       \* the tree programs see
  mounted,    \* whether it is what the storage holds
  queue,      \* trees whose save has not begun
  job,        \* the save under way
  overlay,    \* the manifest as the page remembers it
  data,       \* the storage: "none", "dir" or a text for each path
  manifest,   \* the storage: the manifest
  saved,      \* the tree of the last save that came to its end
  tried,      \* the trees of the saves since
  changes, crashes

memory == <<live, mounted, queue, job, overlay>>
storage == <<data, manifest>>
vars == <<memory, storage, saved, tried, changes, crashes>>

Up(p) == {q \in Paths : IsStrictPrefix(q, p)}
Down(p) == {q \in Paths : IsStrictPrefix(p, q)}

---------------------------------------------------------------------------
(* Faulty variant: a removed directory hides nothing below it.             *)
OnlyItself(m, p) == p \in m.whiteouts

(* Putting root and storage together.                                      *)
Whited(m, p) == \E w \in m.whiteouts : IsPrefix(w, p)

Readable(p) == data[p] \in Contents

Missing(m) == {p \in Paths : m.entries[p].k = "file" /\ ~m.entries[p].base /\ ~Readable(p)}

(* A stored file keeps the sum that the manifest has for it, whatever its  *)
(* bytes are now.                                                          *)
Pulled(m) ==
  [p \in Paths |->
    LET e == m.entries[p]
    IN  CASE e.k = "none" -> IF Whited(m, p) THEN Nothing ELSE Base[p]
          [] e.k = "dir" -> Dir(e.mode)
          [] OTHER -> IF e.base THEN [Base[p] EXCEPT !.mode = e.mode]
                      ELSE File(data[p], e.sum, e.mode, FALSE)]

---------------------------------------------------------------------------
(* What a save of a tree has to do.  The manifest names what differs from  *)
(* the root, by size and sum; a file of which only the mode differs takes  *)
(* its text from the root.                                                 *)
BaseContent(e, p) == /\ e.k = "file" /\ Base[p].k = "file"
                     /\ e.sum = Base[p].sum /\ Size[e.text] = Size[Base[p].text]
SameContent(e, p) == e.k = Base[p].k /\ (e.k = "file" => BaseContent(e, p))
SameBase(e, p) == /\ e.k = Base[p].k
                  /\ e.k = "none" \/ e.mode = Base[p].mode
                  /\ e.k = "file" => BaseContent(e, p)

(* A directory that is gone stands for what the root has below it.         *)
Whiteouts(tree) ==
  LET gone == {p \in Paths : Base[p].k # "none" /\ tree[p].k = "none"}
  IN  {p \in gone : Up(p) \cap gone = {}}

Meta(tree, p) ==
  LET e == tree[p]
  IN  IF SameBase(e, p) \/ e.k = "none" THEN Nothing
      ELSE IF e.k = "dir" THEN e
      ELSE [k |-> "file", mode |-> e.mode, sum |-> e.sum, base |-> BaseContent(e, p)]

ManifestOf(tree) == [entries |-> [p \in Paths |-> Meta(tree, p)], whiteouts |-> Whiteouts(tree)]

Stored(m) == {p \in Paths : m.entries[p].k = "file" /\ ~m.entries[p].base}

Idle == [stage |-> "idle"]

Job(tree) ==
  [stage |-> "write", tree |-> tree, open |-> FALSE,
   todo |-> Stored(ManifestOf(tree)),
   stale |-> Stored(overlay) \ Stored(ManifestOf(tree))]

(* Both are gone through in the order of the walk.                         *)
First(S) ==
  Walk[CHOOSE i \in DOMAIN Walk : Walk[i] \in S /\ \A j \in 1..(i - 1) : Walk[j] \notin S]

---------------------------------------------------------------------------
(* The page starts on what an earlier life saved.                          *)
Init ==
  /\ saved \in Starts
  /\ manifest = ManifestOf(saved) /\ overlay = manifest
  /\ data = [p \in Paths |->
       IF p \in Stored(manifest) THEN saved[p].text
       ELSE IF \E q \in Stored(manifest) : p \in Up(q) THEN "dir" ELSE "none"]
  /\ live = Pulled(manifest) /\ mounted = TRUE
  /\ queue = <<>> /\ job = Idle
  /\ tried = {} /\ changes = 0 /\ crashes = 0

(* Programs, which run whether the user's tree was mounted or not.         *)
Change(tree) ==
  /\ changes < MaxChanges /\ changes' = changes + 1
  /\ live' = tree
  /\ UNCHANGED <<mounted, queue, job, overlay, storage, saved, tried, crashes>>

HasDir(tree, p) == \A q \in Up(p) : tree[q].k = "dir"

WriteFile(p, text) ==
  /\ HasDir(live, p) /\ live[p].k \in {"none", "file"}
  /\ Change([live EXCEPT ![p] =
               File(text, text, IF live[p].k = "file" THEN live[p].mode ELSE 0, FALSE)])

MakeDir(p) == HasDir(live, p) /\ live[p].k = "none" /\ Change([live EXCEPT ![p] = Dir(0)])

Unlink(p) ==
  /\ live[p].k # "none" /\ \A q \in Down(p) : live[q].k = "none"
  /\ Change([live EXCEPT ![p] = Nothing])

Chmod(p) == live[p].k # "none" /\ Change([live EXCEPT ![p].mode = 1 - @])

RenameFile(p, q) ==
  /\ p # q /\ live[p].k = "file" /\ HasDir(live, q) /\ live[q].k \in {"none", "file"}
  /\ Change([live EXCEPT ![q] = live[p], ![p] = Nothing])

(* The payload of a lazy file arrives.                                     *)
Materialise(p) ==
  /\ live[p].k = "file" /\ live[p].lazy
  /\ live' = [live EXCEPT ![p].lazy = FALSE]
  /\ UNCHANGED <<mounted, queue, job, overlay, storage, saved, tried, changes, crashes>>

(* After every command: the tree of this moment is saved when the saves    *)
(* before it are over.                                                     *)
Flush ==
  /\ Len(queue) + (IF job = Idle THEN 0 ELSE 1) < MaxSaves
  /\ queue' = Append(queue, live)
  /\ UNCHANGED <<live, mounted, job, overlay, storage, saved, tried, changes, crashes>>

Begin ==
  /\ job = Idle /\ queue # <<>>
  /\ job' = Job(Head(queue)) /\ queue' = Tail(queue)
  /\ tried' = tried \cup {Head(queue)}
  /\ UNCHANGED <<live, mounted, overlay, storage, saved, changes, crashes>>

(* A save that fails at any of its steps is given up, with what it has     *)
(* done.                                                                   *)
Fail ==
  /\ job # Idle
  /\ job' = Idle
  /\ UNCHANGED <<live, mounted, queue, overlay, storage, saved, tried, changes, crashes>>

(* Files: one that does not exist yet is created empty; its text is put in *)
(* place when the writer is closed.                                        *)
Created(p) ==
  [q \in Paths |-> CASE q \in Up(p) -> "dir"
                     [] q = p /\ data[p] = "none" -> Empty
                     [] OTHER -> data[q]]

Create ==
  /\ job.stage = "write" /\ job.todo # {} /\ ~job.open
  /\ LET p == First(job.todo)
     IN  /\ ~job.tree[p].lazy
         /\ \A q \in Up(p) : ~Readable(q)
         /\ data[p] # "dir"
         /\ data' = Created(p)
  /\ job' = [job EXCEPT !.open = TRUE]
  /\ UNCHANGED <<live, mounted, queue, overlay, manifest, saved, tried, changes, crashes>>

Close ==
  /\ job.stage = "write" /\ job.open
  /\ LET p == First(job.todo)
     IN  /\ data' = [data EXCEPT ![p] = job.tree[p].text]
         /\ job' = [job EXCEPT !.open = FALSE, !.todo = @ \ {p}]
  /\ UNCHANGED <<live, mounted, queue, overlay, manifest, saved, tried, changes, crashes>>

(* Then the files of the last manifest that are no longer used.  That one  *)
(* cannot be removed is not noticed.                                       *)
RemoveStale ==
  /\ job.stage = "write" /\ job.todo = {} /\ job.stale # {}
  /\ LET p == First(job.stale)
     IN  /\ \/ data' = [data EXCEPT ![p] = IF Readable(p) THEN "none" ELSE @]
            \/ UNCHANGED data
         /\ job' = [job EXCEPT !.stale = @ \ {p}]
  /\ UNCHANGED <<live, mounted, queue, overlay, manifest, saved, tried, changes, crashes>>

(* Then the manifest.                                                      *)
Finish ==
  /\ job.stage = "write" /\ job.todo = {} /\ job.stale = {}
  /\ manifest' = ManifestOf(job.tree) /\ overlay' = ManifestOf(job.tree)
  /\ saved' = job.tree /\ tried' = {}
  /\ job' = Idle
  /\ UNCHANGED <<live, mounted, queue, data, changes, crashes>>

(* The page goes away and comes back, with a tree that is not the user's   *)
(* when the storage cannot be read.                                        *)
Crash ==
  /\ crashes < MaxCrashes /\ crashes' = crashes + 1
  /\ mounted' = (Missing(manifest) = {})
  /\ live' = IF Missing(manifest) = {} THEN Pulled(manifest) ELSE [p \in Paths |-> Nothing]
  /\ queue' = <<>> /\ job' = Idle /\ overlay' = manifest
  /\ UNCHANGED <<storage, saved, tried, changes>>

Next ==
  \/ \E p \in Paths :
       \/ \E text \in Texts : WriteFile(p, text)
       \/ MakeDir(p) \/ Unlink(p) \/ Chmod(p) \/ Materialise(p)
       \/ \E q \in Paths : RenameFile(p, q)
  \/ Flush \/ Begin \/ Fail \/ Create \/ Close \/ RemoveStale \/ Finish \/ Crash

Spec == Init /\ [][Next]_vars

---------------------------------------------------------------------------
(* Properties.                                                             *)

(* Trees are trees, and a lazy file has a text of the root.                *)
Entries == {Nothing} \cup {Dir(mode) : mode \in 0..1}
             \cup {File(text, sum, mode, lazy) :
                     text \in Contents, sum \in Contents, mode \in 0..1, lazy \in BOOLEAN}

IsTree(tree) ==
  /\ tree \in [Paths -> Entries]
  /\ \A p \in Paths : tree[p].k # "none" => HasDir(tree, p)
  /\ \A p \in Paths : tree[p].k = "file" /\ tree[p].lazy => tree[p].text \in RootTexts

TypeOK ==
  /\ IsTree(live) /\ IsTree(saved)
  /\ data \in [Paths -> Contents \cup {"none", "dir"}]
  /\ \A p \in Paths : data[p] # "none" => \A q \in Up(p) : data[q] = "dir"
  /\ Len(queue) <= MaxSaves

(* What a user can tell of a tree.                                         *)
Shown(tree) ==
  [p \in Paths |-> IF tree[p].k = "file"
                   THEN [k |-> "file", text |-> tree[p].text, mode |-> tree[p].mode]
                   ELSE tree[p]]

(* A save that has come to its end is what the next start shows, whatever  *)
(* saves failed and whatever lives ended before it (WebTree.push and       *)
(* pull): but for a file whose sum is not that of its bytes, which may     *)
(* have become the file of the root that the sum names.                    *)
SavedIsPulled ==
  tried = {} =>
    /\ Missing(manifest) = {}
    /\ \A p \in Paths :
         \/ Shown(Pulled(manifest))[p] = Shown(saved)[p]
         \/ /\ BaseContent(saved[p], p) /\ saved[p].sum # saved[p].text
            /\ Shown(Pulled(manifest))[p] =
                 [k |-> "file", text |-> Base[p].text, mode |-> saved[p].mode]

(* While later saves are under way, or after they were given up, each file *)
(* that can be read holds what one of them wrote there or what the last    *)
(* whole save did, and nothing else has changed; it may be empty when one  *)
(* of them had already given it up and another had begun to make it anew,  *)
(* and what the root has when the whole save took it for that by its sum.  *)
NothingForeign ==
  \A p \in Paths \ Missing(manifest) :
    LET now == Shown(Pulled(manifest))[p]
        then == Shown(saved)[p]
    IN  IF now.k = "file" /\ then.k = "file"
        THEN /\ now.mode = then.mode
             /\ \/ \E tree \in tried \cup {saved} : tree[p].k = "file" /\ now.text = tree[p].text
                \/ now.text = Empty /\ \E tree \in tried : p \notin Stored(ManifestOf(tree))
                \/ BaseContent(saved[p], p) /\ now.text = Base[p].text
        ELSE now = then

(* A tree that is not what the storage holds is never saved over it        *)
(* (boot.ts: "Persistent root was not mounted").                           *)
UnmountedNotSaved == [][manifest' # manifest => mounted]_vars
=============================================================================
