------------------------- MODULE PersistenceProofs -------------------------
(***************************************************************************)
(* Proofs about Persistence, for both trees of a host.                     *)
(*                                                                         *)
(* In the storage of a browser (WebTree), what an entry of the manifest    *)
(* stands for is settled once, for every tree and every storage; then each *)
(* step of a save explains what it leaves in the storage by a tree whose   *)
(* save was tried.                                                         *)
(*                                                                         *)
(* In a directory (DirTree), the names of one file are settled once, with  *)
(* the trees that have them.  A step of a save changes one place, and what *)
(* is below it where the new tree has nothing; what the step owes at this  *)
(* place is stated and used for all of them (StepKeeps), and each action   *)
(* is then shown to pay it.                                                *)
(***************************************************************************)
EXTENDS Persistence, TLAPS, WellFoundedInduction

---------------------------------------------------------------------------
(* Paths.                                                                  *)

(* Paths are sequences of names.                                           *)
LEMMA PathsAreSequences == W!Paths \subseteq Seq(STRING)
BY PathAssumption DEF W!Paths, W!ToSet

(* What leads to what leads to a path leads to the path (Up).              *)
LEMMA UpTransitive ==
  ASSUME NEW p \in W!Paths, NEW q \in W!Up(p), NEW r \in W!Up(q)
  PROVE  r \in W!Up(p)
<1>1. p \in Seq(STRING) /\ q \in Seq(STRING) /\ r \in Seq(STRING)
  BY PathsAreSequences DEF W!Up
<1>2. /\ Len(q) <= Len(p) /\ \A i \in 1..Len(q) : q[i] = p[i]
      /\ Len(r) <= Len(q) /\ \A i \in 1..Len(r) : r[i] = q[i]
  BY <1>1 DEF W!Up, W!IsStrictPrefix, W!IsPrefix
<1> QED BY <1>1, <1>2 DEF W!Up, W!IsStrictPrefix, W!IsPrefix

(* A path does not lead to itself.                                         *)
LEMMA UpIrreflexive ==
  ASSUME NEW p \in W!Paths PROVE p \notin W!Up(p) /\ W!Up(p) \subseteq W!Paths
BY DEF W!Up, W!IsStrictPrefix

(* A prefix is the path itself or leads to it.                             *)
LEMMA PrefixIsUp ==
  ASSUME NEW p \in W!Paths, NEW w \in W!Paths
  PROVE  W!IsPrefix(w, p) <=> (w = p \/ w \in W!Up(p))
<1>1. p \in Seq(STRING) BY PathsAreSequences
<1>2. W!IsPrefix(p, p) BY <1>1 DEF W!IsPrefix
<1> QED BY <1>2 DEF W!Up, W!IsStrictPrefix

(* Some numbers have a least one.                                          *)
LEMMA LeastNumber ==
  ASSUME NEW N \in SUBSET Nat, N # {}
  PROVE  \E n \in N : \A m \in N : n <= m
<1> DEFINE R == {ss \in Nat \X Nat : ss[1] < ss[2]}
<1>1. PICK n \in N : \A m \in N : ~ (<<m, n>> \in R)
  <2>1. IsWellFoundedOn(R, Nat)
    BY NatLessThanWellFounded DEF OpToRel
  <2> HIDE DEF R
  <2>2. ASSUME NEW S, IsWellFoundedOn(S, Nat)
        PROVE  \E n \in N : \A m \in N : ~ (<<m, n>> \in S)
    BY <2>2, WFMin, Zenon
  <2> QED
    BY <2>1, <2>2
<1>2. ASSUME NEW m \in N
      PROVE  n <= m
  <2>1. m \in Nat /\ n \in Nat
    OBVIOUS
  <2>2. m < n => <<m, n>> \in R
    BY <2>1
  <2> QED
    BY <1>1, <2>1, <2>2
<1> QED
  BY <1>2

(* The first of some paths is one of them (First).                         *)
LEMMA FirstIsOne ==
  ASSUME NEW S \in SUBSET W!Paths, S # {}
  PROVE  W!First(S) \in S
<1> DEFINE N == {i \in DOMAIN Walk : Walk[i] \in S}
<1>1. DOMAIN Walk = 1..Len(Walk) /\ Len(Walk) \in Nat
  BY PathAssumption
<1>2. N \subseteq Nat /\ N # {}
  BY <1>1 DEF W!Paths, W!ToSet
<1>3. PICK n \in N : \A m \in N : n <= m
  BY <1>2, LeastNumber
<1>4. \A j \in 1..(n - 1) : Walk[j] \notin S
  BY <1>1, <1>3
<1>5. \E i \in DOMAIN Walk : Walk[i] \in S /\ \A j \in 1..(i - 1) : Walk[j] \notin S
  BY <1>3, <1>4
<1> QED
  BY <1>5 DEF W!First

---------------------------------------------------------------------------
(* Manifests.                                                              *)

(* The paths whose text a save of a tree puts into the storage.            *)
StoredOf(t) == W!Stored(W!ManifestOf(t))

(* What is gone is hidden by the manifest: by the topmost directory of     *)
(* those that are gone (Whiteouts, Whited).                                *)
LEMMA GoneIsWhited ==
  ASSUME NEW t, NEW p \in W!Paths, Base[p].k # "none", t[p].k = "none"
  PROVE  W!Whited(W!ManifestOf(t), p)
<1> DEFINE gone == {q \in W!Paths : Base[q].k # "none" /\ t[q].k = "none"}
           over == {q \in gone : q = p \/ q \in W!Up(p)}
           lengths == {Len(q) : q \in over}
<1>1. p \in over
  OBVIOUS
<1>2. \A q \in over : q \in W!Paths /\ Len(q) \in Nat
  BY PathsAreSequences
<1>3. lengths \subseteq Nat /\ lengths # {}
  BY <1>1, <1>2
<1>4. PICK n \in lengths : \A m \in lengths : n <= m
  BY <1>3, LeastNumber
<1>5. PICK w \in over : Len(w) = n
  BY <1>4
<1>6. ASSUME NEW q \in W!Up(w), q \in gone
      PROVE  FALSE
  <2>1. q \in over
    BY <1>2, <1>5, <1>6, UpTransitive
  <2>2. Len(w) <= Len(q)
    BY <1>4, <1>5, <2>1
  <2>3. w \in Seq(STRING) /\ q \in Seq(STRING)
    BY PathsAreSequences, <1>2, <1>5, <2>1
  <2>4. Len(q) = Len(w) /\ \A i \in 1..Len(q) : q[i] = w[i]
    BY <1>6, <2>2, <2>3 DEF W!Up, W!IsStrictPrefix, W!IsPrefix
  <2>5. q = w
    BY <2>3, <2>4
  <2> QED
    BY <1>2, <1>5, <1>6, <2>5, UpIrreflexive
<1>7. w \in W!Whiteouts(t)
  BY <1>5, <1>6 DEF W!Whiteouts
<1>8. W!IsPrefix(w, p)
  BY <1>2, <1>5, PrefixIsUp
<1> QED
  BY <1>7, <1>8 DEF W!Whited, W!ManifestOf

(* What a tree has is not hidden.                                          *)
LEMMA KeptIsNotWhited ==
  ASSUME NEW t, W!IsTree(t), NEW p \in W!Paths, t[p].k # "none"
  PROVE  ~W!Whited(W!ManifestOf(t), p)
<1>1. SUFFICES ASSUME NEW w \in W!Whiteouts(t), W!IsPrefix(w, p)
               PROVE  FALSE
  BY DEF W!Whited, W!ManifestOf
<1>2. w \in W!Paths /\ t[w].k = "none"
  BY DEF W!Whiteouts
<1>3. w \in W!Up(p)
  BY <1>1, <1>2, PrefixIsUp
<1> QED
  BY <1>2, <1>3 DEF W!IsTree, W!HasDir

(* What an entry can be.                                                   *)
LEMMA EntryCases ==
  ASSUME NEW e \in W!Entries
  PROVE  \/ e.k = "none" /\ e = W!Nothing
         \/ e.k = "dir" /\ e.mode \in 0..1 /\ e = W!Dir(e.mode)
         \/ /\ e.k = "file" /\ e.mode \in 0..1 /\ e.text \in W!Contents /\ e.lazy \in BOOLEAN
            /\ e.sum \in W!Contents /\ e = W!File(e.text, e.sum, e.mode, e.lazy)
BY DEF W!Entries, W!Nothing, W!Dir, W!File

(* And the other way round.                                                *)
LEMMA EntriesAre ==
  /\ W!Nothing \in W!Entries
  /\ \A mode \in 0..1 : W!Dir(mode) \in W!Entries
  /\ \A text \in W!Contents, sum \in W!Contents, mode \in 0..1, lazy \in BOOLEAN :
       W!File(text, sum, mode, lazy) \in W!Entries
BY DEF W!Entries

(* What the manifest has for an entry (metadata).                          *)
LEMMA MetaCases ==
  ASSUME NEW t, W!IsTree(t), NEW p \in W!Paths
  PROVE  LET e == W!ManifestOf(t).entries[p]
         IN  /\ p \in StoredOf(t) <=> e.k = "file" /\ ~e.base
             /\ t[p].k = "none" => e.k = "none"
             /\ t[p].k = "dir" => \/ e.k = "none" /\ t[p] = Base[p]
                                  \/ e.k = "dir" /\ e.mode = t[p].mode
             /\ t[p].k = "file" =>
                  \/ /\ e.k = "none" \/ (e.k = "file" /\ e.base /\ e.mode = t[p].mode)
                     /\ W!BaseContent(t[p], p)
                     /\ e.k = "none" => t[p].mode = Base[p].mode
                  \/ e.k = "file" /\ ~e.base /\ e.mode = t[p].mode /\ e.sum = t[p].sum
<1> DEFINE e == W!ManifestOf(t).entries[p]
<1>1. e = W!Meta(t, p)
  BY DEF W!ManifestOf
<1>2. t[p] \in W!Entries /\ Base[p] \in W!Entries
  BY WebAssumption DEF W!IsTree
<1>3. p \in StoredOf(t) <=> e.k = "file" /\ ~e.base
  BY DEF StoredOf, W!Stored
<1>4. CASE t[p].k = "none"
  BY <1>1, <1>3, <1>4 DEF W!Meta, W!Nothing
<1>5. CASE t[p].k = "dir"
  <2>1. CASE W!SameBase(t[p], p)
    <3>1. Base[p].k = "dir" /\ t[p].mode = Base[p].mode
      BY <1>5, <2>1 DEF W!SameBase
    <3>2. t[p] = W!Dir(t[p].mode) /\ Base[p] = W!Dir(Base[p].mode)
      BY <1>2, <1>5, <3>1, EntryCases
    <3>3. e.k = "none"
      BY <1>1, <2>1 DEF W!Meta, W!Nothing
    <3> QED
      BY <1>3, <1>5, <3>1, <3>2, <3>3
  <2>2. CASE ~W!SameBase(t[p], p)
    BY <1>1, <1>3, <1>5, <2>2 DEF W!Meta
  <2> QED
    BY <2>1, <2>2
<1>6. CASE t[p].k = "file"
  <2>1. CASE W!SameBase(t[p], p)
    BY <1>1, <1>3, <1>6, <2>1 DEF W!Meta, W!SameBase, W!Nothing
  <2>2. CASE ~W!SameBase(t[p], p)
    <3>1. e = [k |-> "file", mode |-> t[p].mode, sum |-> t[p].sum, base |-> W!BaseContent(t[p], p)]
      BY <1>1, <1>6, <2>2 DEF W!Meta
    <3>2. /\ e.k = "file" /\ e.mode = t[p].mode /\ e.sum = t[p].sum
          /\ e.base = W!BaseContent(t[p], p)
      BY <3>1
    <3> QED
      BY <1>3, <1>6, <3>2
  <2> QED
    BY <2>1, <2>2
<1> QED
  BY <1>2, <1>4, <1>5, <1>6, EntryCases

(* Only files are stored.                                                  *)
LEMMA StoredAreFiles ==
  ASSUME NEW t, W!IsTree(t), NEW p \in StoredOf(t)
  PROVE  p \in W!Paths /\ t[p].k = "file" /\ t[p].text \in W!Contents
<1>1. p \in W!Paths
  BY DEF StoredOf, W!Stored
<1>2. t[p] \in W!Entries
  BY <1>1 DEF W!IsTree
<1> QED
  BY <1>1, <1>2, MetaCases, EntryCases

(* What the manifest of a tree shows of each path, whatever the storage    *)
(* holds: all of the tree but the texts of files, which are those that are *)
(* stored or those of the root (pull).                                     *)
LEMMA PulledCases ==
  ASSUME NEW t, W!IsTree(t), NEW p \in W!Paths
  PROVE  LET now == W!Pulled(W!ManifestOf(t))[p]
         IN  /\ t[p].k = "none" => now = W!Nothing
             /\ t[p].k = "dir" => now = W!Dir(t[p].mode)
             /\ t[p].k = "file" =>
                  IF p \in StoredOf(t) THEN now = W!File(data[p], t[p].sum, t[p].mode, FALSE)
                  ELSE /\ W!BaseContent(t[p], p)
                       /\ \E lazy \in BOOLEAN : now = W!File(t[p].sum, t[p].sum, t[p].mode, lazy)
                       /\ t[p].sum = Base[p].text /\ t[p].sum \in W!RootTexts
<1> DEFINE m == W!ManifestOf(t)
           e == m.entries[p]
           now == W!Pulled(m)[p]
<1>1. t[p] \in W!Entries /\ Base[p] \in W!Entries
  BY WebAssumption DEF W!IsTree
<1>2. now = IF e.k = "none" THEN IF W!Whited(m, p) THEN W!Nothing ELSE Base[p]
            ELSE IF e.k = "dir" THEN W!Dir(e.mode)
            ELSE IF e.base THEN [Base[p] EXCEPT !.mode = e.mode]
            ELSE W!File(data[p], e.sum, e.mode, FALSE)
  BY DEF W!Pulled
<1>3. CASE t[p].k = "none"
  <2>1. e.k = "none"
    BY <1>3, MetaCases
  <2>2. Base[p].k = "none" => Base[p] = W!Nothing
    BY <1>1, EntryCases
  <2> QED
    BY <1>2, <1>3, <2>1, <2>2, GoneIsWhited
<1>4. CASE t[p].k = "dir"
  <2>1. ~W!Whited(m, p)
    BY <1>4, KeptIsNotWhited
  <2>2. t[p] = W!Dir(t[p].mode)
    BY <1>1, <1>4, EntryCases
  <2>3. \/ e.k = "none" /\ t[p] = Base[p]
        \/ e.k = "dir" /\ e.mode = t[p].mode
    BY <1>4, MetaCases
  <2> QED
    BY <1>2, <1>4, <2>1, <2>2, <2>3
<1>5. CASE t[p].k = "file" /\ p \in StoredOf(t)
  <2>1. e.k = "file" /\ ~e.base /\ e.mode = t[p].mode /\ e.sum = t[p].sum
    BY <1>5, MetaCases
  <2> QED
    BY <1>2, <1>5, <2>1
<1>6. CASE t[p].k = "file" /\ p \notin StoredOf(t)
  <2>1. /\ e.k = "none" \/ (e.k = "file" /\ e.base /\ e.mode = t[p].mode)
        /\ W!BaseContent(t[p], p)
        /\ e.k = "none" => t[p].mode = Base[p].mode
    BY <1>6, MetaCases
  <2> PICK text : text = Base[p].text
    OBVIOUS
  <2>2. Base[p].k = "file" /\ t[p].sum = text /\ Base[p].sum = text
    BY <2>1, WebAssumption DEF W!BaseContent
  <2>3. Base[p] = W!File(text, text, Base[p].mode, Base[p].lazy) /\ Base[p].lazy \in BOOLEAN
    BY <1>1, <2>2, EntryCases
  <2>4. [Base[p] EXCEPT !.mode = t[p].mode] = W!File(text, text, t[p].mode, Base[p].lazy)
    BY <2>3 DEF W!File
  <2>5. text \in W!RootTexts
    BY <2>2 DEF W!RootTexts
  <2>6. ~W!Whited(m, p)
    BY <1>6, KeptIsNotWhited
  <2>7. now = W!File(text, text, t[p].mode, Base[p].lazy)
    BY <1>2, <2>1, <2>3, <2>4, <2>6
  <2> QED
    BY <1>6, <2>1, <2>2, <2>3, <2>5, <2>7
<1> QED
  BY <1>1, <1>3, <1>4, <1>5, <1>6, EntryCases

---------------------------------------------------------------------------
(* The invariant of a host with a browser.                                 *)

Trees == {t \in [W!Paths -> W!Entries] : W!IsTree(t)}

Jobs == [stage : {"write"}, tree : Trees, open : BOOLEAN,
         todo : SUBSET W!Paths, stale : SUBSET W!Paths]

(* What programs, saves and the page hold are trees.                       *)
MemoryTyped ==
  /\ live \in Trees /\ saved \in Trees /\ tried \subseteq Trees
  /\ queue \in Seq(Trees) /\ Len(queue) <= MaxSaves
  /\ job \in {W!Idle} \cup Jobs

(* The storage is a directory tree of texts.                               *)
StorageTyped ==
  /\ data \in [W!Paths -> W!Contents \cup {"none", "dir"}]
  /\ \A p \in W!Paths : data[p] # "none" => \A q \in W!Up(p) : data[q] = "dir"

(* The page remembers the manifest, which is that of the last whole save.  *)
Remembered == known = manifest /\ manifest = W!ManifestOf(saved)

(* A save has written what it no longer has to write, and what it has      *)
(* opened can be closed.                                                   *)
JobKept ==
  job \in Jobs =>
    /\ job.tree \in tried
    /\ job.todo \subseteq StoredOf(job.tree)
    /\ job.stale \cap StoredOf(job.tree) = {}
    /\ \A p \in StoredOf(job.tree) \ job.todo : data[p] = job.tree[p].text
    /\ job.open => /\ job.todo # {}
                   /\ W!Readable(W!First(job.todo))
                   /\ \A q \in W!Up(W!First(job.todo)) : data[q] = "dir"

(* A stored text was written by the last whole save or by one that was     *)
(* tried since; where it is gone, one of the latter had no use for it.     *)
WrittenBy(p) == \E t \in tried \cup {saved} : t[p].k = "file" /\ data[p] = t[p].text
GivenUp(p) == \E t \in tried : p \notin StoredOf(t)

ExplainedAt(p) ==
  IF W!Readable(p) THEN WrittenBy(p) \/ (data[p] = W!Empty /\ GivenUp(p)) ELSE GivenUp(p)

Explained == \A p \in StoredOf(saved) : ExplainedAt(p)

WebInv ==
  MemoryTyped /\ StorageTyped /\ Remembered /\ JobKept /\ Explained

(* Where there is nothing to do there is no save.                          *)
LEMMA IdleIsNoJob == W!Idle \notin Jobs
BY DEF W!Idle, Jobs

(* What the manifest shows is a tree.                                      *)
LEMMA PulledIsTree ==
  ASSUME NEW t \in Trees, data \in [W!Paths -> W!Contents \cup {"none", "dir"}],
         \A p \in StoredOf(t) : W!Readable(p)
  PROVE  W!Pulled(W!ManifestOf(t)) \in Trees
<1> PICK now : now = W!Pulled(W!ManifestOf(t))
  OBVIOUS
<1>1. W!IsTree(t)
  BY DEF Trees
<1>2. ASSUME NEW p \in W!Paths
      PROVE  /\ now[p] \in W!Entries /\ now[p].k = t[p].k
             /\ now[p].k = "file" /\ now[p].lazy => now[p].text \in W!RootTexts
  <2>1. t[p] \in W!Entries
    BY <1>1 DEF W!IsTree
  <2>2. CASE t[p].k = "none"
    <3>1. now[p] = W!Nothing
      BY <1>1, <2>2, PulledCases
    <3> QED
      BY <2>2, <3>1, EntriesAre DEF W!Nothing
  <2>3. CASE t[p].k = "dir"
    <3>1. now[p] = W!Dir(t[p].mode) /\ t[p].mode \in 0..1
      BY <1>1, <2>1, <2>3, PulledCases, EntryCases
    <3> QED
      BY <2>3, <3>1, EntriesAre DEF W!Dir
  <2>4. CASE t[p].k = "file"
    <3>1. t[p].mode \in 0..1 /\ t[p].sum \in W!Contents
      BY <2>1, <2>4, EntryCases
    <3>2. CASE p \in StoredOf(t)
      <4>1. now[p] = W!File(data[p], t[p].sum, t[p].mode, FALSE) /\ data[p] \in W!Contents
        BY <1>1, <2>4, <3>2, PulledCases DEF W!Readable
      <4>2. now[p] \in W!Entries
        BY <3>1, <4>1, EntriesAre
      <4>3. now[p].k = "file" /\ ~now[p].lazy
        BY <4>1 DEF W!File
      <4> QED
        BY <2>4, <4>2, <4>3
    <3>3. CASE p \notin StoredOf(t)
      <4>1. PICK lazy \in BOOLEAN : now[p] = W!File(t[p].sum, t[p].sum, t[p].mode, lazy)
                                     /\ t[p].sum \in W!RootTexts
        BY <1>1, <2>4, <3>3, PulledCases
      <4> QED
        BY <2>4, <3>1, <4>1, EntriesAre DEF W!File
    <3> QED
      BY <3>2, <3>3
  <2> QED
    BY <2>1, <2>2, <2>3, <2>4, EntryCases
<1>3. now = [p \in W!Paths |-> now[p]]
  BY DEF W!Pulled
<1>4. now \in [W!Paths -> W!Entries]
  BY <1>2, <1>3
<1>5. \A p \in W!Paths : now[p].k # "none" => W!HasDir(now, p)
  <2> SUFFICES ASSUME NEW p \in W!Paths, now[p].k # "none", NEW q \in W!Up(p)
               PROVE  now[q].k = "dir"
    BY DEF W!HasDir
  <2>1. q \in W!Paths
    BY UpIrreflexive
  <2>2. t[p].k # "none" /\ now[q].k = t[q].k
    BY <1>2, <2>1
  <2> QED
    BY <1>1, <2>2 DEF W!IsTree, W!HasDir
<1> QED
  BY <1>2, <1>4, <1>5 DEF Trees, W!IsTree

(* What is missing is a stored text that cannot be read.                   *)
LEMMA NothingMissing ==
  ASSUME NEW t
  PROVE  W!Missing(W!ManifestOf(t)) = {p \in StoredOf(t) : ~W!Readable(p)}
BY DEF W!Missing, StoredOf, W!Stored

(* The first start.                                                        *)
LEMMA StartInv ==
  ASSUME tree = "browser", Init
  PROVE  WebInv
<1>1. W!Init
  BY DEF Init
<1>2. W!IsTree(saved)
  BY <1>1, WebAssumption DEF W!Init
<1>3. saved \in Trees
  BY <1>2 DEF Trees, W!IsTree
<1>4. manifest = W!ManifestOf(saved)
  BY <1>1 DEF W!Init
<1>5. \A p \in StoredOf(saved) : data[p] = saved[p].text /\ W!Readable(p)
  BY <1>1, <1>2, <1>4, StoredAreFiles DEF W!Init, StoredOf, W!Readable
<1>6. StorageTyped
  <2>1. data = [p \in W!Paths |->
                  IF p \in StoredOf(saved) THEN saved[p].text
                  ELSE IF \E q \in StoredOf(saved) : p \in W!Up(q) THEN "dir" ELSE "none"]
    BY <1>1, <1>4 DEF W!Init, StoredOf
  <2>2. data \in [W!Paths -> W!Contents \cup {"none", "dir"}]
    BY <1>2, <2>1, StoredAreFiles
  <2>3. ASSUME NEW p \in W!Paths, data[p] # "none", NEW q \in W!Up(p)
        PROVE  data[q] = "dir"
    <3>1. PICK r \in StoredOf(saved) : q \in W!Up(r)
      BY <2>1, <2>3, <1>2, StoredAreFiles, UpTransitive
    <3>2. saved[q].k = "dir"
      BY <1>2, <3>1, StoredAreFiles DEF W!IsTree, W!HasDir
    <3>3. q \notin StoredOf(saved) /\ q \in W!Paths
      BY <1>2, <2>3, <3>2, StoredAreFiles, UpIrreflexive
    <3> QED
      BY <2>1, <3>1, <3>3
  <2> QED
    BY <2>2, <2>3 DEF StorageTyped
<1>7. live \in Trees
  BY <1>1, <1>3, <1>4, <1>5, <1>6, PulledIsTree DEF W!Init, StorageTyped
<1>8. MemoryTyped
  BY <1>1, <1>3, <1>7, PathAssumption DEF W!Init, MemoryTyped
<1>9. Explained
  BY <1>2, <1>5, StoredAreFiles DEF Explained, ExplainedAt, WrittenBy
<1> QED
  BY <1>1, <1>4, <1>6, <1>8, <1>9, IdleIsNoJob
  DEF W!Init, WebInv, Remembered, JobKept

---------------------------------------------------------------------------
(* Programs.                                                               *)

(* A change of one entry leaves a tree, when what is put there has its     *)
(* directories and what goes had nothing below it.                         *)
LEMMA EntryChanged ==
  ASSUME NEW t \in Trees, NEW p \in W!Paths, NEW e \in W!Entries,
         e.k = "file" /\ e.lazy => e.text \in W!RootTexts,
         e.k # "none" => W!HasDir(t, p),
         e.k # "dir" => \A q \in W!Down(p) : t[q].k = "none"
  PROVE  [t EXCEPT ![p] = e] \in Trees
<1> PICK u : u = [t EXCEPT ![p] = e]
  OBVIOUS
<1>1. t \in [W!Paths -> W!Entries] /\ W!IsTree(t)
  BY DEF Trees
<1>2. u \in [W!Paths -> W!Entries] /\ u[p] = e /\ \A q \in W!Paths \ {p} : u[q] = t[q]
  BY <1>1
<1>3. ASSUME NEW q \in W!Paths, u[q].k # "none", NEW r \in W!Up(q)
      PROVE  u[r].k = "dir"
  <2>1. r \in W!Paths /\ r # q
    BY UpIrreflexive
  <2>2. CASE q = p
    BY <1>2, <1>3, <2>1, <2>2 DEF W!HasDir
  <2>3. CASE q # p /\ r # p
    BY <1>1, <1>2, <1>3, <2>1, <2>3 DEF W!IsTree, W!HasDir
  <2>4. CASE q # p /\ r = p
    <3>1. q \in W!Down(p) /\ t[q].k # "none"
      BY <1>2, <1>3, <2>4 DEF W!Down, W!Up
    <3> QED
      BY <1>2, <2>4, <3>1
  <2> QED
    BY <2>2, <2>3, <2>4
<1>4. ASSUME NEW q \in W!Paths, u[q].k = "file", u[q].lazy
      PROVE  u[q].text \in W!RootTexts
  BY <1>1, <1>2, <1>4 DEF W!IsTree
<1> QED
  BY <1>2, <1>3, <1>4 DEF Trees, W!IsTree, W!HasDir

(* Below what is no directory there is nothing.                            *)
LEMMA NothingBelow ==
  ASSUME NEW t \in Trees, NEW p \in W!Paths, t[p].k # "dir"
  PROVE  \A q \in W!Down(p) : t[q].k = "none"
BY DEF Trees, W!IsTree, W!HasDir, W!Down, W!Up

(* What each entry of a tree is.                                           *)
LEMMA TreeEntry ==
  ASSUME NEW t \in Trees, NEW p \in W!Paths
  PROVE  /\ t[p] \in W!Entries
         /\ t[p].k # "none" => W!HasDir(t, p)
         /\ t[p].k = "file" /\ t[p].lazy => t[p].text \in W!RootTexts
BY DEF Trees, W!IsTree

(* Programs and the arrival of payloads change only the tree they see.     *)
LEMMA LiveChanges ==
  ASSUME WebInv, live' \in Trees,
         UNCHANGED <<queue, job, known, data, manifest, saved, tried>>
  PROVE  WebInv'
BY DEF WebInv, MemoryTyped, StorageTyped, Remembered, JobKept, Explained, ExplainedAt, WrittenBy,
       GivenUp,
       StoredOf, W!Readable

(* WriteFile, MakeDir.                                                     *)
LEMMA WritesKeep ==
  ASSUME WebInv, NEW p \in W!Paths,
         (\E text \in WebTexts : W!WriteFile(p, text)) \/ W!MakeDir(p)
  PROVE  WebInv'
<1>1. live \in Trees
  BY DEF WebInv, MemoryTyped
<1>2. \A q \in W!Down(p) : live[q].k = "none"
  BY <1>1, NothingBelow DEF W!WriteFile, W!MakeDir
<1>3. W!HasDir(live, p) /\ live[p] \in W!Entries
  BY <1>1, TreeEntry DEF W!WriteFile, W!MakeDir
<1>4. ASSUME NEW text \in WebTexts, W!WriteFile(p, text)
      PROVE  live' \in Trees
  <2>1. PICK mode : mode = IF live[p].k = "file" THEN live[p].mode ELSE 0
    OBVIOUS
  <2>2. mode \in 0..1 /\ text \in W!Contents
    BY <1>3, <2>1, EntryCases DEF W!Contents
  <2>3. W!File(text, text, mode, FALSE) \in W!Entries
    BY <2>2, EntriesAre
  <2>4. W!File(text, text, mode, FALSE).k = "file" /\ ~W!File(text, text, mode, FALSE).lazy
    BY DEF W!File
  <2>5. live' = [live EXCEPT ![p] = W!File(text, text, mode, FALSE)]
    BY <1>4, <2>1 DEF W!WriteFile, W!Change
  <2> QED
    BY <1>1, <1>2, <1>3, <2>3, <2>4, <2>5, EntryChanged
<1>5. ASSUME W!MakeDir(p)
      PROVE  live' \in Trees
  <2>1. live' = [live EXCEPT ![p] = W!Dir(0)]
    BY <1>5 DEF W!MakeDir, W!Change
  <2>2. W!Dir(0) \in W!Entries /\ W!Dir(0).k = "dir"
    BY EntriesAre DEF W!Dir
  <2> QED
    BY <1>1, <1>2, <1>3, <2>1, <2>2, EntryChanged
<1>6. UNCHANGED <<queue, job, known, data, manifest, saved, tried>>
  BY DEF W!WriteFile, W!MakeDir, W!Change, W!storage
<1> QED
  BY <1>4, <1>5, <1>6, LiveChanges

(* Unlink, RenameFile.                                                     *)
LEMMA NamesKeep ==
  ASSUME WebInv, NEW p \in W!Paths, W!Unlink(p) \/ \E q \in W!Paths : W!RenameFile(p, q)
  PROVE  WebInv'
<1>1. live \in Trees
  BY DEF WebInv, MemoryTyped
<1>2. W!Nothing \in W!Entries /\ W!Nothing.k = "none"
  BY EntriesAre DEF W!Nothing
<1>3. ASSUME W!Unlink(p)
      PROVE  live' \in Trees
  <2>1. live' = [live EXCEPT ![p] = W!Nothing] /\ \A q \in W!Down(p) : live[q].k = "none"
    BY <1>3 DEF W!Unlink, W!Change
  <2> QED
    BY <1>1, <1>2, <2>1, EntryChanged
<1>4. ASSUME NEW q \in W!Paths, W!RenameFile(p, q)
      PROVE  live' \in Trees
  <2>1. /\ live' = [live EXCEPT ![q] = live[p], ![p] = W!Nothing]
        /\ p # q /\ live[p].k = "file" /\ W!HasDir(live, q) /\ live[q].k \in {"none", "file"}
    BY <1>4 DEF W!RenameFile, W!Change
  <2> PICK t : t = [live EXCEPT ![q] = live[p]]
    OBVIOUS
  <2>2. t \in Trees
    BY <1>1, <2>1, TreeEntry, NothingBelow, EntryChanged
  <2>3. t[p].k = "file" /\ live' = [t EXCEPT ![p] = W!Nothing]
    BY <1>1, <2>1 DEF Trees
  <2> QED
    BY <1>2, <2>2, <2>3, NothingBelow, EntryChanged
<1>5. UNCHANGED <<queue, job, known, data, manifest, saved, tried>>
  BY DEF W!Unlink, W!RenameFile, W!Change, W!storage
<1> QED
  BY <1>3, <1>4, <1>5, LiveChanges

(* Chmod, Materialise.                                                     *)
LEMMA DetailsKeep ==
  ASSUME WebInv, NEW p \in W!Paths, W!Chmod(p) \/ W!Materialise(p)
  PROVE  WebInv'
<1>1. live \in Trees
  BY DEF WebInv, MemoryTyped
<1>2. live[p] \in W!Entries /\ live[p].k # "none"
  BY <1>1, TreeEntry DEF W!Chmod, W!Materialise
<1> PICK e : e = live'[p]
  OBVIOUS
<1>3. /\ live' = [live EXCEPT ![p] = e]
      /\ e \in W!Entries /\ e.k = live[p].k
      /\ e.k = "file" /\ e.lazy => live[p].lazy /\ e.text = live[p].text
  <2>1. CASE W!Chmod(p) /\ live[p].k = "dir"
    <3>1. live[p].mode \in 0..1 /\ live[p] = W!Dir(live[p].mode)
      BY <1>2, <2>1, EntryCases
    <3>2. [live[p] EXCEPT !.mode = 1 - @] = W!Dir(1 - live[p].mode)
      BY <3>1 DEF W!Dir
    <3>3. live' = [live EXCEPT ![p] = W!Dir(1 - live[p].mode)]
      BY <2>1, <3>2 DEF W!Chmod, W!Change
    <3>4. 1 - live[p].mode \in 0..1
      BY <3>1
    <3>5. e = W!Dir(1 - live[p].mode)
      BY <1>1, <3>3 DEF Trees
    <3>6. e \in W!Entries
      BY <3>4, <3>5, EntriesAre
    <3>7. e.k = "dir"
      BY <3>5 DEF W!Dir
    <3> QED
      BY <2>1, <3>3, <3>5, <3>6, <3>7
  <2>2. CASE W!Chmod(p) /\ live[p].k = "file"
    <3>1. /\ live[p].mode \in 0..1 /\ live[p].text \in W!Contents /\ live[p].lazy \in BOOLEAN
          /\ live[p].sum \in W!Contents
          /\ live[p] = W!File(live[p].text, live[p].sum, live[p].mode, live[p].lazy)
      BY <1>2, <2>2, EntryCases
    <3> PICK f : f = W!File(live[p].text, live[p].sum, 1 - live[p].mode, live[p].lazy)
      OBVIOUS
    <3>2. [live[p] EXCEPT !.mode = 1 - @] = f
      BY <3>1 DEF W!File
    <3>3. live' = [live EXCEPT ![p] = f]
      BY <2>2, <3>2 DEF W!Chmod, W!Change
    <3>4. 1 - live[p].mode \in 0..1
      BY <3>1
    <3>5. e = f
      BY <1>1, <3>3 DEF Trees
    <3>6. f \in W!Entries
      BY <3>1, <3>4, EntriesAre
    <3>7. f.k = "file" /\ f.lazy = live[p].lazy /\ f.text = live[p].text
      BY DEF W!File
    <3> QED
      BY <2>2, <3>3, <3>5, <3>6, <3>7
  <2>3. CASE W!Materialise(p)
    <3>1. /\ live[p].mode \in 0..1 /\ live[p].text \in W!Contents /\ live[p].lazy \in BOOLEAN
          /\ live[p].sum \in W!Contents
          /\ live[p] = W!File(live[p].text, live[p].sum, live[p].mode, live[p].lazy) /\ live[p].k = "file"
      BY <1>2, <2>3, EntryCases DEF W!Materialise
    <3> PICK f : f = W!File(live[p].text, live[p].sum, live[p].mode, FALSE)
      OBVIOUS
    <3>2. [live[p] EXCEPT !.lazy = FALSE] = f
      <4>1. ASSUME NEW text, NEW sum, NEW mode, NEW lazy, NEW g, g = W!File(text, sum, mode, lazy),
                   NEW loaded
            PROVE  [g EXCEPT !.lazy = loaded] = W!File(text, sum, mode, loaded)
        BY <4>1 DEF W!File
      <4> PICK loaded : loaded = FALSE
        OBVIOUS
      <4>2. [live[p] EXCEPT !.lazy = loaded] = W!File(live[p].text, live[p].sum, live[p].mode, loaded)
        BY <3>1, <4>1
      <4> QED
        BY <4>2, Zenon
    <3>3. live' = [live EXCEPT ![p] = f]
      BY <2>3, <3>2 DEF W!Materialise
    <3>5. e = f
      BY <1>1, <3>3 DEF Trees
    <3>6. f \in W!Entries
      BY <3>1, EntriesAre
    <3>7. f.k = "file" /\ ~f.lazy
      BY DEF W!File
    <3> QED
      BY <3>1, <3>3, <3>5, <3>6, <3>7
  <2> QED
    BY <1>2, <2>1, <2>2, <2>3, EntryCases
<1>4. live' \in Trees
  BY <1>1, <1>2, <1>3, TreeEntry, NothingBelow, EntryChanged
<1>5. UNCHANGED <<queue, job, known, data, manifest, saved, tried>>
  BY DEF W!Chmod, W!Materialise, W!Change, W!storage
<1> QED
  BY <1>4, <1>5, LiveChanges

---------------------------------------------------------------------------
(* Saves.                                                                  *)

(* What is stored for a tree lies within the paths.                        *)
LEMMA StoredArePaths ==
  ASSUME NEW t PROVE StoredOf(t) \subseteq W!Paths
BY DEF StoredOf, W!Stored

(* The fields of a save.                                                   *)
LEMMA JobFields ==
  ASSUME job \in Jobs
  PROVE  /\ job.stage = "write" /\ job.tree \in Trees /\ job.open \in BOOLEAN
         /\ job.todo \subseteq W!Paths /\ job.stale \subseteq W!Paths
         /\ job # W!Idle
BY IdleIsNoJob DEF Jobs

(* A step of a save is one of a save that is under way.                    *)
LEMMA SaveUnderWay ==
  ASSUME MemoryTyped, job.stage = "write"
  PROVE  job \in Jobs
BY DEF MemoryTyped, W!Idle

(* Flush.                                                                  *)
LEMMA FlushKeeps ==
  ASSUME WebInv, W!Flush
  PROVE  WebInv'
<1>1. queue' = Append(queue, live) /\ Len(queue) < MaxSaves
  BY PathAssumption DEF W!Flush, WebInv, MemoryTyped
<1>2. queue' \in Seq(Trees) /\ Len(queue') <= MaxSaves
  BY <1>1, PathAssumption DEF WebInv, MemoryTyped
<1>3. UNCHANGED <<live, job, known, data, manifest, saved, tried>>
  BY DEF W!Flush, W!storage
<1> QED
  BY <1>1, <1>2, <1>3
  DEF WebInv, MemoryTyped, StorageTyped, Remembered, JobKept, Explained, ExplainedAt, WrittenBy,
       GivenUp,
      StoredOf, W!Readable

(* Begin.                                                                  *)
LEMMA BeginKeeps ==
  ASSUME WebInv, W!Begin
  PROVE  WebInv'
<1> PICK t : t = Head(queue)
  OBVIOUS
<1>1. /\ t \in Trees /\ Tail(queue) \in Seq(Trees) /\ Len(Tail(queue)) <= MaxSaves
      /\ queue # <<>>
  BY PathAssumption DEF W!Begin, WebInv, MemoryTyped
<1>2. /\ job' = W!Job(t) /\ queue' = Tail(queue) /\ tried' = tried \cup {t}
      /\ UNCHANGED <<live, known, data, manifest, saved>>
  BY DEF W!Begin, W!storage
<1>3. /\ job'.stage = "write" /\ job'.tree = t /\ ~job'.open /\ job'.todo = StoredOf(t)
      /\ job'.stale = W!Stored(known) \ StoredOf(t)
  BY <1>2 DEF W!Job, StoredOf
<1>4. job' \in Jobs
  BY <1>1, <1>2 DEF W!Job, Jobs, W!Stored
<1>5. MemoryTyped'
  BY <1>1, <1>2, <1>4 DEF WebInv, MemoryTyped
<1>6. JobKept'
  BY <1>2, <1>3 DEF JobKept
<1>7. Explained'
  <2>1. ASSUME NEW p \in StoredOf(saved)
        PROVE  (WrittenBy(p) => WrittenBy(p)') /\ (GivenUp(p) => GivenUp(p)')
    BY <1>2 DEF WrittenBy, GivenUp
  <2> QED
    BY <1>2, <2>1 DEF WebInv, Explained, ExplainedAt, W!Readable
<1> QED
  BY <1>1, <1>2, <1>5, <1>6, <1>7 DEF WebInv, StorageTyped, Remembered

(* Fail.                                                                   *)
LEMMA FailKeeps ==
  ASSUME WebInv, W!Fail
  PROVE  WebInv'
<1>1. /\ job' = W!Idle
      /\ UNCHANGED <<live, queue, known, data, manifest, saved, tried>>
  BY DEF W!Fail, W!storage
<1>2. ~(job' \in Jobs)
  BY <1>1, IdleIsNoJob
<1> QED
  BY <1>1, <1>2
  DEF WebInv, MemoryTyped, StorageTyped, Remembered, JobKept, Explained, ExplainedAt, WrittenBy,
       GivenUp,
      StoredOf, W!Readable

(* What holds when a step of a save changed only itself and the storage.   *)
LEMMA SaveSteps ==
  ASSUME WebInv, job \in Jobs, job' \in Jobs, JobKept', StorageTyped', Explained',
         UNCHANGED <<live, queue, known, manifest, saved, tried>>
  PROVE  WebInv'
BY DEF WebInv, MemoryTyped, Remembered

(* What the storage holds at one path.                                     *)
LEMMA StorageAt ==
  ASSUME StorageTyped, NEW p \in W!Paths
  PROVE  /\ data[p] \in W!Contents \/ data[p] \in {"none", "dir"}
         /\ W!Readable(p) <=> data[p] \notin {"none", "dir"}
         /\ data[p] # "none" => \A q \in W!Up(p) : data[q] = "dir"
BY WebAssumption DEF StorageTyped, W!Readable

(* What is unchanged stays explained; a text of a save that was tried      *)
(* explains itself; anything that is not another text may take the place   *)
(* of what was given up.                                                   *)
LEMMA StaysExplained ==
  ASSUME StorageTyped, Explained, UNCHANGED <<saved, tried>>, NEW p \in StoredOf(saved),
         \/ data'[p] = data[p]
         \/ (\E t \in tried : t[p].k = "file" /\ data'[p] = t[p].text) /\ W!Readable(p)'
         \/ GivenUp(p) /\ (data'[p] = W!Empty \/ data'[p] \in {"none", "dir"})
  PROVE  ExplainedAt(p)'
<1>1. ExplainedAt(p) /\ (GivenUp(p) <=> GivenUp(p)')
  BY DEF Explained, GivenUp
<1>2. CASE data'[p] = data[p]
  BY <1>1, <1>2 DEF ExplainedAt, WrittenBy, W!Readable
<1>3. CASE (\E t \in tried : t[p].k = "file" /\ data'[p] = t[p].text) /\ W!Readable(p)'
  BY <1>3 DEF ExplainedAt, WrittenBy
<1>4. CASE GivenUp(p) /\ (data'[p] = W!Empty \/ data'[p] \in {"none", "dir"})
  BY <1>1, <1>4, WebAssumption DEF ExplainedAt, W!Readable
<1> QED
  BY <1>2, <1>3, <1>4

(* Create.                                                                 *)
LEMMA CreateKeeps ==
  ASSUME WebInv, W!Create
  PROVE  WebInv'
<1>1. /\ job \in Jobs /\ StorageTyped /\ JobKept /\ Explained /\ MemoryTyped
      /\ job.todo # {} /\ ~job.open
  BY SaveUnderWay DEF WebInv, W!Create
<1> PICK p : p = W!First(job.todo)
  OBVIOUS
<1>2. p \in job.todo /\ p \in StoredOf(job.tree) /\ p \in W!Paths
  BY <1>1, JobFields, FirstIsOne DEF JobKept
<1>3. /\ \A q \in W!Up(p) : ~W!Readable(q)
      /\ data[p] # "dir" /\ data' = W!Created(p) /\ job' = [job EXCEPT !.open = TRUE]
      /\ UNCHANGED <<live, queue, known, manifest, saved, tried>>
  BY DEF W!Create
<1>4. job' \in Jobs /\ job'.tree = job.tree /\ job'.todo = job.todo /\ job'.stale = job.stale
  BY <1>1, <1>3 DEF Jobs
<1>5. \A q \in W!Paths : data'[q] = IF q \in W!Up(p) THEN "dir"
                                    ELSE IF q = p /\ data[p] = "none" THEN W!Empty ELSE data[q]
  <2> SUFFICES ASSUME NEW q \in W!Paths
               PROVE  data'[q] = IF q \in W!Up(p) THEN "dir"
                                 ELSE IF q = p /\ data[p] = "none" THEN W!Empty ELSE data[q]
    OBVIOUS
  <2>1. data'[q] = CASE q \in W!Up(p) -> "dir"
                     [] q = p /\ data[p] = "none" -> W!Empty
                     [] OTHER -> data[q]
    BY <1>3 DEF W!Created
  <2>2. ~(q \in W!Up(p) /\ q = p)
    BY UpIrreflexive
  <2> QED
    BY <2>1, <2>2, Zenon
<1>6. data' \in [W!Paths -> W!Contents \cup {"none", "dir"}]
  <2>1. data' = [q \in W!Paths |-> data'[q]]
    BY <1>3 DEF W!Created
  <2>2. \A q \in W!Paths : data'[q] \in W!Contents \cup {"none", "dir"}
    BY <1>1, <1>5 DEF StorageTyped, W!Contents
  <2> QED
    BY <2>1, <2>2
<1>7. p \notin W!Up(p) /\ W!Up(p) \subseteq W!Paths
  BY <1>2, UpIrreflexive
<1>8. StorageTyped'
  <2>1. ASSUME NEW q \in W!Paths, data'[q] # "none", NEW r \in W!Up(q)
        PROVE  data'[r] = "dir"
    <3>1. r \in W!Paths
      BY UpIrreflexive
    <3>2. CASE q \in W!Up(p) \/ q = p
      BY <1>2, <1>5, <3>1, <3>2, UpTransitive
    <3>3. CASE q \notin W!Up(p) /\ q # p
      <4>1. data[r] = "dir"
        BY <1>1, <1>5, <2>1, <3>3 DEF StorageTyped
      <4> QED
        BY <1>5, <3>1, <4>1
    <3> QED
      BY <3>2, <3>3
  <2> QED
    BY <1>6, <2>1 DEF StorageTyped
<1>9. ASSUME NEW q \in StoredOf(job.tree) \ job.todo
      PROVE  data'[q] = job.tree[q].text
  <2>1. q \in W!Paths /\ data[q] = job.tree[q].text /\ job.tree[q].text \in W!Contents
    BY <1>1, <1>9, JobFields, StoredAreFiles DEF JobKept, Trees
  <2>2. q \notin W!Up(p) /\ q # p
    BY <1>2, <1>3, <1>9, <2>1 DEF W!Readable
  <2> QED
    BY <1>5, <2>1, <2>2
<1>10. data'[p] \in W!Contents /\ \A q \in W!Up(p) : data'[q] = "dir"
  BY <1>1, <1>2, <1>3, <1>5, <1>7 DEF StorageTyped, W!Contents
<1>11. JobKept'
  BY <1>1, <1>2, <1>3, <1>4, <1>9, <1>10 DEF JobKept, StoredOf, W!Readable
<1>12. Explained'
  <2>1. ASSUME NEW q \in StoredOf(saved)
        PROVE  ExplainedAt(q)'
    <3>1. q \in W!Paths
      BY StoredArePaths
    <3>2. data'[q] # data[q] => ~W!Readable(q) /\ data'[q] \in {"dir", W!Empty}
      BY <1>1, <1>3, <1>5, <3>1, StorageAt
    <3>3. ~W!Readable(q) => GivenUp(q)
      BY <1>1 DEF Explained, ExplainedAt
    <3> QED
      BY <1>1, <1>3, <3>2, <3>3, StaysExplained
  <2> QED
    BY <1>3, <2>1 DEF Explained
<1> QED
  BY <1>1, <1>3, <1>4, <1>8, <1>11, <1>12, SaveSteps

(* Close.                                                                  *)
LEMMA CloseKeeps ==
  ASSUME WebInv, W!Close
  PROVE  WebInv'
<1>1. job \in Jobs /\ StorageTyped /\ JobKept /\ Explained /\ MemoryTyped /\ job.open
  BY SaveUnderWay DEF WebInv, W!Close
<1> PICK p : p = W!First(job.todo)
  OBVIOUS
<1>2. /\ p \in job.todo /\ p \in StoredOf(job.tree) /\ p \in W!Paths /\ W!Readable(p)
      /\ \A q \in W!Up(p) : data[q] = "dir"
  BY <1>1, JobFields, FirstIsOne DEF JobKept
<1> PICK text : text = job.tree[p].text
  OBVIOUS
<1>3. /\ data' = [data EXCEPT ![p] = text]
      /\ job' = [job EXCEPT !.open = FALSE, !.todo = @ \ {p}]
      /\ UNCHANGED <<live, queue, known, manifest, saved, tried>>
  BY DEF W!Close
<1>4. /\ job' \in Jobs /\ job'.tree = job.tree /\ job'.todo = job.todo \ {p}
      /\ job'.stale = job.stale /\ ~job'.open
  BY <1>1, <1>3 DEF Jobs
<1>5. text \in W!Contents /\ job.tree[p].k = "file"
  BY <1>1, <1>2, JobFields, StoredAreFiles DEF Trees
<1>6. data'[p] = text /\ \A q \in W!Paths \ {p} : data'[q] = data[q]
  BY <1>1, <1>2, <1>3 DEF StorageTyped
<1>7. StorageTyped'
  <2>1. data' \in [W!Paths -> W!Contents \cup {"none", "dir"}]
    BY <1>1, <1>3, <1>5 DEF StorageTyped
  <2>2. ASSUME NEW q \in W!Paths, data'[q] # "none", NEW r \in W!Up(q)
        PROVE  data'[r] = "dir"
    <3>1. r \in W!Paths /\ data[r] = "dir"
      BY <1>1, <1>2, <1>6, <2>2, UpIrreflexive DEF StorageTyped
    <3>2. r # p
      BY <1>1, <1>2, <3>1, StorageAt
    <3> QED
      BY <1>6, <3>1, <3>2
  <2> QED
    BY <2>1, <2>2 DEF StorageTyped
<1>8. JobKept'
  BY <1>1, <1>2, <1>4, <1>3, <1>6, StoredArePaths DEF JobKept
<1>9. Explained'
  <2>1. ASSUME NEW q \in StoredOf(saved)
        PROVE  ExplainedAt(q)'
    <3>1. q \in W!Paths
      BY StoredArePaths
    <3>2. CASE q = p
      <4>1. \E t \in tried : t[q].k = "file" /\ data'[q] = t[q].text
        BY <1>1, <1>5, <1>6, <3>2 DEF JobKept
      <4>2. W!Readable(q)'
        BY <1>5, <1>6, <3>2 DEF W!Readable
      <4> QED
        BY <1>1, <1>3, <4>1, <4>2, StaysExplained
    <3>3. CASE q # p
      BY <1>1, <1>3, <1>6, <3>1, <3>3, StaysExplained
    <3> QED
      BY <3>2, <3>3
  <2> QED
    BY <1>3, <2>1 DEF Explained
<1> QED
  BY <1>1, <1>3, <1>4, <1>7, <1>8, <1>9, SaveSteps

(* RemoveStale.                                                            *)
LEMMA RemoveKeeps ==
  ASSUME WebInv, W!RemoveStale
  PROVE  WebInv'
<1>1. /\ job \in Jobs /\ StorageTyped /\ JobKept /\ Explained /\ MemoryTyped
      /\ job.todo = {} /\ job.stale # {}
  BY SaveUnderWay DEF WebInv, W!RemoveStale
<1> PICK p : p = W!First(job.stale)
  OBVIOUS
<1>2. p \in job.stale /\ p \in W!Paths /\ p \notin StoredOf(job.tree)
  BY <1>1, JobFields, FirstIsOne DEF JobKept
<1>3. /\ \/ data' = [data EXCEPT ![p] = IF W!Readable(p) THEN "none" ELSE @]
         \/ UNCHANGED data
      /\ job' = [job EXCEPT !.stale = @ \ {p}]
      /\ UNCHANGED <<live, queue, known, manifest, saved, tried>>
  BY DEF W!RemoveStale
<1>4. /\ job' \in Jobs /\ job'.tree = job.tree /\ job'.todo = job.todo
      /\ job'.stale = job.stale \ {p} /\ job'.open = job.open
  BY <1>1, <1>3 DEF Jobs
<1>5. /\ \A q \in W!Paths \ {p} : data'[q] = data[q]
      /\ data'[p] = data[p] \/ (W!Readable(p) /\ data'[p] = "none")
      /\ data' \in [W!Paths -> W!Contents \cup {"none", "dir"}]
  BY <1>1, <1>2, <1>3 DEF StorageTyped
<1>6. StorageTyped'
  <2>1. ASSUME NEW q \in W!Paths, data'[q] # "none", NEW r \in W!Up(q)
        PROVE  data'[r] = "dir"
    <3>1. r \in W!Paths /\ data[r] = "dir"
      BY <1>1, <1>2, <1>5, <2>1, UpIrreflexive DEF StorageTyped
    <3>2. r = p => ~W!Readable(p)
      BY <1>1, <1>2, <3>1, StorageAt
    <3> QED
      BY <1>5, <3>1, <3>2
  <2> QED
    BY <1>5, <2>1 DEF StorageTyped
<1>7. JobKept'
  <2>1. ~job.open
    BY <1>1 DEF JobKept
  <2>2. \A q \in StoredOf(job.tree) : data'[q] = job.tree[q].text
    BY <1>1, <1>2, <1>5, StoredArePaths DEF JobKept
  <2> QED
    BY <1>1, <1>3, <1>4, <2>1, <2>2 DEF JobKept
<1>8. Explained'
  <2>1. ASSUME NEW q \in StoredOf(saved)
        PROVE  ExplainedAt(q)'
    <3>1. q \in W!Paths
      BY StoredArePaths
    <3>2. q = p => GivenUp(q)
      BY <1>1, <1>2 DEF JobKept, GivenUp
    <3> QED
      BY <1>1, <1>3, <1>5, <3>1, <3>2, StaysExplained
  <2> QED
    BY <1>3, <2>1 DEF Explained
<1> QED
  BY <1>1, <1>3, <1>4, <1>6, <1>7, <1>8, SaveSteps

(* Finish.                                                                 *)
LEMMA FinishKeeps ==
  ASSUME WebInv, W!Finish
  PROVE  WebInv'
<1>1. /\ job \in Jobs /\ StorageTyped /\ JobKept /\ MemoryTyped
      /\ job.todo = {}
  BY SaveUnderWay DEF WebInv, W!Finish
<1> PICK t : t = job.tree
  OBVIOUS
<1>2. /\ manifest' = W!ManifestOf(t) /\ known' = W!ManifestOf(t) /\ saved' = t
      /\ tried' = {} /\ job' = W!Idle /\ UNCHANGED <<live, queue, data>>
  BY DEF W!Finish
<1>3. t \in Trees /\ \A p \in StoredOf(t) : data[p] = t[p].text
  BY <1>1, JobFields DEF JobKept
<1>4. MemoryTyped'
  BY <1>1, <1>2, <1>3 DEF MemoryTyped
<1>5. Explained'
  <2>1. ASSUME NEW p \in StoredOf(t)
        PROVE  ExplainedAt(p)'
    <3>1. t[p].k = "file" /\ t[p].text \in W!Contents
      BY <1>3, StoredAreFiles DEF Trees
    <3>2. data'[p] = t[p].text
      BY <1>2, <1>3
    <3>3. W!Readable(p)'
      BY <3>1, <3>2 DEF W!Readable
    <3>4. WrittenBy(p)'
      BY <1>2, <3>1, <3>2 DEF WrittenBy
    <3> QED
      BY <3>3, <3>4 DEF ExplainedAt
  <2> QED
    BY <1>2, <2>1 DEF Explained
<1>6. JobKept' /\ Remembered' /\ StorageTyped'
  BY <1>1, <1>2, IdleIsNoJob DEF JobKept, Remembered, StorageTyped
<1> QED
  BY <1>4, <1>5, <1>6 DEF WebInv

(* Crash.                                                                  *)
LEMMA CrashKeeps ==
  ASSUME WebInv, W!Crash
  PROVE  WebInv'
<1>1. /\ live' = IF W!Missing(manifest) = {} THEN W!Pulled(manifest)
                 ELSE [p \in W!Paths |-> W!Nothing]
      /\ queue' = <<>> /\ job' = W!Idle /\ known' = manifest
      /\ UNCHANGED <<data, manifest, saved, tried>>
  BY DEF W!Crash, W!storage
<1>2. live' \in Trees
  <2>1. CASE W!Missing(manifest) = {}
    <3>1. \A p \in StoredOf(saved) : W!Readable(p)
      BY <2>1, NothingMissing DEF WebInv, Remembered
    <3> QED
      BY <1>1, <2>1, <3>1, PulledIsTree DEF WebInv, Remembered, StorageTyped, MemoryTyped
  <2>2. CASE W!Missing(manifest) # {}
    <3> PICK t : t = [p \in W!Paths |-> W!Nothing]
      OBVIOUS
    <3>1. \A p \in W!Paths : t[p] = W!Nothing /\ t[p].k = "none"
      BY DEF W!Nothing
    <3>2. t \in [W!Paths -> W!Entries]
      BY EntriesAre
    <3> QED
      BY <1>1, <2>2, <3>1, <3>2 DEF Trees, W!IsTree
  <2> QED
    BY <2>1, <2>2
<1>3. MemoryTyped'
  BY <1>1, <1>2, PathAssumption DEF WebInv, MemoryTyped
<1>4. ~(job' \in Jobs)
  BY <1>1, IdleIsNoJob
<1> QED
  BY <1>1, <1>3, <1>4
  DEF WebInv, StorageTyped, Remembered, JobKept, Explained, ExplainedAt, WrittenBy, GivenUp,
      W!Readable

---------------------------------------------------------------------------
(* The invariant, and what follows from it.                                *)

(* Every step keeps the invariant.                                         *)
LEMMA WebStep ==
  ASSUME WebInv, W!Next
  PROVE  WebInv'
<1>1. ASSUME NEW p \in W!Paths,
             \/ \E text \in WebTexts : W!WriteFile(p, text)
             \/ W!MakeDir(p) \/ W!Unlink(p) \/ W!Chmod(p) \/ W!Materialise(p)
             \/ \E q \in W!Paths : W!RenameFile(p, q)
      PROVE  WebInv'
  BY <1>1, WritesKeep, NamesKeep, DetailsKeep
<1> QED
  BY <1>1, FlushKeeps, BeginKeeps, FailKeeps, CreateKeeps, CloseKeeps, RemoveKeeps, FinishKeeps,
     CrashKeeps DEF W!Next

(* While the host has a browser, the invariant holds.                      *)
LEMMA BrowserInv == Spec => [](tree = "browser" => WebInv)
<1>1. Init => (tree = "browser" => WebInv)
  BY StartInv
<1>2. (tree = "browser" => WebInv) /\ [Next]_vars => (tree = "browser" => WebInv)'
  <2> SUFFICES ASSUME tree = "browser" => WebInv, [Next]_vars, tree' = "browser"
               PROVE  WebInv'
    OBVIOUS
  <2>1. CASE Next
    <3>1. tree = "browser" /\ W!Next
      BY <2>1 DEF Next
    <3> QED
      BY <3>1, WebStep
  <2>2. CASE UNCHANGED vars
    <3>1. WebInv
      BY <2>2 DEF vars
    <3> QED
      BY <2>2, <3>1
      DEF vars, WebInv, MemoryTyped, StorageTyped, Remembered, JobKept, Explained, ExplainedAt,
          WrittenBy, GivenUp, W!Readable
  <2> QED
    BY <2>1, <2>2
<1> QED
  BY <1>1, <1>2, PTL DEF Spec

(* The storage of a browser always holds a tree, and programs see one,     *)
(* whatever saves failed and whatever lives ended between two of their     *)
(* steps (WebTree.push and pull).                                          *)
LEMMA BrowserTyped == Spec => [](tree = "browser" => TypeOK)
<1>1. WebInv => W!TypeOK
  BY DEF WebInv, MemoryTyped, StorageTyped, Trees, W!TypeOK
<1>2. WebInv => (tree = "browser" => TypeOK)
  BY <1>1 DEF TypeOK
<1> QED
  BY <1>2, BrowserInv, PTL

(* What a user can tell of a file.                                         *)
FileShown(text, mode) == [k |-> "file", text |-> text, mode |-> mode]

(* What a user can tell of one path of what the manifest shows.            *)
LEMMA ShownCases ==
  ASSUME WebInv, NEW p \in W!Paths, NEW now, now = W!Shown(W!Pulled(manifest))[p],
         NEW then, then = W!Shown(saved)[p]
  PROVE  /\ saved[p].k # "file" => now = then /\ now.k = saved[p].k
         /\ saved[p].k = "file" =>
              /\ then = FileShown(saved[p].text, saved[p].mode)
              /\ IF p \in StoredOf(saved) THEN now = FileShown(data[p], saved[p].mode)
                 ELSE /\ now = FileShown(Base[p].text, saved[p].mode)
                      /\ W!BaseContent(saved[p], p) /\ saved[p].sum = Base[p].text
<1> PICK e : e = W!Pulled(manifest)[p]
  OBVIOUS
<1>1. /\ W!IsTree(saved) /\ saved[p] \in W!Entries /\ e = W!Pulled(W!ManifestOf(saved))[p]
      /\ now = IF e.k = "file" THEN FileShown(e.text, e.mode) ELSE e
      /\ then = IF saved[p].k = "file" THEN FileShown(saved[p].text, saved[p].mode)
                ELSE saved[p]
  BY DEF WebInv, MemoryTyped, Remembered, Trees, W!IsTree, W!Shown, FileShown
<1>2. CASE saved[p].k = "none"
  <2>1. e = W!Nothing /\ saved[p] = W!Nothing
    BY <1>1, <1>2, PulledCases, EntryCases
  <2> QED
    BY <1>1, <1>2, <2>1
<1>3. CASE saved[p].k = "dir"
  <2>1. e = W!Dir(saved[p].mode) /\ saved[p] = W!Dir(saved[p].mode)
    BY <1>1, <1>3, PulledCases, EntryCases
  <2> QED
    BY <1>1, <1>3, <2>1
<1>4. ASSUME NEW text, NEW sum, NEW lazy, e = W!File(text, sum, saved[p].mode, lazy)
      PROVE  now = FileShown(text, saved[p].mode)
  <2>1. e.k = "file" /\ e.text = text /\ e.mode = saved[p].mode
    BY <1>4 DEF W!File
  <2> QED
    BY <1>1, <2>1
<1>5. CASE saved[p].k = "file" /\ p \in StoredOf(saved)
  <2>1. e = W!File(data[p], saved[p].sum, saved[p].mode, FALSE)
    BY <1>1, <1>5, PulledCases
  <2>2. now = FileShown(data[p], saved[p].mode)
    BY <1>4, <2>1
  <2> QED
    BY <1>1, <1>5, <2>2
<1>6. CASE saved[p].k = "file" /\ p \notin StoredOf(saved)
  <2>1. PICK lazy \in BOOLEAN : e = W!File(saved[p].sum, saved[p].sum, saved[p].mode, lazy)
    BY <1>1, <1>6, PulledCases
  <2>2. now = FileShown(saved[p].sum, saved[p].mode)
    BY <1>4, <2>1
  <2>3. W!BaseContent(saved[p], p) /\ saved[p].sum = Base[p].text
    BY <1>1, <1>6, PulledCases
  <2> QED
    BY <1>1, <1>6, <2>2, <2>3
<1> QED
  BY <1>1, <1>2, <1>3, <1>5, <1>6, EntryCases

(* A save to the browser's storage that has come to its end is what the    *)
(* next start shows, whatever saves failed and whatever lives ended before *)
(* it, for all trees and all orders of steps: but for a file whose sum is  *)
(* not that of its bytes, and is that of the root's (WebTree.push, pull).  *)
LEMMA BrowserSaves == Spec => [](tree = "browser" => SavedIsPulled)
<1>1. ASSUME WebInv, tried = {}
      PROVE  W!SavedIsPulled
  <2>1. ASSUME NEW p \in StoredOf(saved)
        PROVE  W!Readable(p) /\ data[p] = saved[p].text
    BY <1>1 DEF WebInv, Explained, ExplainedAt, WrittenBy, GivenUp
  <2>2. W!Missing(manifest) = {}
    BY <1>1, <2>1, NothingMissing DEF WebInv, Remembered
  <2>3. ASSUME NEW p \in W!Paths,
               NEW now, now = W!Shown(W!Pulled(manifest))[p], NEW then, then = W!Shown(saved)[p]
        PROVE  \/ now = then
               \/ /\ W!BaseContent(saved[p], p) /\ saved[p].sum # saved[p].text
                  /\ now = [k |-> "file", text |-> Base[p].text, mode |-> saved[p].mode]
    <3>1. CASE saved[p].k # "file"
      BY <1>1, <2>3, <3>1, ShownCases
    <3>2. CASE saved[p].k = "file" /\ p \in StoredOf(saved)
      <4>1. /\ then = FileShown(saved[p].text, saved[p].mode)
            /\ now = FileShown(data[p], saved[p].mode)
        BY <1>1, <2>3, <3>2, ShownCases
      <4> QED
        BY <2>1, <3>2, <4>1
    <3>3. CASE saved[p].k = "file" /\ p \notin StoredOf(saved)
      <4>1. /\ then = FileShown(saved[p].text, saved[p].mode)
            /\ now = FileShown(Base[p].text, saved[p].mode)
            /\ W!BaseContent(saved[p], p) /\ saved[p].sum = Base[p].text
        BY <1>1, <2>3, <3>3, ShownCases
      <4>2. CASE saved[p].sum = saved[p].text
        BY <4>1, <4>2
      <4>3. CASE saved[p].sum # saved[p].text
        BY <4>1, <4>3 DEF FileShown
      <4> QED
        BY <4>2, <4>3
    <3> QED
      BY <3>1, <3>2, <3>3
  <2> QED
    BY <1>1, <2>2, <2>3 DEF W!SavedIsPulled
<1>2. WebInv => (tree = "browser" => SavedIsPulled)
  BY <1>1 DEF SavedIsPulled, W!SavedIsPulled
<1> QED
  BY <1>2, BrowserInv, PTL

(* What an unfinished save to the browser's storage leaves behind was      *)
(* written by some save, and what none of them changed is still there, or  *)
(* is what the root has under its sum.                                     *)
LEMMA BrowserKeepsItsOwn == Spec => [](tree = "browser" => NothingForeign)
<1>1. ASSUME WebInv, NEW p \in W!Paths \ W!Missing(manifest),
             NEW now, now = W!Shown(W!Pulled(manifest))[p], NEW then, then = W!Shown(saved)[p]
      PROVE  IF now.k = "file" /\ then.k = "file"
             THEN /\ now.mode = then.mode
                  /\ \/ \E t \in tried \cup {saved} : t[p].k = "file" /\ now.text = t[p].text
                     \/ now.text = W!Empty /\ \E t \in tried : p \notin W!Stored(W!ManifestOf(t))
                     \/ W!BaseContent(saved[p], p) /\ now.text = Base[p].text
             ELSE now = then
  <2>1. CASE saved[p].k # "file"
    BY <1>1, <2>1, ShownCases
  <2>2. CASE saved[p].k = "file" /\ p \in StoredOf(saved)
    <3>1. then = FileShown(saved[p].text, saved[p].mode) /\ now = FileShown(data[p], saved[p].mode)
      BY <1>1, <2>2, ShownCases
    <3>2. now.k = "file" /\ then.k = "file" /\ now.mode = then.mode /\ now.text = data[p]
      BY <3>1 DEF FileShown
    <3>3. W!Readable(p)
      BY <1>1, <2>2, NothingMissing DEF WebInv, Remembered
    <3>4. WrittenBy(p) \/ (data[p] = W!Empty /\ GivenUp(p))
      BY <1>1, <2>2, <3>3 DEF WebInv, Explained, ExplainedAt
    <3> QED
      BY <3>2, <3>4 DEF WrittenBy, GivenUp, StoredOf
  <2>3. CASE saved[p].k = "file" /\ p \notin StoredOf(saved)
    <3>1. /\ then = FileShown(saved[p].text, saved[p].mode)
          /\ now = FileShown(Base[p].text, saved[p].mode)
          /\ W!BaseContent(saved[p], p)
      BY <1>1, <2>3, ShownCases
    <3>2. now.k = "file" /\ then.k = "file" /\ now.mode = then.mode /\ now.text = Base[p].text
      BY <3>1 DEF FileShown
    <3> QED
      BY <3>1, <3>2
  <2> QED
    BY <2>1, <2>2, <2>3
<1>2. WebInv => (tree = "browser" => NothingForeign)
  BY <1>1 DEF NothingForeign, W!NothingForeign
<1> QED
  BY <1>2, BrowserInv, PTL

---------------------------------------------------------------------------
(* Paths of a directory: the same ones.                                    *)

(* Both trees have the same paths in the same order.                       *)
LEMMA SamePaths ==
  /\ D!Paths = W!Paths
  /\ \A S : D!First(S) = W!First(S)
  /\ \A p : D!Up(p) = W!Up(p)
BY DEF D!Paths, W!Paths, D!ToSet, W!ToSet, D!First, W!First, D!Up, W!Up, D!IsStrictPrefix,
       W!IsStrictPrefix, D!IsPrefix, W!IsPrefix

(* What leads to a path, and what is below it.                             *)
LEMMA DirPaths ==
  ASSUME NEW p \in D!Paths
  PROVE  /\ p \notin D!Up(p) /\ D!Up(p) \subseteq D!Paths
         /\ \A q \in D!Up(p) : D!Up(q) \subseteq D!Up(p)
         /\ p \notin D!Down(p) /\ D!Down(p) \subseteq D!Paths
         /\ \A q \in D!Paths : q \in D!Down(p) <=> p \in D!Up(q)
<1>1. /\ p \notin D!Up(p) /\ D!Up(p) \subseteq D!Paths
      /\ \A q \in D!Up(p) : D!Up(q) \subseteq D!Up(p)
  BY SamePaths, UpIrreflexive, UpTransitive
<1>2. \A q \in D!Paths : q \in D!Down(p) <=> p \in D!Up(q)
  BY DEF D!Down, D!Up
<1>3. D!Down(p) \subseteq D!Paths
  BY DEF D!Down
<1> QED
  BY <1>1, <1>2, <1>3

(* The place of the first of some paths.                                   *)
LEMMA PlaceOfFirst ==
  ASSUME NEW S \in SUBSET D!Paths, S # {}
  PROVE  \E i \in DOMAIN Walk :
           D!First(S) = Walk[i] /\ Walk[i] \in S /\ \A j \in 1..(i - 1) : Walk[j] \notin S
<1> DEFINE N == {i \in DOMAIN Walk : Walk[i] \in S}
<1>1. DOMAIN Walk = 1..Len(Walk) /\ Len(Walk) \in Nat
  BY PathAssumption
<1>2. N \subseteq Nat /\ N # {}
  BY <1>1 DEF D!Paths, D!ToSet
<1>3. PICK n \in N : \A m \in N : n <= m
  BY <1>2, LeastNumber
<1>4. \A j \in 1..(n - 1) : Walk[j] \notin S
  BY <1>1, <1>3
<1>5. \E i \in DOMAIN Walk : Walk[i] \in S /\ \A j \in 1..(i - 1) : Walk[j] \notin S
  BY <1>3, <1>4
<1> QED
  BY <1>5 DEF D!First

(* The first of some paths is one of them, and comes after the directories *)
(* it is in.                                                               *)
LEMMA FirstOfSome ==
  ASSUME NEW S \in SUBSET D!Paths, S # {}
  PROVE  /\ D!First(S) \in S
         /\ \A q \in D!Up(D!First(S)) : q \notin S
<1>1. PICK i \in DOMAIN Walk :
        D!First(S) = Walk[i] /\ Walk[i] \in S /\ \A j \in 1..(i - 1) : Walk[j] \notin S
  BY PlaceOfFirst
<1>2. DOMAIN Walk = 1..Len(Walk) /\ Len(Walk) \in Nat
  BY PathAssumption
<1>3. ASSUME NEW q \in D!Up(Walk[i])
      PROVE  q \notin S
  <2>1. PICK j \in DOMAIN Walk : q = Walk[j]
    BY <1>1, <1>3, DirPaths DEF D!Paths, D!ToSet
  <2>2. j < i
    BY <1>3, <2>1, PathAssumption
  <2> QED
    BY <1>1, <1>2, <2>1, <2>2
<1> QED
  BY <1>1, <1>3

(* The first name of a file comes before the others.                       *)
LEMMA FirstNameBefore ==
  ASSUME NEW S \in SUBSET D!Paths, S # {}, NEW N \in SUBSET D!Paths, D!First(S) \in N,
         D!First(N) # D!First(S)
  PROVE  D!First(N) \notin S
<1>1. PICK i \in DOMAIN Walk :
        D!First(S) = Walk[i] /\ Walk[i] \in S /\ \A j \in 1..(i - 1) : Walk[j] \notin S
  BY PlaceOfFirst
<1>2. PICK j \in DOMAIN Walk :
        D!First(N) = Walk[j] /\ Walk[j] \in N /\ \A k \in 1..(j - 1) : Walk[k] \notin N
  BY PlaceOfFirst
<1>3. DOMAIN Walk = 1..Len(Walk) /\ Len(Walk) \in Nat
  BY PathAssumption
<1>4. i \notin 1..(j - 1) /\ i # j
  BY <1>1, <1>2
<1>5. j \in 1..(i - 1)
  BY <1>3, <1>4
<1> QED
  BY <1>1, <1>2, <1>5

(* The last of some paths is one of them.                                  *)
LEMMA LastOfSome ==
  ASSUME NEW S \in SUBSET D!Paths, S # {}
  PROVE  D!LastOf(S) \in S
<1> DEFINE N == {Len(Walk) - i : i \in {j \in DOMAIN Walk : Walk[j] \in S}}
<1>1. DOMAIN Walk = 1..Len(Walk) /\ Len(Walk) \in Nat
  BY PathAssumption
<1>2. N \subseteq Nat /\ N # {}
  BY <1>1 DEF D!Paths, D!ToSet
<1>3. PICK n \in N : \A m \in N : n <= m
  BY <1>2, LeastNumber
<1>4. PICK i \in DOMAIN Walk : Walk[i] \in S /\ n = Len(Walk) - i
  BY <1>3
<1>5. ASSUME NEW j \in (i + 1)..Len(Walk), Walk[j] \in S
      PROVE  FALSE
  <2>1. j \in DOMAIN Walk /\ Len(Walk) - j < Len(Walk) - i
    BY <1>1, <1>4
  <2>2. Len(Walk) - j \in N
    BY <1>5, <2>1
  <2>3. n <= Len(Walk) - j
    BY <1>3, <2>2
  <2> QED
    BY <1>1, <1>4, <2>1, <2>3
<1>6. \E k \in DOMAIN Walk : Walk[k] \in S /\ \A j \in (k + 1)..Len(Walk) : Walk[j] \notin S
  BY <1>4, <1>5
<1> QED
  BY <1>6 DEF D!LastOf

---------------------------------------------------------------------------
(* The invariant of a host with a directory.                               *)

DTrees == {t \in [D!Paths -> D!Entries] : D!IsTree(t)}

DJobs == [at : {"look", "gone", "wrong", "open"}, tree : DTrees,
          rm : SUBSET D!Paths, mkdir : SUBSET D!Paths, put : SUBSET D!Paths]

(* What programs, saves and the directory hold are trees.                  *)
DirTyped ==
  /\ live \in DTrees /\ known \in DTrees /\ data \in DTrees /\ tried \subseteq DTrees
  /\ manifest \in DTrees \cup {D!Absent}
  /\ queue \in Seq(DTrees) /\ Len(queue) <= MaxSaves
  /\ job \in {D!Idle} \cup DJobs /\ failed \in BOOLEAN

(* What a save has before it, and how far it is with its subject.          *)
JobShaped ==
  job \in DJobs =>
    /\ job.tree \in tried
    /\ \A p \in job.rm : job.tree[p].k = "none" /\ known[p].k # "none"
    /\ \A p \in job.mkdir : job.tree[p].k = "dir"
    /\ \A p \in job.put : job.tree[p].k \in {"file", "link"}
    /\ job.at # "look" => job.rm = {} /\ job.mkdir = {} /\ job.put # {}
    /\ job.at \in {"gone", "wrong"} => data[D!Subject] = D!Nothing
    /\ job.at = "open" => /\ D!Wanted.k = "file" => D!Wanted.id = D!Subject
                          /\ data[D!Subject] = D!File(D!Empty, D!Subject)
                          /\ D!Names(data, D!Subject) = {D!Subject}

(* An entry of the directory is as a tree has it: its text, the way to its *)
(* target or the file that stands for the link, and its first name.        *)
LinkAt(t, p) == data[p] = D!Raw(p, t[p]) \/ (data[p].k = "file" /\ data[p].text = D!Marker(t[p].to))

NamedAt(t, p) ==
  data[p].k = "file" /\ data[t[p].id].k = "file" /\ data[p].id = data[t[p].id].id

MatchAt(t, p) ==
  /\ t[p].k = "none" => data[p] = D!Nothing
  /\ t[p].k = "dir" => data[p] = D!Dir
  /\ t[p].k = "link" => LinkAt(t, p)
  /\ t[p].k = "file" => NamedAt(t, p) /\ data[p].text = t[p].text

(* What a save has behind it.  A text is sure to be its own when no save   *)
(* failed or when all of them had the same one under the same first name.  *)
SureText(t, p) ==
  failed => \A u \in tried : u[p].k = "file" /\ u[p].id = p /\ u[p].text = t[p].text
SureNone(p) == failed => \A u \in tried : u[p].k = "none"

FileDone(t, p) == NamedAt(t, p) /\ (t[p].id = p /\ SureText(t, p) => data[p].text = t[p].text)

JobDone ==
  job \in DJobs =>
    LET t == job.tree
    IN  \A p \in D!Paths :
          /\ t[p].k = "none" /\ p \notin job.rm /\ SureNone(p) => data[p] = D!Nothing
          /\ t[p].k = "dir" /\ p \notin job.mkdir => data[p] = D!Dir
          /\ t[p].k = "link" /\ p \notin job.put => LinkAt(t, p)
          /\ t[p].k = "file" /\ p \notin job.put => FileDone(t, p) /\ t[p].id \notin job.put

(* The directory is what the program remembers of it: between saves that   *)
(* succeed, for what a save has not come to yet, and for what all saves    *)
(* leave as it was.                                                        *)
AsKnown(p) ==
  /\ known[p].k = "none" => data[p] = D!Nothing
  /\ known[p].k = "file" => data[p].k = "file" /\ data[p].text = known[p].text

Quiet(t, p) ==
  \/ t[p].k = "none" /\ known[p].k = "none"
  \/ t[p].k = "file" /\ t[p].id = p /\ known[p].k = "file" /\ t[p].text = known[p].text

Remembers ==
  /\ job \notin DJobs /\ ~failed => \A p \in D!Paths : AsKnown(p)
  /\ job \in DJobs /\ ~failed =>
       \A p \in job.put :
         known[p].k = "file" /\ data[p].k = "file" /\ ~(job.at = "open" /\ p = D!Subject)
           => data[p].text = known[p].text
  /\ \A p \in D!Paths : (\A t \in tried : Quiet(t, p)) => AsKnown(p)

(* What no save has changed is as it was.                                  *)
UntouchedKept ==
  \A p \in D!Paths :
    D!Untouched(p) => MatchAt(D!Saved, p) /\ D!Shown(known[p]) = D!Shown(D!Saved[p])

(* Everything comes from the last whole save or from one that was tried.   *)
ByTried(p) ==
  \/ \E t \in tried, q \in D!Sources(p) : D!StandsFor(p, data[p], t[q])
  \/ /\ data[p].k = "file" /\ data[p].text = D!Empty
     /\ \E t \in tried : t[p].k \in {"file", "link"}

Sourced ==
  /\ \A p \in D!Paths :
       data[p].k # "none" =>
         \/ ByTried(p)
         \/ D!StandsFor(p, data[p], D!Saved[p]) /\ D!StandsFor(p, data[p], known[p])
  /\ job \in DJobs =>
       \A p \in D!Paths \ (job.rm \cup job.mkdir \cup job.put) : data[p].k # "none" => ByTried(p)

DirInv ==
  DirTyped /\ JobShaped /\ JobDone /\ Remembers /\ UntouchedKept /\ Sourced

---------------------------------------------------------------------------
(* Trees of files with several names.                                      *)

(* What an entry can be.                                                   *)
LEMMA DirEntryCases ==
  ASSUME NEW e \in D!Entries
  PROVE  \/ e.k = "none" /\ e = D!Nothing
         \/ e.k = "dir" /\ e = D!Dir
         \/ e.k = "link" /\ e.to \in Targets /\ e = D!Sym(e.to)
         \/ /\ e.k = "file" /\ e.text \in D!Contents /\ e.id \in D!Paths
            /\ e = D!File(e.text, e.id)
BY DEF D!Entries, D!Nothing, D!Dir, D!Sym, D!File

(* And the other way round.                                                *)
LEMMA DirEntriesAre ==
  /\ D!Nothing \in D!Entries /\ D!Nothing.k = "none"
  /\ D!Dir \in D!Entries /\ D!Dir.k = "dir"
  /\ \A to \in Targets : D!Sym(to) \in D!Entries /\ D!Sym(to).k = "link" /\ D!Sym(to).to = to
  /\ \A text \in D!Contents, id \in D!Paths : D!File(text, id) \in D!Entries
  /\ \A text, id : /\ D!File(text, id).k = "file" /\ D!File(text, id).text = text
                   /\ D!File(text, id).id = id
<1>1. /\ D!Nothing \in D!Entries /\ D!Nothing.k = "none"
      /\ D!Dir \in D!Entries /\ D!Dir.k = "dir"
  BY DEF D!Entries, D!Nothing, D!Dir
<1>2. \A to \in Targets : D!Sym(to) \in D!Entries /\ D!Sym(to).k = "link" /\ D!Sym(to).to = to
  BY DEF D!Entries, D!Sym
<1>3. \A text \in D!Contents, id \in D!Paths : D!File(text, id) \in D!Entries
  BY DEF D!Entries
<1>4. \A text, id : /\ D!File(text, id).k = "file" /\ D!File(text, id).text = text
                     /\ D!File(text, id).id = id
  BY DEF D!File
<1> QED
  BY <1>1, <1>2, <1>3, <1>4

(* Entries in which the names of one file are one file, whatever its id.   *)
Numbered(t) ==
  /\ t \in [D!Paths -> D!Entries]
  /\ \A p \in D!Paths : t[p].k # "none" => \A q \in D!Up(p) : t[q].k = "dir"
  /\ \A p, q \in D!Paths : t[p].k = "file" /\ t[q].k = "file" /\ t[p].id = t[q].id => t[p] = t[q]

(* The first name of a file is one of its names.                           *)
LEMMA FirstName ==
  ASSUME NEW t, NEW p \in D!Paths, t[p].k = "file"
  PROVE  /\ D!Names(t, p) \subseteq D!Paths /\ p \in D!Names(t, p)
         /\ D!First(D!Names(t, p)) \in D!Names(t, p)
<1>1. D!Names(t, p) \subseteq D!Paths /\ p \in D!Names(t, p)
  BY DEF D!Names
<1> QED
  BY <1>1, FirstOfSome

(* What a tree is.                                                         *)
LEMMA DirTreeFacts ==
  ASSUME NEW t \in DTrees, NEW p \in D!Paths
  PROVE  /\ t[p] \in D!Entries
         /\ t[p].k # "none" => \A q \in D!Up(p) : t[q].k = "dir"
         /\ t[p].k = "file" =>
              /\ t[p].id = D!First(D!Names(t, p)) /\ t[p].id \in D!Names(t, p)
              /\ t[p].id \in D!Paths /\ t[t[p].id] = t[p]
         /\ \A q \in D!Paths : t[p].k = "file" /\ t[q].k = "file" /\ t[p].id = t[q].id
                                => t[p] = t[q]
<1>1. /\ D!IsTree(t) /\ t[p] \in D!Entries
      /\ t[p].k # "none" => \A q \in D!Up(p) : t[q].k = "dir"
  <2>1. D!IsTree(t) /\ t[p] \in D!Entries
    BY DEF DTrees
  <2>2. t[p].k # "none" => t[p] # D!Nothing
    BY DEF D!Nothing
  <2>3. t[p] # D!Nothing => D!HasDir(t, p)
    BY <2>1 DEF D!IsTree
  <2> QED
    BY <2>1, <2>2, <2>3 DEF D!HasDir
<1>2. ASSUME NEW q \in D!Paths, t[p].k = "file", t[q].k = "file", t[p].id = t[q].id
      PROVE  t[p] = t[q]
  <2>1. q \in D!Names(t, p)
    BY <1>2 DEF D!Names
  <2> QED
    BY <1>1, <1>2, <2>1 DEF D!IsTree
<1>3. ASSUME t[p].k = "file"
      PROVE  t[p].id = D!First(D!Names(t, p)) /\ t[p].id \in D!Names(t, p)
  <2>1. t[p] = [t[p] EXCEPT !.id = D!First(D!Names(t, p))]
    <3>1. D!Renumbered(t)[p] = [t[p] EXCEPT !.id = D!First(D!Names(t, p))]
      BY <1>3 DEF D!Renumbered
    <3>2. D!Renumbered(t) = t
      BY <1>1 DEF D!IsTree
    <3> QED
      BY <3>1, <3>2
  <2>2. t[p] = D!File(t[p].text, t[p].id)
    BY <1>1, <1>3, DirEntryCases
  <2> PICK f : f = D!First(D!Names(t, p))
    OBVIOUS
  <2>3. [t[p] EXCEPT !.id = f].id = f
    BY <2>2 DEF D!File
  <2> QED
    BY <1>3, <2>1, <2>3, FirstName
<1>4. ASSUME t[p].k = "file"
      PROVE  t[p].id \in D!Paths /\ t[t[p].id] = t[p]
  BY <1>1, <1>3, <1>4, FirstName DEF D!IsTree
<1> QED
  BY <1>1, <1>2, <1>3, <1>4

(* The names that are the names of one file.                               *)
LEMMA SameNames ==
  ASSUME NEW t, NEW p \in D!Paths, NEW q \in D!Paths, t[p].k = "file", t[q].k = "file",
         D!First(D!Names(t, p)) = D!First(D!Names(t, q))
  PROVE  t[p].id = t[q].id
<1>1. D!First(D!Names(t, p)) \in D!Names(t, p)
  BY FirstName
<1>2. D!First(D!Names(t, q)) \in D!Names(t, q)
  BY FirstName
<1> QED
  BY <1>1, <1>2 DEF D!Names

(* After numbering by first names there is a tree with the same entries    *)
(* and the same names (pull).                                              *)
LEMMA RenumberedIsTree ==
  ASSUME NEW t, Numbered(t)
  PROVE  LET r == D!Renumbered(t)
         IN  /\ r \in DTrees
             /\ \A p \in D!Paths :
                  /\ t[p].k # "file" => r[p] = t[p]
                  /\ t[p].k = "file" => r[p] = D!File(t[p].text, D!First(D!Names(t, p)))
                  /\ r[p].k = t[p].k /\ D!Shown(r[p]) = D!Shown(t[p])
                  /\ \A q \in D!Paths : t[p].k = "file" /\ t[q].k = "file"
                                          => (r[p].id = r[q].id <=> t[p].id = t[q].id)
<1> PICK r : r = D!Renumbered(t)
  OBVIOUS
<1>1. r = [p \in D!Paths |-> r[p]]
  BY DEF D!Renumbered
<1>2. ASSUME NEW p \in D!Paths
      PROVE  t[p] \in D!Entries
  BY DEF Numbered
<1>3. ASSUME NEW p \in D!Paths, t[p].k # "file"
      PROVE  r[p] = t[p]
  BY <1>3 DEF D!Renumbered
<1>4. ASSUME NEW p \in D!Paths, t[p].k = "file"
      PROVE  r[p] = D!File(t[p].text, D!First(D!Names(t, p)))
  <2> PICK f : f = D!First(D!Names(t, p))
    OBVIOUS
  <2>1. r[p] = [t[p] EXCEPT !.id = f]
    BY <1>4 DEF D!Renumbered
  <2>2. t[p] = D!File(t[p].text, t[p].id)
    BY <1>2, <1>4, DirEntryCases
  <2>3. [t[p] EXCEPT !.id = f] = D!File(t[p].text, f)
    BY <2>2 DEF D!File
  <2> QED
    BY <2>1, <2>3
<1>5. ASSUME NEW p \in D!Paths
      PROVE  r[p].k = t[p].k /\ (t[p].k = "file" => r[p].text = t[p].text
                                                     /\ r[p].id = D!First(D!Names(t, p)))
  BY <1>3, <1>4, DirEntriesAre
<1>6. ASSUME NEW p \in D!Paths
      PROVE  D!Shown(r[p]) = D!Shown(t[p])
  BY <1>3, <1>5 DEF D!Shown
<1>7. ASSUME NEW p \in D!Paths, NEW q \in D!Paths, t[p].k = "file", t[q].k = "file"
      PROVE  r[p].id = r[q].id <=> t[p].id = t[q].id
  <2>1. t[p].id = t[q].id => D!Names(t, p) = D!Names(t, q)
    BY DEF D!Names
  <2> QED
    BY <1>5, <1>7, <2>1, SameNames
<1>8. ASSUME NEW p \in D!Paths, t[p].k = "file"
      PROVE  D!Names(r, p) = D!Names(t, p)
  BY <1>5, <1>7, <1>8 DEF D!Names
<1>9. r \in [D!Paths -> D!Entries]
  <2>1. ASSUME NEW p \in D!Paths
        PROVE  r[p] \in D!Entries
    <3>1. CASE t[p].k = "file"
      <4>1. t[p].text \in D!Contents /\ D!First(D!Names(t, p)) \in D!Paths
        BY <1>2, <3>1, DirEntryCases, FirstName
      <4> QED
        BY <1>4, <3>1, <4>1, DirEntriesAre
    <3>2. CASE t[p].k # "file"
      BY <1>2, <1>3, <3>2
    <3> QED
      BY <3>1, <3>2
  <2> QED
    BY <1>1, <2>1
<1>10. \A p \in D!Paths : r[p] # D!Nothing => D!HasDir(r, p)
  <2> SUFFICES ASSUME NEW p \in D!Paths, r[p] # D!Nothing, NEW q \in D!Up(p)
               PROVE  r[q].k = "dir"
    BY DEF D!HasDir
  <2>1. q \in D!Paths
    BY DirPaths
  <2>2. t[p].k # "none"
    BY <1>2, <1>3, DirEntryCases
  <2> QED
    BY <1>5, <2>1, <2>2 DEF Numbered
<1>11. D!Renumbered(r) = r
  <2> PICK rr : rr = D!Renumbered(r)
    OBVIOUS
  <2>1. rr = [p \in D!Paths |-> rr[p]]
    BY DEF D!Renumbered
  <2>2. ASSUME NEW p \in D!Paths
        PROVE  rr[p] = r[p]
    <3>1. CASE t[p].k # "file"
      BY <1>5, <3>1 DEF D!Renumbered
    <3>2. CASE t[p].k = "file"
      <4> PICK f : f = D!First(D!Names(t, p))
        OBVIOUS
      <4>1. rr[p] = [r[p] EXCEPT !.id = f]
        BY <1>5, <1>8, <3>2 DEF D!Renumbered
      <4>2. r[p] = D!File(t[p].text, f)
        BY <1>4, <3>2
      <4>3. [r[p] EXCEPT !.id = f] = D!File(t[p].text, f)
        BY <4>2 DEF D!File
      <4> QED
        BY <4>1, <4>2, <4>3
    <3> QED
      BY <3>1, <3>2
  <2> QED
    BY <1>1, <2>1, <2>2
<1>12. ASSUME NEW p \in D!Paths, NEW q \in D!Paths, r[p].k = "file", q \in D!Names(r, p)
       PROVE  r[p] = r[q]
  <2>3. r[q].k = "file" /\ r[q].id = r[p].id
    BY <1>12 DEF D!Names
  <2>4. t[p].k = "file" /\ t[q].k = "file"
    BY <1>5, <1>12, <2>3
  <2>1. t[p].k = "file" /\ t[q].k = "file" /\ t[p].id = t[q].id
    BY <1>7, <2>3, <2>4
  <2>2. t[p] = t[q] /\ D!Names(t, p) = D!Names(t, q)
    BY <2>1 DEF Numbered, D!Names
  <2> QED
    BY <1>4, <2>1, <2>2
<1>13. r \in DTrees
  BY <1>9, <1>10, <1>11, <1>12 DEF DTrees, D!IsTree
<1> QED
  BY <1>3, <1>4, <1>5, <1>6, <1>7, <1>13

(* The same for one entry.                                                 *)
LEMMA RenumberedAt ==
  ASSUME NEW t, Numbered(t), NEW r, r = D!Renumbered(t), NEW p \in D!Paths
  PROVE  /\ t[p].k # "file" => r[p] = t[p]
         /\ t[p].k = "file" => r[p] = D!File(t[p].text, D!First(D!Names(t, p)))
         /\ r[p].k = t[p].k /\ D!Shown(r[p]) = D!Shown(t[p])
         /\ \A q \in D!Paths : t[p].k = "file" /\ t[q].k = "file"
                                 => (r[p].id = r[q].id <=> t[p].id = t[q].id)
BY RenumberedIsTree

(* A tree is a tree with numbered files.                                   *)
LEMMA TreeIsNumbered ==
  ASSUME NEW t \in DTrees
  PROVE  Numbered(t)
<1>1. t \in [D!Paths -> D!Entries]
  BY DEF DTrees
<1> QED
  BY <1>1, DirTreeFacts DEF Numbered

(* The names of one file have one entry.                                   *)
LEMMA NamesHaveOneEntry ==
  ASSUME NEW t \in DTrees, NEW p \in D!Paths, NEW q \in D!Names(t, p), t[p].k = "file"
  PROVE  q \in D!Paths /\ t[q] = t[p]
<1>1. q \in D!Paths /\ t[q].k = "file" /\ t[q].id = t[p].id
  BY DEF D!Names
<1> QED
  BY <1>1, DirTreeFacts

(* What is not a directory has nothing in it.                              *)
LEMMA NothingIn ==
  ASSUME NEW t, Numbered(t), NEW p \in D!Paths, t[p].k # "dir", NEW q \in D!Down(p)
  PROVE  t[q] = D!Nothing
<1>1. q \in D!Paths /\ p \in D!Up(q)
  BY DirPaths
<1>2. t[q].k = "none" /\ t[q] \in D!Entries
  BY <1>1 DEF Numbered
<1> QED
  BY <1>2, DirEntryCases

(* An entry is put into a directory.                                       *)
LEMMA PutIsNumbered ==
  ASSUME NEW t, Numbered(t), NEW s \in D!Paths, NEW e \in D!Entries,
         e.k # "none" => \A q \in D!Up(s) : t[q].k = "dir",
         e.k = "dir" \/ \A q \in D!Down(s) : t[q].k = "none",
         e.k = "file" => \/ \E f \in D!Paths : t[f] = e
                         \/ \A q \in D!Paths \ {s} : t[q].k = "file" => t[q].id # e.id
  PROVE  Numbered([t EXCEPT ![s] = e])
<1> PICK g : g = [t EXCEPT ![s] = e]
  OBVIOUS
<1>1. t \in [D!Paths -> D!Entries]
  BY DEF Numbered
<1>2. g \in [D!Paths -> D!Entries] /\ g[s] = e /\ \A q \in D!Paths \ {s} : g[q] = t[q]
  BY <1>1
<1>3. ASSUME NEW p \in D!Paths, g[p].k # "none", NEW q \in D!Up(p)
      PROVE  g[q].k = "dir"
  <2>1. q \in D!Paths /\ p \notin D!Up(p) /\ (q = s => p \in D!Down(s))
    BY DirPaths
  <2>2. CASE p = s
    BY <1>2, <1>3, <2>1, <2>2
  <2>3. CASE p # s
    <3>1. t[p].k # "none" /\ t[q].k = "dir"
      BY <1>2, <1>3, <2>3 DEF Numbered
    <3> QED
      BY <1>2, <2>1, <3>1
  <2> QED
    BY <2>2, <2>3
<1>4. ASSUME NEW p \in D!Paths, NEW q \in D!Paths, g[p].k = "file", g[q].k = "file",
             g[p].id = g[q].id
      PROVE  g[p] = g[q]
  <2>1. ASSUME NEW a \in D!Paths \ {s}, t[a].k = "file", e.k = "file", t[a].id = e.id
        PROVE  t[a] = e
    <3>1. PICK f \in D!Paths : t[f] = e
      BY <2>1
    <3> QED
      BY <2>1, <3>1 DEF Numbered
  <2>2. CASE p = s \/ q = s
    BY <1>2, <1>4, <2>1, <2>2
  <2>3. CASE p # s /\ q # s
    BY <1>2, <1>4, <2>3 DEF Numbered
  <2> QED
    BY <2>2, <2>3
<1>5. Numbered(g)
  BY <1>2, <1>3, <1>4 DEF Numbered
<1> QED
  BY <1>5

(* Two directories show the same but for some paths, with the same names.  *)
Alike(h, g, S) ==
  \A p \in D!Paths \ S :
    /\ g[p].k = h[p].k /\ D!Shown(g[p]) = D!Shown(h[p])
    /\ \A q \in D!Paths \ S :
         h[p].k = "file" /\ h[q].k = "file" => (g[p].id = g[q].id <=> h[p].id = h[q].id)

(* Numbering changes nothing that can be told.                             *)
LEMMA RenumberedAlike ==
  ASSUME NEW h, NEW g, NEW S \in SUBSET D!Paths, Numbered(g),
         \A p \in D!Paths \ S : g[p] = h[p]
  PROVE  D!Renumbered(g) \in DTrees /\ Alike(h, D!Renumbered(g), S)
<1> PICK r : r = D!Renumbered(g)
  OBVIOUS
<1>1. r \in DTrees
  BY RenumberedIsTree
<1>2. ASSUME NEW p \in D!Paths \ S
      PROVE  r[p].k = h[p].k /\ D!Shown(r[p]) = D!Shown(h[p])
  BY RenumberedIsTree
<1>3. ASSUME NEW p \in D!Paths \ S, NEW q \in D!Paths \ S, h[p].k = "file", h[q].k = "file"
      PROVE  r[p].id = r[q].id <=> h[p].id = h[q].id
  <2>1. g[p] = h[p] /\ g[q] = h[q]
    OBVIOUS
  <2> QED
    BY <1>3, <2>1, RenumberedIsTree
<1>4. Alike(h, r, S)
  BY <1>2, <1>3 DEF Alike
<1> QED
  BY <1>1, <1>4

(* What is removed, with all below it.                                     *)
LEMMA CutFacts ==
  ASSUME NEW h \in DTrees, NEW s \in D!Paths
  PROVE  /\ D!Cut(h, s) \in DTrees /\ Alike(h, D!Cut(h, s), {s} \cup D!Down(s))
         /\ \A q \in {s} \cup D!Down(s) : D!Cut(h, s)[q] = D!Nothing
<1> PICK g : g = [q \in D!Paths |-> IF q = s \/ q \in D!Down(s) THEN D!Nothing ELSE h[q]]
  OBVIOUS
<1> PICK S : S = {s} \cup D!Down(s)
  OBVIOUS
<1>1. S \in SUBSET D!Paths /\ g \in [D!Paths -> D!Entries]
  <2>1. h \in [D!Paths -> D!Entries]
    BY DEF DTrees
  <2> QED
    BY <2>1, DirPaths, DirEntriesAre
<1>2. \A q \in D!Paths : q \in S => g[q] = D!Nothing
  OBVIOUS
<1>3. \A q \in D!Paths \ S : g[q] = h[q]
  OBVIOUS
<1>4. ASSUME NEW p \in D!Paths, g[p].k # "none", NEW q \in D!Up(p)
      PROVE  g[q].k = "dir"
  <2>1. p \notin S /\ g[p] = h[p]
    BY <1>2, <1>3, <1>4, DirEntriesAre
  <2>2. q \in D!Paths /\ h[q].k = "dir"
    BY <1>4, <2>1, DirTreeFacts, DirPaths
  <2>3. q \notin S
    <3>1. CASE q = s
      BY <2>1, <3>1, DirPaths
    <3>2. CASE q \in D!Down(s)
      <4>1. s \in D!Up(q) /\ D!Up(q) \subseteq D!Up(p)
        BY <3>2, <2>2, DirPaths
      <4> QED
        BY <2>1, <4>1, DirPaths
    <3> QED
      BY <3>1, <3>2
  <2> QED
    BY <1>3, <2>2, <2>3
<1>5. ASSUME NEW p \in D!Paths, NEW q \in D!Paths, g[p].k = "file", g[q].k = "file",
             g[p].id = g[q].id
      PROVE  g[p] = g[q]
  <2>1. p \notin S /\ q \notin S
    BY <1>2, <1>5, DirEntriesAre
  <2>2. g[p] = h[p] /\ g[q] = h[q]
    BY <1>3, <2>1
  <2> QED
    BY <1>5, <2>2, DirTreeFacts
<1>6. Numbered(g)
  BY <1>1, <1>4, <1>5 DEF Numbered
<1> PICK r : r = D!Cut(h, s)
  OBVIOUS
<1>7. r = D!Renumbered(g)
  BY DEF D!Cut
<1>8. r \in DTrees /\ Alike(h, r, S)
  BY <1>1, <1>3, <1>6, <1>7, RenumberedAlike
<1>9. \A q \in S : r[q] = D!Nothing
  BY <1>1, <1>2, <1>6, <1>7, RenumberedIsTree, DirEntriesAre
<1> QED
  BY <1>8, <1>9

(* A new entry, where there is none or a file with no other name.          *)
LEMMA NewEntry ==
  ASSUME NEW h \in DTrees, NEW s \in D!Paths, NEW e \in D!Entries,
         \A q \in D!Up(s) : h[q].k = "dir",
         h[s].k = "dir" => e.k = "dir",
         h[s].k = "file" => D!Names(h, s) = {s},
         e.k = "file" => e.id = s,
         NEW g \in [D!Paths -> D!Entries], g[s] = e, \A q \in D!Paths \ {s} : g[q] = h[q]
  PROVE  /\ g \in DTrees /\ Alike(h, g, {s}) /\ g[s] = e
         /\ e.k = "file" => D!Names(g, s) = {s}
<1>1. h \in [D!Paths -> D!Entries] /\ Numbered(h)
  BY TreeIsNumbered DEF DTrees
<1>2. g \in [D!Paths -> D!Entries] /\ g[s] = e /\ \A q \in D!Paths \ {s} : g[q] = h[q]
  OBVIOUS
<1>3. ASSUME NEW q \in D!Paths \ {s}, h[q].k = "file"
      PROVE  h[q].id # s
  <2>1. SUFFICES ASSUME h[q].id = s
                 PROVE  FALSE
    OBVIOUS
  <2>2. h[s] = h[q]
    BY <1>3, <2>1, DirTreeFacts
  <2>3. q \in D!Names(h, s)
    BY <1>3, <2>2 DEF D!Names
  <2> QED
    BY <1>3, <2>2, <2>3
<1>4. e.k = "dir" \/ \A q \in D!Down(s) : h[q].k = "none"
  BY <1>1, NothingIn, DirEntriesAre
<1>5. Numbered(g)
  <2>3. e.k = "file" => \A q \in D!Paths \ {s} : h[q].k = "file" => h[q].id # e.id
    BY <1>3
  <2>4. e.k # "none" => \A q \in D!Up(s) : h[q].k = "dir"
    OBVIOUS
  <2>1. Numbered([h EXCEPT ![s] = e])
    BY <1>1, <1>4, <2>3, <2>4, PutIsNumbered
  <2>2. g = [h EXCEPT ![s] = e]
    BY <1>1, <1>2
  <2> QED
    BY <2>1, <2>2
<1>6. {s} \in SUBSET D!Paths
  OBVIOUS
<1>7. \A p \in D!Paths \ {s} : g[p] = h[p]
  BY <1>2
<1>r. PICK r : r = D!Renumbered(g)
  OBVIOUS
<1>8. r \in DTrees /\ Alike(h, r, {s})
  BY <1>r, <1>5, <1>6, <1>7, RenumberedAlike
<1>9. ASSUME NEW p \in D!Paths
      PROVE  r[p] = g[p]
  <2>1. CASE g[p].k # "file"
    BY <1>5, <2>1, <1>r, RenumberedAt
  <2>2. CASE g[p].k = "file"
    <3>1. r[p] = D!File(g[p].text, D!First(D!Names(g, p)))
      BY <1>5, <2>2, <1>r, RenumberedAt
    <3>2. g[p] = D!File(g[p].text, g[p].id)
      BY <1>2, <2>2, DirEntryCases
    <3>3. CASE p = s
      <4>1. D!Names(g, s) \subseteq {s}
        BY <1>2, <1>3, <2>2, <3>3 DEF D!Names
      <4>2. D!First(D!Names(g, s)) = s
        BY <2>2, <3>3, <4>1, FirstName
      <4> QED
        BY <1>2, <2>2, <3>1, <3>2, <3>3, <4>2
    <3>4. CASE p # s
      <4>1. h[p].k = "file" /\ h[p] = g[p] /\ h[p].id # s
        BY <1>2, <1>3, <2>2, <3>4
      <4>2. s \notin D!Names(h, p)
        <5>1. SUFFICES ASSUME s \in D!Names(h, p)
                       PROVE  FALSE
          OBVIOUS
        <5>2. h[s].k = "file" /\ h[s] = h[p]
          BY <4>1, <5>1, NamesHaveOneEntry
        <5>3. p \in D!Names(h, s)
          BY <4>1, <5>2 DEF D!Names
        <5> QED
          BY <3>4, <5>2, <5>3
      <4>3. s \notin D!Names(g, p)
        BY <1>2, <4>1 DEF D!Names
      <4>4. D!Names(g, p) = D!Names(h, p)
        BY <1>2, <4>1, <4>2, <4>3 DEF D!Names
      <4>5. h[p].id = D!First(D!Names(h, p))
        BY <4>1, DirTreeFacts
      <4> QED
        BY <3>1, <3>2, <4>1, <4>4, <4>5
    <3> QED
      BY <3>3, <3>4
  <2> QED
    BY <2>1, <2>2
<1>10. r = g
  <2>1. r \in [D!Paths -> D!Entries]
    BY <1>8 DEF DTrees
  <2> QED
    BY <1>2, <1>9, <2>1
<1>11. e.k = "file" => D!Names(g, s) = {s}
  BY <1>2, <1>3 DEF D!Names
<1> QED
  BY <1>2, <1>8, <1>10, <1>11

(* One more name for a file (ln).                                          *)
LEMMA JoinedFacts ==
  ASSUME NEW h \in DTrees, NEW s \in D!Paths, NEW f \in D!Paths,
         \A q \in D!Up(s) : h[q].k = "dir",
         h[s].k # "dir", h[f].k = "file", f # s,
         NEW g \in [D!Paths -> D!Entries], g[s] = h[f], \A q \in D!Paths \ {s} : g[q] = h[q],
         NEW r, r = D!Renumbered(g)
  PROVE  /\ r \in DTrees /\ Alike(h, r, {s})
         /\ r[s].k = "file" /\ r[s].text = h[f].text
         /\ r[f].k = "file" /\ r[f].id = r[s].id
<1>1. h \in [D!Paths -> D!Entries] /\ Numbered(h)
  BY TreeIsNumbered DEF DTrees
<1>2. h[f] \in D!Entries /\ \A q \in D!Down(s) : h[q].k = "none"
  BY <1>1, NothingIn, DirEntriesAre
<1>e. PICK e : e = h[f]
  OBVIOUS
<1>3. Numbered(g)
  <2>1. Numbered([h EXCEPT ![s] = e])
    BY <1>e, <1>1, <1>2, PutIsNumbered
  <2>2. g = [h EXCEPT ![s] = e]
    BY <1>e, <1>1
  <2> QED
    BY <2>1, <2>2
<1>4. {s} \in SUBSET D!Paths
  OBVIOUS
<1>5. r \in DTrees /\ Alike(h, r, {s})
  BY <1>3, <1>4, RenumberedAlike
<1>6. g[s].k = "file" /\ g[f].k = "file" /\ g[s].text = h[f].text /\ g[s].id = g[f].id
  OBVIOUS
<1>7. r[s].k = "file" /\ r[f].k = "file" /\ r[s].id = r[f].id
  BY <1>3, <1>6, RenumberedAt
<1>8. r[s].text = h[f].text
  <2>1. r[s] = D!File(g[s].text, D!First(D!Names(g, s)))
    BY <1>3, <1>6, RenumberedAt
  <2> QED
    BY <1>6, <2>1, DirEntriesAre
<1> QED
  BY <1>5, <1>7, <1>8

(* Programs change trees to trees (every disjunct of Next on live).        *)
LEMMA LiveStaysTree ==
  ASSUME live \in DTrees, NEW p \in D!Paths,
         \/ \E text \in Texts : D!WriteFile(p, text)
         \/ \E to \in Targets : D!Symlink(p, to)
         \/ D!MakeDir(p) \/ D!Unlink(p)
         \/ \E q \in D!Paths : D!Link(p, q) \/ D!RenameFile(p, q)
  PROVE  live' \in DTrees
<1>1. live \in [D!Paths -> D!Entries] /\ Numbered(live)
  BY TreeIsNumbered DEF DTrees
<1>2. ASSUME NEW g, Numbered(g), live' = D!Renumbered(g)
      PROVE  live' \in DTrees
  BY <1>2, RenumberedIsTree
<1>3. ASSUME NEW text \in Texts, D!WriteFile(p, text)
      PROVE  live' \in DTrees
  <2>1. text \in D!Contents
    BY DEF D!Contents
  <2>2. ASSUME live[p] = D!Nothing, D!Change([live EXCEPT ![p] = D!File(text, p)])
        PROVE  live' \in DTrees
    <3>1. live[p].k = "none" /\ \A q \in D!Up(p) : live[q].k = "dir"
      BY <1>3, <2>2, DirEntriesAre DEF D!WriteFile, D!HasDir
    <3>e. PICK e : e = D!File(text, p)
      OBVIOUS
    <3>2. e \in D!Entries /\ e.k = "file" /\ e.id = p
      BY <3>e, <2>1, DirEntriesAre
    <3>g. PICK g : g = [live EXCEPT ![p] = e]
      OBVIOUS
    <3>3. g \in [D!Paths -> D!Entries] /\ g[p] = e /\ \A q \in D!Paths \ {p} : g[q] = live[q]
      BY <3>g, <3>2, <1>1
    <3>4. live[p].k # "dir" /\ live[p].k # "file"
      BY <3>1
    <3>5. g \in DTrees
      BY <3>1, <3>2, <3>3, <3>4, NewEntry
    <3>6. live' = D!Renumbered(g)
      BY <3>e, <3>g, <2>2 DEF D!Change
    <3> QED
      BY <1>2, <3>5, <3>6, TreeIsNumbered
  <2>3. ASSUME live[p].k = "file",
               D!Change([q \in D!Paths |-> IF q \in D!Names(live, p)
                                           THEN [live[q] EXCEPT !.text = text] ELSE live[q]])
        PROVE  live' \in DTrees
    <3> PICK g : g = [q \in D!Paths |-> IF q \in D!Names(live, p)
                                        THEN [live[q] EXCEPT !.text = text] ELSE live[q]]
      OBVIOUS
    <3>1. ASSUME NEW q \in D!Paths, q \in D!Names(live, p)
          PROVE  g[q] = D!File(text, live[p].id) /\ live[q].k = "file"
      <4>1. g[q] = [live[q] EXCEPT !.text = text]
        BY <3>1
      <4>2. live[q] = D!File(live[q].text, live[q].id) /\ live[q] = live[p]
        <5>1. live[q] = live[p]
          BY <2>3, <3>1, NamesHaveOneEntry
        <5>2. live[q] \in D!Entries
          BY <1>1
        <5> QED
          BY <2>3, <5>1, <5>2, DirEntryCases
      <4>3. [live[q] EXCEPT !.text = text] = D!File(text, live[q].id)
        BY <4>2 DEF D!File
      <4> QED
        BY <2>3, <4>1, <4>2, <4>3
    <3>2. ASSUME NEW q \in D!Paths, q \notin D!Names(live, p)
          PROVE  g[q] = live[q]
      BY <3>2
    <3>3. ASSUME NEW q \in D!Paths
          PROVE  /\ g[q].k = live[q].k /\ g[q] \in D!Entries
                 /\ g[q].k = "file" => g[q].id = live[q].id
      <4>1. CASE q \in D!Names(live, p)
        <5>1. live[p].id \in D!Paths /\ live[q].id = live[p].id
          BY <2>3, <4>1, DirTreeFacts DEF D!Names
        <5> QED
          BY <2>1, <3>1, <4>1, <5>1, DirEntriesAre
      <4>2. CASE q \notin D!Names(live, p)
        BY <1>1, <3>2, <4>2
      <4> QED
        BY <4>1, <4>2
    <3>4. ASSUME NEW a \in D!Paths, NEW b \in D!Paths, g[a].k = "file", g[b].k = "file",
                 g[a].id = g[b].id
          PROVE  g[a] = g[b]
      <4>1. live[a].k = "file" /\ live[b].k = "file" /\ live[a].id = live[b].id
        BY <3>3, <3>4
      <4>2. a \in D!Names(live, p) <=> b \in D!Names(live, p)
        BY <4>1 DEF D!Names
      <4>3. live[a] = live[b]
        BY <4>1, DirTreeFacts
      <4> QED
        BY <3>1, <3>2, <4>2, <4>3
    <3>5. g = [q \in D!Paths |-> g[q]]
      OBVIOUS
    <3>6. ASSUME NEW a \in D!Paths, g[a].k # "none", NEW b \in D!Up(a)
          PROVE  g[b].k = "dir"
      <4>1. b \in D!Paths /\ live[a].k # "none"
        BY <3>3, <3>6, DirPaths
      <4>2. live[b].k = "dir"
        BY <4>1, DirTreeFacts
      <4> QED
        BY <3>3, <4>1, <4>2
    <3>7. Numbered(g)
      BY <3>3, <3>4, <3>5, <3>6 DEF Numbered
    <3> QED
      BY <1>2, <2>3, <3>7 DEF D!Change
  <2> QED
    BY <1>3, <2>2, <2>3 DEF D!WriteFile
<1>4. ASSUME NEW to \in Targets, D!Symlink(p, to)
      PROVE  live' \in DTrees
  <2> PICK e : e = D!Sym(to)
    OBVIOUS
  <2>1. e \in D!Entries /\ e.k = "link"
    BY DirEntriesAre
  <2>2. live[p].k # "dir" /\ \A q \in D!Up(p) : live[q].k = "dir"
    BY <1>4 DEF D!Symlink, D!HasDir
  <2>3. \A q \in D!Down(p) : live[q].k = "none"
    BY <1>1, <2>2, NothingIn, DirEntriesAre
  <2>4. Numbered([live EXCEPT ![p] = e])
    BY <1>1, <2>1, <2>2, <2>3, PutIsNumbered
  <2> QED
    BY <1>2, <1>4, <2>4 DEF D!Symlink, D!Change
<1>5. ASSUME D!MakeDir(p)
      PROVE  live' \in DTrees
  <2> PICK e : e = D!Dir
    OBVIOUS
  <2>1. e \in D!Entries /\ e.k = "dir"
    BY DirEntriesAre
  <2>2. \A q \in D!Up(p) : live[q].k = "dir"
    BY <1>5 DEF D!MakeDir, D!HasDir
  <2>3. Numbered([live EXCEPT ![p] = e])
    BY <1>1, <2>1, <2>2, PutIsNumbered
  <2> QED
    BY <1>2, <1>5, <2>3 DEF D!MakeDir, D!Change
<1>6. ASSUME D!Unlink(p)
      PROVE  live' \in DTrees
  <2> PICK e : e = D!Nothing
    OBVIOUS
  <2>1. e \in D!Entries /\ e.k = "none"
    BY DirEntriesAre
  <2>2. \A q \in D!Down(p) : live[q].k = "none"
    BY <1>6 DEF D!Unlink
  <2>3. Numbered([live EXCEPT ![p] = e])
    BY <1>1, <2>1, <2>2, PutIsNumbered
  <2> QED
    BY <1>2, <1>6, <2>3 DEF D!Unlink, D!Change
<1>7. ASSUME NEW q \in D!Paths, D!Link(p, q)
      PROVE  live' \in DTrees
  <2>1. live[p].k = "file" /\ live[q].k # "dir" /\ q # p /\ \A a \in D!Up(q) : live[a].k = "dir"
    BY <1>7, DirEntriesAre DEF D!Link, D!HasDir
  <2> PICK e : e = live[p]
    OBVIOUS
  <2>2. e \in D!Entries /\ e.k = "file"
    BY <1>1, <2>1
  <2>3. \A a \in D!Down(q) : live[a].k = "none"
    BY <1>1, <2>1, NothingIn, DirEntriesAre
  <2>4. Numbered([live EXCEPT ![q] = e])
    BY <1>1, <2>1, <2>2, <2>3, PutIsNumbered
  <2> QED
    BY <1>2, <1>7, <2>4 DEF D!Link, D!Change
<1>8. ASSUME NEW q \in D!Paths, D!RenameFile(p, q)
      PROVE  live' \in DTrees
  <2>1. p # q /\ live[p].k = "file" /\ live[q].k # "dir" /\ \A a \in D!Up(q) : live[a].k = "dir"
    BY <1>8 DEF D!RenameFile, D!HasDir
  <2> PICK e : e = live[p]
    OBVIOUS
  <2>2. e \in D!Entries /\ e.k = "file"
    BY <1>1, <2>1
  <2>3. \A a \in D!Down(q) : live[a].k = "none"
    BY <1>1, <2>1, NothingIn, DirEntriesAre
  <2>9. Numbered([live EXCEPT ![q] = e])
    BY <1>1, <2>1, <2>2, <2>3, PutIsNumbered
  <2>g. PICK g : g = [live EXCEPT ![q] = e]
    OBVIOUS
  <2>4. Numbered(g)
    BY <2>g, <2>9
  <2>5. g[p].k = "file"
    BY <2>g, <1>1, <2>1
  <2> PICK n : n = D!Nothing
    OBVIOUS
  <2>6. n \in D!Entries /\ n.k = "none" /\ \A a \in D!Down(p) : g[a].k = "none"
    BY <2>4, <2>5, NothingIn, DirEntriesAre
  <2>7. Numbered([g EXCEPT ![p] = n])
    BY <2>4, <2>6, PutIsNumbered
  <2>8. [g EXCEPT ![p] = n] = [live EXCEPT ![q] = live[p], ![p] = D!Nothing]
    BY <2>g
  <2> QED
    BY <1>2, <1>8, <2>7, <2>8 DEF D!RenameFile, D!Change
<1> QED
  BY <1>3, <1>4, <1>5, <1>6, <1>7, <1>8

---------------------------------------------------------------------------
(* What entries mean.                                                      *)

(* A link, and the file that stands for it, mean the link; another entry   *)
(* means what it shows.                                                    *)
LEMMA MeantCases ==
  ASSUME NEW e \in D!Entries
  PROVE  /\ e.k # "file" => D!Meant(e) = e /\ D!Shown(e) = e
         /\ e.k = "file" => D!Shown(e) = [k |-> "file", text |-> e.text]
         /\ \A to \in Targets : e.k = "file" /\ e.text = D!Marker(to)
              => D!IsMarker(e) /\ D!Marked(e) = D!Sym(to) /\ D!Meant(e) = D!Sym(to)
         /\ e.k = "file" /\ (\A to \in Targets : e.text # D!Marker(to))
              => ~D!IsMarker(e) /\ D!Meant(e) = D!Shown(e)
<1>1. D!Meant(e) = D!Shown(IF D!IsMarker(e) THEN D!Marked(e) ELSE e)
  BY DEF D!Meant
<1>2. e.k # "file" => ~D!IsMarker(e)
  BY DEF D!IsMarker
<1>3. e.k # "file" => D!Shown(e) = e
  BY DEF D!Shown
<1>4. e.k = "file" => D!Shown(e) = [k |-> "file", text |-> e.text]
  BY DEF D!Shown
<1>5. ASSUME NEW to \in Targets, e.k = "file", e.text = D!Marker(to)
      PROVE  D!IsMarker(e) /\ D!Marked(e) = D!Sym(to) /\ D!Meant(e) = D!Sym(to)
  <2>1. D!IsMarker(e)
    BY <1>5 DEF D!IsMarker
  <2>2. (CHOOSE x \in Targets : e.text = D!Marker(x)) = to
    BY <1>5, DirAssumption
  <2>3. D!Marked(e) = D!Sym(to)
    BY <2>2 DEF D!Marked
  <2>4. D!Shown(D!Sym(to)) = D!Sym(to)
    BY DEF D!Shown, D!Sym
  <2> QED
    BY <1>1, <2>1, <2>3, <2>4
<1>6. e.k = "file" /\ (\A to \in Targets : e.text # D!Marker(to)) => ~D!IsMarker(e)
  BY DEF D!IsMarker
<1> QED
  BY <1>1, <1>2, <1>3, <1>4, <1>5, <1>6

(* Entries that show the same are the same but for the id.                 *)
LEMMA SameShown ==
  ASSUME NEW e \in D!Entries, NEW g \in D!Entries, D!Shown(e) = D!Shown(g)
  PROVE  /\ e.k = g.k /\ D!Meant(e) = D!Meant(g)
         /\ e.k # "file" => e = g
         /\ e.k = "file" => e.text = g.text
<1>1. /\ e.k # "file" => D!Shown(e) = e
      /\ g.k # "file" => D!Shown(g) = g
      /\ e.k = "file" => D!Shown(e) = [k |-> "file", text |-> e.text]
      /\ g.k = "file" => D!Shown(g) = [k |-> "file", text |-> g.text]
  BY MeantCases
<1>2. e.k = g.k
  <2>1. CASE e.k = "file"
    BY <1>1, <2>1
  <2>2. CASE e.k # "file"
    BY <1>1, <2>2
  <2> QED
    BY <2>1, <2>2
<1>3. e.k # "file" => e = g
  BY <1>1, <1>2
<1>4. ASSUME e.k = "file"
      PROVE  e.text = g.text
  <2>1. [k |-> "file", text |-> e.text] = [k |-> "file", text |-> g.text]
    BY <1>1, <1>2, <1>4
  <2>2. [k |-> "file", text |-> e.text].text = [k |-> "file", text |-> g.text].text
    BY <2>1
  <2> QED
    BY <2>2
<1>5. e.k = "file" => D!Meant(e) = D!Meant(g)
  <2> SUFFICES ASSUME e.k = "file"
               PROVE  D!Meant(e) = D!Meant(g)
    OBVIOUS
  <2>1. g.k = "file" /\ g.text = e.text
    BY <1>2, <1>4
  <2>2. CASE \E to \in Targets : e.text = D!Marker(to)
    <3>1. PICK to \in Targets : e.text = D!Marker(to)
      BY <2>2
    <3>2. D!Meant(e) = D!Sym(to)
      BY <3>1, MeantCases
    <3>3. D!Meant(g) = D!Sym(to)
      BY <2>1, <3>1, MeantCases
    <3> QED
      BY <3>2, <3>3
  <2>3. CASE \A to \in Targets : e.text # D!Marker(to)
    <3>1. D!Meant(e) = D!Shown(e)
      BY <2>3, MeantCases
    <3>2. D!Meant(g) = D!Shown(g)
      BY <2>1, <2>3, MeantCases
    <3> QED
      BY <3>1, <3>2
  <2> QED
    BY <2>2, <2>3
<1> QED
  BY <1>2, <1>3, <1>4, <1>5

(* Files with the same text show the same.                                 *)
LEMMA SameText ==
  ASSUME NEW e \in D!Entries, NEW g \in D!Entries, e.k = "file", g.k = "file", e.text = g.text
  PROVE  D!Shown(e) = D!Shown(g) /\ D!Meant(e) = D!Meant(g)
<1>1. D!Shown(e) = D!Shown(g)
  BY MeantCases
<1> QED
  BY <1>1, SameShown

(* Nothing else means that there is nothing.                               *)
LEMMA MeantNothing ==
  ASSUME NEW e \in D!Entries, NEW g \in D!Entries, g.k = "none", D!Meant(e) = D!Meant(g)
  PROVE  e.k = "none"
<1>1. D!Meant(g).k = "none"
  BY MeantCases
<1>2. ASSUME e.k = "file"
      PROVE  D!Meant(e).k # "none"
  <2>1. CASE \E to \in Targets : e.text = D!Marker(to)
    <3>1. PICK to \in Targets : e.text = D!Marker(to)
      BY <2>1
    <3>2. D!Meant(e) = D!Sym(to)
      BY <1>2, <3>1, MeantCases
    <3> QED
      BY <3>2, DirEntriesAre
  <2>2. CASE \A to \in Targets : e.text # D!Marker(to)
    <3>1. D!Meant(e) = [k |-> "file", text |-> e.text]
      BY <1>2, <2>2, MeantCases
    <3> QED
      BY <3>1
  <2> QED
    BY <2>1, <2>2
<1>3. e.k # "file" => D!Meant(e) = e
  BY MeantCases
<1> QED
  BY <1>1, <1>2, <1>3

(* What the directory has for an entry.                                    *)
LEMMA RawCases ==
  ASSUME NEW p \in D!Paths, NEW e \in D!Entries
  PROVE  /\ D!Raw(p, e) \in D!Entries /\ D!Raw(p, e).k = e.k
         /\ e.k # "link" => D!Raw(p, e) = e
         /\ D!Raw(p, D!Raw(p, e)) = D!Raw(p, e)
<1>1. e.k # "link" => D!Raw(p, e) = e
  BY DEF D!Raw
<1>2. ASSUME e.k = "link"
      PROVE  /\ D!Raw(p, e) \in D!Entries /\ D!Raw(p, e).k = "link"
             /\ D!Raw(p, D!Raw(p, e)) = D!Raw(p, e)
  <2> PICK to : to = Target[p][e.to]
    OBVIOUS
  <2>1. e.to \in Targets
    BY <1>2, DirEntryCases
  <2>2. to \in Targets /\ Target[p][to] = to
    BY <2>1, DirAssumption
  <2>3. D!Raw(p, e) = D!Sym(to)
    BY <1>2 DEF D!Raw
  <2>4. D!Sym(to) \in D!Entries /\ D!Sym(to).k = "link" /\ D!Sym(to).to = to
    BY <2>2, DirEntriesAre
  <2>5. D!Raw(p, D!Sym(to)) = D!Sym(to)
    BY <2>2, <2>4 DEF D!Raw
  <2> QED
    BY <2>3, <2>4, <2>5
<1> QED
  BY <1>1, <1>2

(* What stands for an entry goes on to do so when it is as it was but for  *)
(* the id; nothing else stands for nothing.                                *)
LEMMA StandsForAlike ==
  ASSUME NEW p \in D!Paths, NEW e \in D!Entries, NEW h \in D!Entries, NEW g \in D!Entries,
         e.k = h.k, h.k # "file" => e = h, D!Meant(e) = D!Meant(h), D!StandsFor(p, h, g)
  PROVE  D!StandsFor(p, e, g)
<1>1. CASE h.k # "file"
  BY <1>1
<1>2. CASE h.k = "file"
  <2>1. D!Meant(h) = D!Meant(g)
    <3>1. CASE h = D!Raw(p, g)
      BY <1>2, <3>1, RawCases
    <3> QED
      BY <3>1 DEF D!StandsFor
  <2> QED
    BY <2>1 DEF D!StandsFor
<1> QED
  BY <1>1, <1>2

(* Files stand for entries wherever they are.                              *)
LEMMA FileStandsFor ==
  ASSUME NEW p \in D!Paths, NEW q \in D!Paths, NEW e \in D!Entries, NEW h \in D!Entries,
         NEW g \in D!Entries, e.k = "file", h.k = "file", e.text = h.text, D!StandsFor(q, h, g)
  PROVE  D!StandsFor(p, e, g)
<1>1. D!Meant(e) = D!Meant(h)
  BY SameText
<1>2. D!Meant(h) = D!Meant(g)
  <2>1. CASE h = D!Raw(q, g)
    BY <2>1, RawCases
  <2> QED
    BY <2>1 DEF D!StandsFor
<1> QED
  BY <1>1, <1>2 DEF D!StandsFor

(* Nothing else stands for nothing.                                        *)
LEMMA StandsForNothing ==
  ASSUME NEW p \in D!Paths, NEW e \in D!Entries, NEW g \in D!Entries, g.k = "none",
         D!StandsFor(p, e, g)
  PROVE  e.k = "none"
<1>1. D!Raw(p, g) = g
  BY RawCases
<1> QED
  BY <1>1, MeantNothing DEF D!StandsFor

(* What a start reads for an entry: the link for the file that stands for  *)
(* it or for the way to where it leads, if the manifest has a link there.  *)
LEMMA ReadCases ==
  ASSUME NEW p \in D!Paths, NEW e \in D!Entries, NEW m, m.k = "link" => m \in D!Entries
  PROVE  /\ D!Read(p, e, m) \in D!Entries /\ D!StandsFor(p, e, D!Read(p, e, m))
         /\ D!Meant(D!Read(p, e, m)) = D!Meant(e) \/ (m.k = "link" /\ D!Read(p, e, m) = m)
         /\ D!Read(p, e, m).k = "file" => D!Read(p, e, m) = e
         /\ e.k \notin {"file", "link"} \/ m.k # "link" => D!Read(p, e, m) = e
         /\ e.k = "file" /\ (\A to \in Targets : e.text # D!Marker(to)) => D!Read(p, e, m) = e
         /\ \A to \in Targets :
              m.k = "link" /\ e.k = "file" /\ e.text = D!Marker(to)
                => D!Read(p, e, m) = D!Sym(to)
         /\ m.k = "link" /\ e = D!Raw(p, m) => D!Read(p, e, m) = m
         /\ (D!Read(p, e, m).k = "none" <=> e.k = "none")
         /\ (D!Read(p, e, m).k = "dir" <=> e.k = "dir")
<1>s. D!StandsFor(p, e, e)
  BY DEF D!StandsFor
<1>1. CASE m.k # "link"
  <2>1. D!Read(p, e, m) = e
    BY <1>1 DEF D!Read
  <2> QED
    BY <1>s, <1>1, <2>1
<1>2. CASE m.k = "link" /\ \E to \in Targets : e.k = "file" /\ e.text = D!Marker(to)
  <2>1. PICK to \in Targets : e.k = "file" /\ e.text = D!Marker(to)
    BY <1>2
  <2>2. D!IsMarker(e) /\ D!Marked(e) = D!Sym(to) /\ D!Meant(e) = D!Sym(to)
    BY <2>1, MeantCases
  <2>3. D!Read(p, e, m) = D!Sym(to)
    BY <1>2, <2>2 DEF D!Read
  <2>4. D!Sym(to) \in D!Entries /\ D!Sym(to).k = "link"
    BY DirEntriesAre
  <2>5. D!Meant(D!Sym(to)) = D!Sym(to)
    BY <2>4, MeantCases
  <2>6. D!StandsFor(p, e, D!Sym(to))
    BY <2>2, <2>5 DEF D!StandsFor
  <2>7. \A x \in Targets : e.text = D!Marker(x) => x = to
    BY <2>1, DirAssumption
  <2>8. e # D!Raw(p, m)
    BY <1>2, <2>1, RawCases
  <2> QED
    BY <1>2, <2>1, <2>2, <2>3, <2>4, <2>5, <2>6, <2>7, <2>8
<1>3. CASE m.k = "link" /\ ~(\E to \in Targets : e.k = "file" /\ e.text = D!Marker(to))
  <2>1. ~D!IsMarker(e)
    BY <1>3 DEF D!IsMarker
  <2>2. CASE e = D!Raw(p, m)
    <3>1. D!Read(p, e, m) = m
      BY <1>3, <2>1, <2>2 DEF D!Read
    <3>2. e.k = "link"
      BY <1>3, <2>2, RawCases
    <3>3. D!StandsFor(p, e, m)
      BY <2>2 DEF D!StandsFor
    <3> QED
      BY <1>3, <3>1, <3>2, <3>3
  <2>3. CASE e # D!Raw(p, m)
    <3>1. D!Read(p, e, m) = e
      BY <1>3, <2>1, <2>3 DEF D!Read
    <3> QED
      BY <1>s, <1>3, <2>3, <3>1
  <2> QED
    BY <2>2, <2>3
<1> QED
  BY <1>1, <1>2, <1>3

(* What a start sees in the directory.                                     *)
LEMMA PulledFacts ==
  ASSUME data \in DTrees, manifest \in DTrees \cup {D!Absent}
  PROVE  /\ D!Pulled \in DTrees
         /\ \A p \in D!Paths :
              /\ manifest[p].k = "link" => manifest[p] \in D!Entries /\ D!Saved[p] = manifest[p]
              /\ D!StandsFor(p, data[p], D!Pulled[p])
              /\ \/ D!Meant(D!Pulled[p]) = D!Meant(data[p])
                 \/ manifest[p].k = "link" /\ D!Pulled[p] = manifest[p]
              /\ D!Shown(D!Pulled[p]) = D!Shown(D!Read(p, data[p], manifest[p]))
              /\ D!Pulled[p].k = D!Read(p, data[p], manifest[p]).k
              /\ D!Pulled[p].k # "file" => D!Pulled[p] = D!Read(p, data[p], manifest[p])
              /\ \A q \in D!Paths : D!Pulled[p].k = "file" /\ D!Pulled[q].k = "file"
                                      => (D!Pulled[p].id = D!Pulled[q].id <=> data[p].id = data[q].id)
<1>g. PICK g : g = [p \in D!Paths |-> D!Read(p, data[p], manifest[p])]
  OBVIOUS
<1>m. ASSUME NEW p \in D!Paths, manifest[p].k = "link"
      PROVE  manifest[p] \in D!Entries /\ D!Saved[p] = manifest[p]
  <2>1. manifest # D!Absent
    BY <1>m DEF D!Absent
  <2>2. manifest \in DTrees
    BY <2>1
  <2>3. manifest[p] \in D!Entries
    BY <2>2, DirTreeFacts
  <2> QED
    BY <2>1, <2>3 DEF D!Saved
<1>r. PICK r : r = D!Renumbered(g)
  OBVIOUS
<1>1. r = D!Pulled
  BY <1>g, <1>r DEF D!Pulled
<1>2. ASSUME NEW p \in D!Paths
      PROVE  data[p] \in D!Entries /\ g[p] = D!Read(p, data[p], manifest[p]) /\ g[p] \in D!Entries
  <2>1. data[p] \in D!Entries
    BY DirTreeFacts
  <2>2. g[p] = D!Read(p, data[p], manifest[p])
    BY <1>g
  <2> QED
    BY <1>m, <2>1, <2>2, ReadCases
<1>3. ASSUME NEW p \in D!Paths, g[p].k # "none", NEW q \in D!Up(p)
      PROVE  g[q].k = "dir"
  <2>1. data[p].k # "none" /\ q \in D!Paths
    BY <1>m, <1>2, <1>3, ReadCases, DirPaths
  <2>2. data[q].k = "dir"
    BY <2>1, DirTreeFacts
  <2> QED
    BY <1>m, <1>2, <2>1, <2>2, ReadCases
<1>4. ASSUME NEW p \in D!Paths, g[p].k = "file"
      PROVE  g[p] = data[p]
  BY <1>m, <1>2, <1>4, ReadCases
<1>5. ASSUME NEW p \in D!Paths, NEW q \in D!Paths, g[p].k = "file", g[q].k = "file",
             g[p].id = g[q].id
      PROVE  g[p] = g[q]
  <2>1. g[p] = data[p] /\ g[q] = data[q]
    BY <1>4, <1>5
  <2> QED
    BY <1>5, <2>1, DirTreeFacts
<1>6. g \in [D!Paths -> D!Entries]
  BY <1>g, <1>2
<1>7. Numbered(g)
  BY <1>3, <1>5, <1>6 DEF Numbered
<1>8. r \in DTrees
  BY <1>r, <1>7, RenumberedIsTree
<1>9. ASSUME NEW p \in D!Paths
      PROVE  /\ D!Shown(r[p]) = D!Shown(g[p]) /\ r[p].k = g[p].k
             /\ r[p].k # "file" => r[p] = g[p]
             /\ D!StandsFor(p, data[p], r[p])
             /\ \/ D!Meant(r[p]) = D!Meant(data[p])
                \/ manifest[p].k = "link" /\ r[p] = manifest[p]
  <2>1. D!Shown(r[p]) = D!Shown(g[p]) /\ r[p].k = g[p].k
    BY <1>r, <1>7, RenumberedAt
  <2>2. r[p] \in D!Entries
    BY <1>8, DirTreeFacts
  <2>3. D!Meant(r[p]) = D!Meant(g[p]) /\ (r[p].k # "file" => r[p] = g[p])
    BY <1>2, <2>1, <2>2, SameShown
  <2>4. /\ D!Meant(g[p]) = D!Meant(data[p]) \/ (manifest[p].k = "link" /\ g[p] = manifest[p])
        /\ D!StandsFor(p, data[p], g[p])
        /\ g[p].k = "file" => g[p] = data[p]
    BY <1>m, <1>2, ReadCases
  <2>5. manifest[p].k = "link" /\ g[p] = manifest[p] => r[p] = manifest[p]
    BY <2>1, <2>3
  <2>6. D!StandsFor(p, data[p], r[p])
    <3>1. CASE r[p].k # "file"
      BY <2>3, <2>4, <3>1
    <3>2. CASE r[p].k = "file"
      <4>1. D!Meant(r[p]) = D!Meant(data[p])
        BY <2>1, <2>3, <2>4, <3>2
      <4> QED
        BY <4>1 DEF D!StandsFor
    <3> QED
      BY <3>1, <3>2
  <2> QED
    BY <2>1, <2>3, <2>4, <2>5, <2>6
<1>10. ASSUME NEW p \in D!Paths, NEW q \in D!Paths, r[p].k = "file", r[q].k = "file"
       PROVE  r[p].id = r[q].id <=> data[p].id = data[q].id
  <2>1. g[p].k = "file" /\ g[q].k = "file"
    BY <1>9, <1>10
  <2>2. r[p].id = r[q].id <=> g[p].id = g[q].id
    BY <1>r, <1>7, <2>1, RenumberedAt
  <2> QED
    BY <1>4, <2>1, <2>2
<1> QED
  BY <1>m, <1>1, <1>2, <1>8, <1>9, <1>10

---------------------------------------------------------------------------
(* Steps of a save.                                                        *)

(* Outside the changed paths every entry is as it was.                     *)
LEMMA AlikeAt ==
  ASSUME NEW h \in DTrees, NEW g \in DTrees, NEW S, Alike(h, g, S), NEW p \in D!Paths \ S
  PROVE  /\ g[p].k = h[p].k /\ D!Meant(g[p]) = D!Meant(h[p])
         /\ h[p].k # "file" => g[p] = h[p]
         /\ h[p].k = "file" => g[p].text = h[p].text
         /\ \A q \in D!Paths \ S :
              h[p].k = "file" /\ h[q].k = "file" => (g[p].id = g[q].id <=> h[p].id = h[q].id)
<1>1. h[p] \in D!Entries /\ g[p] \in D!Entries
  BY DirTreeFacts
<1>2. g[p].k = h[p].k /\ D!Shown(g[p]) = D!Shown(h[p])
  BY DEF Alike
<1>3. \A q \in D!Paths \ S :
        h[p].k = "file" /\ h[q].k = "file" => (g[p].id = g[q].id <=> h[p].id = h[q].id)
  BY DEF Alike
<1>4. D!Meant(g[p]) = D!Meant(h[p]) /\ (g[p].k # "file" => g[p] = h[p])
      /\ (g[p].k = "file" => g[p].text = h[p].text)
  BY <1>1, <1>2, SameShown
<1> QED
  BY <1>2, <1>3, <1>4

(* Nothing changes.                                                        *)
LEMMA AlikeSame ==
  ASSUME NEW h, NEW S
  PROVE  Alike(h, h, S)
BY DEF Alike

(* A path is a source of itself, and the first name of a file in a tree    *)
(* that was tried has no other sources than the name.                      *)
LEMMA SourcesOf ==
  ASSUME NEW p \in D!Paths
  PROVE  /\ p \in D!Sources(p)
         /\ \A t \in tried : \A f \in D!Names(t, p) :
              t[p].k = "file" => D!Sources(f) \subseteq D!Sources(p)
<1>1. p \in D!Sources(p)
  BY DEF D!Sources
<1>2. ASSUME NEW t \in tried, NEW f \in D!Names(t, p), t[p].k = "file", NEW q \in D!Sources(f)
      PROVE  q \in D!Sources(p)
  <2>1. ASSUME NEW S \in SUBSET D!Paths, p \in S, D!Closed(S)
        PROVE  q \in S
    <3>1. f \in S
      BY <1>2, <2>1 DEF D!Closed
    <3> QED
      BY <1>2, <2>1, <3>1 DEF D!Sources
  <2> QED
    BY <2>1 DEF D!Sources
<1> QED
  BY <1>1, <1>2

(* What does not depend on the directory or the save under way.            *)
LEMMA TriedSame ==
  ASSUME UNCHANGED <<tried, manifest, known, failed>>
  PROVE  /\ D!Saved' = D!Saved
         /\ \A p : D!Untouched(p)' <=> D!Untouched(p)
         /\ \A p : D!Sources(p)' = D!Sources(p)
         /\ \A t, p : Quiet(t, p)' <=> Quiet(t, p)
         /\ \A t, p : SureText(t, p)' <=> SureText(t, p)
         /\ \A p : SureNone(p)' <=> SureNone(p)
<1>1. D!Saved' = D!Saved
  BY DEF D!Saved, D!NoTree, D!Absent, D!Paths
<1>2. ASSUME NEW p
      PROVE  (D!Untouched(p)' <=> D!Untouched(p)) /\ D!Sources(p)' = D!Sources(p)
  BY <1>1 DEF D!Untouched, D!Sources, D!Closed, D!Names
<1>3. ASSUME NEW t, NEW p
      PROVE  (Quiet(t, p)' <=> Quiet(t, p)) /\ (SureText(t, p)' <=> SureText(t, p))
             /\ (SureNone(p)' <=> SureNone(p))
  BY DEF Quiet, SureText, SureNone
<1> QED
  BY <1>1, <1>2, <1>3

(* Trees without the empty one.                                            *)
LEMMA SavedIsTree ==
  ASSUME manifest \in DTrees \cup {D!Absent}
  PROVE  D!Saved \in DTrees /\ (manifest \in DTrees => D!Saved = manifest)
<1>1. D!NoTree \in [D!Paths -> D!Entries] /\ \A p \in D!Paths : D!NoTree[p] = D!Nothing
  BY DirEntriesAre DEF D!NoTree
<1>2. \A p \in D!Paths : D!NoTree[p].k = "none"
  BY <1>1, DirEntriesAre
<1> PICK n : n = D!NoTree
  OBVIOUS
<1>3. Numbered(n)
  BY <1>1, <1>2 DEF Numbered
<1>r. PICK r : r = D!Renumbered(n)
  OBVIOUS
<1>4. r \in DTrees /\ \A p \in D!Paths : r[p] = n[p]
  <2>1. r \in DTrees
    BY <1>r, <1>3, RenumberedIsTree
  <2>2. ASSUME NEW p \in D!Paths
        PROVE  r[p] = n[p]
    BY <1>r, <1>2, <1>3, RenumberedAt
  <2> QED
    BY <2>1, <2>2
<1>5. r = n
  <2>1. r \in [D!Paths -> D!Entries] /\ n \in [D!Paths -> D!Entries]
    BY <1>1, <1>4 DEF DTrees
  <2> QED
    BY <1>4, <2>1
<1>6. D!NoTree \in DTrees
  BY <1>4, <1>5
<1>7. ASSUME D!Absent \in DTrees
      PROVE  D!NoTree = D!Absent
  <2>1. D!Absent \in [D!Paths -> D!Entries]
    BY <1>7 DEF DTrees
  <2>2. ASSUME NEW p \in D!Paths
        PROVE  FALSE
    <3>1. D!Absent[p] = [k |-> "absent"]
      BY DEF D!Absent
    <3>2. D!Absent[p] \in D!Entries
      BY <2>1
    <3>3. D!Absent[p].k = "absent"
      BY <3>1
    <3> QED
      BY <3>2, <3>3, DirEntryCases
  <2> QED
    BY <1>1, <2>1, <2>2
<1>8. CASE manifest = D!Absent
  BY <1>6, <1>7, <1>8 DEF D!Saved
<1>9. CASE manifest # D!Absent
  BY <1>9 DEF D!Saved
<1> QED
  BY <1>8, <1>9

(* No save is under way between two of them.                               *)
LEMMA IdleIsNoDJob == D!Idle \notin DJobs
<1> SUFFICES ASSUME D!Idle \in DJobs
             PROVE  FALSE
  OBVIOUS
<1>1. D!Idle.at = "idle"
  BY DEF D!Idle
<1>2. D!Idle.at \in {"look", "gone", "wrong", "open"}
  BY DEF DJobs
<1> QED
  BY <1>1, <1>2

(* A save under way has these fields.                                      *)
LEMMA DJobFields ==
  ASSUME NEW j \in DJobs
  PROVE  /\ j.at \in {"look", "gone", "wrong", "open"} /\ j.tree \in DTrees
         /\ j.rm \in SUBSET D!Paths /\ j.mkdir \in SUBSET D!Paths /\ j.put \in SUBSET D!Paths
BY DEF DJobs

(* One step of a save: it changes the directory at s, and below it where   *)
(* the new tree has nothing, and may be done with s.                       *)
SaveStep(s, S) ==
  /\ job \in DJobs /\ job' \in DJobs /\ job'.tree = job.tree
  /\ s \in job.rm \cup job.mkdir \cup job.put
  /\ job'.rm \subseteq job.rm /\ job.rm \subseteq job'.rm \cup {s}
  /\ job'.mkdir \subseteq job.mkdir /\ job.mkdir \subseteq job'.mkdir \cup {s}
  /\ job'.put \subseteq job.put /\ job.put \subseteq job'.put \cup {s}
  /\ job.at = "open" => s = D!Subject
  /\ job'.at = "open" => s = D!First(job'.put)
  /\ S \in SUBSET D!Paths /\ s \in S
  /\ \A q \in S \ {s} : data'[q] = D!Nothing /\ job.tree[q].k = "none"
  /\ data' \in DTrees /\ Alike(data, data', S)
  /\ UNCHANGED <<live, queue, known, failed, manifest, tried>>

(* What the step owes at s itself.                                         *)
DoneAt(s) ==
  LET t == job.tree
  IN  /\ t[s].k = "none" => data'[s] = D!Nothing
      /\ t[s].k = "dir" => data'[s] = D!Dir
      /\ s \notin job'.put =>
           /\ t[s].k = "link" => \/ data'[s] = D!Raw(s, t[s])
                                 \/ data'[s].k = "file" /\ data'[s].text = D!Marker(t[s].to)
           /\ t[s].k = "file" => /\ data'[s].k = "file" /\ data'[t[s].id].k = "file"
                                 /\ data'[s].id = data'[t[s].id].id /\ t[s].id \notin job'.put
                                 /\ t[s].id = s /\ SureText(t, s) => data'[s].text = t[s].text

RememberedAt(s) ==
  /\ s \in job'.put /\ data'[s].k = "file" => job'.at = "open"
  /\ (\A t \in tried : Quiet(t, s)) =>
       /\ known[s].k = "none" => data'[s] = D!Nothing
       /\ known[s].k = "file" => data'[s].k = "file" /\ data'[s].text = known[s].text

SourcedAt(s) ==
  data'[s].k # "none" =>
    \/ \E t \in tried, q \in D!Sources(s) : D!StandsFor(s, data'[s], t[q])
    \/ /\ data'[s].k = "file" /\ data'[s].text = D!Empty
       /\ \E t \in tried : t[s].k \in {"file", "link"}

(* A text that a save has behind it stays.                                 *)
LEMMA StepKeepsDone ==
  ASSUME DirInv, NEW s \in D!Paths, NEW S, SaveStep(s, S), DoneAt(s)
  PROVE  JobDone'
<1> PICK t : t = job.tree
  OBVIOUS
<1>1. /\ job \in DJobs /\ job' \in DJobs /\ t \in DTrees /\ job'.tree = t
      /\ data \in DTrees /\ data' \in DTrees
  BY DJobFields DEF SaveStep, DirInv, DirTyped
<1>2. /\ \A p \in job.rm : t[p].k = "none"
      /\ \A p \in job.mkdir : t[p].k = "dir"
      /\ \A p \in job.put : t[p].k \in {"file", "link"}
  BY <1>1 DEF DirInv, JobShaped
<1>3. ASSUME NEW p \in D!Paths \ S
      PROVE  /\ data'[p].k = data[p].k
             /\ data[p].k # "file" => data'[p] = data[p]
             /\ data[p].k = "file" => data'[p].text = data[p].text
             /\ \A q \in D!Paths \ S :
                  data[p].k = "file" /\ data[q].k = "file"
                    => (data'[p].id = data'[q].id <=> data[p].id = data[q].id)
  <2>1. Alike(data, data', S)
    BY DEF SaveStep
  <2> QED
    BY <1>1, <2>1, AlikeAt
<1>4. SureNone(s)' <=> SureNone(s)
  BY TriedSame DEF SaveStep
<1>5. ASSUME NEW p \in D!Paths, t[p].k = "none", p \notin job'.rm, SureNone(p)'
      PROVE  data'[p] = D!Nothing
  <2>1. CASE p = s
    BY <1>5, <2>1 DEF DoneAt
  <2>2. CASE p # s /\ p \in S
    BY <2>2 DEF SaveStep
  <2>3. CASE p \notin S
    <3>1. p # s /\ p \notin job.rm
      BY <1>5, <2>3 DEF SaveStep
    <3>2. SureNone(p)
      BY <1>5, TriedSame DEF SaveStep
    <3>3. data[p] = D!Nothing
      BY <1>1, <1>5, <3>1, <3>2 DEF DirInv, JobDone
    <3>4. data[p].k # "file"
      BY <3>3, DirEntriesAre
    <3> QED
      BY <1>3, <2>3, <3>3, <3>4
  <2> QED
    BY <2>1, <2>2, <2>3
<1>6. ASSUME NEW p \in D!Paths, t[p].k # "none"
      PROVE  p = s \/ p \notin S
  BY <1>6 DEF SaveStep
<1>7. ASSUME NEW p \in D!Paths, t[p].k = "dir", p \notin job'.mkdir
      PROVE  data'[p] = D!Dir
  <2>1. CASE p = s
    BY <1>7, <2>1 DEF DoneAt
  <2>2. CASE p # s
    <3>1. p \notin S /\ p \notin job.mkdir
      BY <1>6, <1>7, <2>2 DEF SaveStep
    <3>2. data[p] = D!Dir
      BY <1>1, <1>7, <3>1 DEF DirInv, JobDone
    <3>3. data[p].k # "file"
      BY <3>2, DirEntriesAre
    <3> QED
      BY <1>3, <3>1, <3>2, <3>3
  <2> QED
    BY <2>1, <2>2
<1>8. ASSUME NEW p \in D!Paths, t[p].k = "link", p \notin job'.put
      PROVE  LinkAt(t, p)'
  <2>0. D!Raw(p, t[p])' = D!Raw(p, t[p]) /\ D!Raw(p, t[p]).k = "link"
    <3>1. t[p] \in D!Entries
      BY <1>1, DirTreeFacts
    <3>2. D!Raw(p, t[p])' = D!Raw(p, t[p])
      BY DEF D!Raw
    <3> QED
      BY <1>8, <3>1, <3>2, RawCases
  <2>1. CASE p = s
    <3>1. /\ p \notin job'.put /\ job.tree[p].k = "link"
      BY <1>8
    <3>2. data'[p] = D!Raw(p, t[p]) \/ (data'[p].k = "file" /\ data'[p].text = D!Marker(t[p].to))
      BY <2>1, <3>1 DEF DoneAt
    <3> QED
      BY <2>0, <3>2 DEF LinkAt
  <2>2. CASE p # s
    <3>1. p \notin S /\ p \notin job.put
      BY <1>6, <1>8, <2>2 DEF SaveStep
    <3>2. LinkAt(t, p)
      BY <1>1, <1>8, <3>1 DEF DirInv, JobDone
    <3>3. data'[p].k = data[p].k
          /\ (data[p].k # "file" => data'[p] = data[p])
          /\ (data[p].k = "file" => data'[p].text = data[p].text)
      BY <1>3, <3>1
    <3>4. data[p] # D!Raw(p, t[p]) => data'[p].k = "file" /\ data'[p].text = D!Marker(t[p].to)
      BY <3>2, <3>3 DEF LinkAt
    <3>5. data[p] = D!Raw(p, t[p]) => data'[p] = D!Raw(p, t[p])
      BY <2>0, <3>3
    <3> QED
      BY <2>0, <3>4, <3>5 DEF LinkAt
  <2> QED
    BY <2>1, <2>2
<1>9. ASSUME NEW p \in D!Paths, t[p].k = "file", p \notin job'.put
      PROVE  FileDone(t, p)' /\ t[p].id \notin job'.put
  <2>1. SureText(t, p)' <=> SureText(t, p)
    BY TriedSame DEF SaveStep
  <2>2. CASE p = s
    BY <1>9, <2>1, <2>2 DEF DoneAt, FileDone, NamedAt
  <2>3. CASE p # s
    <3>1. p \notin S /\ p \notin job.put
      BY <1>6, <1>9, <2>3 DEF SaveStep
    <3>2. FileDone(t, p) /\ t[p].id \notin job.put
      BY <1>1, <1>9, <3>1 DEF DirInv, JobDone
    <3>3. t[p].id \in D!Paths /\ t[t[p].id].k = "file"
      BY <1>1, <1>9, DirTreeFacts
    <3>4. t[p].id # s
      <4>1. SUFFICES ASSUME t[p].id = s
                     PROVE  FALSE
        OBVIOUS
      <4>2. s \notin job.rm /\ s \notin job.mkdir /\ s \notin job.put
        BY <1>2, <3>2, <3>3, <4>1
      <4> QED
        BY <4>2 DEF SaveStep
    <3>5. t[p].id \notin S
      BY <1>6, <3>3, <3>4
    <3>6. t[p].id \notin job'.put
      BY <3>2 DEF SaveStep
    <3>7. data[p].k = "file" /\ data[t[p].id].k = "file" /\ data[p].id = data[t[p].id].id
      BY <3>2 DEF FileDone, NamedAt
    <3>8. NamedAt(t, p)'
      BY <1>3, <3>1, <3>3, <3>5, <3>7 DEF NamedAt
    <3>9. data'[p].text = data[p].text
      BY <1>3, <3>1, <3>7
    <3> QED
      BY <2>1, <3>2, <3>6, <3>8, <3>9 DEF FileDone
  <2> QED
    BY <2>2, <2>3
<1> QED
  BY <1>1, <1>5, <1>7, <1>8, <1>9 DEF JobDone

(* What the program remembers stays true where it was.                     *)
LEMMA StepKeepsRemembers ==
  ASSUME DirInv, NEW s \in D!Paths, NEW S, SaveStep(s, S), RememberedAt(s)
  PROVE  Remembers'
<1>1. /\ job \in DJobs /\ job' \in DJobs /\ data \in DTrees /\ data' \in DTrees
      /\ known' = known /\ failed' = failed /\ tried' = tried /\ Alike(data, data', S)
      /\ job.tree \in tried
  BY DEF SaveStep, DirInv, DirTyped, JobShaped
<1>2. ASSUME NEW p \in D!Paths \ S
      PROVE  /\ data'[p].k = data[p].k
             /\ data[p].k # "file" => data'[p] = data[p]
             /\ data[p].k = "file" => data'[p].text = data[p].text
  BY <1>1, AlikeAt
<1>3. ASSUME ~failed, NEW p \in job'.put, known[p].k = "file", data'[p].k = "file",
             ~(job'.at = "open" /\ p = D!First(job'.put))
      PROVE  data'[p].text = known[p].text
  <2>1. p \in job.put /\ p \in D!Paths
    BY <1>1, <1>3, DJobFields DEF SaveStep
  <2>2. p # s
    BY <1>3 DEF SaveStep, RememberedAt
  <2>3. p \notin S
    <3>1. p \in S => data'[p] = D!Nothing
      BY <2>2 DEF SaveStep
    <3> QED
      BY <1>3, <3>1, DirEntriesAre
  <2>4. ~(job.at = "open" /\ p = D!Subject)
    BY <2>2 DEF SaveStep
  <2>5. data[p].k = "file" /\ data'[p].text = data[p].text
    BY <1>2, <1>3, <2>1, <2>3
  <2> QED
    BY <1>1, <1>3, <2>1, <2>4, <2>5 DEF DirInv, Remembers
<1>4. ASSUME NEW p \in D!Paths, \A t \in tried' : Quiet(t, p)'
      PROVE  AsKnown(p)'
  <2>1. \A t \in tried : Quiet(t, p)
    BY <1>1, <1>4, TriedSame DEF SaveStep
  <2>2. CASE p = s
    BY <1>1, <2>1, <2>2 DEF RememberedAt, AsKnown
  <2>3. CASE p # s /\ p \in S
    <3>1. data'[p] = D!Nothing /\ job.tree[p].k = "none"
      BY <2>3 DEF SaveStep
    <3>2. known[p].k = "none"
      BY <1>1, <2>1, <3>1 DEF Quiet
    <3> QED
      BY <1>1, <3>1, <3>2 DEF AsKnown
  <2>4. CASE p \notin S
    <3>1. AsKnown(p)
      BY <2>1 DEF DirInv, Remembers
    <3>2. data[p] = D!Nothing => data'[p] = D!Nothing
      BY <1>2, <2>4, DirEntriesAre
    <3> QED
      BY <1>1, <1>2, <2>4, <3>1, <3>2 DEF AsKnown
  <2> QED
    BY <2>2, <2>3, <2>4
<1> QED
  BY <1>1, <1>3, <1>4 DEF Remembers, D!Subject

(* Every entry has its source.                                             *)
LEMMA StepKeepsSourced ==
  ASSUME DirInv, NEW s \in D!Paths, NEW S, SaveStep(s, S), SourcedAt(s)
  PROVE  Sourced'
<1>1. /\ job \in DJobs /\ job' \in DJobs /\ data \in DTrees /\ data' \in DTrees
      /\ known' = known /\ tried' = tried /\ Alike(data, data', S)
  BY DEF SaveStep, DirInv, DirTyped
<1>2. ASSUME NEW p \in D!Paths \ S
      PROVE  /\ data'[p].k = data[p].k
             /\ data[p].k = "file" => data'[p].text = data[p].text
             /\ \A g \in D!Entries : D!StandsFor(p, data[p], g) => D!StandsFor(p, data'[p], g)
  <2>1. /\ data'[p].k = data[p].k /\ D!Meant(data'[p]) = D!Meant(data[p])
        /\ data[p].k # "file" => data'[p] = data[p]
        /\ data[p].k = "file" => data'[p].text = data[p].text
    BY <1>1, AlikeAt
  <2>2. data'[p] \in D!Entries /\ data[p] \in D!Entries
    BY <1>1, DirTreeFacts
  <2> QED
    BY <2>1, <2>2, StandsForAlike
<1>3. ASSUME NEW p \in D!Paths
      PROVE  D!Sources(p)' = D!Sources(p) /\ D!Saved' = D!Saved
  BY TriedSame DEF SaveStep
<1>e. ASSUME NEW t \in tried, NEW p \in D!Paths, NEW q \in D!Sources(p)
      PROVE  t[q] \in D!Entries
  <2>1. t \in DTrees /\ q \in D!Paths
    BY DEF DirInv, DirTyped, D!Sources
  <2> QED
    BY <2>1, DirTreeFacts
<1>4. ASSUME NEW p \in D!Paths, p \notin S, ByTried(p)
      PROVE  ByTried(p)'
  <2>1. CASE \E t \in tried, q \in D!Sources(p) : D!StandsFor(p, data[p], t[q])
    <3>1. PICK t \in tried, q \in D!Sources(p) : D!StandsFor(p, data[p], t[q])
      BY <2>1
    <3>2. D!StandsFor(p, data'[p], t[q]) /\ t \in tried' /\ q \in D!Sources(p)'
      BY <1>1, <1>2, <1>3, <1>4, <1>e, <3>1
    <3>3. D!StandsFor(p, data[p], t[q])' <=> D!StandsFor(p, data'[p], t[q])
      BY DEF D!StandsFor, D!Raw, D!Meant, D!Shown, D!IsMarker, D!Marked
    <3> QED
      BY <3>2, <3>3 DEF ByTried
  <2>2. CASE /\ data[p].k = "file" /\ data[p].text = D!Empty
             /\ \E t \in tried : t[p].k \in {"file", "link"}
    BY <1>1, <1>2, <1>4, <2>2 DEF ByTried
  <2> QED
    BY <1>4, <2>1, <2>2 DEF ByTried
<1>5. ASSUME NEW p \in D!Paths, p \in S, data'[p].k # "none"
      PROVE  ByTried(p)'
  <2>1. p = s
    BY <1>5, DirEntriesAre DEF SaveStep
  <2>2. \A t \in tried, q \in D!Sources(p) :
          D!StandsFor(p, data[p], t[q])' <=> D!StandsFor(p, data'[p], t[q])
    BY DEF D!StandsFor, D!Raw, D!Meant, D!Shown, D!IsMarker, D!Marked
  <2> QED
    BY <1>1, <1>3, <1>5, <2>1, <2>2 DEF SourcedAt, ByTried
<1>6. ASSUME NEW p \in D!Paths, data'[p].k # "none"
      PROVE  \/ ByTried(p)'
             \/ /\ D!StandsFor(p, data'[p], D!Saved'[p])
                /\ D!StandsFor(p, data'[p], known'[p])
  <2>1. CASE p \in S
    BY <1>5, <1>6, <2>1
  <2>2. CASE p \notin S
    <3>1. data[p].k # "none"
      BY <1>2, <1>6, <2>2
    <3>2. \/ ByTried(p)
          \/ D!StandsFor(p, data[p], D!Saved[p]) /\ D!StandsFor(p, data[p], known[p])
      BY <3>1 DEF DirInv, Sourced
    <3>3. D!Saved[p] \in D!Entries /\ known[p] \in D!Entries
      BY SavedIsTree, DirTreeFacts DEF DirInv, DirTyped
    <3> QED
      BY <1>1, <1>2, <1>3, <1>4, <2>2, <3>2, <3>3
  <2> QED
    BY <2>1, <2>2
<1>7. ASSUME NEW p \in D!Paths \ (job'.rm \cup job'.mkdir \cup job'.put), data'[p].k # "none"
      PROVE  ByTried(p)'
  <2>1. CASE p \in S
    BY <1>5, <1>7, <2>1
  <2>2. CASE p \notin S
    <3>1. data[p].k # "none" /\ p \notin (job.rm \cup job.mkdir \cup job.put)
      BY <1>2, <1>7, <2>2 DEF SaveStep
    <3> QED
      BY <1>1, <1>4, <2>2, <3>1 DEF DirInv, Sourced
  <2> QED
    BY <2>1, <2>2
<1>8. ASSUME NEW p \in D!Paths
      PROVE  /\ D!StandsFor(p, data[p], known[p])' <=> D!StandsFor(p, data'[p], known'[p])
             /\ D!StandsFor(p, data[p], D!Saved[p])' <=> D!StandsFor(p, data'[p], D!Saved'[p])
  BY DEF D!StandsFor, D!Raw, D!Meant, D!Shown, D!IsMarker, D!Marked
<1> QED
  BY <1>6, <1>7, <1>8 DEF Sourced

(* What no save has changed is in every tree as in the last whole save,    *)
(* and so is the first name of a file.                                     *)
LEMMA UntouchedAt ==
  ASSUME DirTyped, NEW p \in D!Paths, D!Untouched(p), NEW t \in tried
  PROVE  /\ t \in DTrees /\ D!Saved \in DTrees /\ t[p].k = D!Saved[p].k
         /\ t[p].k # "file" => t[p] = D!Saved[p]
         /\ t[p].k = "file" =>
              /\ t[p].text = D!Saved[p].text /\ t[p].id = D!Saved[p].id
              /\ t[p].id \in D!Paths /\ D!Untouched(t[p].id)
<1> PICK m : m = D!Saved
  OBVIOUS
<1>1. /\ t \in DTrees /\ m \in DTrees /\ D!Shown(t[p]) = D!Shown(m[p])
      /\ t[p] \in D!Entries /\ m[p] \in D!Entries
  BY SavedIsTree, DirTreeFacts DEF DirTyped, D!Untouched
<1>2. t[p].k = m[p].k /\ (t[p].k # "file" => t[p] = m[p])
      /\ (t[p].k = "file" => t[p].text = m[p].text)
  BY <1>1, SameShown
<1>3. ASSUME t[p].k = "file"
      PROVE  t[p].id = m[p].id /\ t[p].id \in D!Paths /\ D!Untouched(t[p].id)
  <2>1. D!Names(t, p) = D!Names(m, p) /\ m[p].k = "file"
    BY <1>2, <1>3 DEF D!Untouched
  <2>2. t[p].id = D!First(D!Names(t, p)) /\ t[p].id \in D!Paths
    BY <1>1, <1>3, DirTreeFacts
  <2>3. m[p].id = D!First(D!Names(m, p)) /\ m[p].id \in D!Names(m, p)
    BY <1>1, <2>1, DirTreeFacts
  <2> PICK f : f = m[p].id
    OBVIOUS
  <2>4. ASSUME NEW u \in tried
        PROVE  D!Shown(u[f]) = D!Shown(m[f]) /\ (u[f].k = "file" => D!Names(u, f) = D!Names(m, f))
    <3>1. u \in DTrees /\ D!Shown(u[p]) = D!Shown(m[p])
      BY DEF DirTyped, D!Untouched
    <3>2. u[p].k = "file"
      BY <1>1, <2>1, <3>1, SameShown, DirTreeFacts
    <3>3. D!Names(u, p) = D!Names(m, p)
      BY <3>2 DEF D!Untouched
    <3>4. u[f] = u[p] /\ m[f] = m[p]
      <4>1. f \in D!Names(u, p) /\ f \in D!Names(m, p)
        BY <2>3, <3>3
      <4>2. u[f] = u[p]
        BY <3>1, <3>2, <4>1, NamesHaveOneEntry
      <4>3. m[f] = m[p]
        BY <1>1, <2>1, <4>1, NamesHaveOneEntry
      <4> QED
        BY <4>2, <4>3
    <3>5. D!Names(u, f) = D!Names(u, p) /\ D!Names(m, f) = D!Names(m, p)
      BY <3>4 DEF D!Names
    <3> QED
      BY <3>1, <3>3, <3>4, <3>5
  <2>5. D!Untouched(f)
    BY <2>4 DEF D!Untouched
  <2> QED
    BY <2>1, <2>2, <2>3, <2>5
<1> QED
  BY <1>1, <1>2, <1>3

(* What no save has changed is left alone.                                 *)
LEMMA StepKeepsUntouched ==
  ASSUME DirInv, NEW s \in D!Paths, NEW S, SaveStep(s, S), DoneAt(s),
         D!Untouched(s) /\ job.tree[s].k \in {"file", "link"} => data' = data
  PROVE  UntouchedKept'
<1> PICK t : t = job.tree
  OBVIOUS
<1> PICK m : m = D!Saved
  OBVIOUS
<1>1. /\ job \in DJobs /\ t \in tried /\ data \in DTrees /\ data' \in DTrees
      /\ known' = known /\ Alike(data, data', S) /\ D!Saved' = m /\ DirTyped
  BY TriedSame DEF SaveStep, DirInv, DirTyped, JobShaped
<1> SUFFICES ASSUME NEW p \in D!Paths, D!Untouched(p)
             PROVE  MatchAt(m, p)' /\ D!Shown(known[p]) = D!Shown(m[p])
  <2>1. \A p : D!Untouched(p)' <=> D!Untouched(p)
    BY TriedSame DEF SaveStep
  <2>2. \A p : D!Shown(known[p])' = D!Shown(known'[p]) /\ D!Shown(D!Saved[p])' = D!Shown(D!Saved'[p])
    BY DEF D!Shown
  <2>3. \A p : MatchAt(D!Saved, p)' <=> MatchAt(m, p)'
    BY <1>1 DEF MatchAt, LinkAt, NamedAt, D!Raw
  <2> QED
    BY <1>1, <2>1, <2>2, <2>3 DEF UntouchedKept
<1>2. MatchAt(m, p) /\ D!Shown(known[p]) = D!Shown(m[p])
  BY DEF DirInv, UntouchedKept
<1>3. /\ t \in DTrees /\ m \in DTrees /\ t[p].k = m[p].k
      /\ t[p].k # "file" => t[p] = m[p]
      /\ t[p].k = "file" =>
           /\ t[p].text = m[p].text /\ t[p].id = m[p].id
           /\ t[p].id \in D!Paths /\ D!Untouched(t[p].id)
  BY <1>1, UntouchedAt
<1>4. ASSUME NEW q \in D!Paths, q \notin S
      PROVE  /\ data'[q].k = data[q].k
             /\ data[q].k # "file" => data'[q] = data[q]
             /\ data[q].k = "file" => data'[q].text = data[q].text
             /\ \A a \in D!Paths \ S :
                  data[q].k = "file" /\ data[a].k = "file"
                    => (data'[q].id = data'[a].id <=> data[q].id = data[a].id)
  BY <1>1, <1>4, AlikeAt
<1>5. CASE data' = data
  BY <1>2, <1>5 DEF MatchAt, LinkAt, NamedAt, D!Raw
<1>6. CASE p \in S /\ p # s
  <2>1. data'[p] = D!Nothing /\ t[p].k = "none"
    BY <1>6 DEF SaveStep
  <2> QED
    BY <1>2, <1>3, <2>1 DEF MatchAt
<1>7. CASE p = s /\ t[p].k \in {"none", "dir"}
  <2>1. t[p].k = "none" => data'[p] = D!Nothing
    BY <1>7 DEF DoneAt
  <2>2. t[p].k = "dir" => data'[p] = D!Dir
    BY <1>7 DEF DoneAt
  <2> QED
    BY <1>2, <1>3, <1>7, <2>1, <2>2 DEF MatchAt
<1>8. CASE p = s /\ t[p].k \in {"file", "link"}
  BY <1>5, <1>8
<1>9. CASE p \notin S /\ m[p].k # "file"
  <2>1. m[p].k = "none" => data'[p] = D!Nothing
    BY <1>2, <1>4, <1>9, DirEntriesAre DEF MatchAt
  <2>2. m[p].k = "dir" => data'[p] = D!Dir
    BY <1>2, <1>4, <1>9, DirEntriesAre DEF MatchAt
  <2>3. ASSUME m[p].k = "link"
        PROVE  LinkAt(m, p)'
    <3>1. D!Raw(p, m[p])' = D!Raw(p, m[p])
      BY DEF D!Raw
    <3>2. m[p] \in D!Entries
      BY <1>3, DirTreeFacts
    <3>3. D!Raw(p, m[p]).k = "link"
      BY <2>3, <3>2, RawCases
    <3> QED
      BY <1>2, <1>4, <1>9, <2>3, <3>1, <3>3 DEF MatchAt, LinkAt
  <2> QED
    BY <1>2, <1>9, <2>1, <2>2, <2>3 DEF MatchAt
<1>10. CASE p \notin S /\ m[p].k = "file"
  <2> PICK f : f = m[p].id
    OBVIOUS
  <2>1. f \in D!Paths /\ D!Untouched(f) /\ t[p].id = f /\ t[p].k = "file"
    BY <1>3, <1>10
  <2>2. t[f].k = "file"
    BY <1>3, <2>1, DirTreeFacts
  <2>3. CASE f = s
    BY <1>5, <2>1, <2>2, <2>3
  <2>4. CASE f # s
    <3>1. f \notin S
      BY <2>2, <2>4 DEF SaveStep
    <3>2. data[p].k = "file" /\ data[f].k = "file" /\ data[p].id = data[f].id
          /\ data[p].text = m[p].text
      BY <1>2, <1>10 DEF MatchAt, NamedAt
    <3>3. data'[p].k = "file" /\ data'[p].text = m[p].text
      BY <1>4, <1>10, <3>2
    <3>4. data'[f].k = "file"
      BY <1>4, <2>1, <3>1, <3>2
    <3>5. data'[p].id = data'[f].id
      BY <1>4, <1>10, <2>1, <3>1, <3>2
    <3>6. NamedAt(m, p)'
      BY <3>3, <3>4, <3>5 DEF NamedAt
    <3> QED
      BY <1>2, <1>10, <3>3, <3>6 DEF MatchAt
  <2> QED
    BY <2>3, <2>4
<1>11. t[p].k \in {"none", "dir", "link", "file"}
  BY <1>3, DirTreeFacts, DirEntryCases
<1> QED
  BY <1>6, <1>7, <1>8, <1>9, <1>10, <1>11

(* A step of a save that does its part keeps the invariant.                *)
LEMMA StepKeeps ==
  ASSUME DirInv, NEW s \in D!Paths, NEW S, SaveStep(s, S), DoneAt(s), RememberedAt(s), SourcedAt(s),
         D!Untouched(s) /\ job.tree[s].k \in {"file", "link"} => data' = data,
         JobShaped'
  PROVE  DirInv'
<1>1. DirTyped'
  BY DEF SaveStep, DirInv, DirTyped
<1> QED
  BY <1>1, StepKeepsDone, StepKeepsRemembers, StepKeepsSourced, StepKeepsUntouched DEF DirInv

---------------------------------------------------------------------------
(* The actions of a save.                                                  *)

(* What is gone is removed.                                                *)
LEMMA RemoveGoneKeeps ==
  ASSUME DirInv, D!RemoveGone
  PROVE  DirInv'
<1> PICK s : s = D!LastOf(job.rm)
  OBVIOUS
<1> PICK t : t = job.tree
  OBVIOUS
<1>1. job \in DJobs /\ job.rm # {} /\ data \in DTrees /\ t \in DTrees
  BY DJobFields DEF D!RemoveGone, D!Removing, DirInv, DirTyped
<1>2. s \in job.rm /\ s \in D!Paths
  BY <1>1, LastOfSome, DJobFields
<1>3. t[s].k = "none" /\ t \in tried /\ job.at = "look" /\ job.at \in {"look", "gone", "wrong", "open"}
  BY <1>1, <1>2, DJobFields DEF DirInv, JobShaped
<1>j. PICK j : j = [job EXCEPT !.rm = job.rm \ {s}]
  OBVIOUS
<1>4. /\ data' = D!Cut(data, s) /\ job' = j
      /\ UNCHANGED <<live, queue, known, failed, manifest, tried>>
  BY <1>j DEF D!RemoveGone, D!Step
<1>5. /\ j \in DJobs /\ j.rm = job.rm \ {s} /\ j.at = "look" /\ j.tree = t
      /\ j.mkdir = job.mkdir /\ j.put = job.put
  <2>x. PICK x : x = job.rm \ {s}
    OBVIOUS
  <2>1. x \in SUBSET D!Paths
    BY <2>x, <1>1, DJobFields
  <2>2. j = [job EXCEPT !.rm = x]
    BY <1>j, <2>x
  <2>3. /\ j \in DJobs /\ j.at = job.at /\ j.tree = job.tree /\ j.rm = x
        /\ j.mkdir = job.mkdir /\ j.put = job.put
    BY <1>1, <2>1, <2>2 DEF DJobs
  <2> QED
    BY <2>x, <1>3, <2>3
<1> PICK S : S = {s} \cup D!Down(s)
  OBVIOUS
<1>6. /\ data' \in DTrees /\ Alike(data, data', S) /\ \A q \in S : data'[q] = D!Nothing
  BY <1>1, <1>2, <1>4, CutFacts
<1>7. \A q \in S \ {s} : t[q].k = "none"
  BY <1>1, <1>2, <1>3, TreeIsNumbered, NothingIn, DirEntriesAre
<1>8. S \in SUBSET D!Paths /\ s \in S
  BY <1>2, DirPaths
<1>9. SaveStep(s, S)
  BY <1>1, <1>2, <1>3, <1>4, <1>5, <1>6, <1>7, <1>8 DEF SaveStep
<1>10. DoneAt(s)
  BY <1>3, <1>6, <1>8 DEF DoneAt
<1>11. data'[s].k = "none" /\ data'[s] = D!Nothing
  BY <1>6, <1>8, DirEntriesAre
<1>12. RememberedAt(s)
  BY <1>3, <1>11 DEF RememberedAt, Quiet
<1>13. SourcedAt(s)
  BY <1>11 DEF SourcedAt
<1>14. JobShaped'
  BY <1>1, <1>4, <1>5 DEF DirInv, JobShaped
<1> QED
  BY <1>2, <1>3, <1>9, <1>10, <1>12, <1>13, <1>14, StepKeeps

(* A directory is made in the ones made before.                            *)
LEMMA MakeDirectoryKeeps ==
  ASSUME DirInv, D!MakeDirectory
  PROVE  DirInv'
<1> PICK s : s = D!First(job.mkdir)
  OBVIOUS
<1> PICK t : t = job.tree
  OBVIOUS
<1> PICK e : e = D!Dir
  OBVIOUS
<1>1. /\ job \in DJobs /\ job.mkdir # {} /\ data \in DTrees /\ t \in DTrees
      /\ job.mkdir \in SUBSET D!Paths
  BY DJobFields DEF D!MakeDirectory, D!Making, DirInv, DirTyped
<1>2. s \in job.mkdir /\ s \in D!Paths /\ \A q \in D!Up(s) : q \notin job.mkdir
  BY <1>1, FirstOfSome
<1>3. t[s].k = "dir" /\ t \in tried /\ job.at = "look" /\ job.at \in {"look", "gone", "wrong", "open"}
  BY <1>1, <1>2, DJobFields DEF DirInv, JobShaped
<1>j. PICK j : j = [job EXCEPT !.mkdir = job.mkdir \ {s}]
  OBVIOUS
<1>4. /\ data[s].k \in {"none", "dir"} /\ data' = [data EXCEPT ![s] = e] /\ job' = j
      /\ UNCHANGED <<live, queue, known, failed, manifest, tried>>
  BY <1>j DEF D!MakeDirectory, D!Step
<1>5. /\ j \in DJobs /\ j.mkdir = job.mkdir \ {s} /\ j.at = "look" /\ j.tree = t
      /\ j.rm = job.rm /\ j.put = job.put
  <2>x. PICK x : x = job.mkdir \ {s}
    OBVIOUS
  <2>1. x \in SUBSET D!Paths
    BY <2>x, <1>1
  <2>2. j = [job EXCEPT !.mkdir = x]
    BY <1>j, <2>x
  <2>3. /\ j \in DJobs /\ j.at = job.at /\ j.tree = job.tree /\ j.mkdir = x
        /\ j.rm = job.rm /\ j.put = job.put
    BY <1>1, <2>1, <2>2 DEF DJobs
  <2> QED
    BY <2>x, <1>3, <2>3
<1>6. \A q \in D!Up(s) : data[q].k = "dir"
  <2> SUFFICES ASSUME NEW q \in D!Up(s)
               PROVE  data[q].k = "dir"
    OBVIOUS
  <2>1. q \in D!Paths /\ t[q].k = "dir" /\ q \notin job.mkdir
    BY <1>1, <1>2, <1>3, DirPaths, DirTreeFacts
  <2>2. data[q] = D!Dir
    BY <1>1, <2>1 DEF DirInv, JobDone
  <2> QED
    BY <2>2, DirEntriesAre
<1>7. e \in D!Entries /\ e.k = "dir"
  BY DirEntriesAre
<1>14. data' \in [D!Paths -> D!Entries] /\ data'[s] = e /\ \A q \in D!Paths \ {s} : data'[q] = data[q]
  BY <1>1, <1>2, <1>4, <1>7 DEF DTrees
<1>8. data' \in DTrees /\ Alike(data, data', {s}) /\ data'[s] = e
  BY <1>1, <1>2, <1>4, <1>6, <1>7, <1>14, NewEntry
<1>9. SaveStep(s, {s})
  BY <1>1, <1>2, <1>3, <1>4, <1>5, <1>8 DEF SaveStep
<1>10. DoneAt(s)
  BY <1>3, <1>8 DEF DoneAt
<1>11. RememberedAt(s)
  BY <1>3, <1>7, <1>8 DEF RememberedAt, Quiet
<1>12. SourcedAt(s)
  <2>1. t[s] = e
    BY <1>1, <1>2, <1>3, DirTreeFacts, DirEntryCases
  <2>2. s \in D!Sources(s)
    BY <1>2, SourcesOf
  <2>3. D!StandsFor(s, data'[s], t[s])
    BY <1>8, <2>1 DEF D!StandsFor
  <2> QED
    BY <1>3, <2>2, <2>3 DEF SourcedAt
<1>13. JobShaped'
  BY <1>1, <1>4, <1>5 DEF DirInv, JobShaped
<1> QED
  BY <1>2, <1>3, <1>9, <1>10, <1>11, <1>12, <1>13, StepKeeps

(* When files and links are put, the directories they go to are there, and *)
(* so is the first name of the file.                                       *)
LEMMA PuttingFacts ==
  ASSUME DirInv, D!Putting, NEW s, s = D!Subject, NEW t, t = job.tree
  PROVE  /\ job \in DJobs /\ job.rm = {} /\ job.mkdir = {} /\ job.put \in SUBSET D!Paths
         /\ s \in job.put /\ s \in D!Paths /\ s = D!First(job.put)
         /\ t \in DTrees /\ t \in tried /\ data \in DTrees
         /\ t[s] = D!Wanted /\ t[s] \in D!Entries /\ t[s].k \in {"file", "link"}
         /\ \A q \in D!Up(s) : data[q].k = "dir"
         /\ \A q \in D!Down(s) : t[q].k = "none"
         /\ t[s].k = "file" /\ t[s].id # s =>
              LET f == t[s].id
              IN  /\ f \in D!Paths \ job.put /\ t[f].k = "file" /\ data[f].k = "file"
                  /\ D!Sources(f) \subseteq D!Sources(s) /\ ByTried(f)
<1>1. /\ job \in DJobs /\ job.rm = {} /\ job.mkdir = {} /\ job.put \in SUBSET D!Paths
      /\ job.put # {} /\ t \in DTrees /\ t \in tried /\ data \in DTrees /\ s = D!First(job.put)
  BY DJobFields DEF D!Putting, D!Subject, DirInv, DirTyped, JobShaped
<1>2. s \in job.put /\ s \in D!Paths
  BY <1>1, FirstOfSome
<1>3. t[s] = D!Wanted /\ t[s] \in D!Entries /\ t[s].k \in {"file", "link"}
  BY <1>1, <1>2, DirTreeFacts DEF D!Wanted, DirInv, JobShaped
<1>4. ASSUME NEW q \in D!Up(s)
      PROVE  data[q].k = "dir"
  <2>1. q \in D!Paths /\ t[q].k = "dir"
    BY <1>1, <1>2, <1>3, DirPaths, DirTreeFacts
  <2>2. data[q] = D!Dir
    BY <1>1, <2>1 DEF DirInv, JobDone
  <2> QED
    BY <2>2, DirEntriesAre
<1>5. \A q \in D!Down(s) : t[q].k = "none"
  BY <1>1, <1>2, <1>3, TreeIsNumbered, NothingIn, DirEntriesAre
<1>6. ASSUME NEW f, f = t[s].id, t[s].k = "file", f # s
      PROVE  /\ f \in D!Paths \ job.put /\ t[f].k = "file" /\ data[f].k = "file"
             /\ D!Sources(f) \subseteq D!Sources(s) /\ ByTried(f)
  <2>1. f = D!First(D!Names(t, s)) /\ f \in D!Names(t, s) /\ f \in D!Paths /\ t[f].k = "file"
    BY <1>1, <1>2, <1>6, DirTreeFacts
  <2>2. f \notin job.put
    <3>1. D!Names(t, s) \in SUBSET D!Paths /\ s \in D!Names(t, s)
      BY <1>2, <1>6, FirstName
    <3> QED
      BY <1>1, <1>2, <1>6, <2>1, <3>1, FirstNameBefore
  <2>3. FileDone(t, f)
    BY <1>1, <2>1, <2>2 DEF DirInv, JobDone
  <2>4. data[f].k = "file"
    BY <2>3 DEF FileDone, NamedAt
  <2>5. D!Sources(f) \subseteq D!Sources(s)
    BY <1>1, <1>2, <1>6, <2>1, SourcesOf
  <2>6. ByTried(f)
    BY <1>1, <2>1, <2>2, <2>4 DEF DirInv, Sourced
  <2> QED
    BY <2>1, <2>2, <2>4, <2>5, <2>6
<1> QED
  BY <1>1, <1>2, <1>3, <1>4, <1>5, <1>6

(* What no save has changed is kept.                                       *)
LEMMA UntouchedIsKept ==
  ASSUME DirInv, NEW t \in tried, NEW s \in D!Paths, D!Untouched(s), t[s].k \in {"file", "link"}
  PROVE  D!Kept(s, t[s]) /\ data[s] # D!Nothing
<1> PICK m : m = D!Saved
  OBVIOUS
<1>1. /\ t \in DTrees /\ m \in DTrees /\ t[s].k = m[s].k
      /\ t[s].k # "file" => t[s] = m[s]
      /\ t[s].k = "file" => t[s].text = m[s].text /\ t[s].id = m[s].id
  BY UntouchedAt DEF DirInv
<1>2. MatchAt(m, s) /\ D!Shown(known[s]) = D!Shown(m[s])
  BY DEF DirInv, UntouchedKept
<1>3. known[s] \in D!Entries /\ m[s] \in D!Entries
  BY <1>1, DirTreeFacts DEF DirInv, DirTyped
<1>4. known[s].k = m[s].k /\ (m[s].k # "file" => known[s] = m[s])
      /\ (m[s].k = "file" => known[s].text = m[s].text)
  BY <1>2, <1>3, SameShown
<1>5. CASE t[s].k = "link"
  <2>1. LinkAt(m, s) /\ t[s] = m[s] /\ known[s] = t[s]
    BY <1>1, <1>2, <1>4, <1>5 DEF MatchAt
  <2>2. D!LinkKept(s, t[s])
    BY <2>1 DEF LinkAt, D!LinkKept
  <2>3. D!Kept(s, t[s])
    BY <1>5, <2>2 DEF D!Kept
  <2>4. data[s] # D!Nothing
    <3>1. D!Raw(s, m[s]).k = "link"
      BY <1>3, <1>5, <2>1, RawCases
    <3> QED
      BY <2>1, <3>1, DirEntriesAre DEF LinkAt
  <2> QED
    BY <2>3, <2>4
<1>6. CASE t[s].k = "file"
  <2>1. NamedAt(m, s)
    BY <1>1, <1>2, <1>6 DEF MatchAt
  <2>2. data[s].k = "file" /\ data[s] # D!Nothing
    BY <2>1, DirEntriesAre DEF NamedAt
  <2>3. CASE t[s].id = s
    <3>1. D!FileKept(s, t[s])
      BY <1>1, <1>4, <1>6, <2>2 DEF D!FileKept
    <3> QED
      BY <1>6, <2>2, <2>3, <3>1 DEF D!Kept
  <2>4. CASE t[s].id # s
    <3>1. D!NameKept(s, t[s])
      BY <1>1, <1>6, <2>1 DEF NamedAt, D!NameKept
    <3> QED
      BY <1>6, <2>2, <2>4, <3>1 DEF D!Kept
  <2> QED
    BY <2>3, <2>4
<1> QED
  BY <1>5, <1>6

(* What is left when a file or a link is in its place.                     *)
LEMMA DoneFacts ==
  ASSUME DirInv, D!Putting, NEW s, s = D!Subject, NEW j, j = D!Done
  PROVE  /\ j \in DJobs /\ j.at = "look" /\ j.tree = job.tree
         /\ j.rm = {} /\ j.mkdir = {} /\ j.put = job.put \ {s}
<1> PICK t : t = job.tree
  OBVIOUS
<1>1. job \in DJobs /\ job.rm = {} /\ job.mkdir = {} /\ job.put \in SUBSET D!Paths
  BY PuttingFacts
<1>x. PICK x : x = job.put \ {s}
  OBVIOUS
<1>2. x \in SUBSET D!Paths
  BY <1>x, <1>1
<1>3. j = [job EXCEPT !.at = "look", !.put = x]
  BY <1>x DEF D!Done
<1>4. /\ j \in DJobs /\ j.at = "look" /\ j.tree = job.tree
      /\ j.rm = job.rm /\ j.mkdir = job.mkdir /\ j.put = x
  BY <1>1, <1>2, <1>3 DEF DJobs
<1> QED
  BY <1>x, <1>1, <1>4

(* Such a step is a step of the save, and leaves it in order.              *)
LEMMA DoneIsStep ==
  ASSUME DirInv, D!Putting, NEW s, s = D!Subject, job' = D!Done,
         data' \in DTrees, Alike(data, data', {s}),
         UNCHANGED <<live, queue, known, failed, manifest, tried>>
  PROVE  SaveStep(s, {s}) /\ JobShaped' /\ s \notin job'.put
<1> PICK t : t = job.tree
  OBVIOUS
<1>1. /\ job \in DJobs /\ job.rm = {} /\ job.mkdir = {} /\ job.put \in SUBSET D!Paths
      /\ s \in job.put /\ s \in D!Paths /\ t \in tried
  BY PuttingFacts
<1>2. /\ job' \in DJobs /\ job'.at = "look" /\ job'.tree = t
      /\ job'.rm = {} /\ job'.mkdir = {} /\ job'.put = job.put \ {s}
  BY DoneFacts
<1>3. SaveStep(s, {s})
  BY <1>1, <1>2 DEF SaveStep
<1>4. JobShaped'
  BY <1>1, <1>2 DEF DirInv, JobShaped
<1> QED
  BY <1>2, <1>3, <1>4

(* A file that has the text of the first name of its file comes from where *)
(* that one does.                                                          *)
LEMMA FileSource ==
  ASSUME DirInv, NEW f \in D!Paths, NEW s \in D!Paths, NEW e \in D!Entries, data[f].k = "file",
         e.k = "file", e.text = data[f].text, D!Sources(f) \subseteq D!Sources(s), ByTried(f),
         NEW t \in tried, t[s].k = "file"
  PROVE  \/ \E u \in tried, q \in D!Sources(s) : D!StandsFor(s, e, u[q])
         \/ e.text = D!Empty /\ \E u \in tried : u[s].k \in {"file", "link"}
<1>1. CASE \E u \in tried, q \in D!Sources(f) : D!StandsFor(f, data[f], u[q])
  <2>1. PICK u \in tried, q \in D!Sources(f) : D!StandsFor(f, data[f], u[q])
    BY <1>1
  <2>2. u \in DTrees /\ q \in D!Paths /\ data \in DTrees
    BY DEF DirInv, DirTyped, D!Sources
  <2>3. u[q] \in D!Entries /\ data[f] \in D!Entries
    BY <2>2, DirTreeFacts
  <2>4. D!StandsFor(s, e, u[q])
    BY <2>1, <2>3, FileStandsFor
  <2> QED
    BY <2>1, <2>4
<1>2. CASE data[f].text = D!Empty
  BY <1>2
<1> QED
  BY <1>1, <1>2 DEF ByTried

(* What has not changed stays.                                             *)
LEMMA KeepKeeps ==
  ASSUME DirInv, D!Keep
  PROVE  DirInv'
<1> PICK s : s = D!Subject
  OBVIOUS
<1> PICK t : t = job.tree
  OBVIOUS
<1>1. /\ D!Putting /\ job.at = "look" /\ D!Kept(s, D!Wanted) /\ data' = data /\ job' = D!Done
      /\ UNCHANGED <<live, queue, known, failed, manifest, tried>>
  BY DEF D!Keep, D!Look, D!Step
<1>2. /\ job \in DJobs /\ s \in job.put /\ s \in D!Paths /\ s = D!First(job.put)
      /\ t \in DTrees /\ t \in tried /\ data \in DTrees
      /\ t[s] = D!Wanted /\ t[s] \in D!Entries /\ t[s].k \in {"file", "link"}
  BY <1>1, PuttingFacts
<1>3. SaveStep(s, {s}) /\ JobShaped' /\ s \notin job'.put
  BY <1>1, <1>2, AlikeSame, DoneIsStep
<1>4. s \in D!Sources(s)
  BY <1>2, SourcesOf
<1>5. (\A u \in tried : Quiet(u, s)) => AsKnown(s)
  BY <1>2 DEF DirInv, Remembers
<1>6. RememberedAt(s)
  BY <1>1, <1>3, <1>5 DEF RememberedAt, AsKnown
<1>7. data[s] \in D!Entries /\ known[s] \in D!Entries
  BY <1>2, DirTreeFacts DEF DirInv, DirTyped
<1>8. CASE t[s].k = "link"
  <2>1. /\ known[s] = t[s]
        /\ data[s] = D!Raw(s, t[s]) \/ (data[s].k = "file" /\ data[s].text = D!Marker(t[s].to))
    BY <1>1, <1>2, <1>8 DEF D!Kept, D!LinkKept
  <2>2. DoneAt(s)
    BY <1>1, <1>8, <2>1 DEF DoneAt
  <2>3. t[s].to \in Targets /\ t[s] = D!Sym(t[s].to)
    BY <1>2, <1>8, DirEntryCases
  <2>4. D!StandsFor(s, data[s], t[s])
    <3>1. D!Meant(t[s]) = t[s]
      BY <1>2, <1>8, MeantCases
    <3>2. CASE data[s] # D!Raw(s, t[s])
      <4>1. D!Meant(data[s]) = D!Sym(t[s].to)
        BY <1>7, <2>1, <2>3, <3>2, MeantCases
      <4> QED
        BY <2>3, <3>1, <4>1 DEF D!StandsFor
    <3> QED
      BY <3>2 DEF D!StandsFor
  <2>5. SourcedAt(s)
    BY <1>1, <1>2, <1>4, <2>4 DEF SourcedAt
  <2> QED
    BY <1>1, <1>2, <1>3, <1>6, <2>2, <2>5, StepKeeps
<1>9. CASE t[s].k = "file" /\ t[s].id = s
  <2>1. known[s].k = "file" /\ known[s].text = t[s].text /\ data[s].k = "file"
    BY <1>1, <1>2, <1>9 DEF D!Kept, D!FileKept
  <2>2. ASSUME SureText(t, s)
        PROVE  data[s].text = t[s].text
    <3>1. CASE failed
      <4>1. \A u \in tried : Quiet(u, s)
        BY <2>1, <2>2, <3>1 DEF SureText, Quiet
      <4> QED
        BY <1>5, <2>1, <4>1 DEF AsKnown
    <3>2. CASE ~failed
      BY <1>1, <1>2, <2>1, <3>2 DEF DirInv, Remembers
    <3> QED
      BY <3>1, <3>2
  <2>3. DoneAt(s)
    BY <1>1, <1>3, <1>9, <2>1, <2>2 DEF DoneAt
  <2>4. D!Meant(known[s]) = D!Meant(t[s])
    BY <1>2, <1>7, <1>9, <2>1, SameText
  <2>5. ByTried(s) \/ D!StandsFor(s, data[s], t[s])
    <3>1. ByTried(s) \/ D!StandsFor(s, data[s], known[s])
      BY <1>2, <2>1 DEF DirInv, Sourced
    <3>2. D!Raw(s, known[s]) = known[s]
      BY <1>2, <1>7, <2>1, RawCases
    <3> QED
      BY <2>4, <3>1, <3>2 DEF D!StandsFor
  <2>6. SourcedAt(s)
    BY <1>1, <1>2, <1>4, <2>4, <2>5 DEF SourcedAt, ByTried
  <2> QED
    BY <1>1, <1>2, <1>3, <1>6, <2>3, <2>6, StepKeeps
<1>10. CASE t[s].k = "file" /\ t[s].id # s
  <2> PICK f : f = t[s].id
    OBVIOUS
  <2>1. /\ data[s].k = "file" /\ data[f].k = "file" /\ data[s].id = data[f].id
    BY <1>1, <1>2, <1>10 DEF D!Kept, D!NameKept
  <2>2. /\ f \in D!Paths \ job.put /\ t[f].k = "file"
        /\ D!Sources(f) \subseteq D!Sources(s) /\ ByTried(f)
    BY <1>1, <1>10, PuttingFacts
  <2>3. DoneAt(s)
    BY <1>1, <1>3, <1>10, <2>1, <2>2 DEF DoneAt, SaveStep
  <2>4. data[s] = data[f]
    BY <1>2, <2>1, <2>2, DirTreeFacts
  <2>5. data[s].k = "file" /\ data[s].text = data[f].text
    BY <2>1, <2>4
  <2>6. \/ \E u \in tried, q \in D!Sources(s) : D!StandsFor(s, data[s], u[q])
        \/ data[s].text = D!Empty /\ \E u \in tried : u[s].k \in {"file", "link"}
    BY <1>2, <1>7, <1>10, <2>1, <2>2, <2>5, FileSource
  <2>7. SourcedAt(s)
    BY <1>1, <2>1, <2>6 DEF SourcedAt
  <2> QED
    BY <1>1, <1>2, <1>3, <1>6, <2>3, <2>7, StepKeeps
<1> QED
  BY <1>2, <1>8, <1>9, <1>10

(* What is in the way is removed, with all below it.                       *)
LEMMA RemoveOtherKeeps ==
  ASSUME DirInv, D!RemoveOther
  PROVE  DirInv'
<1> PICK s : s = D!Subject
  OBVIOUS
<1> PICK t : t = job.tree
  OBVIOUS
<1>a. PICK a : a = IF D!Wrong(s, D!Wanted) THEN "wrong" ELSE "gone"
  OBVIOUS
<1>1. /\ D!Putting /\ job.at = "look" /\ ~D!Kept(s, D!Wanted) /\ data' = D!Cut(data, s)
      /\ job' = [job EXCEPT !.at = a]
      /\ UNCHANGED <<live, queue, known, failed, manifest, tried>>
  BY <1>a DEF D!RemoveOther, D!Look, D!Step
<1>2. /\ job \in DJobs /\ job.rm = {} /\ job.mkdir = {} /\ job.put \in SUBSET D!Paths
      /\ s \in job.put /\ s \in D!Paths /\ s = D!First(job.put)
      /\ t \in DTrees /\ t \in tried /\ data \in DTrees
      /\ t[s] = D!Wanted /\ t[s] \in D!Entries /\ t[s].k \in {"file", "link"}
      /\ \A q \in D!Down(s) : t[q].k = "none"
  BY <1>1, PuttingFacts
<1>3. a \in {"gone", "wrong"}
  BY <1>a
<1>4. /\ job' \in DJobs /\ job'.at = a /\ job'.tree = t
      /\ job'.rm = {} /\ job'.mkdir = {} /\ job'.put = job.put
  BY <1>1, <1>2, <1>3 DEF DJobs
<1> PICK S : S = {s} \cup D!Down(s)
  OBVIOUS
<1>5. /\ data' \in DTrees /\ Alike(data, data', S) /\ \A q \in S : data'[q] = D!Nothing
  BY <1>1, <1>2, CutFacts
<1>6. S \in SUBSET D!Paths /\ s \in S
  BY <1>2, DirPaths
<1>7. SaveStep(s, S)
  BY <1>1, <1>2, <1>3, <1>4, <1>5, <1>6 DEF SaveStep
<1>8. data'[s] = D!Nothing /\ data'[s].k = "none"
  BY <1>5, <1>6, DirEntriesAre
<1>9. DoneAt(s)
  BY <1>2, <1>4 DEF DoneAt
<1>10. SourcedAt(s)
  BY <1>8 DEF SourcedAt
<1>11. RememberedAt(s)
  <2>1. ASSUME \A u \in tried : Quiet(u, s), known[s].k = "file"
        PROVE  FALSE
    <3>1. t[s].k = "file" /\ t[s].id = s /\ t[s].text = known[s].text
      BY <1>2, <2>1 DEF Quiet
    <3>2. data[s].k = "file"
      BY <1>2, <2>1 DEF DirInv, Remembers, AsKnown
    <3>3. D!FileKept(s, t[s])
      BY <2>1, <3>1, <3>2 DEF D!FileKept
    <3> QED
      BY <1>1, <1>2, <3>1, <3>3 DEF D!Kept
  <2> QED
    BY <1>8, <2>1 DEF RememberedAt
<1>12. ~D!Untouched(s)
  BY <1>1, <1>2, UntouchedIsKept
<1>13. JobShaped'
  <2>1. D!Subject' = s /\ D!Wanted' = t[s]
    BY <1>2, <1>4 DEF D!Subject, D!Wanted
  <2> QED
    BY <1>1, <1>2, <1>3, <1>4, <1>8, <2>1 DEF DirInv, JobShaped
<1> QED
  BY <1>2, <1>7, <1>9, <1>10, <1>11, <1>12, <1>13, StepKeeps

(* The first name of a file, or the file that stands for a link, is        *)
(* created, empty.                                                         *)
LEMMA DirCreateKeeps ==
  ASSUME DirInv, D!Create
  PROVE  DirInv'
<1> PICK s : s = D!Subject
  OBVIOUS
<1> PICK t : t = job.tree
  OBVIOUS
<1>e. PICK e : e = D!File(D!Empty, s)
  OBVIOUS
<1>1. /\ D!Putting /\ job.at \in {"gone", "wrong"} /\ (D!Wanted.k = "file" => D!Wanted.id = s)
      /\ data' = [data EXCEPT ![s] = e] /\ job' = [job EXCEPT !.at = "open"]
      /\ UNCHANGED <<live, queue, known, failed, manifest, tried>>
  BY <1>e DEF D!Create, D!Step
<1>2. /\ job \in DJobs /\ job.rm = {} /\ job.mkdir = {} /\ job.put \in SUBSET D!Paths
      /\ s \in job.put /\ s \in D!Paths /\ s = D!First(job.put)
      /\ t \in DTrees /\ t \in tried /\ data \in DTrees /\ t[s].k \in {"file", "link"}
      /\ t[s] = D!Wanted /\ \A q \in D!Up(s) : data[q].k = "dir"
  BY <1>1, PuttingFacts
<1>3. /\ job' \in DJobs /\ job'.at = "open" /\ job'.tree = t
      /\ job'.rm = {} /\ job'.mkdir = {} /\ job'.put = job.put
  BY <1>1, <1>2 DEF DJobs
<1>4. e \in D!Entries /\ e.k = "file" /\ e.id = s /\ e.text = D!Empty
  <2>1. D!Empty \in D!Contents
    BY DEF D!Contents
  <2> QED
    BY <1>e, <1>2, <2>1, DirEntriesAre
<1>5. data[s] = D!Nothing /\ data[s].k = "none"
  BY <1>1, <1>2, DirEntriesAre DEF DirInv, JobShaped
<1>6. data' \in [D!Paths -> D!Entries] /\ data'[s] = e /\ \A q \in D!Paths \ {s} : data'[q] = data[q]
  BY <1>1, <1>2, <1>4 DEF DTrees
<1>7. data' \in DTrees /\ Alike(data, data', {s}) /\ D!Names(data', s) = {s}
  <2>1. data \in DTrees /\ s \in D!Paths /\ \A q \in D!Up(s) : data[q].k = "dir"
    BY <1>2
  <2>2. data[s].k # "dir" /\ data[s].k # "file"
    BY <1>5
  <2>3. /\ data' \in DTrees /\ Alike(data, data', {s})
        /\ e.k = "file" => D!Names(data', s) = {s}
    BY <2>1, <2>2, <1>4, <1>6, NewEntry
  <2> QED
    BY <2>3, <1>4
<1>8. SaveStep(s, {s})
  BY <1>1, <1>2, <1>3, <1>7 DEF SaveStep
<1>9. DoneAt(s)
  BY <1>1, <1>2, <1>3 DEF DoneAt
<1>10. RememberedAt(s)
  <2>1. ASSUME \A u \in tried : Quiet(u, s)
        PROVE  FALSE
    <3>1. t[s].k = "file" /\ known[s].k = "file"
      BY <1>1, <1>2, <2>1 DEF Quiet
    <3>2. data[s].k = "file"
      BY <1>2, <2>1, <3>1 DEF DirInv, Remembers, AsKnown
    <3> QED
      BY <1>5, <3>2
  <2> QED
    BY <1>3, <2>1 DEF RememberedAt
<1>11. SourcedAt(s)
  BY <1>1, <1>2, <1>4, <1>6 DEF SourcedAt
<1>12. ~D!Untouched(s)
  BY <1>1, <1>2, <1>5, UntouchedIsKept
<1>13. JobShaped'
  <2>1. D!Subject' = s /\ D!Wanted' = t[s]
    BY <1>2, <1>3 DEF D!Subject, D!Wanted
  <2>3. data'[s] = D!File(D!Empty, s)
    BY <1>e, <1>6
  <2>4. D!File(D!Empty, D!Subject)' = D!File(D!Empty, s)
    BY <2>1 DEF D!File, D!Empty
  <2>5. /\ data'[D!Subject'] = D!File(D!Empty, D!Subject)'
        /\ D!Names(data, D!Subject)' = {D!Subject'}
        /\ D!Wanted'.k = "file" => D!Wanted'.id = D!Subject'
    <3>1. D!Names(data, D!Subject)' = D!Names(data', s)
      BY <2>1 DEF D!Names, D!Paths
    <3> QED
      BY <1>1, <1>2, <1>7, <2>1, <2>3, <2>4, <3>1
  <2>6. \A p \in job.put : t[p].k \in {"file", "link"}
    BY <1>2 DEF DirInv, JobShaped
  <2>7. \A p \in job'.put : job'.tree[p].k \in {"file", "link"}
    BY <1>3, <2>6
  <2>8. /\ job' \in DJobs /\ job'.tree \in tried' /\ job'.rm = {} /\ job'.mkdir = {}
        /\ job'.put # {} /\ job'.at = "open"
    BY <1>1, <1>2, <1>3
  <2> QED
    BY <2>5, <2>7, <2>8 DEF JobShaped
<1> QED
  BY <1>2, <1>8, <1>9, <1>10, <1>11, <1>12, <1>13, StepKeeps

(* And filled.                                                             *)
LEMMA FillKeeps ==
  ASSUME DirInv, D!Fill
  PROVE  DirInv'
<1> PICK s : s = D!Subject
  OBVIOUS
<1> PICK t : t = job.tree
  OBVIOUS
<1>1. /\ D!Putting /\ job.at = "open"
      /\ data' = [data EXCEPT ![s].text = D!Text(D!Wanted)] /\ job' = D!Done
      /\ UNCHANGED <<live, queue, known, failed, manifest, tried>>
  BY DEF D!Fill, D!Step
<1>2. /\ job \in DJobs /\ s \in job.put /\ s \in D!Paths
      /\ t \in DTrees /\ t \in tried /\ data \in DTrees
      /\ t[s] = D!Wanted /\ t[s] \in D!Entries /\ \A q \in D!Up(s) : data[q].k = "dir"
      /\ t[s].k \in {"file", "link"}
  BY <1>1, PuttingFacts
<1>3. /\ t[s].k = "file" => t[s].id = s
      /\ data[s] = D!File(D!Empty, s) /\ D!Names(data, s) = {s}
  BY <1>1, <1>2 DEF DirInv, JobShaped
<1> PICK text : text = D!Text(t[s])
  OBVIOUS
<1>t. /\ t[s].k = "file" => text = t[s].text
      /\ t[s].k = "link" => text = D!Marker(t[s].to) /\ t[s].to \in Targets
                              /\ t[s] = D!Sym(t[s].to)
      /\ text \in D!Contents
  <2>1. t[s].k = "file" => text = t[s].text /\ t[s].text \in D!Contents
    BY <1>2, DirEntryCases DEF D!Text
  <2>2. t[s].k = "link" => text = D!Marker(t[s].to) /\ t[s].to \in Targets
                             /\ t[s] = D!Sym(t[s].to)
    BY <1>2, DirEntryCases DEF D!Text
  <2>3. t[s].k = "link" => text \in D!Contents
    BY <2>2 DEF D!Contents
  <2> QED
    BY <1>2, <2>1, <2>2, <2>3
<1>e. PICK e : e = D!File(text, s)
  OBVIOUS
<1>4. e \in D!Entries /\ e.k = "file" /\ e.id = s /\ e.text = text
  BY <1>e, <1>t, <1>2, DirEntriesAre
<1>5. data[s].k = "file" /\ data[s].text = D!Empty
  BY <1>3, DirEntriesAre
<1>6. data' \in [D!Paths -> D!Entries] /\ data'[s] = e /\ \A q \in D!Paths \ {s} : data'[q] = data[q]
  <2>1. data \in [D!Paths -> D!Entries]
    BY <1>2 DEF DTrees
  <2>2. data' = [data EXCEPT ![s] = [data[s] EXCEPT !.text = text]]
    BY <1>1, <1>2
  <2>3. [data[s] EXCEPT !.text = text] = e
    BY <1>e, <1>3 DEF D!File
  <2> QED
    BY <1>2, <1>4, <2>1, <2>2, <2>3
<1>7. data' \in DTrees /\ Alike(data, data', {s})
  BY <1>2, <1>3, <1>4, <1>5, <1>6, NewEntry
<1>8. SaveStep(s, {s}) /\ JobShaped' /\ s \notin job'.put
  BY <1>1, <1>7, DoneIsStep
<1>9. DoneAt(s)
  BY <1>t, <1>2, <1>3, <1>4, <1>6, <1>8 DEF DoneAt
<1>10. RememberedAt(s)
  BY <1>t, <1>2, <1>4, <1>6, <1>8 DEF RememberedAt, Quiet
<1>11. SourcedAt(s)
  <2>1. D!Meant(e) = D!Meant(t[s])
    <3>1. CASE t[s].k = "file"
      BY <1>t, <1>2, <1>4, <3>1, SameText
    <3>2. CASE t[s].k = "link"
      <4>1. D!Meant(t[s]) = t[s]
        BY <1>2, <3>2, MeantCases
      <4>2. D!Meant(e) = D!Sym(t[s].to)
        BY <1>t, <1>4, <3>2, MeantCases
      <4> QED
        BY <1>t, <3>2, <4>1, <4>2
    <3> QED
      BY <1>2, <3>1, <3>2
  <2>2. s \in D!Sources(s)
    BY <1>2, SourcesOf
  <2>3. D!StandsFor(s, data'[s], t[s])
    BY <1>6, <2>1 DEF D!StandsFor
  <2> QED
    BY <1>2, <2>2, <2>3 DEF SourcedAt
<1>12. ASSUME D!Untouched(s)
       PROVE  data' = data
  <2>1. data[s].text = text
    <3> PICK m : m = D!Saved
      OBVIOUS
    <3>1. m[s].k = t[s].k /\ (t[s].k = "file" => m[s].text = t[s].text) /\ m \in DTrees
          /\ (t[s].k = "link" => m[s] = t[s])
      BY <1>2, <1>12, UntouchedAt DEF DirInv
    <3>2. MatchAt(m, s)
      BY <1>2, <1>12 DEF DirInv, UntouchedKept
    <3>3. CASE t[s].k = "file"
      BY <1>t, <3>1, <3>2, <3>3 DEF MatchAt
    <3>4. CASE t[s].k = "link"
      <4>1. D!Raw(s, m[s]).k = "link"
        BY <1>2, <3>1, <3>4, RawCases
      <4>2. LinkAt(m, s)
        BY <3>1, <3>2, <3>4 DEF MatchAt
      <4> QED
        BY <1>t, <1>5, <3>1, <3>4, <4>1, <4>2 DEF LinkAt
    <3> QED
      BY <1>2, <3>3, <3>4
  <2>2. data[s] = e
    BY <1>e, <1>3, <1>5, <2>1
  <2>3. data \in [D!Paths -> D!Entries]
    BY <1>2 DEF DTrees
  <2> QED
    BY <1>6, <2>2, <2>3
<1> QED
  BY <1>2, <1>8, <1>9, <1>10, <1>11, <1>12, StepKeeps

(* A further name is linked to the first.                                  *)
LEMMA LinkNameKeeps ==
  ASSUME DirInv, D!LinkName
  PROVE  DirInv'
<1> PICK s : s = D!Subject
  OBVIOUS
<1> PICK t : t = job.tree
  OBVIOUS
<1> PICK f : f = t[s].id
  OBVIOUS
<1>1. /\ D!Putting /\ job.at = "gone" /\ D!Wanted.k = "file" /\ D!Wanted.id # s
      /\ data' = D!Joined(s, D!Wanted) /\ job' = D!Done
      /\ UNCHANGED <<live, queue, known, failed, manifest, tried>>
  BY DEF D!LinkName, D!Step
<1>2. /\ job \in DJobs /\ s \in job.put /\ s \in D!Paths
      /\ t \in DTrees /\ t \in tried /\ data \in DTrees
      /\ t[s] = D!Wanted /\ t[s] \in D!Entries /\ \A q \in D!Up(s) : data[q].k = "dir"
  BY <1>1, PuttingFacts
<1>3. t[s].k = "file" /\ f # s
  BY <1>1, <1>2
<1>4. /\ f \in D!Paths \ job.put /\ t[f].k = "file" /\ data[f].k = "file"
      /\ D!Sources(f) \subseteq D!Sources(s) /\ ByTried(f)
  BY <1>1, <1>3, PuttingFacts
<1>5. data[s] = D!Nothing /\ data[s].k = "none"
  BY <1>1, <1>2, DirEntriesAre DEF DirInv, JobShaped
<1>g. PICK g : g = [data EXCEPT ![s] = data[f]]
  OBVIOUS
<1>13. data' = D!Renumbered(g)
  BY <1>g, <1>1, <1>2 DEF D!Joined
<1>6. g \in [D!Paths -> D!Entries] /\ g[s] = data[f] /\ \A q \in D!Paths \ {s} : g[q] = data[q]
  <2>1. data \in [D!Paths -> D!Entries]
    BY <1>2 DEF DTrees
  <2> QED
    BY <1>g, <1>2, <1>4, <2>1
<1>7. /\ data' \in DTrees /\ Alike(data, data', {s})
      /\ data'[s].k = "file" /\ data'[s].text = data[f].text
      /\ data'[f].k = "file" /\ data'[f].id = data'[s].id
  BY <1>2, <1>3, <1>4, <1>5, <1>6, <1>13, JoinedFacts
<1>8. SaveStep(s, {s}) /\ JobShaped' /\ s \notin job'.put
  BY <1>1, <1>7, DoneIsStep
<1>9. DoneAt(s)
  BY <1>3, <1>4, <1>7, <1>8 DEF DoneAt, SaveStep
<1>10. RememberedAt(s)
  BY <1>2, <1>3, <1>8 DEF RememberedAt, Quiet
<1>11. SourcedAt(s)
  <2>1. data'[s] \in D!Entries /\ data[f] \in D!Entries
    BY <1>2, <1>4, <1>7, DirTreeFacts
  <2> QED
    BY <1>2, <1>3, <1>4, <1>7, <2>1, FileSource DEF SourcedAt
<1>12. ~D!Untouched(s)
  BY <1>2, <1>3, <1>5, UntouchedIsKept
<1> QED
  BY <1>2, <1>8, <1>9, <1>10, <1>11, <1>12, StepKeeps

(* A link is made.                                                         *)
LEMMA MakeLinkKeeps ==
  ASSUME DirInv, D!MakeLink
  PROVE  DirInv'
<1> PICK s : s = D!Subject
  OBVIOUS
<1> PICK t : t = job.tree
  OBVIOUS
<1>e. PICK e : e = D!Raw(s, D!Wanted)
  OBVIOUS
<1>1. /\ D!Putting /\ job.at = "gone" /\ D!Wanted.k = "link"
      /\ data' = [data EXCEPT ![s] = e] /\ job' = D!Done
      /\ UNCHANGED <<live, queue, known, failed, manifest, tried>>
  BY <1>e DEF D!MakeLink, D!Step
<1>2. /\ job \in DJobs /\ s \in job.put /\ s \in D!Paths
      /\ t \in DTrees /\ t \in tried /\ data \in DTrees
      /\ t[s] = D!Wanted /\ t[s] \in D!Entries /\ \A q \in D!Up(s) : data[q].k = "dir"
  BY <1>1, PuttingFacts
<1>3. t[s].k = "link" /\ e = D!Raw(s, t[s]) /\ e \in D!Entries /\ e.k = "link"
  BY <1>e, <1>1, <1>2, RawCases
<1>6. data[s] = D!Nothing /\ data[s].k = "none"
  BY <1>1, <1>2, DirEntriesAre DEF DirInv, JobShaped
<1>7. data' \in [D!Paths -> D!Entries] /\ data'[s] = e /\ \A q \in D!Paths \ {s} : data'[q] = data[q]
  BY <1>1, <1>2, <1>3 DEF DTrees
<1>8. data' \in DTrees /\ Alike(data, data', {s})
  BY <1>2, <1>3, <1>6, <1>7, NewEntry
<1>9. SaveStep(s, {s}) /\ JobShaped' /\ s \notin job'.put
  BY <1>1, <1>8, DoneIsStep
<1>10. DoneAt(s)
  BY <1>3, <1>7 DEF DoneAt
<1>11. RememberedAt(s)
  BY <1>2, <1>3, <1>9 DEF RememberedAt, Quiet
<1>12. SourcedAt(s)
  <2>1. s \in D!Sources(s)
    BY <1>2, SourcesOf
  <2>2. D!StandsFor(s, data'[s], t[s])
    BY <1>3, <1>7 DEF D!StandsFor
  <2> QED
    BY <1>2, <2>1, <2>2 DEF SourcedAt
<1>13. ~D!Untouched(s)
  BY <1>2, <1>3, <1>6, UntouchedIsKept
<1> QED
  BY <1>2, <1>9, <1>10, <1>11, <1>12, <1>13, StepKeeps

---------------------------------------------------------------------------
(* The other steps of a host with a directory.                             *)

(* What can be told of an unchanged directory.                             *)
LEMMA DataSame ==
  ASSUME data' = data, NEW t, NEW p
  PROVE  /\ LinkAt(t, p)' <=> LinkAt(t, p)
         /\ NamedAt(t, p)' <=> NamedAt(t, p)
         /\ MatchAt(t, p)' <=> MatchAt(t, p)
         /\ \A q : D!StandsFor(p, data[p], t[q])' <=> D!StandsFor(p, data[p], t[q])
         /\ D!Shown(t[p])' = D!Shown(t[p])
<1>1. LinkAt(t, p)' <=> LinkAt(t, p)
  BY DEF LinkAt, D!Raw
<1>2. NamedAt(t, p)' <=> NamedAt(t, p)
  BY DEF NamedAt
<1>3. MatchAt(t, p)' <=> MatchAt(t, p)
  BY <1>1, <1>2 DEF MatchAt, D!Nothing, D!Dir
<1>4. /\ \A q : D!StandsFor(p, data[p], t[q])' <=> D!StandsFor(p, data[p], t[q])
      /\ D!Shown(t[p])' = D!Shown(t[p])
  BY DEF D!StandsFor, D!Raw, D!Meant, D!Shown, D!IsMarker, D!Marked
<1> QED
  BY <1>1, <1>2, <1>3, <1>4

(* More trees tried make more sources, and fewer paths untouched.          *)
LEMMA TriedMore ==
  ASSUME data' = data, manifest' = manifest, tried \subseteq tried', NEW p \in D!Paths
  PROVE  /\ D!Saved' = D!Saved
         /\ D!Untouched(p)' => D!Untouched(p)
         /\ D!Sources(p) \subseteq D!Sources(p)'
         /\ ByTried(p) => ByTried(p)'
<1>1. D!Saved' = D!Saved
  BY DEF D!Saved, D!NoTree, D!Absent, D!Paths
<1>2. ASSUME D!Untouched(p)', NEW t \in tried
      PROVE  /\ D!Shown(t[p]) = D!Shown(D!Saved[p])
             /\ t[p].k = "file" => D!Names(t, p) = D!Names(D!Saved, p)
  <2>1. /\ D!Shown(t[p])' = D!Shown(D!Saved[p])'
        /\ t[p].k = "file" => D!Names(t, p)' = D!Names(D!Saved, p)'
    BY <1>2 DEF D!Untouched
  <2>2. /\ D!Shown(t[p])' = D!Shown(t[p]) /\ D!Shown(D!Saved[p])' = D!Shown(D!Saved[p])
        /\ D!Names(t, p)' = D!Names(t, p) /\ D!Names(D!Saved, p)' = D!Names(D!Saved, p)
    BY <1>1 DEF D!Shown, D!Names, D!Paths
  <2> QED
    BY <2>1, <2>2
<1>3. D!Untouched(p)' => D!Untouched(p)
  BY <1>2 DEF D!Untouched
<1>4. ASSUME NEW S, D!Closed(S)'
      PROVE  D!Closed(S)
  BY <1>4 DEF D!Closed, D!Names, D!Paths
<1>5. ASSUME NEW q \in D!Sources(p)
      PROVE  q \in D!Sources(p)'
  <2>1. q \in D!Paths
    BY <1>5 DEF D!Sources
  <2>2. ASSUME NEW S \in SUBSET D!Paths, p \in S, D!Closed(S)'
        PROVE  q \in S
    BY <1>4, <1>5, <2>2 DEF D!Sources
  <2> QED
    BY <2>1, <2>2 DEF D!Sources, D!Paths, D!ToSet
<1>6. ASSUME ByTried(p)
      PROVE  ByTried(p)'
  <2>1. CASE \E t \in tried, q \in D!Sources(p) : D!StandsFor(p, data[p], t[q])
    <3>1. PICK t \in tried, q \in D!Sources(p) : D!StandsFor(p, data[p], t[q])
      BY <2>1
    <3>2. t \in tried' /\ q \in D!Sources(p)'
      BY <1>5, <3>1
    <3>3. D!StandsFor(p, data[p], t[q])' <=> D!StandsFor(p, data[p], t[q])
      BY DataSame
    <3> QED
      BY <3>1, <3>2, <3>3 DEF ByTried
  <2>2. CASE /\ data[p].k = "file" /\ data[p].text = D!Empty
             /\ \E t \in tried : t[p].k \in {"file", "link"}
    BY <2>2 DEF ByTried, D!Empty
  <2> QED
    BY <1>6, <2>1, <2>2 DEF ByTried
<1> QED
  BY <1>1, <1>3, <1>5, <1>6

(* What is untouched and where things come from stay as they were.         *)
LEMMA NothingDone ==
  ASSUME DirInv, UNCHANGED <<known, data, manifest>>, tried \subseteq tried'
  PROVE  /\ UntouchedKept'
         /\ \A p \in D!Paths :
              data'[p].k # "none" =>
                \/ ByTried(p)'
                \/ D!StandsFor(p, data[p], D!Saved[p])' /\ D!StandsFor(p, data[p], known[p])'
<1> PICK m : m = D!Saved
  OBVIOUS
<1>1. D!Saved' = m
  BY TriedMore DEF D!Saved, D!NoTree, D!Absent, D!Paths
<1>2. ASSUME NEW p \in D!Paths
      PROVE  /\ D!StandsFor(p, data[p], known[p])' <=> D!StandsFor(p, data[p], known[p])
             /\ D!StandsFor(p, data[p], D!Saved[p])' <=> D!StandsFor(p, data[p], m[p])
             /\ D!Shown(known[p])' = D!Shown(known[p]) /\ D!Shown(D!Saved[p])' = D!Shown(m[p])
  BY <1>1 DEF D!StandsFor, D!Raw, D!Meant, D!Shown, D!IsMarker, D!Marked
<1>3. ASSUME NEW p \in D!Paths, D!Untouched(p)'
      PROVE  MatchAt(D!Saved, p)' /\ D!Shown(known[p])' = D!Shown(D!Saved[p])'
  <2>1. MatchAt(m, p) /\ D!Shown(known[p]) = D!Shown(m[p])
    BY <1>3, TriedMore DEF DirInv, UntouchedKept
  <2>2. MatchAt(D!Saved, p)' <=> MatchAt(m, p)'
    BY <1>1 DEF MatchAt, LinkAt, NamedAt, D!Raw
  <2>3. MatchAt(m, p)' <=> MatchAt(m, p)
    BY DataSame
  <2> QED
    BY <1>2, <2>1, <2>2, <2>3
<1>4. UntouchedKept'
  BY <1>3 DEF UntouchedKept, D!Paths, D!ToSet
<1>5. ASSUME NEW p \in D!Paths, data'[p].k # "none"
      PROVE  \/ ByTried(p)'
             \/ D!StandsFor(p, data[p], D!Saved[p])' /\ D!StandsFor(p, data[p], known[p])'
  <2>1. \/ ByTried(p)
        \/ D!StandsFor(p, data[p], m[p]) /\ D!StandsFor(p, data[p], known[p])
    BY <1>5 DEF DirInv, Sourced
  <2> QED
    BY <1>2, <2>1, TriedMore
<1> QED
  BY <1>4, <1>5

(* Programs change what they see, and a tree waits to be saved.            *)
LEMMA NoSaveKeeps ==
  ASSUME DirInv, DirTyped', UNCHANGED <<job, known, failed, data, manifest, tried>>
  PROVE  DirInv'
<1>1. JobShaped'
  <2>1. D!Subject' = D!Subject /\ D!Wanted' = D!Wanted
    BY DEF D!Subject, D!Wanted
  <2>2. /\ D!Names(data, D!Subject)' = D!Names(data, D!Subject)
        /\ D!File(D!Empty, D!Subject)' = D!File(D!Empty, D!Subject)
    BY <2>1 DEF D!Names, D!Paths, D!File, D!Empty
  <2> QED
    BY <2>1, <2>2 DEF DirInv, JobShaped
<1>2. \A t, p : /\ SureText(t, p)' <=> SureText(t, p)
                /\ SureNone(p)' <=> SureNone(p)
                /\ Quiet(t, p)' <=> Quiet(t, p)
  BY TriedSame
<1>3. \A t, p : /\ LinkAt(t, p)' <=> LinkAt(t, p)
                /\ NamedAt(t, p)' <=> NamedAt(t, p)
  BY DataSame
<1>4. \A t, p : FileDone(t, p)' <=> FileDone(t, p)
  BY <1>2, <1>3 DEF FileDone
<1>5. JobDone'
  <2> PICK t : t = job.tree
    OBVIOUS
  <2> SUFFICES ASSUME job \in DJobs, NEW p \in D!Paths
               PROVE  /\ t[p].k = "none" /\ p \notin job.rm /\ SureNone(p)' => data[p] = D!Nothing
                      /\ t[p].k = "dir" /\ p \notin job.mkdir => data[p] = D!Dir
                      /\ t[p].k = "link" /\ p \notin job.put => LinkAt(t, p)'
                      /\ t[p].k = "file" /\ p \notin job.put => FileDone(t, p)' /\ t[p].id \notin job.put
    BY DEF JobDone, D!Paths, D!ToSet, D!Nothing, D!Dir
  <2> QED
    BY <1>2, <1>3, <1>4 DEF DirInv, JobDone
<1>6. \A p : AsKnown(p)' <=> AsKnown(p)
  BY DEF AsKnown, D!Nothing
<1>7. Remembers'
  BY <1>2, <1>6 DEF DirInv, Remembers, D!Subject, D!First, D!Paths, D!ToSet
<1>8. Sourced'
  <2>1. \A p \in D!Paths : ByTried(p) => ByTried(p)'
    BY TriedMore
  <2> QED
    BY <2>1, NothingDone DEF DirInv, Sourced, D!Paths, D!ToSet
<1> QED
  BY <1>1, <1>5, <1>7, <1>8, NothingDone DEF DirInv

(* After every command the tree of this moment waits behind the others.    *)
LEMMA DirFlushKeeps ==
  ASSUME DirInv, D!Flush
  PROVE  DirInv'
<1>1. UNCHANGED <<live, job, known, failed, data, manifest, tried>> /\ queue' = Append(queue, live)
  BY DEF D!Flush
<1>2. queue \in Seq(DTrees) /\ live \in DTrees
  BY DEF DirInv, DirTyped
<1>3. queue' \in Seq(DTrees) /\ Len(queue') = Len(queue) + 1 /\ Len(queue) \in Nat
  BY <1>1, <1>2
<1>4. Len(queue) < MaxSaves
  <2>1. Len(queue) + (IF job = D!Idle THEN 0 ELSE 1) < MaxSaves
    BY DEF D!Flush
  <2>2. MaxSaves \in Nat
    BY PathAssumption
  <2> QED
    BY <1>3, <2>1, <2>2
<1>5. Len(queue') <= MaxSaves
  BY <1>3, <1>4, PathAssumption
<1>6. DirTyped'
  BY <1>1, <1>3, <1>5 DEF DirInv, DirTyped, DTrees, DJobs, D!Idle, D!Absent, D!Paths, D!ToSet
<1> QED
  BY <1>1, <1>6, NoSaveKeeps

(* Programs change what they see, and nothing else.                        *)
LEMMA ProgramsKeep ==
  ASSUME DirInv, NEW p \in D!Paths,
         \/ \E text \in Texts : D!WriteFile(p, text)
         \/ \E to \in Targets : D!Symlink(p, to)
         \/ D!MakeDir(p) \/ D!Unlink(p)
         \/ \E q \in D!Paths : D!Link(p, q) \/ D!RenameFile(p, q)
  PROVE  DirInv'
<1>1. UNCHANGED <<queue, job, known, failed, data, manifest, tried>>
  BY DEF D!WriteFile, D!Symlink, D!MakeDir, D!Unlink, D!Link, D!RenameFile, D!Change
<1>2. live' \in DTrees
  BY LiveStaysTree DEF DirInv, DirTyped
<1>3. DirTyped'
  BY <1>1, <1>2 DEF DirInv, DirTyped
<1> QED
  BY <1>1, <1>3, NoSaveKeeps

(* A save begins.                                                          *)
LEMMA DirBeginKeeps ==
  ASSUME DirInv, D!Begin
  PROVE  DirInv'
<1> PICK t : t = Head(queue)
  OBVIOUS
<1>1. /\ job = D!Idle /\ queue # <<>> /\ job' = D!Job(t) /\ queue' = Tail(queue)
      /\ tried' = tried \cup {t}
      /\ UNCHANGED <<live, known, failed, data, manifest>>
  BY DEF D!Begin
<1>2. t \in DTrees /\ queue' \in Seq(DTrees) /\ Len(queue') <= MaxSaves
  <2>1. queue \in Seq(DTrees) /\ Len(queue) <= MaxSaves
    BY DEF DirInv, DirTyped
  <2>2. Len(queue') = Len(queue) - 1 /\ Len(queue) \in Nat
    BY <1>1, <2>1
  <2> QED
    BY <1>1, <2>1, <2>2, PathAssumption
<1>3. /\ job' \in DJobs /\ job'.at = "look" /\ job'.tree = t
      /\ job'.rm = {p \in D!Paths : known[p].k # "none" /\ t[p].k = "none"}
      /\ job'.mkdir = {p \in D!Paths : t[p].k = "dir"}
      /\ job'.put = {p \in D!Paths : t[p].k \in {"file", "link"}}
  BY <1>1, <1>2 DEF D!Job, DJobs
<1>4. job \notin DJobs /\ known \in DTrees /\ data \in DTrees
  BY <1>1, IdleIsNoDJob DEF DirInv, DirTyped
<1>5. DirTyped'
  BY <1>1, <1>2, <1>3 DEF DirInv, DirTyped
<1>6. JobShaped'
  BY <1>1, <1>3 DEF JobShaped
<1>7. ASSUME NEW p \in D!Paths
      PROVE  AsKnown(p)' <=> AsKnown(p)
  BY <1>1 DEF AsKnown, D!Nothing
<1>8. ASSUME NEW p \in D!Paths, \A u \in tried' : Quiet(u, p)'
      PROVE  AsKnown(p)
  <2>1. \A u \in tried : Quiet(u, p)
    BY <1>1, <1>8 DEF Quiet
  <2> QED
    BY <2>1 DEF DirInv, Remembers
<1>9. ASSUME NEW p \in D!Paths, t[p].k = "none", p \notin job'.rm, SureNone(p)'
      PROVE  data'[p] = D!Nothing
  <2>1. known[p].k = "none"
    BY <1>3, <1>9
  <2>2. AsKnown(p)
    <3>1. CASE failed
      <4>1. \A u \in tried' : Quiet(u, p)'
        BY <1>1, <1>9, <2>1, <3>1 DEF SureNone, Quiet
      <4> QED
        BY <1>8, <4>1
    <3>2. CASE ~failed
      BY <1>4, <3>2 DEF DirInv, Remembers
    <3> QED
      BY <3>1, <3>2
  <2> QED
    BY <1>1, <2>1, <2>2 DEF AsKnown
<1>10. ASSUME NEW p \in D!Paths
       PROVE  /\ t[p].k = "dir" => p \in job'.mkdir
              /\ t[p].k \in {"file", "link"} => p \in job'.put
              /\ p \notin job'.rm \cup job'.mkdir \cup job'.put => known[p].k = "none"
  <2>1. t[p].k \in {"none", "dir", "link", "file"}
    BY <1>2, DirTreeFacts, DirEntryCases
  <2> QED
    BY <1>3, <2>1
<1>11. JobDone'
  BY <1>3, <1>9, <1>10 DEF JobDone, D!Paths, D!ToSet
<1>12. Remembers'
  <2>1. ASSUME ~failed, NEW p \in D!Paths, known[p].k = "file"
        PROVE  data[p].text = known[p].text
    BY <1>4, <2>1 DEF DirInv, Remembers, AsKnown
  <2>2. job'.put \subseteq D!Paths
    BY <1>3
  <2> QED
    BY <1>1, <1>3, <1>7, <1>8, <2>1, <2>2 DEF Remembers, D!Paths, D!ToSet
<1>13. Sourced'
  <2>1. tried \subseteq tried'
    BY <1>1
  <2>2. ASSUME NEW p \in D!Paths \ (job'.rm \cup job'.mkdir \cup job'.put), data'[p].k # "none"
        PROVE  ByTried(p)'
    <3>1. known[p].k = "none" /\ known[p] \in D!Entries /\ data[p] \in D!Entries
      BY <1>4, <1>10, <2>2, DirTreeFacts
    <3>2. ~D!StandsFor(p, data[p], known[p])
      BY <1>1, <2>2, <3>1, StandsForNothing
    <3>3. ByTried(p)
      BY <1>1, <2>2, <3>2 DEF DirInv, Sourced
    <3> QED
      BY <1>1, <2>1, <3>3, TriedMore
  <2> QED
    BY <1>1, <2>1, <2>2, NothingDone DEF Sourced, D!Paths, D!ToSet
<1>14. UntouchedKept'
  BY <1>1, NothingDone
<1> QED
  BY <1>5, <1>6, <1>11, <1>12, <1>13, <1>14 DEF DirInv

(* A save is given up.                                                     *)
LEMMA DirFailKeeps ==
  ASSUME DirInv, D!Fail
  PROVE  DirInv'
<1>1. /\ job' = D!Idle /\ failed' = TRUE
      /\ UNCHANGED <<live, queue, known, data, manifest, tried>>
  BY DEF D!Fail
<1>2. job' \notin DJobs
  BY <1>1, IdleIsNoDJob
<1>3. DirTyped'
  BY <1>1 DEF DirInv, DirTyped
<1>4. JobShaped' /\ JobDone'
  BY <1>2 DEF JobShaped, JobDone, DJobs, DTrees, D!Paths
<1>5. ASSUME NEW p
      PROVE  /\ AsKnown(p)' <=> AsKnown(p)
             /\ (\A t \in tried' : Quiet(t, p)') <=> (\A t \in tried : Quiet(t, p))
  BY <1>1 DEF AsKnown, D!Nothing, Quiet
<1>6. Remembers'
  BY <1>1, <1>2, <1>5 DEF DirInv, Remembers, D!Paths, D!ToSet
<1>7. Sourced' /\ UntouchedKept'
  BY <1>1, <1>2, NothingDone DEF Sourced, D!Paths, D!ToSet
<1> QED
  BY <1>3, <1>4, <1>6, <1>7 DEF DirInv

(* A save that has come to its end has done all, for what no save failed   *)
(* at or all of them agree on.                                             *)
LEMMA JobMatches ==
  ASSUME DirInv, job \in DJobs, job.rm = {}, job.mkdir = {}, job.put = {},
         NEW t, t = job.tree, NEW p \in D!Paths,
         \/ ~failed
         \/ \A u \in tried : /\ D!Shown(u[p]) = D!Shown(t[p])
                             /\ u[p].k = "file" => D!Names(u, p) = D!Names(t, p)
  PROVE  MatchAt(t, p)
<1>1. t \in DTrees /\ t \in tried /\ data \in DTrees /\ tried \subseteq DTrees
  BY DJobFields DEF DirInv, DirTyped, JobShaped
<1>2. ASSUME NEW u \in tried, failed
      PROVE  /\ u \in DTrees /\ u[p] \in D!Entries /\ t[p] \in D!Entries
             /\ u[p].k = t[p].k /\ (u[p].k = "file" => u[p].text = t[p].text)
  <2>1. u \in DTrees /\ u[p] \in D!Entries /\ t[p] \in D!Entries
    BY <1>1, DirTreeFacts
  <2>2. D!Shown(u[p]) = D!Shown(t[p])
    BY <1>2
  <2> QED
    BY <2>1, <2>2, SameShown
<1>3. ASSUME t[p].k = "none"
      PROVE  data[p] = D!Nothing
  <2>1. SureNone(p)
    BY <1>2, <1>3 DEF SureNone
  <2> QED
    BY <1>3, <2>1 DEF DirInv, JobDone
<1>4. t[p].k = "dir" => data[p] = D!Dir
  BY DEF DirInv, JobDone
<1>5. t[p].k = "link" => LinkAt(t, p)
  BY DEF DirInv, JobDone
<1>6. ASSUME t[p].k = "file"
      PROVE  NamedAt(t, p) /\ data[p].text = t[p].text
  <2> PICK f : f = t[p].id
    OBVIOUS
  <2>1. /\ f = D!First(D!Names(t, p)) /\ f \in D!Names(t, p) /\ f \in D!Paths /\ t[f] = t[p]
    BY <1>1, <1>6, DirTreeFacts
  <2>2. NamedAt(t, p)
    BY <1>6 DEF DirInv, JobDone, FileDone
  <2>3. ASSUME NEW u \in tried, failed
        PROVE  u[f].k = "file" /\ u[f].id = f /\ u[f].text = t[f].text
    <3>1. u \in DTrees /\ u[p].k = "file" /\ u[p].text = t[p].text
      BY <1>2, <1>6, <2>3
    <3>2. D!Names(u, p) = D!Names(t, p)
      BY <2>3, <3>1
    <3>3. u[f] = u[p]
      BY <2>1, <3>1, <3>2, NamesHaveOneEntry
    <3>4. u[p].id = f
      BY <2>1, <3>1, <3>2, DirTreeFacts
    <3> QED
      BY <2>1, <3>1, <3>3, <3>4
  <2>4. SureText(t, f)
    BY <2>3 DEF SureText
  <2>5. data[f].text = t[f].text
    <3>1. FileDone(t, f)
      BY <1>6, <2>1 DEF DirInv, JobDone
    <3> QED
      BY <2>1, <2>4, <3>1 DEF FileDone
  <2>6. data[p] = data[f]
    <3>1. data[p].k = "file" /\ data[f].k = "file" /\ data[p].id = data[f].id
      BY <2>2 DEF NamedAt
    <3> QED
      BY <1>1, <2>1, <3>1, DirTreeFacts
  <2> QED
    BY <2>1, <2>2, <2>5, <2>6
<1> QED
  BY <1>3, <1>4, <1>5, <1>6 DEF MatchAt

(* What is as a tree has it means what it means there.                     *)
LEMMA MatchMeant ==
  ASSUME NEW t \in DTrees, data \in DTrees, NEW p \in D!Paths, MatchAt(t, p)
  PROVE  D!StandsFor(p, data[p], t[p]) /\ (t[p].k # "link" => D!Shown(data[p]) = D!Shown(t[p]))
<1>1. t[p] \in D!Entries /\ data[p] \in D!Entries
  BY DirTreeFacts
<1>2. CASE t[p].k = "none" \/ t[p].k = "dir"
  <2>1. data[p] = t[p]
    BY <1>1, <1>2, DirEntryCases DEF MatchAt
  <2> QED
    BY <2>1 DEF D!StandsFor
<1>3. CASE t[p].k = "file"
  <2>1. data[p].k = "file" /\ data[p].text = t[p].text
    BY <1>3 DEF MatchAt, NamedAt
  <2>2. D!Shown(data[p]) = D!Shown(t[p]) /\ D!Meant(data[p]) = D!Meant(t[p])
    BY <1>1, <1>3, <2>1, SameText
  <2> QED
    BY <2>2 DEF D!StandsFor
<1>4. CASE t[p].k = "link"
  <2>1. data[p] = D!Raw(p, t[p]) \/ (data[p].k = "file" /\ data[p].text = D!Marker(t[p].to))
    BY <1>4 DEF MatchAt, LinkAt
  <2>2. t[p].to \in Targets /\ t[p] = D!Sym(t[p].to) /\ D!Meant(t[p]) = t[p]
    BY <1>1, <1>4, DirEntryCases, MeantCases
  <2>3. CASE data[p].k = "file" /\ data[p].text = D!Marker(t[p].to)
    <3>1. D!Meant(data[p]) = D!Sym(t[p].to)
      BY <1>1, <2>2, <2>3, MeantCases
    <3> QED
      BY <1>4, <2>2, <3>1 DEF D!StandsFor
  <2> QED
    BY <1>4, <2>1, <2>3 DEF D!StandsFor
<1>5. t[p].k \in {"none", "dir", "file", "link"}
  BY <1>1, DirEntryCases
<1> QED
  BY <1>2, <1>3, <1>4, <1>5

(* A save ends: the manifest is replaced.                                  *)
LEMMA DirFinishKeeps ==
  ASSUME DirInv, D!Finish
  PROVE  DirInv'
<1> PICK t : t = job.tree
  OBVIOUS
<1>1. /\ job # D!Idle /\ job.rm = {} /\ job.mkdir = {} /\ job.put = {}
      /\ manifest' = t /\ known' = t /\ job' = D!Idle /\ tried' = IF failed THEN tried ELSE {}
      /\ UNCHANGED <<live, queue, failed, data>>
  BY DEF D!Finish
<1>2. /\ job \in DJobs /\ t \in DTrees /\ t \in tried /\ data \in DTrees /\ tried \subseteq DTrees
  BY <1>1, DJobFields DEF DirInv, DirTyped, JobShaped
<1>3. job' \notin DJobs
  BY <1>1, IdleIsNoDJob
<1>4. DirTyped'
  BY <1>1, <1>2 DEF DirInv, DirTyped
<1>5. JobShaped' /\ JobDone'
  BY <1>3 DEF JobShaped, JobDone, DJobs, DTrees, D!Paths
<1>6. D!Saved' = t
  <2>1. manifest' \in DTrees \cup {D!Absent} => (manifest' \in DTrees => D!Saved' = manifest')
    <3>1. CASE manifest' = D!Absent
      <4>1. D!NoTree = D!Absent
        <5>1. D!Absent \in [D!Paths -> D!Entries]
          BY <1>1, <1>2, <3>1 DEF DTrees
        <5>2. ASSUME NEW p \in D!Paths
              PROVE  FALSE
          <6>1. D!Absent[p].k = "absent"
            BY DEF D!Absent
          <6>2. D!Absent[p] \in D!Entries
            BY <5>1
          <6> QED
            BY <6>1, <6>2, DirEntryCases
        <5> QED
          BY <5>2 DEF D!NoTree, D!Absent
      <4> QED
        BY <3>1, <4>1 DEF D!Saved, D!NoTree, D!Absent, D!Paths
    <3>2. CASE manifest' # D!Absent
      BY <3>2 DEF D!Saved, D!Absent, D!Paths
    <3> QED
      BY <3>1, <3>2
  <2> QED
    BY <1>1, <1>2, <2>1
<1>7. ASSUME NEW p \in D!Paths, ~failed
      PROVE  MatchAt(t, p)
  BY <1>1, <1>2, <1>7, JobMatches
<1>8. Remembers'
  <2>1. ASSUME ~failed, NEW p \in D!Paths
        PROVE  AsKnown(p)'
    BY <1>1, <1>7, <2>1 DEF MatchAt, NamedAt, AsKnown, D!Nothing
  <2>2. ASSUME failed, NEW p \in D!Paths, \A u \in tried' : Quiet(u, p)'
        PROVE  AsKnown(p)'
    <3>1. ASSUME NEW u \in tried
          PROVE  \/ u[p].k = "none" /\ t[p].k = "none"
                 \/ u[p].k = "file" /\ u[p].id = p /\ t[p].k = "file" /\ u[p].text = t[p].text
      BY <1>1, <2>2 DEF Quiet
    <3>2. CASE t[p].k = "none"
      <4>1. SureNone(p)
        BY <3>1, <3>2 DEF SureNone
      <4>2. data[p] = D!Nothing
        BY <1>1, <1>2, <3>2, <4>1 DEF DirInv, JobDone
      <4> QED
        BY <1>1, <3>2, <4>2 DEF AsKnown, D!Nothing
    <3>3. CASE t[p].k = "file"
      <4>1. SureText(t, p) /\ t[p].id = p
        BY <1>2, <3>1, <3>3 DEF SureText
      <4>2. FileDone(t, p)
        BY <1>1, <1>2, <3>3 DEF DirInv, JobDone
      <4>3. data[p].k = "file" /\ data[p].text = t[p].text
        BY <4>1, <4>2 DEF FileDone, NamedAt
      <4> QED
        BY <1>1, <3>3, <4>3 DEF AsKnown
    <3>4. CASE t[p].k # "none" /\ t[p].k # "file"
      BY <1>1, <3>4 DEF AsKnown
    <3> QED
      BY <3>2, <3>3, <3>4
  <2> QED
    BY <1>1, <1>3, <2>1, <2>2 DEF Remembers, D!Paths, D!ToSet
<1>9. ASSUME NEW p \in D!Paths, D!Untouched(p)'
      PROVE  MatchAt(t, p)
  <2>1. CASE failed
    <3>1. ASSUME NEW u \in tried
          PROVE  /\ D!Shown(u[p]) = D!Shown(t[p])
                 /\ u[p].k = "file" => D!Names(u, p) = D!Names(t, p)
      <4>1. u \in tried'
        BY <1>1, <2>1
      <4>2. /\ D!Shown(u[p])' = D!Shown(D!Saved[p])'
            /\ u[p].k = "file" => D!Names(u, p)' = D!Names(D!Saved, p)'
        BY <1>9, <4>1 DEF D!Untouched
      <4>3. /\ D!Shown(u[p])' = D!Shown(u[p]) /\ D!Shown(D!Saved[p])' = D!Shown(t[p])
            /\ D!Names(u, p)' = D!Names(u, p) /\ D!Names(D!Saved, p)' = D!Names(t, p)
        BY <1>6 DEF D!Shown, D!Names, D!Paths
      <4> QED
        BY <4>2, <4>3
    <3> QED
      BY <1>1, <1>2, <3>1, JobMatches
  <2>2. CASE ~failed
    BY <1>7, <2>2
  <2> QED
    BY <2>1, <2>2
<1>10. UntouchedKept'
  <2>1. ASSUME NEW p \in D!Paths
        PROVE  (MatchAt(D!Saved, p)' <=> MatchAt(t, p)) /\ D!Shown(known[p])' = D!Shown(D!Saved[p])'
    <3>1. MatchAt(D!Saved, p)' <=> MatchAt(t, p)'
      BY <1>6 DEF MatchAt, LinkAt, NamedAt, D!Raw
    <3>2. MatchAt(t, p)' <=> MatchAt(t, p)
      BY <1>1, DataSame
    <3>3. D!Shown(known[p])' = D!Shown(D!Saved[p])'
      BY <1>1, <1>6 DEF D!Shown
    <3> QED
      BY <3>1, <3>2, <3>3
  <2> QED
    BY <1>9, <2>1 DEF UntouchedKept, D!Paths, D!ToSet
<1>11. ASSUME NEW p \in D!Paths, data'[p].k # "none"
       PROVE  \/ ByTried(p)'
              \/ D!StandsFor(p, data[p], D!Saved[p])' /\ D!StandsFor(p, data[p], known[p])'
  <2>1. CASE failed
    <3>1. ByTried(p)
      BY <1>1, <1>2, <1>11 DEF DirInv, Sourced
    <3>2. tried' = tried
      BY <1>1, <2>1
    <3>3. D!Sources(p)' = D!Sources(p)
      BY <3>2 DEF D!Sources, D!Closed, D!Names, D!Paths, D!ToSet
    <3>4. \A u, q : D!StandsFor(p, data[p], u[q])' <=> D!StandsFor(p, data[p], u[q])
      BY <1>1 DEF D!StandsFor, D!Raw, D!Meant, D!Shown, D!IsMarker, D!Marked
    <3> QED
      BY <1>1, <3>1, <3>2, <3>3, <3>4 DEF ByTried, D!Empty
  <2>2. CASE ~failed
    <3>1. D!StandsFor(p, data[p], t[p])
      BY <1>2, <1>7, <2>2, MatchMeant
    <3>2. /\ D!StandsFor(p, data[p], known[p])' <=> D!StandsFor(p, data[p], t[p])
          /\ D!StandsFor(p, data[p], D!Saved[p])' <=> D!StandsFor(p, data[p], t[p])
      BY <1>1, <1>6 DEF D!StandsFor, D!Raw, D!Meant, D!Shown, D!IsMarker, D!Marked
    <3> QED
      BY <3>1, <3>2
  <2> QED
    BY <2>1, <2>2
<1>12. Sourced'
  BY <1>3, <1>11 DEF Sourced, D!Paths, D!ToSet
<1> QED
  BY <1>4, <1>5, <1>8, <1>10, <1>12 DEF DirInv

(* What is untouched is what the next start shows.                         *)
LEMMA MatchPulled ==
  ASSUME DirTyped, NEW p \in D!Paths, MatchAt(D!Saved, p)
  PROVE  D!Shown(D!Pulled[p]) = D!Shown(D!Saved[p])
<1> PICK m : m = D!Saved
  OBVIOUS
<1> PICK e : e = D!Read(p, data[p], manifest[p])
  OBVIOUS
<1>1. /\ data \in DTrees /\ m \in DTrees /\ m[p] \in D!Entries /\ data[p] \in D!Entries
      /\ manifest \in DTrees \cup {D!Absent}
  BY SavedIsTree, DirTreeFacts DEF DirTyped
<1>l. manifest[p].k = "link" => manifest[p] \in D!Entries
  BY <1>1, PulledFacts
<1>2. D!Shown(D!Pulled[p]) = D!Shown(e)
  BY <1>1, PulledFacts
<1>3. m[p].k # "none" => manifest[p] = m[p]
  <2>1. CASE manifest = D!Absent
    <3>1. m[p] = D!Nothing
      BY <2>1 DEF D!Saved, D!NoTree
    <3> QED
      BY <3>1, DirEntriesAre
  <2>2. CASE manifest # D!Absent
    BY <2>2 DEF D!Saved
  <2> QED
    BY <2>1, <2>2
<1>4. CASE m[p].k # "link"
  <2>1. D!Shown(data[p]) = D!Shown(m[p])
    BY <1>1, <1>4, MatchMeant
  <2>2. e = data[p]
    <3>1. CASE m[p].k = "none"
      <4>1. data[p].k = "none"
        BY <1>1, <2>1, <3>1, SameShown
      <4> QED
        BY <1>l, <1>1, <4>1, ReadCases
    <3>2. CASE m[p].k # "none"
      BY <1>l, <1>1, <1>3, <1>4, <3>2, ReadCases
    <3> QED
      BY <3>1, <3>2
  <2> QED
    BY <1>2, <2>1, <2>2
<1>5. CASE m[p].k = "link"
  <2>1. manifest[p].k = "link" /\ m[p].to \in Targets /\ m[p] = D!Sym(m[p].to)
    BY <1>1, <1>3, <1>5, DirEntryCases
  <2>2. data[p] = D!Raw(p, m[p]) \/ (data[p].k = "file" /\ data[p].text = D!Marker(m[p].to))
    BY <1>5 DEF MatchAt, LinkAt
  <2>4. manifest[p] = m[p]
    BY <1>3, <1>5
  <2>3. e = m[p]
    <3>1. CASE data[p] = D!Raw(p, m[p])
      BY <1>l, <1>1, <2>1, <2>4, <3>1, ReadCases
    <3>2. CASE data[p].k = "file" /\ data[p].text = D!Marker(m[p].to)
      BY <1>l, <1>1, <2>1, <3>2, ReadCases
    <3> QED
      BY <2>2, <3>1, <3>2
  <2> QED
    BY <1>2, <2>3
<1> QED
  BY <1>4, <1>5

(* The process ends, and another one starts on what it left.               *)
LEMMA DirCrashKeeps ==
  ASSUME DirInv, D!Crash
  PROVE  DirInv'
<1> PICK r : r = D!Pulled
  OBVIOUS
<1>1. /\ live' = (IF D!Unseeded THEN Image ELSE r) /\ queue' = (IF D!Unseeded THEN <<Image>> ELSE <<>>)
      /\ known' = r /\ job' = D!Idle /\ failed' = FALSE
      /\ UNCHANGED <<data, manifest, tried>>
  BY DEF D!Crash
<1>2. DirTyped /\ data \in DTrees /\ manifest \in DTrees \cup {D!Absent}
  BY DEF DirInv, DirTyped
<1>3. r \in DTrees
  BY <1>2, PulledFacts
<1>4. Image \in DTrees
  BY DirAssumption DEF DTrees, D!IsTree
<1>5. job' \notin DJobs
  BY <1>1, IdleIsNoDJob
<1>6. DirTyped'
  <2>1. live' \in DTrees /\ queue' \in Seq(DTrees) /\ Len(queue') <= MaxSaves
    BY <1>1, <1>3, <1>4, PathAssumption
  <2> QED
    BY <1>1, <1>2, <1>3, <2>1 DEF DirTyped
<1>7. JobShaped' /\ JobDone'
  BY <1>5 DEF JobShaped, JobDone, DJobs, DTrees, D!Paths
<1>8. ASSUME NEW p \in D!Paths
      PROVE  AsKnown(p)'
  <2> PICK e : e = D!Read(p, data[p], manifest[p])
    OBVIOUS
  <2>1. data[p] \in D!Entries /\ r[p] \in D!Entries /\ r[p].k = e.k /\ D!Shown(r[p]) = D!Shown(e)
    BY <1>2, <1>3, DirTreeFacts, PulledFacts
  <2>5. manifest[p].k = "link" => manifest[p] \in D!Entries
    BY <1>2, PulledFacts
  <2>4. (e.k = "none" => data[p].k = "none") /\ (e.k = "file" => e = data[p])
    BY <2>1, <2>5, ReadCases
  <2>2. r[p].k = "none" => data[p] = D!Nothing
    BY <2>1, <2>4, DirEntryCases
  <2>3. r[p].k = "file" => data[p].k = "file" /\ data[p].text = r[p].text
    BY <2>1, <2>4, SameShown
  <2> QED
    BY <1>1, <2>2, <2>3 DEF AsKnown, D!Nothing
<1>9. Remembers'
  BY <1>1, <1>5, <1>8 DEF Remembers, D!Paths, D!ToSet
<1>10. D!Saved' = D!Saved
  BY <1>1 DEF D!Saved, D!NoTree, D!Absent, D!Paths
<1>11. UntouchedKept'
  <2>1. ASSUME NEW p \in D!Paths, D!Untouched(p)'
        PROVE  MatchAt(D!Saved, p)' /\ D!Shown(known[p])' = D!Shown(D!Saved[p])'
    <3>1. D!Untouched(p)
      BY <1>1, <2>1, TriedMore
    <3>2. MatchAt(D!Saved, p)
      BY <3>1 DEF DirInv, UntouchedKept
    <3>3. MatchAt(D!Saved, p)' <=> MatchAt(D!Saved, p)
      BY <1>1, <1>10 DEF MatchAt, LinkAt, NamedAt, D!Nothing, D!Dir, D!Marker, D!Raw
    <3>4. D!Shown(r[p]) = D!Shown(D!Saved[p])
      BY <1>2, <3>2, MatchPulled
    <3>5. D!Shown(known[p])' = D!Shown(r[p]) /\ D!Shown(D!Saved[p])' = D!Shown(D!Saved[p])
      BY <1>1, <1>10 DEF D!Shown
    <3> QED
      BY <3>2, <3>3, <3>4, <3>5
  <2> QED
    BY <2>1 DEF UntouchedKept, D!Paths, D!ToSet
<1>12. Sourced'
  <2>1. ASSUME NEW p \in D!Paths, data'[p].k # "none"
        PROVE  \/ ByTried(p)'
               \/ D!StandsFor(p, data[p], D!Saved[p])' /\ D!StandsFor(p, data[p], known[p])'
    <3>1. \/ ByTried(p)
          \/ D!StandsFor(p, data[p], D!Saved[p])
      BY <1>1, <2>1 DEF DirInv, Sourced
    <3>2. ByTried(p) => ByTried(p)'
      BY <1>1, TriedMore
    <3>3. D!StandsFor(p, data[p], r[p])
      BY <1>2, PulledFacts
    <3>4. /\ D!StandsFor(p, data[p], known[p])' <=> D!StandsFor(p, data[p], r[p])
          /\ D!StandsFor(p, data[p], D!Saved[p])' <=> D!StandsFor(p, data[p], D!Saved[p])
      BY <1>1, <1>10 DEF D!StandsFor, D!Raw, D!Meant, D!Shown, D!IsMarker, D!Marked
    <3> QED
      BY <3>1, <3>2, <3>3, <3>4
  <2> QED
    BY <1>5, <2>1 DEF Sourced, D!Paths, D!ToSet
<1> QED
  BY <1>6, <1>7, <1>9, <1>11, <1>12 DEF DirInv

---------------------------------------------------------------------------
(* The theorems, for either tree.                                          *)

(* A host starts with an empty directory or with one that was saved.       *)
LEMMA DirStartInv ==
  ASSUME D!Init
  PROVE  DirInv
<1> PICK m : m = D!Saved
  OBVIOUS
<1>1. /\ manifest \in DirStarts \cup {D!Absent} /\ known = m
      /\ live = (IF manifest = D!Absent THEN Image ELSE manifest)
      /\ queue = (IF manifest = D!Absent THEN <<Image>> ELSE <<>>)
      /\ job = D!Idle /\ failed = FALSE /\ tried = {}
  BY DEF D!Init
<1>h. data = [p \in D!Paths |-> D!Raw(p, m[p])]
  BY DEF D!Init
<1>2. Image \in DTrees /\ manifest \in DTrees \cup {D!Absent}
  BY <1>1, DirAssumption DEF DTrees, D!IsTree
<1>3. m \in DTrees
  BY <1>2, SavedIsTree
<1>12. ASSUME NEW p \in D!Paths
       PROVE  /\ m[p] \in D!Entries /\ data[p] = D!Raw(p, m[p]) /\ data[p] \in D!Entries
              /\ data[p].k = m[p].k /\ (m[p].k # "link" => data[p] = m[p])
  <2>1. m[p] \in D!Entries /\ data[p] = D!Raw(p, m[p])
    BY <1>h, <1>3, DirTreeFacts
  <2> QED
    BY <2>1, RawCases
<1>13. data \in DTrees
  <2>1. data \in [D!Paths -> D!Entries]
    BY <1>h, <1>12
  <2>2. Numbered(data)
    <3>1. ASSUME NEW p \in D!Paths, data[p].k # "none", NEW q \in D!Up(p)
          PROVE  data[q].k = "dir"
      BY <1>3, <1>12, <3>1, DirPaths, DirTreeFacts
    <3>2. ASSUME NEW p \in D!Paths, NEW q \in D!Paths, data[p].k = "file", data[q].k = "file",
                 data[p].id = data[q].id
          PROVE  data[p] = data[q]
      <4>1. data[p] = m[p] /\ data[q] = m[q]
        BY <1>12, <3>2
      <4> QED
        BY <1>3, <3>2, <4>1, DirTreeFacts
    <3> QED
      BY <2>1, <3>1, <3>2 DEF Numbered
  <2>3. ASSUME NEW p \in D!Paths
        PROVE  D!Renumbered(data)[p] = data[p]
    <3>1. CASE data[p].k # "file"
      BY <2>2, <3>1, RenumberedAt
    <3>2. CASE data[p].k = "file"
      <4>1. m[p].k = "file" /\ data[p] = m[p]
        BY <1>12, <3>2
      <4>2. D!Names(data, p) = D!Names(m, p)
        BY <1>12, <4>1 DEF D!Names
      <4>3. m[p].id = D!First(D!Names(m, p))
        BY <1>3, <4>1, DirTreeFacts
      <4>4. D!Renumbered(data)[p] = [data[p] EXCEPT !.id = D!First(D!Names(data, p))]
        BY <3>2 DEF D!Renumbered
      <4>5. m[p] = D!File(m[p].text, m[p].id)
        BY <1>12, <4>1, DirEntryCases
      <4>6. [m[p] EXCEPT !.id = m[p].id] = m[p]
        BY <4>5 DEF D!File
      <4> QED
        BY <4>1, <4>2, <4>3, <4>4, <4>6
    <3> QED
      BY <3>1, <3>2
  <2>4. D!Renumbered(data) \in DTrees
    BY <2>2, RenumberedIsTree
  <2>5. D!Renumbered(data) = data
    <3> PICK r : r = D!Renumbered(data)
      OBVIOUS
    <3>1. r \in [D!Paths -> D!Entries]
      BY <2>4 DEF DTrees
    <3> QED
      BY <2>1, <2>3, <3>1
  <2> QED
    BY <2>4, <2>5
<1>4. live \in DTrees /\ queue \in Seq(DTrees) /\ Len(queue) <= MaxSaves
  BY <1>1, <1>2, PathAssumption
<1>5. job \notin DJobs
  BY <1>1, IdleIsNoDJob
<1>6. DirTyped
  BY <1>1, <1>2, <1>3, <1>4, <1>13 DEF DirTyped
<1>7. ASSUME NEW p \in D!Paths
      PROVE  AsKnown(p) /\ MatchAt(m, p)
  <2>1. m[p] \in D!Entries /\ (m[p].k = "file" => m[p].id \in D!Paths /\ m[m[p].id] = m[p])
    BY <1>3, DirTreeFacts
  <2>2. AsKnown(p)
    BY <1>1, <1>12, <2>1, DirEntryCases DEF AsKnown
  <2>3. MatchAt(m, p)
    BY <1>12, <2>1, DirEntryCases DEF MatchAt, LinkAt, NamedAt
  <2> QED
    BY <2>2, <2>3
<1>8. JobShaped /\ JobDone
  BY <1>5 DEF JobShaped, JobDone
<1>9. Remembers
  BY <1>5, <1>7 DEF Remembers
<1>10. UntouchedKept
  BY <1>1, <1>7 DEF UntouchedKept
<1>11. Sourced
  BY <1>1, <1>5, <1>12 DEF Sourced, D!StandsFor
<1> QED
  BY <1>6, <1>8, <1>9, <1>10, <1>11 DEF DirInv

(* Every step keeps the invariant of a directory.                          *)
LEMMA DirStep ==
  ASSUME DirInv, D!Next
  PROVE  DirInv'
<1>1. CASE \E p \in D!Paths :
             \/ \E text \in Texts : D!WriteFile(p, text)
             \/ \E to \in Targets : D!Symlink(p, to)
             \/ D!MakeDir(p) \/ D!Unlink(p)
             \/ \E q \in D!Paths : D!Link(p, q) \/ D!RenameFile(p, q)
  BY <1>1, ProgramsKeep
<1>2. CASE D!Flush \/ D!Begin \/ D!Fail \/ D!Finish \/ D!Crash
  BY <1>2, DirFlushKeeps, DirBeginKeeps, DirFailKeeps, DirFinishKeeps, DirCrashKeeps
<1>3. CASE D!RemoveGone \/ D!MakeDirectory \/ D!Keep \/ D!RemoveOther
  BY <1>3, RemoveGoneKeeps, MakeDirectoryKeeps, KeepKeeps, RemoveOtherKeeps
<1>4. CASE D!Create \/ D!Fill \/ D!LinkName \/ D!MakeLink
  BY <1>4, DirCreateKeeps, FillKeeps, LinkNameKeeps, MakeLinkKeeps
<1> QED
  BY <1>1, <1>2, <1>3, <1>4 DEF D!Next

(* Whichever tree a host has, it has it for good.                          *)
LEMMA OneTree == Spec => [](tree \in {"browser", "directory"})
<1>1. Init => tree \in {"browser", "directory"}
  BY DEF Init
<1>2. tree \in {"browser", "directory"} /\ [Next]_vars => (tree \in {"browser", "directory"})'
  BY DEF Next, vars
<1> QED
  BY <1>1, <1>2, PTL DEF Spec

(* The invariant of a directory.                                           *)
LEMMA DirectoryInv == Spec => [](tree = "directory" => DirInv)
<1> DEFINE Inv == tree = "directory" => DirInv
<1>1. Init => Inv
  BY DirStartInv DEF Init
<1>2. Inv /\ [Next]_vars => Inv'
  <2> SUFFICES ASSUME Inv, [Next]_vars, tree' = "directory"
               PROVE  DirInv'
    OBVIOUS
  <2>1. CASE tree = "directory" /\ D!Next
    BY <2>1, DirStep
  <2>2. CASE UNCHANGED vars
    <3>1. UNCHANGED <<tree, live, queue, job, known, failed, data, manifest, tried>>
      BY <2>2 DEF vars
    <3>2. DirInv
      BY <3>1
    <3>3. DirTyped'
      BY <3>1, <3>2 DEF DirInv, DirTyped
    <3> QED
      BY <3>1, <3>2, <3>3, NoSaveKeeps
  <2>3. tree' = tree \/ UNCHANGED vars
    BY DEF Next
  <2>4. CASE tree = "browser"
    BY <2>2, <2>3, <2>4 DEF vars
  <2> QED
    BY <2>1, <2>2, <2>4 DEF Next
<1> QED
  BY <1>1, <1>2, PTL DEF Spec

(* The storage holds a tree and programs see one, in a browser and in a    *)
(* directory (pull and push of main/webtree.ts and main/dir.ts).           *)
THEOREM PersistenceTyped == Spec => []TypeOK
<1>1. tree = "directory" /\ DirInv => TypeOK
  BY DEF DirInv, DirTyped, DTrees, TypeOK, D!TypeOK
<1>2. tree \in {"browser", "directory"} => tree = "browser" \/ tree = "directory"
  OBVIOUS
<1> QED
  BY <1>1, <1>2, BrowserTyped, DirectoryInv, OneTree, PTL

(* What untouched paths show in a directory, and their names.              *)
LEMMA DirSaves ==
  ASSUME DirInv
  PROVE  D!SavedIsPulled
<1> PICK m : m = D!Saved
  OBVIOUS
<1> PICK r : r = D!Pulled
  OBVIOUS
<1>1. DirTyped /\ data \in DTrees /\ m \in DTrees /\ manifest \in DTrees \cup {D!Absent}
  BY SavedIsTree DEF DirInv, DirTyped
<1> SUFFICES ASSUME tried = {}, NEW p \in D!Paths
             PROVE  /\ D!Shown(r[p]) = D!Shown(m[p])
                    /\ m[p].k = "file" => D!Names(m, p) \subseteq D!Names(r, p)
  BY DEF D!SavedIsPulled
<1>2. r \in DTrees
  BY <1>1, PulledFacts
<1>3. ASSUME NEW q \in D!Paths
      PROVE  /\ MatchAt(m, q) /\ D!Shown(r[q]) = D!Shown(m[q])
             /\ r[q].k = m[q].k
  <2>1. D!Untouched(q)
    BY DEF D!Untouched
  <2>2. MatchAt(m, q)
    BY <2>1 DEF DirInv, UntouchedKept
  <2>3. D!Shown(r[q]) = D!Shown(m[q])
    BY <1>1, <2>2, MatchPulled
  <2>4. r[q] \in D!Entries /\ m[q] \in D!Entries
    BY <1>1, <1>2, DirTreeFacts
  <2> QED
    BY <2>2, <2>3, <2>4, SameShown
<1>4. ASSUME m[p].k = "file", NEW q \in D!Names(m, p)
      PROVE  q \in D!Names(r, p)
  <2>1. q \in D!Paths /\ m[q].k = "file" /\ m[q].id = m[p].id
    BY <1>4 DEF D!Names
  <2>2. data[p].id = data[m[p].id].id
    BY <1>3, <1>4 DEF MatchAt, NamedAt
  <2>3. data[q].id = data[m[p].id].id
    BY <1>3, <2>1 DEF MatchAt, NamedAt
  <2>4. r[p].k = "file" /\ r[q].k = "file"
    BY <1>3, <1>4, <2>1
  <2>5. r[p].id = r[q].id
    BY <1>1, <2>1, <2>2, <2>3, <2>4, PulledFacts
  <2> QED
    BY <2>1, <2>4, <2>5 DEF D!Names
<1> QED
  BY <1>3, <1>4

(* A save that has come to its end is what the next start shows, in a      *)
(* browser and in a directory (Os.flush, Os.restore).                      *)
THEOREM SavesArePulled == Spec => []SavedIsPulled
<1>1. tree = "directory" /\ DirInv => SavedIsPulled
  BY DirSaves DEF SavedIsPulled
<1>2. tree \in {"browser", "directory"} => tree = "browser" \/ tree = "directory"
  OBVIOUS
<1> QED
  BY <1>1, <1>2, BrowserSaves, DirectoryInv, OneTree, PTL

(* Where the entries of a directory come from.                             *)
LEMMA DirKeepsItsOwn ==
  ASSUME DirInv
  PROVE  D!NothingForeign
<1> PICK m : m = D!Saved
  OBVIOUS
<1> PICK r : r = D!Pulled
  OBVIOUS
<1>1. DirTyped /\ data \in DTrees /\ m \in DTrees /\ manifest \in DTrees \cup {D!Absent}
  BY SavedIsTree DEF DirInv, DirTyped
<1>2. r \in DTrees
  BY <1>1, PulledFacts
<1> SUFFICES ASSUME NEW p \in D!Paths
             PROVE  /\ D!Untouched(p) => D!Shown(r[p]) = D!Shown(m[p])
                    /\ D!Shown(r[p]).k # "none" =>
                         \/ D!StandsFor(p, r[p], m[p])
                         \/ \E t \in tried, q \in D!Sources(p) : D!StandsFor(p, r[p], t[q])
                         \/ /\ D!Shown(r[p]) = [k |-> "file", text |-> D!Empty]
                            /\ \E t \in tried : t[p].k \in {"file", "link"}
  BY DEF D!NothingForeign
<1>3. ASSUME D!Untouched(p)
      PROVE  D!Shown(r[p]) = D!Shown(m[p])
  <2>1. MatchAt(m, p)
    BY <1>3 DEF DirInv, UntouchedKept
  <2> QED
    BY <1>1, <2>1, MatchPulled
<1>4. ASSUME D!Shown(r[p]).k # "none"
      PROVE  \/ D!StandsFor(p, r[p], m[p])
             \/ \E t \in tried, q \in D!Sources(p) : D!StandsFor(p, r[p], t[q])
             \/ /\ D!Shown(r[p]) = [k |-> "file", text |-> D!Empty]
                /\ \E t \in tried : t[p].k \in {"file", "link"}
  <2> PICK e : e = D!Read(p, data[p], manifest[p])
    OBVIOUS
  <2>1. /\ r[p] \in D!Entries /\ data[p] \in D!Entries /\ r[p].k = e.k
        /\ D!Shown(r[p]) = D!Shown(e) /\ (r[p].k # "file" => r[p] = e)
        /\ manifest[p].k = "link" => manifest[p] \in D!Entries /\ m[p] = manifest[p]
    BY <1>1, <1>2, DirTreeFacts, PulledFacts
  <2>2. r[p].k # "none"
    BY <1>4, <2>1, MeantCases
  <2>3. data[p].k # "none" /\ (e.k = "file" => e = data[p])
    BY <2>1, <2>2, ReadCases
  <2>4. \/ ByTried(p)
        \/ D!StandsFor(p, data[p], m[p])
    BY <2>3 DEF DirInv, Sourced
  <2>5. ASSUME data[p].k = "file", data[p].text = D!Empty
        PROVE  D!Shown(r[p]) = [k |-> "file", text |-> D!Empty]
    <3>1. \A to \in Targets : data[p].text # D!Marker(to)
      BY <2>5, DirAssumption
    <3>2. e = data[p]
      BY <2>1, <2>5, <3>1, ReadCases
    <3> QED
      BY <2>1, <2>5, <3>2, MeantCases
  <2>6. CASE manifest[p].k = "link" /\ r[p] = manifest[p]
    BY <2>1, <2>6 DEF D!StandsFor
  <2>7. ASSUME ~(manifest[p].k = "link" /\ r[p] = manifest[p]), NEW g \in D!Entries,
               D!StandsFor(p, data[p], g)
        PROVE  D!StandsFor(p, r[p], g)
    <3>1. D!Meant(r[p]) = D!Meant(data[p])
      BY <1>1, <2>7, PulledFacts
    <3>2. CASE D!Meant(data[p]) = D!Meant(g)
      BY <3>1, <3>2 DEF D!StandsFor
    <3>3. CASE data[p] = D!Raw(p, g)
      <4>1. CASE data[p].k = "file"
        <5>1. g = data[p]
          BY <3>3, <4>1, RawCases
        <5> QED
          BY <3>1, <5>1 DEF D!StandsFor
      <4>2. CASE data[p].k # "file"
        <5>1. data[p] = r[p]
          <6>1. D!Meant(data[p]) = data[p]
            BY <2>1, <4>2, MeantCases
          <6>2. r[p].k # "file"
            BY <2>1, <2>3, <4>2
          <6>3. D!Meant(r[p]) = r[p]
            BY <2>1, <6>2, MeantCases
          <6> QED
            BY <3>1, <6>1, <6>3
        <5> QED
          BY <2>7, <5>1
      <4> QED
        BY <4>1, <4>2
    <3> QED
      BY <2>7, <3>2, <3>3 DEF D!StandsFor
  <2>8. CASE ~(manifest[p].k = "link" /\ r[p] = manifest[p])
    <3>1. m[p] \in D!Entries /\ \A t \in tried, q \in D!Sources(p) : t[q] \in D!Entries
      <4>1. \A t \in tried : t \in DTrees
        BY <1>1 DEF DirTyped
      <4>2. \A q \in D!Sources(p) : q \in D!Paths
        BY DEF D!Sources
      <4> QED
        BY <1>1, <4>1, <4>2, DirTreeFacts
    <3> QED
      BY <2>4, <2>5, <2>7, <2>8, <3>1 DEF ByTried
  <2> QED
    BY <2>6, <2>8
<1> QED
  BY <1>3, <1>4

(* Whatever saves failed or were cut off: what is there was written by a   *)
(* save, and what none of them changed is still there, in a browser and in *)
(* a directory.                                                            *)
THEOREM NothingIsForeign == Spec => []NothingForeign
<1>1. tree = "directory" /\ DirInv => NothingForeign
  BY DirKeepsItsOwn DEF NothingForeign
<1>2. tree \in {"browser", "directory"} => tree = "browser" \/ tree = "directory"
  OBVIOUS
<1> QED
  BY <1>1, <1>2, BrowserKeepsItsOwn, DirectoryInv, OneTree, PTL

=============================================================================
