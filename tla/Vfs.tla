-------------------------------- MODULE Vfs --------------------------------
(***************************************************************************)
(* Thistle's virtual file system (fs/vfs.ts): names, hard and symbolic     *)
(* links, a capacity that is counted over the whole tree after a change,   *)
(* which is then undone by hand, and files whose payload is fetched from   *)
(* the host when it is first needed, while other calls go on.  A call is   *)
(* one step; a fetch takes two, and everything else can come between them. *)
(*                                                                         *)
(* Paths are absolute.  A call that fails changes nothing and is no step,  *)
(* unless it fails for want of room.  Permissions, times and devices are   *)
(* left out: the calls are those of root.                                  *)
(***************************************************************************)
EXTENDS TreeFs

CONSTANTS
  Image,        \* the tree at the first start
  Depth,        \* bound: names in a path
  Targets,      \* what symbolic links may lead to
  NodeCost,     \* what a node counts besides its payload (128 in the code)
  Capacity,     \* the constructor's cap
  MaxHops,      \* bound: symbolic links followed in one resolution
  MaxFetches,   \* bound: fetches of one payload under way at once
  Overlay,      \* the host keeps what differs from the image, not a tree
  Careful       \* callers do not rename an entry to itself or below itself,
                \* and write through a descriptor only to a loaded file

ASSUME SizesAssumption ==
  /\ Depth \in Nat \ {0} /\ NodeCost \in Nat \ {0} /\ Capacity \in Nat
  /\ MaxHops \in Nat /\ MaxFetches \in Nat \ {0}
  /\ Overlay \in BOOLEAN /\ Careful \in BOOLEAN

Marks == {"s", "w"}
Texts == {<<>>, <<"w">>}
Paths == UNION {[1..n -> Names] : n \in 1..Depth}
Base == Dump(Image)

NodeState ==
  [kind : {"free", "dir", "file", "link"}, ent : [Names -> Nodes \cup {None}], nlink : Nat,
   to : Targets \cup {<<>>}, data : Seq(Marks), source : BOOLEAN, loading : BOOLEAN,
   fetches : 0..MaxFetches]

(* What makes a tree, a property each; see the end of the module.          *)
EmptyNode(r) == \A x \in Names : r.ent[x] = None

TypedTree(nodes) ==
  /\ nodes \in [Nodes -> NodeState]
  /\ nodes[Root].kind = "dir"
  /\ \A n \in Nodes : nodes[n].kind # "dir" => EmptyNode(nodes[n])
  /\ \A n \in Nodes : nodes[n].loading => nodes[n].fetches > 0

CountedTree(nodes) == \A n \in Reached(nodes) \ {Root} : nodes[n].nlink = Links(nodes, n)

ShapedTree(nodes) ==
  /\ \A n \in Nodes : n \in Reached(nodes) <=> nodes[n].kind # "free"
  /\ NamesOf(nodes, Root) = {}
  /\ \A n \in Reached(nodes) \ {Root} : nodes[n].kind # "file" => Links(nodes, n) = 1

ASSUME ImageAssumption == TypedTree(Image) /\ CountedTree(Image) /\ ShapedTree(Image)

VARIABLES
  node,     \* what each node is
  answer    \* whether the last call found room

vars == <<node, answer>>

---------------------------------------------------------------------------
Used(nodes) ==
  MapThenSumSet(LAMBDA n : NodeCost + Len(nodes[n].data), Reached(nodes))

Fits(nodes) == Used(nodes) <= Capacity
CanMake == \E n \in Nodes : node[n].kind = "free"      \* bound

(* The node at p, None when a name is missing, or a refusal.               *)
NotDir == -1
Loop == -2

Along(nodes, p) ==
  LET step[i \in 0..Len(p)] ==
        IF i = 0 THEN Root
        ELSE LET d == step[i - 1]
             IN  IF d \notin Nodes THEN d
                 ELSE IF nodes[d].kind = "dir" THEN nodes[d].ent[p[i]] ELSE NotDir
  IN  step

At(path) ==
  LET walk[hops \in 0..MaxHops, p \in Seq(Names)] ==
        LET step == Along(node, p)
            links == {i \in 1..Len(p) : step[i] \in Nodes /\ node[step[i]].kind = "link"}
        IN  IF links = {} THEN step[Len(p)]
            ELSE IF hops = MaxHops THEN Loop
            ELSE walk[hops + 1, node[step[Min(links)]].to \o SubSeq(p, Min(links) + 1, Len(p))]
  IN  walk[0, path]

IsDir(n) == n \in Nodes /\ node[n].kind = "dir"
IsFile(n) == n \in Nodes /\ node[n].kind = "file"

(* The directory that holds, or would hold, the last name of p.            *)
Par(p) == At(Front(p))
Entry(p) == node[Par(p)].ent[Last(p)]

Unlinked(nodes, n) == IF n = None THEN nodes ELSE [nodes EXCEPT ![n].nlink = @ - 1]
Made(d, x, r) == LET n == Fresh(node) IN Named([node EXCEPT ![n] = r], d, x, n)

---------------------------------------------------------------------------
Init ==
  /\ node = Image
  /\ answer = "ok"

(* A change is made first and counted then.                                *)
Keep(after, before) ==
  IF Fits(after)
  THEN node' = Collected(after) /\ answer' = "ok"
  ELSE node' = Collected(before) /\ answer' = "ENOSPC"

Replaced(r, text) == [r EXCEPT !.data = text, !.source = FALSE, !.loading = FALSE]

(* Faulty variant: only the payload is given back.                         *)
ForgetsSource(after, n) == [after EXCEPT ![n].data = node[n].data]

(* The file is as it was, but that it no longer knows of its fetch.        *)
RolledBack(after, n) ==
  [after EXCEPT ![n].data = node[n].data, ![n].source = node[n].source]

Overwrite(n, text) ==
  LET after == [node EXCEPT ![n] = Replaced(@, text)] IN Keep(after, RolledBack(after, n))

(* A new file whose payload has no room is forgotten by its name.          *)
Create(d, x, text) ==
  /\ CanMake
  /\ LET after == Made(d, x, Reg(text)) IN Keep(after, Named(after, d, x, None))

(* What walk does not find has no name, or that of a symbolic link that    *)
(* leads nowhere.                                                          *)
Unused(d, x) == node[d].ent[x] # None => node[node[d].ent[x]].kind = "link"

Write(p, text, add) ==
  LET n == At(p)
      d == Par(p)
  IN  \/ /\ IsFile(n) /\ ~(add /\ Lazy(node[n]))
         /\ Overwrite(n, IF add THEN node[n].data \o text ELSE text)
      \/ n = None /\ IsDir(d) /\ Unused(d, Last(p)) /\ Create(d, Last(p), text)

(* Writing through a descriptor, which knows its file by path: at its      *)
(* beginning or, when it appends, at its end.                              *)
FdWrite(p, text, add) ==
  LET n == At(p)
      old == node[n].data
      at == IF add THEN Len(old) ELSE 0
  IN  /\ IsFile(n)
      /\ Careful => ~Lazy(node[n])
      /\ Overwrite(n, SubSeq(old, 1, at) \o text \o SubSeq(old, at + Len(text) + 1, Len(old)))

(* The calls that make a new name refuse one that exists; only a regular   *)
(* file asks for room.                                                     *)
NewName(d, x) == IsDir(d) /\ node[d].ent[x] = None

MkFile(p, text) ==
  LET d == Par(p) IN NewName(d, Last(p)) /\ Create(d, Last(p), text)

Mkdir(p) ==
  LET d == Par(p)
  IN  /\ NewName(d, Last(p)) /\ CanMake
      /\ node' = Made(d, Last(p), Dir) /\ answer' = "ok"

Symlink(target, p) ==
  LET d == Par(p)
  IN  /\ NewName(d, Last(p)) /\ CanMake
      /\ node' = Made(d, Last(p), Sym(target)) /\ answer' = "ok"

(* Faulty variant: a directory gets a second name.                         *)
AnyNode(n) == n \in Nodes

(* Every node but directories: walk has followed the symbolic links.       *)
Linkable(n) == IsFile(n)

Link(p, q) ==
  LET n == At(p)
      d == Par(q)
  IN  /\ Linkable(n) /\ NewName(d, Last(q))
      /\ node' = [Named(node, d, Last(q), n) EXCEPT ![n].nlink = @ + 1]
      /\ answer' = "ok"

IsEmpty(n) == EmptyNode(node[n])

Rm(p) ==
  LET d == Par(p)
      n == node[d].ent[Last(p)]
  IN  /\ IsDir(d) /\ n # None /\ IsEmpty(n)
      /\ node' = Collected(Unlinked(Named(node, d, Last(p), None), n))
      /\ answer' = "ok"

(* Faulty variant: the links of what is replaced are not counted.          *)
StillLinked(nodes, old) == nodes

(* What loses its name to a renamed entry loses a link.                    *)
Displaced(nodes, old) == Unlinked(nodes, old)

Rename(p, q) ==
  LET d == Par(p)
      e == Par(q)
      n == node[d].ent[Last(p)]
      old == node[e].ent[Last(q)]
      moved == Named(Named(node, e, Last(q), n), d, Last(p), None)
  IN  /\ IsDir(d) /\ n # None /\ IsDir(e) /\ p # q
      /\ old # None => IsDir(old) = IsDir(n) /\ IsEmpty(old)
      /\ Careful => <<d, Last(p)>> # <<e, Last(q)>> /\ e \notin Within(node, n)
      /\ Level(moved, Root, Depth + 1) = {}               \* bound
      /\ node' = Collected(Displaced(moved, old))
      /\ answer' = "ok"

(* The first call that needs the payload begins to fetch it, later ones    *)
(* wait for the same fetch.                                                *)
Fetch(n) ==
  /\ Lazy(node[n]) /\ ~node[n].loading /\ node[n].fetches < MaxFetches
  /\ node' = [node EXCEPT ![n].loading = TRUE, ![n].fetches = @ + 1]
  /\ UNCHANGED answer

(* Faulty variant: the file still waits for a fetch that is over.          *)
StillLoading(r) == [r EXCEPT !.fetches = @ - 1]

(* A fetch that ends, well or not, is forgotten.  Its payload counts only  *)
(* when the file still has a source.                                       *)
Settled(r) == [r EXCEPT !.loading = FALSE, !.fetches = @ - 1]
Arrived(r) == IF r.source THEN [r EXCEPT !.data = Source] ELSE r

FetchDone(n) ==
  /\ node[n].fetches > 0
  /\ node' = [node EXCEPT ![n] = Settled(Arrived(@))]
  /\ UNCHANGED answer

FetchFails(n) ==
  /\ node[n].fetches > 0
  /\ node' = [node EXCEPT ![n] = Settled(@)]
  /\ UNCHANGED answer

(* The system starts again from what its host has kept.                    *)
Kept == IF Overlay THEN Merged(Base, Dump(node)) ELSE Dump(node)

Restart ==
  /\ Overlay => CanSave(Base, Dump(node)) /\ CanMake
  /\ Fits(Load(Kept))
  /\ node' = Load(Kept) /\ answer' = "ok"

Calls(p) ==
  \/ \E text \in Texts, add \in BOOLEAN : Write(p, text, add) \/ FdWrite(p, text, add)
  \/ \E text \in Texts : MkFile(p, text)
  \/ Mkdir(p) \/ Rm(p)
  \/ \E target \in Targets : Symlink(target, p)
  \/ \E q \in Paths : Link(p, q) \/ Rename(p, q)

Next ==
  \/ \E p \in Paths : Calls(p)
  \/ \E n \in Nodes : Fetch(n) \/ FetchDone(n) \/ FetchFails(n)
  \/ Restart

Spec == Init /\ [][Next]_vars

---------------------------------------------------------------------------
(* Properties.                                                             *)

(* Every node is of its kind, only directories have entries, and a file    *)
(* that waits for a fetch has one under way: otherwise it would be         *)
(* unreadable for good (Reg.loading, vfs.ts:76).                           *)
TypeOK == answer \in {"ok", "ENOSPC"} /\ TypedTree(node)

(* What stat reports as the number of links is the number of names, over   *)
(* replaced names, undone creations and restarts (VNode.nlink).            *)
LinksCounted == CountedTree(node)

(* The nodes form a tree: every name leads to a node that exists, what     *)
(* exists can be found from the root, the root has no name and only files  *)
(* have several, so that every walk of the tree ends (Vfs.paths,           *)
(* TreeFs.dump).                                                           *)
TreeShaped == ShapedTree(node)

(* What a path shows, and what a restart shows of it: the host's copy is a *)
(* copy (TreeFs.dump and load, WebTree.push and pull).                     *)
Seen(nodes, p) ==
  LET n == Along(nodes, p)[Len(p)]
  IN  IF n \notin Nodes THEN [kind |-> "none"]
      ELSE CASE nodes[n].kind = "dir" -> [kind |-> "dir"]
             [] nodes[n].kind = "link" -> [kind |-> "link", to |-> nodes[n].to]
             [] OTHER -> [kind |-> "file",
                          text |-> IF Lazy(nodes[n]) THEN Source ELSE nodes[n].data]

RestartKeeps == [][Restart => \A p \in Paths : Seen(node', p) = Seen(node, p)]_vars

(* The file system does what FileTree promises.                            *)
SameThing(nodes) ==
  LET leads == {<<p, Along(nodes, p)[Len(p)]>> : p \in Paths}
  IN  {{x[1] : x \in {y \in leads : y[2] = n}} : n \in {x[2] : x \in leads} \cap Nodes}

Tree == INSTANCE FileTree WITH view <- [p \in Paths |-> Seen(node, p)], same <- SameThing(node)

ImplementsFileTree == Tree!Spec
=============================================================================
