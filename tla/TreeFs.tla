------------------------------- MODULE TreeFs -------------------------------
(***************************************************************************)
(* The nodes of a file system (the classes of fs/vfs.ts), the list of      *)
(* entries they are saved as, and the way back (fs/tree.ts); and what the  *)
(* browser's overlay over a static root makes of such a list               *)
(* (main/webtree.ts).  Operators only: a tree is a function from node      *)
(* numbers to records.                                                     *)
(*                                                                         *)
(* Paths are sequences of names.  A payload is a sequence of marks: "s"    *)
(* came from the source of a lazy file, "w" was written.  Owners, modes    *)
(* and times are left out.                                                 *)
(***************************************************************************)
EXTENDS Integers, FiniteSetsExt, SequencesExt

CONSTANTS
  Order,        \* names of directory entries, in the order they are listed
  MaxNodes      \* bound: nodes that exist at once, the root included

ASSUME NodesAssumption ==
  MaxNodes \in Nat \ {0} /\ Order \in Seq(ToSet(Order)) /\ IsInjective(Order)

Names == ToSet(Order)
Nodes == 1..MaxNodes
Root == 1
None == 0
Source == <<"s">>

Free == [kind |-> "free", ent |-> [x \in Names |-> None], nlink |-> 0, to |-> <<>>,
         data |-> <<>>, source |-> FALSE, loading |-> FALSE, fetches |-> 0]
Dir == [Free EXCEPT !.kind = "dir", !.nlink = 1]
Reg(text) == [Free EXCEPT !.kind = "file", !.nlink = 1, !.data = text]
Sym(target) == [Free EXCEPT !.kind = "link", !.nlink = 1, !.to = target]
LazyReg == [Reg(<<>>) EXCEPT !.source = TRUE]

Lazy(r) == r.kind = "file" /\ r.source /\ r.data = <<>>

---------------------------------------------------------------------------
(* Trees.                                                                  *)

Entries(nodes, d) == {nodes[d].ent[x] : x \in Names} \ {None}

(* What is that many names below a node.                                   *)
Level(nodes, top, names) ==
  LET level[i \in 0..names] ==
        IF i = 0 THEN {top} ELSE UNION {Entries(nodes, d) : d \in level[i - 1]}
  IN  level[names]

(* All that is below a node, itself included: what every set has that has  *)
(* the node and the entries of its members.                                *)
Closed(nodes, S) == \A d \in S : Entries(nodes, d) \subseteq S

Within(nodes, top) ==
  {n \in Nodes : \A S \in SUBSET Nodes : top \in S /\ Closed(nodes, S) => n \in S}
Reached(nodes) == Within(nodes, Root)

(* The names a node has, and their number.                                 *)
NamesOf(nodes, n) == {dx \in Reached(nodes) \X Names : nodes[dx[1]].ent[dx[2]] = n}
Links(nodes, n) == Cardinality(NamesOf(nodes, n))

(* Nothing refers to a node that has no name any more.                     *)
Collected(nodes) ==
  LET kept == Reached(nodes) IN [n \in Nodes |-> IF n \in kept THEN nodes[n] ELSE Free]

Fresh(nodes) == CHOOSE n \in Nodes : nodes[n].kind = "free"
Named(nodes, d, x, n) == [nodes EXCEPT ![d].ent[x] = n]

---------------------------------------------------------------------------
(* The list of entries a tree is saved as: depth first, each directory in  *)
(* order, and each node numbered when it is met first.                     *)
Walk(nodes) ==
  LET walk[n \in Nodes, levels \in 0..MaxNodes] ==
        LET below(x) == IF nodes[n].ent[x] = None \/ levels = 0 THEN <<>>
                        ELSE LET sub == walk[nodes[n].ent[x], levels - 1]
                             IN  [i \in DOMAIN sub |-> [sub[i] EXCEPT !.p = <<x>> \o @]]
        IN  <<[p |-> <<>>, n |-> n]>> \o FlattenSeq([i \in DOMAIN Order |-> below(Order[i])])
  IN  walk[Root, MaxNodes]

Dump(nodes) ==
  LET met == Walk(nodes)
      first(n) == Min({i \in DOMAIN met : met[i].n = n})
      id(n) == Cardinality({met[i].n : i \in 1..first(n)})
      entry(p, n) == [p |-> p, id |-> id(n), k |-> nodes[n].kind, to |-> nodes[n].to,
                      data |-> nodes[n].data, source |-> Lazy(nodes[n])]
  IN  [i \in DOMAIN met |-> entry(met[i].p, met[i].n)]

(* The last entry of a number that carries a payload gives the node its    *)
(* payload, the first of all its kind.                                     *)
Carries(e) == e.k = "link" \/ (e.k = "file" /\ ~e.source)

Definition(entries, e) ==
  LET alike == {i \in DOMAIN entries : entries[i].id = e.id}
      full == {i \in alike : Carries(entries[i])}
  IN  entries[IF full = {} THEN Min(alike) ELSE Max(full)]

NodeOf(entries, e) ==
  LET q == Definition(entries, e)
  IN  CASE e.k = "dir" -> Dir
        [] e.k = "link" -> Sym(q.to)
        [] OTHER -> [Reg(IF q.k = "file" THEN q.data ELSE <<>>) EXCEPT !.source = q.source]

(* Whatever is in the way of a directory on the path is replaced by one.   *)
MakeWay(nodes, path) ==
  LET go(at, x) ==
        LET n == at.nodes[at.d].ent[x]
        IN  IF n # None /\ at.nodes[n].kind = "dir" THEN [at EXCEPT !.d = n]
            ELSE LET m == Fresh(at.nodes)
                 IN  [nodes |-> Named([at.nodes EXCEPT ![m] = Dir], at.d, x, m), d |-> m]
  IN  FoldLeft(go, [nodes |-> nodes, d |-> Root], path)

(* An entry is one more name for the node with its number, which is made   *)
(* when there is none yet.                                                 *)
Placed(entries, done, e) ==
  LET way == MakeWay(done.nodes, Front(e.p))
      known == e.id \in DOMAIN done.ids
      n == IF known THEN done.ids[e.id] ELSE Fresh(way.nodes)
      made == IF known THEN way.nodes
              ELSE [way.nodes EXCEPT ![n] = [NodeOf(entries, e) EXCEPT !.nlink = 0]]
  IN  [nodes |-> [Named(made, way.d, Last(e.p), n) EXCEPT ![n].nlink = @ + 1],
       ids |-> [i \in DOMAIN done.ids \cup {e.id} |-> IF i = e.id THEN n ELSE done.ids[i]]]

ByDepth(entries) ==
  FlattenSeq([i \in 1..(MaxNodes + 1) |-> SelectSeq(entries, LAMBDA e : Len(e.p) = i - 1)])

Load(entries) ==
  LET rest == Tail(ByDepth(entries))
      empty == [[n \in Nodes |-> Free] EXCEPT ![Root] = Dir]
      place(done, e) == Placed(entries, done, e)
  IN  FoldLeft(place, [nodes |-> empty, ids |-> (Head(entries).id :> Root)], rest).nodes

---------------------------------------------------------------------------
(* The browser saves only what differs from the static root, and puts both *)
(* together again at the next start: an entry that has not changed comes   *)
(* from the root's own list, every other one from the saved list.          *)
TextOf(e) == IF e.source THEN Source ELSE e.data

SameBase(e, base) == e.k = base.k /\ e.to = base.to /\ TextOf(e) = TextOf(base)

Merged(base, entries) ==
  LET original(e) == {i \in DOMAIN base : base[i].p = e.p /\ SameBase(e, base[i])}
  IN  [j \in DOMAIN entries |->
        IF original(entries[j]) = {} THEN entries[j]
        ELSE base[CHOOSE i \in original(entries[j]) : TRUE]]

(* A file that is not where the static root has it must have its payload.  *)
CanSave(base, entries) ==
  \A j \in DOMAIN entries :
    entries[j].source => \E i \in DOMAIN base : base[i].p = entries[j].p /\ SameBase(entries[j], base[i])
=============================================================================
