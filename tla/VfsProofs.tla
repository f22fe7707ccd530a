------------------------------ MODULE VfsProofs ------------------------------
(***************************************************************************)
(* Proofs about Vfs: between two starts, names and links stay a tree.      *)
(***************************************************************************)
EXTENDS Vfs, TLAPS, FiniteSetTheorems

-----------------------------------------------------------------------------
(* Trees.                                                                  *)

(* There are finitely many names and nodes.                                *)
LEMMA FiniteTree == IsFiniteSet(Names) /\ IsFiniteSet(Nodes) /\ IsFiniteSet(Nodes \X Names)
<1>1. IsFiniteSet(Names)
  <2> DEFINE D == 1 .. Len(Order)
             f == [i \in D |-> Order[i]]
  <2>1. Order \in Seq(Names) /\ Len(Order) \in Nat /\ DOMAIN Order = D
    BY NodesAssumption DEF Names
  <2>2. IsFiniteSet(D)
    BY <2>1, FS_Interval
  <2>3. f \in Surjection(D, Names)
    BY <2>1 DEF Surjection, Names, ToSet
  <2> QED
    BY <2>2, <2>3, FS_Surjection
<1>2. IsFiniteSet(Nodes)
  BY NodesAssumption, FS_Interval DEF Nodes
<1> QED
  BY <1>1, <1>2, FS_Product

(* The root is reached, and what a reached node names is.                  *)
LEMMA ReachedClosed ==
  ASSUME NEW t, NEW top \in Nodes, \A m \in Nodes : Entries(t, m) \subseteq Nodes
  PROVE  /\ Within(t, top) \subseteq Nodes /\ top \in Within(t, top)
         /\ Closed(t, Within(t, top))
<1>1. Within(t, top) \subseteq Nodes /\ top \in Within(t, top)
  BY DEF Within
<1>2. ASSUME NEW d \in Within(t, top), NEW m \in Entries(t, d)
      PROVE  m \in Within(t, top)
  <2>1. d \in Nodes /\ m \in Nodes
    BY <1>1
  <2>2. ASSUME NEW S \in SUBSET Nodes, top \in S, Closed(t, S) PROVE m \in S
    <3>1. d \in S
      BY <2>2 DEF Within
    <3> QED
      BY <2>2, <3>1 DEF Closed
  <2> QED
    BY <2>1, <2>2 DEF Within
<1> QED
  BY <1>1, <1>2 DEF Closed

(* A closed set with the top has everything below it.                      *)
LEMMA ReachedLeast ==
  ASSUME NEW t, NEW top, NEW S \in SUBSET Nodes, top \in S, Closed(t, S)
  PROVE  Within(t, top) \subseteq S
BY DEF Within

(* Entries lead to nodes.                                                  *)
LEMMA EntriesAreNodes ==
  ASSUME NEW t \in [Nodes -> NodeState]
  PROVE  \A m \in Nodes : Entries(t, m) \subseteq Nodes
BY DEF Entries, NodeState

(* What is reached in a tree.                                              *)
LEMMA ReachedIs ==
  ASSUME NEW t \in [Nodes -> NodeState]
  PROVE  /\ Root \in Nodes /\ Reached(t) \subseteq Nodes /\ Root \in Reached(t)
         /\ \A d \in Reached(t), x \in Names : t[d].ent[x] # None => t[d].ent[x] \in Reached(t)
<1>1. Root \in Nodes
  BY NodesAssumption DEF Root, Nodes
<1>2. Reached(t) \subseteq Nodes /\ Root \in Reached(t) /\ Closed(t, Reached(t))
  BY <1>1, EntriesAreNodes, ReachedClosed DEF Reached
<1> QED
  BY <1>1, <1>2 DEF Closed, Entries

(* A set with the root and what its nodes name has all that is reached.    *)
LEMMA ReachedWithin ==
  ASSUME NEW t, NEW S \in SUBSET Nodes, Root \in S,
         \A d \in S, x \in Names : t[d].ent[x] # None => t[d].ent[x] \in S
  PROVE  Reached(t) \subseteq S
<1>1. Closed(t, S)
  BY DEF Closed, Entries
<1> QED
  BY <1>1, ReachedLeast DEF Reached

-----------------------------------------------------------------------------
(* Names.                                                                  *)

(* The names of a node, those in what is not reached included.             *)
Refs(t, n) == {dx \in Nodes \X Names : t[dx[1]].ent[dx[2]] = n}

(* u is t with one entry set to v.                                         *)
Alters(t, u, d, x, v) ==
  \A m \in Nodes, y \in Names : u[m].ent[y] = IF m = d /\ y = x THEN v ELSE t[m].ent[y]

(* What an entry is among the names.                                       *)
LEMMA RefsHave ==
  ASSUME NEW t, NEW n, NEW d \in Nodes, NEW x \in Names
  PROVE  <<d, x>> \in Refs(t, n) <=> t[d].ent[x] = n
BY DEF Refs

(* Names are counted.                                                      *)
LEMMA RefsFinite ==
  ASSUME NEW t, NEW n
  PROVE  /\ IsFiniteSet(Refs(t, n)) /\ Cardinality(Refs(t, n)) \in Nat
         /\ Cardinality(Refs(t, n)) = 0 <=> Refs(t, n) = {}
         /\ \A e : e \in Refs(t, n) /\ Cardinality(Refs(t, n)) = 1 => Refs(t, n) = {e}
<1>1. Refs(t, n) \in SUBSET (Nodes \X Names)
  BY DEF Refs
<1>2. IsFiniteSet(Refs(t, n))
  BY <1>1, FiniteTree, FS_Subset
<1>3. Cardinality(Refs(t, n)) \in Nat
  BY <1>2, FS_CardinalityType
<1>4. Cardinality(Refs(t, n)) = 0 <=> Refs(t, n) = {}
  BY <1>2, FS_EmptySet
<1>5. ASSUME NEW e \in Refs(t, n), Cardinality(Refs(t, n)) = 1 PROVE Refs(t, n) = {e}
  <2>1. PICK z : Refs(t, n) = {z}
    BY <1>2, <1>5, FS_Singleton
  <2> QED
    BY <1>5, <2>1
<1> QED
  BY <1>2, <1>3, <1>4, <1>5

(* Names after one entry was set.                                          *)
LEMMA RefsAltered ==
  ASSUME NEW t, NEW u, NEW d \in Nodes, NEW x \in Names, NEW v, Alters(t, u, d, x, v), NEW n
  PROVE  /\ v = n => Refs(u, n) = Refs(t, n) \cup {<<d, x>>}
         /\ v # n => Refs(u, n) = Refs(t, n) \ {<<d, x>>}
<1> DEFINE e == <<d, x>>
<1>1. ASSUME NEW dx \in Nodes \X Names
      PROVE  u[dx[1]].ent[dx[2]] = IF dx = e THEN v ELSE t[dx[1]].ent[dx[2]]
  <2>1. dx[1] \in Nodes /\ dx[2] \in Names /\ (dx = e <=> dx[1] = d /\ dx[2] = x)
    OBVIOUS
  <2> QED
    BY <2>1 DEF Alters
<1>2. e \in Nodes \X Names
  OBVIOUS
<1> HIDE DEF e
<1>3. \A dx \in Nodes \X Names : dx \in Refs(u, n) <=> IF dx = e THEN v = n ELSE dx \in Refs(t, n)
  BY <1>1 DEF Refs
<1>4. Refs(u, n) \subseteq Nodes \X Names /\ Refs(t, n) \subseteq Nodes \X Names
  BY DEF Refs
<1>5. v = n => Refs(u, n) = Refs(t, n) \cup {e}
  BY <1>2, <1>3, <1>4
<1>6. v # n => Refs(u, n) = Refs(t, n) \ {e}
  BY <1>2, <1>3, <1>4
<1> QED
  BY <1>5, <1>6 DEF e

(* And how many there are.                                                 *)
LEMMA RefsCounted ==
  ASSUME NEW t, NEW u, NEW d \in Nodes, NEW x \in Names, NEW v, Alters(t, u, d, x, v), NEW n
  PROVE  /\ v # n /\ t[d].ent[x] # n => Refs(u, n) = Refs(t, n)
         /\ v = n /\ t[d].ent[x] = n => Refs(u, n) = Refs(t, n)
         /\ v = n /\ t[d].ent[x] # n => Cardinality(Refs(u, n)) = Cardinality(Refs(t, n)) + 1
         /\ v # n /\ t[d].ent[x] = n => Cardinality(Refs(u, n)) = Cardinality(Refs(t, n)) - 1
<1> DEFINE e == <<d, x>>
           R == Refs(t, n)
<1>1. IsFiniteSet(R)
  BY RefsFinite
<1>2. e \in R <=> t[d].ent[x] = n
  BY DEF Refs
<1>3. (v = n => Refs(u, n) = R \cup {e}) /\ (v # n => Refs(u, n) = R \ {e})
  BY RefsAltered
<1> HIDE DEF e, R
<1>4. /\ Cardinality(R \cup {e}) = IF e \in R THEN Cardinality(R) ELSE Cardinality(R) + 1
      /\ Cardinality(R \ {e}) = IF e \in R THEN Cardinality(R) - 1 ELSE Cardinality(R)
  BY <1>1, FS_AddElement, FS_RemoveElement
<1>5. (e \in R => R \cup {e} = R) /\ (e \notin R => R \ {e} = R)
  OBVIOUS
<1> QED
  BY <1>2, <1>3, <1>4, <1>5 DEF R

(* Entries that are set elsewhere leave the names of a node as they were.  *)
LEMMA RefsSame ==
  ASSUME NEW t, NEW u, NEW d \in Nodes, NEW x \in Names, NEW v, Alters(t, u, d, x, v),
         NEW n, v # n, t[d].ent[x] # n
  PROVE  Refs(u, n) = Refs(t, n)
BY RefsCounted

-----------------------------------------------------------------------------
(* Good trees.  What is not reached may remain, but has no entries, so     *)
(* that its names do not count: it is what the runtime has not collected.  *)
Ordinary(t, n) ==
  /\ t[n].kind # "free"
  /\ n # Root => /\ t[n].nlink = Cardinality(Refs(t, n))
                 /\ t[n].kind # "file" => Cardinality(Refs(t, n)) = 1

Good(t) ==
  /\ TypedTree(t)
  /\ Refs(t, Root) = {}
  /\ \A n \in Nodes \ Reached(t) : EmptyNode(t[n])
  /\ \A n \in Reached(t) : Ordinary(t, n)

Sound(t) == TypedTree(t) /\ CountedTree(t) /\ ShapedTree(t)

(* Where the unreached has no entries, all names are names of the tree.    *)
LEMMA RefsAreNames ==
  ASSUME NEW t \in [Nodes -> NodeState], \A n \in Nodes \ Reached(t) : EmptyNode(t[n]),
         NEW n \in Nodes
  PROVE  Refs(t, n) = NamesOf(t, n)
<1>1. n # None /\ Reached(t) \subseteq Nodes
  BY ReachedIs DEF Nodes, None
<1>2. ASSUME NEW dx \in Nodes \X Names, t[dx[1]].ent[dx[2]] = n PROVE dx[1] \in Reached(t)
  <2>1. dx[1] \in Nodes /\ dx[2] \in Names
    OBVIOUS
  <2> QED
    BY <1>1, <1>2, <2>1 DEF EmptyNode
<1> QED
  BY <1>1, <1>2 DEF Refs, NamesOf

(* A sound tree is a good one in which all that is not free is reached.    *)
LEMMA SoundIsGood ==
  ASSUME NEW t
  PROVE  Sound(t) <=> Good(t) /\ \A n \in Nodes : t[n].kind # "free" => n \in Reached(t)
<1>1. TypedTree(t) => Root \in Nodes /\ Reached(t) \subseteq Nodes /\ t \in [Nodes -> NodeState]
  BY ReachedIs DEF TypedTree
<1>2. ASSUME Sound(t)
      PROVE  Good(t) /\ \A n \in Nodes : t[n].kind # "free" => n \in Reached(t)
  <2>1. \A n \in Nodes \ Reached(t) : EmptyNode(t[n])
    BY <1>2 DEF Sound, TypedTree, ShapedTree
  <2>2. \A n \in Nodes : Refs(t, n) = NamesOf(t, n)
    BY <1>1, <1>2, <2>1, RefsAreNames DEF Sound
  <2>3. Refs(t, Root) = {}
    BY <1>1, <1>2, <2>2 DEF Sound, ShapedTree
  <2>4. \A n \in Reached(t) : Ordinary(t, n)
    BY <1>1, <1>2, <2>2 DEF Sound, ShapedTree, CountedTree, Ordinary, Links
  <2> QED
    BY <1>2, <2>1, <2>3, <2>4 DEF Sound, Good, ShapedTree
<1>3. ASSUME Good(t), \A n \in Nodes : t[n].kind # "free" => n \in Reached(t)
      PROVE  Sound(t)
  <2>1. \A n \in Nodes : Refs(t, n) = NamesOf(t, n)
    BY <1>1, <1>3, RefsAreNames DEF Good
  <2>2. CountedTree(t)
    BY <1>1, <1>3, <2>1 DEF Good, Ordinary, CountedTree, Links
  <2>3. ShapedTree(t)
    BY <1>1, <1>3, <2>1 DEF Good, Ordinary, ShapedTree, Links
  <2> QED
    BY <1>3, <2>2, <2>3 DEF Sound, Good
<1> QED
  BY <1>2, <1>3

(* What an entry leads to, in a good tree.                                 *)
LEMMA EntryIs ==
  ASSUME NEW t, Good(t), NEW d \in Nodes, NEW x \in Names, t[d].ent[x] # None
  PROVE  LET n == t[d].ent[x]
         IN  /\ d \in Reached(t) /\ t[d].kind = "dir"
             /\ n \in Reached(t) /\ n \in Nodes /\ n # Root /\ <<d, x>> \in Refs(t, n)
             /\ t[n].nlink \in Nat /\ t[n].nlink > 0 /\ t[n].nlink = Cardinality(Refs(t, n))
             /\ t[n].kind # "free" /\ (t[n].kind # "file" => Refs(t, n) = {<<d, x>>})
<1> DEFINE n == t[d].ent[x]
<1>1. d \in Reached(t) /\ t[d].kind = "dir" /\ t \in [Nodes -> NodeState]
  BY DEF Good, TypedTree, EmptyNode
<1>2. n \in Reached(t) /\ n \in Nodes
  BY <1>1, ReachedIs
<1>3. <<d, x>> \in Refs(t, n)
  BY DEF Refs
<1>4. n # Root
  BY <1>3 DEF Good
<1> HIDE DEF n
<1>5. Ordinary(t, n)
  BY <1>2 DEF Good
<1>6. /\ Cardinality(Refs(t, n)) \in Nat /\ Cardinality(Refs(t, n)) # 0
      /\ Cardinality(Refs(t, n)) = 1 => Refs(t, n) = {<<d, x>>}
  BY <1>3, RefsFinite
<1>7. t[n].nlink > 0
  BY <1>4, <1>5, <1>6 DEF Ordinary, n
<1> QED
  BY <1>1, <1>2, <1>3, <1>4, <1>5, <1>6, <1>7 DEF Ordinary, n

(* The same of a node that is known otherwise.                             *)
LEMMA NameIs ==
  ASSUME NEW t, Good(t), NEW d \in Nodes, NEW x \in Names, NEW n, n # None, t[d].ent[x] = n
  PROVE  /\ d \in Reached(t) /\ n \in Nodes /\ n # Root /\ <<d, x>> \in Refs(t, n)
         /\ t[n].nlink = Cardinality(Refs(t, n))
         /\ t[n].kind # "file" => Refs(t, n) = {<<d, x>>}
BY EntryIs

(* A node without a name is not reached.                                   *)
LEMMA NamelessUnreached ==
  ASSUME NEW t \in [Nodes -> NodeState], NEW n \in Nodes, n # Root, Refs(t, n) = {}
  PROVE  n \notin Reached(t)
<1> DEFINE S == Nodes \ {n}
<1>1. Root \in S /\ S \in SUBSET Nodes
  BY ReachedIs
<1>2. ASSUME NEW d \in S, NEW x \in Names, t[d].ent[x] # None PROVE t[d].ent[x] \in S
  <2>1. t[d].ent[x] \in Nodes
    BY <1>2 DEF NodeState
  <2>2. t[d].ent[x] # n
    <3>1. d \in Nodes /\ x \in Names
      BY <1>2
    <3>2. t[d].ent[x] = n => <<d, x>> \in Refs(t, n)
      BY <3>1 DEF Refs
    <3> QED
      BY <3>2
  <2> QED
    BY <2>1, <2>2
<1>3. Reached(t) \subseteq S
  BY <1>1, <1>2, ReachedWithin
<1> QED
  BY <1>3

-----------------------------------------------------------------------------
(* The changes that calls are made of.                                     *)

(* A change that leaves kinds, entries and links alone.                    *)
LEMMA GoodUnshaped ==
  ASSUME NEW t, Good(t), NEW u, TypedTree(u),
         \A m \in Nodes : u[m].kind = t[m].kind /\ u[m].ent = t[m].ent /\ u[m].nlink = t[m].nlink
  PROVE  Good(u) /\ Reached(u) = Reached(t)
<1>1. Reached(u) = Reached(t)
  BY DEF Reached, Within, Closed, Entries
<1>2. \A n \in Nodes : Refs(u, n) = Refs(t, n)
  BY DEF Refs
<1>3. Root \in Nodes /\ Reached(t) \subseteq Nodes
  BY ReachedIs DEF Good, TypedTree
<1>4. \A n \in Reached(t) : Ordinary(u, n)
  BY <1>2, <1>3 DEF Good, Ordinary
<1>5. \A n \in Nodes \ Reached(t) : EmptyNode(u[n])
  BY DEF Good, EmptyNode
<1> QED
  BY <1>1, <1>2, <1>3, <1>4, <1>5 DEF Good

(* What an entry that is taken away was the only way to, when it names a   *)
(* node without entries: that node.                                        *)
LEMMA CutReach ==
  ASSUME NEW t, TypedTree(t), NEW u, TypedTree(u), NEW d \in Nodes, NEW x \in Names,
         t[d].ent[x] # None, EmptyNode(t[t[d].ent[x]]), Alters(t, u, d, x, None)
  PROVE  Reached(u) \subseteq Reached(t) /\ Reached(t) \subseteq Reached(u) \cup {t[d].ent[x]}
<1> DEFINE old == t[d].ent[x]
           S == Reached(u) \cup {old}
<1>1. /\ Root \in Nodes /\ Reached(t) \subseteq Nodes /\ Root \in Reached(t)
      /\ \A m \in Reached(t), y \in Names : t[m].ent[y] # None => t[m].ent[y] \in Reached(t)
  BY ReachedIs DEF TypedTree
<1>2. /\ Reached(u) \subseteq Nodes /\ Root \in Reached(u)
      /\ \A m \in Reached(u), y \in Names : u[m].ent[y] # None => u[m].ent[y] \in Reached(u)
  BY ReachedIs DEF TypedTree
<1>3. old \in Nodes
  BY DEF TypedTree, NodeState
<1>4. \A m \in Reached(t), y \in Names : u[m].ent[y] # None => u[m].ent[y] \in Reached(t)
  BY <1>1 DEF Alters
<1>5. Reached(u) \subseteq Reached(t)
  BY <1>1, <1>4, ReachedWithin
<1>6. ASSUME NEW m \in S, NEW y \in Names, t[m].ent[y] # None PROVE t[m].ent[y] \in S
  <2>1. m # old /\ m \in Reached(u) /\ m \in Nodes
    BY <1>2, <1>6 DEF EmptyNode
  <2>2. CASE m = d /\ y = x
    BY <2>2
  <2>3. CASE ~(m = d /\ y = x)
    <3>1. u[m].ent[y] = t[m].ent[y]
      BY <2>1, <2>3 DEF Alters
    <3> QED
      BY <1>2, <1>6, <2>1, <3>1
  <2> QED
    BY <2>2, <2>3
<1>7. Reached(t) \subseteq S
  <2>1. S \in SUBSET Nodes /\ Root \in S
    BY <1>2, <1>3
  <2> HIDE DEF S
  <2> QED
    BY <1>6, <2>1, ReachedWithin
<1> QED
  BY <1>5, <1>7

(* u has the kinds of t and, but for those of one node, its links.         *)
Alike(t, u, n) == \A m \in Nodes : u[m].kind = t[m].kind /\ (m # n => u[m].nlink = t[m].nlink)

(* An entry is taken away from a node without entries of its own.  Either  *)
(* its link is taken back too, or it had no other and is lost.             *)
LEMMA GoodCut ==
  ASSUME NEW t, Good(t), NEW u, TypedTree(u), NEW d \in Nodes, NEW x \in Names,
         NEW old, old = t[d].ent[x], old # None, EmptyNode(t[old]), Alters(t, u, d, x, None),
         Alike(t, u, old),
         u[old].nlink = t[old].nlink - 1 \/ Refs(t, old) = {<<d, x>>}
  PROVE  Good(u)
<1>1. /\ TypedTree(t) /\ t \in [Nodes -> NodeState] /\ u \in [Nodes -> NodeState]
      /\ Reached(t) \subseteq Nodes /\ Reached(u) \subseteq Nodes /\ Root \in Nodes
  BY ReachedIs DEF Good, TypedTree
<1>2. /\ old \in Nodes /\ old # Root /\ <<d, x>> \in Refs(t, old)
      /\ t[old].nlink = Cardinality(Refs(t, old))
      /\ t[old].kind # "file" => Refs(t, old) = {<<d, x>>}
  BY NameIs
<1>3. Reached(u) \subseteq Reached(t) /\ Reached(t) \subseteq Reached(u) \cup {old}
  BY <1>1, CutReach
<1>4. /\ \A n \in Nodes \ {old} : Refs(u, n) = Refs(t, n)
      /\ Refs(u, old) = Refs(t, old) \ {<<d, x>>}
      /\ Cardinality(Refs(u, old)) = Cardinality(Refs(t, old)) - 1
  <2>1. \A n \in Nodes : None # n
    BY DEF Nodes, None
  <2>2. ASSUME NEW n \in Nodes \ {old} PROVE Refs(u, n) = Refs(t, n)
    BY <2>1, <2>2, RefsSame
  <2>3. Refs(u, old) = Refs(t, old) \ {<<d, x>>}
    BY <1>2, <2>1, RefsAltered
  <2>4. Cardinality(Refs(u, old)) = Cardinality(Refs(t, old)) - 1
    BY <1>2, <2>1, RefsCounted
  <2> QED
    BY <2>2, <2>3, <2>4
<1>5. Refs(t, old) = {<<d, x>>} => old \notin Reached(u)
  BY <1>1, <1>2, <1>4, NamelessUnreached
<1>6. ASSUME NEW n \in Nodes \ Reached(u) PROVE EmptyNode(u[n])
  <2>1. EmptyNode(t[n])
    BY <1>3, <1>6 DEF Good
  <2> QED
    BY <2>1 DEF EmptyNode, Alters
<1>7. ASSUME NEW n \in Reached(u) PROVE Ordinary(u, n)
  <2>1. n \in Nodes /\ Ordinary(t, n)
    BY <1>1, <1>3, <1>7 DEF Good
  <2>2. CASE n # old
    BY <1>4, <2>1, <2>2 DEF Ordinary, Alike
  <2>3. CASE n = old
    BY <1>2, <1>4, <1>5, <1>7, <2>1, <2>3 DEF Ordinary, Alike
  <2> QED
    BY <2>2, <2>3
<1> QED
  BY <1>1, <1>2, <1>4, <1>6, <1>7 DEF Good

(* An entry that is set where none was: what it leads to is reached now.   *)
LEMMA AddReach ==
  ASSUME NEW t, TypedTree(t), NEW u, TypedTree(u), NEW d \in Reached(t), NEW x \in Names,
         t[d].ent[x] = None, NEW f \in Nodes, EmptyNode(t[f]), d # f, Alters(t, u, d, x, f)
  PROVE  Reached(u) = Reached(t) \cup {f}
<1> DEFINE S == Reached(t) \cup {f}
<1>1. /\ Root \in Nodes /\ Reached(t) \subseteq Nodes /\ Root \in Reached(t)
      /\ \A m \in Reached(t), y \in Names : t[m].ent[y] # None => t[m].ent[y] \in Reached(t)
  BY ReachedIs DEF TypedTree
<1>2. /\ Reached(u) \subseteq Nodes /\ Root \in Reached(u)
      /\ \A m \in Reached(u), y \in Names : u[m].ent[y] # None => u[m].ent[y] \in Reached(u)
  BY ReachedIs DEF TypedTree
<1>3. ASSUME NEW m \in S, NEW y \in Names, u[m].ent[y] # None PROVE u[m].ent[y] \in S
  <2>1. m \in Nodes
    BY <1>1
  <2>2. CASE m = d /\ y = x
    BY <2>1, <2>2 DEF Alters
  <2>3. CASE ~(m = d /\ y = x)
    <3>1. u[m].ent[y] = t[m].ent[y]
      BY <2>1, <2>3 DEF Alters
    <3>2. m \in Reached(t)
      BY <1>3, <3>1 DEF EmptyNode
    <3> QED
      BY <1>1, <1>3, <3>1, <3>2
  <2> QED
    BY <2>2, <2>3
<1>4. Reached(u) \subseteq S
  <2>1. S \in SUBSET Nodes /\ Root \in S
    BY <1>1
  <2> HIDE DEF S
  <2> QED
    BY <1>3, <2>1, ReachedWithin
<1>5. ASSUME NEW m \in Reached(u), NEW y \in Names, t[m].ent[y] # None
      PROVE  t[m].ent[y] \in Reached(u)
  <2>1. u[m].ent[y] = t[m].ent[y]
    BY <1>2, <1>5 DEF Alters
  <2> QED
    BY <1>2, <1>5, <2>1
<1>6. Reached(t) \subseteq Reached(u)
  BY <1>2, <1>5, ReachedWithin
<1>7. u[d].ent[x] = f /\ f # None
  BY <1>1 DEF Alters, Nodes, None
<1>8. f \in Reached(u)
  BY <1>2, <1>6, <1>7
<1> QED
  BY <1>4, <1>6, <1>8

(* A new node gets a name.                                                 *)
LEMMA GoodGrown ==
  ASSUME NEW t, Good(t), NEW u, TypedTree(u), NEW d \in Reached(t), NEW x \in Names,
         t[d].ent[x] = None, NEW f \in Nodes \ Reached(t), Alters(t, u, d, x, f),
         \A m \in Nodes \ {f} : u[m].kind = t[m].kind /\ u[m].nlink = t[m].nlink,
         u[f].kind # "free", u[f].nlink = 1
  PROVE  Good(u) /\ Refs(u, f) = {<<d, x>>} /\ Reached(u) = Reached(t) \cup {f}
<1>1. /\ TypedTree(t) /\ t \in [Nodes -> NodeState] /\ Reached(t) \subseteq Nodes
      /\ Root \in Reached(t) /\ d \in Nodes /\ d # f /\ f # Root /\ f # None /\ None \notin Nodes
  BY ReachedIs DEF Good, TypedTree, Nodes, None
<1>2. EmptyNode(t[f])
  BY DEF Good
<1>3. Reached(u) = Reached(t) \cup {f}
  BY <1>1, <1>2, AddReach
<1>4. Refs(t, f) = {}
  <2> SUFFICES ASSUME NEW e \in Nodes, NEW y \in Names, t[e].ent[y] = f PROVE FALSE
    BY DEF Refs
  <2>1. f \in Reached(t)
    BY <1>1, EntryIs
  <2> QED
    BY <2>1
<1>5. /\ \A n \in Nodes \ {f} : Refs(u, n) = Refs(t, n)
      /\ Refs(u, f) = {<<d, x>>} /\ Cardinality(Refs(u, f)) = 1
  <2>2. ASSUME NEW n \in Nodes \ {f} PROVE Refs(u, n) = Refs(t, n)
    <3>1. f # n /\ t[d].ent[x] # n
      BY <1>1
    <3> QED
      BY <1>1, <3>1, RefsSame
  <2>3. Refs(u, f) = {<<d, x>>}
    BY <1>1, <1>4, RefsAltered
  <2> QED
    BY <2>2, <2>3, FS_Singleton
<1>6. ASSUME NEW n \in Nodes \ Reached(u) PROVE EmptyNode(u[n])
  <2>1. EmptyNode(t[n]) /\ n # d
    BY <1>3, <1>6 DEF Good
  <2> QED
    BY <2>1 DEF EmptyNode, Alters
<1>7. ASSUME NEW n \in Reached(u) PROVE Ordinary(u, n)
  <2>1. CASE n = f
    BY <1>5, <2>1 DEF Ordinary
  <2>2. CASE n # f
    <3>1. n \in Nodes /\ Ordinary(t, n)
      BY <1>1, <1>3, <2>2 DEF Good
    <3> QED
      BY <1>5, <2>2, <3>1 DEF Ordinary
  <2> QED
    BY <2>1, <2>2
<1>8. Refs(u, Root) = {}
  BY <1>1, <1>5 DEF Good
<1> QED
  BY <1>3, <1>5, <1>6, <1>7, <1>8 DEF Good

(* A file gets one more name.                                              *)
LEMMA GoodLinked ==
  ASSUME NEW t, Good(t), NEW u, TypedTree(u), NEW d \in Reached(t), NEW x \in Names,
         t[d].ent[x] = None, NEW f \in Reached(t), t[f].kind = "file", Alters(t, u, d, x, f), d # f,
         Alike(t, u, f),
         u[f].nlink = t[f].nlink + 1
  PROVE  Good(u) /\ Reached(u) = Reached(t)
<1>1. /\ TypedTree(t) /\ t \in [Nodes -> NodeState] /\ Reached(t) \subseteq Nodes
      /\ Root \in Reached(t) /\ d \in Nodes /\ f \in Nodes /\ f # None /\ None \notin Nodes
  BY ReachedIs DEF Good, TypedTree, Nodes, None
<1>2. EmptyNode(t[f]) /\ f # Root
  <2>1. t[f].kind # "dir" /\ t[Root].kind = "dir"
    BY <1>1 DEF TypedTree
  <2> QED
    BY <1>1, <2>1 DEF TypedTree
<1>3. Reached(u) = Reached(t)
  <2>1. Reached(u) = Reached(t) \cup {f}
    BY <1>1, <1>2, AddReach
  <2> QED
    BY <2>1
<1>4. /\ \A n \in Nodes \ {f} : Refs(u, n) = Refs(t, n)
      /\ Cardinality(Refs(u, f)) = Cardinality(Refs(t, f)) + 1
  <2>1. \A n \in Nodes : t[d].ent[x] # n
    BY <1>1
  <2> QED
    BY <1>1, <2>1, RefsCounted
<1>5. ASSUME NEW n \in Nodes \ Reached(u) PROVE EmptyNode(u[n])
  <2>1. EmptyNode(t[n]) /\ n # d
    BY <1>3, <1>5 DEF Good
  <2> QED
    BY <2>1 DEF EmptyNode, Alters
<1>6. ASSUME NEW n \in Reached(u) PROVE Ordinary(u, n)
  <2>1. n \in Nodes /\ Ordinary(t, n)
    BY <1>1, <1>3, <1>6 DEF Good
  <2>2. CASE n = f
    BY <1>1, <1>2, <1>4, <2>1, <2>2 DEF Ordinary, Alike
  <2>3. CASE n # f
    BY <1>4, <2>1, <2>3 DEF Ordinary, Alike
  <2> QED
    BY <2>2, <2>3
<1>7. Refs(u, Root) = {}
  BY <1>1, <1>2, <1>4 DEF Good
<1> QED
  BY <1>3, <1>5, <1>6, <1>7 DEF Good

(* u is t with n moved from the one entry to the other.                    *)
Moves(t, u, d, x, e, y, n) ==
  \A m \in Nodes, z \in Names :
    u[m].ent[z] = IF m = d /\ z = x THEN None ELSE IF m = e /\ z = y THEN n ELSE t[m].ent[z]

(* An entry moves, with all that is below it, to a place that is not there. *)
LEMMA MoveReach ==
  ASSUME NEW t, TypedTree(t), NEW u, TypedTree(u),
         NEW d \in Reached(t), NEW x \in Names, NEW e \in Reached(t), NEW y \in Names,
         NEW n, n = t[d].ent[x], n # None, t[e].ent[y] = None, e \notin Within(t, n),
         Moves(t, u, d, x, e, y, n)
  PROVE  Reached(u) = Reached(t)
<1> DEFINE W == Within(t, n)
           S == Reached(u) \cup W
<1>1. /\ Root \in Nodes /\ Reached(t) \subseteq Nodes /\ Root \in Reached(t)
      /\ \A m \in Reached(t), z \in Names : t[m].ent[z] # None => t[m].ent[z] \in Reached(t)
  BY ReachedIs DEF TypedTree
<1>2. /\ Reached(u) \subseteq Nodes /\ Root \in Reached(u)
      /\ \A m \in Reached(u), z \in Names : u[m].ent[z] # None => u[m].ent[z] \in Reached(u)
  BY ReachedIs DEF TypedTree
<1>3. n \in Reached(t) /\ n \in Nodes
  BY <1>1
<1>4. W \subseteq Nodes /\ n \in W /\ Closed(t, W)
  BY <1>3, EntriesAreNodes, ReachedClosed DEF TypedTree
<1>5. \A m \in W, z \in Names : t[m].ent[z] # None => t[m].ent[z] \in W
  BY <1>4 DEF Closed, Entries
<1> HIDE DEF W
<1>6. \A m \in Reached(t), z \in Names : u[m].ent[z] # None => u[m].ent[z] \in Reached(t)
  BY <1>1, <1>3 DEF Moves
<1>7. Reached(u) \subseteq Reached(t)
  BY <1>1, <1>6, ReachedWithin
<1>8. ASSUME NEW m \in Reached(u), NEW z \in Names, t[m].ent[z] # None
      PROVE  t[m].ent[z] = n \/ t[m].ent[z] \in Reached(u)
  <2>1. CASE m = d /\ z = x
    BY <2>1
  <2>2. CASE ~(m = d /\ z = x)
    <3>1. m \in Nodes /\ ~(m = e /\ z = y)
      BY <1>2, <1>8
    <3>2. u[m].ent[z] = t[m].ent[z]
      BY <2>2, <3>1 DEF Moves
    <3> QED
      BY <1>2, <1>8, <3>2
  <2> QED
    BY <2>1, <2>2
<1>9. Reached(t) \subseteq S
  <2>1. S \in SUBSET Nodes /\ Root \in S
    BY <1>2, <1>4
  <2>2. \A m \in S, z \in Names : t[m].ent[z] # None => t[m].ent[z] \in S
    BY <1>4, <1>5, <1>8
  <2> HIDE DEF S
  <2> QED
    BY <2>1, <2>2, ReachedWithin
<1>10. n \in Reached(u)
  <2>1. e \in Reached(u)
    BY <1>9 DEF W
  <2>2. ~(e = d /\ y = x) /\ e \in Nodes
    BY <1>1
  <2>3. u[e].ent[y] = n
    BY <2>2 DEF Moves
  <2> QED
    BY <1>2, <2>1, <2>3
<1>11. Reached(t) \subseteq Reached(u)
  BY <1>2, <1>8, <1>10, ReachedWithin
<1> QED
  BY <1>7, <1>11

(* The tree stays good: the moved node has as many names as before.        *)
LEMMA GoodMoved ==
  ASSUME NEW t, Good(t), NEW w, NEW u, TypedTree(u),
         NEW d \in Nodes, NEW x \in Names, NEW e \in Reached(t), NEW y \in Names,
         NEW n, n = t[d].ent[x], n # None, t[e].ent[y] = None, e \notin Within(t, n),
         Alters(t, w, e, y, n), Alters(w, u, d, x, None),
         Alike(t, u, None)
  PROVE  Good(u)
<1>1. /\ TypedTree(t) /\ t \in [Nodes -> NodeState] /\ Reached(t) \subseteq Nodes
      /\ Root \in Nodes /\ e \in Nodes /\ None \notin Nodes
  BY ReachedIs DEF Good, TypedTree, Nodes, None
<1>2. d \in Reached(t) /\ n \in Nodes /\ n # Root
  <2>1. d \in Reached(t)
    BY DEF Good, EmptyNode
  <2>2. n \in Nodes
    BY <1>1 DEF NodeState
  <2>3. <<d, x>> \in Refs(t, n)
    BY DEF Refs
  <2> QED
    BY <2>1, <2>2, <2>3 DEF Good
<1>3. Moves(t, u, d, x, e, y, n)
  BY <1>1 DEF Alters, Moves
<1>4. Reached(u) = Reached(t)
  BY <1>1, <1>2, <1>3, MoveReach
<1>5. ASSUME NEW k \in Nodes
      PROVE  (k # n => Refs(u, k) = Refs(t, k)) /\ Cardinality(Refs(u, k)) = Cardinality(Refs(t, k))
  <2>1. k # None /\ t[e].ent[y] # k
    BY <1>1
  <2>2. w[d].ent[x] = n
    BY <1>1 DEF Alters
  <2>3. CASE k # n
    <3>1. Refs(w, k) = Refs(t, k)
      BY <1>1, <2>1, <2>3, RefsCounted
    <3>2. Refs(u, k) = Refs(w, k)
      BY <1>1, <2>1, <2>2, <2>3, RefsCounted
    <3> QED
      BY <3>1, <3>2
  <2>4. CASE k = n
    <3>1. Cardinality(Refs(w, k)) = Cardinality(Refs(t, k)) + 1
      BY <1>1, <2>1, <2>4, RefsCounted
    <3>2. Cardinality(Refs(u, k)) = Cardinality(Refs(w, k)) - 1
      BY <1>1, <2>1, <2>2, <2>4, RefsCounted
    <3>3. Cardinality(Refs(t, k)) \in Nat
      BY RefsFinite
    <3> QED
      BY <2>4, <3>1, <3>2, <3>3
  <2> QED
    BY <2>3, <2>4
<1>6. ASSUME NEW m \in Nodes \ Reached(u) PROVE EmptyNode(u[m])
  <2>1. EmptyNode(t[m]) /\ m # e
    BY <1>4, <1>6 DEF Good
  <2> QED
    BY <1>3, <2>1 DEF EmptyNode, Moves
<1>7. ASSUME NEW m \in Reached(u) PROVE Ordinary(u, m)
  <2>1. m \in Nodes /\ Ordinary(t, m)
    BY <1>1, <1>4, <1>7 DEF Good
  <2> QED
    BY <1>1, <1>5, <2>1 DEF Ordinary, Alike
<1>8. Refs(u, Root) = {}
  BY <1>1, <1>2, <1>5 DEF Good
<1> QED
  BY <1>6, <1>7, <1>8 DEF Good

-----------------------------------------------------------------------------
(* The operators that calls are made of.                                   *)

(* A node that is not in use.                                              *)
LEMMA FreeIs ==
  /\ Free \in NodeState /\ Free.kind = "free" /\ ~Free.loading /\ EmptyNode(Free)
  /\ Free.nlink = 0 /\ Free.ent = [x \in Names |-> None]
<1>1. [x \in Names |-> None] \in [Names -> Nodes \cup {None}]
  OBVIOUS
<1>2. <<>> \in Seq(Marks) /\ 0 \in 0..MaxFetches
  BY SizesAssumption
<1> QED
  BY <1>1, <1>2 DEF Free, NodeState, EmptyNode

(* The nodes that calls make.                                              *)
LEMMA NewNodeIs ==
  ASSUME NEW r, \/ r = Dir
                \/ \E text \in Seq(Marks) : r = Reg(text)
                \/ \E target \in Targets : r = Sym(target)
  PROVE  /\ r \in NodeState /\ r.kind # "free" /\ r.nlink = 1
         /\ ~r.loading /\ EmptyNode(r)
<1>1. CASE r = Dir
  BY <1>1, FreeIs DEF Dir, NodeState, EmptyNode
<1>2. ASSUME NEW text \in Seq(Marks), r = Reg(text)
      PROVE  /\ r \in NodeState /\ r.kind # "free" /\ r.nlink = 1
             /\ ~r.loading /\ EmptyNode(r)
  BY <1>2, FreeIs DEF Reg, NodeState, EmptyNode
<1>3. ASSUME NEW target \in Targets, r = Sym(target)
      PROVE  /\ r \in NodeState /\ r.kind # "free" /\ r.nlink = 1
             /\ ~r.loading /\ EmptyNode(r)
  BY <1>3, FreeIs DEF Sym, NodeState, EmptyNode
<1> QED
  BY <1>1, <1>2, <1>3

(* u is t with one node set to r.                                          *)
Becomes(t, u, n, r) ==
  u = [m \in Nodes |-> u[m]] /\ \A m \in Nodes : u[m] = IF m = n THEN r ELSE t[m]

(* One node of a tree becomes another, a directory a directory.            *)
LEMMA NodeSet ==
  ASSUME NEW t, TypedTree(t), NEW n \in Nodes, NEW r \in NodeState,
         t[n].kind = "dir" => r.kind = "dir", r.kind # "dir" => EmptyNode(r),
         r.loading => r.fetches > 0,
         NEW u, Becomes(t, u, n, r)
  PROVE  TypedTree(u)
<1>1. t \in [Nodes -> NodeState] /\ Root \in Nodes
  BY ReachedIs DEF TypedTree
<1>2. u \in [Nodes -> NodeState] /\ \A m \in Nodes : u[m] = IF m = n THEN r ELSE t[m]
  BY <1>1 DEF Becomes
<1> QED
  BY <1>1, <1>2 DEF TypedTree

(* An entry of a directory is set.                                         *)
LEMMA NamedIs ==
  ASSUME NEW t, TypedTree(t), NEW d \in Nodes, t[d].kind = "dir", NEW x \in Names,
         NEW v \in Nodes \cup {None}
  PROVE  LET u == Named(t, d, x, v)
         IN  /\ TypedTree(u) /\ Alters(t, u, d, x, v)
             /\ \A m \in Nodes : u[m].kind = t[m].kind /\ u[m].nlink = t[m].nlink
<1> DEFINE u == Named(t, d, x, v)
           r == [t[d] EXCEPT !.ent[x] = v]
<1>1. t \in [Nodes -> NodeState] /\ t[d] \in NodeState
  BY DEF TypedTree
<1>2. r = [t[d] EXCEPT !.ent = [t[d].ent EXCEPT ![x] = v]]
  BY <1>1
<1>3. [t[d].ent EXCEPT ![x] = v] \in [Names -> Nodes \cup {None}]
  BY <1>1 DEF NodeState
<1>4. /\ r \in NodeState /\ r.kind = t[d].kind /\ r.nlink = t[d].nlink
      /\ r.loading = t[d].loading /\ r.fetches = t[d].fetches
      /\ r.ent = [t[d].ent EXCEPT ![x] = v]
  BY <1>1, <1>3 DEF NodeState
<1>5. Becomes(t, u, d, r)
  BY <1>1 DEF Named, Becomes
<1>6. \A z \in Names : r.ent[z] = IF z = x THEN v ELSE t[d].ent[z]
  BY <1>1, <1>4 DEF NodeState
<1> HIDE DEF r, u
<1>7. r.loading => r.fetches > 0
  BY <1>4 DEF TypedTree
<1>8. TypedTree(u) /\ \A m \in Nodes : u[m] = IF m = d THEN r ELSE t[m]
  BY <1>4, <1>5, <1>7, NodeSet DEF Becomes
<1>9. Alters(t, u, d, x, v)
  BY <1>6, <1>8 DEF Alters
<1>10. \A m \in Nodes : u[m].kind = t[m].kind /\ u[m].nlink = t[m].nlink
  BY <1>4, <1>8
<1> QED
  BY <1>8, <1>9, <1>10 DEF u

(* A number of links is set.                                               *)
LEMMA LinksSet ==
  ASSUME NEW t, TypedTree(t), NEW n \in Nodes, NEW k \in Nat,
         NEW u, Becomes(t, u, n, [t[n] EXCEPT !.nlink = k])
  PROVE  /\ TypedTree(u)
         /\ \A m \in Nodes : /\ u[m].kind = t[m].kind /\ u[m].ent = t[m].ent
                             /\ u[m].nlink = IF m = n THEN k ELSE t[m].nlink
<1> DEFINE r == [t[n] EXCEPT !.nlink = k]
<1>1. t \in [Nodes -> NodeState] /\ t[n] \in NodeState
  BY DEF TypedTree
<1>2. /\ r \in NodeState /\ r.kind = t[n].kind /\ r.ent = t[n].ent /\ r.nlink = k
      /\ r.loading = t[n].loading /\ r.fetches = t[n].fetches
  BY <1>1 DEF NodeState
<1>3. Becomes(t, u, n, r)
  OBVIOUS
<1> HIDE DEF r
<1>4. (r.loading => r.fetches > 0) /\ (r.kind # "dir" => EmptyNode(r))
  BY <1>2 DEF TypedTree, EmptyNode
<1>5. TypedTree(u) /\ \A m \in Nodes : u[m] = IF m = n THEN r ELSE t[m]
  BY <1>2, <1>3, <1>4, NodeSet DEF Becomes
<1> QED
  BY <1>2, <1>5

(* What nobody can reach is dropped, and leaves a sound tree.              *)
LEMMA SoundCollected ==
  ASSUME NEW t, Good(t)
  PROVE  Sound(Collected(t))
<1> DEFINE u == Collected(t)
<1>1. /\ TypedTree(t) /\ t \in [Nodes -> NodeState] /\ Reached(t) \subseteq Nodes
      /\ Root \in Reached(t)
  BY ReachedIs DEF Good, TypedTree
<1>2. Free \in NodeState /\ Free.kind = "free" /\ ~Free.loading /\ EmptyNode(Free)
  BY FreeIs
<1>3. \A n \in Nodes : u[n] = IF n \in Reached(t) THEN t[n] ELSE Free
  BY DEF Collected
<1>4. u \in [Nodes -> NodeState]
  BY <1>1, <1>2 DEF Collected
<1> HIDE DEF u
<1>5. \A n \in Nodes, x \in Names : u[n].ent[x] = t[n].ent[x]
  BY <1>2, <1>3 DEF Good, EmptyNode
<1>6. TypedTree(u)
  <2>1. \A n \in Nodes : u[n].kind # "dir" => EmptyNode(u[n])
    BY <1>1, <1>2, <1>3 DEF TypedTree
  <2>2. \A n \in Nodes : u[n].loading => u[n].fetches > 0
    BY <1>1, <1>2, <1>3 DEF TypedTree
  <2>3. u[Root].kind = "dir"
    BY <1>1, <1>3 DEF TypedTree
  <2> QED
    BY <1>4, <2>1, <2>2, <2>3 DEF TypedTree
<1>7. Reached(u) = Reached(t)
  <2>1. \A n \in Nodes : Entries(u, n) = Entries(t, n)
    BY <1>5 DEF Entries
  <2>2. \A S \in SUBSET Nodes : Closed(u, S) <=> Closed(t, S)
    BY <2>1 DEF Closed
  <2> QED
    BY <2>2 DEF Reached, Within
<1>8. \A n \in Nodes : Refs(u, n) = Refs(t, n)
  BY <1>5 DEF Refs
<1>9. Good(u)
  <2>1. \A n \in Reached(u) : Ordinary(u, n)
    BY <1>1, <1>3, <1>7, <1>8 DEF Good, Ordinary
  <2>2. \A n \in Nodes \ Reached(u) : EmptyNode(u[n])
    BY <1>2, <1>3, <1>7
  <2> QED
    BY <1>1, <1>6, <1>8, <2>1, <2>2 DEF Good
<1>10. \A n \in Nodes : u[n].kind # "free" => n \in Reached(u)
  BY <1>2, <1>3, <1>7
<1> QED
  BY <1>9, <1>10, SoundIsGood DEF u

-----------------------------------------------------------------------------
(* Calls.                                                                  *)
TreeInv == answer \in {"ok", "ENOSPC"} /\ Sound(node)

(* The last name of a path is one.                                         *)
LEMMA PathLast ==
  ASSUME NEW p \in Paths
  PROVE  Last(p) \in Names
<1>1. PICK n \in 1..Depth : p \in [1..n -> Names]
  BY DEF Paths
<1>2. n \in Nat \ {0} /\ Len(p) = n
  BY <1>1, SizesAssumption
<1> QED
  BY <1>1, <1>2 DEF Last

(* A directory of a sound tree is reached.                                 *)
LEMMA DirIs ==
  ASSUME Sound(node), NEW d, IsDir(d)
  PROVE  d \in Nodes /\ node[d].kind = "dir" /\ d \in Reached(node)
BY SoundIsGood DEF IsDir

(* Whether or not a change fits, a sound tree is kept.                     *)
LEMMA KeepSound ==
  ASSUME NEW after, NEW before, Good(after), Good(before), Keep(after, before)
  PROVE  TreeInv'
<1>1. Sound(Collected(after)) /\ Sound(Collected(before))
  BY SoundCollected
<1> QED
  BY <1>1 DEF Keep, TreeInv

(* A free node is made one of the tree, in place of nothing or of a link.  *)
LEMMA MadeGood ==
  ASSUME Sound(node), CanMake, NEW d \in Nodes, node[d].kind = "dir", NEW x \in Names, Unused(d, x),
         NEW r \in NodeState, r.kind # "free", r.nlink = 1, ~r.loading, EmptyNode(r)
  PROVE  LET f == Fresh(node)
             u == Made(d, x, r)
         IN  /\ f \in Nodes /\ Good(u) /\ Refs(u, f) = {<<d, x>>}
             /\ u[d].kind = "dir" /\ u[d].ent[x] = f /\ EmptyNode(u[f])
             /\ node[d].ent[x] = None =>
                  /\ Reached(u) = Reached(node) \cup {f}
                  /\ \A m \in Nodes \ {f} : u[m].kind = node[m].kind
<1> DEFINE f == Fresh(node)
           w == [node EXCEPT ![f] = r]
           u == Named(w, d, x, f)
           old == node[d].ent[x]
           t == IF old = None THEN node ELSE Named(node, d, x, None)
<1>1. Good(node) /\ TypedTree(node) /\ d \in Reached(node) /\ d # None /\ None \notin Nodes
  BY SoundIsGood DEF Sound, Nodes, None
<1>2. f \in Nodes /\ node[f].kind = "free"
  BY DEF CanMake, Fresh
<1>3. u = Made(d, x, r)
  BY DEF Made
<1> HIDE DEF f
<1>4. f # d /\ f \notin Reached(node) /\ EmptyNode(node[f])
  <2>1. f \notin Reached(node)
    BY <1>2 DEF Sound, ShapedTree
  <2> QED
    BY <1>1, <1>2, <2>1 DEF TypedTree
<1>5. TypedTree(w) /\ \A m \in Nodes : w[m] = IF m = f THEN r ELSE node[m]
  <2>1. Becomes(node, w, f, r)
    BY <1>1 DEF TypedTree, Becomes
  <2> HIDE DEF w
  <2> QED
    BY <1>1, <1>2, <2>1, NodeSet DEF Becomes
<1> HIDE DEF w
<1>6. w[d].kind = "dir"
  BY <1>4, <1>5
<1>7. /\ TypedTree(u) /\ Alters(w, u, d, x, f)
      /\ \A m \in Nodes : u[m].kind = w[m].kind /\ u[m].nlink = w[m].nlink
  BY <1>2, <1>5, <1>6, NamedIs
<1> HIDE DEF u
<1>8. \A m \in Nodes, y \in Names : w[m].ent[y] = node[m].ent[y]
  BY <1>4, <1>5 DEF EmptyNode
<1>9. u[d].kind = "dir" /\ u[d].ent[x] = f /\ EmptyNode(u[f])
  <2>1. \A y \in Names : u[f].ent[y] = None
    BY <1>2, <1>4, <1>5, <1>7 DEF Alters, EmptyNode
  <2> QED
    BY <1>6, <1>7, <2>1 DEF Alters, EmptyNode
<1>10. ASSUME old # None
       PROVE  /\ Good(Named(node, d, x, None)) /\ d \in Reached(Named(node, d, x, None))
              /\ f \notin Reached(Named(node, d, x, None))
  <2> DEFINE v == Named(node, d, x, None)
  <2>1. /\ TypedTree(v) /\ Alters(node, v, d, x, None)
        /\ \A m \in Nodes : v[m].kind = node[m].kind /\ v[m].nlink = node[m].nlink
    BY <1>1, NamedIs
  <2>2. old \in Nodes /\ node[old].kind = "link" /\ Refs(node, old) = {<<d, x>>} /\ old # d
    <3>1. old \in Nodes /\ Refs(node, old) = {<<d, x>>} /\ old # d
      BY <1>1, <1>10, EntryIs DEF Unused
    <3> QED
      BY <1>10, <3>1 DEF Unused
  <2> HIDE DEF v
  <2>3. EmptyNode(node[old])
    BY <1>1, <2>2 DEF TypedTree
  <2>4. Good(v)
    BY <1>1, <1>10, <2>1, <2>2, <2>3, GoodCut DEF Alike
  <2>5. Reached(v) \subseteq Reached(node) /\ Reached(node) \subseteq Reached(v) \cup {old}
    BY <1>1, <1>10, <2>1, <2>3, CutReach
  <2> QED
    BY <1>1, <1>4, <2>2, <2>4, <2>5 DEF v
<1>11. Good(t) /\ d \in Reached(t) /\ f \notin Reached(t)
  BY <1>1, <1>4, <1>10
<1>12. /\ t[d].ent[x] = None
       /\ \A m \in Nodes : t[m].kind = node[m].kind /\ t[m].nlink = node[m].nlink
       /\ \A m \in Nodes, y \in Names : ~(m = d /\ y = x) => t[m].ent[y] = node[m].ent[y]
  BY <1>1, NamedIs DEF Alters
<1>13. old = None => t = node
  OBVIOUS
<1> HIDE DEF t
<1>14. Alters(t, u, d, x, f)
  BY <1>7, <1>8, <1>12 DEF Alters
<1>15. \A m \in Nodes \ {f} : u[m].kind = t[m].kind /\ u[m].nlink = t[m].nlink
  BY <1>5, <1>7, <1>12
<1>16. u[f].kind # "free" /\ u[f].nlink = 1
  BY <1>2, <1>5, <1>7
<1>17. Good(u) /\ Refs(u, f) = {<<d, x>>} /\ Reached(u) = Reached(t) \cup {f}
  BY <1>2, <1>7, <1>11, <1>12, <1>14, <1>15, <1>16, GoodGrown
<1> QED
  BY <1>2, <1>3, <1>9, <1>12, <1>13, <1>15, <1>17 DEF f, u

(* A file with a payload, which may have no room.                          *)
LEMMA CreateSound ==
  ASSUME Sound(node), NEW d \in Nodes, node[d].kind = "dir", NEW x \in Names, Unused(d, x),
         NEW text \in Seq(Marks), Create(d, x, text)
  PROVE  TreeInv'
<1> DEFINE f == Fresh(node)
           r == Reg(text)
           u == Made(d, x, r)
           v == Named(u, d, x, None)
<1>1. r \in NodeState /\ r.kind # "free" /\ r.nlink = 1 /\ ~r.loading /\ EmptyNode(r)
  BY NewNodeIs
<1>2. CanMake /\ Keep(u, v)
  BY DEF Create
<1> HIDE DEF r
<1>3. /\ f \in Nodes /\ Good(u) /\ Refs(u, f) = {<<d, x>>}
      /\ u[d].kind = "dir" /\ u[d].ent[x] = f /\ EmptyNode(u[f])
  BY <1>1, <1>2, MadeGood
<1> HIDE DEF f, u
<1>4. f # None
  BY <1>3 DEF Nodes, None
<1>5. TypedTree(u)
  BY <1>3 DEF Good
<1>6. /\ TypedTree(v) /\ Alters(u, v, d, x, None)
      /\ \A m \in Nodes : v[m].kind = u[m].kind /\ v[m].nlink = u[m].nlink
  BY <1>3, <1>5, NamedIs
<1> HIDE DEF v
<1>7. Good(v)
  BY <1>3, <1>4, <1>6, GoodCut DEF Alike
<1> QED
  BY <1>2, <1>3, <1>7, KeepSound

(* A directory or a symbolic link.                                         *)
LEMMA MakeSound ==
  ASSUME Sound(node), CanMake, NEW d \in Nodes, NEW x \in Names, NewName(d, x),
         NEW r \in NodeState, r.kind # "free", r.nlink = 1, ~r.loading, EmptyNode(r),
         node' = Made(d, x, r), answer' = "ok"
  PROVE  TreeInv'
<1> DEFINE f == Fresh(node)
           u == Made(d, x, r)
<1>1. node[d].kind = "dir" /\ node[d].ent[x] = None /\ Unused(d, x)
  BY DEF NewName, IsDir, Unused
<1>2. /\ Good(u) /\ Reached(u) = Reached(node) \cup {f}
      /\ \A m \in Nodes \ {f} : u[m].kind = node[m].kind
  BY <1>1, MadeGood
<1> HIDE DEF f, u
<1>3. \A m \in Nodes : u[m].kind # "free" => m \in Reached(u)
  BY <1>2 DEF Sound, ShapedTree
<1>4. Sound(u)
  BY <1>2, <1>3, SoundIsGood
<1> QED
  BY <1>4 DEF TreeInv, u

(* A change to the payload or the fetch of one node leaves the tree good,  *)
(* and as sound as it was.                                                 *)
LEMMA NodeKept ==
  ASSUME NEW t, Good(t), NEW n \in Nodes, NEW r \in NodeState,
         r.kind = t[n].kind, r.ent = t[n].ent, r.nlink = t[n].nlink, r.loading => r.fetches > 0
  PROVE  /\ Good([t EXCEPT ![n] = r])
         /\ Sound(t) => Sound([t EXCEPT ![n] = r])
<1> DEFINE u == [t EXCEPT ![n] = r]
<1>1. TypedTree(t)
  BY DEF Good
<1>2. r.kind # "dir" => EmptyNode(r)
  BY <1>1 DEF TypedTree, EmptyNode
<1>3. TypedTree(u) /\ \A m \in Nodes : u[m] = IF m = n THEN r ELSE t[m]
  <2>1. Becomes(t, u, n, r)
    BY <1>1 DEF TypedTree, Becomes
  <2> HIDE DEF u
  <2> QED
    BY <1>1, <1>2, <2>1, NodeSet DEF Becomes
<1> HIDE DEF u
<1>4. Good(u) /\ Reached(u) = Reached(t)
  BY <1>3, GoodUnshaped
<1>5. Sound(t) => Sound(u)
  BY <1>3, <1>4, SoundIsGood
<1> QED
  BY <1>4, <1>5 DEF u

(* A new payload in an old file.                                           *)
LEMMA OverwriteSound ==
  ASSUME Sound(node), NEW n, IsFile(n), NEW text \in Seq(Marks), Overwrite(n, text)
  PROVE  TreeInv'
<1> DEFINE r == Replaced(node[n], text)
           s == [r EXCEPT !.data = node[n].data, !.source = node[n].source]
           after == [node EXCEPT ![n] = r]
           back == [node EXCEPT ![n] = s]
<1>1. n \in Nodes /\ Good(node) /\ node \in [Nodes -> NodeState] /\ node[n] \in NodeState
  BY SoundIsGood DEF Sound, TypedTree, IsFile
<1>2. /\ r \in NodeState /\ ~r.loading /\ r.kind = node[n].kind /\ r.ent = node[n].ent
      /\ r.nlink = node[n].nlink
  BY <1>1 DEF Replaced, NodeState
<1>3. /\ s \in NodeState /\ ~s.loading /\ s.kind = node[n].kind /\ s.ent = node[n].ent
      /\ s.nlink = node[n].nlink
  BY <1>1, <1>2 DEF NodeState
<1>4. Keep(after, RolledBack(after, n))
  BY <1>1 DEF Overwrite
<1>5. RolledBack(after, n) = back
  BY <1>1, <1>2 DEF RolledBack
<1> HIDE DEF r, s
<1>6. Good(after) /\ Good(back)
  BY <1>1, <1>2, <1>3, NodeKept
<1> QED
  BY <1>4, <1>5, <1>6, KeepSound

(* What is written is a payload.                                           *)
LEMMA TextsAre ==
  ASSUME NEW text \in Texts
  PROVE  text \in Seq(Marks)
<1>1. "w" \in Marks
  BY DEF Marks
<1>2. <<>> \in Seq(Marks) /\ <<"w">> \in Seq(Marks)
  BY <1>1
<1> QED
  BY <1>2 DEF Texts

(* Payloads are put together from payloads.                                *)
LEMMA TextIs ==
  ASSUME NEW old \in Seq(Marks), NEW text \in Texts
  PROVE  /\ old \o text \in Seq(Marks)
         /\ \A at \in {0, Len(old)} :
              SubSeq(old, 1, at) \o text \o SubSeq(old, at + Len(text) + 1, Len(old)) \in Seq(Marks)
<1>1. text \in Seq(Marks)
  BY TextsAre
<1>2. ASSUME NEW at \in {0, Len(old)}
      PROVE  /\ SubSeq(old, 1, at) \in Seq(Marks)
             /\ SubSeq(old, at + Len(text) + 1, Len(old)) \in Seq(Marks)
  <2>1. at \in Nat /\ at <= Len(old) /\ Len(text) \in Nat /\ Len(old) \in Nat
    BY <1>1
  <2> QED
    BY <2>1
<1> QED
  BY <1>1, <1>2

(* A path is written to.                                                   *)
LEMMA WriteSound ==
  ASSUME Sound(node), NEW p \in Paths, NEW text \in Texts, NEW add \in BOOLEAN,
         Write(p, text, add) \/ FdWrite(p, text, add)
  PROVE  TreeInv'
<1> DEFINE n == At(p)
           d == Par(p)
<1>1. \A m \in Nodes : node[m].data \in Seq(Marks)
  BY DEF Sound, TypedTree, NodeState
<1>2. text \in Seq(Marks)
  BY TextsAre
<1> HIDE DEF n, d
<1>3. ASSUME IsFile(n), Overwrite(n, IF add THEN node[n].data \o text ELSE text)
      PROVE  TreeInv'
  <2>1. (IF add THEN node[n].data \o text ELSE text) \in Seq(Marks)
    BY <1>1, <1>2, <1>3, TextIs DEF IsFile
  <2> QED
    BY <1>3, <2>1, OverwriteSound
<1>4. ASSUME IsDir(d), Unused(d, Last(p)), Create(d, Last(p), text)
      PROVE  TreeInv'
  BY <1>2, <1>4, DirIs, PathLast, CreateSound
<1>5. CASE FdWrite(p, text, add)
  <2> DEFINE old == node[n].data
             at == IF add THEN Len(old) ELSE 0
             new == SubSeq(old, 1, at) \o text \o SubSeq(old, at + Len(text) + 1, Len(old))
  <2>1. IsFile(n) /\ Overwrite(n, new)
    BY <1>5 DEF FdWrite, n
  <2>2. old \in Seq(Marks) /\ at \in {0, Len(old)}
    BY <1>1, <2>1 DEF IsFile
  <2> HIDE DEF old, at
  <2>3. new \in Seq(Marks)
    BY <2>2, TextIs
  <2> HIDE DEF new
  <2> QED
    BY <2>1, <2>3, OverwriteSound
<1>6. CASE Write(p, text, add)
  BY <1>3, <1>4, <1>6 DEF Write, n, d
<1> QED
  BY <1>5, <1>6

(* A file gets a second name.                                              *)
LEMMA LinkSound ==
  ASSUME Sound(node), NEW p \in Paths, NEW q \in Paths, Link(p, q)
  PROVE  TreeInv'
<1> DEFINE n == At(p)
           d == Par(q)
           x == Last(q)
           k == node[n].nlink + 1
           w == Named(node, d, x, n)
           u == [w EXCEPT ![n].nlink = k]
<1>1. /\ IsFile(n) /\ IsDir(d) /\ node[d].ent[x] = None
      /\ node' = [w EXCEPT ![n].nlink = @ + 1] /\ answer' = "ok"
  BY DEF Link, Linkable, NewName
<1>2. x \in Names
  BY PathLast
<1> HIDE DEF n, d, x
<1>3. Good(node) /\ TypedTree(node) /\ d \in Reached(node) /\ d \in Nodes /\ node[d].kind = "dir"
  BY <1>1, DirIs, SoundIsGood DEF Sound
<1>4. n \in Nodes /\ node[n].kind = "file" /\ n \in Reached(node) /\ k \in Nat
  BY <1>1, <1>3 DEF IsFile, Sound, ShapedTree, TypedTree, NodeState
<1>5. /\ TypedTree(w) /\ Alters(node, w, d, x, n)
      /\ \A m \in Nodes : w[m].kind = node[m].kind /\ w[m].nlink = node[m].nlink
  BY <1>2, <1>3, <1>4, NamedIs
<1>6. node' = u
  BY <1>1, <1>4, <1>5 DEF TypedTree, NodeState
<1> HIDE DEF k, w
<1>7. /\ TypedTree(u)
      /\ \A m \in Nodes : /\ u[m].kind = w[m].kind /\ u[m].ent = w[m].ent
                          /\ u[m].nlink = IF m = n THEN k ELSE w[m].nlink
  <2>1. Becomes(w, u, n, [w[n] EXCEPT !.nlink = k])
    BY <1>5 DEF TypedTree, Becomes
  <2> HIDE DEF u
  <2> QED
    BY <1>4, <1>5, <2>1, LinksSet
<1> HIDE DEF u
<1>8. Alters(node, u, d, x, n) /\ d # n
  BY <1>3, <1>4, <1>5, <1>7 DEF Alters
<1>9. Alike(node, u, n) /\ u[n].nlink = node[n].nlink + 1
  BY <1>4, <1>5, <1>7 DEF k, Alike
<1>10. Good(u) /\ Reached(u) = Reached(node)
  BY <1>1, <1>2, <1>3, <1>4, <1>7, <1>8, <1>9, GoodLinked
<1>11. Sound(u)
  BY <1>9, <1>10, SoundIsGood DEF Alike
<1> QED
  BY <1>1, <1>6, <1>11 DEF TreeInv

(* An entry is removed with its link.                                      *)
LEMMA RemovedGood ==
  ASSUME NEW t, Good(t), NEW d \in Nodes, NEW x \in Names, NEW n, n = t[d].ent[x],
         n # None, EmptyNode(t[n])
  PROVE  LET u == Unlinked(Named(t, d, x, None), n)
         IN  /\ Good(u) /\ Alters(t, u, d, x, None)
             /\ \A m \in Nodes : /\ u[m].kind = t[m].kind
                                 /\ u[m].nlink = IF m = n THEN t[m].nlink - 1 ELSE t[m].nlink
<1> DEFINE w == Named(t, d, x, None)
           k == t[n].nlink - 1
           u == [w EXCEPT ![n].nlink = k]
<1>1. TypedTree(t) /\ t[d].kind = "dir" /\ n \in Nodes /\ t[n].nlink \in Nat /\ t[n].nlink > 0
  BY EntryIs DEF Good
<1>2. /\ TypedTree(w) /\ Alters(t, w, d, x, None)
      /\ \A m \in Nodes : w[m].kind = t[m].kind /\ w[m].nlink = t[m].nlink
  BY <1>1, NamedIs
<1>3. Unlinked(w, n) = u
  BY <1>1, <1>2 DEF Unlinked, TypedTree, NodeState
<1>4. k \in Nat
  BY <1>1
<1> HIDE DEF w, k
<1>5. /\ TypedTree(u)
      /\ \A m \in Nodes : /\ u[m].kind = w[m].kind /\ u[m].ent = w[m].ent
                          /\ u[m].nlink = IF m = n THEN k ELSE w[m].nlink
  <2>1. Becomes(w, u, n, [w[n] EXCEPT !.nlink = k])
    BY <1>2 DEF TypedTree, Becomes
  <2> HIDE DEF u
  <2> QED
    BY <1>1, <1>2, <1>4, <2>1, LinksSet
<1> HIDE DEF u
<1>6. /\ Alters(t, u, d, x, None)
      /\ \A m \in Nodes : /\ u[m].kind = t[m].kind
                          /\ u[m].nlink = IF m = n THEN t[m].nlink - 1 ELSE t[m].nlink
  BY <1>2, <1>5 DEF Alters, k
<1>7. u[n].nlink = t[n].nlink - 1
  BY <1>1, <1>6
<1>8. Good(u)
  BY <1>5, <1>6, <1>7, GoodCut DEF Alike
<1> QED
  BY <1>3, <1>6, <1>8 DEF w

(* What has no entries is removed.                                         *)
LEMMA RmSound ==
  ASSUME Sound(node), NEW p \in Paths, Rm(p)
  PROVE  TreeInv'
<1> DEFINE d == Par(p)
           x == Last(p)
           n == node[d].ent[x]
           u == Unlinked(Named(node, d, x, None), n)
<1>1. IsDir(d) /\ n # None /\ EmptyNode(node[n]) /\ node' = Collected(u) /\ answer' = "ok"
  BY DEF Rm, IsEmpty
<1>2. d \in Nodes /\ x \in Names /\ Good(node)
  BY <1>1, DirIs, PathLast, SoundIsGood
<1> HIDE DEF d, x
<1>3. Good(u)
  BY <1>1, <1>2, RemovedGood
<1> HIDE DEF u
<1> QED
  BY <1>1, <1>3, SoundCollected DEF TreeInv

(* Fewer entries lead to less.                                             *)
LEMMA WithinLess ==
  ASSUME NEW t, TypedTree(t), NEW u, NEW n \in Nodes,
         \A m \in Nodes, x \in Names : u[m].ent[x] # None => u[m].ent[x] = t[m].ent[x]
  PROVE  Within(u, n) \subseteq Within(t, n)
<1> DEFINE S == Within(t, n)
<1>1. S \subseteq Nodes /\ n \in S /\ Closed(t, S)
  BY EntriesAreNodes, ReachedClosed DEF TypedTree
<1> HIDE DEF S
<1>2. \A m \in Nodes : Entries(u, m) \subseteq Entries(t, m)
  BY DEF Entries
<1>3. Closed(u, S)
  BY <1>1, <1>2 DEF Closed
<1>4. Within(u, n) \subseteq S
  BY <1>1, <1>3, ReachedLeast
<1> QED
  BY <1>4 DEF S

(* What a rename makes of the tree, before the old node at the new place   *)
(* loses a link.                                                           *)
LEMMA MovedIs ==
  ASSUME NEW t, TypedTree(t), NEW d \in Nodes, t[d].kind = "dir", NEW x \in Names,
         NEW e \in Nodes, t[e].kind = "dir", NEW y \in Names, NEW n \in Nodes,
         NEW u, u = Named(Named(t, e, y, n), d, x, None)
  PROVE  /\ TypedTree(u)
         /\ \A m \in Nodes : u[m].kind = t[m].kind /\ u[m].nlink = t[m].nlink
         /\ Moves(t, u, d, x, e, y, n)
<1> DEFINE w == Named(t, e, y, n)
<1>1. /\ TypedTree(w) /\ Alters(t, w, e, y, n)
      /\ \A m \in Nodes : w[m].kind = t[m].kind /\ w[m].nlink = t[m].nlink
  BY NamedIs
<1> HIDE DEF w
<1>2. /\ TypedTree(u) /\ Alters(w, u, d, x, None)
      /\ \A m \in Nodes : u[m].kind = w[m].kind /\ u[m].nlink = w[m].nlink
  <2>1. w[d].kind = "dir" /\ None \in Nodes \cup {None}
    BY <1>1
  <2>2. u = Named(w, d, x, None)
    BY DEF w
  <2> QED
    BY <1>1, <2>1, <2>2, NamedIs
<1>3. Moves(t, u, d, x, e, y, n)
  BY <1>1, <1>2 DEF Alters, Moves
<1> QED
  BY <1>1, <1>2, <1>3

(* A rename of a careful caller is the removal of what is at the new place *)
(* and a move.                                                             *)
LEMMA RenamedGood ==
  ASSUME NEW t, Good(t), NEW d \in Nodes, NEW x \in Names, NEW e \in Reached(t), NEW y \in Names,
         t[d].kind = "dir", t[e].kind = "dir",
         NEW n, n = t[d].ent[x], n # None, NEW old, old = t[e].ent[y],
         old # None => EmptyNode(t[old]), <<d, x>> # <<e, y>>, e \notin Within(t, n)
  PROVE  Good(Displaced(Named(Named(t, e, y, n), d, x, None), old))
<1> DEFINE v == Named(Named(t, e, y, n), d, x, None)
           u == Unlinked(v, old)
           c == IF old = None THEN t ELSE Unlinked(Named(t, e, y, None), old)
           w == Named(c, e, y, n)
<1>1. TypedTree(t) /\ Reached(t) \subseteq Nodes /\ e \in Nodes /\ n \in Nodes
  BY EntryIs, ReachedIs DEF Good, TypedTree
<1>2. /\ TypedTree(v)
      /\ \A m \in Nodes : v[m].kind = t[m].kind /\ v[m].nlink = t[m].nlink
      /\ Moves(t, v, d, x, e, y, n)
  <2>1. v = Named(Named(t, e, y, n), d, x, None)
    OBVIOUS
  <2> HIDE DEF v
  <2> QED
    BY <1>1, <2>1, MovedIs
<1> HIDE DEF v
<1>3. /\ TypedTree(u)
      /\ \A m \in Nodes : /\ u[m].kind = v[m].kind /\ u[m].ent = v[m].ent
                          /\ u[m].nlink = IF m = old THEN v[m].nlink - 1 ELSE v[m].nlink
  <2>1. CASE old = None
    <3>1. u = v /\ None \notin Nodes
      BY <2>1 DEF Unlinked, Nodes, None
    <3> QED
      BY <1>2, <2>1, <3>1
  <2>2. CASE old # None
    <3>1. old \in Nodes /\ t[old].nlink \in Nat /\ t[old].nlink > 0
      BY <1>1, <2>2, EntryIs
    <3>2. v[old].nlink = t[old].nlink
      BY <1>2, <3>1
    <3> DEFINE k == t[old].nlink - 1
               z == [v EXCEPT ![old].nlink = k]
    <3>3. u = z
      BY <1>2, <2>2, <3>1, <3>2 DEF Unlinked, TypedTree, NodeState
    <3>4. k \in Nat
      BY <3>1
    <3>6. Becomes(v, z, old, [v[old] EXCEPT !.nlink = k])
      BY <1>2 DEF TypedTree, Becomes
    <3> HIDE DEF k, u, z
    <3>5. /\ TypedTree(z)
          /\ \A m \in Nodes : /\ z[m].kind = v[m].kind /\ z[m].ent = v[m].ent
                              /\ z[m].nlink = IF m = old THEN k ELSE v[m].nlink
      BY <1>2, <3>1, <3>4, <3>6, LinksSet
    <3> QED
      BY <3>2, <3>3, <3>5 DEF k
  <2> QED
    BY <2>1, <2>2
<1> HIDE DEF u
<1>4. /\ Good(c) /\ Alters(t, c, e, y, None) /\ e \in Reached(c)
      /\ \A m \in Nodes : /\ c[m].kind = t[m].kind
                          /\ c[m].nlink = IF m = old THEN t[m].nlink - 1 ELSE t[m].nlink
  <2>1. CASE old = None
    <3>1. c = t /\ None \notin Nodes
      BY <2>1 DEF Nodes, None
    <3> QED
      BY <2>1, <3>1 DEF Alters
  <2>2. CASE old # None
    <3>1. c = Unlinked(Named(t, e, y, None), old)
      BY <2>2
    <3> HIDE DEF c
    <3>2. /\ Good(c) /\ Alters(t, c, e, y, None)
          /\ \A m \in Nodes : /\ c[m].kind = t[m].kind
                              /\ c[m].nlink = IF m = old THEN t[m].nlink - 1 ELSE t[m].nlink
      BY <1>1, <2>2, <3>1, RemovedGood
    <3>3. Reached(t) \subseteq Reached(c) \cup {old}
      BY <1>1, <2>2, <3>2, CutReach DEF Good
    <3>4. e # old
      BY <2>2 DEF EmptyNode
    <3> QED
      BY <3>2, <3>3, <3>4
  <2> QED
    BY <2>1, <2>2
<1> HIDE DEF c
<1>5. c[d].ent[x] = n /\ c[e].ent[y] = None
  BY <1>1, <1>4 DEF Alters
<1>6. e \notin Within(c, n)
  <2>1. \A m \in Nodes, z \in Names : c[m].ent[z] # None => c[m].ent[z] = t[m].ent[z]
    BY <1>4 DEF Alters
  <2> QED
    BY <1>1, <2>1, WithinLess
<1>7. TypedTree(c) /\ c[e].kind = "dir"
  BY <1>1, <1>4 DEF Good
<1>8. Alters(c, w, e, y, n)
  BY <1>1, <1>7, NamedIs
<1> HIDE DEF w
<1>9. Alters(w, u, d, x, None)
  <2> SUFFICES ASSUME NEW m \in Nodes, NEW z \in Names
               PROVE  u[m].ent[z] = IF m = d /\ z = x THEN None ELSE w[m].ent[z]
    BY DEF Alters
  <2>1. w[m].ent[z] = IF m = e /\ z = y THEN n ELSE t[m].ent[z]
    BY <1>4, <1>8 DEF Alters
  <2> QED
    BY <1>2, <1>3, <2>1 DEF Moves
<1>10. Alike(c, u, None)
  <2> SUFFICES ASSUME NEW m \in Nodes PROVE u[m].kind = c[m].kind /\ u[m].nlink = c[m].nlink
    BY DEF Alike
  <2>1. v[m].kind = t[m].kind /\ v[m].nlink = t[m].nlink
    BY <1>2
  <2>2. u[m].kind = v[m].kind /\ u[m].nlink = IF m = old THEN v[m].nlink - 1 ELSE v[m].nlink
    BY <1>3
  <2>3. c[m].kind = t[m].kind /\ c[m].nlink = IF m = old THEN t[m].nlink - 1 ELSE t[m].nlink
    BY <1>4
  <2> QED
    BY <2>1, <2>2, <2>3
<1>11. Good(u)
  <2>1. TypedTree(u) /\ Good(c) /\ e \in Reached(c) /\ n = c[d].ent[x]
    BY <1>3, <1>4, <1>5
  <2> QED
    BY <1>5, <1>6, <1>8, <1>9, <1>10, <2>1, GoodMoved
<1> QED
  BY <1>11 DEF Displaced, u, v

(* An entry is renamed.                                                    *)
LEMMA RenameSound ==
  ASSUME Sound(node), Careful, NEW p \in Paths, NEW q \in Paths, Rename(p, q)
  PROVE  TreeInv'
<1> DEFINE d == Par(p)
           x == Last(p)
           e == Par(q)
           y == Last(q)
           n == node[d].ent[x]
           old == node[e].ent[y]
           u == Displaced(Named(Named(node, e, y, n), d, x, None), old)
<1>1. /\ IsDir(d) /\ n # None /\ IsDir(e) /\ (old # None => EmptyNode(node[old]))
      /\ <<d, x>> # <<e, y>> /\ e \notin Within(node, n)
      /\ node' = Collected(u) /\ answer' = "ok"
  BY DEF Rename, IsEmpty
<1>2. x \in Names /\ y \in Names
  BY PathLast
<1> HIDE DEF d, x, e, y
<1>3. /\ d \in Nodes /\ node[d].kind = "dir" /\ e \in Nodes /\ node[e].kind = "dir"
      /\ e \in Reached(node) /\ Good(node)
  BY <1>1, DirIs, SoundIsGood
<1>4. Good(u)
  BY <1>1, <1>2, <1>3, RenamedGood
<1> HIDE DEF u
<1> QED
  BY <1>1, <1>4, SoundCollected DEF TreeInv

(* A name that was not there.                                              *)
LEMMA NewSound ==
  ASSUME Sound(node), NEW p \in Paths,
         \/ \E text \in Texts : MkFile(p, text)
         \/ Mkdir(p)
         \/ \E target \in Targets : Symlink(target, p)
  PROVE  TreeInv'
<1> DEFINE d == Par(p)
           x == Last(p)
<1>1. NewName(d, x)
  BY DEF MkFile, Mkdir, Symlink
<1>2. \A text \in Texts : MkFile(p, text) => Create(d, x, text)
  BY DEF MkFile
<1>3. Mkdir(p) => CanMake /\ node' = Made(d, x, Dir) /\ answer' = "ok"
  BY DEF Mkdir
<1>4. \A target \in Targets :
        Symlink(target, p) => CanMake /\ node' = Made(d, x, Sym(target)) /\ answer' = "ok"
  BY DEF Symlink
<1>5. x \in Names
  BY PathLast
<1> HIDE DEF d, x
<1>6. d \in Nodes /\ node[d].kind = "dir" /\ Unused(d, x)
  BY <1>1 DEF NewName, IsDir, Unused
<1>7. ASSUME NEW text \in Texts, MkFile(p, text) PROVE TreeInv'
  <2>1. text \in Seq(Marks) /\ Create(d, x, text)
    BY <1>2, <1>7, TextsAre
  <2> QED
    BY <1>5, <1>6, <2>1, CreateSound
<1>8. CASE Mkdir(p)
  <2>1. /\ Dir \in NodeState /\ Dir.kind # "free" /\ Dir.nlink = 1
        /\ ~Dir.loading /\ EmptyNode(Dir)
    BY NewNodeIs
  <2> QED
    BY <1>1, <1>3, <1>5, <1>6, <1>8, <2>1, MakeSound
<1>9. ASSUME NEW target \in Targets, Symlink(target, p) PROVE TreeInv'
  <2> DEFINE r == Sym(target)
  <2>1. r \in NodeState /\ r.kind # "free" /\ r.nlink = 1 /\ ~r.loading /\ EmptyNode(r)
    BY NewNodeIs
  <2>2. CanMake /\ node' = Made(d, x, r) /\ answer' = "ok"
    BY <1>4, <1>9
  <2> HIDE DEF r
  <2> QED
    BY <1>1, <1>5, <1>6, <2>1, <2>2, MakeSound
<1> QED
  BY <1>7, <1>8, <1>9

(* A fetch that is over is no longer waited for.                           *)
LEMMA SettledIs ==
  ASSUME NEW r \in NodeState, r.fetches > 0
  PROVE  LET s == Settled(r)
         IN  /\ s \in NodeState /\ s.kind = r.kind /\ s.ent = r.ent /\ s.nlink = r.nlink
             /\ ~s.loading
<1> DEFINE k == r.fetches - 1
<1>1. r.fetches \in 0..MaxFetches
  BY DEF NodeState
<1>2. k \in 0..MaxFetches
  BY <1>1, SizesAssumption
<1>3. Settled(r) = [r EXCEPT !.loading = FALSE, !.fetches = k]
  BY DEF Settled
<1> HIDE DEF k
<1> QED
  BY <1>2, <1>3 DEF NodeState

(* A fetch begins, ends or fails.                                          *)
LEMMA FetchSound ==
  ASSUME TreeInv, NEW n \in Nodes, Fetch(n) \/ FetchDone(n) \/ FetchFails(n)
  PROVE  TreeInv'
<1>1. node \in [Nodes -> NodeState] /\ node[n] \in NodeState /\ Good(node) /\ Sound(node)
  BY SoundIsGood DEF TreeInv, Sound, TypedTree
<1>2. /\ node[n].fetches \in Nat /\ node[n].fetches <= MaxFetches /\ MaxFetches \in Nat
      /\ "s" \in Marks
  BY <1>1, SizesAssumption DEF NodeState, Marks
<1>3. ASSUME NEW r \in NodeState, r.kind = node[n].kind, r.ent = node[n].ent,
             r.nlink = node[n].nlink, r.loading => r.fetches > 0,
             node' = [node EXCEPT ![n] = r], answer' = answer
      PROVE  TreeInv'
  <2>1. Sound([node EXCEPT ![n] = r])
    BY <1>1, <1>3, NodeKept
  <2> QED
    BY <1>3, <2>1 DEF TreeInv
<1>4. CASE Fetch(n)
  <2> DEFINE k == node[n].fetches + 1
             r == [node[n] EXCEPT !.loading = TRUE, !.fetches = k]
  <2>0. k \in 0..MaxFetches /\ k > 0
    BY <1>2, <1>4 DEF Fetch
  <2> HIDE DEF k
  <2>1. /\ r \in NodeState /\ r.kind = node[n].kind /\ r.ent = node[n].ent
        /\ r.nlink = node[n].nlink /\ (r.loading => r.fetches > 0)
    BY <1>1, <2>0 DEF NodeState
  <2>2. node' = [node EXCEPT ![n] = r] /\ answer' = answer
    BY <1>1, <1>4 DEF Fetch, k
  <2> HIDE DEF r
  <2> QED
    BY <1>3, <2>1, <2>2
<1>5. CASE FetchDone(n)
  <2> DEFINE a == Arrived(node[n])
             r == Settled(a)
  <2>1. Source \in Seq(Marks)
    BY <1>2 DEF Source
  <2>2. /\ a \in NodeState /\ a.kind = node[n].kind /\ a.ent = node[n].ent
        /\ a.nlink = node[n].nlink /\ a.fetches = node[n].fetches
    BY <1>1, <2>1 DEF Arrived, NodeState
  <2>3. node' = [node EXCEPT ![n] = r] /\ answer' = answer /\ node[n].fetches > 0
    BY <1>1, <1>5 DEF FetchDone
  <2> HIDE DEF a
  <2>4. /\ r \in NodeState /\ r.kind = a.kind /\ r.ent = a.ent /\ r.nlink = a.nlink
        /\ ~r.loading
    BY <2>2, <2>3, SettledIs
  <2> HIDE DEF r
  <2> QED
    BY <1>3, <2>2, <2>3, <2>4
<1>6. CASE FetchFails(n)
  <2> DEFINE r == Settled(node[n])
  <2>1. node' = [node EXCEPT ![n] = r] /\ answer' = answer /\ node[n].fetches > 0
    BY <1>1, <1>6 DEF FetchFails
  <2>2. /\ r \in NodeState /\ r.kind = node[n].kind /\ r.ent = node[n].ent
        /\ r.nlink = node[n].nlink /\ ~r.loading
    BY <1>1, <2>1, SettledIs
  <2> HIDE DEF r
  <2> QED
    BY <1>3, <2>1, <2>2
<1> QED
  BY <1>4, <1>5, <1>6

(* What a call does between two starts.                                    *)
LEMMA TreeInvKept ==
  ASSUME Careful, TreeInv, [Next]_vars, [Restart => TreeInv']_vars
  PROVE  TreeInv'
<1>1. Sound(node)
  BY DEF TreeInv
<1>2. CASE UNCHANGED vars
  BY <1>2 DEF TreeInv, vars
<1>3. ASSUME NEW p \in Paths, Calls(p) PROVE TreeInv'
  <2>1. ASSUME NEW text \in Texts, NEW add \in BOOLEAN, Write(p, text, add) \/ FdWrite(p, text, add)
        PROVE  TreeInv'
    BY <1>1, <2>1, WriteSound
  <2>2. CASE \E text \in Texts : MkFile(p, text)
    BY <1>1, <2>2, NewSound
  <2>3. CASE Mkdir(p) \/ \E target \in Targets : Symlink(target, p)
    BY <1>1, <2>3, NewSound
  <2>4. CASE Rm(p)
    BY <1>1, <2>4, RmSound
  <2>5. ASSUME NEW q \in Paths, Link(p, q) \/ Rename(p, q) PROVE TreeInv'
    BY <1>1, <2>5, LinkSound, RenameSound
  <2> QED
    BY <1>3, <2>1, <2>2, <2>3, <2>4, <2>5 DEF Calls
<1>4. ASSUME NEW n \in Nodes, Fetch(n) \/ FetchDone(n) \/ FetchFails(n) PROVE TreeInv'
  BY <1>4, FetchSound
<1>5. CASE Restart
  BY <1>2, <1>5
<1> QED
  BY <1>2, <1>3, <1>4, <1>5 DEF Next

-----------------------------------------------------------------------------
(* Results.  A start reads the tree back from a list of entries, by walks  *)
(* whose results take an induction over the list; that what it reads back  *)
(* from a sound tree is sound is assumed here and left to the runs.        *)
StartsSound == [][TreeInv /\ Restart => TreeInv']_vars

(* Between starts, with callers that do not rename a directory below       *)
(* itself, the calls keep the tree sound.                                  *)
LEMMA TreeInvHolds == Careful => (Spec /\ StartsSound => []TreeInv)
<1> SUFFICES ASSUME Careful PROVE Spec /\ StartsSound => []TreeInv
  OBVIOUS
<1>1. Init => TreeInv
  BY ImageAssumption DEF Init, TreeInv, Sound
<1>2. TreeInv /\ [Next]_vars /\ [Restart => TreeInv']_vars => TreeInv'
  BY TreeInvKept
<1> QED
  BY <1>1, <1>2, PTL DEF Spec, StartsSound

(* Every node is of its kind, and a file that waits for a fetch has one    *)
(* under way, so that no file is left unreadable (Reg.loading).            *)
THEOREM VfsTyped == Careful => (Spec /\ StartsSound => []TypeOK)
<1>1. TreeInv => TypeOK
  BY DEF TreeInv, Sound, TypeOK
<1> QED
  BY <1>1, TreeInvHolds, PTL

(* The number of links that stat reports is that of a node's names, over   *)
(* replaced names and undone creations (VNode.nlink).                      *)
THEOREM VfsLinksCounted == Careful => (Spec /\ StartsSound => []LinksCounted)
<1>1. TreeInv => LinksCounted
  BY DEF TreeInv, Sound, LinksCounted
<1> QED
  BY <1>1, TreeInvHolds, PTL

(* What exists is what the root leads to, and only files have several      *)
(* names: no call makes a cycle or loses a directory (Vfs.rename).         *)
THEOREM VfsTreeShaped == Careful => (Spec /\ StartsSound => []TreeShaped)
<1>1. TreeInv => TreeShaped
  BY DEF TreeInv, Sound, TreeShaped
<1> QED
  BY <1>1, TreeInvHolds, PTL

=============================================================================
