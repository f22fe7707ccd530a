------------------------- MODULE ThistleHoldsProofs -------------------------
(***************************************************************************)
(* Proofs about the hold counts of pipes for any number of processes,      *)
(* pipes, descriptors and operations: that they are the numbers of the     *)
(* descriptors, and that a pipe ends when one side of it is gone.          *)
(***************************************************************************)
EXTENDS ThistleDescriptorsProofs, WellFoundedInduction

-----------------------------------------------------------------------------
(* Counting the descriptors of one table.                                  *)

One(c) == IF c THEN 1 ELSE 0

(* One descriptor of a table is replaced.                                  *)
LEMMA EntryUse ==
  ASSUME NEW T \in Table, NEW n \in FdNums, NEW d \in Descriptor, NEW x
  PROVE  LET U == [T EXCEPT ![n] = d] IN
           /\ Writers(U, x) = Writers(T, x) - One(T[n].out = x) + One(d.out = x)
           /\ Readers(U, x) = Readers(T, x) - One(T[n].in = x) + One(d.in = x)
<1> DEFINE U == [T EXCEPT ![n] = d]
<1>1. U \in Table /\ U[n] = d /\ \A m \in FdNums \ {n} : U[m] = T[m]
  BY DEF Table
<1> HIDE DEF U
<1>2. ASSUME NEW A \in SUBSET FdNums, NEW B \in SUBSET FdNums, A \ {n} = B \ {n}
      PROVE  Cardinality(B) = Cardinality(A) - One(n \in A) + One(n \in B)
  <2>1. IsFiniteSet(A) /\ IsFiniteSet(B)
    BY StdNums, FS_Subset
  <2>2. Cardinality(A) \in Nat /\ Cardinality(B) \in Nat
    BY <2>1, FS_CardinalityType
  <2>3. /\ Cardinality(A \ {n}) = IF n \in A THEN Cardinality(A) - 1 ELSE Cardinality(A)
        /\ Cardinality(B \ {n}) = IF n \in B THEN Cardinality(B) - 1 ELSE Cardinality(B)
    BY <2>1, FS_RemoveElement
  <2>4. Cardinality(A \ {n}) = Cardinality(B \ {n})
    BY <1>2
  <2> QED
    BY <2>2, <2>3, <2>4 DEF One
<1>3. Writers(U, x) = Writers(T, x) - One(T[n].out = x) + One(d.out = x)
  <2> DEFINE A == {m \in FdNums : T[m].out = x}
             B == {m \in FdNums : U[m].out = x}
  <2>1. A \ {n} = B \ {n} /\ (n \in A <=> T[n].out = x) /\ (n \in B <=> d.out = x)
    BY <1>1
  <2>2. A \in SUBSET FdNums /\ B \in SUBSET FdNums
    OBVIOUS
  <2>3. Writers(T, x) = Cardinality(A) /\ Writers(U, x) = Cardinality(B)
    BY DEF Writers
  <2> HIDE DEF A, B
  <2>4. Cardinality(B) = Cardinality(A) - One(n \in A) + One(n \in B)
    BY <1>2, <2>1, <2>2
  <2> QED
    BY <2>1, <2>3, <2>4 DEF One
<1>4. Readers(U, x) = Readers(T, x) - One(T[n].in = x) + One(d.in = x)
  <2> DEFINE A == {m \in FdNums : T[m].in = x}
             B == {m \in FdNums : U[m].in = x}
  <2>1. A \ {n} = B \ {n} /\ (n \in A <=> T[n].in = x) /\ (n \in B <=> d.in = x)
    BY <1>1
  <2>2. A \in SUBSET FdNums /\ B \in SUBSET FdNums
    OBVIOUS
  <2>3. Readers(T, x) = Cardinality(A) /\ Readers(U, x) = Cardinality(B)
    BY DEF Readers
  <2> HIDE DEF A, B
  <2>4. Cardinality(B) = Cardinality(A) - One(n \in A) + One(n \in B)
    BY <1>2, <2>1, <2>2
  <2> QED
    BY <2>1, <2>3, <2>4 DEF One
<1> QED
  BY <1>3, <1>4 DEF U

(* An empty table uses no pipe.                                            *)
LEMMA EmptyUse ==
  ASSUME NEW x \in Pipes
  PROVE  Writers(NoTable, x) = 0 /\ Readers(NoTable, x) = 0
<1>1. {n \in FdNums : NoTable[n].out = x} = {} /\ {n \in FdNums : NoTable[n].in = x} = {}
  BY DescriptorAssumption DEF NoTable, Closed
<1> QED
  BY <1>1, FS_EmptySet DEF Writers, Readers

(* What three standard streams use.                                        *)
LEMMA StdUse ==
  ASSUME NEW i \in Stream, NEW o \in Stream, NEW e \in Stream, NEW x \in Pipes
  PROVE  /\ Writers(Stdio(i, o, e), x) = One(o = x) + One(e = x)
         /\ Readers(Stdio(i, o, e), x) = One(i = x)
<1> DEFINE A == [NoTable EXCEPT ![0] = Reader(i)]
           B == [A EXCEPT ![1] = Writer(o)]
           C == [B EXCEPT ![2] = Writer(e)]
<1>1. Reader(i) \in Descriptor /\ Writer(o) \in Descriptor /\ Writer(e) \in Descriptor
  BY DescriptorTypes
<1>2. NoTable \in Table /\ A \in Table /\ B \in Table
  BY <1>1, TableTypes DEF Table
<1>3. NoPipe # x
  BY DescriptorAssumption
<1>4. NoTable[0] = Closed /\ A[1] = Closed /\ B[2] = Closed
  BY StdNums DEF NoTable
<1>5. /\ Reader(i).in = i /\ Reader(i).out = NoPipe
      /\ Writer(o).in = NoPipe /\ Writer(o).out = o
      /\ Writer(e).in = NoPipe /\ Writer(e).out = e
      /\ Closed.in = NoPipe /\ Closed.out = NoPipe
  BY DEF Reader, Writer, Closed
<1>6. Writers(NoTable, x) = 0 /\ Readers(NoTable, x) = 0
  BY EmptyUse
<1>7. Stdio(i, o, e) = C
  BY DEF Stdio
<1>8. 0 \in FdNums /\ 1 \in FdNums /\ 2 \in FdNums
  BY StdNums
<1>9. Writers(A, x) = 0 /\ Readers(A, x) = One(i = x)
  <2>1. /\ Writers(A, x) = Writers(NoTable, x) - One(NoTable[0].out = x) + One(Reader(i).out = x)
        /\ Readers(A, x) = Readers(NoTable, x) - One(NoTable[0].in = x) + One(Reader(i).in = x)
    <3>1. ASSUME NEW T \in Table, NEW d \in Descriptor
          PROVE  /\ Writers([T EXCEPT ![0] = d], x) = Writers(T, x) - One(T[0].out = x) + One(d.out = x)
                 /\ Readers([T EXCEPT ![0] = d], x) = Readers(T, x) - One(T[0].in = x) + One(d.in = x)
      BY <1>8, EntryUse
    <3> QED
      BY <1>1, <1>2, <3>1
  <2> HIDE DEF A
  <2> QED
    BY <2>1, <1>3, <1>4, <1>5, <1>6 DEF One
<1>10. Writers(B, x) = One(o = x) /\ Readers(B, x) = One(i = x)
  <2> HIDE DEF A
  <2>1. /\ Writers(B, x) = Writers(A, x) - One(A[1].out = x) + One(Writer(o).out = x)
        /\ Readers(B, x) = Readers(A, x) - One(A[1].in = x) + One(Writer(o).in = x)
    BY <1>1, <1>2, <1>8, EntryUse
  <2> HIDE DEF B
  <2> QED
    BY <2>1, <1>3, <1>4, <1>5, <1>9 DEF One
<1>11. Writers(C, x) = One(o = x) + One(e = x) /\ Readers(C, x) = One(i = x)
  <2> HIDE DEF B
  <2>1. /\ Writers(C, x) = Writers(B, x) - One(B[2].out = x) + One(Writer(e).out = x)
        /\ Readers(C, x) = Readers(B, x) - One(B[2].in = x) + One(Writer(e).in = x)
    BY <1>1, <1>2, <1>8, EntryUse
  <2> HIDE DEF C
  <2> QED
    BY <2>1, <1>3, <1>4, <1>5, <1>10 DEF One
<1> QED
  BY <1>7, <1>11

(* What one descriptor uses, and what the two parts of a table use.        *)
LEMMA OnlyUse ==
  ASSUME NEW T \in Table, NEW n \in FdNums, NEW x \in Pipes
  PROVE  /\ Writers(Only(T, {n}), x) = One(T[n].out = x)
         /\ Readers(Only(T, {n}), x) = One(T[n].in = x)
<1>1. Closed.out # x /\ Closed.in # x
  BY DescriptorAssumption DEF Closed
<1>2. {m \in FdNums : Only(T, {n})[m].out = x} = IF T[n].out = x THEN {n} ELSE {}
  BY <1>1 DEF Only
<1>3. {m \in FdNums : Only(T, {n})[m].in = x} = IF T[n].in = x THEN {n} ELSE {}
  BY <1>1 DEF Only
<1> QED
  BY <1>2, <1>3, FS_EmptySet, FS_Singleton DEF Writers, Readers, One

(* What a part of a table and the rest of it use.                          *)
LEMMA PartUse ==
  ASSUME NEW T \in Table, NEW M \in SUBSET FdNums, NEW N \in SUBSET FdNums,
         M \cap N = {}, M \cup N = FdNums, NEW x \in Pipes
  PROVE  /\ Writers(T, x) = Writers(Only(T, M), x) + Writers(Only(T, N), x)
         /\ Readers(T, x) = Readers(Only(T, M), x) + Readers(Only(T, N), x)
<1>1. Closed.out # x /\ Closed.in # x
  BY DescriptorAssumption DEF Closed
<1>2. ASSUME NEW A \in SUBSET FdNums, NEW B \in SUBSET FdNums, A \cap B = {}
      PROVE  Cardinality(A \cup B) = Cardinality(A) + Cardinality(B)
  <2>1. IsFiniteSet(A) /\ IsFiniteSet(B)
    BY StdNums, FS_Subset
  <2>2. Cardinality(A) \in Nat /\ Cardinality(B) \in Nat
    BY <2>1, FS_CardinalityType
  <2>3. Cardinality(A \cap B) = 0
    BY <1>2, FS_EmptySet
  <2>4. Cardinality(A \cup B) = Cardinality(A) + Cardinality(B) - Cardinality(A \cap B)
    BY <2>1, FS_Union
  <2> QED
    BY <2>2, <2>3, <2>4
<1>3. Writers(T, x) = Writers(Only(T, M), x) + Writers(Only(T, N), x)
  <2> DEFINE A == {m \in FdNums : Only(T, M)[m].out = x}
             B == {m \in FdNums : Only(T, N)[m].out = x}
  <2>1. A \cap B = {} /\ {m \in FdNums : T[m].out = x} = A \cup B
    BY <1>1 DEF Only
  <2>2. A \in SUBSET FdNums /\ B \in SUBSET FdNums
    OBVIOUS
  <2>3. /\ Writers(T, x) = Cardinality(A \cup B) /\ Writers(Only(T, M), x) = Cardinality(A)
        /\ Writers(Only(T, N), x) = Cardinality(B)
    BY <2>1 DEF Writers
  <2> HIDE DEF A, B
  <2> QED
    BY <1>2, <2>1, <2>2, <2>3
<1>4. Readers(T, x) = Readers(Only(T, M), x) + Readers(Only(T, N), x)
  <2> DEFINE A == {m \in FdNums : Only(T, M)[m].in = x}
             B == {m \in FdNums : Only(T, N)[m].in = x}
  <2>1. A \cap B = {} /\ {m \in FdNums : T[m].in = x} = A \cup B
    BY <1>1 DEF Only
  <2>2. A \in SUBSET FdNums /\ B \in SUBSET FdNums
    OBVIOUS
  <2>3. /\ Readers(T, x) = Cardinality(A \cup B) /\ Readers(Only(T, M), x) = Cardinality(A)
        /\ Readers(Only(T, N), x) = Cardinality(B)
    BY <2>1 DEF Readers
  <2> HIDE DEF A, B
  <2> QED
    BY <1>2, <2>1, <2>2, <2>3
<1> QED
  BY <1>3, <1>4

(* The standard streams of a table are some of its descriptors, and of     *)
(* what a start gives they are all, unless output and error are one.       *)
LEMMA StdHoldsUse ==
  ASSUME NEW i \in Stream, NEW o \in Stream, NEW e \in Stream, NEW x \in Pipes
  PROVE  LET T == Stdio(i, o, e) IN
           /\ Writers(StdHolds(T), x) <= Writers(T, x)
           /\ Readers(StdHolds(T), x) = Readers(T, x)
           /\ ~Joined(T) => Writers(StdHolds(T), x) = Writers(T, x)
<1> DEFINE T == Stdio(i, o, e)
           h == IF e = o THEN NoPipe ELSE e
<1>1. T[0].in = i /\ T[1].out = o /\ T[2].out = e
  BY StdNums DEF Stdio, NoTable, Reader, Writer
<1>2. StdHolds(T) = Stdio(i, o, h)
  BY <1>1 DEF StdHolds
<1>3. h \in Stream /\ NoPipe # x
  BY DescriptorAssumption DEF Stream
<1>4. /\ Writers(StdHolds(T), x) = One(o = x) + One(h = x)
      /\ Readers(StdHolds(T), x) = One(i = x)
  BY <1>2, <1>3, StdUse
<1>5. Writers(T, x) = One(o = x) + One(e = x) /\ Readers(T, x) = One(i = x)
  BY StdUse
<1>6. ~Joined(T) => (o = e => o = NoPipe)
  BY <1>1 DEF Joined
<1> HIDE DEF T
<1> QED
  BY <1>3, <1>4, <1>5, <1>6 DEF One, T

-----------------------------------------------------------------------------
(* Counting the descriptors of all tables.                                 *)

Cells == Procs \X FdNums

(* Cells are counted row by row.                                           *)
LEMMA RowCount ==
  ASSUME NEW A \in SUBSET Cells, NEW p \in Procs
  PROVE  LET N == {n \in FdNums : <<p, n>> \in A} IN
           /\ IsFiniteSet(A) /\ Cardinality(A) \in Nat /\ Cardinality(N) \in Nat
           /\ Cardinality(A \ ({p} \X FdNums)) \in Nat
           /\ Cardinality(A) = Cardinality(A \ ({p} \X FdNums)) + Cardinality(N)
<1> DEFINE N == {n \in FdNums : <<p, n>> \in A}
           R == {p} \X FdNums
<1>1. IsFiniteSet(Cells)
  BY StdNums, DescriptorAssumption, FS_Product DEF Cells
<1>2. IsFiniteSet(A) /\ IsFiniteSet(A \ R)
  <2>1. A \ R \in SUBSET Cells
    OBVIOUS
  <2> QED
    BY <1>1, <2>1, FS_Subset
<1>3. IsFiniteSet(N)
  BY StdNums, FS_Subset
<1>4. A \cap R = {p} \X N
  BY DEF Cells
<1>5. IsFiniteSet({p}) /\ Cardinality({p}) = 1
  BY FS_Singleton
<1> HIDE DEF N, R
<1>6. Cardinality({p} \X N) = Cardinality({p}) * Cardinality(N)
  BY <1>3, <1>5, FS_Product
<1>7. /\ Cardinality(A) \in Nat /\ Cardinality(N) \in Nat /\ Cardinality(A \ R) \in Nat
  BY <1>2, <1>3, FS_CardinalityType
<1>8. Cardinality(A \ R) = Cardinality(A) - Cardinality(A \cap R)
  BY <1>2, FS_Difference
<1>9. Cardinality(A \cap R) = Cardinality(N)
  <2>1. Cardinality(A \cap R) = 1 * Cardinality(N)
    BY <1>4, <1>5, <1>6
  <2> QED
    BY <1>7, <2>1
<1> QED
  BY <1>2, <1>7, <1>8, <1>9 DEF N, R

(* One table is replaced.                                                  *)
LEMMA TableUse ==
  ASSUME NEW F \in [Procs -> Table], NEW p \in Procs, NEW T \in Table, NEW x
  PROVE  LET G == [F EXCEPT ![p] = T] IN
           /\ Outs(F, x) \in Nat /\ Ins(F, x) \in Nat
           /\ Outs(G, x) \in Nat /\ Ins(G, x) \in Nat
           /\ Writers(F[p], x) <= Outs(F, x) /\ Readers(F[p], x) <= Ins(F, x)
           /\ Outs(G, x) = Outs(F, x) - Writers(F[p], x) + Writers(T, x)
           /\ Ins(G, x) = Ins(F, x) - Readers(F[p], x) + Readers(T, x)
<1> DEFINE G == [F EXCEPT ![p] = T]
           R == {p} \X FdNums
<1>1. G[p] = T /\ \A q \in Procs \ {p} : G[q] = F[q]
  OBVIOUS
<1> HIDE DEF G
<1>2. ASSUME NEW A \in SUBSET Cells, NEW B \in SUBSET Cells, A \ R = B \ R,
             NEW M \in SUBSET FdNums, NEW N \in SUBSET FdNums,
             \A n \in FdNums : (n \in M <=> <<p, n>> \in A) /\ (n \in N <=> <<p, n>> \in B)
      PROVE  /\ Cardinality(A) \in Nat /\ Cardinality(B) \in Nat
             /\ Cardinality(M) <= Cardinality(A)
             /\ Cardinality(B) = Cardinality(A) - Cardinality(M) + Cardinality(N)
  <2> M = {n \in FdNums : <<p, n>> \in A} /\ N = {n \in FdNums : <<p, n>> \in B}
    BY <1>2
  <2>1. /\ Cardinality(A) \in Nat /\ Cardinality(M) \in Nat /\ Cardinality(A \ R) \in Nat
        /\ Cardinality(A) = Cardinality(A \ R) + Cardinality(M)
    BY <1>2, RowCount
  <2>2. /\ Cardinality(B) \in Nat /\ Cardinality(N) \in Nat /\ Cardinality(B \ R) \in Nat
        /\ Cardinality(B) = Cardinality(B \ R) + Cardinality(N)
    BY <1>2, RowCount
  <2>3. Cardinality(A \ R) = Cardinality(B \ R)
    BY <1>2
  <2> HIDE DEF R
  <2> QED
    BY <2>1, <2>2, <2>3
<1>3. /\ Outs(F, x) \in Nat /\ Outs(G, x) \in Nat /\ Writers(F[p], x) <= Outs(F, x)
      /\ Outs(G, x) = Outs(F, x) - Writers(F[p], x) + Writers(T, x)
  <2> DEFINE A == {d \in Procs \X FdNums : F[d[1]][d[2]].out = x}
             B == {d \in Procs \X FdNums : G[d[1]][d[2]].out = x}
             M == {n \in FdNums : F[p][n].out = x}
             N == {n \in FdNums : T[n].out = x}
  <2>1. A \in SUBSET Cells /\ B \in SUBSET Cells
    BY DEF Cells
  <2>2. A \ R = B \ R
    BY <1>1
  <2>3. /\ M \in SUBSET FdNums /\ N \in SUBSET FdNums
        /\ \A n \in FdNums : (n \in M <=> <<p, n>> \in A) /\ (n \in N <=> <<p, n>> \in B)
    BY <1>1
  <2>4. /\ Outs(F, x) = Cardinality(A) /\ Outs(G, x) = Cardinality(B)
        /\ Writers(F[p], x) = Cardinality(M) /\ Writers(T, x) = Cardinality(N)
    BY DEF Outs, Writers
  <2> HIDE DEF A, B, M, N, R
  <2> QED
    BY <1>2, <2>1, <2>2, <2>3, <2>4
<1>4. /\ Ins(F, x) \in Nat /\ Ins(G, x) \in Nat /\ Readers(F[p], x) <= Ins(F, x)
      /\ Ins(G, x) = Ins(F, x) - Readers(F[p], x) + Readers(T, x)
  <2> DEFINE A == {d \in Procs \X FdNums : F[d[1]][d[2]].in = x}
             B == {d \in Procs \X FdNums : G[d[1]][d[2]].in = x}
             M == {n \in FdNums : F[p][n].in = x}
             N == {n \in FdNums : T[n].in = x}
  <2>1. A \in SUBSET Cells /\ B \in SUBSET Cells
    BY DEF Cells
  <2>2. A \ R = B \ R
    BY <1>1
  <2>3. /\ M \in SUBSET FdNums /\ N \in SUBSET FdNums
        /\ \A n \in FdNums : (n \in M <=> <<p, n>> \in A) /\ (n \in N <=> <<p, n>> \in B)
    BY <1>1
  <2>4. /\ Ins(F, x) = Cardinality(A) /\ Ins(G, x) = Cardinality(B)
        /\ Readers(F[p], x) = Cardinality(M) /\ Readers(T, x) = Cardinality(N)
    BY DEF Ins, Readers
  <2> HIDE DEF A, B, M, N, R
  <2> QED
    BY <1>2, <2>1, <2>2, <2>3, <2>4
<1> QED
  BY <1>3, <1>4 DEF G

-----------------------------------------------------------------------------
(* The counts of one pipe against w descriptors that write and r that      *)
(* read.  tidy: nobody has kept descriptors beyond its end, and no start   *)
(* was refused; plain: nobody has shown any habit.  The counts may be too  *)
(* low, so that a pipe ends early, but not too high, so that it ends; and  *)
(* they are exact for plain programs.  h: both ends were in use.           *)
Sound(s, w, r, h, tidy, plain) ==
  /\ tidy =>
       /\ s.refs <= w /\ s.rrefs <= r
       /\ h /\ (w = 0 \/ r = 0) => s.shut
  /\ plain => s.refs = w /\ s.rrefs = r

(* hold and holdR, for one pipe.                                           *)
LEMMA HoldIs ==
  ASSUME NEW st \in [Pipes -> PipeState], NEW x \in Pipes, NEW T
  PROVE  /\ st[x].refs \in Nat /\ st[x].rrefs \in Nat
         /\ Writers(T, x) \in Nat /\ Readers(T, x) \in Nat
         /\ Hold(st, T)[x].refs = st[x].refs + Writers(T, x)
         /\ Hold(st, T)[x].rrefs = st[x].rrefs + Readers(T, x)
         /\ Hold(st, T)[x].shut = st[x].shut
<1>1. Writers(T, x) \in Nat /\ Readers(T, x) \in Nat
  BY UseTypes
<1>2. st[x] \in PipeState /\ st[x].refs \in Nat /\ st[x].rrefs \in Nat
  BY DEF PipeState
<1>3. /\ Hold(st, T)[x].refs = st[x].refs + Writers(T, x)
      /\ Hold(st, T)[x].rrefs = st[x].rrefs + Readers(T, x)
      /\ Hold(st, T)[x].shut = st[x].shut
  BY <1>2 DEF Hold, PipeState
<1> QED
  BY <1>1, <1>2, <1>3

(* close and releaseR for descriptors that go.                             *)
LEMMA DropSound ==
  ASSUME NEW st \in [Pipes -> PipeState], NEW x \in Pipes, NEW T, NEW w \in Nat, NEW r \in Nat,
         NEW h \in BOOLEAN, NEW tidy \in BOOLEAN, NEW plain \in BOOLEAN,
         Sound(st[x], w, r, h, tidy, plain),
         Writers(T, x) <= w, Readers(T, x) <= r
  PROVE  Sound(Drop(st, T)[x], w - Writers(T, x), r - Readers(T, x), h, tidy, plain)
<1>1. Writers(T, x) \in Nat /\ Readers(T, x) \in Nat
  BY UseTypes
<1>2. st[x] \in PipeState /\ st[x].refs \in Nat /\ st[x].rrefs \in Nat
  BY DEF PipeState
<1>3. /\ Drop(st, T)[x].refs = Less(st[x].refs, Writers(T, x))
      /\ Drop(st, T)[x].rrefs = Less(st[x].rrefs, Readers(T, x))
      /\ Drop(st, T)[x].shut <=> st[x].shut \/ Shuts(st, T, x)
  BY DEF Drop
<1>4. ASSUME tidy
      PROVE  /\ Less(st[x].refs, Writers(T, x)) <= w - Writers(T, x)
             /\ Less(st[x].rrefs, Readers(T, x)) <= r - Readers(T, x)
  BY <1>1, <1>2, <1>4 DEF Sound, Less
<1>5. ASSUME tidy, h, w - Writers(T, x) = 0 \/ r - Readers(T, x) = 0
      PROVE  st[x].shut \/ Shuts(st, T, x)
  <2>1. CASE w = 0 \/ r = 0
    BY <1>5, <2>1 DEF Sound
  <2>2. CASE w # 0 /\ r # 0
    BY <1>1, <1>2, <1>5, <2>2 DEF Sound, Shuts
  <2> QED
    BY <2>1, <2>2
<1>6. ASSUME plain
      PROVE  /\ Less(st[x].refs, Writers(T, x)) = w - Writers(T, x)
             /\ Less(st[x].rrefs, Readers(T, x)) = r - Readers(T, x)
  BY <1>1, <1>2, <1>6 DEF Sound, Less
<1> QED
  BY <1>3, <1>4, <1>5, <1>6 DEF Sound

(* Less may be known later, and more of the descriptors.                   *)
LEMMA SoundLater ==
  ASSUME NEW s, NEW w \in Nat, NEW r \in Nat, NEW h, NEW tidy, NEW plain, NEW tidy2, NEW plain2,
         Sound(s, w, r, h, tidy, plain), tidy2 => tidy, plain2 => plain
  PROVE  /\ Sound(s, w, r, h, tidy2, plain2)
         /\ w > 0 /\ r > 0 => Sound(s, w, r, TRUE, tidy2, plain2)
  BY DEF Sound

-----------------------------------------------------------------------------
(* The inductive invariant.                                                *)

Released == {"leak", "setid"} \cap did = {}
Plain == did = {}

(* A number that is not open is Closed.                                    *)
Whole(T) == \A n \in FdNums : T[n].open \/ T[n] = Closed

(* The tables: whole ones; put aside only by a vfork; empty before the     *)
(* start; and output and error are two streams in plain programs, since a  *)
(* start would hold them once.                                             *)
Wholes == \A p \in Procs : Whole(fds[p]) /\ Whole(saved[p])
Aside == \A p \in Procs : ~forked[p] => saved[p] = NoTable
Empty == \A p \in Procs : life[p] = "unused" => fds[p] = NoTable /\ ~forked[p]
Apart == Plain => \A p \in Procs : ~Joined(fds[p]) /\ ~Joined(saved[p])
TablesKept == Wholes /\ Aside /\ Empty /\ Apart

Counted ==
  \A x \in Pipes :
    Sound(pipe[x], LiveWriters(x), LiveReaders(x), handed[x], Released, Plain)

HoldInv == TablesKept /\ Counted

(* Counted for one pipe, after a step.                                     *)
NextSound(x) ==
  Sound(pipe'[x], Outs(fds', x) + Outs(saved', x), Ins(fds', x) + Ins(saved', x),
        handed'[x], Released', Plain')

(* After the step the counts are sound if they are for each pipe.          *)
LEMMA NextCounted ==
  ASSUME \A x \in Pipes : NextSound(x)
  PROVE  Counted'
  BY DEF Counted, NextSound, LiveWriters, LiveReaders

(* What the counts say now.                                                *)
LEMMA NowCounted ==
  ASSUME TypeOK, Counted, NEW x \in Pipes
  PROVE  /\ LiveWriters(x) \in Nat /\ LiveReaders(x) \in Nat
         /\ Outs(fds, x) \in Nat /\ Outs(saved, x) \in Nat
         /\ Ins(fds, x) \in Nat /\ Ins(saved, x) \in Nat
         /\ pipe \in [Pipes -> PipeState] /\ handed[x] \in BOOLEAN
         /\ Released \in BOOLEAN /\ Plain \in BOOLEAN /\ (Plain => Released)
         /\ Sound(pipe[x], LiveWriters(x), LiveReaders(x), handed[x], Released, Plain)
<1>1. /\ Outs(fds, x) \in Nat /\ Outs(saved, x) \in Nat
      /\ Ins(fds, x) \in Nat /\ Ins(saved, x) \in Nat
  BY TableTypes, DescriptorAssumption, TableUse DEF TypeOK
<1>2. LiveWriters(x) \in Nat /\ LiveReaders(x) \in Nat
  BY <1>1 DEF LiveWriters, LiveReaders
<1>3. Released \in BOOLEAN /\ Plain \in BOOLEAN /\ (Plain => Released)
  BY DEF Released, Plain
<1> QED
  BY <1>1, <1>2, <1>3 DEF TypeOK, Counted

(* A descriptor that is there is counted.                                  *)
LEMMA UsedCounts ==
  ASSUME NEW T \in Table, NEW n \in FdNums, NEW x
  PROVE  (T[n].out = x => Writers(T, x) >= 1) /\ (T[n].in = x => Readers(T, x) >= 1)
<1>1. ASSUME NEW A \in SUBSET FdNums, n \in A
      PROVE  Cardinality(A) >= 1
  <2>1. IsFiniteSet(A)
    BY StdNums, FS_Subset
  <2>2. Cardinality(A) \in Nat /\ Cardinality(A) # 0
    BY <1>1, <2>1, FS_CardinalityType, FS_EmptySet
  <2> QED
    BY <2>2
<1>2. T[n].out = x => Writers(T, x) >= 1
  BY <1>1 DEF Writers
<1>3. T[n].in = x => Readers(T, x) >= 1
  BY <1>1 DEF Readers
<1> QED
  BY <1>2, <1>3

(* No table has a descriptor of a pipe nobody has made, if all are plain.  *)
LEMMA FreshUnused ==
  ASSUME TypeOK, Counted, Plain, NEW y \in Pipes, Fresh(y), NEW p \in Procs, NEW n \in FdNums
  PROVE  fds[p][n].out # y /\ fds[p][n].in # y
<1>1. LiveWriters(y) = 0 /\ LiveReaders(y) = 0
  <2>1. pipe[y].refs = LiveWriters(y) /\ pipe[y].rrefs = LiveReaders(y)
    BY DEF Counted, Sound
  <2>2. pipe[y].refs = 0 /\ pipe[y].rrefs = 0
    BY DEF Fresh, Unmade
  <2> QED
    BY <2>1, <2>2
<1>2. Outs(fds, y) = 0 /\ Ins(fds, y) = 0
  <2>1. /\ Outs(fds, y) \in Nat /\ Outs(saved, y) \in Nat
        /\ Ins(fds, y) \in Nat /\ Ins(saved, y) \in Nat
    BY NowCounted
  <2>2. LiveWriters(y) = Outs(fds, y) + Outs(saved, y) /\ LiveReaders(y) = Ins(fds, y) + Ins(saved, y)
    BY DEF LiveWriters, LiveReaders
  <2> QED
    BY <1>1, <2>1, <2>2
<1>3. fds \in [Procs -> Table] /\ fds[p] \in Table
  BY DEF TypeOK
<1>4. Writers(fds[p], y) <= 0 /\ Readers(fds[p], y) <= 0
  BY <1>2, <1>3, TableUse
<1>5. Writers(fds[p], y) \in Nat /\ Readers(fds[p], y) \in Nat
  BY UseTypes
<1>6. /\ fds[p][n].out = y => Writers(fds[p], y) >= 1
      /\ fds[p][n].in = y => Readers(fds[p], y) >= 1
  BY <1>3, UsedCounts
<1> QED
  BY <1>4, <1>5, <1>6

(* The table of a command.                                                 *)
LEMMA StdFacts ==
  ASSUME NEW i \in Stream, NEW o \in Stream, NEW e \in Stream
  PROVE  /\ Stdio(i, o, e) \in Table /\ Whole(Stdio(i, o, e))
         /\ Joined(Stdio(i, o, e)) <=> o = e /\ o # NoPipe
<1>1. Stdio(i, o, e) \in Table
  BY TableTypes
<1>2. Stdio(i, o, e)[1].out = o /\ Stdio(i, o, e)[2].out = e
  BY StdNums DEF Stdio, NoTable, Writer
<1>3. Whole(Stdio(i, o, e))
  BY StdNums DEF Whole, Stdio, NoTable, Reader, Writer
<1> QED
  BY <1>1, <1>2, <1>3 DEF Joined

(* A part of a table.                                                      *)
LEMMA OnlyFacts ==
  ASSUME NEW T \in Table, NEW N \in SUBSET FdNums
  PROVE  /\ Only(T, N) \in Table
         /\ Whole(T) => Whole(Only(T, N))
         /\ Joined(Only(T, N)) => Joined(T)
         /\ \A x \in Pipes : /\ Writers(Only(T, N), x) <= Writers(T, x)
                             /\ Readers(Only(T, N), x) <= Readers(T, x)
<1>1. Only(T, N) \in Table
  BY TableTypes
<1>2. Whole(T) => Whole(Only(T, N))
  BY DEF Whole, Only
<1>3. Joined(Only(T, N)) => Joined(T)
  BY StdNums DEF Joined, Only, Closed
<1>4. ASSUME NEW x \in Pipes
      PROVE  /\ Writers(Only(T, N), x) <= Writers(T, x)
             /\ Readers(Only(T, N), x) <= Readers(T, x)
  <2>1. N \cap (FdNums \ N) = {} /\ N \cup (FdNums \ N) = FdNums
    OBVIOUS
  <2>2. /\ Writers(T, x) = Writers(Only(T, N), x) + Writers(Only(T, FdNums \ N), x)
        /\ Readers(T, x) = Readers(Only(T, N), x) + Readers(Only(T, FdNums \ N), x)
    BY <2>1, PartUse
  <2>3. /\ Writers(Only(T, N), x) \in Nat /\ Writers(Only(T, FdNums \ N), x) \in Nat
        /\ Readers(Only(T, N), x) \in Nat /\ Readers(Only(T, FdNums \ N), x) \in Nat
    BY UseTypes
  <2> QED
    BY <2>2, <2>3
<1> QED
  BY <1>1, <1>2, <1>3, <1>4

(* The least of some numbers is one of them.                               *)
LEMMA LowestIsOne ==
  ASSUME NEW N \in SUBSET FdNums, N # {}
  PROVE  Lowest(N) \in N
<1> DEFINE R == {ss \in Nat \X Nat : ss[1] < ss[2]}
<1>1. N \subseteq Nat
  BY StdNums
<1>2. PICK n \in N : \A m \in N : ~ (<<m, n>> \in R)
  <2>1. IsWellFoundedOn(R, Nat)
    BY NatLessThanWellFounded DEF OpToRel
  <2> HIDE DEF R
  <2>2. ASSUME NEW S, IsWellFoundedOn(S, Nat)
        PROVE  \E n \in N : \A m \in N : ~ (<<m, n>> \in S)
    BY <1>1, <2>2, WFMin, Zenon
  <2> QED
    BY <2>1, <2>2
<1>3. ASSUME NEW m \in N
      PROVE  n <= m
  <2>1. m \in Nat /\ n \in Nat
    BY <1>1
  <2>2. m < n => <<m, n>> \in R
    BY <2>1
  <2> QED
    BY <1>2, <2>1, <2>2
<1>4. \E k \in N : \A m \in N : k <= m
  BY <1>3
<1> QED
  BY <1>4 DEF Lowest

-----------------------------------------------------------------------------
(* What the changes of tables do to the numbers of descriptors.            *)

(* G is F with the table T for p.                                          *)
Swap(F, G, p, T) ==
  F \in [Procs -> Table] /\ p \in Procs /\ T \in Table /\ G = [F EXCEPT ![p] = T]

(* The same with a name for the new tables.                                *)
LEMMA TableChange ==
  ASSUME NEW F, NEW G, NEW p, NEW T, NEW x, Swap(F, G, p, T)
  PROVE  /\ Outs(F, x) \in Nat /\ Ins(F, x) \in Nat
         /\ Writers(F[p], x) <= Outs(F, x) /\ Readers(F[p], x) <= Ins(F, x)
         /\ Outs(G, x) = Outs(F, x) - Writers(F[p], x) + Writers(T, x)
         /\ Ins(G, x) = Ins(F, x) - Readers(F[p], x) + Readers(T, x)
  BY TableUse DEF Swap

(* One table is replaced.                                                  *)
LEMMA OneLive ==
  ASSUME TypeOK, NEW p \in Procs, NEW T \in Table, NEW x, Swap(fds, fds', p, T), UNCHANGED saved
  PROVE  /\ Writers(fds[p], x) <= LiveWriters(x) /\ Readers(fds[p], x) <= LiveReaders(x)
         /\ Outs(fds', x) + Outs(saved', x)
              = LiveWriters(x) - Writers(fds[p], x) + Writers(T, x)
         /\ Ins(fds', x) + Ins(saved', x)
              = LiveReaders(x) - Readers(fds[p], x) + Readers(T, x)
<1>1. fds \in [Procs -> Table] /\ saved \in [Procs -> Table]
  BY DEF TypeOK
<1>2. /\ Outs(fds, x) \in Nat /\ Ins(fds, x) \in Nat
      /\ Writers(fds[p], x) <= Outs(fds, x) /\ Readers(fds[p], x) <= Ins(fds, x)
      /\ Outs(fds', x) = Outs(fds, x) - Writers(fds[p], x) + Writers(T, x)
      /\ Ins(fds', x) = Ins(fds, x) - Readers(fds[p], x) + Readers(T, x)
  BY TableChange
<1>3. Outs(saved, x) \in Nat /\ Ins(saved, x) \in Nat
  BY <1>1, TableUse
<1>4. /\ Writers(fds[p], x) \in Nat /\ Readers(fds[p], x) \in Nat
      /\ Writers(T, x) \in Nat /\ Readers(T, x) \in Nat
  BY UseTypes
<1>5. LiveWriters(x) = Outs(fds, x) + Outs(saved, x) /\ LiveReaders(x) = Ins(fds, x) + Ins(saved, x)
  BY DEF LiveWriters, LiveReaders
<1>6. saved' = saved
  OBVIOUS
<1> QED
  BY <1>2, <1>3, <1>4, <1>5, <1>6

(* Two processes that had no descriptors get tables.                       *)
LEMMA TwoLive ==
  ASSUME TypeOK, NEW c \in Procs, NEW d \in Procs, c # d, fds[c] = NoTable, fds[d] = NoTable,
         NEW T \in Table, NEW U \in Table, NEW x \in Pipes,
         fds' = [fds EXCEPT ![c] = T, ![d] = U], UNCHANGED saved
  PROVE  /\ Outs(fds', x) + Outs(saved', x) = LiveWriters(x) + Writers(T, x) + Writers(U, x)
         /\ Ins(fds', x) + Ins(saved', x) = LiveReaders(x) + Readers(T, x) + Readers(U, x)
<1> DEFINE F == [fds EXCEPT ![c] = T]
<1>1. fds \in [Procs -> Table] /\ saved \in [Procs -> Table]
  BY DEF TypeOK
<1>2. Swap(fds, F, c, T) /\ Swap(F, fds', d, U) /\ F[d] = NoTable
  BY <1>1 DEF Swap
<1> HIDE DEF F
<1>3. /\ Outs(fds, x) \in Nat /\ Ins(fds, x) \in Nat
      /\ Outs(F, x) = Outs(fds, x) - Writers(fds[c], x) + Writers(T, x)
      /\ Ins(F, x) = Ins(fds, x) - Readers(fds[c], x) + Readers(T, x)
  BY <1>2, TableChange
<1>4. /\ Outs(fds', x) = Outs(F, x) - Writers(F[d], x) + Writers(U, x)
      /\ Ins(fds', x) = Ins(F, x) - Readers(F[d], x) + Readers(U, x)
  BY <1>2, TableChange
<1>5. Outs(saved, x) \in Nat /\ Ins(saved, x) \in Nat
  BY <1>1, TableUse
<1>6. /\ Writers(T, x) \in Nat /\ Readers(T, x) \in Nat
      /\ Writers(U, x) \in Nat /\ Readers(U, x) \in Nat
  BY UseTypes
<1>7. Writers(NoTable, x) = 0 /\ Readers(NoTable, x) = 0
  BY EmptyUse
<1>8. LiveWriters(x) = Outs(fds, x) + Outs(saved, x) /\ LiveReaders(x) = Ins(fds, x) + Ins(saved, x)
  BY DEF LiveWriters, LiveReaders
<1>9. saved' = saved
  OBVIOUS
<1>10. Outs(F, x) = Outs(fds, x) + Writers(T, x) /\ Ins(F, x) = Ins(fds, x) + Readers(T, x)
  BY <1>3, <1>6, <1>7
<1>11. Outs(fds', x) = Outs(F, x) + Writers(U, x) /\ Ins(fds', x) = Ins(F, x) + Readers(U, x)
  BY <1>2, <1>3, <1>4, <1>6, <1>7, <1>10
<1> QED
  BY <1>3, <1>5, <1>6, <1>8, <1>9, <1>10, <1>11

(* The child of a vfork gives its table up, and another process gets one.  *)
LEMMA RestoredLive ==
  ASSUME TypeOK, NEW p \in Procs, NEW c \in Procs, p # c, fds[c] = NoTable,
         NEW T \in Table, NEW x \in Pipes, Restored(p, c, T)
  PROVE  /\ Writers(fds[p], x) <= LiveWriters(x) /\ Readers(fds[p], x) <= LiveReaders(x)
         /\ Outs(fds', x) + Outs(saved', x)
              = LiveWriters(x) - Writers(fds[p], x) + Writers(T, x)
         /\ Ins(fds', x) + Ins(saved', x)
              = LiveReaders(x) - Readers(fds[p], x) + Readers(T, x)
<1> DEFINE F == [fds EXCEPT ![p] = saved[p]]
<1>1. fds \in [Procs -> Table] /\ saved \in [Procs -> Table] /\ saved[p] \in Table
  BY DEF TypeOK
<1>2. Swap(fds, F, p, saved[p]) /\ Swap(F, fds', c, T) /\ F[c] = NoTable
  BY <1>1 DEF Restored, Swap
<1> HIDE DEF F
<1>3. /\ Outs(fds, x) \in Nat /\ Ins(fds, x) \in Nat
      /\ Writers(fds[p], x) <= Outs(fds, x) /\ Readers(fds[p], x) <= Ins(fds, x)
      /\ Outs(F, x) = Outs(fds, x) - Writers(fds[p], x) + Writers(saved[p], x)
      /\ Ins(F, x) = Ins(fds, x) - Readers(fds[p], x) + Readers(saved[p], x)
  BY <1>2, TableChange
<1>4. /\ Outs(fds', x) = Outs(F, x) - Writers(F[c], x) + Writers(T, x)
      /\ Ins(fds', x) = Ins(F, x) - Readers(F[c], x) + Readers(T, x)
  BY <1>2, TableChange
<1>5. Swap(saved, saved', p, NoTable)
  BY <1>1, TableTypes DEF Restored, Swap
<1>6. /\ Outs(saved, x) \in Nat /\ Ins(saved, x) \in Nat
      /\ Outs(saved', x) = Outs(saved, x) - Writers(saved[p], x) + Writers(NoTable, x)
      /\ Ins(saved', x) = Ins(saved, x) - Readers(saved[p], x) + Readers(NoTable, x)
  BY <1>5, TableChange
<1>7. /\ Writers(T, x) \in Nat /\ Readers(T, x) \in Nat
      /\ Writers(fds[p], x) \in Nat /\ Readers(fds[p], x) \in Nat
      /\ Writers(saved[p], x) \in Nat /\ Readers(saved[p], x) \in Nat
  BY UseTypes
<1>8. Writers(NoTable, x) = 0 /\ Readers(NoTable, x) = 0
  BY EmptyUse
<1>9. LiveWriters(x) = Outs(fds, x) + Outs(saved, x) /\ LiveReaders(x) = Ins(fds, x) + Ins(saved, x)
  BY DEF LiveWriters, LiveReaders
<1>10. Outs(fds', x) = Outs(F, x) + Writers(T, x) /\ Ins(fds', x) = Ins(F, x) + Readers(T, x)
  BY <1>2, <1>3, <1>4, <1>7, <1>8
<1>11. /\ Outs(saved', x) = Outs(saved, x) - Writers(saved[p], x)
       /\ Ins(saved', x) = Ins(saved, x) - Readers(saved[p], x)
  BY <1>6, <1>7, <1>8
<1> QED
  BY <1>3, <1>6, <1>7, <1>9, <1>10, <1>11

(* What a process has shown before, it has shown.                          *)
LEMMA ShownKept ==
  ASSUME did \subseteq did'
  PROVE  (Released' => Released) /\ (Plain' => Plain)
  BY DEF Released, Plain

(* A step that shows a habit, or may.                                      *)
LEMMA ShowsKept ==
  ASSUME NEW h, NEW c, Shows(h, c)
  PROVE  /\ did \subseteq did'
         /\ c => h \in did' /\ ~Plain'
         /\ h \in {"leak", "setid"} /\ c => ~Released'
  BY DEF Shows, Plain, Released

(* Nothing changes for the counts.                                         *)
LEMMA SameSound ==
  ASSUME TypeOK, Counted, UNCHANGED <<fds, saved, pipe, handed, did>>, NEW x \in Pipes
  PROVE  NextSound(x)
<1>1. Sound(pipe[x], LiveWriters(x), LiveReaders(x), handed[x], Released, Plain)
  BY NowCounted
<1>2. Released' = Released /\ Plain' = Plain
  BY DEF Released, Plain
<1>3. fds' = fds /\ saved' = saved /\ pipe' = pipe /\ handed' = handed
  OBVIOUS
<1> QED
  BY <1>1, <1>2, <1>3 DEF NextSound, LiveWriters, LiveReaders

-----------------------------------------------------------------------------
(* The counts, operation by operation.                                     *)

(* Sys.pipe: one descriptor and one hold for each end.                     *)
LEMMA MakePipeSound ==
  ASSUME TypeOK, HoldInv, NEW p \in Procs, NEW y \in Pipes, NEW clo \in BOOLEAN,
         MakePipe(p, y, clo), NEW x \in Pipes
  PROVE  /\ NextSound(x)
         /\ \E U \in Table : /\ Swap(fds, fds', p, U) /\ Whole(U)
                             /\ U[1] = fds[p][1] /\ U[2] = fds[p][2]
<1> DEFINE rd == Lowest(Free(p))
           wr == Lowest(Free(p) \ {rd})
           R == [Reader(y) EXCEPT !.clo = clo]
           W == [Writer(y) EXCEPT !.clo = clo]
           V == [fds[p] EXCEPT ![rd] = R]
           U == [V EXCEPT ![wr] = W]
<1>1. rd \in Free(p) /\ wr \in Free(p) /\ wr # rd
  <2>1. Free(p) \in SUBSET FdNums /\ IsFiniteSet(Free(p))
    BY StdNums, FS_Subset DEF Free
  <2>2. Cardinality(Free(p)) \in Nat /\ Cardinality(Free(p)) >= 2
    BY <2>1, FS_CardinalityType DEF MakePipe
  <2>3. Free(p) # {}
    BY <2>2, FS_EmptySet
  <2>4. rd \in Free(p)
    BY <2>1, <2>3, LowestIsOne
  <2> HIDE DEF rd
  <2>5. Cardinality(Free(p) \ {rd}) = Cardinality(Free(p)) - 1
    BY <2>1, <2>4, FS_RemoveElement
  <2>6. Free(p) \ {rd} # {}
    BY <2>2, <2>5, FS_EmptySet
  <2>7. wr \in Free(p) \ {rd}
    BY <2>1, <2>6, LowestIsOne
  <2> QED
    BY <2>4, <2>7
<1>2. /\ R \in Descriptor /\ R.open /\ R.in = y /\ R.out = NoPipe
      /\ W \in Descriptor /\ W.open /\ W.in = NoPipe /\ W.out = y
  BY DEF Reader, Writer, Descriptor, Stream
<1>3. fds' = [fds EXCEPT ![p][rd] = R, ![p][wr] = W] /\ UNCHANGED saved
  BY DEF MakePipe
<1> HIDE DEF rd, wr, R, W
<1>4. rd \in FdNums /\ wr \in FdNums /\ rd \notin {1, 2} /\ wr \notin {1, 2}
      /\ ~fds[p][rd].open /\ ~fds[p][wr].open
  BY <1>1, StdNums DEF Free
<1>5. fds[p] \in Table /\ Whole(fds[p])
  BY DEF TypeOK, HoldInv, TablesKept, Wholes
<1>6. fds[p][rd] = Closed /\ fds[p][wr] = Closed
  BY <1>4, <1>5 DEF Whole
<1>7. V \in Table /\ V[wr] = Closed /\ U \in Table
  BY <1>1, <1>2, <1>4, <1>5, <1>6 DEF Table
<1>8. Swap(fds, fds', p, U)
  <2>1. fds' = [fds EXCEPT ![p] = U]
    BY <1>3 DEF TypeOK
  <2> HIDE DEF V
  <2> QED
    BY <1>7, <2>1 DEF Swap, TypeOK
<1>9. Whole(U) /\ U[1] = fds[p][1] /\ U[2] = fds[p][2]
  BY <1>2, <1>4, <1>5, StdNums DEF Whole, Table
<1>10. Closed.in # x /\ Closed.out # x /\ NoPipe # x
  BY DescriptorAssumption DEF Closed
<1>11. /\ Writers(V, x) = Writers(fds[p], x) /\ Readers(V, x) = Readers(fds[p], x) + One(x = y)
  <2>1. /\ Writers(V, x) = Writers(fds[p], x) - One(fds[p][rd].out = x) + One(R.out = x)
        /\ Readers(V, x) = Readers(fds[p], x) - One(fds[p][rd].in = x) + One(R.in = x)
    BY <1>2, <1>4, <1>5, EntryUse
  <2> QED
    BY <1>2, <1>6, <1>10, <2>1, UseTypes DEF One
<1> HIDE DEF V
<1>12. /\ Writers(U, x) = Writers(V, x) + One(x = y) /\ Readers(U, x) = Readers(V, x)
  <2>1. /\ Writers(U, x) = Writers(V, x) - One(V[wr].out = x) + One(W.out = x)
        /\ Readers(U, x) = Readers(V, x) - One(V[wr].in = x) + One(W.in = x)
    BY <1>2, <1>4, <1>7, EntryUse
  <2> QED
    BY <1>2, <1>7, <1>10, <2>1, UseTypes DEF One
<1> HIDE DEF U
<1>13. /\ Outs(fds', x) + Outs(saved', x) = LiveWriters(x) + One(x = y)
       /\ Ins(fds', x) + Ins(saved', x) = LiveReaders(x) + One(x = y)
  <2>1. /\ Outs(fds', x) + Outs(saved', x) = LiveWriters(x) - Writers(fds[p], x) + Writers(U, x)
        /\ Ins(fds', x) + Ins(saved', x) = LiveReaders(x) - Readers(fds[p], x) + Readers(U, x)
    BY <1>3, <1>7, <1>8, OneLive
  <2>2. /\ Writers(fds[p], x) \in Nat /\ Readers(fds[p], x) \in Nat
        /\ LiveWriters(x) \in Nat /\ LiveReaders(x) \in Nat
    BY UseTypes, NowCounted DEF HoldInv
  <2> QED
    BY <1>11, <1>12, <2>1, <2>2 DEF One
<1>14. Released' = Released /\ Plain' = Plain
  BY DEF MakePipe, Released, Plain
<1>15. /\ LiveWriters(x) \in Nat /\ LiveReaders(x) \in Nat /\ (Plain => Released)
       /\ Sound(pipe[x], LiveWriters(x), LiveReaders(x), handed[x], Released, Plain)
  BY NowCounted DEF HoldInv
<1>16. NextSound(x)
  <2>1. CASE x = y
    <3>1. pipe[x] = Unmade /\ pipe'[x].refs = 1 /\ pipe'[x].rrefs = 1
      BY <2>1 DEF MakePipe, Fresh, TypeOK, PipeState, Unmade
    <3>2. Plain => LiveWriters(x) = 0 /\ LiveReaders(x) = 0
      BY <1>15, <3>1 DEF Sound, Unmade
    <3> QED
      BY <1>13, <1>14, <1>15, <2>1, <3>1, <3>2 DEF NextSound, Sound, One
  <2>2. CASE x # y
    <3>1. pipe'[x] = pipe[x] /\ handed'[x] = handed[x]
      BY <2>2 DEF MakePipe, TypeOK
    <3> QED
      BY <1>13, <1>14, <1>15, <2>2, <3>1 DEF NextSound, One
  <2> QED
    BY <2>1, <2>2
<1> QED
  BY <1>7, <1>8, <1>9, <1>16

(* Sys.pipe with room for one number only.                                 *)
LEMMA MakeHalfPipeSound ==
  ASSUME TypeOK, HoldInv, NEW p \in Procs, NEW y \in Pipes, MakeHalfPipe(p, y), NEW x \in Pipes
  PROVE  /\ NextSound(x)
         /\ \E U \in Table : /\ Swap(fds, fds', p, U) /\ Whole(U)
                             /\ U[1] = fds[p][1] /\ U[2] = fds[p][2]
<1> DEFINE rd == Lowest(Free(p))
           U == [fds[p] EXCEPT ![rd] = Reader(y)]
<1>1. rd \in Free(p)
  <2>1. Free(p) \in SUBSET FdNums /\ IsFiniteSet(Free(p))
    BY StdNums, FS_Subset DEF Free
  <2>2. Free(p) # {}
    BY <2>1, FS_EmptySet DEF MakeHalfPipe
  <2> QED
    BY <2>1, <2>2, LowestIsOne
<1>2. Reader(y) \in Descriptor /\ Reader(y).open /\ Reader(y).in = y /\ Reader(y).out = NoPipe
  BY DEF Reader, Descriptor, Stream
<1>3. fds' = [fds EXCEPT ![p][rd] = Reader(y)] /\ UNCHANGED saved
  BY DEF MakeHalfPipe
<1> HIDE DEF rd
<1>4. rd \in FdNums /\ rd \notin {1, 2} /\ ~fds[p][rd].open
  BY <1>1, StdNums DEF Free
<1>5. fds[p] \in Table /\ Whole(fds[p])
  BY DEF TypeOK, HoldInv, TablesKept, Wholes
<1>6. fds[p][rd] = Closed
  BY <1>4, <1>5 DEF Whole
<1>7. U \in Table
  BY <1>2, <1>4, <1>5 DEF Table
<1>8. Swap(fds, fds', p, U)
  BY <1>3, <1>7 DEF Swap, TypeOK
<1>9. Whole(U) /\ U[1] = fds[p][1] /\ U[2] = fds[p][2]
  BY <1>2, <1>4, <1>5, StdNums DEF Whole, Table
<1>10. Closed.in # x /\ Closed.out # x /\ NoPipe # x
  BY DescriptorAssumption DEF Closed
<1>11. /\ Writers(U, x) = Writers(fds[p], x) /\ Readers(U, x) = Readers(fds[p], x) + One(x = y)
  <2>1. /\ Writers(U, x) = Writers(fds[p], x) - One(fds[p][rd].out = x) + One(Reader(y).out = x)
        /\ Readers(U, x) = Readers(fds[p], x) - One(fds[p][rd].in = x) + One(Reader(y).in = x)
    BY <1>2, <1>4, <1>5, EntryUse
  <2> QED
    BY <1>2, <1>6, <1>10, <2>1, UseTypes DEF One
<1> HIDE DEF U
<1>12. /\ Outs(fds', x) + Outs(saved', x) = LiveWriters(x)
       /\ Ins(fds', x) + Ins(saved', x) = LiveReaders(x) + One(x = y)
  <2>1. /\ Outs(fds', x) + Outs(saved', x) = LiveWriters(x) - Writers(fds[p], x) + Writers(U, x)
        /\ Ins(fds', x) + Ins(saved', x) = LiveReaders(x) - Readers(fds[p], x) + Readers(U, x)
    BY <1>3, <1>7, <1>8, OneLive
  <2>2. /\ Writers(fds[p], x) \in Nat /\ Readers(fds[p], x) \in Nat
        /\ LiveWriters(x) \in Nat /\ LiveReaders(x) \in Nat
    BY UseTypes, NowCounted DEF HoldInv
  <2> QED
    BY <1>11, <2>1, <2>2 DEF One
<1>13. Released' = Released /\ Plain' = Plain
  BY DEF MakeHalfPipe, Released, Plain
<1>14. /\ LiveWriters(x) \in Nat /\ LiveReaders(x) \in Nat /\ (Plain => Released)
       /\ Sound(pipe[x], LiveWriters(x), LiveReaders(x), handed[x], Released, Plain)
  BY NowCounted DEF HoldInv
<1>15. NextSound(x)
  <2>1. CASE x = y
    <3>1. /\ pipe[x] = Unmade /\ pipe'[x].refs = 0 /\ pipe'[x].rrefs = 1
          /\ handed'[x] = handed[x] /\ ~handed[x]
      BY <2>1 DEF MakeHalfPipe, Fresh, TypeOK, PipeState, Unmade
    <3>2. Plain => LiveWriters(x) = 0 /\ LiveReaders(x) = 0
      BY <1>14, <3>1 DEF Sound, Unmade
    <3> QED
      BY <1>12, <1>13, <1>14, <2>1, <3>1, <3>2 DEF NextSound, Sound, One
  <2>2. CASE x # y
    <3>1. pipe'[x] = pipe[x] /\ handed'[x] = handed[x]
      BY <2>2 DEF MakeHalfPipe, TypeOK
    <3> QED
      BY <1>12, <1>13, <1>14, <2>2, <3>1 DEF NextSound, One
  <2> QED
    BY <2>1, <2>2
<1> QED
  BY <1>7, <1>8, <1>9, <1>15

(* Sys.close: one hold for one descriptor.                                 *)
LEMMA CloseSound ==
  ASSUME TypeOK, HoldInv, NEW p \in Procs, NEW n \in FdNums, Close(p, n)
  PROVE  /\ \A x \in Pipes : NextSound(x)
         /\ \E U \in Table : /\ Swap(fds, fds', p, U) /\ Whole(U)
                             /\ Plain => ~Joined(U)
<1> DEFINE U == [fds[p] EXCEPT ![n] = Closed]
           D == Only(fds[p], {n})
<1>1. fds[p] \in Table /\ Whole(fds[p]) /\ (Plain => ~Joined(fds[p]))
  BY DEF TypeOK, HoldInv, TablesKept, Wholes, Apart
<1>2. U \in Table /\ Whole(U)
  BY <1>1, DescriptorTypes DEF Table, Whole
<1>3. Joined(U) => Joined(fds[p])
  BY <1>1, StdNums DEF Joined, Table, Closed
<1>4. Swap(fds, fds', p, U) /\ UNCHANGED saved
  BY <1>2 DEF Close, Swap, TypeOK
<1>5. ASSUME NEW x \in Pipes
      PROVE  NextSound(x)
  <2>1. Closed.in # x /\ Closed.out # x
    BY DescriptorAssumption DEF Closed
  <2>2. /\ Writers(U, x) = Writers(fds[p], x) - Writers(D, x)
        /\ Readers(U, x) = Readers(fds[p], x) - Readers(D, x)
    <3>1. /\ Writers(U, x) = Writers(fds[p], x) - One(fds[p][n].out = x) + One(Closed.out = x)
          /\ Readers(U, x) = Readers(fds[p], x) - One(fds[p][n].in = x) + One(Closed.in = x)
      BY <1>1, DescriptorTypes, EntryUse
    <3>2. Writers(D, x) = One(fds[p][n].out = x) /\ Readers(D, x) = One(fds[p][n].in = x)
      BY <1>1, OnlyUse
    <3> QED
      BY <2>1, <3>1, <3>2, UseTypes DEF One
  <2>3. Writers(D, x) <= Writers(fds[p], x) /\ Readers(D, x) <= Readers(fds[p], x)
    BY <1>1, OnlyFacts
  <2> HIDE DEF U, D
  <2>4. /\ Writers(fds[p], x) <= LiveWriters(x) /\ Readers(fds[p], x) <= LiveReaders(x)
        /\ Outs(fds', x) + Outs(saved', x) = LiveWriters(x) - Writers(fds[p], x) + Writers(U, x)
        /\ Ins(fds', x) + Ins(saved', x) = LiveReaders(x) - Readers(fds[p], x) + Readers(U, x)
    BY <1>2, <1>4, OneLive
  <2>5. /\ LiveWriters(x) \in Nat /\ LiveReaders(x) \in Nat
        /\ pipe \in [Pipes -> PipeState] /\ handed[x] \in BOOLEAN
        /\ Released \in BOOLEAN /\ Plain \in BOOLEAN
        /\ Sound(pipe[x], LiveWriters(x), LiveReaders(x), handed[x], Released, Plain)
    BY NowCounted DEF HoldInv
  <2>6. /\ Writers(fds[p], x) \in Nat /\ Readers(fds[p], x) \in Nat
        /\ Writers(D, x) \in Nat /\ Readers(D, x) \in Nat
    BY UseTypes
  <2>7. Sound(Drop(pipe, D)[x], LiveWriters(x) - Writers(D, x), LiveReaders(x) - Readers(D, x),
              handed[x], Released, Plain)
    <3>1. Writers(D, x) <= LiveWriters(x) /\ Readers(D, x) <= LiveReaders(x)
      BY <2>3, <2>4, <2>5, <2>6
    <3> QED
      BY <2>5, <3>1, DropSound
  <2>8. /\ Outs(fds', x) + Outs(saved', x) = LiveWriters(x) - Writers(D, x)
        /\ Ins(fds', x) + Ins(saved', x) = LiveReaders(x) - Readers(D, x)
    BY <2>2, <2>4, <2>5, <2>6
  <2>9. pipe' = Drop(pipe, D) /\ handed' = handed /\ Released' = Released /\ Plain' = Plain
    BY DEF Close, Settle, Released, Plain, D
  <2>10. NextSound(x)
    BY <2>7, <2>8, <2>9 DEF NextSound
  <2> QED
    BY <2>10
<1> QED
  BY <1>1, <1>2, <1>3, <1>4, <1>5

(* dup, dup3 and fcntl: first what was there, then what comes.             *)
LEMMA DupSound ==
  ASSUME TypeOK, HoldInv, NEW p \in Procs, NEW old \in Opened(p), NEW new \in FdNums,
         NEW clo \in BOOLEAN, Dup(p, old, new, clo)
  PROVE  /\ \A x \in Pipes : NextSound(x)
         /\ \E U \in Table : /\ Swap(fds, fds', p, U) /\ Whole(U)
                             /\ Plain' => Plain /\ ~Joined(U)
<1> DEFINE d == [fds[p][old] EXCEPT !.clo = clo]
           U == [fds[p] EXCEPT ![new] = d]
           D == Only(fds[p], {new})
           H == Only(U, {new})
<1>1. fds[p] \in Table /\ Whole(fds[p]) /\ old \in FdNums /\ fds[p][old].open
  BY DEF TypeOK, HoldInv, TablesKept, Wholes, Opened
<1>2. d \in Descriptor /\ d.open
  <2>1. fds[p][old] \in Descriptor
    BY <1>1, StreamTypes
  <2> QED
    BY <1>1, <2>1 DEF Descriptor
<1>3. /\ fds' = [fds EXCEPT ![p] = U] /\ UNCHANGED saved
      /\ Shows("join", Joined(U)) /\ pipe' = Hold(Drop(pipe, D), H) /\ handed' = handed
  BY DEF Dup, Settle
<1> HIDE DEF d
<1>4. U \in Table /\ Whole(U) /\ U[new] = d
  BY <1>1, <1>2 DEF Table, Whole
<1>5. Swap(fds, fds', p, U)
  <2> HIDE DEF U
  <2> QED
    BY <1>3, <1>4 DEF Swap, TypeOK
<1>6. (Released' => Released) /\ (Plain' => Plain) /\ (Plain' => ~Joined(U))
  <2> HIDE DEF U
  <2> QED
    BY <1>3, ShowsKept, ShownKept
<1>7. ASSUME NEW x \in Pipes
      PROVE  NextSound(x)
  <2>1. /\ Writers(U, x) = Writers(fds[p], x) - Writers(D, x) + Writers(H, x)
        /\ Readers(U, x) = Readers(fds[p], x) - Readers(D, x) + Readers(H, x)
    <3>1. /\ Writers(U, x) = Writers(fds[p], x) - One(fds[p][new].out = x) + One(d.out = x)
          /\ Readers(U, x) = Readers(fds[p], x) - One(fds[p][new].in = x) + One(d.in = x)
      BY <1>1, <1>2, EntryUse
    <3>2. Writers(D, x) = One(fds[p][new].out = x) /\ Readers(D, x) = One(fds[p][new].in = x)
      BY <1>1, OnlyUse
    <3> HIDE DEF U
    <3>3. Writers(H, x) = One(U[new].out = x) /\ Readers(H, x) = One(U[new].in = x)
      BY <1>4, OnlyUse
    <3> QED
      BY <1>4, <3>1, <3>2, <3>3
  <2>2. Writers(D, x) <= Writers(fds[p], x) /\ Readers(D, x) <= Readers(fds[p], x)
    BY <1>1, OnlyFacts
  <2> HIDE DEF U, D, H
  <2>3. /\ Writers(fds[p], x) <= LiveWriters(x) /\ Readers(fds[p], x) <= LiveReaders(x)
        /\ Outs(fds', x) + Outs(saved', x) = LiveWriters(x) - Writers(fds[p], x) + Writers(U, x)
        /\ Ins(fds', x) + Ins(saved', x) = LiveReaders(x) - Readers(fds[p], x) + Readers(U, x)
    BY <1>3, <1>4, <1>5, OneLive
  <2>4. /\ LiveWriters(x) \in Nat /\ LiveReaders(x) \in Nat
        /\ pipe \in [Pipes -> PipeState] /\ handed[x] \in BOOLEAN
        /\ Released \in BOOLEAN /\ Plain \in BOOLEAN
        /\ Sound(pipe[x], LiveWriters(x), LiveReaders(x), handed[x], Released, Plain)
    BY NowCounted DEF HoldInv
  <2>5. /\ Writers(fds[p], x) \in Nat /\ Readers(fds[p], x) \in Nat
        /\ Writers(D, x) \in Nat /\ Readers(D, x) \in Nat
        /\ Writers(H, x) \in Nat /\ Readers(H, x) \in Nat
    BY UseTypes
  <2> DEFINE w == LiveWriters(x) - Writers(D, x)
             r == LiveReaders(x) - Readers(D, x)
             v == w + Writers(H, x)
             q == r + Readers(H, x)
  <2>6. w \in Nat /\ r \in Nat /\ Writers(D, x) <= LiveWriters(x) /\ Readers(D, x) <= LiveReaders(x)
    BY <2>2, <2>3, <2>4, <2>5
  <2>7. Sound(Drop(pipe, D)[x], w, r, handed[x], Released, Plain)
    BY <2>4, <2>6, DropSound
  <2>8. Drop(pipe, D) \in [Pipes -> PipeState]
    BY <2>4, DropType
  <2>9. Outs(fds', x) + Outs(saved', x) = v /\ Ins(fds', x) + Ins(saved', x) = q
    BY <2>1, <2>3, <2>4, <2>5
  <2> HIDE DEF w, r
  <2>10. v \in Nat /\ q \in Nat /\ w + Writers(H, x) <= v /\ r + Readers(H, x) <= q
         /\ v = w + Writers(H, x) /\ q = r + Readers(H, x)
    BY <2>5, <2>6
  <2> HIDE DEF v, q
  <2>11. Sound(Hold(Drop(pipe, D), H)[x], v, q, handed[x], Released, Plain)
    <3> DEFINE st == Drop(pipe, D)
    <3>1. st \in [Pipes -> PipeState] /\ Sound(st[x], w, r, handed[x], Released, Plain)
      BY <2>7, <2>8
    <3> HIDE DEF st
    <3>2. /\ st[x].refs \in Nat /\ st[x].rrefs \in Nat
          /\ Hold(st, H)[x].refs = st[x].refs + Writers(H, x)
          /\ Hold(st, H)[x].rrefs = st[x].rrefs + Readers(H, x)
          /\ Hold(st, H)[x].shut = st[x].shut
      BY <3>1, HoldIs
    <3>3. Sound(Hold(st, H)[x], v, q, handed[x], Released, Plain)
      BY <2>5, <2>6, <2>10, <3>1, <3>2 DEF Sound
    <3> QED
      BY <3>3 DEF st
  <2>12. Sound(Hold(Drop(pipe, D), H)[x], v, q, handed[x], Released', Plain')
    BY <2>10, <1>6, <2>11, SoundLater
  <2>13. NextSound(x)
    BY <1>3, <2>9, <2>12 DEF NextSound
  <2> QED
    BY <2>13
<1> QED
  BY <1>4, <1>5, <1>6, <1>7

(* /dev/tty: more descriptors with no more holds.                          *)
LEMMA OpenTtySound ==
  ASSUME TypeOK, HoldInv, NEW p \in Procs, OpenTty(p)
  PROVE  /\ \A x \in Pipes : NextSound(x)
         /\ \E U \in Table : /\ Swap(fds, fds', p, U) /\ Whole(U)
                             /\ U[1] = fds[p][1] /\ U[2] = fds[p][2]
<1> DEFINE n == Lowest(Free(p))
           d == [open |-> TRUE, in |-> fds[p][0].in, out |-> fds[p][1].out, clo |-> FALSE]
           U == [fds[p] EXCEPT ![n] = d]
<1>1. n \in Free(p)
  <2>1. Free(p) \in SUBSET FdNums /\ Free(p) # {}
    BY DEF Free, OpenTty
  <2> QED
    BY <2>1, LowestIsOne
<1>2. fds[p] \in Table /\ Whole(fds[p])
  BY DEF TypeOK, HoldInv, TablesKept, Wholes
<1>3. d \in Descriptor /\ d.open
  BY <1>2, StdNums, StreamTypes DEF Descriptor
<1>4. /\ fds' = [fds EXCEPT ![p][n] = d] /\ UNCHANGED <<saved, pipe, handed>>
      /\ Shows("tty", TRUE)
  BY DEF OpenTty
<1> HIDE DEF n, d
<1>5. n \in FdNums /\ n \notin {1, 2} /\ ~fds[p][n].open
  BY <1>1, StdNums DEF Free
<1>6. fds[p][n] = Closed
  BY <1>2, <1>5 DEF Whole
<1>7. U \in Table /\ Whole(U) /\ U[1] = fds[p][1] /\ U[2] = fds[p][2]
  BY <1>2, <1>3, <1>5, StdNums DEF Table, Whole
<1>8. Swap(fds, fds', p, U) /\ UNCHANGED saved
  BY <1>4, <1>7 DEF Swap, TypeOK
<1>9. ASSUME NEW x \in Pipes
      PROVE  NextSound(x)
  <2>1. Writers(fds[p], x) <= Writers(U, x) /\ Readers(fds[p], x) <= Readers(U, x)
    <3>1. /\ Writers(U, x) = Writers(fds[p], x) - One(fds[p][n].out = x) + One(d.out = x)
          /\ Readers(U, x) = Readers(fds[p], x) - One(fds[p][n].in = x) + One(d.in = x)
      BY <1>2, <1>3, <1>5, EntryUse
    <3>2. Closed.in # x /\ Closed.out # x
      BY DescriptorAssumption DEF Closed
    <3> QED
      BY <1>6, <3>1, <3>2, UseTypes DEF One
  <2> HIDE DEF U
  <2>2. /\ Outs(fds', x) + Outs(saved', x) = LiveWriters(x) - Writers(fds[p], x) + Writers(U, x)
        /\ Ins(fds', x) + Ins(saved', x) = LiveReaders(x) - Readers(fds[p], x) + Readers(U, x)
    BY <1>7, <1>8, OneLive
  <2>3. /\ LiveWriters(x) \in Nat /\ LiveReaders(x) \in Nat
        /\ pipe \in [Pipes -> PipeState]
        /\ Sound(pipe[x], LiveWriters(x), LiveReaders(x), handed[x], Released, Plain)
    BY NowCounted DEF HoldInv
  <2>4. /\ Writers(fds[p], x) \in Nat /\ Readers(fds[p], x) \in Nat
        /\ Writers(U, x) \in Nat /\ Readers(U, x) \in Nat
    BY UseTypes
  <2>5. /\ Outs(fds', x) + Outs(saved', x) >= LiveWriters(x)
        /\ Ins(fds', x) + Ins(saved', x) >= LiveReaders(x)
        /\ Outs(fds', x) + Outs(saved', x) \in Nat /\ Ins(fds', x) + Ins(saved', x) \in Nat
    BY <2>1, <2>2, <2>3, <2>4
  <2>6. (Released' => Released) /\ ~Plain'
    BY <1>4, ShowsKept, ShownKept
  <2>7. pipe[x].refs \in Nat /\ pipe[x].rrefs \in Nat /\ pipe' = pipe /\ handed' = handed
    BY <1>4, <2>3 DEF PipeState
  <2>8. NextSound(x)
    BY <2>3, <2>5, <2>6, <2>7 DEF NextSound, Sound
  <2> QED
    BY <2>8
<1> QED
  BY <1>7, <1>8, <1>9

(* vfork: the copy is held.                                                *)
LEMMA CloneSound ==
  ASSUME TypeOK, HoldInv, NEW p \in Procs, Clone(p), NEW x \in Pipes
  PROVE  NextSound(x)
<1>1. fds[p] \in Table /\ saved \in [Procs -> Table] /\ saved[p] = NoTable
  BY DEF TypeOK, HoldInv, TablesKept, Aside, Clone
<1>2. /\ Swap(saved, saved', p, fds[p]) /\ UNCHANGED <<fds, handed, did>>
      /\ pipe' = Hold(pipe, fds[p])
  BY <1>1 DEF Clone, Copied, Swap
<1>3. /\ Outs(saved', x) = Outs(saved, x) - Writers(saved[p], x) + Writers(fds[p], x)
      /\ Ins(saved', x) = Ins(saved, x) - Readers(saved[p], x) + Readers(fds[p], x)
  BY <1>2, TableChange
<1>4. Writers(saved[p], x) = 0 /\ Readers(saved[p], x) = 0
  BY <1>1, EmptyUse
<1>5. /\ Outs(fds, x) \in Nat /\ Outs(saved, x) \in Nat
      /\ Ins(fds, x) \in Nat /\ Ins(saved, x) \in Nat
      /\ pipe \in [Pipes -> PipeState]
      /\ Sound(pipe[x], LiveWriters(x), LiveReaders(x), handed[x], Released, Plain)
  BY NowCounted DEF HoldInv
<1>6. /\ pipe[x].refs \in Nat /\ pipe[x].rrefs \in Nat
      /\ Writers(fds[p], x) \in Nat /\ Readers(fds[p], x) \in Nat
      /\ Hold(pipe, fds[p])[x].refs = pipe[x].refs + Writers(fds[p], x)
      /\ Hold(pipe, fds[p])[x].rrefs = pipe[x].rrefs + Readers(fds[p], x)
      /\ Hold(pipe, fds[p])[x].shut = pipe[x].shut
  BY <1>5, HoldIs
<1>7. LiveWriters(x) = Outs(fds, x) + Outs(saved, x) /\ LiveReaders(x) = Ins(fds, x) + Ins(saved, x)
  BY DEF LiveWriters, LiveReaders
<1>8. /\ Outs(fds', x) + Outs(saved', x) = LiveWriters(x) + Writers(fds[p], x)
      /\ Ins(fds', x) + Ins(saved', x) = LiveReaders(x) + Readers(fds[p], x)
      /\ LiveWriters(x) \in Nat /\ LiveReaders(x) \in Nat
  <2>1. fds' = fds
    BY <1>2
  <2> QED
    BY <1>3, <1>4, <1>5, <1>6, <1>7, <2>1
<1>9. Released' = Released /\ Plain' = Plain /\ handed' = handed
  BY <1>2 DEF Released, Plain
<1>10. pipe'[x] = Hold(pipe, fds[p])[x]
  BY <1>2
<1> QED
  BY <1>5, <1>6, <1>8, <1>9, <1>10 DEF NextSound, Sound

(* The child of a vfork starts process c with table T, of which H is held, *)
(* and its own table is dropped.                                           *)
LEMMA ChildSound ==
  ASSUME TypeOK, HoldInv, NEW p \in Procs, NEW c \in Procs, p # c, fds[c] = NoTable,
         NEW T \in Table, NEW H, NEW x \in Pipes, Restored(p, c, T),
         pipe' = Drop(Hold(pipe, H), fds[p]), UNCHANGED <<handed, did>>,
         Writers(H, x) <= Writers(T, x), Readers(H, x) <= Readers(T, x),
         Plain => Writers(H, x) = Writers(T, x) /\ Readers(H, x) = Readers(T, x)
  PROVE  NextSound(x)
<1> DEFINE w == LiveWriters(x) + Writers(T, x)
           r == LiveReaders(x) + Readers(T, x)
           D == fds[p]
           st == Hold(pipe, H)
<1>1. /\ Writers(D, x) <= LiveWriters(x) /\ Readers(D, x) <= LiveReaders(x)
      /\ Outs(fds', x) + Outs(saved', x) = LiveWriters(x) - Writers(D, x) + Writers(T, x)
      /\ Ins(fds', x) + Ins(saved', x) = LiveReaders(x) - Readers(D, x) + Readers(T, x)
  BY RestoredLive
<1>2. /\ LiveWriters(x) \in Nat /\ LiveReaders(x) \in Nat
      /\ pipe \in [Pipes -> PipeState] /\ handed[x] \in BOOLEAN
      /\ Released \in BOOLEAN /\ Plain \in BOOLEAN
      /\ Sound(pipe[x], LiveWriters(x), LiveReaders(x), handed[x], Released, Plain)
  BY NowCounted DEF HoldInv
<1>3. /\ pipe[x].refs \in Nat /\ pipe[x].rrefs \in Nat
      /\ Writers(H, x) \in Nat /\ Readers(H, x) \in Nat
      /\ st[x].refs = pipe[x].refs + Writers(H, x)
      /\ st[x].rrefs = pipe[x].rrefs + Readers(H, x)
      /\ st[x].shut = pipe[x].shut
  BY <1>2, HoldIs
<1>4. /\ Writers(T, x) \in Nat /\ Readers(T, x) \in Nat
      /\ Writers(D, x) \in Nat /\ Readers(D, x) \in Nat
  BY UseTypes
<1>5. st \in [Pipes -> PipeState]
  BY <1>2, HoldType
<1>6. pipe' = Drop(st, D)
  OBVIOUS
<1> HIDE DEF st, D
<1>7. Sound(st[x], w, r, handed[x], Released, Plain)
  BY <1>2, <1>3, <1>4 DEF Sound
<1>8. /\ w \in Nat /\ r \in Nat /\ Writers(D, x) <= w /\ Readers(D, x) <= r
      /\ Outs(fds', x) + Outs(saved', x) = w - Writers(D, x)
      /\ Ins(fds', x) + Ins(saved', x) = r - Readers(D, x)
  BY <1>1, <1>2, <1>4
<1> HIDE DEF w, r
<1>9. Sound(Drop(st, D)[x], w - Writers(D, x), r - Readers(D, x), handed[x], Released, Plain)
  BY <1>2, <1>5, <1>7, <1>8, DropSound
<1>10. Released' = Released /\ Plain' = Plain /\ handed' = handed
  BY DEF Released, Plain
<1> QED
  BY <1>6, <1>8, <1>9, <1>10 DEF NextSound

(* Process c is started with table T, of which H is held.                  *)
LEMMA StartSound ==
  ASSUME TypeOK, HoldInv, NEW c \in Procs, fds[c] = NoTable,
         NEW T \in Table, NEW H, NEW x \in Pipes, Swap(fds, fds', c, T),
         pipe' = Hold(pipe, H), UNCHANGED <<saved, handed, did>>,
         Writers(H, x) <= Writers(T, x), Readers(H, x) <= Readers(T, x),
         Plain => Writers(H, x) = Writers(T, x) /\ Readers(H, x) = Readers(T, x)
  PROVE  NextSound(x)
<1>1. /\ Outs(fds', x) + Outs(saved', x) = LiveWriters(x) - Writers(fds[c], x) + Writers(T, x)
      /\ Ins(fds', x) + Ins(saved', x) = LiveReaders(x) - Readers(fds[c], x) + Readers(T, x)
  BY OneLive
<1>2. Writers(fds[c], x) = 0 /\ Readers(fds[c], x) = 0
  BY EmptyUse
<1>3. /\ LiveWriters(x) \in Nat /\ LiveReaders(x) \in Nat
      /\ pipe \in [Pipes -> PipeState]
      /\ Sound(pipe[x], LiveWriters(x), LiveReaders(x), handed[x], Released, Plain)
  BY NowCounted DEF HoldInv
<1>4. /\ pipe[x].refs \in Nat /\ pipe[x].rrefs \in Nat
      /\ Writers(H, x) \in Nat /\ Readers(H, x) \in Nat
      /\ Hold(pipe, H)[x].refs = pipe[x].refs + Writers(H, x)
      /\ Hold(pipe, H)[x].rrefs = pipe[x].rrefs + Readers(H, x)
      /\ Hold(pipe, H)[x].shut = pipe[x].shut
  BY <1>3, HoldIs
<1>5. Writers(T, x) \in Nat /\ Readers(T, x) \in Nat
  BY UseTypes
<1>6. Released' = Released /\ Plain' = Plain /\ handed' = handed
  BY DEF Released, Plain
<1>7. pipe'[x] = Hold(pipe, H)[x]
  OBVIOUS
<1>8. /\ Outs(fds', x) + Outs(saved', x) = LiveWriters(x) + Writers(T, x)
      /\ Ins(fds', x) + Ins(saved', x) = LiveReaders(x) + Readers(T, x)
  BY <1>1, <1>2, <1>3, <1>5
<1> QED
  BY <1>3, <1>4, <1>5, <1>6, <1>7, <1>8 DEF NextSound, Sound

(* Two processes are started, with the ends of the new pipe y.             *)
LEMMA PipelineSound ==
  ASSUME TypeOK, HoldInv, NEW c \in Procs, NEW d \in Procs, c # d,
         fds[c] = NoTable, fds[d] = NoTable,
         NEW T \in Table, NEW U \in Table, NEW H, NEW K, NEW x \in Pipes, NEW y \in Pipes,
         fds' = [fds EXCEPT ![c] = T, ![d] = U],
         pipe' = Hold(Hold(pipe, H), K), UNCHANGED <<saved, did>>,
         handed' = [handed EXCEPT ![y] = TRUE],
         Writers(T, y) >= 1, Readers(U, y) >= 1,
         Writers(H, x) <= Writers(T, x), Readers(H, x) <= Readers(T, x),
         Writers(K, x) <= Writers(U, x), Readers(K, x) <= Readers(U, x),
         Plain => /\ Writers(H, x) = Writers(T, x) /\ Readers(H, x) = Readers(T, x)
                  /\ Writers(K, x) = Writers(U, x) /\ Readers(K, x) = Readers(U, x)
  PROVE  NextSound(x)
<1> DEFINE st == Hold(pipe, H)
<1>1. /\ Outs(fds', x) + Outs(saved', x) = LiveWriters(x) + Writers(T, x) + Writers(U, x)
      /\ Ins(fds', x) + Ins(saved', x) = LiveReaders(x) + Readers(T, x) + Readers(U, x)
  BY TwoLive
<1>2. /\ LiveWriters(x) \in Nat /\ LiveReaders(x) \in Nat
      /\ pipe \in [Pipes -> PipeState]
      /\ Sound(pipe[x], LiveWriters(x), LiveReaders(x), handed[x], Released, Plain)
  BY NowCounted DEF HoldInv
<1>3. /\ pipe[x].refs \in Nat /\ pipe[x].rrefs \in Nat
      /\ Writers(H, x) \in Nat /\ Readers(H, x) \in Nat
      /\ st[x].refs = pipe[x].refs + Writers(H, x)
      /\ st[x].rrefs = pipe[x].rrefs + Readers(H, x)
      /\ st[x].shut = pipe[x].shut
  BY <1>2, HoldIs
<1>4. st \in [Pipes -> PipeState] /\ pipe' = Hold(st, K)
  BY <1>2, HoldType
<1> HIDE DEF st
<1>5. /\ Writers(K, x) \in Nat /\ Readers(K, x) \in Nat
      /\ pipe'[x].refs = st[x].refs + Writers(K, x)
      /\ pipe'[x].rrefs = st[x].rrefs + Readers(K, x)
      /\ pipe'[x].shut = st[x].shut
  BY <1>4, HoldIs
<1>6. /\ Writers(T, x) \in Nat /\ Readers(T, x) \in Nat
      /\ Writers(U, x) \in Nat /\ Readers(U, x) \in Nat
  BY UseTypes
<1>7. Released' = Released /\ Plain' = Plain
  BY DEF Released, Plain
<1>8. handed'[x] = handed[x] \/ (Writers(T, x) >= 1 /\ Readers(U, x) >= 1)
  BY DEF TypeOK
<1> DEFINE v == LiveWriters(x) + Writers(T, x) + Writers(U, x)
           q == LiveReaders(x) + Readers(T, x) + Readers(U, x)
<1>9. Released => pipe'[x].refs <= v /\ pipe'[x].rrefs <= q
  BY <1>2, <1>3, <1>5, <1>6 DEF Sound
<1>10. Plain => pipe'[x].refs = v /\ pipe'[x].rrefs = q
  BY <1>2, <1>3, <1>5, <1>6 DEF Sound
<1>11. ASSUME Released, handed'[x], v = 0 \/ q = 0
       PROVE  pipe'[x].shut
  <2>1. LiveWriters(x) = 0 \/ LiveReaders(x) = 0
    BY <1>2, <1>6, <1>11
  <2>2. ~(Writers(T, x) >= 1 /\ Readers(U, x) >= 1)
    BY <1>2, <1>6, <1>11
  <2>3. handed[x]
    BY <1>8, <1>11, <2>2
  <2>4. pipe[x].shut
    BY <1>2, <1>11, <2>1, <2>3 DEF Sound
  <2> QED
    BY <1>3, <1>5, <2>4
<1> QED
  BY <1>1, <1>7, <1>9, <1>10, <1>11 DEF NextSound, Sound

(* A set-ID script that is refused: more holds, and a habit shown.         *)
LEMMA ScriptSound ==
  ASSUME TypeOK, HoldInv, NEW p \in Procs, ScriptRefused(p), NEW x \in Pipes
  PROVE  NextSound(x)
<1>1. Shows("setid", TRUE)
  BY DEF ScriptRefused
<1>2. ~Released' /\ ~Plain'
  BY <1>1, ShowsKept
<1> QED
  BY <1>2 DEF NextSound, Sound

(* The image is replaced: what is close-on-exec is dropped.                *)
LEMMA ReplaceSound ==
  ASSUME TypeOK, HoldInv, NEW p \in Procs, NEW k \in Kinds, ExecReplace(p, k)
  PROVE  /\ \A x \in Pipes : NextSound(x)
         /\ \E U \in Table : Swap(fds, fds', p, U) /\ Whole(U) /\ (Plain => ~Joined(U))
<1> DEFINE N == {n \in FdNums : ~fds[p][n].clo}
           M == {n \in FdNums : fds[p][n].clo}
           U == Only(fds[p], N)
           D == Only(fds[p], M)
<1>1. fds[p] \in Table /\ Whole(fds[p]) /\ (Plain => ~Joined(fds[p]))
  BY DEF TypeOK, HoldInv, TablesKept, Wholes, Apart
<1>2. N \in SUBSET FdNums /\ M \in SUBSET FdNums /\ N \cap M = {} /\ N \cup M = FdNums
  OBVIOUS
<1>3. /\ fds' = [fds EXCEPT ![p] = U] /\ UNCHANGED <<saved, handed, did>>
      /\ pipe' = Drop(pipe, D)
  BY DEF ExecReplace, Keeps, Settle
<1> HIDE DEF N, M
<1>4. U \in Table /\ Whole(U) /\ (Plain => ~Joined(U))
  BY <1>1, <1>2, OnlyFacts
<1>5. Swap(fds, fds', p, U)
  <2> HIDE DEF U
  <2> QED
    BY <1>3, <1>4 DEF Swap, TypeOK
<1>6. ASSUME NEW x \in Pipes
      PROVE  NextSound(x)
  <2>1. /\ Writers(fds[p], x) = Writers(U, x) + Writers(D, x)
        /\ Readers(fds[p], x) = Readers(U, x) + Readers(D, x)
    BY <1>1, <1>2, PartUse
  <2> HIDE DEF U, D
  <2>2. /\ Writers(fds[p], x) <= LiveWriters(x) /\ Readers(fds[p], x) <= LiveReaders(x)
        /\ Outs(fds', x) + Outs(saved', x) = LiveWriters(x) - Writers(fds[p], x) + Writers(U, x)
        /\ Ins(fds', x) + Ins(saved', x) = LiveReaders(x) - Readers(fds[p], x) + Readers(U, x)
    BY <1>3, <1>4, <1>5, OneLive
  <2>3. /\ LiveWriters(x) \in Nat /\ LiveReaders(x) \in Nat
        /\ pipe \in [Pipes -> PipeState] /\ handed[x] \in BOOLEAN
        /\ Released \in BOOLEAN /\ Plain \in BOOLEAN
        /\ Sound(pipe[x], LiveWriters(x), LiveReaders(x), handed[x], Released, Plain)
    BY NowCounted DEF HoldInv
  <2>4. /\ Writers(U, x) \in Nat /\ Readers(U, x) \in Nat
        /\ Writers(D, x) \in Nat /\ Readers(D, x) \in Nat
    BY UseTypes
  <2>5. /\ Writers(D, x) <= LiveWriters(x) /\ Readers(D, x) <= LiveReaders(x)
        /\ Outs(fds', x) + Outs(saved', x) = LiveWriters(x) - Writers(D, x)
        /\ Ins(fds', x) + Ins(saved', x) = LiveReaders(x) - Readers(D, x)
    BY <2>1, <2>2, <2>3, <2>4
  <2>6. Sound(Drop(pipe, D)[x], LiveWriters(x) - Writers(D, x), LiveReaders(x) - Readers(D, x),
              handed[x], Released, Plain)
    BY <2>3, <2>5, DropSound
  <2>7. Released' = Released /\ Plain' = Plain /\ handed' = handed
    BY <1>3 DEF Released, Plain
  <2>8. NextSound(x)
    BY <1>3, <2>5, <2>6, <2>7 DEF NextSound
  <2> QED
    BY <2>8
<1> QED
  BY <1>4, <1>5, <1>6

(* The end of a process drops its descriptors, or shows that it leaks.     *)
LEMMA EndSound ==
  ASSUME TypeOK, HoldInv, NEW p \in Procs, End(p), NEW x \in Pipes
  PROVE  NextSound(x)
<1> DEFINE D == AtEnd(p)
<1>1. /\ Shows("leak", ~Tidy(p)) /\ pipe' = Drop(pipe, D) /\ handed' = handed
      /\ fds' = [fds EXCEPT ![p] = NoTable] /\ saved' = [saved EXCEPT ![p] = NoTable]
  BY DEF End, Settle
<1> HIDE DEF D
<1>2. /\ LiveWriters(x) \in Nat /\ LiveReaders(x) \in Nat
      /\ Outs(fds, x) \in Nat /\ Outs(saved, x) \in Nat
      /\ Ins(fds, x) \in Nat /\ Ins(saved, x) \in Nat
      /\ pipe \in [Pipes -> PipeState] /\ handed[x] \in BOOLEAN
      /\ Released \in BOOLEAN /\ Plain \in BOOLEAN
      /\ Sound(pipe[x], LiveWriters(x), LiveReaders(x), handed[x], Released, Plain)
  BY NowCounted DEF HoldInv
<1>3. (Released' => Released) /\ (Plain' => Plain) /\ (~Tidy(p) => ~Released' /\ ~Plain')
  BY <1>1, ShowsKept, ShownKept
<1>4. CASE Tidy(p)
  <2>1. saved[p] = NoTable
    BY <1>4 DEF Tidy, HoldInv, TablesKept, Aside
  <2>2. Writers(D, x) = Writers(fds[p], x) /\ Readers(D, x) = Readers(fds[p], x)
    BY <1>4 DEF Tidy, D
  <2>3. Swap(fds, fds', p, NoTable) /\ Swap(saved, saved', p, NoTable)
    BY <1>1, TableTypes DEF Swap, TypeOK
  <2>4. /\ Writers(fds[p], x) <= Outs(fds, x) /\ Readers(fds[p], x) <= Ins(fds, x)
        /\ Outs(fds', x) = Outs(fds, x) - Writers(fds[p], x) + Writers(NoTable, x)
        /\ Ins(fds', x) = Ins(fds, x) - Readers(fds[p], x) + Readers(NoTable, x)
    BY <2>3, TableChange
  <2>5. /\ Outs(saved', x) = Outs(saved, x) - Writers(saved[p], x) + Writers(NoTable, x)
        /\ Ins(saved', x) = Ins(saved, x) - Readers(saved[p], x) + Readers(NoTable, x)
    BY <2>3, TableChange
  <2>6. Writers(NoTable, x) = 0 /\ Readers(NoTable, x) = 0
    BY EmptyUse
  <2>7. Writers(D, x) \in Nat /\ Readers(D, x) \in Nat
    BY UseTypes
  <2>8. /\ LiveWriters(x) = Outs(fds, x) + Outs(saved, x)
        /\ LiveReaders(x) = Ins(fds, x) + Ins(saved, x)
    BY DEF LiveWriters, LiveReaders
  <2> DEFINE v == LiveWriters(x) - Writers(D, x)
             q == LiveReaders(x) - Readers(D, x)
  <2>9. Outs(saved', x) = Outs(saved, x) /\ Ins(saved', x) = Ins(saved, x)
    BY <1>2, <2>1, <2>5, <2>6
  <2>10. /\ Outs(fds', x) = Outs(fds, x) - Writers(D, x)
         /\ Ins(fds', x) = Ins(fds, x) - Readers(D, x)
         /\ Writers(D, x) <= Outs(fds, x) /\ Readers(D, x) <= Ins(fds, x)
    BY <1>2, <2>2, <2>4, <2>6, <2>7
  <2>11. /\ Outs(fds', x) + Outs(saved', x) = v /\ Ins(fds', x) + Ins(saved', x) = q
         /\ Writers(D, x) <= LiveWriters(x) /\ Readers(D, x) <= LiveReaders(x)
         /\ v \in Nat /\ q \in Nat
    BY <1>2, <2>7, <2>8, <2>9, <2>10
  <2>12. Sound(Drop(pipe, D)[x], v, q, handed[x], Released, Plain)
    BY <1>2, <2>11, DropSound
  <2> HIDE DEF v, q
  <2>13. Sound(Drop(pipe, D)[x], v, q, handed[x], Released', Plain')
    BY <1>3, <2>11, <2>12, SoundLater
  <2> QED
    BY <1>1, <2>11, <2>13 DEF NextSound
<1>5. CASE ~Tidy(p)
  BY <1>3, <1>5 DEF NextSound, Sound
<1> QED
  BY <1>4, <1>5

-----------------------------------------------------------------------------
(* The tables.                                                             *)

(* Nobody goes back to before its start.                                   *)
Onward(S) == \A q \in Procs : life'[q] = "unused" => life[q] = "unused" /\ q \notin S

(* A step that settles the pipes wakes, and does not undo a start.         *)
LEMMA SettleOnward ==
  ASSUME NEW st, NEW l, Settle(st, l), NEW S,
         \A q \in Procs : l[q] = "unused" => life[q] = "unused" /\ q \notin S
  PROVE  Onward(S)
  BY DEF Settle, Onward

(* One table is replaced.                                                  *)
LEMMA OneKept ==
  ASSUME TablesKept, NEW p \in Procs, NEW U \in Table, Swap(fds, fds', p, U), Whole(U),
         Plain' => Plain /\ ~Joined(U), UNCHANGED <<saved, forked>>, Onward({p})
  PROVE  TablesKept'
<1>1. fds'[p] = U /\ \A q \in Procs \ {p} : fds'[q] = fds[q]
  BY DEF Swap
<1>2. saved' = saved /\ forked' = forked
  OBVIOUS
<1>3. Wholes'
  BY <1>1, <1>2 DEF TablesKept, Wholes
<1>4. Aside'
  BY <1>2 DEF TablesKept, Aside
<1>5. Empty'
  BY <1>1, <1>2 DEF TablesKept, Empty, Onward
<1>6. Apart'
  BY <1>1, <1>2 DEF TablesKept, Apart
<1> QED
  BY <1>3, <1>4, <1>5, <1>6 DEF TablesKept

(* No table is replaced.                                                   *)
LEMMA SameKept ==
  ASSUME TablesKept, Plain' => Plain, UNCHANGED <<fds, saved, forked>>, Onward({})
  PROVE  TablesKept'
<1>1. fds' = fds /\ saved' = saved /\ forked' = forked
  OBVIOUS
<1> QED
  BY <1>1 DEF TablesKept, Wholes, Aside, Empty, Apart, Onward

(* A vfork: the table is put aside.                                        *)
LEMMA CloneKept ==
  ASSUME TypeOK, TablesKept, NEW p \in Procs, life[p] = "run", Clone(p)
  PROVE  TablesKept'
<1>1. /\ saved' = [saved EXCEPT ![p] = fds[p]] /\ forked' = [forked EXCEPT ![p] = TRUE]
      /\ UNCHANGED <<fds, did, life>>
  BY DEF Clone
<1>2. /\ saved'[p] = fds[p] /\ forked'[p] /\ fds' = fds /\ life' = life
      /\ \A q \in Procs \ {p} : saved'[q] = saved[q] /\ forked'[q] = forked[q]
  BY <1>1 DEF TypeOK
<1>3. Wholes'
  BY <1>2 DEF TablesKept, Wholes
<1>4. Aside'
  BY <1>2 DEF TablesKept, Aside
<1>5. Empty'
  BY <1>2 DEF TablesKept, Empty
<1>6. Apart'
  <2>1. Plain' = Plain
    BY <1>1 DEF Plain
  <2> QED
    BY <1>2, <2>1 DEF TablesKept, Apart
<1> QED
  BY <1>3, <1>4, <1>5, <1>6 DEF TablesKept

(* The end of a vfork, with table T for process c.                         *)
LEMMA RestoredKept ==
  ASSUME TypeOK, TablesKept, NEW p \in Procs, NEW c \in Procs, p # c, NEW T \in Table,
         Restored(p, c, T), Whole(T), Plain => ~Joined(T), UNCHANGED did, ~forked[c],
         Onward({p, c})
  PROVE  TablesKept'
<1>1. /\ fds'[p] = saved[p] /\ fds'[c] = T /\ saved'[p] = NoTable /\ ~forked'[p]
      /\ \A q \in Procs \ {p, c} : fds'[q] = fds[q]
      /\ \A q \in Procs \ {p} : saved'[q] = saved[q] /\ forked'[q] = forked[q]
  BY DEF Restored, TypeOK
<1>2. Whole(NoTable) /\ ~Joined(NoTable)
  BY StdNums DEF Whole, Joined, NoTable, Closed
<1>3. Wholes'
  BY <1>1, <1>2 DEF TablesKept, Wholes
<1>4. Aside'
  BY <1>1 DEF TablesKept, Aside
<1>5. Empty'
  BY <1>1 DEF TablesKept, Empty, Onward
<1>6. Apart'
  <2>1. Plain' = Plain
    BY DEF Plain
  <2> QED
    BY <1>1, <1>2, <2>1 DEF TablesKept, Apart
<1> QED
  BY <1>3, <1>4, <1>5, <1>6 DEF TablesKept

(* A pipeline.                                                             *)
LEMMA PipelineKept ==
  ASSUME TypeOK, TablesKept, NEW c \in Procs, NEW d \in Procs, c # d,
         NEW T \in Table, NEW U \in Table, fds' = [fds EXCEPT ![c] = T, ![d] = U],
         Whole(T), Whole(U), Plain => ~Joined(T) /\ ~Joined(U),
         UNCHANGED <<did, saved, forked>>, Onward({c, d})
  PROVE  TablesKept'
<1>1. /\ fds'[c] = T /\ fds'[d] = U /\ saved' = saved /\ forked' = forked
      /\ \A q \in Procs \ {c, d} : fds'[q] = fds[q]
  BY DEF TypeOK
<1>2. Wholes'
  BY <1>1 DEF TablesKept, Wholes
<1>3. Aside'
  BY <1>1 DEF TablesKept, Aside
<1>4. Empty'
  BY <1>1 DEF TablesKept, Empty, Onward
<1>5. Apart'
  <2>1. Plain' = Plain
    BY DEF Plain
  <2> QED
    BY <1>1, <2>1 DEF TablesKept, Apart
<1> QED
  BY <1>2, <1>3, <1>4, <1>5 DEF TablesKept

(* The end of a process.                                                   *)
LEMMA EndKept ==
  ASSUME TypeOK, TablesKept, NEW p \in Procs, End(p)
  PROVE  TablesKept'
<1>1. /\ fds' = [fds EXCEPT ![p] = NoTable] /\ saved' = [saved EXCEPT ![p] = NoTable]
      /\ forked' = [forked EXCEPT ![p] = FALSE] /\ Shows("leak", ~Tidy(p))
      /\ Settle(Drop(pipe, AtEnd(p)), [life EXCEPT ![p] = "done"])
  BY DEF End
<1>2. /\ fds'[p] = NoTable /\ saved'[p] = NoTable /\ ~forked'[p]
      /\ \A q \in Procs \ {p} : fds'[q] = fds[q] /\ saved'[q] = saved[q] /\ forked'[q] = forked[q]
  BY <1>1 DEF TypeOK
<1>3. Onward({})
  <2>1. \A q \in Procs : [life EXCEPT ![p] = "done"][q] = "unused" => life[q] = "unused"
    BY DEF TypeOK
  <2> QED
    BY <1>1, <2>1, SettleOnward
<1>4. Whole(NoTable) /\ ~Joined(NoTable)
  BY StdNums DEF Whole, Joined, NoTable, Closed
<1>5. Wholes'
  BY <1>2, <1>4 DEF TablesKept, Wholes
<1>6. Aside'
  BY <1>2 DEF TablesKept, Aside
<1>7. Empty'
  BY <1>2, <1>3 DEF TablesKept, Empty, Onward
<1>8. Apart'
  <2>1. Plain' => Plain
    BY <1>1, ShowsKept, ShownKept
  <2> QED
    BY <1>2, <1>4, <2>1 DEF TablesKept, Apart
<1> QED
  BY <1>5, <1>6, <1>7, <1>8 DEF TablesKept

-----------------------------------------------------------------------------
(* Every step keeps the invariant.                                         *)

(* A process that runs is not one still to be started.                     *)
LEMMA RunOnward ==
  ASSUME NEW p \in Procs, life[p] = "run", UNCHANGED life
  PROVE  Onward({p})
  BY DEF Onward

(* The same for a step that wakes the readers of what it shuts.            *)
LEMMA RunSettled ==
  ASSUME NEW p \in Procs, life[p] = "run", NEW st, Settle(st, life)
  PROVE  Onward({p})
<1>1. \A q \in Procs : life[q] = "unused" => life[q] = "unused" /\ q \notin {p}
  OBVIOUS
<1> QED
  BY <1>1, SettleOnward

(* A new table whose output and error are what they were.                  *)
LEMMA AlikeKept ==
  ASSUME TablesKept, NEW p \in Procs, life[p] = "run", UNCHANGED <<life, saved, forked>>,
         Plain' => Plain,
         \E U \in Table : /\ Swap(fds, fds', p, U) /\ Whole(U)
                          /\ U[1] = fds[p][1] /\ U[2] = fds[p][2]
  PROVE  TablesKept'
<1>1. PICK U \in Table : /\ Swap(fds, fds', p, U) /\ Whole(U)
                         /\ U[1] = fds[p][1] /\ U[2] = fds[p][2]
  OBVIOUS
<1>2. Onward({p})
  BY RunOnward
<1>3. Plain' => Plain /\ ~Joined(U)
  BY <1>1 DEF TablesKept, Apart, Joined
<1> QED
  BY <1>1, <1>2, <1>3, OneKept

(* A step of a program on its descriptors.                                 *)
LEMMA DescriptorsHold ==
  ASSUME TypeOK, HoldInv, NEW p \in Procs, life[p] = "run", Descriptors(p)
  PROVE  HoldInv'
<1>1. TablesKept /\ Counted
  BY DEF HoldInv
<1>2. ASSUME NEW y \in Pipes, NEW clo \in BOOLEAN, MakePipe(p, y, clo)
      PROVE  HoldInv'
  <2>1. \A x \in Pipes : NextSound(x)
    BY <1>2, MakePipeSound
  <2>2. \E U \in Table : /\ Swap(fds, fds', p, U) /\ Whole(U)
                         /\ U[1] = fds[p][1] /\ U[2] = fds[p][2]
    BY <1>2, MakePipeSound
  <2>3. UNCHANGED <<life, saved, forked>> /\ (Plain' => Plain)
    BY <1>2 DEF MakePipe, Plain
  <2> QED
    BY <1>1, <2>1, <2>2, <2>3, NextCounted, AlikeKept DEF HoldInv
<1>3. ASSUME NEW y \in Pipes, MakeHalfPipe(p, y)
      PROVE  HoldInv'
  <2>1. \A x \in Pipes : NextSound(x)
    BY <1>3, MakeHalfPipeSound
  <2>2. \E U \in Table : /\ Swap(fds, fds', p, U) /\ Whole(U)
                         /\ U[1] = fds[p][1] /\ U[2] = fds[p][2]
    BY <1>3, MakeHalfPipeSound
  <2>3. UNCHANGED <<life, saved, forked>> /\ (Plain' => Plain)
    BY <1>3 DEF MakeHalfPipe, Plain
  <2> QED
    BY <1>1, <2>1, <2>2, <2>3, NextCounted, AlikeKept DEF HoldInv
<1>4. ASSUME NEW n \in FdNums, Close(p, n)
      PROVE  HoldInv'
  <2>1. \A x \in Pipes : NextSound(x)
    BY <1>4, CloseSound
  <2>2. PICK U \in Table : Swap(fds, fds', p, U) /\ Whole(U) /\ (Plain => ~Joined(U))
    BY <1>4, CloseSound
  <2>3. /\ UNCHANGED <<saved, forked>> /\ Plain' = Plain
        /\ Settle(Drop(pipe, Only(fds[p], {n})), life)
    BY <1>4 DEF Close, Plain
  <2>4. Onward({p})
    BY <2>3, RunSettled
  <2>5. Plain' => Plain /\ ~Joined(U)
    BY <2>2, <2>3
  <2>6. TablesKept'
    BY <1>1, <2>2, <2>3, <2>4, <2>5, OneKept
  <2> QED
    BY <2>1, <2>6, NextCounted DEF HoldInv
<1>5. ASSUME NEW n \in FdNums, Write(p, n) \/ ReadQueued(p, n) \/ ReadBlocks(p, n)
      PROVE  HoldInv'
  <2>1. UNCHANGED <<fds, saved, forked, pipe, handed, did>>
    BY <1>5 DEF Write, ReadQueued, ReadBlocks
  <2>2. Onward({})
    BY <1>5 DEF Write, ReadQueued, ReadBlocks, Onward, TypeOK
  <2>3. \A x \in Pipes : NextSound(x)
    BY <1>1, <2>1, SameSound
  <2>4. Plain' => Plain
    BY <2>1 DEF Plain
  <2>5. TablesKept'
    BY <1>1, <2>1, <2>2, <2>4, SameKept
  <2> QED
    BY <2>3, <2>5, NextCounted DEF HoldInv
<1>6. ASSUME NEW old \in Opened(p), NEW new \in FdNums, NEW clo \in BOOLEAN, Dup(p, old, new, clo)
      PROVE  HoldInv'
  <2>1. \A x \in Pipes : NextSound(x)
    BY <1>6, DupSound
  <2>2. PICK U \in Table : Swap(fds, fds', p, U) /\ Whole(U) /\ (Plain' => Plain /\ ~Joined(U))
    BY <1>6, DupSound
  <2>3. UNCHANGED <<saved, forked>> /\ \E st : Settle(st, life)
    BY <1>6 DEF Dup
  <2>4. Onward({p})
    BY <2>3, RunSettled
  <2>5. TablesKept'
    BY <1>1, <2>2, <2>3, <2>4, OneKept
  <2> QED
    BY <2>1, <2>5, NextCounted DEF HoldInv
<1>7. CASE OpenTty(p)
  <2>1. \A x \in Pipes : NextSound(x)
    BY <1>7, OpenTtySound
  <2>2. \E U \in Table : /\ Swap(fds, fds', p, U) /\ Whole(U)
                         /\ U[1] = fds[p][1] /\ U[2] = fds[p][2]
    BY <1>7, OpenTtySound
  <2>3. UNCHANGED <<life, saved, forked>> /\ Shows("tty", TRUE)
    BY <1>7 DEF OpenTty
  <2>4. Plain' => Plain
    BY <2>3, ShowsKept, ShownKept
  <2> QED
    BY <1>1, <2>1, <2>2, <2>3, <2>4, NextCounted, AlikeKept DEF HoldInv
<1> QED
  BY <1>2, <1>3, <1>4, <1>5, <1>6, <1>7 DEF Descriptors, Opened

(* A process still to be started has no descriptors and plays no child.    *)
LEMMA SpareIsEmpty ==
  ASSUME TablesKept, NEW c \in Spare
  PROVE  c \in Procs /\ life[c] = "unused" /\ fds[c] = NoTable /\ ~forked[c]
  BY DEF Spare, TablesKept, Empty

(* A step that gives processes of S, among them the new ones, a life.      *)
LEMMA StartOnward ==
  ASSUME TypeOK, NEW p \in Procs, life[p] = "run", NEW c \in Procs, NEW st,
         Settle(st, [life EXCEPT ![c] = "run"])
  PROVE  Onward({p, c})
<1>1. \A q \in Procs :
        [life EXCEPT ![c] = "run"][q] = "unused" => life[q] = "unused" /\ q \notin {p, c}
  BY DEF TypeOK
<1> QED
  BY <1>1, SettleOnward

(* The table of a command, and what is held for it.                        *)
LEMMA GivenTable ==
  ASSUME NEW i \in Stream, NEW o \in Stream, NEW e \in Stream, Plain => ~ (o = e /\ o # NoPipe)
  PROVE  LET T == Stdio(i, o, e)
             H == StdHolds(T) IN
           /\ T \in Table /\ Whole(T) /\ (Plain => ~Joined(T))
           /\ \A x \in Pipes :
                /\ Writers(H, x) <= Writers(T, x) /\ Readers(H, x) <= Readers(T, x)
                /\ Plain => Writers(H, x) = Writers(T, x) /\ Readers(H, x) = Readers(T, x)
<1> DEFINE T == Stdio(i, o, e)
           H == StdHolds(T)
<1>1. T \in Table /\ Whole(T) /\ (Plain => ~Joined(T))
  BY StdFacts
<1>2. ASSUME NEW x \in Pipes
      PROVE  /\ Writers(H, x) <= Writers(T, x) /\ Readers(H, x) <= Readers(T, x)
             /\ Plain => Writers(H, x) = Writers(T, x) /\ Readers(H, x) = Readers(T, x)
  <2>1. /\ Writers(H, x) <= Writers(T, x) /\ Readers(H, x) = Readers(T, x)
        /\ ~Joined(T) => Writers(H, x) = Writers(T, x)
    BY StdHoldsUse
  <2>2. Readers(T, x) \in Nat
    BY UseTypes
  <2> HIDE DEF T, H
  <2> QED
    BY <1>1, <2>1, <2>2
<1> QED
  BY <1>1, <1>2

(* A step of a program on its image.                                       *)
LEMMA ImagesHold ==
  ASSUME TypeOK, HoldInv, NEW p \in Procs, life[p] = "run", Images(p)
  PROVE  HoldInv'
<1>1. TablesKept /\ Counted
  BY DEF HoldInv
<1>2. fds[p] \in Table /\ Whole(fds[p]) /\ (Plain => ~Joined(fds[p]))
  BY <1>1 DEF TypeOK, TablesKept, Wholes, Apart
<1>3. CASE Clone(p)
  BY <1>1, <1>3, CloneSound, CloneKept, NextCounted DEF HoldInv
<1>4. ASSUME NEW k \in Kinds, ExecReplace(p, k)
      PROVE  HoldInv'
  <2>1. \A x \in Pipes : NextSound(x)
    BY <1>4, ReplaceSound
  <2>2. PICK U \in Table : Swap(fds, fds', p, U) /\ Whole(U) /\ (Plain => ~Joined(U))
    BY <1>4, ReplaceSound
  <2>3. UNCHANGED <<saved, forked>> /\ Plain' = Plain /\ \E st : Settle(st, life)
    BY <1>4 DEF ExecReplace, Plain
  <2>4. Onward({p})
    BY <2>3, RunSettled
  <2>5. Plain' => Plain /\ ~Joined(U)
    BY <2>2, <2>3
  <2>6. TablesKept'
    BY <1>1, <2>2, <2>3, <2>4, <2>5, OneKept
  <2> QED
    BY <2>1, <2>6, NextCounted DEF HoldInv
<1>5. ASSUME NEW c \in Spare, NEW k \in Kinds, ExecChild(p, c, k)
      PROVE  HoldInv'
  <2> DEFINE T == Keeps(fds[p])
  <2>1. c \in Procs /\ p # c /\ fds[c] = NoTable /\ ~forked[c]
    BY <1>1, SpareIsEmpty
  <2>2. /\ Restored(p, c, T) /\ UNCHANGED <<handed, did>>
        /\ pipe' = Drop(Hold(pipe, T), fds[p])
        /\ \E st : Settle(st, [life EXCEPT ![c] = "run"])
    BY <1>5 DEF ExecChild, ChildDropped, Settle
  <2>3. T \in Table /\ Whole(T) /\ (Plain => ~Joined(T))
    BY <1>2, OnlyFacts DEF Keeps
  <2> HIDE DEF T
  <2>4. ASSUME NEW x \in Pipes
        PROVE  NextSound(x)
    <3>1. Writers(T, x) \in Nat /\ Readers(T, x) \in Nat
      BY UseTypes
    <3> QED
      BY <2>1, <2>2, <2>3, <3>1, ChildSound
  <2>5. Onward({p, c})
    BY <2>1, <2>2, StartOnward
  <2>6. TablesKept'
    BY <1>1, <2>1, <2>2, <2>3, <2>5, RestoredKept
  <2> QED
    BY <2>4, <2>6, NextCounted DEF HoldInv
<1>6. ASSUME NEW c \in Spare, ExitChild(p, c)
      PROVE  HoldInv'
  <2> DEFINE i == fds[p][0].in
             o == fds[p][1].out
             e == fds[p][2].out
             T == Stdio(i, o, e)
             H == StdHolds(T)
  <2>1. c \in Procs /\ p # c /\ fds[c] = NoTable /\ ~forked[c]
    BY <1>1, SpareIsEmpty
  <2>2. /\ Restored(p, c, T) /\ UNCHANGED <<handed, did>>
        /\ pipe' = Drop(Hold(pipe, H), fds[p])
        /\ \E st : Settle(st, [life EXCEPT ![c] = "run"])
    BY <1>6 DEF ExitChild, ChildDropped, Settle
  <2>3. i \in Stream /\ o \in Stream /\ e \in Stream
    BY ShellStreams
  <2>4. Joined(fds[p]) <=> o = e /\ o # NoPipe
    BY DEF Joined
  <2> HIDE DEF i, o, e
  <2>5. /\ T \in Table /\ Whole(T) /\ (Plain => ~Joined(T))
        /\ \A x \in Pipes :
             /\ Writers(H, x) <= Writers(T, x) /\ Readers(H, x) <= Readers(T, x)
             /\ Plain => Writers(H, x) = Writers(T, x) /\ Readers(H, x) = Readers(T, x)
    BY <1>2, <2>3, <2>4, GivenTable
  <2> HIDE DEF T, H
  <2>6. \A x \in Pipes : NextSound(x)
    BY <2>1, <2>2, <2>5, ChildSound
  <2>7. Onward({p, c})
    BY <2>1, <2>2, StartOnward
  <2>8. TablesKept'
    BY <1>1, <2>1, <2>2, <2>5, <2>7, RestoredKept
  <2> QED
    BY <2>6, <2>8, NextCounted DEF HoldInv
<1> QED
  BY <1>3, <1>4, <1>5, <1>6 DEF Images

(* The command of a shell gets a table of its own.                         *)
LEMMA StartKept ==
  ASSUME TypeOK, HoldInv, NEW p \in Procs, life[p] = "run", NEW c \in Spare,
         NEW i \in Stream, NEW o \in Stream, NEW e \in Stream, Plain => ~ (o = e /\ o # NoPipe),
         fds' = [fds EXCEPT ![c] = Stdio(i, o, e)],
         Settle(Hold(pipe, StdHolds(Stdio(i, o, e))), [life EXCEPT ![c] = "run"]),
         UNCHANGED <<did, saved, forked, handed>>
  PROVE  HoldInv'
<1> DEFINE T == Stdio(i, o, e)
           H == StdHolds(T)
<1>1. TablesKept /\ c \in Procs /\ fds[c] = NoTable
  BY SpareIsEmpty DEF HoldInv
<1>2. /\ T \in Table /\ Whole(T) /\ (Plain => ~Joined(T))
      /\ \A x \in Pipes :
           /\ Writers(H, x) <= Writers(T, x) /\ Readers(H, x) <= Readers(T, x)
           /\ Plain => Writers(H, x) = Writers(T, x) /\ Readers(H, x) = Readers(T, x)
  BY GivenTable
<1>3. /\ fds' = [fds EXCEPT ![c] = T] /\ pipe' = Hold(pipe, H)
      /\ \E st : Settle(st, [life EXCEPT ![c] = "run"])
      /\ UNCHANGED <<did, saved, forked, handed>> /\ Plain' = Plain
  BY DEF Settle, Plain
<1> HIDE DEF T, H
<1>4. Swap(fds, fds', c, T)
  BY <1>1, <1>2, <1>3 DEF Swap, TypeOK
<1>5. \A x \in Pipes : NextSound(x)
  BY <1>1, <1>2, <1>3, <1>4, StartSound
<1>6. Onward({c})
  <2>1. Onward({p, c})
    BY <1>1, <1>3, StartOnward
  <2> QED
    BY <2>1 DEF Onward
<1>7. Plain' => Plain /\ ~Joined(T)
  BY <1>2, <1>3
<1>8. TablesKept'
  BY <1>1, <1>2, <1>3, <1>4, <1>6, <1>7, OneKept
<1> QED
  BY <1>5, <1>8, NextCounted DEF HoldInv

(* A step of a shell.                                                      *)
LEMMA CommandsHold ==
  ASSUME TypeOK, HoldInv, NEW p \in Procs, life[p] = "run", Commands(p)
  PROVE  HoldInv'
<1> DEFINE i == fds[p][0].in
           o == fds[p][1].out
           e == fds[p][2].out
<1>1. TablesKept /\ Counted
  BY DEF HoldInv
<1>2. i \in Stream /\ o \in Stream /\ e \in Stream
  BY ShellStreams
<1>3. Plain => ~ (o = e /\ o # NoPipe)
  BY <1>1 DEF TablesKept, Apart, Joined
<1>4. ASSUME NEW y \in Pipes, Fresh(y)
      PROVE  y \in Stream /\ (Plain => ~ (y = e /\ y # NoPipe))
  BY <1>1, <1>4, FreshUnused, StdNums DEF Stream
<1>5. ASSUME NEW c \in Spare, NEW k \in Kinds, StartCommand(p, c, k)
      PROVE  HoldInv'
  <2>1. /\ fds' = [fds EXCEPT ![c] = Stdio(i, o, e)]
        /\ Settle(Hold(pipe, StdHolds(Stdio(i, o, e))), [life EXCEPT ![c] = "run"])
        /\ UNCHANGED <<did, saved, forked, handed>>
    BY <1>5 DEF StartCommand
  <2> HIDE DEF i, o, e
  <2> QED
    BY <1>2, <1>3, <2>1, StartKept
<1>6. ASSUME NEW c \in Spare, NEW k \in Kinds, NEW y \in Pipes, PipelineFails(p, c, k, y)
      PROVE  HoldInv'
  <2>1. /\ fds' = [fds EXCEPT ![c] = Stdio(i, y, e)] /\ Fresh(y)
        /\ Settle(Hold(pipe, StdHolds(Stdio(i, y, e))), [life EXCEPT ![c] = "run"])
        /\ UNCHANGED <<did, saved, forked, handed>>
    BY <1>6 DEF PipelineFails
  <2> HIDE DEF i, o, e
  <2> QED
    BY <1>2, <1>4, <2>1, StartKept
<1>7. ASSUME NEW c \in Spare, NEW d \in Spare, NEW j \in Kinds, NEW k \in Kinds, NEW y \in Pipes,
             StartPipeline(p, c, d, j, k, y)
      PROVE  HoldInv'
  <2> DEFINE T == Stdio(i, y, e)
             U == Stdio(y, o, e)
             H == StdHolds(T)
             K == StdHolds(U)
             l == [life EXCEPT ![c] = "run", ![d] = "run"]
  <2>1. /\ c # d /\ Fresh(y)
        /\ fds' = [fds EXCEPT ![c] = T, ![d] = U]
        /\ Settle(Hold(Hold(pipe, H), K), l)
        /\ handed' = [handed EXCEPT ![y] = TRUE]
        /\ UNCHANGED <<did, saved, forked>>
    BY <1>7 DEF StartPipeline
  <2>2. /\ c \in Procs /\ fds[c] = NoTable
        /\ d \in Procs /\ fds[d] = NoTable
    BY <1>1, SpareIsEmpty
  <2>3. Onward({c, d})
    <3>1. \A q \in Procs : l[q] = "unused" => life[q] = "unused" /\ q \notin {c, d}
      BY <2>2 DEF TypeOK
    <3> QED
      BY <2>1, <3>1, SettleOnward
  <2> HIDE DEF i, o, e, l
  <2>4. y \in Stream /\ (Plain => ~ (y = e /\ y # NoPipe))
    BY <1>4, <2>1
  <2>5. /\ T \in Table /\ Whole(T) /\ (Plain => ~Joined(T))
        /\ \A x \in Pipes :
             /\ Writers(H, x) <= Writers(T, x) /\ Readers(H, x) <= Readers(T, x)
             /\ Plain => Writers(H, x) = Writers(T, x) /\ Readers(H, x) = Readers(T, x)
    BY <1>2, <2>4, GivenTable
  <2>6. /\ U \in Table /\ Whole(U) /\ (Plain => ~Joined(U))
        /\ \A x \in Pipes :
             /\ Writers(K, x) <= Writers(U, x) /\ Readers(K, x) <= Readers(U, x)
             /\ Plain => Writers(K, x) = Writers(U, x) /\ Readers(K, x) = Readers(U, x)
    BY <1>2, <1>3, <2>4, GivenTable
  <2>7. Writers(T, y) >= 1 /\ Readers(U, y) >= 1
    BY <1>2, <2>4, StdUse DEF One
  <2>8. pipe' = Hold(Hold(pipe, H), K)
    BY <2>1 DEF Settle
  <2> HIDE DEF T, U, H, K
  <2>9. \A x \in Pipes : NextSound(x)
    BY <2>1, <2>2, <2>5, <2>6, <2>7, <2>8, PipelineSound
  <2>10. TablesKept'
    BY <1>1, <2>1, <2>2, <2>3, <2>5, <2>6, PipelineKept
  <2> QED
    BY <2>9, <2>10, NextCounted DEF HoldInv
<1>8. CASE ScriptRefused(p)
  <2>1. UNCHANGED <<fds, saved, forked, life>> /\ Shows("setid", TRUE)
    BY <1>8 DEF ScriptRefused
  <2>2. Plain' => Plain
    BY <2>1, ShowsKept, ShownKept
  <2>3. Onward({})
    BY <2>1 DEF Onward
  <2> QED
    BY <1>1, <1>8, <2>1, <2>2, <2>3, ScriptSound, SameKept, NextCounted DEF HoldInv
<1> QED
  BY <1>5, <1>6, <1>7, <1>8 DEF Commands

(* Every step keeps the counts and the tables.                             *)
LEMMA HoldStep == TypeOK /\ HoldInv /\ [Next]_vars => HoldInv'
<1> SUFFICES ASSUME TypeOK, HoldInv, [Next]_vars PROVE HoldInv'
  OBVIOUS
<1>1. ASSUME NEW p \in Runs("rv64"), Descriptors(p) \/ Images(p)
      PROVE  HoldInv'
  BY <1>1, DescriptorsHold, ImagesHold DEF Runs
<1>2. ASSUME NEW p \in Runs("thsh"), Commands(p)
      PROVE  HoldInv'
  BY <1>2, CommandsHold DEF Runs
<1>3. ASSUME NEW p \in Procs, End(p)
      PROVE  HoldInv'
  BY <1>3, EndSound, EndKept, NextCounted DEF HoldInv
<1>4. CASE UNCHANGED vars
  <2>1. UNCHANGED <<fds, saved, forked, pipe, handed, did>> /\ UNCHANGED life
    BY <1>4 DEF vars
  <2>2. (Plain' => Plain) /\ Onward({})
    BY <2>1 DEF Plain, Onward
  <2> QED
    BY <2>1, <2>2, SameSound, SameKept, NextCounted DEF HoldInv
<1> QED
  BY <1>1, <1>2, <1>3, <1>4 DEF Next

(* At first there are no descriptors of pipes, and no holds.               *)
LEMMA HoldInit == Init => HoldInv
<1> SUFFICES ASSUME Init PROVE HoldInv
  OBVIOUS
<1> DEFINE T == Stdio(NoPipe, NoPipe, NoPipe)
<1>1. /\ \A n \in FdNums : NoTable[n] = Closed
      /\ Closed.out = NoPipe /\ Closed.in = NoPipe
  BY DEF NoTable, Closed
<1>2. Whole(T) /\ ~Joined(T)
  BY StdFacts DEF Stream
<1>3. Whole(NoTable) /\ ~Joined(NoTable)
  BY <1>1, StdNums DEF Whole, Joined
<1>4. \A n \in FdNums : T[n].out = NoPipe /\ T[n].in = NoPipe
  BY StdNums DEF Stdio, NoTable, Reader, Writer, Closed
<1> HIDE DEF T
<1>5. /\ fds = [p \in Procs |-> IF p = Root THEN T ELSE NoTable]
      /\ saved = [p \in Procs |-> NoTable]
      /\ forked = [p \in Procs |-> FALSE]
      /\ life = [p \in Procs |-> IF p = Root THEN "run" ELSE "unused"]
      /\ pipe = [x \in Pipes |-> Unmade]
      /\ handed = [x \in Pipes |-> FALSE]
  BY DEF Init, T
<1>6. TablesKept
  BY <1>2, <1>3, <1>5 DEF TablesKept, Wholes, Aside, Empty, Apart
<1>7. ASSUME NEW x \in Pipes
      PROVE  Sound(pipe[x], LiveWriters(x), LiveReaders(x), handed[x], Released, Plain)
  <2>1. x # NoPipe
    BY DescriptorAssumption
  <2>2. \A d \in Procs \X FdNums :
          /\ fds[d[1]][d[2]].out = NoPipe /\ fds[d[1]][d[2]].in = NoPipe
          /\ saved[d[1]][d[2]].out = NoPipe /\ saved[d[1]][d[2]].in = NoPipe
    BY <1>1, <1>4, <1>5
  <2>3. /\ {d \in Procs \X FdNums : fds[d[1]][d[2]].out = x} = {}
        /\ {d \in Procs \X FdNums : fds[d[1]][d[2]].in = x} = {}
        /\ {d \in Procs \X FdNums : saved[d[1]][d[2]].out = x} = {}
        /\ {d \in Procs \X FdNums : saved[d[1]][d[2]].in = x} = {}
    BY <2>1, <2>2
  <2>4. Outs(fds, x) = 0 /\ Ins(fds, x) = 0 /\ Outs(saved, x) = 0 /\ Ins(saved, x) = 0
    BY <2>3, FS_EmptySet DEF Outs, Ins
  <2>5. LiveWriters(x) = 0 /\ LiveReaders(x) = 0
    BY <2>4 DEF LiveWriters, LiveReaders
  <2>6. pipe[x].refs = 0 /\ pipe[x].rrefs = 0 /\ ~handed[x]
    BY <1>5 DEF Unmade
  <2> QED
    BY <2>5, <2>6 DEF Sound
<1> QED
  BY <1>6, <1>7 DEF HoldInv, Counted

-----------------------------------------------------------------------------
(* The inductive invariant: the tables of all processes stay well formed,  *)
(* and for every pipe the counts of Pipe.hold, holdR, close and releaseR   *)
(* stand to the descriptors as Sound says.                                 *)
THEOREM HoldsInvariant == Spec => []HoldInv
<1>1. TypeOK /\ HoldInv /\ [Next]_vars => HoldInv'
  BY HoldStep
<1>2. Spec => []TypeOK
  BY TypeCorrect
<1>3. Init => HoldInv
  BY HoldInit
<1> QED
  BY <1>1, <1>2, <1>3, PTL DEF Spec

(* As long as no program has shown a habit of AllHabits, the counts of a   *)
(* pipe are the numbers of its descriptors, through every start, pipeline, *)
(* vfork, replacement of an image, dup and end (Kern.start, run, cloneFd   *)
(* and Rv64.copyFds).                                                      *)
THEOREM HoldsAreExact == Spec => []HoldsExact
<1>1. HoldInv => HoldsExact
  BY DEF HoldInv, Counted, Sound, Plain, HoldsExact
<1> QED
  BY <1>1, HoldsInvariant, PTL

(* As long as no program has left descriptors open at its end and no       *)
(* set-ID script was refused, a pipe both ends of which were in use is     *)
(* shut once one side has no descriptor left (Pipe.close and releaseR).    *)
THEOREM PipesEnd == Spec => []PipeEnds
<1>1. HoldInv => PipeEnds
  BY DEF HoldInv, Counted, Sound, Released, PipeEnds
<1> QED
  BY <1>1, HoldsInvariant, PTL

=============================================================================
