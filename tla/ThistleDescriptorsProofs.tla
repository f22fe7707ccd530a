---------------------- MODULE ThistleDescriptorsProofs ----------------------
(***************************************************************************)
(* Proofs about pipes and descriptors for any number of processes, pipes,  *)
(* descriptors, operations and chunks: the types, the reads that wait, and *)
(* the order of the chunks.                                                *)
(***************************************************************************)
EXTENDS ThistleDescriptors, TLAPS, FiniteSetTheorems

-----------------------------------------------------------------------------
(* Tables and counts.                                                      *)

(* The three standard descriptors are in every table.                      *)
LEMMA StdNums == {0, 1, 2} \subseteq FdNums /\ FdNums \subseteq Nat /\ IsFiniteSet(FdNums)
<1>1. IsFiniteSet(FdNums)
  BY DescriptorAssumption, FS_Interval DEF FdNums
<1> QED
  BY <1>1, DescriptorAssumption DEF FdNums

(* Descriptors are of the type.                                            *)
LEMMA DescriptorTypes ==
  /\ Closed \in Descriptor
  /\ \A x \in Stream : Reader(x) \in Descriptor /\ Writer(x) \in Descriptor
  BY DEF Closed, Reader, Writer, Descriptor, Stream

(* So are the tables that the code builds.                                 *)
LEMMA TableTypes ==
  /\ NoTable \in Table
  /\ \A i, o, e \in Stream : Stdio(i, o, e) \in Table
  /\ \A T \in Table, N \in SUBSET FdNums : Only(T, N) \in Table
<1>1. NoTable \in Table
  BY DescriptorTypes DEF NoTable, Table
<1>2. ASSUME NEW i \in Stream, NEW o \in Stream, NEW e \in Stream
      PROVE  Stdio(i, o, e) \in Table
  BY <1>1, DescriptorTypes DEF Stdio, Table
<1>3. ASSUME NEW T \in Table, NEW N \in SUBSET FdNums
      PROVE  Only(T, N) \in Table
  BY DescriptorTypes DEF Only, Table
<1> QED
  BY <1>1, <1>2, <1>3

(* The streams of a table.                                                 *)
LEMMA StreamTypes ==
  ASSUME NEW T \in Table, NEW n \in FdNums
  PROVE  T[n] \in Descriptor /\ T[n].in \in Stream /\ T[n].out \in Stream
  BY DEF Table, Descriptor

(* The streams that a start holds and an end releases form a table.        *)
LEMMA StdHoldsType ==
  ASSUME NEW T \in Table
  PROVE  StdHolds(T) \in Table
<1>1. T[0].in \in Stream /\ T[1].out \in Stream /\ T[2].out \in Stream
  BY StdNums, StreamTypes
<1>2. (IF T[2].out = T[1].out THEN NoPipe ELSE T[2].out) \in Stream
  BY <1>1 DEF Stream
<1> QED
  BY <1>1, <1>2, TableTypes DEF StdHolds

(* A table has a number of descriptors for each end of a pipe.             *)
LEMMA UseTypes ==
  ASSUME NEW T, NEW x
  PROVE  Writers(T, x) \in Nat /\ Readers(T, x) \in Nat
<1>1. IsFiniteSet({n \in FdNums : T[n].out = x})
  BY StdNums, FS_Subset
<1>2. IsFiniteSet({n \in FdNums : T[n].in = x})
  BY StdNums, FS_Subset
<1> QED
  BY <1>1, <1>2, FS_CardinalityType DEF Writers, Readers

(* hold, holdR, close and releaseR leave pipes pipes.                      *)
LEMMA HoldType ==
  ASSUME NEW st \in [Pipes -> PipeState], NEW T
  PROVE  Hold(st, T) \in [Pipes -> PipeState]
<1>1. ASSUME NEW x \in Pipes
      PROVE  [st[x] EXCEPT !.refs = @ + Writers(T, x), !.rrefs = @ + Readers(T, x)] \in PipeState
  <2>1. Writers(T, x) \in Nat /\ Readers(T, x) \in Nat
    BY UseTypes
  <2>2. st[x].refs + Writers(T, x) \in Nat /\ st[x].rrefs + Readers(T, x) \in Nat
    BY <2>1 DEF PipeState
  <2> QED
    BY <2>2 DEF PipeState
<1> QED
  BY <1>1 DEF Hold

(* The same for what is dropped.                                           *)
LEMMA DropType ==
  ASSUME NEW st \in [Pipes -> PipeState], NEW T
  PROVE  Drop(st, T) \in [Pipes -> PipeState]
<1>1. ASSUME NEW x \in Pipes
      PROVE  /\ Less(st[x].refs, Writers(T, x)) \in Nat
             /\ Less(st[x].rrefs, Readers(T, x)) \in Nat
             /\ (st[x].shut \/ Shuts(st, T, x)) \in BOOLEAN
  <2>1. st[x].refs \in Nat /\ st[x].rrefs \in Nat /\ st[x].shut \in BOOLEAN
    BY DEF PipeState
  <2>2. Writers(T, x) \in Nat /\ Readers(T, x) \in Nat
    BY UseTypes
  <2>3. \A c, n \in Nat : Less(c, n) \in Nat
    BY DEF Less
  <2> QED
    BY <2>1, <2>2, <2>3
<1> QED
  BY <1>1 DEF Drop, PipeState

(* What a step that changes counts does to the types.                      *)
LEMMA SettleTypes ==
  ASSUME TypeOK, NEW st \in [Pipes -> PipeState], NEW l \in [Procs -> Lives], Settle(st, l)
  PROVE  /\ pipe' \in [Pipes -> PipeState]
         /\ life' \in [Procs -> Lives]
         /\ waiters' \in [Pipes -> Seq(Procs)]
<1>1. pipe' \in [Pipes -> PipeState]
  BY DEF Settle
<1>2. life' \in [Procs -> Lives]
  BY DEF Settle, Lives
<1>3. waiters' \in [Pipes -> Seq(Procs)]
  <2>1. waiters \in [Pipes -> Seq(Procs)]
    BY DEF TypeOK
  <2>2. <<>> \in Seq(Procs)
    OBVIOUS
  <2> QED
    BY <2>1, <2>2 DEF Settle
<1> QED
  BY <1>1, <1>2, <1>3

-----------------------------------------------------------------------------
(* Types.                                                                  *)

(* The initial state is well typed.                                        *)
LEMMA TypeInit == Init => TypeOK
<1> SUFFICES ASSUME Init PROVE TypeOK
  OBVIOUS
<1>1. NoPipe \in Stream
  BY DEF Stream
<1>2. NoTable \in Table /\ Stdio(NoPipe, NoPipe, NoPipe) \in Table
  BY <1>1, TableTypes
<1>3. Unmade \in PipeState
  BY DEF Unmade, PipeState
<1>4. <<>> \in Seq(Nat) /\ <<>> \in Seq(Procs)
  OBVIOUS
<1> QED
  BY <1>2, <1>3, <1>4, DescriptorAssumption DEF Init, TypeOK, Kinds, Lives

(* The operations on descriptors.                                          *)
LEMMA DescriptorsTypes ==
  ASSUME TypeOK, ChunksInOrder, NEW p \in Procs, Descriptors(p)
  PROVE  TypeOK'
<1>1. ASSUME NEW x \in Pipes, NEW clo \in BOOLEAN, MakePipe(p, x, clo)
      PROVE  TypeOK'
  <2> DEFINE rd == Lowest(Free(p))
             wr == Lowest(Free(p) \ {rd})
             R == [Reader(x) EXCEPT !.clo = clo]
             W == [Writer(x) EXCEPT !.clo = clo]
  <2>1. R \in Descriptor /\ W \in Descriptor
    BY DEF Reader, Writer, Descriptor, Stream
  <2>2. fds' = [fds EXCEPT ![p][rd] = R, ![p][wr] = W]
    BY <1>1 DEF MakePipe
  <2>3. fds' \in [Procs -> Table]
    <3> HIDE DEF rd, wr, R, W
    <3> QED
      BY <2>1, <2>2 DEF TypeOK, Table
  <2>4. pipe' \in [Pipes -> PipeState]
    BY <1>1 DEF MakePipe, TypeOK, PipeState
  <2>5. handed' \in [Pipes -> BOOLEAN] /\ ops' \in 0 .. MaxOps
    BY <1>1, DescriptorAssumption DEF MakePipe, TypeOK, Op
  <2> QED
    BY <1>1, <2>3, <2>4, <2>5 DEF MakePipe, TypeOK
<1>2. ASSUME NEW x \in Pipes, MakeHalfPipe(p, x)
      PROVE  TypeOK'
  <2>1. Reader(x) \in Descriptor
    BY DescriptorTypes DEF Stream
  <2>2. fds' \in [Procs -> Table]
    BY <1>2, <2>1 DEF MakeHalfPipe, TypeOK, Table
  <2>3. pipe' \in [Pipes -> PipeState]
    BY <1>2 DEF MakeHalfPipe, TypeOK, PipeState
  <2>4. ops' \in 0 .. MaxOps
    BY <1>2, DescriptorAssumption DEF MakeHalfPipe, TypeOK, Op
  <2> QED
    BY <1>2, <2>2, <2>3, <2>4 DEF MakeHalfPipe, TypeOK
<1>3. ASSUME NEW n \in FdNums, Close(p, n)
      PROVE  TypeOK'
  <2>1. fds' \in [Procs -> Table]
    BY <1>3, DescriptorTypes DEF Close, TypeOK, Table
  <2> DEFINE st == Drop(pipe, Only(fds[p], {n}))
  <2>2. st \in [Pipes -> PipeState] /\ life \in [Procs -> Lives] /\ Settle(st, life)
    BY <1>3, DropType DEF Close, TypeOK
  <2> HIDE DEF st
  <2>3. /\ pipe' \in [Pipes -> PipeState] /\ life' \in [Procs -> Lives]
        /\ waiters' \in [Pipes -> Seq(Procs)]
    BY <2>2, SettleTypes
  <2> QED
    BY <1>3, <2>1, <2>3 DEF Close, TypeOK
<1>4. ASSUME NEW n \in FdNums, Write(p, n)
      PROVE  TypeOK'
  <2> DEFINE x == fds[p][n].out
  <2>1. x \in Pipes
    BY <1>4, StreamTypes DEF Write, TypeOK, Stream
  <2>2. written[x] + 1 \in 0 .. MaxChunks /\ written[x] + 1 \in Nat
    <3>1. written[x] \in 0 .. MaxChunks /\ written[x] + 1 <= MaxChunks
      BY <1>4, <2>1 DEF Write, TypeOK
    <3> QED
      BY <3>1, DescriptorAssumption
  <2>3. written' \in [Pipes -> 0 .. MaxChunks]
    BY <1>4, <2>1, <2>2 DEF Write, TypeOK
  <2>4. CASE HandOver(x)
    <3>1. /\ waiters' = [waiters EXCEPT ![x] = Tail(@)]
          /\ life' = [life EXCEPT ![Head(waiters[x])] = "run"]
          /\ delivered' = [delivered EXCEPT ![x] = written[x] + 1]
          /\ UNCHANGED queue
      BY <1>4, <2>4 DEF Write
    <3>2. Tail(waiters[x]) \in Seq(Procs)
      BY <2>1, <2>4 DEF HandOver, TypeOK
    <3>3. waiters' \in [Pipes -> Seq(Procs)]
      BY <2>1, <3>1, <3>2 DEF TypeOK
    <3>4. life' \in [Procs -> Lives]
      BY <3>1 DEF TypeOK, Lives
    <3>5. delivered' \in [Pipes -> 0 .. MaxChunks]
      BY <2>1, <2>2, <3>1 DEF TypeOK
    <3> QED
      BY <1>4, <2>3, <3>1, <3>3, <3>4, <3>5 DEF Write, TypeOK
  <2>5. CASE ~HandOver(x)
    <3>1. queue' = [queue EXCEPT ![x] = Append(@, written[x] + 1)]
          /\ UNCHANGED <<waiters, life, delivered>>
      BY <1>4, <2>5 DEF Write
    <3>2. Append(queue[x], written[x] + 1) \in Seq(Nat)
      BY <2>1, <2>2 DEF TypeOK
    <3>3. queue' \in [Pipes -> Seq(Nat)]
      BY <2>1, <3>1, <3>2 DEF TypeOK
    <3> QED
      BY <1>4, <2>3, <3>1, <3>3 DEF Write, TypeOK
  <2> QED
    BY <2>4, <2>5
<1>5. ASSUME NEW n \in FdNums, ReadQueued(p, n)
      PROVE  TypeOK'
  <2> DEFINE x == fds[p][n].in
  <2>1. x \in Pipes
    BY <1>5, StreamTypes DEF ReadQueued, TypeOK, Stream
  <2>2. queue[x] \in Seq(Nat) /\ queue[x] # <<>>
    BY <1>5, <2>1 DEF ReadQueued, TypeOK
  <2>3. Tail(queue[x]) \in Seq(Nat)
    BY <2>2
  <2>4. Head(queue[x]) \in 0 .. MaxChunks
    <3>1. Len(queue[x]) >= 1 /\ Head(queue[x]) = queue[x][1]
      BY <2>2
    <3>2. queue[x][1] = delivered[x] + 1 /\ delivered[x] + 1 <= written[x]
      BY <2>1, <3>1 DEF ChunksInOrder, TypeOK
    <3> QED
      BY <2>1, <3>1, <3>2, DescriptorAssumption DEF TypeOK
  <2>5. queue' \in [Pipes -> Seq(Nat)] /\ delivered' \in [Pipes -> 0 .. MaxChunks]
    BY <1>5, <2>1, <2>3, <2>4 DEF ReadQueued, Taken, TypeOK
  <2> QED
    BY <1>5, <2>5 DEF ReadQueued, TypeOK
<1>6. ASSUME NEW n \in FdNums, ReadBlocks(p, n)
      PROVE  TypeOK'
  <2> DEFINE x == fds[p][n].in
  <2>1. x \in Pipes
    BY <1>6, StreamTypes DEF ReadBlocks, TypeOK, Stream
  <2>2. Append(waiters[x], p) \in Seq(Procs)
    BY <2>1 DEF TypeOK
  <2>3. waiters' \in [Pipes -> Seq(Procs)]
    BY <1>6, <2>1, <2>2 DEF ReadBlocks, TypeOK
  <2>4. life' \in [Procs -> Lives]
    BY <1>6 DEF ReadBlocks, TypeOK, Lives
  <2> QED
    BY <1>6, <2>3, <2>4 DEF ReadBlocks, TypeOK
<1>7. ASSUME NEW old \in FdNums, NEW new \in FdNums, NEW clo \in BOOLEAN, Dup(p, old, new, clo)
      PROVE  TypeOK'
  <2> DEFINE T == [fds[p] EXCEPT ![new] = [fds[p][old] EXCEPT !.clo = clo]]
             st == Hold(Drop(pipe, Only(fds[p], {new})), Only(T, {new}))
  <2>1. fds[p] \in Table /\ [fds[p][old] EXCEPT !.clo = clo] \in Descriptor
    <3>1. fds[p] \in Table /\ fds[p][old] \in Descriptor
      BY StreamTypes DEF TypeOK
    <3> QED
      BY <3>1 DEF Descriptor
  <2>2. T \in Table
    BY <2>1 DEF Table
  <2>3. fds' \in [Procs -> Table]
    BY <1>7, <2>2 DEF Dup, TypeOK
  <2>4. st \in [Pipes -> PipeState] /\ life \in [Procs -> Lives] /\ Settle(st, life)
    BY <1>7, DropType, HoldType DEF Dup, TypeOK
  <2>5. did' \subseteq Habits /\ ops' \in 0 .. MaxOps
    BY <1>7, DescriptorAssumption DEF Dup, TypeOK, Shows, Op
  <2> HIDE DEF st
  <2>6. /\ pipe' \in [Pipes -> PipeState] /\ life' \in [Procs -> Lives]
        /\ waiters' \in [Pipes -> Seq(Procs)]
    BY <2>4, SettleTypes
  <2> QED
    BY <1>7, <2>3, <2>5, <2>6 DEF Dup, TypeOK
<1>8. CASE OpenTty(p)
  <2> DEFINE d == [open |-> TRUE, in |-> fds[p][0].in, out |-> fds[p][1].out, clo |-> FALSE]
  <2>1. fds[p] \in Table
    BY DEF TypeOK
  <2>2. d \in Descriptor
    BY <2>1, StdNums, StreamTypes DEF Descriptor
  <2>3. fds' = [fds EXCEPT ![p][Lowest(Free(p))] = d]
    BY <1>8 DEF OpenTty
  <2>4. fds' \in [Procs -> Table]
    <3> HIDE DEF d
    <3> QED
      BY <2>2, <2>3 DEF TypeOK, Table
  <2>5. did' \subseteq Habits /\ ops' \in 0 .. MaxOps
    BY <1>8, DescriptorAssumption DEF OpenTty, TypeOK, Shows, Op
  <2> QED
    BY <1>8, <2>4, <2>5 DEF OpenTty, TypeOK
<1> QED
  BY <1>1, <1>2, <1>3, <1>4, <1>5, <1>6, <1>7, <1>8 DEF Descriptors, Opened

(* What the start of a process does to the types.                          *)
LEMMA StartedTypes ==
  ASSUME TypeOK, NEW c \in Procs, NEW k \in Kinds, NEW all \in BOOLEAN, Started(c, k, all)
  PROVE  kind' \in [Procs -> Kinds] /\ allHeld' \in [Procs -> BOOLEAN]
  BY DEF TypeOK, Started

(* What the end of a vfork does to the types.                              *)
LEMMA RestoredTypes ==
  ASSUME TypeOK, NEW p \in Procs, NEW c \in Procs, NEW T \in Table, Restored(p, c, T)
  PROVE  /\ fds' \in [Procs -> Table] /\ saved' \in [Procs -> Table]
         /\ forked' \in [Procs -> BOOLEAN]
  BY TableTypes DEF TypeOK, Restored

(* A life given to a process is a life.                                    *)
LEMMA LifeTypes ==
  ASSUME TypeOK
  PROVE  /\ life \in [Procs -> Lives] /\ pipe \in [Pipes -> PipeState]
         /\ \A c \in Procs : [life EXCEPT ![c] = "run"] \in [Procs -> Lives]
         /\ \A c \in Procs : [life EXCEPT ![c] = "done"] \in [Procs -> Lives]
         /\ \A c, d \in Procs : [life EXCEPT ![c] = "run", ![d] = "run"] \in [Procs -> Lives]
  BY DEF TypeOK, Lives

(* vfork and image replacement.                                            *)
LEMMA ImagesTypes ==
  ASSUME TypeOK, NEW p \in Procs, Images(p)
  PROVE  TypeOK'
<1>1. CASE Clone(p)
  <2>1. pipe' \in [Pipes -> PipeState]
    BY <1>1, HoldType DEF Clone, Copied, TypeOK
  <2>2. ops' \in 0 .. MaxOps
    BY <1>1, DescriptorAssumption DEF Clone, TypeOK, Op
  <2>3. saved' \in [Procs -> Table] /\ forked' \in [Procs -> BOOLEAN]
    BY <1>1 DEF Clone, TypeOK
  <2> QED
    BY <1>1, <2>1, <2>2, <2>3 DEF Clone, TypeOK
<1>2. ASSUME NEW k \in Kinds, ExecReplace(p, k)
      PROVE  TypeOK'
  <2> DEFINE T == Keeps(fds[p])
             st == Drop(pipe, Only(fds[p], {n \in FdNums : fds[p][n].clo}))
  <2>1. T \in Table
    BY TableTypes DEF Keeps, TypeOK
  <2>2. fds' \in [Procs -> Table] /\ kind' \in [Procs -> Kinds]
    BY <1>2, <2>1 DEF ExecReplace, TypeOK
  <2>3. ops' \in 0 .. MaxOps
    BY <1>2, DescriptorAssumption DEF ExecReplace, TypeOK, Op
  <2>4. st \in [Pipes -> PipeState] /\ life \in [Procs -> Lives] /\ Settle(st, life)
    BY <1>2, DropType DEF ExecReplace, TypeOK
  <2> HIDE DEF st
  <2>5. /\ pipe' \in [Pipes -> PipeState] /\ life' \in [Procs -> Lives]
        /\ waiters' \in [Pipes -> Seq(Procs)]
    BY <2>4, SettleTypes
  <2> QED
    BY <1>2, <2>2, <2>3, <2>5 DEF ExecReplace, TypeOK
<1>3. ASSUME NEW c \in Spare, NEW k \in Kinds, ExecChild(p, c, k)
      PROVE  TypeOK'
  <2> DEFINE T == Keeps(fds[p])
             st == ChildDropped(Hold(pipe, T), fds[p])
             l == [life EXCEPT ![c] = "run"]
  <2>1. T \in Table
    BY TableTypes DEF Keeps, TypeOK
  <2>2. c \in Procs
    BY DEF Spare
  <2>3. st \in [Pipes -> PipeState] /\ l \in [Procs -> Lives] /\ Settle(st, l)
    BY <1>3, <2>2, LifeTypes, HoldType, DropType DEF ExecChild, ChildDropped
  <2>4. Restored(p, c, T) /\ Started(c, k, TRUE)
    BY <1>3 DEF ExecChild
  <2> HIDE DEF T, st, l
  <2>5. /\ pipe' \in [Pipes -> PipeState] /\ life' \in [Procs -> Lives]
        /\ waiters' \in [Pipes -> Seq(Procs)]
    BY <2>3, SettleTypes
  <2>6. /\ fds' \in [Procs -> Table] /\ saved' \in [Procs -> Table]
        /\ forked' \in [Procs -> BOOLEAN]
    BY <2>1, <2>2, <2>4, RestoredTypes
  <2>7. kind' \in [Procs -> Kinds] /\ allHeld' \in [Procs -> BOOLEAN]
    BY <2>2, <2>4, StartedTypes
  <2> QED
    BY <1>3, <2>5, <2>6, <2>7 DEF ExecChild, TypeOK
<1>4. ASSUME NEW c \in Spare, ExitChild(p, c)
      PROVE  TypeOK'
  <2> DEFINE T == Stdio(fds[p][0].in, fds[p][1].out, fds[p][2].out)
             st == ChildDropped(Hold(pipe, StdHolds(T)), fds[p])
             l == [life EXCEPT ![c] = "run"]
  <2>1. T \in Table
    BY StdNums, StreamTypes, TableTypes DEF TypeOK
  <2>2. c \in Procs
    BY DEF Spare
  <2>3. st \in [Pipes -> PipeState] /\ l \in [Procs -> Lives] /\ Settle(st, l)
    BY <1>4, <2>2, LifeTypes, HoldType, DropType DEF ExitChild, ChildDropped
  <2>4. Restored(p, c, T) /\ Started(c, "thsh", FALSE)
    BY <1>4 DEF ExitChild
  <2> HIDE DEF T, st, l
  <2>5. /\ pipe' \in [Pipes -> PipeState] /\ life' \in [Procs -> Lives]
        /\ waiters' \in [Pipes -> Seq(Procs)]
    BY <2>3, SettleTypes
  <2>6. /\ fds' \in [Procs -> Table] /\ saved' \in [Procs -> Table]
        /\ forked' \in [Procs -> BOOLEAN]
    BY <2>1, <2>2, <2>4, RestoredTypes
  <2>7. kind' \in [Procs -> Kinds] /\ allHeld' \in [Procs -> BOOLEAN]
    BY <2>2, <2>4, StartedTypes DEF Kinds
  <2> QED
    BY <1>4, <2>5, <2>6, <2>7 DEF ExitChild, TypeOK
<1> QED
  BY <1>1, <1>2, <1>3, <1>4 DEF Images

(* The standard streams of a shell's command are streams.                  *)
LEMMA ShellStreams ==
  ASSUME TypeOK, NEW p \in Procs
  PROVE  fds[p][0].in \in Stream /\ fds[p][1].out \in Stream /\ fds[p][2].out \in Stream
  BY StdNums, StreamTypes DEF TypeOK

(* The commands of a shell.                                                *)
LEMMA CommandsTypes ==
  ASSUME TypeOK, NEW p \in Procs, Commands(p)
  PROVE  TypeOK'
<1> USE DEF Spare
<1>1. ASSUME NEW c \in Spare, NEW k \in Kinds, StartCommand(p, c, k)
      PROVE  TypeOK'
  <2> DEFINE T == Stdio(fds[p][0].in, fds[p][1].out, fds[p][2].out)
             st == Hold(pipe, StdHolds(T))
             l == [life EXCEPT ![c] = "run"]
  <2>1. T \in Table
    BY ShellStreams, TableTypes
  <2>2. fds' \in [Procs -> Table]
    BY <1>1, <2>1 DEF StartCommand, TypeOK
  <2>3. st \in [Pipes -> PipeState] /\ l \in [Procs -> Lives] /\ Settle(st, l)
    BY <1>1, LifeTypes, HoldType DEF StartCommand
  <2>4. Started(c, k, FALSE)
    BY <1>1 DEF StartCommand
  <2> HIDE DEF T, st, l
  <2>5. /\ pipe' \in [Pipes -> PipeState] /\ life' \in [Procs -> Lives]
        /\ waiters' \in [Pipes -> Seq(Procs)]
    BY <2>3, SettleTypes
  <2>6. kind' \in [Procs -> Kinds] /\ allHeld' \in [Procs -> BOOLEAN]
    BY <2>4, StartedTypes
  <2> QED
    BY <1>1, <2>2, <2>5, <2>6 DEF StartCommand, TypeOK
<1>2. ASSUME NEW c \in Spare, NEW d \in Spare, NEW j \in Kinds, NEW k \in Kinds, NEW x \in Pipes,
             StartPipeline(p, c, d, j, k, x)
      PROVE  TypeOK'
  <2> DEFINE T == Stdio(fds[p][0].in, x, fds[p][2].out)
             U == Stdio(x, fds[p][1].out, fds[p][2].out)
             st == Hold(Hold(pipe, StdHolds(T)), StdHolds(U))
             l == [life EXCEPT ![c] = "run", ![d] = "run"]
  <2>1. T \in Table /\ U \in Table
    BY ShellStreams, TableTypes DEF Stream
  <2>2. fds' = [fds EXCEPT ![c] = T, ![d] = U]
    BY <1>2 DEF StartPipeline
  <2>3. st \in [Pipes -> PipeState] /\ l \in [Procs -> Lives] /\ Settle(st, l)
    BY <1>2, LifeTypes, HoldType DEF StartPipeline
  <2> HIDE DEF T, U, st, l
  <2>4. fds' \in [Procs -> Table]
    BY <2>1, <2>2 DEF TypeOK
  <2>5. /\ pipe' \in [Pipes -> PipeState] /\ life' \in [Procs -> Lives]
        /\ waiters' \in [Pipes -> Seq(Procs)]
    BY <2>3, SettleTypes
  <2>6. kind' \in [Procs -> Kinds] /\ allHeld' \in [Procs -> BOOLEAN]
        /\ handed' \in [Pipes -> BOOLEAN]
    BY <1>2 DEF StartPipeline, TypeOK
  <2> QED
    BY <1>2, <2>4, <2>5, <2>6 DEF StartPipeline, TypeOK
<1>3. ASSUME NEW c \in Spare, NEW k \in Kinds, NEW x \in Pipes, PipelineFails(p, c, k, x)
      PROVE  TypeOK'
  <2> DEFINE T == Stdio(fds[p][0].in, x, fds[p][2].out)
             st == Hold(pipe, StdHolds(T))
             l == [life EXCEPT ![c] = "run"]
  <2>1. T \in Table
    BY ShellStreams, TableTypes DEF Stream
  <2>2. fds' \in [Procs -> Table]
    BY <1>3, <2>1 DEF PipelineFails, TypeOK
  <2>3. st \in [Pipes -> PipeState] /\ l \in [Procs -> Lives] /\ Settle(st, l)
    BY <1>3, LifeTypes, HoldType DEF PipelineFails
  <2>4. Started(c, k, FALSE)
    BY <1>3 DEF PipelineFails
  <2> HIDE DEF T, st, l
  <2>5. /\ pipe' \in [Pipes -> PipeState] /\ life' \in [Procs -> Lives]
        /\ waiters' \in [Pipes -> Seq(Procs)]
    BY <2>3, SettleTypes
  <2>6. kind' \in [Procs -> Kinds] /\ allHeld' \in [Procs -> BOOLEAN]
    BY <2>4, StartedTypes
  <2> QED
    BY <1>3, <2>2, <2>5, <2>6 DEF PipelineFails, TypeOK
<1>4. CASE ScriptRefused(p)
  <2>1. pipe' \in [Pipes -> PipeState]
    BY <1>4, HoldType DEF ScriptRefused, TypeOK
  <2>2. did' \subseteq Habits /\ ops' \in 0 .. MaxOps
    BY <1>4, DescriptorAssumption DEF ScriptRefused, TypeOK, Shows, Op
  <2> QED
    BY <1>4, <2>1, <2>2 DEF ScriptRefused, TypeOK
<1> QED
  BY <1>1, <1>2, <1>3, <1>4 DEF Commands

(* The end of a process.                                                   *)
LEMMA EndTypes ==
  ASSUME TypeOK, NEW p \in Procs, End(p)
  PROVE  TypeOK'
<1> DEFINE st == Drop(pipe, AtEnd(p))
           l == [life EXCEPT ![p] = "done"]
<1>1. st \in [Pipes -> PipeState] /\ l \in [Procs -> Lives] /\ Settle(st, l)
  BY LifeTypes, DropType DEF End
<1>2. /\ fds' \in [Procs -> Table] /\ saved' \in [Procs -> Table]
      /\ forked' \in [Procs -> BOOLEAN] /\ did' \subseteq Habits
  BY TableTypes DEF End, TypeOK, Shows
<1> HIDE DEF st, l
<1>3. /\ pipe' \in [Pipes -> PipeState] /\ life' \in [Procs -> Lives]
      /\ waiters' \in [Pipes -> Seq(Procs)]
  BY <1>1, SettleTypes
<1> QED
  BY <1>2, <1>3 DEF End, TypeOK

-----------------------------------------------------------------------------
(* Reads and chunks.                                                       *)

(* What a read finds and what it waits for: the types alone are not        *)
(* preserved by a read, whose chunk is bounded by its place in the queue,  *)
(* and a chunk handed over is the next one because the queue is empty when *)
(* somebody waits.                                                         *)
ReadInv == TypeOK /\ NoLostWakeup /\ ChunksInOrder

(* A step that settles the pipes wakes who waits on one that is shut.      *)
LEMMA SettleWakes ==
  ASSUME NoLostWakeup, NEW st, NEW l, Settle(st, l), UNCHANGED queue
  PROVE  NoLostWakeup'
  BY DEF NoLostWakeup, Settle

(* A step that shuts no pipe and does not touch queues and waiters.        *)
LEMMA OpenWakes ==
  ASSUME NoLostWakeup, UNCHANGED <<queue, waiters>>,
         \A x \in Pipes : pipe'[x].shut = pipe[x].shut
  PROVE  NoLostWakeup'
  BY DEF NoLostWakeup

(* hold and holdR do not shut a pipe.                                      *)
LEMMA HoldShuts ==
  ASSUME TypeOK, NEW T, NEW x \in Pipes
  PROVE  Hold(pipe, T)[x].shut = pipe[x].shut
  BY DEF TypeOK, Hold, PipeState

(* A queue that holds the chunks from d to w holds those to w + 1 when one *)
(* is put at its end, and those after its head when the head is taken.     *)
LEMMA QueueAppend ==
  ASSUME NEW s \in Seq(Nat), NEW d \in Nat, NEW w \in Nat, Len(s) = w - d,
         \A i \in 1 .. Len(s) : s[i] = d + i
  PROVE  /\ Len(Append(s, w + 1)) = w + 1 - d
         /\ \A i \in 1 .. Len(Append(s, w + 1)) : Append(s, w + 1)[i] = d + i
<1> DEFINE t == Append(s, w + 1)
<1>1. /\ Len(s) \in Nat /\ Len(t) = Len(s) + 1 /\ t[Len(s) + 1] = w + 1
      /\ \A i \in 1 .. Len(s) : t[i] = s[i]
  OBVIOUS
<1> HIDE DEF t
<1>2. ASSUME NEW i \in 1 .. Len(t) PROVE t[i] = d + i
  <2>1. i \in 1 .. Len(s) \/ i = Len(s) + 1
    BY <1>1
  <2> QED
    BY <1>1, <2>1
<1> QED
  BY <1>1, <1>2 DEF t

(* The same of what is left.                                               *)
LEMMA QueueTail ==
  ASSUME NEW s \in Seq(Nat), s # <<>>, NEW d \in Nat, NEW w \in Nat, Len(s) = w - d,
         \A i \in 1 .. Len(s) : s[i] = d + i
  PROVE  /\ Len(Tail(s)) = w - Head(s)
         /\ \A i \in 1 .. Len(Tail(s)) : Tail(s)[i] = Head(s) + i
<1> DEFINE t == Tail(s)
<1>1. /\ Len(s) \in Nat /\ Len(s) >= 1 /\ Len(t) = Len(s) - 1 /\ Head(s) = s[1]
      /\ \A i \in 1 .. Len(t) : t[i] = s[i + 1]
  OBVIOUS
<1> HIDE DEF t
<1>2. s[1] = d + 1
  BY <1>1
<1>3. ASSUME NEW i \in 1 .. Len(t) PROVE t[i] = s[1] + i
  <2>1. i + 1 \in 1 .. Len(s) /\ i \in Nat
    BY <1>1
  <2>2. s[i + 1] = d + (i + 1)
    BY <2>1
  <2> QED
    BY <1>1, <1>2, <2>1, <2>2
<1>4. Len(t) = w - s[1]
  BY <1>1, <1>2
<1> QED
  BY <1>1, <1>3, <1>4 DEF t

(* A write: to the first that waits, or to the end of the queue.           *)
LEMMA WriteReads ==
  ASSUME ReadInv, NEW p \in Procs, NEW n \in FdNums, Write(p, n)
  PROVE  NoLostWakeup' /\ ChunksInOrder'
<1> DEFINE x == fds[p][n].out
<1>1. x \in Pipes
  BY StreamTypes DEF Write, ReadInv, TypeOK, Stream
<1>2. /\ queue[x] \in Seq(Nat) /\ waiters[x] \in Seq(Procs)
      /\ written[x] \in Nat /\ delivered[x] \in Nat
  BY <1>1, DescriptorAssumption DEF ReadInv, TypeOK
<1>3. Len(queue[x]) = written[x] - delivered[x]
      /\ \A i \in 1 .. Len(queue[x]) : queue[x][i] = delivered[x] + i
  BY <1>1 DEF ReadInv, ChunksInOrder
<1>4. CASE HandOver(x)
  <2>1. queue[x] = <<>> /\ ~pipe[x].shut
    BY <1>1, <1>4 DEF ReadInv, NoLostWakeup, HandOver
  <2>2. delivered[x] = written[x]
    BY <1>2, <1>3, <2>1
  <2>3. /\ waiters' = [waiters EXCEPT ![x] = Tail(@)]
        /\ delivered' = [delivered EXCEPT ![x] = written[x] + 1]
        /\ written' = [written EXCEPT ![x] = written[x] + 1]
        /\ UNCHANGED <<queue, pipe>>
    BY <1>4 DEF Write
  <2>4. NoLostWakeup'
    BY <2>1, <2>3 DEF ReadInv, TypeOK, NoLostWakeup
  <2>5. ASSUME NEW y \in Pipes
        PROVE  /\ Len(queue'[y]) = written'[y] - delivered'[y]
               /\ \A i \in 1 .. Len(queue'[y]) : queue'[y][i] = delivered'[y] + i
    <3>1. CASE y = x
      <4>1. queue'[y] = <<>> /\ written'[y] = written[x] + 1 /\ delivered'[y] = written[x] + 1
        BY <1>1, <2>1, <2>3, <3>1 DEF ReadInv, TypeOK
      <4> QED
        BY <1>2, <4>1
    <3>2. CASE y # x
      BY <1>1, <2>3, <3>2 DEF ReadInv, TypeOK, ChunksInOrder
    <3> QED
      BY <3>1, <3>2
  <2> QED
    BY <2>4, <2>5 DEF ChunksInOrder
<1>5. CASE ~HandOver(x)
  <2>1. /\ queue' = [queue EXCEPT ![x] = Append(@, written[x] + 1)]
        /\ written' = [written EXCEPT ![x] = written[x] + 1]
        /\ UNCHANGED <<waiters, delivered, pipe>>
    BY <1>5 DEF Write
  <2>2. NoLostWakeup'
    BY <1>5, <2>1 DEF ReadInv, TypeOK, NoLostWakeup, HandOver
  <2>3. ASSUME NEW y \in Pipes
        PROVE  /\ Len(queue'[y]) = written'[y] - delivered'[y]
               /\ \A i \in 1 .. Len(queue'[y]) : queue'[y][i] = delivered'[y] + i
    <3>1. CASE y = x
      <4>1. /\ queue'[y] = Append(queue[x], written[x] + 1)
            /\ written'[y] = written[x] + 1 /\ delivered'[y] = delivered[x]
        BY <1>1, <2>1, <3>1 DEF ReadInv, TypeOK
      <4>2. queue[x] \in Seq(Nat) /\ delivered[x] \in Nat /\ written[x] \in Nat
        BY <1>2
      <4> HIDE DEF x
      <4> DEFINE t == Append(queue[x], written[x] + 1)
      <4>3. /\ Len(t) = written[x] + 1 - delivered[x]
            /\ \A i \in 1 .. Len(t) : t[i] = delivered[x] + i
        BY <1>3, <4>2, QueueAppend
      <4>4. queue'[y] = t
        BY <4>1
      <4> HIDE DEF t
      <4>5. written'[y] = written[x] + 1 /\ delivered'[y] = delivered[x]
        BY <4>1
      <4>6. Len(queue'[y]) = written'[y] - delivered'[y]
        BY <4>2, <4>3, <4>4, <4>5
      <4> QED
        BY <4>3, <4>4, <4>5, <4>6, Zenon
    <3>2. CASE y # x
      BY <1>1, <2>1, <3>2 DEF ReadInv, TypeOK, ChunksInOrder
    <3> QED
      BY <3>1, <3>2
  <2> QED
    BY <2>2, <2>3 DEF ChunksInOrder
<1> QED
  BY <1>4, <1>5

(* A read takes the first chunk of the queue.                              *)
LEMMA ReadReads ==
  ASSUME ReadInv, NEW p \in Procs, NEW n \in FdNums, ReadQueued(p, n)
  PROVE  NoLostWakeup' /\ ChunksInOrder'
<1> DEFINE x == fds[p][n].in
<1>1. x \in Pipes
  BY StreamTypes DEF ReadQueued, ReadInv, TypeOK, Stream
<1>2. queue[x] \in Seq(Nat) /\ queue[x] # <<>> /\ written[x] \in Nat /\ delivered[x] \in Nat
  BY <1>1, DescriptorAssumption DEF ReadQueued, ReadInv, TypeOK
<1>3. Len(queue[x]) = written[x] - delivered[x]
      /\ \A i \in 1 .. Len(queue[x]) : queue[x][i] = delivered[x] + i
  BY <1>1 DEF ReadInv, ChunksInOrder
<1>4. /\ queue' = [queue EXCEPT ![x] = Tail(queue[x])]
      /\ delivered' = [delivered EXCEPT ![x] = Head(queue[x])]
      /\ UNCHANGED <<waiters, written, pipe>>
  BY DEF ReadQueued, Taken
<1>5. NoLostWakeup'
  BY <1>2, <1>4 DEF ReadInv, TypeOK, NoLostWakeup
<1>6. ASSUME NEW y \in Pipes
      PROVE  /\ Len(queue'[y]) = written'[y] - delivered'[y]
             /\ \A i \in 1 .. Len(queue'[y]) : queue'[y][i] = delivered'[y] + i
  <2>1. CASE y = x
    <3>1. queue'[y] = Tail(queue[x]) /\ delivered'[y] = Head(queue[x]) /\ written'[y] = written[x]
      BY <1>1, <1>4, <2>1 DEF ReadInv, TypeOK
    <3> QED
      BY <1>2, <1>3, <3>1, QueueTail
  <2>2. CASE y # x
    BY <1>1, <1>4, <2>2 DEF ReadInv, TypeOK, ChunksInOrder
  <2> QED
    BY <2>1, <2>2
<1> QED
  BY <1>5, <1>6 DEF ChunksInOrder

(* A read waits only on a pipe that is open and has nothing to read.       *)
LEMMA BlockReads ==
  ASSUME ReadInv, NEW p \in Procs, NEW n \in FdNums, ReadBlocks(p, n)
  PROVE  NoLostWakeup' /\ ChunksInOrder'
<1>1. NoLostWakeup'
  BY DEF ReadInv, TypeOK, NoLostWakeup, ReadBlocks
<1>2. ChunksInOrder'
  BY DEF ReadInv, ChunksInOrder, ReadBlocks
<1> QED
  BY <1>1, <1>2

(* Every step keeps the invariant.                                         *)
LEMMA ReadStep == ReadInv /\ [Next]_vars => ReadInv'
<1> SUFFICES ASSUME ReadInv, [Next]_vars PROVE ReadInv'
  OBVIOUS
<1>1. TypeOK /\ NoLostWakeup /\ ChunksInOrder
  BY DEF ReadInv
<1>2. ASSUME NEW p \in Procs, Descriptors(p)
      PROVE  ReadInv'
  <2>1. TypeOK'
    BY <1>1, <1>2, DescriptorsTypes
  <2>2. ASSUME NEW x \in Pipes, NEW clo \in BOOLEAN, MakePipe(p, x, clo)
        PROVE  NoLostWakeup' /\ ChunksInOrder'
    <3>1. \A y \in Pipes : pipe'[y].shut = pipe[y].shut
      BY <1>1, <2>2 DEF MakePipe, TypeOK, PipeState
    <3> QED
      BY <1>1, <2>2, <3>1, OpenWakes DEF MakePipe, ChunksInOrder
  <2>3. ASSUME NEW x \in Pipes, MakeHalfPipe(p, x)
        PROVE  NoLostWakeup' /\ ChunksInOrder'
    <3>1. \A y \in Pipes : pipe'[y].shut = pipe[y].shut
      BY <1>1, <2>3 DEF MakeHalfPipe, TypeOK, PipeState
    <3> QED
      BY <1>1, <2>3, <3>1, OpenWakes DEF MakeHalfPipe, ChunksInOrder
  <2>4. ASSUME NEW n \in FdNums, Close(p, n)
        PROVE  NoLostWakeup' /\ ChunksInOrder'
    BY <1>1, <2>4, SettleWakes DEF Close, ChunksInOrder
  <2>5. ASSUME NEW n \in FdNums, Write(p, n) \/ ReadQueued(p, n) \/ ReadBlocks(p, n)
        PROVE  NoLostWakeup' /\ ChunksInOrder'
    BY <2>5, WriteReads, ReadReads, BlockReads
  <2>6. ASSUME NEW old \in FdNums, NEW new \in FdNums, NEW clo \in BOOLEAN, Dup(p, old, new, clo)
        PROVE  NoLostWakeup' /\ ChunksInOrder'
    BY <1>1, <2>6, SettleWakes DEF Dup, ChunksInOrder
  <2>7. CASE OpenTty(p)
    <3>1. UNCHANGED <<pipe, queue, waiters, written, delivered>>
      BY <2>7 DEF OpenTty
    <3>2. \A y \in Pipes : pipe'[y].shut = pipe[y].shut
      BY <3>1
    <3> QED
      BY <1>1, <2>1, <3>1, <3>2, OpenWakes DEF ChunksInOrder, ReadInv
  <2> QED
    BY <1>2, <2>1, <2>2, <2>3, <2>4, <2>5, <2>6, <2>7 DEF Descriptors, Opened, ReadInv
<1>3. ASSUME NEW p \in Procs, Images(p)
      PROVE  ReadInv'
  <2>1. TypeOK'
    BY <1>1, <1>3, ImagesTypes
  <2>2. CASE Clone(p)
    <3>1. \A y \in Pipes : pipe'[y].shut = pipe[y].shut
      BY <1>1, <2>2, HoldShuts DEF Clone, Copied
    <3>2. UNCHANGED <<queue, waiters, written, delivered>>
      BY <2>2 DEF Clone
    <3> QED
      BY <1>1, <2>1, <3>1, <3>2, OpenWakes DEF ChunksInOrder, ReadInv
  <2>3. ASSUME NEW k \in Kinds, ExecReplace(p, k)
        PROVE  NoLostWakeup' /\ ChunksInOrder'
    BY <1>1, <2>3, SettleWakes DEF ExecReplace, ChunksInOrder
  <2>4. ASSUME NEW c \in Spare, NEW k \in Kinds, ExecChild(p, c, k)
        PROVE  NoLostWakeup' /\ ChunksInOrder'
    BY <1>1, <2>4, SettleWakes DEF ExecChild, ChunksInOrder
  <2>5. ASSUME NEW c \in Spare, ExitChild(p, c)
        PROVE  NoLostWakeup' /\ ChunksInOrder'
    BY <1>1, <2>5, SettleWakes DEF ExitChild, ChunksInOrder
  <2> QED
    BY <1>3, <2>1, <2>2, <2>3, <2>4, <2>5 DEF Images, ReadInv
<1>4. ASSUME NEW p \in Procs, Commands(p)
      PROVE  ReadInv'
  <2>1. TypeOK'
    BY <1>1, <1>4, CommandsTypes
  <2>2. ASSUME NEW c \in Spare, NEW k \in Kinds, StartCommand(p, c, k)
        PROVE  NoLostWakeup' /\ ChunksInOrder'
    BY <1>1, <2>2, SettleWakes DEF StartCommand, ChunksInOrder
  <2>3. ASSUME NEW c \in Spare, NEW d \in Spare, NEW j \in Kinds, NEW k \in Kinds, NEW x \in Pipes,
               StartPipeline(p, c, d, j, k, x)
        PROVE  NoLostWakeup' /\ ChunksInOrder'
    BY <1>1, <2>3, SettleWakes DEF StartPipeline, ChunksInOrder
  <2>4. ASSUME NEW c \in Spare, NEW k \in Kinds, NEW x \in Pipes, PipelineFails(p, c, k, x)
        PROVE  NoLostWakeup' /\ ChunksInOrder'
    BY <1>1, <2>4, SettleWakes DEF PipelineFails, ChunksInOrder
  <2>5. CASE ScriptRefused(p)
    <3>1. \A y \in Pipes : pipe'[y].shut = pipe[y].shut
      BY <1>1, <2>5, HoldShuts DEF ScriptRefused
    <3>2. UNCHANGED <<queue, waiters, written, delivered>>
      BY <2>5 DEF ScriptRefused
    <3> QED
      BY <1>1, <2>1, <3>1, <3>2, OpenWakes DEF ChunksInOrder, ReadInv
  <2> QED
    BY <1>4, <2>1, <2>2, <2>3, <2>4, <2>5 DEF Commands, ReadInv
<1>5. ASSUME NEW p \in Procs, End(p)
      PROVE  ReadInv'
  BY <1>1, <1>5, EndTypes, SettleWakes DEF End, ChunksInOrder, ReadInv
<1>6. CASE UNCHANGED vars
  BY <1>1, <1>6 DEF vars, ReadInv, TypeOK, NoLostWakeup, ChunksInOrder
<1> QED
  BY <1>2, <1>3, <1>4, <1>5, <1>6 DEF Next, Runs

(* The invariant holds initially and for ever.                             *)
THEOREM ReadsInvariant == Spec => []ReadInv
<1>1. Init => ReadInv
  <2> SUFFICES ASSUME Init PROVE NoLostWakeup /\ ChunksInOrder
    BY TypeInit DEF ReadInv
  <2> QED
    BY DEF Init, NoLostWakeup, ChunksInOrder
<1> QED
  BY <1>1, ReadStep, PTL DEF Spec

(* Every variable keeps its range, whatever programs do with their         *)
(* descriptors.                                                            *)
THEOREM TypeCorrect == Spec => []TypeOK
<1>1. ReadInv => TypeOK
  BY DEF ReadInv
<1> QED
  BY <1>1, ReadsInvariant, PTL

(* No read of a pipe waits for a chunk that is there or an end that has    *)
(* come (Pipe.wr, rd and end).                                             *)
THEOREM ReadsWake == Spec => []NoLostWakeup
<1>1. ReadInv => NoLostWakeup
  BY DEF ReadInv
<1> QED
  BY <1>1, ReadsInvariant, PTL

(* The chunks of a pipe are read once each and in the order they were      *)
(* written, through its queue or past it.                                  *)
THEOREM ChunksKeepOrder == Spec => []ChunksInOrder
<1>1. ReadInv => ChunksInOrder
  BY DEF ReadInv
<1> QED
  BY <1>1, ReadsInvariant, PTL

=============================================================================
