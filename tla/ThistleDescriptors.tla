------------------------- MODULE ThistleDescriptors -------------------------
(***************************************************************************)
(* Pipes, descriptors and the hold counts that end a pipe, across starts,  *)
(* pipelines, the two halves of an RV64 vfork, image replacement and exit  *)
(* (src/src/io/stream.ts, core/kernel.ts, core/sys.ts, vm/rv64.ts and      *)
(* sh/shell.ts).                                                           *)
(*                                                                         *)
(* A pipe does not know its descriptors: whoever makes one calls hold or   *)
(* holdR, whoever drops one calls close or releaseR, and the count that    *)
(* reaches zero shuts the pipe for good.  The kernel runs on one thread;   *)
(* an action is what runs between two awaits.                              *)
(***************************************************************************)
EXTENDS Integers, Sequences, FiniteSets

CONSTANTS
  Procs,      \* processes, in use or still to be started
  Root,       \* the shell everything starts from
  Pipes,      \* pipes, made or still to be made
  NoPipe,     \* the stream of a descriptor that is not a pipe
  FdLimit,    \* size of the descriptor table (256 in the code)
  Habits,     \* what guest programs may do; see AllHabits
  MaxOps,     \* bound on the descriptor operations of a run
  MaxChunks   \* bound on the chunks written to one pipe

(* "leak": a program ends with descriptors its exit does not release.      *)
(* "tty": it opens /dev/tty.  "join": it makes its error output the pipe   *)
(* its output is.  "setid": a shell is asked to run a set-ID script.       *)
AllHabits == {"leak", "tty", "join", "setid"}

ASSUME DescriptorAssumption ==
  /\ IsFiniteSet(Procs) /\ Root \in Procs
  /\ NoPipe \notin Pipes
  /\ FdLimit \in Nat /\ FdLimit >= 3
  /\ Habits \subseteq AllHabits
  /\ MaxOps \in Nat
  /\ MaxChunks \in Nat

VARIABLES
  fds,        \* Proc.fds: a table of descriptors for each process
  saved,      \* Vf.fds: the table the parent of a vfork gets back
  forked,     \* Rv64.vf is set: the process plays the child of its vfork
  kind,       \* the program: a shell or an RV64 image
  allHeld,    \* Proc.allHeld
  life,       \* "unused", "run", "read" (awaits Pipe.rd) or "done"
  pipe,       \* refs, rrefs and shut of each pipe
  queue,      \* Pipe.q
  waiters,    \* Pipe.w, by the process that awaits
  did,        \* history: those of Habits that some program has shown
  handed,     \* history: both ends of the pipe were given to a program
  written,    \* history: chunks written to each pipe
  delivered,  \* history: chunks read from each pipe
  ops         \* descriptor operations so far, at most MaxOps

vars == <<fds, saved, forked, kind, allHeld, life, pipe, queue, waiters, handed,
          did, written, delivered, ops>>

FdNums == 0 .. FdLimit - 1
Stream == Pipes \cup {NoPipe}
Kinds == {"thsh", "rv64"}
Lives == {"unused", "run", "read", "done"}

(* Fd.  A number that is not in the table is Closed.                       *)
Descriptor == [open : BOOLEAN, in : Stream, out : Stream, clo : BOOLEAN]
Closed == [open |-> FALSE, in |-> NoPipe, out |-> NoPipe, clo |-> FALSE]
Reader(x) == [open |-> TRUE, in |-> x, out |-> NoPipe, clo |-> FALSE]
Writer(x) == [open |-> TRUE, in |-> NoPipe, out |-> x, clo |-> FALSE]

Table == [FdNums -> Descriptor]
NoTable == [n \in FdNums |-> Closed]

(* The table of a process that is given three streams (Proc's constructor) *)
Stdio(in, out, err) ==
  [NoTable EXCEPT ![0] = Reader(in), ![1] = Writer(out), ![2] = Writer(err)]

PipeState == [refs : Nat, rrefs : Nat, shut : BOOLEAN]
Unmade == [refs |-> 0, rrefs |-> 0, shut |-> FALSE]

-----------------------------------------------------------------------------
(* Pipe.hold, holdR, close and releaseR, for all descriptors of a table.   *)

Writers(T, x) == Cardinality({n \in FdNums : T[n].out = x})
Readers(T, x) == Cardinality({n \in FdNums : T[n].in = x})

(* Faulty variant: a count is lowered although it is zero.                 *)
Unguarded(count, n) == count - n
Less(count, n) == IF n < count THEN count - n ELSE 0

Hold(st, T) ==
  [x \in Pipes |-> [st[x] EXCEPT !.refs = @ + Writers(T, x), !.rrefs = @ + Readers(T, x)]]

(* Faulty variant: a pipe whose readers have gone stays open.              *)
WritersOnly(st, T, x) == Writers(T, x) > 0 /\ st[x].refs <= Writers(T, x)
(* close and releaseR shut the pipe when the count they lower reaches, or  *)
(* already is, zero.                                                       *)
Shuts(st, T, x) ==
  \/ Writers(T, x) > 0 /\ st[x].refs <= Writers(T, x)
  \/ Readers(T, x) > 0 /\ st[x].rrefs <= Readers(T, x)

Drop(st, T) ==
  [x \in Pipes |->
    [refs |-> Less(st[x].refs, Writers(T, x)),
     rrefs |-> Less(st[x].rrefs, Readers(T, x)),
     shut |-> st[x].shut \/ Shuts(st, T, x)]]

(* A table that has only some of the descriptors of T.                     *)
Only(T, N) == [n \in FdNums |-> IF n \in N THEN T[n] ELSE Closed]

(* What start holds, and a process without allHeld releases at its end, of *)
(* the three standard streams: one hold when output and error are one.     *)
StdHolds(T) ==
  Stdio(T[0].in, T[1].out, IF T[2].out = T[1].out THEN NoPipe ELSE T[2].out)

(* Pipe.end resolves every waiting read with an empty chunk.               *)
Woken(st) == {p \in Procs : \E x \in Pipes :
               st[x].shut /\ \E i \in 1 .. Len(waiters[x]) : waiters[x][i] = p}

(* The pipes become st; l is what the step makes of the lives itself.      *)
Settle(st, l) ==
  /\ pipe' = st
  /\ life' = [p \in Procs |-> IF p \in Woken(st) THEN "run" ELSE l[p]]
  /\ waiters' = [x \in Pipes |-> IF st[x].shut THEN <<>> ELSE waiters[x]]

(* A step that shows habit h when shown holds.                             *)
Shows(h, shown) == IF shown THEN h \in Habits /\ did' = did \cup {h} ELSE UNCHANGED did

Op == ops < MaxOps /\ ops' = ops + 1

-----------------------------------------------------------------------------
(* A shell whose standard streams are a terminal.                          *)
Init ==
  /\ fds = [p \in Procs |-> IF p = Root THEN Stdio(NoPipe, NoPipe, NoPipe) ELSE NoTable]
  /\ saved = [p \in Procs |-> NoTable]
  /\ forked = [p \in Procs |-> FALSE]
  /\ kind = [p \in Procs |-> "thsh"]
  /\ allHeld = [p \in Procs |-> FALSE]
  /\ did = {}
  /\ life = [p \in Procs |-> IF p = Root THEN "run" ELSE "unused"]
  /\ pipe = [x \in Pipes |-> Unmade]
  /\ queue = [x \in Pipes |-> <<>>]
  /\ waiters = [x \in Pipes |-> <<>>]
  /\ handed = [x \in Pipes |-> FALSE]
  /\ written = [x \in Pipes |-> 0]
  /\ delivered = [x \in Pipes |-> 0]
  /\ ops = 0

Runs(k) == {p \in Procs : life[p] = "run" /\ kind[p] = k}
Spare == {c \in Procs : life[c] = "unused"}
Opened(p) == {n \in FdNums : fds[p][n].open}

(* A pipe nobody has made yet.                                             *)
Fresh(x) == pipe[x] = Unmade /\ ~handed[x]

Free(p) == {n \in FdNums : n >= 3 /\ ~fds[p][n].open}
Lowest(N) == CHOOSE n \in N : \A m \in N : n <= m

(* Output and error are the same pipe.                                     *)
Joined(T) == T[1].out = T[2].out /\ T[1].out # NoPipe

-----------------------------------------------------------------------------
(* Sys.pipe.                                                               *)
MakePipe(p, x, clo) ==
  LET rd == Lowest(Free(p))
      wr == Lowest(Free(p) \ {rd}) IN
  /\ Fresh(x) /\ Op
  /\ Cardinality(Free(p)) >= 2
  /\ fds' = [fds EXCEPT ![p][rd] = [Reader(x) EXCEPT !.clo = clo],
                        ![p][wr] = [Writer(x) EXCEPT !.clo = clo]]
  /\ pipe' = [pipe EXCEPT ![x].refs = 1, ![x].rrefs = 1]
  /\ handed' = [handed EXCEPT ![x] = TRUE]
  /\ UNCHANGED <<did, saved, forked, kind, allHeld, life, queue, waiters, written, delivered>>

(* EMFILE for the second number: the read end stays in the table, and the  *)
(* caller never learns its number.                                         *)
MakeHalfPipe(p, x) ==
  /\ Fresh(x) /\ Op
  /\ Cardinality(Free(p)) = 1
  /\ fds' = [fds EXCEPT ![p][Lowest(Free(p))] = Reader(x)]
  /\ pipe' = [pipe EXCEPT ![x].rrefs = 1]
  /\ UNCHANGED <<did, saved, forked, kind, allHeld, life, queue, waiters, handed, written, delivered>>

(* Sys.close.                                                              *)
Close(p, n) ==
  /\ fds' = [fds EXCEPT ![p][n] = Closed]
  /\ Settle(Drop(pipe, Only(fds[p], {n})), life)
  /\ UNCHANGED <<did, saved, forked, kind, allHeld, queue, handed, written, delivered, ops>>

(* Kern.cloneFd, for dup, dup3 and fcntl: what new was is released first.  *)
Dup(p, old, new, clo) ==
  LET T == [fds[p] EXCEPT ![new] = [fds[p][old] EXCEPT !.clo = clo]] IN
  /\ Op
  /\ old # new
  /\ Shows("join", Joined(T))
  /\ fds' = [fds EXCEPT ![p] = T]
  /\ Settle(Hold(Drop(pipe, Only(fds[p], {new})), Only(T, {new})), life)
  /\ UNCHANGED <<saved, forked, kind, allHeld, queue, handed, written, delivered>>

(* Sys.open of /dev/tty: an alias of the standard input and output that    *)
(* holds neither.                                                          *)
OpenTty(p) ==
  /\ Op
  /\ Shows("tty", TRUE)
  /\ Free(p) # {}
  /\ fds' = [fds EXCEPT ![p][Lowest(Free(p))] =
               [open |-> TRUE, in |-> fds[p][0].in, out |-> fds[p][1].out, clo |-> FALSE]]
  /\ UNCHANGED <<saved, forked, kind, allHeld, life, pipe, queue, waiters, handed, written,
                 delivered>>

-----------------------------------------------------------------------------
(* Pipe.wr: a waiting read gets the chunk, or it is queued.                *)

(* Faulty variant: the chunk is queued although a read is waiting.         *)
NeverHandedOver(x) == FALSE
HandOver(x) == waiters[x] # <<>>

Write(p, n) ==
  LET x == fds[p][n].out
      chunk == written[x] + 1 IN
  /\ x # NoPipe
  /\ ~pipe[x].shut
  /\ chunk <= MaxChunks
  /\ written' = [written EXCEPT ![x] = chunk]
  /\ IF HandOver(x)
       THEN /\ waiters' = [waiters EXCEPT ![x] = Tail(@)]
            /\ life' = [life EXCEPT ![Head(waiters[x])] = "run"]
            /\ delivered' = [delivered EXCEPT ![x] = chunk]
            /\ UNCHANGED queue
       ELSE /\ queue' = [queue EXCEPT ![x] = Append(@, chunk)]
            /\ UNCHANGED <<waiters, life, delivered>>
  /\ UNCHANGED <<did, fds, saved, forked, kind, allHeld, pipe, handed, ops>>

(* Pipe.rd: the first queued chunk, the end of a pipe that is shut (which  *)
(* changes nothing), or a wait.                                            *)

(* Faulty variant: the newest chunk is taken.                              *)
NewestTaken(s) == [chunk |-> s[Len(s)], rest |-> SubSeq(s, 1, Len(s) - 1)]
Taken(s) == [chunk |-> Head(s), rest |-> Tail(s)]

ReadQueued(p, n) ==
  LET x == fds[p][n].in IN
  /\ x # NoPipe
  /\ handed[x]
  /\ queue[x] # <<>>
  /\ delivered' = [delivered EXCEPT ![x] = Taken(queue[x]).chunk]
  /\ queue' = [queue EXCEPT ![x] = Taken(queue[x]).rest]
  /\ UNCHANGED <<did, fds, saved, forked, kind, allHeld, life, pipe, waiters, handed, written, ops>>

ReadBlocks(p, n) ==
  LET x == fds[p][n].in IN
  /\ x # NoPipe
  /\ handed[x]
  /\ queue[x] = <<>>
  /\ ~pipe[x].shut
  /\ life' = [life EXCEPT ![p] = "read"]
  /\ waiters' = [waiters EXCEPT ![x] = Append(@, p)]
  /\ UNCHANGED <<did, fds, saved, forked, kind, allHeld, pipe, queue, handed, written, delivered, ops>>

-----------------------------------------------------------------------------
(* Faulty variant: the child's copy is not held.                           *)
CopyUnheld(st, T) == st
(* Rv64.copyFds with hold.                                                 *)
Copied(st, T) == Hold(st, T)

(* Rv64.clone: the process goes on as the child of its vfork, on a copy of *)
(* its table; the copy is held, the parent's table is put aside.           *)
Clone(p) ==
  /\ Op
  /\ ~forked[p]
  /\ forked' = [forked EXCEPT ![p] = TRUE]
  /\ saved' = [saved EXCEPT ![p] = fds[p]]
  /\ pipe' = Copied(pipe, fds[p])
  /\ UNCHANGED <<did, fds, kind, allHeld, life, queue, waiters, handed, written, delivered>>

(* Kern.start of process c.                                                *)
Started(c, k, all) ==
  /\ kind' = [kind EXCEPT ![c] = k]
  /\ allHeld' = [allHeld EXCEPT ![c] = all]

Keeps(T) == Only(T, {n \in FdNums : ~T[n].clo})

(* restoreVf: the parent's table is back.                                  *)
Restored(p, c, T) ==
  /\ fds' = [fds EXCEPT ![p] = saved[p], ![c] = T]
  /\ saved' = [saved EXCEPT ![p] = NoTable]
  /\ forked' = [forked EXCEPT ![p] = FALSE]

ChildDropped(st, T) == Drop(st, T)

(* Rv64.execve in the child of a vfork: a process of its own gets the      *)
(* descriptors that are not close-on-exec; the child's table is dropped.   *)
ExecChild(p, c, k) ==
  LET T == Keeps(fds[p]) IN
  /\ forked[p]
  /\ Restored(p, c, T)
  /\ Started(c, k, TRUE)
  /\ Settle(ChildDropped(Hold(pipe, T), fds[p]), [life EXCEPT ![c] = "run"])
  /\ UNCHANGED <<did, queue, handed, written, delivered, ops>>

(* Rv64.vfExit: the child's exit is played by a shell that gets its        *)
(* standard streams.                                                       *)
ExitChild(p, c) ==
  LET T == Stdio(fds[p][0].in, fds[p][1].out, fds[p][2].out) IN
  /\ forked[p]
  /\ Restored(p, c, T)
  /\ Started(c, "thsh", FALSE)
  /\ Settle(ChildDropped(Hold(pipe, StdHolds(T)), fds[p]), [life EXCEPT ![c] = "run"])
  /\ UNCHANGED <<did, queue, handed, written, delivered, ops>>

(* Rv64.execve and ExecReplace outside a vfork: the image is replaced and  *)
(* the close-on-exec descriptors are released one by one.                  *)
ExecReplace(p, k) ==
  LET T == Keeps(fds[p])
      gone == Only(fds[p], {n \in FdNums : fds[p][n].clo}) IN
  /\ Op
  /\ ~forked[p]
  /\ fds' = [fds EXCEPT ![p] = T]
  /\ kind' = [kind EXCEPT ![p] = k]
  /\ Settle(Drop(pipe, gone), life)
  /\ UNCHANGED <<did, saved, forked, allHeld, queue, handed, written, delivered>>

-----------------------------------------------------------------------------
(* Shell.unit: one command, on the shell's own streams.                    *)
StartCommand(p, c, k) ==
  LET T == Stdio(fds[p][0].in, fds[p][1].out, fds[p][2].out) IN
  /\ fds' = [fds EXCEPT ![c] = T]
  /\ Started(c, k, FALSE)
  /\ Settle(Hold(pipe, StdHolds(T)), [life EXCEPT ![c] = "run"])
  /\ UNCHANGED <<did, saved, forked, queue, handed, written, delivered, ops>>

(* Two commands with a new pipe between them.                              *)
StartPipeline(p, c, d, j, k, x) ==
  LET T == Stdio(fds[p][0].in, x, fds[p][2].out)
      U == Stdio(x, fds[p][1].out, fds[p][2].out) IN
  /\ c # d /\ Fresh(x)
  /\ fds' = [fds EXCEPT ![c] = T, ![d] = U]
  /\ kind' = [kind EXCEPT ![c] = j, ![d] = k]
  /\ allHeld' = [allHeld EXCEPT ![c] = FALSE, ![d] = FALSE]
  /\ Settle(Hold(Hold(pipe, StdHolds(T)), StdHolds(U)), [life EXCEPT ![c] = "run", ![d] = "run"])
  /\ handed' = [handed EXCEPT ![x] = TRUE]
  /\ UNCHANGED <<did, saved, forked, queue, written, delivered, ops>>

(* The second command cannot be started: the first runs on, with a pipe    *)
(* that nobody reads.                                                      *)
PipelineFails(p, c, k, x) ==
  LET T == Stdio(fds[p][0].in, x, fds[p][2].out) IN
  /\ Fresh(x)
  /\ fds' = [fds EXCEPT ![c] = T]
  /\ Started(c, k, FALSE)
  /\ Settle(Hold(pipe, StdHolds(T)), [life EXCEPT ![c] = "run"])
  /\ UNCHANGED <<did, saved, forked, queue, handed, written, delivered, ops>>

(* A set-ID script is refused after its streams were held.                 *)
ScriptRefused(p) ==
  LET T == Stdio(fds[p][0].in, fds[p][1].out, fds[p][2].out) IN
  /\ Op
  /\ Shows("setid", TRUE)
  /\ pipe' = Hold(pipe, StdHolds(T))
  /\ UNCHANGED <<fds, saved, forked, kind, allHeld, life, queue, waiters, handed,
                 written, delivered>>

(* What the end of process p releases (the finally of Kern.run).           *)
AtEnd(p) == IF allHeld[p] THEN fds[p] ELSE StdHolds(fds[p])

Tidy(p) ==
  /\ ~forked[p]
  /\ \A x \in Pipes : Writers(AtEnd(p), x) = Writers(fds[p], x) /\ Readers(AtEnd(p), x) = Readers(fds[p], x)

(* The program exits, faults, or is stopped by a signal; as the child of a *)
(* vfork only the latter two.                                              *)
End(p) ==
  /\ life[p] = "run" /\ p # Root
  /\ Shows("leak", ~Tidy(p))
  /\ fds' = [fds EXCEPT ![p] = NoTable]
  /\ saved' = [saved EXCEPT ![p] = NoTable]
  /\ forked' = [forked EXCEPT ![p] = FALSE]
  /\ Settle(Drop(pipe, AtEnd(p)), [life EXCEPT ![p] = "done"])
  /\ UNCHANGED <<kind, allHeld, queue, handed, written, delivered, ops>>

Descriptors(p) ==
  \/ \E x \in Pipes, clo \in BOOLEAN : MakePipe(p, x, clo)
  \/ \E x \in Pipes : MakeHalfPipe(p, x)
  \/ \E n \in Opened(p) : Close(p, n) \/ Write(p, n) \/ ReadQueued(p, n) \/ ReadBlocks(p, n)
  \/ \E old \in Opened(p), new \in FdNums, clo \in BOOLEAN : Dup(p, old, new, clo)
  \/ OpenTty(p)

Images(p) ==
  \/ Clone(p)
  \/ \E k \in Kinds : ExecReplace(p, k)
  \/ \E c \in Spare, k \in Kinds : ExecChild(p, c, k)
  \/ \E c \in Spare : ExitChild(p, c)

Commands(p) ==
  \/ \E c \in Spare, k \in Kinds : StartCommand(p, c, k)
  \/ \E c, d \in Spare, j, k \in Kinds, x \in Pipes : StartPipeline(p, c, d, j, k, x)
  \/ \E c \in Spare, k \in Kinds, x \in Pipes : PipelineFails(p, c, k, x)
  \/ ScriptRefused(p)

Next ==
  \/ \E p \in Runs("rv64") : Descriptors(p) \/ Images(p)
  \/ \E p \in Runs("thsh") : Commands(p)
  \/ \E p \in Procs : End(p)

Spec == Init /\ [][Next]_vars

-----------------------------------------------------------------------------
(* The range of every variable.                                            *)
TypeOK ==
  /\ fds \in [Procs -> Table]
  /\ saved \in [Procs -> Table]
  /\ forked \in [Procs -> BOOLEAN]
  /\ kind \in [Procs -> Kinds]
  /\ allHeld \in [Procs -> BOOLEAN]
  /\ did \subseteq Habits
  /\ life \in [Procs -> Lives]
  /\ pipe \in [Pipes -> PipeState]
  /\ queue \in [Pipes -> Seq(Nat)]
  /\ waiters \in [Pipes -> Seq(Procs)]
  /\ handed \in [Pipes -> BOOLEAN]
  /\ written \in [Pipes -> 0 .. MaxChunks]
  /\ delivered \in [Pipes -> 0 .. MaxChunks]
  /\ ops \in 0 .. MaxOps

(* The descriptors through which a pipe can still be used, those that a    *)
(* vfork has put aside included.                                           *)
Outs(tables, x) == Cardinality({d \in Procs \X FdNums : tables[d[1]][d[2]].out = x})
Ins(tables, x) == Cardinality({d \in Procs \X FdNums : tables[d[1]][d[2]].in = x})
LiveWriters(x) == Outs(fds, x) + Outs(saved, x)
LiveReaders(x) == Ins(fds, x) + Ins(saved, x)

(* The counts of a pipe are the numbers of its descriptors, whatever       *)
(* starts, vforks, replacements and ends the programs go through, as long  *)
(* as none has shown one of the habits.                                    *)
HoldsExact ==
  did = {} =>
    \A x \in Pipes : pipe[x].refs = LiveWriters(x) /\ pipe[x].rrefs = LiveReaders(x)

(* The standard input of a shell is not shut while it is still written to, *)
(* whatever the processes the shell starts do with theirs.                 *)
ShellKeepsStdin ==
  \A p \in Procs, x \in Pipes :
    life[p] = "run" /\ kind[p] = "thsh" /\ fds[p][0].in = x /\ pipe[x].refs > 0 =>
      ~pipe[x].shut

(* A pipe both ends of which were in use is shut once all descriptors of   *)
(* one side are gone: its readers get the end of the stream and its        *)
(* writers are told that nobody reads, so that a pipeline ends.  Aliases   *)
(* that are not held shut it too early, never too late.                    *)
PipeEnds ==
  {"leak", "setid"} \cap did = {} => \A x \in Pipes :
    handed[x] /\ (LiveWriters(x) = 0 \/ LiveReaders(x) = 0) => pipe[x].shut

(* No read waits for a chunk that is there, or on a pipe that is shut.     *)
NoLostWakeup ==
  \A x \in Pipes : waiters[x] # <<>> => queue[x] = <<>> /\ ~pipe[x].shut

(* The queue holds, in order, exactly the chunks written and not yet read: *)
(* none is lost, repeated or overtaken by a chunk handed to a waiting read.*)
ChunksInOrder ==
  \A x \in Pipes :
    /\ Len(queue[x]) = written[x] - delivered[x]
    /\ \A i \in 1 .. Len(queue[x]) : queue[x][i] = delivered[x] + i
=============================================================================
