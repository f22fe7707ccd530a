---------------------------- MODULE ThistleProc ----------------------------
(***************************************************************************)
(* Processes of the Thistle kernel: starting, sleeping, signals, waiting,  *)
(* reaping, and the jobs of the session's shell (src/src/core/proc.ts,     *)
(* sched.ts, kernel.ts, sys.ts and sh/shell.ts).                           *)
(*                                                                         *)
(* A process is two things that end at different times: the entry that the *)
(* kernel keeps (state, code, sig) and the asynchronous function that runs *)
(* its program, here its body.  The kernel runs on one thread; an action   *)
(* is what runs between two awaits.                                        *)
(***************************************************************************)
EXTENDS Integers, FiniteSets

CONSTANTS
  MaxPid,   \* bound on process ids
  Signals,  \* the signals that are sent
  HabitSets, \* what users and programs may be like; see AllHabits
  Statuses, \* what programs return
  Errors,   \* the statuses of errors that end a program, but for EPIPE
  MaxWidth, \* bound on the commands of one pipeline
  MaxOps    \* bound on the calls made by the programs of a run

(* "mask": a program masks signals.  "setid": a command is a set-user-ID   *)
(* image of root.  "missing": a pipeline names a command that cannot be    *)
(* started.  "offline": the file of an image cannot be fetched.  "read": a *)
(* program reads a terminal or a pipe, which may have nothing for it, for  *)
(* good.  "fails": a program meets an error.  "endless": it need not       *)
(* return by itself.  A behaviour has one set of them, chosen at the       *)
(* start.                                                                  *)
AllHabits == {"mask", "setid", "missing", "offline", "read", "fails", "endless"}

Shell == 2   \* the first session
SigKill == 9
SigInt == 2
EPipe == 141

ASSUME ProcAssumption ==
  /\ MaxPid \in Nat /\ MaxPid >= Shell
  /\ Signals \subseteq {1, 2, 9, 13, 15}
  /\ HabitSets \subseteq SUBSET AllHabits /\ HabitSets # {}
  /\ Statuses \subseteq 0 .. 255
  /\ Errors \subseteq {1, 126, 127, 130}
  /\ MaxWidth \in Nat \ {0}
  /\ MaxOps \in Nat

VARIABLES
  table,    \* Kern.procs, without process 1
  seq,      \* Kern.seq
  state,    \* Proc.state
  code,     \* Proc.code, or NoCode
  sig,      \* Proc.sig, or NoSig: Proc.ac is aborted when it is not NoSig
  mask,     \* Proc.signalMask
  pending,  \* Proc.pending, or NoSig
  parent,   \* Proc.ppid; those of the table make up Proc.kids
  pgid,     \* Proc.pgid
  cred,     \* Proc.cred: real and effective user
  body,     \* where the function that runs the program is; see Bodies
  waitsFor, \* the process whose Proc.done the body awaits, or 0
  front,    \* Shell.fg
  jobs,     \* Shell.jobs, by process group
  habits,   \* the set in force, which never changes
  own,      \* history: the processes whose program chose their status, by
            \* returning it or by an error of its own
  ops       \* calls made so far, at most MaxOps

entries == <<state, code, sig, mask, pending>>
family == <<table, seq, parent, pgid>>
shell == <<front, jobs>>
settled == <<cred, habits, own>>
vars == <<entries, family, settled, body, waitsFor, shell, ops>>

Pids == Shell .. MaxPid
NoSig == 0
NoCode == -1
States == {"ready", "run", "sleep", "zombie"}

(* "none": never started.  "queued": a microtask of Sched.add.  "loading": *)
(* awaits its file, "lost" when that failed.  "asleep": awaits its timer,  *)
(* an answer or the abort; "deaf" when it began to listen after the abort. *)
(* "broken": the abort has rejected what it awaits.  "yielding": in        *)
(* Sched.yield.  "reading": awaits a chunk of its input.  "waiting":       *)
(* awaits another's end.  "failing": run writes the message of the error   *)
(* that ended the program.  "gone": run has returned.                      *)
Bodies == {"none", "queued", "loading", "lost", "run", "asleep", "deaf", "broken",
           "yielding", "reading", "waiting", "failing", "gone"}

(* "setid" is the user's process with root's effective identity.           *)
Creds == {"user", "setid", "root"}
RealRoot(p) == cred[p] = "root"
EffectiveRoot(p) == cred[p] \in {"setid", "root"}

Alive(p) == body[p] # "none" /\ code[p] = NoCode
Ended(p) == code[p] # NoCode
Group(g) == {p \in table : pgid[p] = g}
(* The processes of a unit: what the shell started with that group.        *)
Ps(g) == {p \in Pids : parent[p] = Shell /\ pgid[p] = g}

Init ==
  /\ table = {Shell} /\ seq = Shell + 1
  /\ state = [p \in Pids |-> IF p = Shell THEN "run" ELSE "ready"]
  /\ code = [p \in Pids |-> NoCode] /\ sig = [p \in Pids |-> NoSig]
  /\ mask = [p \in Pids |-> {}] /\ pending = [p \in Pids |-> NoSig]
  /\ parent = [p \in Pids |-> 0] /\ pgid = [p \in Pids |-> IF p = Shell THEN Shell ELSE 0]
  /\ cred = [p \in Pids |-> "user"]
  /\ body = [p \in Pids |-> IF p = Shell THEN "run" ELSE "none"]
  /\ waitsFor = [p \in Pids |-> 0]
  /\ front = 0 /\ jobs = {} /\ habits \in HabitSets /\ own = {} /\ ops = 0

-----------------------------------------------------------------------------
(* Starting.                                                               *)

Created(p, new, group, privileged) ==
  /\ table' = table \cup new
  /\ seq' = seq + Cardinality(new)
  /\ parent' = [q \in Pids |-> IF q \in new THEN p ELSE parent[q]]
  /\ pgid' = [q \in Pids |-> IF q \in new THEN group ELSE pgid[q]]
  /\ cred' = [q \in Pids |-> CASE q \in privileged -> IF RealRoot(p) THEN "root" ELSE "setid"
                               [] q \in new \ privileged -> cred[p]
                               [] OTHER -> cred[q]]
  /\ body' = [q \in Pids |-> IF q \in new THEN "queued" ELSE body[q]]

SetIds(new) == IF "setid" \in habits THEN SUBSET new ELSE {{}}

(* The shell starts the n commands of a unit with one process group, that  *)
(* of the first, before it awaits anything; a unit in the background is a  *)
(* job.  When a command cannot be started the unit throws, and those       *)
(* before it run on.                                                       *)
StartUnit(n, fate) ==
  LET new == seq .. seq + n - 1 IN
  /\ front = 0 /\ seq + n - 1 <= MaxPid
  /\ \E privileged \in SetIds(new) : Created(Shell, new, seq, privileged)
  /\ CASE fate = "foreground" -> front' = seq /\ jobs' = jobs
       [] fate = "background" -> front' = front /\ jobs' = jobs \cup {seq}
       [] fate = "fails" -> "missing" \in habits /\ UNCHANGED shell
  /\ UNCHANGED <<entries, waitsFor, habits, own, ops>>

Call(p) == p # Shell /\ body[p] = "run" /\ ops < MaxOps /\ ops' = ops + 1

(* A program starts another one, which gets a process group of its own.    *)
StartChild(p) ==
  /\ Call(p) /\ seq <= MaxPid
  /\ \E privileged \in SetIds({seq}) : Created(p, {seq}, seq, privileged)
  /\ UNCHANGED <<entries, waitsFor, shell, habits, own>>

Queued(p) == body[p] = "queued" /\ body' = [body EXCEPT ![p] = "loading"]
             /\ UNCHANGED <<entries, family, settled, waitsFor, shell, ops>>

(* run marks the process, although a signal may have ended it by now.      *)
Loaded(p) ==
  /\ body[p] = "loading"
  /\ body' = [body EXCEPT ![p] = "run"]
  /\ state' = [state EXCEPT ![p] = "run"]
  /\ UNCHANGED <<code, sig, mask, pending, family, settled, waitsFor, shell, ops>>

(* The file cannot be fetched: nobody calls run, nor end.                  *)
LoadFails(p) ==
  /\ "offline" \in habits /\ body[p] = "loading"
  /\ body' = [body EXCEPT ![p] = "lost"]
  /\ UNCHANGED <<entries, family, settled, waitsFor, shell, ops>>

-----------------------------------------------------------------------------
(* Ending.                                                                 *)

(* Proc.end: the first status is the one that counts.                      *)
(* Faulty variant: the last one does.                                      *)
Overwritten(p, n) == n % 256
Status(p, n) == IF Ended(p) THEN code[p] ELSE n % 256

Finish(p, n) ==
  /\ code' = [code EXCEPT ![p] = Status(p, n)]
  /\ state' = [state EXCEPT ![p] = IF Ended(p) THEN @ ELSE "zombie"]
  /\ body' = [body EXCEPT ![p] = "gone"]
  /\ UNCHANGED <<sig, mask, pending, family, cred, habits, waitsFor, shell, ops>>

(* The status is the program's choice, unless the process had one already. *)
Chosen(p) == own' = IF Ended(p) THEN own ELSE own \cup {p}

(* The program returns, signalled or not.                                  *)
Exit(p, n) == p # Shell /\ body[p] = "run" /\ Finish(p, n) /\ Chosen(p)

(* What run makes of an error once the process was signalled.              *)
StatusOf(p) == 128 + sig[p]

(* The program notices that it was signalled, as Sys.chk throws, or meets  *)
(* any other error.                                                        *)
Chk(p) ==
  p # Shell /\ body[p] = "run" /\ sig[p] # NoSig /\ Finish(p, StatusOf(p)) /\ UNCHANGED own

(* EPIPE ends the program without a message,                               *)
BreaksPipe(p) ==
  /\ "fails" \in habits /\ p # Shell /\ body[p] = "run" /\ sig[p] = NoSig
  /\ Finish(p, EPipe) /\ Chosen(p)

(* any other error with one, which takes a while to write: a signal may    *)
(* come in between, but the status is decided.                             *)
Throws(p) ==
  /\ "fails" \in habits /\ p # Shell /\ body[p] = "run" /\ sig[p] = NoSig
  /\ body' = [body EXCEPT ![p] = "failing"]
  /\ UNCHANGED <<entries, family, settled, waitsFor, shell, ops>>
Complained(p, n) == body[p] = "failing" /\ Finish(p, n) /\ Chosen(p)

-----------------------------------------------------------------------------
(* Sleeping, requests to the network and yielding.                         *)

(* A listener that is added after the abort is never called.               *)
SleepStart(p) ==
  /\ Call(p)
  /\ state' = [state EXCEPT ![p] = "sleep"]
  /\ body' = [body EXCEPT ![p] = IF sig[p] = NoSig THEN "asleep" ELSE "deaf"]
  /\ UNCHANGED <<code, sig, mask, pending, family, settled, waitsFor, shell>>

(* Net.req: a timer and a listener of its own, and an answer, which may be *)
(* that of the last of several redirections.  The process does not count   *)
(* as sleeping.                                                            *)
RequestStart(p) ==
  /\ Call(p)
  /\ body' = [body EXCEPT ![p] = IF sig[p] = NoSig THEN "asleep" ELSE "deaf"]
  /\ UNCHANGED <<entries, family, settled, waitsFor, shell>>

YieldStart(p) ==
  /\ Call(p)
  /\ state' = [state EXCEPT ![p] = "ready"]
  /\ body' = [body EXCEPT ![p] = "yielding"]
  /\ UNCHANGED <<code, sig, mask, pending, family, settled, waitsFor, shell>>

(* A read of a terminal or a pipe does not hear of signals.                *)
ReadStart(p) ==
  /\ "read" \in habits /\ Call(p)
  /\ body' = [body EXCEPT ![p] = "reading"]
  /\ UNCHANGED <<entries, family, settled, waitsFor, shell>>

(* There is something to read, or ^C has woken the reader.                 *)
ReadDone(p) ==
  /\ body[p] = "reading"
  /\ body' = [body EXCEPT ![p] = "run"]
  /\ UNCHANGED <<entries, family, settled, waitsFor, shell, ops>>

(* Faulty variant: the abort clears the timer of a sleep that cannot hear  *)
(* it.                                                                     *)
TimerCleared == {"asleep", "broken", "yielding"}
(* What a timer, an answer, a rejection or a microtask lets go on.         *)
Resumable == {"asleep", "deaf", "broken", "yielding"}

Resume(p) ==
  /\ body[p] \in Resumable
  /\ body' = [body EXCEPT ![p] = "run"]
  /\ state' = [state EXCEPT ![p] = IF Ended(p) THEN @ ELSE "run"]
  /\ UNCHANGED <<code, sig, mask, pending, family, settled, waitsFor, shell, ops>>

-----------------------------------------------------------------------------
(* Waiting.                                                                *)

(* Kern.wait lets root wait for any process.                               *)
Wait(p, c) ==
  /\ Call(p) /\ c \in table
  /\ parent[c] = p \/ EffectiveRoot(p)
  /\ body' = [body EXCEPT ![p] = "waiting"]
  /\ waitsFor' = [waitsFor EXCEPT ![p] = c]
  /\ UNCHANGED <<entries, family, settled, shell>>

(* Kern.reap of each of ps.                                                *)
Reap(ps) ==
  /\ table' = table \ {p \in ps : p > Shell /\ Ended(p)}
  /\ UNCHANGED <<seq, parent, pgid>>

WaitDone(p) ==
  /\ body[p] = "waiting" /\ Ended(waitsFor[p])
  /\ Reap({waitsFor[p]})
  /\ body' = [body EXCEPT ![p] = "run"]
  /\ waitsFor' = [waitsFor EXCEPT ![p] = 0]
  /\ UNCHANGED <<entries, settled, shell, ops>>

(* fg and wait: the shell awaits a job that it started in the background.  *)
Foreground(g) ==
  /\ front = 0 /\ g \in jobs
  /\ front' = g
  /\ UNCHANGED <<entries, family, settled, body, waitsFor, jobs, ops>>

(* Faulty variant: the end of the last command is the end of the unit.     *)
LastEnded(g) == \E p \in Ps(g) : Ended(p) /\ \A q \in Ps(g) : q <= p
AllEnded(g) == \A p \in Ps(g) : Ended(p)

(* All commands of the unit have ended: the shell reaps them.              *)
ForegroundDone ==
  /\ front # 0 /\ AllEnded(front)
  /\ Reap(Ps(front))
  /\ front' = 0 /\ jobs' = jobs \ {front}
  /\ UNCHANGED <<entries, settled, body, waitsFor, ops>>

-----------------------------------------------------------------------------
(* Signals.                                                                *)

Masked(p, s) == s # SigKill /\ s \in mask[p]

(* Faulty variant: an entry that has ended still takes a signal.           *)
TakesAny(p, s) == ~Masked(p, s)
(* Proc.signal sets sig and aborts.                                        *)
Takes(p, s) == ~Ended(p) /\ ~Masked(p, s)

(* Kern.kill on each of hit: the signal, then the end of what cannot or    *)
(* need not notice it.                                                     *)
Deliver(hit, s) ==
  LET ends(p) == p \in hit /\ (s = SigKill \/ state[p] = "sleep")
      takes(p) == p \in hit /\ Takes(p, s)
  IN
  /\ sig' = [p \in Pids |-> IF takes(p) THEN s ELSE sig[p]]
  /\ pending' = [p \in Pids |-> IF p \in hit /\ ~Ended(p) /\ Masked(p, s) THEN s ELSE pending[p]]
  /\ code' = [p \in Pids |-> IF ends(p) THEN Status(p, 128 + s) ELSE code[p]]
  /\ state' = [p \in Pids |-> IF ends(p) /\ ~Ended(p) THEN "zombie" ELSE state[p]]
  /\ body' = [p \in Pids |-> IF takes(p) /\ body[p] = "asleep" THEN "broken" ELSE body[p]]
  /\ UNCHANGED <<mask, family, settled, waitsFor, shell>>

(* EPERM: another real user's process, for a sender that is not root.      *)
Refused(by, p) == ~EffectiveRoot(by) /\ RealRoot(p) # RealRoot(by)

(* Faulty variant: only the leader of a group is signalled.                *)
LeaderOnly(by, targets) == {p \in targets : \A q \in targets : p <= q}
(* Targets are taken in the order of the table; the first refusal throws,  *)
(* and what comes after it is left alone.                                  *)
Reached(by, targets) ==
  {p \in targets : \A q \in targets : q <= p => ~Refused(by, q)}

Kill(by, s) ==
  /\ Call(by)
  /\ \E p \in table : Deliver(Reached(by, {p}), s) \/ Deliver(Reached(by, Group(pgid[p])), s)

(* ^C on the terminal; what kill throws is swallowed.                      *)
Interrupt ==
  /\ front # 0 /\ SigInt \in Signals
  /\ Deliver(Reached(Shell, Group(front)), SigInt)
  /\ UNCHANGED ops

(* Faulty variant: SIGKILL can be masked.                                  *)
MaskAll(m) == m
MaskOf(m) == m \ {SigKill}

(* setSignalMask: a signal that is no longer masked is delivered.          *)
SetMask(p, m) ==
  LET now == MaskOf(m)
      due == pending[p] # NoSig /\ pending[p] \notin now
  IN
  /\ "mask" \in habits /\ Call(p)
  /\ mask' = [mask EXCEPT ![p] = now]
  /\ pending' = [pending EXCEPT ![p] = IF due THEN NoSig ELSE @]
  /\ sig' = [sig EXCEPT ![p] = IF due /\ ~Ended(p) THEN pending[p] ELSE @]
  /\ UNCHANGED <<state, code, family, settled, body, waitsFor, shell>>

(* setuid: with root's effective identity to root, or back to the user.    *)
SetUid(p) ==
  /\ Call(p) /\ EffectiveRoot(p)
  /\ \E c \in {"root", "user"} : cred' = [cred EXCEPT ![p] = c]
  /\ UNCHANGED <<entries, family, body, waitsFor, shell, habits, own>>

-----------------------------------------------------------------------------
Continue(p) ==
  \/ Queued(p)
  \/ Loaded(p)
  \/ Resume(p)
  \/ WaitDone(p)

Returns(p) == (\E n \in Statuses : Exit(p, n)) \/ BreaksPipe(p) \/ Throws(p)

Finishes(p) ==
  \/ Returns(p)
  \/ Chk(p)
  \/ \E n \in Errors : Complained(p, n)

Calls(p) ==
  \/ StartChild(p)
  \/ SleepStart(p)
  \/ RequestStart(p)
  \/ YieldStart(p)
  \/ ReadStart(p)
  \/ \E c \in Pids : Wait(p, c)
  \/ \E s \in Signals : Kill(p, s)
  \/ \E m \in SUBSET Signals : SetMask(p, m)
  \/ SetUid(p)

Next ==
  \/ \E p \in Pids : Continue(p) \/ ReadDone(p) \/ Finishes(p) \/ Calls(p) \/ LoadFails(p)
  \/ \E n \in 1 .. MaxWidth, fate \in {"foreground", "background", "fails"} : StartUnit(n, fate)
  \/ \E g \in jobs : Foreground(g)
  \/ ForegroundDone
  \/ Interrupt

Spec == Init /\ [][Next]_vars

(* The event loop runs every timer and microtask, a message gets written,  *)
(* a program that goes on asks for signals between two batches of          *)
(* instructions or lines, and one that is not endless returns.  Nothing is *)
(* assumed of input.                                                       *)
FairSpec ==
  /\ Spec
  /\ \A p \in Pids :
       /\ WF_vars(Continue(p))
       /\ WF_vars(Chk(p))
       /\ WF_vars(\E n \in Errors : Complained(p, n))
       /\ WF_vars("endless" \notin habits /\ Returns(p))
  /\ WF_vars(ForegroundDone)

-----------------------------------------------------------------------------
(* The range of every variable.                                            *)
TypeOK ==
  /\ table \subseteq Pids /\ seq \in Shell + 1 .. MaxPid + 1
  /\ state \in [Pids -> States]
  /\ code \in [Pids -> 0 .. 255 \cup {NoCode}]
  /\ sig \in [Pids -> Signals \cup {NoSig}]
  /\ mask \in [Pids -> SUBSET (Signals \ {SigKill})]
  /\ pending \in [Pids -> (Signals \ {SigKill}) \cup {NoSig}]
  /\ parent \in [Pids -> Pids \cup {0}] /\ pgid \in [Pids -> Pids \cup {0}]
  /\ cred \in [Pids -> Creds]
  /\ body \in [Pids -> Bodies]
  /\ waitsFor \in [Pids -> Pids \cup {0}]
  /\ front \in Pids \cup {0} /\ jobs \subseteq Pids
  /\ habits \in HabitSets
  /\ own \subseteq Pids
  /\ ops \in 0 .. MaxOps

(* The status of a process and the signal that ended it never change once  *)
(* they are set, though its body may run on: kill -9 and the program's own *)
(* return race for them, and wait and wait4 read them later.               *)
EndIsFinal ==
  [][\A p \in Pids : Ended(p) => code'[p] = code[p] /\ sig'[p] = sig[p]]_vars

(* The status of a process names the signal it took, so that wait, which   *)
(* reads the status, and wait4, which reads the signal, tell the same      *)
(* story: unless the program returned by itself or met an error before it  *)
(* was signalled, or sleeps with the signal masked, when Kern.kill ends it *)
(* all the same.                                                           *)
StatusNamesSignal ==
  "mask" \notin habits =>
    \A p \in Pids : Ended(p) /\ p \notin own => sig[p] # NoSig /\ code[p] = 128 + sig[p]

(* What the shell started and has not reaped is in its foreground unit or  *)
(* in one of its jobs, so that no command is left in the table for good:   *)
(* unless a later command of its pipeline could not be started.            *)
NothingForgotten ==
  "missing" \notin habits =>
    \A p \in table : parent[p] = Shell => pgid[p] \in jobs \cup {front}

(* ^C reaches every command of the foreground unit, not only the first:    *)
(* unless one of them has become another real user's process.              *)
InterruptReachesUnit ==
  [][Interrupt =>
       \A p \in Ps(front) : Alive(p) /\ "setid" \notin habits =>
         sig'[p] = SigInt \/ pending'[p] = SigInt]_vars

(* The shell gets its prompt back from every unit in the foreground: as    *)
(* long as programs return, have what they read, the file of every image   *)
(* can be fetched and nobody with root's effective identity waits for a    *)
(* process that waits for it.                                              *)
Settles == {"offline", "setid", "read", "endless"} \cap habits = {}
ForegroundReturns == (front # 0 /\ Settles) ~> front = 0

(* Waits for input or for another process, which no signal undoes.         *)
Blocked(p) == body[p] = "reading" \/ (body[p] = "waiting" /\ ~Ended(waitsFor[p]))

(* The body of a process that was ended from outside stops, even if its    *)
(* program would go on for ever, unless it waits for input or for another  *)
(* process: as long as nobody masks signals (a process ended in its sleep  *)
(* by one that it masks is never told) and files can be fetched.           *)
EndedStops ==
  \A p \in Pids \ {Shell} :
    (Ended(p) /\ {"offline", "mask"} \cap habits = {}) ~> body[p] = "gone" \/ Blocked(p)
=============================================================================
