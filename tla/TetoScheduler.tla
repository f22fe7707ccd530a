--------------------------- MODULE TetoScheduler ---------------------------
(***************************************************************************)
(* The Teto kernel's hart scheduler (src/src/teto/kernel.ts).              *)
(*                                                                         *)
(* Several workers (WebAssembly instances over one shared memory) execute  *)
(* a table of RV64 harts.  All coordination goes through lock words that   *)
(* are taken with one compare-and-exchange and are never waited for: a     *)
(* caller that loses gets BUSY or CONTENDED and changes nothing: a worker  *)
(* that asks for a batch asks again, one that brings an answer does not    *)
(* (Rv64.runTetoCore ends with EPROTO).  A step of this module is one      *)
(* access to a shared word that another worker can observe; what a worker  *)
(* does under a hart's lock and nobody reads without it is one step.       *)
(***************************************************************************)
EXTENDS Integers, Sequences, FiniteSets

CONSTANTS
  Workers,     \* the workers that share the memory
  MaxHarts,    \* C_MAX_HARTS
  Budget,      \* instructions per batch
  Programs,    \* the instruction streams a hart may hold
  Servers,     \* workers that answer requests (Rv64.runTetoCore); the others
               \* leave their loop with the request they got (test/teto-worker.ts)
  Direct,      \* workers that also call tetoRunRv64Batch on a hart of their choice
  Reapers      \* workers that also call tetoExitHart

(* What the scheduler can tell apart about an instruction.                 *)
Instructions == {"alu", "jump", "atomic", "credential", "touch", "trap", "write", "exit", "bad"}

ASSUME SchedulerAssumption ==
  /\ IsFiniteSet(Workers)
  /\ MaxHarts \in Nat \ {0}
  /\ Budget \in Nat \ {0}
  /\ Programs \subseteq Seq(Instructions)
  /\ Servers \subseteq Workers
  /\ Direct \subseteq Workers
  /\ Reapers \subseteq Workers

Harts == 0 .. MaxHarts - 1

(* The kernel-wide locks an instruction may take: C_ATOMIC_LOCK,           *)
(* C_CREDENTIAL_LOCK and C_MEMORY_LOCK.                                    *)
KernelLocks == {"atomic", "credential", "touch"}

VARIABLES
  hartLock,      \* H_LOCK
  status,        \* H_STATUS
  event,         \* H_EVENT
  procState,     \* P_STATE of the hart's process
  pc,            \* H_PC, in instructions
  program,       \* the hart's instruction stream (never changes)
  schedLock,     \* C_SCHED_LOCK
  cursor,        \* C_SCHED_CURSOR
  kernelLock,    \* the words of KernelLocks
  active,        \* C_ACTIVE_WORKERS
  at,            \* where each worker is
  cur,           \* the hart it works on
  scan,          \* harts it has looked at under C_SCHED_LOCK
  count,         \* instructions of its batch
  result,        \* the result of its batch
  retired        \* history: instructions each hart has completed since it last
                 \* jumped back to its first one

kernelVars == <<hartLock, status, event, procState, pc, schedLock, cursor, kernelLock, active>>
workerVars == <<at, cur, scan, count, result>>
vars == <<hartLock, status, event, procState, pc, program, schedLock, cursor,
          kernelLock, active, at, cur, scan, count, result, retired>>

Status == {"runnable", "waiting", "exited", "faulted"}
Events == {"none", "syscall", "host"}
ProcStates == {"runnable", "waiting", "zombie"}
Results == {"budget", "syscall", "host", "exited", "fault", "busy", "contended"}
Places == {"host", "scan", "claim", "claimed", "enter", "step", "locked", "leave",
           "serve", "resume", "resumed", "refused", "reap", "reaped", "broken", "ended"}

(* The places from which a worker owns the lock word of its hart.          *)
Owning == {"claimed", "enter", "step", "locked", "leave", "resume", "resumed", "refused",
           "reap", "reaped"}
(* The places inside the region runHartLocked counts in C_ACTIVE_WORKERS.  *)
Executing == {"step", "locked", "leave"}
(* The places from which a worker owns C_SCHED_LOCK.                       *)
Scanning == {"scan", "claim", "claimed"}
(* A worker that calls the kernel no more: its loop is over, or it has     *)
(* given up with a request that nobody will answer.                        *)
Stopped == {"ended", "broken"}

-----------------------------------------------------------------------------
(* After tetoKernelInit, tetoHartInit and tetoProcessInit for every hart,  *)
(* before the first worker starts.                                         *)
Init ==
  /\ hartLock = [h \in Harts |-> 0]
  /\ status = [h \in Harts |-> "runnable"]
  /\ event = [h \in Harts |-> "none"]
  /\ procState = [h \in Harts |-> "runnable"]
  /\ pc = [h \in Harts |-> 0]
  /\ program \in [Harts -> Programs]
  /\ schedLock = 0
  /\ cursor = 0
  /\ kernelLock = [k \in KernelLocks |-> 0]
  /\ active = 0
  /\ at = [w \in Workers |-> "host"]
  /\ cur = [w \in Workers |-> 0]
  /\ scan = [w \in Workers |-> 0]
  /\ count = [w \in Workers |-> 0]
  /\ result = [w \in Workers |-> "budget"]
  /\ retired = [h \in Harts |-> 0]

Go(w, place) == at' = [at EXCEPT ![w] = place]

(* Faulty variant: the word is stored, not compared.                       *)
StoreLock(h) == hartLock' = [hartLock EXCEPT ![h] = 1]
(* acquire and release of H_LOCK: a compare-and-exchange of a free word.   *)
AcquireHart(h) == hartLock[h] = 0 /\ hartLock' = [hartLock EXCEPT ![h] = 1]
ReleaseHart(h) == hartLock' = [hartLock EXCEPT ![h] = 0]

-----------------------------------------------------------------------------
(* tetoRunSchedulerBatch.  A worker that finds C_SCHED_LOCK taken returns  *)
(* CONTENDED and changes nothing but a counter.                            *)

StartScan(w) ==
  /\ at[w] = "host"
  /\ schedLock = 0
  /\ schedLock' = 1
  /\ scan' = [scan EXCEPT ![w] = 0]
  /\ Go(w, "scan")
  /\ UNCHANGED <<hartLock, status, event, procState, pc, program, cursor, kernelLock,
                 active, cur, count, result, retired>>

Candidate(w) == (cursor + scan[w]) % MaxHarts

(* The status is read before the hart's lock is taken: it may be stale by  *)
(* the time the worker enters the hart.                                    *)
LookAt(w) ==
  /\ at[w] = "scan"
  /\ scan[w] < MaxHarts
  /\ IF status[Candidate(w)] = "runnable"
       THEN /\ cur' = [cur EXCEPT ![w] = Candidate(w)]
            /\ Go(w, "claim")
            /\ UNCHANGED scan
       ELSE /\ scan' = [scan EXCEPT ![w] = @ + 1]
            /\ UNCHANGED <<at, cur>>
  /\ UNCHANGED <<kernelVars, program, count, result, retired>>

Claim(w) ==
  /\ at[w] = "claim"
  /\ AcquireHart(cur[w])
  /\ Go(w, "claimed")
  /\ UNCHANGED <<status, event, procState, pc, program, schedLock, cursor, kernelLock,
                 active, cur, scan, count, result, retired>>

(* Another caller holds the hart: look at the next one.                    *)
ClaimLost(w) ==
  /\ at[w] = "claim"
  /\ hartLock[cur[w]] # 0
  /\ scan' = [scan EXCEPT ![w] = @ + 1]
  /\ Go(w, "scan")
  /\ UNCHANGED <<kernelVars, program, cur, count, result, retired>>

(* Faulty variants: the cursor stays where it was; it runs off the table.  *)
CursorKept(h) == cursor
CursorUnbounded(h) == h + 1
NextCursor(h) == (h + 1) % MaxHarts

LeaveScheduler(w) ==
  /\ at[w] = "claimed"
  /\ cursor' = NextCursor(cur[w])
  /\ schedLock' = 0
  /\ Go(w, "enter")
  /\ UNCHANGED <<hartLock, status, event, procState, pc, program, kernelLock, active,
                 cur, scan, count, result, retired>>

NothingRunnable(w) ==
  /\ at[w] = "scan"
  /\ scan[w] = MaxHarts
  /\ schedLock' = 0
  /\ Go(w, "host")
  /\ UNCHANGED <<hartLock, status, event, procState, pc, program, cursor, kernelLock,
                 active, cur, scan, count, result, retired>>

(* tetoRunRv64Batch on a hart of the caller's choice; BUSY changes nothing *)
(* but a counter.                                                          *)
RunDirect(w, h) ==
  /\ w \in Direct
  /\ at[w] = "host"
  /\ AcquireHart(h)
  /\ cur' = [cur EXCEPT ![w] = h]
  /\ Go(w, "enter")
  /\ UNCHANGED <<status, event, procState, pc, program, schedLock, cursor, kernelLock,
                 active, scan, count, result, retired>>

-----------------------------------------------------------------------------
(* runHartLocked.                                                          *)

(* Faulty variant: the status read by the scan is trusted.                 *)
StatusTrusted(s) == "budget"
(* The result of a batch on a hart that cannot run; "budget" if it can.    *)
Entry(s) ==
  CASE s = "exited" -> "exited"
    [] s = "faulted" -> "fault"
    [] s = "waiting" -> "busy"
    [] s = "runnable" -> "budget"

Enter(w) ==
  LET r == Entry(status[cur[w]]) IN
  /\ at[w] = "enter"
  /\ active' = active + 1
  /\ count' = [count EXCEPT ![w] = 0]
  /\ result' = [result EXCEPT ![w] = r]
  /\ Go(w, IF r = "budget" THEN "step" ELSE "leave")
  /\ UNCHANGED <<hartLock, status, event, procState, pc, program, schedLock, cursor,
                 kernelLock, cur, scan, retired>>

(* What lies beyond the program is not executable.                         *)
Fetch(h) == IF pc[h] < Len(program[h]) THEN program[h][pc[h] + 1] ELSE "unmapped"

AtInstruction(w, kinds) ==
  /\ at[w] = "step"
  /\ count[w] < Budget
  /\ Fetch(cur[w]) \in kinds

Counted(w) == count' = [count EXCEPT ![w] = @ + 1]
Advance(h) == pc' = [pc EXCEPT ![h] = @ + 1]
Retire(h) == retired' = [retired EXCEPT ![h] = @ + 1]
Return(w, r) ==
  /\ result' = [result EXCEPT ![w] = r]
  /\ Go(w, "leave")

BudgetSpent(w) ==
  /\ at[w] = "step"
  /\ count[w] = Budget
  /\ Return(w, "budget")
  /\ UNCHANGED <<kernelVars, program, cur, scan, count, retired>>

(* An instruction that touches nothing but its own hart.                   *)
Plain(w) ==
  /\ AtInstruction(w, {"alu"})
  /\ Advance(cur[w])
  /\ Retire(cur[w])
  /\ Counted(w)
  /\ UNCHANGED <<hartLock, status, event, procState, program, schedLock, cursor,
                 kernelLock, active, at, cur, scan, result>>

(* A branch back to the start of the program.                              *)
Jump(w) ==
  /\ AtInstruction(w, {"jump"})
  /\ pc' = [pc EXCEPT ![cur[w]] = 0]
  /\ retired' = [retired EXCEPT ![cur[w]] = 0]
  /\ Counted(w)
  /\ UNCHANGED <<hartLock, status, event, procState, program, schedLock, cursor,
                 kernelLock, active, at, cur, scan, result>>

(* atomicInstruction, credentialSyscall and the first touch of a page take *)
(* a kernel-wide lock and keep it to the end of the instruction.           *)
TakeKernelLock(w) ==
  LET k == Fetch(cur[w]) IN
  /\ AtInstruction(w, KernelLocks)
  /\ kernelLock[k] = 0
  /\ kernelLock' = [kernelLock EXCEPT ![k] = 1]
  /\ Go(w, "locked")
  /\ UNCHANGED <<hartLock, status, event, procState, pc, program, schedLock, cursor,
                 active, cur, scan, count, result, retired>>

(* Faulty variant: a path of the instruction returns with the lock held.   *)
LockForgotten(k) == kernelLock' = kernelLock
Unlock(k) == kernelLock' = [kernelLock EXCEPT ![k] = 0]

FinishLocked(w) ==
  LET h == cur[w] IN
  /\ at[w] = "locked"
  /\ Unlock(Fetch(h))
  /\ Advance(h)
  /\ Retire(h)
  /\ Counted(w)
  /\ Go(w, "step")
  /\ UNCHANGED <<hartLock, status, event, procState, program, schedLock, cursor,
                 active, cur, scan, result>>

(* Faulty variant: the program counter is not set back to the instruction. *)
NoRollback(h) == pc[h] + 1
Rollback(h) == pc[h]

(* The lock is taken by another hart's instruction: the program counter,   *)
(* which has already moved on, is set back and the batch ends; the         *)
(* instruction is executed again by a later batch.                         *)
Contended(w) ==
  LET h == cur[w] IN
  /\ AtInstruction(w, {"atomic", "credential"})
  /\ kernelLock[Fetch(h)] # 0
  /\ pc' = [pc EXCEPT ![h] = Rollback(h)]
  /\ Counted(w)
  /\ Return(w, "contended")
  /\ UNCHANGED <<hartLock, status, event, procState, program, schedLock, cursor,
                 kernelLock, active, cur, scan, retired>>

(* fault.  guestPage gives up when C_MEMORY_LOCK is taken, and the access  *)
(* is then reported like one that is not mapped.  A fault of the fetch     *)
(* leaves the program counter where it was.  The process record keeps its  *)
(* state.                                                                  *)
Fault(w) ==
  LET h == cur[w] IN
  /\ \/ AtInstruction(w, {"bad", "unmapped"})
     \/ AtInstruction(w, {"touch"}) /\ kernelLock["touch"] # 0
  /\ status' = [status EXCEPT ![h] = "faulted"]
  /\ IF Fetch(h) = "unmapped" THEN UNCHANGED pc ELSE Advance(h)
  /\ Counted(w)
  /\ Return(w, "fault")
  /\ UNCHANGED <<hartLock, event, procState, program, schedLock, cursor, kernelLock,
                 active, cur, scan, retired>>

(* fallbackSyscall and the host write of kernelSyscall: the hart waits for *)
(* an answer of its host.                                                  *)
Trap(w) ==
  LET h == cur[w]
      e == IF Fetch(h) = "trap" THEN "syscall" ELSE "host" IN
  /\ AtInstruction(w, {"trap", "write"})
  /\ procState' = [procState EXCEPT ![h] = "waiting"]
  /\ event' = [event EXCEPT ![h] = e]
  /\ status' = [status EXCEPT ![h] = "waiting"]
  /\ Advance(h)
  /\ Counted(w)
  /\ Return(w, e)
  /\ UNCHANGED <<hartLock, program, schedLock, cursor, kernelLock, active, cur, scan,
                 retired>>

(* The exit system calls.                                                  *)
ExitCall(w) ==
  LET h == cur[w] IN
  /\ AtInstruction(w, {"exit"})
  /\ procState' = [procState EXCEPT ![h] = "zombie"]
  /\ event' = [event EXCEPT ![h] = "none"]
  /\ status' = [status EXCEPT ![h] = "exited"]
  /\ Advance(h)
  /\ Retire(h)
  /\ Counted(w)
  /\ Return(w, "exited")
  /\ UNCHANGED <<hartLock, program, schedLock, cursor, kernelLock, active, cur, scan>>

(* Faulty variant: the count of active workers is not taken back when the  *)
(* hart was not runnable.                                                  *)
ActiveLeaked(w) == IF result[w] = "busy" THEN active ELSE active - 1
ActiveAfter(w) == active - 1

(* Faulty variant: a host operation is not recognised.                     *)
SyscallsOnly(r) == IF r = "syscall" THEN "serve" ELSE "host"
(* The worker whose batch returned SYSCALL or HOST owes the hart an        *)
(* answer, and a fault ends the loop of every worker (Rv64.runTetoCore,    *)
(* test/teto-worker.ts).                                                   *)
Afterwards(r) ==
  IF r \in {"syscall", "host"} THEN "serve" ELSE IF r = "fault" THEN "ended" ELSE "host"

Leave(w) ==
  /\ at[w] = "leave"
  /\ active' = ActiveAfter(w)
  /\ ReleaseHart(cur[w])
  /\ Go(w, Afterwards(result[w]))
  /\ UNCHANGED <<status, event, procState, pc, program, schedLock, cursor, kernelLock,
                 cur, scan, count, result, retired>>

-----------------------------------------------------------------------------
(* tetoResumeSyscall and tetoResumeHost.  While the hart's lock is taken   *)
(* they return BUSY and change nothing.                                    *)

BeginResume(w) ==
  /\ w \in Servers
  /\ at[w] = "serve"
  /\ AcquireHart(cur[w])
  /\ Go(w, "resume")
  /\ UNCHANGED <<status, event, procState, pc, program, schedLock, cursor, kernelLock,
                 active, cur, scan, count, result, retired>>

(* The request is never answered: the worker answers none, cannot do what  *)
(* is asked (ENOSYS), ends with the program that asked, or finds the       *)
(* hart's lock taken: BUSY is not asked again but ends it with EPROTO.     *)
GiveUp(w) ==
  /\ at[w] = "serve"
  /\ Go(w, "broken")
  /\ UNCHANGED <<kernelVars, program, cur, scan, count, result, retired>>

(* Faulty variant: the answer is applied to whatever the hart is doing.    *)
AnswerAnything(h, r) == TRUE
Awaits(h, r) == status[h] = "waiting" /\ event[h] = r

Resume(w) ==
  LET h == cur[w] IN
  /\ at[w] = "resume"
  /\ Awaits(h, result[w])
  /\ event' = [event EXCEPT ![h] = "none"]
  /\ status' = [status EXCEPT ![h] = "runnable"]
  /\ procState' = [procState EXCEPT ![h] = "runnable"]
  /\ Retire(h)
  /\ Go(w, "resumed")
  /\ UNCHANGED <<hartLock, pc, program, schedLock, cursor, kernelLock, active, cur, scan,
                 count, result>>

(* BAD_STATE: the hart no longer waits for this answer, which ends the     *)
(* worker with EPROTO, as BUSY does.                                       *)
RefuseResume(w) ==
  LET h == cur[w] IN
  /\ at[w] = "resume"
  /\ ~Awaits(h, result[w])
  /\ Go(w, "refused")
  /\ UNCHANGED <<kernelVars, program, cur, scan, count, result, retired>>

EndRefused(w) ==
  /\ at[w] = "refused"
  /\ ReleaseHart(cur[w])
  /\ Go(w, "ended")
  /\ UNCHANGED <<status, event, procState, pc, program, schedLock, cursor, kernelLock,
                 active, cur, scan, count, result, retired>>

EndResume(w) ==
  /\ at[w] = "resumed"
  /\ ReleaseHart(cur[w])
  /\ Go(w, "host")
  /\ UNCHANGED <<status, event, procState, pc, program, schedLock, cursor, kernelLock,
                 active, cur, scan, count, result, retired>>

-----------------------------------------------------------------------------
(* tetoExitHart: the host ends a hart, whatever it is doing outside its    *)
(* lock.                                                                   *)

BeginReap(w, h) ==
  /\ w \in Reapers
  /\ at[w] = "host"
  /\ AcquireHart(h)
  /\ cur' = [cur EXCEPT ![w] = h]
  /\ Go(w, "reap")
  /\ UNCHANGED <<status, event, procState, pc, program, schedLock, cursor, kernelLock,
                 active, scan, count, result, retired>>

(* Faulty variant: the event of the request that will never be answered    *)
(* stays.                                                                  *)
EventKept(h) == event[h]
EventAfterReap(h) == "none"

Reap(w) ==
  LET h == cur[w] IN
  /\ at[w] = "reap"
  /\ procState' = [procState EXCEPT ![h] = "zombie"]
  /\ event' = [event EXCEPT ![h] = EventAfterReap(h)]
  /\ status' = [status EXCEPT ![h] = "exited"]
  /\ Go(w, "reaped")
  /\ UNCHANGED <<hartLock, pc, program, schedLock, cursor, kernelLock, active, cur, scan,
                 count, result, retired>>

EndReap(w) ==
  /\ at[w] = "reaped"
  /\ ReleaseHart(cur[w])
  /\ Go(w, "host")
  /\ UNCHANGED <<status, event, procState, pc, program, schedLock, cursor, kernelLock,
                 active, cur, scan, count, result, retired>>

-----------------------------------------------------------------------------
Schedule(w) ==
  \/ StartScan(w) \/ LookAt(w) \/ Claim(w) \/ ClaimLost(w) \/ LeaveScheduler(w)
  \/ NothingRunnable(w)

Execute(w) ==
  \/ Enter(w) \/ BudgetSpent(w) \/ Plain(w) \/ Jump(w) \/ TakeKernelLock(w)
  \/ FinishLocked(w) \/ Contended(w) \/ Fault(w) \/ Trap(w) \/ ExitCall(w) \/ Leave(w)

Serve(w) ==
  BeginResume(w) \/ GiveUp(w) \/ Resume(w) \/ RefuseResume(w) \/ EndRefused(w) \/ EndResume(w)

Finish(w) == Reap(w) \/ EndReap(w)

(* What a worker does by itself; entering a hart directly and ending one   *)
(* are requests of its host.                                               *)
Work(w) == Schedule(w) \/ Execute(w) \/ Serve(w) \/ Finish(w)

(* Between two calls a worker may leave its loop: it has made its last     *)
(* call, been idle too often, or its program is over.                      *)
Stop(w) ==
  /\ at[w] = "host"
  /\ Go(w, "ended")
  /\ UNCHANGED <<kernelVars, program, cur, scan, count, result, retired>>

Next ==
  \E w \in Workers :
    \/ Work(w) \/ Stop(w)
    \/ \E h \in Harts : RunDirect(w, h) \/ BeginReap(w, h)

Spec == Init /\ [][Next]_vars

(* A worker carries through the call it has made, and calls the kernel     *)
(* again or stops (the loops of src/src/test/teto-worker.ts and            *)
(* Rv64.runTetoCore).                                                      *)
FairSpec == Spec /\ \A w \in Workers : WF_vars(Work(w))

-----------------------------------------------------------------------------
(* The range of every variable; the cursor never leaves the hart table.    *)
TypeOK ==
  /\ hartLock \in [Harts -> {0, 1}]
  /\ status \in [Harts -> Status]
  /\ event \in [Harts -> Events]
  /\ procState \in [Harts -> ProcStates]
  /\ pc \in [Harts -> Nat]
  /\ program \in [Harts -> Programs]
  /\ schedLock \in {0, 1}
  /\ cursor \in Harts
  /\ kernelLock \in [KernelLocks -> {0, 1}]
  /\ active \in Int
  /\ at \in [Workers -> Places]
  /\ cur \in [Workers -> Harts]
  /\ scan \in [Workers -> 0 .. MaxHarts]
  /\ count \in [Workers -> 0 .. Budget]
  /\ result \in [Workers -> Results]
  /\ retired \in [Harts -> Nat]

Owns(w, h) == at[w] \in Owning /\ cur[w] = h
Runs(w, h) == at[w] \in Executing /\ cur[w] = h

(* A hart is never inside two workers: its registers and its program       *)
(* counter have one writer at a time (H_LOCK).                             *)
HartExclusive ==
  \A h \in Harts : \A v, w \in Workers : Owns(v, h) /\ Owns(w, h) => v = w

(* A hart inside a batch that still executes is runnable: no instruction   *)
(* is executed for a hart that waits, has exited or has faulted, although  *)
(* the scheduler read its status before it had the lock.                   *)
OnlyRunnableExecutes ==
  \A w \in Workers : at[w] \in {"step", "locked"} => status[cur[w]] = "runnable"

(* Outside its lock, a hart waits exactly when it has an unanswered event, *)
(* its process record agrees, and exactly one worker has the request: it   *)
(* owes the answer, or has given up with it.  No request is lost and none  *)
(* is answered twice.                                                      *)
RequestOwed ==
  \A h \in Harts : hartLock[h] = 0 =>
    /\ (status[h] = "waiting") = (event[h] # "none")
    /\ (status[h] = "waiting") = (procState[h] = "waiting")
    /\ (status[h] = "exited") = (procState[h] = "zombie")
    /\ status[h] = "waiting" =>
         Cardinality({w \in Workers : /\ at[w] \in {"serve", "broken"}
                                      /\ cur[w] = h /\ result[w] = event[h]}) = 1

(* A contended instruction is executed again and no instruction is skipped *)
(* or executed twice: the program counter is the number of completed       *)
(* instructions, one more while the last one is a system call that waits   *)
(* for its answer (and for good once the hart has ended in one, or in an   *)
(* instruction that faulted).                                              *)
InstructionsInOrder ==
  \A h \in Harts : hartLock[h] = 0 =>
    /\ status[h] = "runnable" => pc[h] = retired[h]
    /\ status[h] = "waiting" => pc[h] = retired[h] + 1
    /\ status[h] \in {"exited", "faulted"} => pc[h] \in {retired[h], retired[h] + 1}

(* C_ACTIVE_WORKERS is the number of workers inside a batch, so it is zero *)
(* again when they have all returned.                                      *)
ActiveExact == active = Cardinality({w \in Workers : at[w] \in Executing})

(* A hart that has exited stays exited, and completes no further           *)
(* instruction, even when an answer to an earlier request arrives late.    *)
ExitedIsFinal ==
  [][\A h \in Harts : status[h] = "exited" =>
       status'[h] = "exited" /\ retired'[h] = retired[h]]_vars

(* Nobody is left to run or to answer a hart: all workers have stopped, or *)
(* the one that got its request has given up.                              *)
Abandoned(h) ==
  \/ \A w \in Workers : at[w] \in Stopped
  \/ status[h] = "waiting" /\ \E w \in Workers : at[w] = "broken" /\ cur[w] = h

(* Every hart that can run is eventually executed by some worker, as long  *)
(* as one goes on, however many other harts are runnable and whichever     *)
(* workers stop: the cursor passes no runnable hart over.                  *)
NoHartStarves ==
  \A h \in Harts :
    status[h] = "runnable" ~> \/ \E w \in Workers : Runs(w, h)
                              \/ status[h] # "runnable"
                              \/ Abandoned(h)

(* Every request of a hart is eventually answered, or the worker that got  *)
(* it has ended with it: none is forgotten by a worker that goes on.       *)
EveryRequestSettled ==
  \A h \in Harts :
    status[h] = "waiting" ~>
      status[h] # "waiting" \/ \E w \in Workers : at[w] = "broken" /\ cur[w] = h

(* The worker owes a hart an answer: it has the request (and keeps it when *)
(* it gives up), or is about to leave the batch that made it.              *)
Owing(w) ==
  at[w] \in {"serve", "broken", "resume"} \/ (at[w] = "leave" /\ result[w] \in {"syscall", "host"})

(* The contract of HartContract: a hart is executed by one worker at a     *)
(* time, and its requests are answered by the worker that owes the answer. *)
phaseBar ==
  [h \in Harts |-> CASE status[h] \in {"exited", "faulted"} -> "ended"
                     [] status[h] = "waiting" -> "blocked"
                     [] OTHER -> "ready"]
runnerBar == [h \in Harts |-> {w \in Workers : at[w] \in {"step", "locked"} /\ cur[w] = h}]
debtorBar == [h \in Harts |-> {w \in Workers : Owing(w) /\ cur[w] = h}]

Contract ==
  INSTANCE HartContract WITH phase <- phaseBar, runner <- runnerBar, debtor <- debtorBar

(* The scheduler implements that contract.                                 *)
ImplementsContract == Contract!Spec

Has(p, kinds) == \E i \in 1 .. Len(p) : p[i] \in kinds
(* A program may fault when it touches a new page (guestPage gives up when *)
(* another hart has C_MEMORY_LOCK), has a bad instruction or never exits.  *)
MayFault(p) == Has(p, {"touch", "bad"}) \/ ~Has(p, {"exit"})

(* A hart whose program is finite ends unless it is abandoned, and ends by *)
(* its own exit if it touches no new page: contention on the other locks   *)
(* of the kernel, which nobody waits for, delays it but does not stop it,  *)
(* and neither do harts that never end.                                    *)
FiniteProgramsEnd ==
  \A h \in Harts : ~Has(program[h], {"jump"}) =>
    <>[](\/ status[h] = "exited"
         \/ status[h] = "faulted" /\ MayFault(program[h])
         \/ Abandoned(h))
=============================================================================
