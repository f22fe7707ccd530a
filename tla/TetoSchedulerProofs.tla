------------------------ MODULE TetoSchedulerProofs ------------------------
(***************************************************************************)
(* Proofs about the hart scheduler for any number of workers and harts,    *)
(* any batch size and any programs: what workers own, the count of active  *)
(* workers, who owes a hart an answer, and that the scheduler implements   *)
(* the contract of HartContract.                                           *)
(***************************************************************************)
EXTENDS TetoScheduler, TLAPS, FiniteSetTheorems

(* An index taken modulo the size of the hart table is in the table.       *)
LEMMA IndexInTable == ASSUME NEW i \in Nat PROVE i % MaxHarts \in Harts
  BY SchedulerAssumption DEF Harts

(* TypeOK is not inductive: a worker about to claim a hart, or inside an   *)
(* instruction, is below the limit of its counter.                         *)
BelowLimit ==
  \A w \in Workers : /\ at[w] = "claim" => scan[w] < MaxHarts
                     /\ at[w] = "locked" => count[w] < Budget

TypeInv == TypeOK /\ BelowLimit

(* The initial state is well typed, and below the limits.                  *)
LEMMA TypeInit == Init => TypeInv
  BY SchedulerAssumption
     DEF Init, TypeInv, TypeOK, BelowLimit, Harts, Status, Events, ProcStates, Places, Results

(* A counter below its limit can count one more, and a program counter or  *)
(* what was retired can always.                                            *)
LEMMA OneMore ==
  ASSUME TypeInv, NEW w \in Workers, NEW h \in Harts
  PROVE  /\ count[w] < Budget => [count EXCEPT ![w] = @ + 1] \in [Workers -> 0 .. Budget]
         /\ \A v \in Workers : v # w => [count EXCEPT ![w] = @ + 1][v] = count[v]
         /\ scan[w] < MaxHarts => [scan EXCEPT ![w] = @ + 1] \in [Workers -> 0 .. MaxHarts]
         /\ [pc EXCEPT ![h] = @ + 1] \in [Harts -> Nat]
         /\ [retired EXCEPT ![h] = @ + 1] \in [Harts -> Nat]
<1>1. ASSUME NEW S, NEW lim \in Nat, NEW f \in [S -> 0 .. lim], NEW x \in S, f[x] < lim
      PROVE  [f EXCEPT ![x] = @ + 1] \in [S -> 0 .. lim]
  BY <1>1
<1>2. ASSUME NEW f \in [Harts -> Nat]
      PROVE  [f EXCEPT ![h] = @ + 1] \in [Harts -> Nat]
  BY <1>2
<1> QED
  BY <1>1, <1>2, SchedulerAssumption DEF TypeInv, TypeOK

(* A worker that moves to a place without a bound keeps the bounds.        *)
LEMMA BelowKept ==
  ASSUME TypeInv, NEW w \in Workers, NEW place \in Places \ {"claim", "locked"},
         at' = [at EXCEPT ![w] = place],
         \A v \in Workers : v # w => count'[v] = count[v] /\ scan'[v] = scan[v]
  PROVE  at' \in [Workers -> Places] /\ BelowLimit'
<1>1. at' \in [Workers -> Places] /\ at'[w] = place
      /\ \A v \in Workers : v # w => at'[v] = at[v]
  BY DEF TypeInv, TypeOK
<1> QED
  BY <1>1 DEF TypeInv, BelowLimit

(* Every step keeps every variable in its range and below its limit.       *)
LEMMA TypeStep == TypeInv /\ [Next]_vars => TypeInv'
<1> SUFFICES ASSUME TypeInv, [Next]_vars PROVE TypeInv'
  OBVIOUS
<1> USE SchedulerAssumption DEF TypeInv, TypeOK, BelowLimit, Status, Events, ProcStates, Places, Results,
    Go, AcquireHart, ReleaseHart, kernelVars, Return, Counted, Advance, Retire
<1>1. ASSUME NEW w \in Workers, Schedule(w) PROVE TypeInv'
  <2>1. CASE StartScan(w)
    BY <2>1 DEF StartScan
  <2>2. CASE LookAt(w)
    <3>1. Candidate(w) \in Harts
      <4>1. cursor + scan[w] \in Nat
        BY DEF Harts
      <4> QED
        BY <4>1, IndexInTable DEF Candidate
    <3>2. CASE status[Candidate(w)] = "runnable"
      <4>1. /\ at[w] = "scan" /\ scan[w] < MaxHarts
            /\ cur' = [cur EXCEPT ![w] = Candidate(w)]
            /\ at' = [at EXCEPT ![w] = "claim"]
            /\ UNCHANGED <<scan, hartLock, status, event, procState, pc, schedLock, cursor,
                           kernelLock, active, program, count, result, retired>>
        BY <2>2, <3>2, Zenon DEF LookAt
      <4> QED
        BY <3>1, <4>1
    <3>3. CASE status[Candidate(w)] # "runnable"
      <4>1. /\ at[w] = "scan" /\ scan[w] < MaxHarts
            /\ scan' = [scan EXCEPT ![w] = @ + 1]
            /\ UNCHANGED <<at, cur, hartLock, status, event, procState, pc, schedLock, cursor,
                           kernelLock, active, program, count, result, retired>>
        BY <2>2, <3>3, Zenon DEF LookAt
      <4>2. scan' \in [Workers -> 0 .. MaxHarts]
        BY <3>1, <4>1, OneMore
      <4> QED
        BY <4>1, <4>2
    <3> QED
      BY <3>2, <3>3
  <2>3. CASE Claim(w)
    BY <2>3 DEF Claim
  <2>4. CASE ClaimLost(w)
    <3>1. scan[w] < MaxHarts /\ cur[w] \in Harts
      BY <2>4 DEF ClaimLost
    <3>2. /\ scan' = [scan EXCEPT ![w] = @ + 1] /\ at' = [at EXCEPT ![w] = "scan"]
          /\ UNCHANGED <<kernelVars, program, cur, count, result, retired>>
      BY <2>4 DEF ClaimLost
    <3>3. scan' \in [Workers -> 0 .. MaxHarts]
      BY <3>1, <3>2, OneMore
    <3> QED
      BY <3>2, <3>3
  <2>5. CASE LeaveScheduler(w)
    <3>1. NextCursor(cur[w]) \in Harts
      <4>1. cur[w] + 1 \in Nat
        BY DEF Harts
      <4> QED
        BY <4>1, IndexInTable DEF NextCursor
    <3> QED
      BY <2>5, <3>1 DEF LeaveScheduler
  <2>6. CASE NothingRunnable(w)
    BY <2>6 DEF NothingRunnable
  <2> QED
    BY <1>1, <2>1, <2>2, <2>3, <2>4, <2>5, <2>6 DEF Schedule
<1>2. ASSUME NEW w \in Workers, Execute(w) PROVE TypeInv'
  <2>1. CASE Enter(w)
    <3>1. PICK place \in {"step", "leave"} : at' = [at EXCEPT ![w] = place]
      BY <2>1, Zenon DEF Enter
    <3>2. Entry(status[cur[w]]) \in Results
      BY DEF Entry
    <3>3. /\ count' = [count EXCEPT ![w] = 0] /\ active' = active + 1
          /\ result' = [result EXCEPT ![w] = Entry(status[cur[w]])]
          /\ UNCHANGED <<hartLock, status, event, procState, pc, program, schedLock, cursor,
                         kernelLock, cur, scan, retired>>
      BY <2>1 DEF Enter
    <3>4. at' \in [Workers -> Places] /\ BelowLimit'
      BY <3>1, <3>3, BelowKept
    <3>5. count' \in [Workers -> 0 .. Budget] /\ result' \in [Workers -> Results]
      BY <3>2, <3>3
    <3>6. active' \in Int
      BY <3>3
    <3> QED
      BY <3>3, <3>4, <3>5, <3>6
  <2>2. CASE BudgetSpent(w)
    BY <2>2 DEF BudgetSpent
  <2>3. CASE Plain(w)
    <3>1. /\ at[w] = "step" /\ count[w] < Budget /\ cur[w] \in Harts
          /\ UNCHANGED <<hartLock, status, event, procState, program, schedLock, cursor,
                         kernelLock, active, at, cur, scan, result>>
      BY <2>3 DEF Plain, AtInstruction
    <3>2. /\ count' \in [Workers -> 0 .. Budget] /\ pc' \in [Harts -> Nat]
          /\ retired' \in [Harts -> Nat]
          /\ \A v \in Workers : v # w => count'[v] = count[v]
      BY <2>3, <3>1, OneMore DEF Plain
    <3> QED
      BY <3>1, <3>2
  <2>4. CASE Jump(w)
    BY <2>4 DEF Jump, AtInstruction
  <2>5. CASE TakeKernelLock(w)
    BY <2>5 DEF TakeKernelLock, AtInstruction
  <2>6. CASE FinishLocked(w)
    <3>1. kernelLock' \in [KernelLocks -> {0, 1}]
      BY <2>6 DEF FinishLocked, Unlock
    <3>2. count[w] < Budget
      BY <2>6 DEF FinishLocked
    <3>3. /\ pc' = [pc EXCEPT ![cur[w]] = @ + 1]
          /\ retired' = [retired EXCEPT ![cur[w]] = @ + 1]
          /\ count' = [count EXCEPT ![w] = @ + 1]
          /\ at' = [at EXCEPT ![w] = "step"]
          /\ UNCHANGED <<hartLock, status, event, procState, program, schedLock, cursor,
                         active, cur, scan, result>>
      BY <2>6 DEF FinishLocked
    <3>4. cur[w] \in Harts
      OBVIOUS
    <3>5. /\ count' \in [Workers -> 0 .. Budget] /\ pc' \in [Harts -> Nat]
          /\ retired' \in [Harts -> Nat]
          /\ \A v \in Workers : v # w => count'[v] = count[v]
      BY <3>2, <3>3, <3>4, OneMore
    <3>6. at' \in [Workers -> Places] /\ BelowLimit'
      BY <3>3, <3>5, BelowKept
    <3> QED
      BY <3>1, <3>3, <3>5, <3>6
  <2>7. CASE Contended(w)
    <3>1. /\ at[w] = "step" /\ count[w] < Budget /\ cur[w] \in Harts /\ pc[cur[w]] \in Nat
          /\ pc' = [pc EXCEPT ![cur[w]] = pc[cur[w]]]
          /\ count' = [count EXCEPT ![w] = @ + 1]
          /\ at' = [at EXCEPT ![w] = "leave"] /\ result' = [result EXCEPT ![w] = "contended"]
          /\ UNCHANGED <<hartLock, status, event, procState, program, schedLock, cursor,
                         kernelLock, active, cur, scan, retired>>
      BY <2>7 DEF Contended, AtInstruction, Rollback
    <3>2. /\ count' \in [Workers -> 0 .. Budget]
          /\ \A v \in Workers : v # w => count'[v] = count[v]
      BY <3>1, OneMore
    <3>3. at' \in [Workers -> Places] /\ BelowLimit'
      BY <3>1, <3>2, BelowKept
    <3> QED
      BY <3>1, <3>2, <3>3
  <2>8. CASE Fault(w)
    <3>1. at[w] = "step" /\ count[w] < Budget
      BY <2>8 DEF Fault, AtInstruction
    <3>2. pc' \in [Harts -> Nat]
      <4>1. CASE Fetch(cur[w]) = "unmapped"
        BY <2>8, <4>1 DEF Fault
      <4>2. CASE Fetch(cur[w]) # "unmapped"
        <5>1. pc' = [pc EXCEPT ![cur[w]] = @ + 1]
          BY <2>8, <4>2, Zenon DEF Fault
        <5> QED
          BY <5>1
      <4> QED
        BY <4>1, <4>2
    <3>3. /\ status' = [status EXCEPT ![cur[w]] = "faulted"]
          /\ count' = [count EXCEPT ![w] = @ + 1]
          /\ result' = [result EXCEPT ![w] = "fault"]
          /\ at' = [at EXCEPT ![w] = "leave"]
          /\ UNCHANGED <<hartLock, event, procState, program, schedLock, cursor, kernelLock,
                         active, cur, scan, retired>>
      BY <2>8 DEF Fault
    <3>4. /\ count' \in [Workers -> 0 .. Budget]
          /\ \A v \in Workers : v # w => count'[v] = count[v]
      BY <3>1, <3>3, OneMore
    <3>5. at' \in [Workers -> Places] /\ BelowLimit'
      BY <3>3, <3>4, BelowKept
    <3> QED
      BY <3>2, <3>3, <3>4, <3>5
  <2>9. CASE Trap(w)
    <3>1. at[w] = "step" /\ count[w] < Budget /\ cur[w] \in Harts
      BY <2>9 DEF Trap, AtInstruction
    <3>2. /\ count' \in [Workers -> 0 .. Budget] /\ pc' \in [Harts -> Nat]
          /\ retired' \in [Harts -> Nat]
          /\ \A v \in Workers : v # w => count'[v] = count[v]
      BY <2>9, <3>1, OneMore DEF Trap
    <3>3. /\ procState' \in [Harts -> ProcStates] /\ event' \in [Harts -> Events]
          /\ status' \in [Harts -> Status]
          /\ UNCHANGED <<hartLock, program, schedLock, cursor, kernelLock, active, cur, scan>>
      BY <2>9, <3>1 DEF Trap
    <3>4. /\ at' = [at EXCEPT ![w] = "leave"] /\ result' \in [Workers -> Results]
      BY <2>9, <3>1 DEF Trap
    <3>5. at' \in [Workers -> Places] /\ BelowLimit'
      BY <3>2, <3>3, <3>4, BelowKept
    <3> QED
      BY <3>2, <3>3, <3>4, <3>5
  <2>10. CASE ExitCall(w)
    <3>1. at[w] = "step" /\ count[w] < Budget /\ cur[w] \in Harts
      BY <2>10 DEF ExitCall, AtInstruction
    <3>2. /\ count' \in [Workers -> 0 .. Budget] /\ pc' \in [Harts -> Nat]
          /\ retired' \in [Harts -> Nat]
          /\ \A v \in Workers : v # w => count'[v] = count[v]
      BY <2>10, <3>1, OneMore DEF ExitCall
    <3>3. /\ procState' \in [Harts -> ProcStates] /\ event' \in [Harts -> Events]
          /\ status' \in [Harts -> Status]
          /\ UNCHANGED <<hartLock, program, schedLock, cursor, kernelLock, active, cur, scan>>
      BY <2>10, <3>1 DEF ExitCall
    <3>4. /\ at' = [at EXCEPT ![w] = "leave"] /\ result' \in [Workers -> Results]
      BY <2>10, <3>1 DEF ExitCall
    <3>5. at' \in [Workers -> Places] /\ BelowLimit'
      BY <3>2, <3>3, <3>4, BelowKept
    <3> QED
      BY <3>2, <3>3, <3>4, <3>5
  <2>11. CASE Leave(w)
    BY <2>11 DEF Leave, Afterwards, ActiveAfter
  <2> QED
    BY <1>2, <2>1, <2>2, <2>3, <2>4, <2>5, <2>6, <2>7, <2>8, <2>9, <2>10, <2>11 DEF Execute
<1>3. ASSUME NEW w \in Workers, Serve(w) \/ Finish(w) \/ Stop(w) PROVE TypeInv'
  <2>1. CASE BeginResume(w)
    BY <2>1 DEF BeginResume
  <2>2. CASE Resume(w)
    BY <2>2 DEF Resume
  <2>3. CASE RefuseResume(w)
    BY <2>3 DEF RefuseResume
  <2>4. CASE EndResume(w)
    BY <2>4 DEF EndResume
  <2>5. CASE Reap(w)
    BY <2>5 DEF Reap, EventAfterReap
  <2>6. CASE EndReap(w)
    BY <2>6 DEF EndReap
  <2>7. CASE EndRefused(w)
    BY <2>7 DEF EndRefused
  <2>8. CASE GiveUp(w)
    BY <2>8 DEF GiveUp
  <2>9. CASE Stop(w)
    BY <2>9 DEF Stop
  <2> QED
    BY <1>3, <2>1, <2>2, <2>3, <2>4, <2>5, <2>6, <2>7, <2>8, <2>9 DEF Serve, Finish
<1>4. ASSUME NEW w \in Workers, NEW h \in Harts, RunDirect(w, h) \/ BeginReap(w, h)
      PROVE TypeInv'
  <2>1. CASE RunDirect(w, h)
    BY <2>1 DEF RunDirect
  <2>2. CASE BeginReap(w, h)
    BY <2>2 DEF BeginReap
  <2> QED
    BY <1>4, <2>1, <2>2
<1>5. CASE UNCHANGED vars
  BY <1>5 DEF vars
<1> QED
  BY <1>1, <1>2, <1>3, <1>4, <1>5 DEF Next, Work

(* Every variable keeps its range, for every instance of the scheduler.    *)
THEOREM TypeCorrect == Spec => []TypeOK
<1>1. QED
  BY TypeInit, TypeStep, PTL DEF Spec, TypeInv

-----------------------------------------------------------------------------
(* Mutual exclusion rests on the lock word: it is set whenever some worker *)
(* is at a place that owns it.                                             *)
LockHeld == \A w \in Workers : at[w] \in Owning => hartLock[cur[w]] = 1

LockInv == TypeInv /\ LockHeld /\ HartExclusive

(* The initial state has no owner.                                         *)
LEMMA LockInit == Init => LockInv
<1> SUFFICES ASSUME Init PROVE LockInv
  OBVIOUS
<1>1. TypeInv
  BY TypeInit
<1>2. \A w \in Workers : at[w] \notin Owning
  BY DEF Init, Owning
<1> QED
  BY <1>1, <1>2 DEF LockInv, LockHeld, HartExclusive, Owns

(* A step of one worker takes a free lock word, keeps what it owns, or     *)
(* gives up what it owns; the others keep theirs.                          *)
Alone(w) == \A v \in Workers \ {w} : at'[v] = at[v] /\ cur'[v] = cur[v]

TakesLock(w) ==
  /\ Alone(w)
  /\ hartLock[cur'[w]] = 0
  /\ hartLock' = [hartLock EXCEPT ![cur'[w]] = 1]

KeepsLock(w) ==
  /\ Alone(w)
  /\ at'[w] \in Owning => at[w] \in Owning /\ cur'[w] = cur[w]
  /\ hartLock' = hartLock

GivesLock(w) ==
  /\ Alone(w)
  /\ at[w] \in Owning
  /\ at'[w] \notin Owning
  /\ hartLock' = [hartLock EXCEPT ![cur[w]] = 0]

(* These three kinds of steps preserve exclusion.                          *)
LEMMA LockKinds ==
  ASSUME LockInv, TypeInv', NEW w \in Workers, TakesLock(w) \/ KeepsLock(w) \/ GivesLock(w)
  PROVE  LockHeld' /\ HartExclusive'
<1> USE DEF LockInv, TypeInv, TypeOK, LockHeld, HartExclusive, Owns
<1>1. CASE TakesLock(w)
  <2>1. \A v \in Workers \ {w} : at'[v] \in Owning => hartLock'[cur'[v]] = 1 /\ cur'[v] # cur'[w]
    BY <1>1 DEF TakesLock, Alone
  <2>2. hartLock'[cur'[w]] = 1
    BY <1>1 DEF TakesLock
  <2>3. \A u, v \in Workers \ {w} : Owns(u, cur[u])' /\ Owns(v, cur[u])' => u = v
    BY <1>1 DEF TakesLock, Alone
  <2> QED
    BY <2>1, <2>2, <2>3
<1>2. CASE KeepsLock(w)
  <2>1. \A v \in Workers : at'[v] \in Owning => at[v] \in Owning /\ cur'[v] = cur[v]
    BY <1>2 DEF KeepsLock, Alone
  <2> QED
    BY <1>2, <2>1 DEF KeepsLock
<1>3. CASE GivesLock(w)
  <2>1. \A v \in Workers : at'[v] \in Owning =>
          v # w /\ at[v] \in Owning /\ cur'[v] = cur[v] /\ cur[v] # cur[w]
    BY <1>3 DEF GivesLock, Alone
  <2> QED
    BY <1>3, <2>1 DEF GivesLock
<1> QED
  BY <1>1, <1>2, <1>3

(* Every step of a worker is of one of the three kinds.                    *)
LEMMA StepKinds ==
  ASSUME TypeInv, NEW w \in Workers,
         Work(w) \/ Stop(w) \/ (\E h \in Harts : RunDirect(w, h) \/ BeginReap(w, h))
  PROVE  TakesLock(w) \/ KeepsLock(w) \/ GivesLock(w)
<1> USE DEF TypeInv, TypeOK, Places, Owning, Go, AcquireHart, ReleaseHart, kernelVars,
    Return, AtInstruction, Alone, TakesLock, KeepsLock, GivesLock
<1>1. CASE Schedule(w)
  <2>1. CASE StartScan(w)
    BY <2>1 DEF StartScan
  <2>2. CASE LookAt(w)
    <3>1. CASE status[Candidate(w)] = "runnable"
      BY <2>2, <3>1 DEF LookAt
    <3>2. CASE status[Candidate(w)] # "runnable"
      BY <2>2, <3>2, Zenon DEF LookAt
    <3> QED
      BY <3>1, <3>2
  <2>3. CASE Claim(w)
    BY <2>3 DEF Claim
  <2>4. CASE ClaimLost(w)
    BY <2>4 DEF ClaimLost
  <2>5. CASE LeaveScheduler(w)
    BY <2>5 DEF LeaveScheduler
  <2>6. CASE NothingRunnable(w)
    BY <2>6 DEF NothingRunnable
  <2> QED
    BY <1>1, <2>1, <2>2, <2>3, <2>4, <2>5, <2>6 DEF Schedule
<1>2. CASE Execute(w)
  <2>1. CASE Enter(w)
    BY <2>1 DEF Enter
  <2>2. CASE BudgetSpent(w)
    BY <2>2 DEF BudgetSpent
  <2>3. CASE Plain(w) \/ Jump(w)
    BY <2>3 DEF Plain, Jump
  <2>4. CASE TakeKernelLock(w)
    BY <2>4 DEF TakeKernelLock
  <2>5. CASE FinishLocked(w)
    BY <2>5 DEF FinishLocked
  <2>6. CASE Contended(w)
    BY <2>6 DEF Contended
  <2>7. CASE Fault(w)
    BY <2>7 DEF Fault
  <2>8. CASE Trap(w)
    BY <2>8 DEF Trap
  <2>9. CASE ExitCall(w)
    BY <2>9 DEF ExitCall
  <2>10. CASE Leave(w)
    BY <2>10 DEF Leave, Afterwards
  <2> QED
    BY <1>2, <2>1, <2>2, <2>3, <2>4, <2>5, <2>6, <2>7, <2>8, <2>9, <2>10 DEF Execute
<1>3. CASE Serve(w) \/ Stop(w)
  BY <1>3 DEF Serve, BeginResume, GiveUp, Resume, RefuseResume, EndRefused, EndResume, Stop
<1>4. CASE Finish(w)
  BY <1>4 DEF Finish, Reap, EndReap
<1>5. ASSUME NEW h \in Harts, RunDirect(w, h) \/ BeginReap(w, h)
      PROVE  TakesLock(w)
  BY <1>5 DEF RunDirect, BeginReap
<1> QED
  BY <1>1, <1>2, <1>3, <1>4, <1>5 DEF Work

(* The inductive step of mutual exclusion.                                 *)
LEMMA LockStep == LockInv /\ [Next]_vars => LockInv'
<1> SUFFICES ASSUME LockInv, [Next]_vars PROVE LockInv'
  OBVIOUS
<1>1. TypeInv'
  BY TypeStep DEF LockInv
<1>2. CASE UNCHANGED vars
  BY <1>1, <1>2 DEF vars, LockInv, LockHeld, HartExclusive, Owns
<1>3. CASE Next
  <2>1. PICK w \in Workers :
          Work(w) \/ Stop(w) \/ \E h \in Harts : RunDirect(w, h) \/ BeginReap(w, h)
    BY <1>3 DEF Next
  <2> QED
    BY <1>1, <2>1, StepKinds, LockKinds DEF LockInv
<1> QED
  BY <1>2, <1>3

(* HartExclusive for every instance: no two workers are ever inside the    *)
(* same hart.                                                              *)
THEOREM MutualExclusion == Spec => []HartExclusive
<1>1. LockInv => HartExclusive
  BY DEF LockInv
<1>2. QED
  BY <1>1, LockInit, LockStep, PTL DEF Spec

-----------------------------------------------------------------------------
(* The order of instructions, for every hart at any time (the property     *)
(* states it for the harts nobody holds).                                  *)
OrderOf(h) ==
  /\ status[h] = "runnable" => pc[h] = retired[h]
  /\ status[h] = "waiting" => pc[h] = retired[h] + 1
  /\ status[h] \in {"exited", "faulted"} => pc[h] \in {retired[h], retired[h] + 1}

Inside == {"step", "locked"}

SafeInv == LockInv /\ OnlyRunnableExecutes /\ \A h \in Harts : OrderOf(h)

(* A step of a worker leaves every hart's status and progress alone, and   *)
(* goes inside a hart only when that hart is runnable; or it changes the   *)
(* one hart it owns, keeping its instructions in order and its exit final. *)
Idle(w) ==
  /\ Alone(w)
  /\ UNCHANGED <<status, pc, retired>>
  /\ at'[w] \in Inside => status[cur'[w]] = "runnable"

Local(w) ==
  LET h == cur[w] IN
  /\ Alone(w)
  /\ at[w] \in Owning
  /\ cur' = cur
  /\ \A g \in Harts \ {h} : status'[g] = status[g] /\ pc'[g] = pc[g] /\ retired'[g] = retired[g]
  /\ OrderOf(h)'
  /\ at'[w] \in Inside => status'[h] = "runnable"
  /\ status[h] = "exited" => status'[h] = "exited" /\ retired'[h] = retired[h]

(* What one step of a worker does to the hart it is inside.                *)
LEMMA StepEffect ==
  ASSUME SafeInv, NEW w \in Workers,
         Work(w) \/ Stop(w) \/ (\E h \in Harts : RunDirect(w, h) \/ BeginReap(w, h))
  PROVE  Idle(w) \/ Local(w)
<1> USE DEF SafeInv, LockInv, TypeInv, TypeOK, Places, Status, Owning, Inside, Go, Return,
    Alone, Idle, Local, OrderOf, OnlyRunnableExecutes, kernelVars
<1>1. CASE Schedule(w)
  <2>1. CASE LookAt(w)
    <3>1. CASE status[Candidate(w)] = "runnable"
      BY <2>1, <3>1 DEF LookAt
    <3>2. CASE status[Candidate(w)] # "runnable"
      BY <2>1, <3>2, Zenon DEF LookAt
    <3> QED
      BY <3>1, <3>2
  <2>2. CASE StartScan(w) \/ Claim(w) \/ ClaimLost(w) \/ LeaveScheduler(w) \/ NothingRunnable(w)
    BY <2>2 DEF StartScan, Claim, ClaimLost, LeaveScheduler, NothingRunnable
  <2> QED
    BY <1>1, <2>1, <2>2 DEF Schedule
<1>2. CASE Enter(w)
  <2>1. at'[w] = "step" => Entry(status[cur[w]]) = "budget"
    BY <1>2 DEF Enter
  <2>2. Entry(status[cur[w]]) = "budget" => status[cur[w]] = "runnable"
    <3>1. status[cur[w]] \in {"runnable", "waiting", "exited", "faulted"}
      OBVIOUS
    <3> QED
      BY <3>1 DEF Entry
  <2> QED
    BY <1>2, <2>1, <2>2 DEF Enter
<1>3. CASE BudgetSpent(w) \/ TakeKernelLock(w) \/ Leave(w)
  BY <1>3 DEF BudgetSpent, TakeKernelLock, Leave, AtInstruction, Afterwards
<1>4. CASE Plain(w)
  BY <1>4 DEF Plain, AtInstruction, Advance, Retire
<1>5. CASE Jump(w)
  BY <1>5 DEF Jump, AtInstruction
<1>6. CASE FinishLocked(w)
  BY <1>6 DEF FinishLocked, Advance, Retire
<1>7. CASE Contended(w)
  BY <1>7 DEF Contended, AtInstruction, Rollback
<1>8. CASE Fault(w)
  <2>1. at[w] = "step"
    BY <1>8 DEF Fault, AtInstruction
  <2>2. pc' \in {pc, [pc EXCEPT ![cur[w]] = @ + 1]}
    <3>1. CASE Fetch(cur[w]) = "unmapped"
      BY <1>8, <3>1, Zenon DEF Fault
    <3>2. CASE Fetch(cur[w]) # "unmapped"
      <4>1. pc' = [pc EXCEPT ![cur[w]] = @ + 1]
        BY <1>8, <3>2, Zenon DEF Fault, Advance
      <4> QED
        BY <4>1
    <3> QED
      BY <3>1, <3>2
  <2>3. /\ status' = [status EXCEPT ![cur[w]] = "faulted"]
        /\ at' = [at EXCEPT ![w] = "leave"]
        /\ UNCHANGED <<cur, retired>>
    BY <1>8 DEF Fault
  <2> QED
    BY <2>1, <2>2, <2>3
<1>9. CASE Trap(w)
  BY <1>9 DEF Trap, AtInstruction, Advance
<1>10. CASE ExitCall(w)
  BY <1>10 DEF ExitCall, AtInstruction, Advance, Retire
<1>11. CASE Resume(w)
  BY <1>11 DEF Resume, Awaits, Retire
<1>12. CASE Reap(w)
  BY <1>12 DEF Reap
<1>13. CASE \/ BeginResume(w) \/ GiveUp(w) \/ RefuseResume(w) \/ EndRefused(w)
            \/ EndResume(w) \/ EndReap(w) \/ Stop(w)
  BY <1>13 DEF BeginResume, GiveUp, RefuseResume, EndRefused, EndResume, EndReap, Stop
<1>14. ASSUME NEW h \in Harts, RunDirect(w, h) \/ BeginReap(w, h)
       PROVE  Idle(w)
  BY <1>14 DEF RunDirect, BeginReap
<1> QED
  BY <1>1, <1>2, <1>3, <1>4, <1>5, <1>6, <1>7, <1>8, <1>9, <1>10, <1>11, <1>12, <1>13, <1>14
     DEF Work, Execute, Serve, Finish

(* Initially every hart is runnable and at its first instruction.          *)
LEMMA SafeInit == Init => SafeInv
<1> SUFFICES ASSUME Init PROVE SafeInv
  OBVIOUS
<1>1. LockInv
  BY LockInit
<1>2. OnlyRunnableExecutes /\ \A h \in Harts : OrderOf(h)
  BY DEF Init, OnlyRunnableExecutes, OrderOf
<1> QED
  BY <1>1, <1>2 DEF SafeInv

(* The hart a worker changes is not the hart another worker is inside.     *)
LEMMA SafeStep == SafeInv /\ [Next]_vars => SafeInv'
<1> SUFFICES ASSUME SafeInv, [Next]_vars PROVE SafeInv'
  OBVIOUS
<1>1. LockInv' /\ TypeInv'
  BY LockStep DEF SafeInv, LockInv
<1>2. CASE UNCHANGED vars
  BY <1>1, <1>2 DEF vars, SafeInv, OnlyRunnableExecutes, OrderOf
<1>3. CASE Next
  <2>1. PICK w \in Workers :
          Work(w) \/ Stop(w) \/ \E h \in Harts : RunDirect(w, h) \/ BeginReap(w, h)
    BY <1>3 DEF Next
  <2>2. CASE Idle(w)
    BY <1>1, <2>2 DEF Idle, Alone, SafeInv, OnlyRunnableExecutes, OrderOf, Inside
  <2>3. CASE Local(w)
    <3>1. \A v \in Workers \ {w} : at[v] \in Inside => cur[v] # cur[w]
      <4>1. at[w] \in Owning /\ cur[w] \in Harts
        BY <2>3 DEF Local, SafeInv, LockInv, TypeInv, TypeOK
      <4>2. HartExclusive
        BY DEF SafeInv, LockInv
      <4> QED
        BY <4>1, <4>2 DEF HartExclusive, Owns, Inside, Owning
    <3>2. OnlyRunnableExecutes'
      BY <1>1, <2>3, <3>1
         DEF Local, Alone, SafeInv, OnlyRunnableExecutes, Inside, LockInv, TypeInv, TypeOK
    <3>3. \A h \in Harts : OrderOf(h)'
      BY <2>3 DEF Local, SafeInv, OrderOf
    <3> QED
      BY <1>1, <3>2, <3>3 DEF SafeInv
  <2> QED
    BY <2>1, <2>2, <2>3, StepEffect
<1> QED
  BY <1>2, <1>3

(* No instruction is executed for a hart that waits, has exited or has     *)
(* faulted, whatever the scheduler read before it held the lock.           *)
THEOREM RunnableOnly == Spec => []OnlyRunnableExecutes
<1>1. SafeInv => OnlyRunnableExecutes
  BY DEF SafeInv
<1>2. QED
  BY <1>1, SafeInit, SafeStep, PTL DEF Spec

(* No instruction is lost or executed twice, contention included.          *)
THEOREM InOrder == Spec => []InstructionsInOrder
<1>1. SafeInv => InstructionsInOrder
  BY DEF SafeInv, InstructionsInOrder, OrderOf
<1>2. QED
  BY <1>1, SafeInit, SafeStep, PTL DEF Spec

(* An exited hart stays exited and makes no progress, late answers and     *)
(* stale scans notwithstanding.                                            *)
THEOREM ExitIsFinal == Spec => ExitedIsFinal
<1> DEFINE Final == \A h \in Harts : status[h] = "exited" =>
                      status'[h] = "exited" /\ retired'[h] = retired[h]
<1>1. SafeInv /\ [Next]_vars => [Final]_vars
  <2> SUFFICES ASSUME SafeInv, Next PROVE Final
    BY Zenon
  <2>1. PICK w \in Workers :
          Work(w) \/ Stop(w) \/ \E h \in Harts : RunDirect(w, h) \/ BeginReap(w, h)
    BY DEF Next
  <2>2. Idle(w) \/ Local(w)
    BY <2>1, StepEffect
  <2> QED
    BY <2>2 DEF Idle, Local
<1>2. QED
  BY <1>1, SafeInit, SafeStep, PTL DEF Spec, ExitedIsFinal

-----------------------------------------------------------------------------
(* The workers that C_ACTIVE_WORKERS counts.                               *)
InBatch == {w \in Workers : at[w] \in Executing}

ActiveInv == TypeInv /\ ActiveExact

(* A step of a worker counts it when it enters a batch, and takes it back  *)
(* when it leaves one; nobody else's place changes.                        *)
LEMMA BatchKinds ==
  ASSUME TypeInv, NEW w \in Workers,
         Work(w) \/ Stop(w) \/ (\E h \in Harts : RunDirect(w, h) \/ BeginReap(w, h))
  PROVE  \/ w \notin InBatch /\ InBatch' = InBatch \cup {w} /\ active' = active + 1
         \/ w \in InBatch /\ InBatch' = InBatch \ {w} /\ active' = active - 1
         \/ InBatch' = InBatch /\ active' = active
<1> USE DEF TypeInv, TypeOK, InBatch, Executing, Go, kernelVars, Return
<1>1. CASE Schedule(w)
  <2>1. CASE LookAt(w)
    <3>1. CASE status[Candidate(w)] = "runnable"
      BY <2>1, <3>1 DEF LookAt
    <3>2. CASE status[Candidate(w)] # "runnable"
      BY <2>1, <3>2, Zenon DEF LookAt
    <3> QED
      BY <3>1, <3>2
  <2>2. CASE StartScan(w) \/ Claim(w) \/ ClaimLost(w) \/ LeaveScheduler(w) \/ NothingRunnable(w)
    BY <2>2 DEF StartScan, Claim, ClaimLost, LeaveScheduler, NothingRunnable
  <2> QED
    BY <1>1, <2>1, <2>2 DEF Schedule
<1>2. CASE Enter(w)
  BY <1>2 DEF Enter
<1>3. CASE Leave(w)
  BY <1>3 DEF Leave, Afterwards, ActiveAfter
<1>4. CASE BudgetSpent(w) \/ Contended(w) \/ Fault(w) \/ Trap(w) \/ ExitCall(w)
  BY <1>4 DEF BudgetSpent, Contended, Fault, Trap, ExitCall, AtInstruction
<1>5. CASE Plain(w) \/ Jump(w) \/ TakeKernelLock(w) \/ FinishLocked(w)
  BY <1>5 DEF Plain, Jump, TakeKernelLock, FinishLocked, AtInstruction
<1>6. CASE Serve(w) \/ Finish(w) \/ Stop(w)
  BY <1>6 DEF Serve, Finish, Stop, BeginResume, GiveUp, Resume, RefuseResume, EndRefused,
              EndResume, Reap, EndReap
<1>7. ASSUME NEW h \in Harts, RunDirect(w, h) \/ BeginReap(w, h)
      PROVE  InBatch' = InBatch /\ active' = active
  BY <1>7 DEF RunDirect, BeginReap
<1> QED
  BY <1>1, <1>2, <1>3, <1>4, <1>5, <1>6, <1>7 DEF Work, Execute

(* Nobody is counted at first, and a step changes the count as it changes  *)
(* the set of those inside a batch.                                        *)
LEMMA ActiveStep == ActiveInv /\ [Next]_vars => ActiveInv'
<1> SUFFICES ASSUME ActiveInv, [Next]_vars PROVE ActiveInv'
  OBVIOUS
<1>1. TypeInv'
  BY TypeStep DEF ActiveInv
<1>2. IsFiniteSet(InBatch) /\ active = Cardinality(InBatch)
  BY SchedulerAssumption, FS_Subset DEF ActiveInv, ActiveExact, InBatch
<1>3. CASE UNCHANGED vars
  BY <1>1, <1>3 DEF vars, ActiveInv, ActiveExact
<1>4. CASE Next
  <2>1. PICK w \in Workers :
          Work(w) \/ Stop(w) \/ \E h \in Harts : RunDirect(w, h) \/ BeginReap(w, h)
    BY <1>4 DEF Next
  <2>2. active' = Cardinality(InBatch')
    <3>1. w \notin InBatch => Cardinality(InBatch \cup {w}) = Cardinality(InBatch) + 1
      BY <1>2, FS_AddElement
    <3>2. w \in InBatch => Cardinality(InBatch \ {w}) = Cardinality(InBatch) - 1
      BY <1>2, FS_RemoveElement
    <3> QED
      BY <1>2, <2>1, <3>1, <3>2, BatchKinds DEF ActiveInv
  <2> QED
    BY <1>1, <2>2 DEF ActiveInv, ActiveExact, InBatch
<1> QED
  BY <1>3, <1>4

(* C_ACTIVE_WORKERS is exact, for any number of workers: whichever way a   *)
(* batch ends, the worker is taken out of the count.                       *)
THEOREM ActiveCounts == Spec => []ActiveExact
<1>1. Init => ActiveInv
  <2> SUFFICES ASSUME Init PROVE ActiveExact
    BY TypeInit DEF ActiveInv
  <2>1. InBatch = {}
    BY DEF Init, InBatch, Executing
  <2> QED
    BY <2>1, FS_EmptySet DEF Init, ActiveExact, InBatch
<1>2. ActiveInv => ActiveExact
  BY DEF ActiveInv
<1>3. QED
  BY <1>1, <1>2, ActiveStep, PTL DEF Spec

-----------------------------------------------------------------------------
(* The status, the event and the process record of a hart agree, whoever   *)
(* holds its lock.                                                         *)
Agree(h) ==
  /\ (status[h] = "waiting") = (event[h] # "none")
  /\ (status[h] = "waiting") = (procState[h] = "waiting")
  /\ (status[h] = "exited") = (procState[h] = "zombie")

(* RequestOwed speaks of the harts nobody holds and of the workers that    *)
(* are about to ask.  The invariant follows a request from the instruction *)
(* that makes it to the answer: one worker owes it, from before it has     *)
(* left the batch until it holds the lock again, and nobody owes anything  *)
(* to a hart that can run.                                                 *)
Debt(h) ==
  /\ \A v, w \in debtorBar[h] : v = w
  /\ debtorBar[h] # {} => status[h] \in {"waiting", "exited"}
  /\ status[h] = "waiting" => \E w \in debtorBar[h] : result[w] = event[h]

DebtInv == SafeInv /\ \A h \in Harts : Agree(h) /\ Debt(h)

(* What a step of one worker can do about requests.  It changes nothing    *)
(* about them, though it may go inside a hart that can run, or leave it;   *)
Quiet(w) ==
  /\ UNCHANGED <<status, event, procState>>
  /\ Owing(w)' <=> Owing(w)
  /\ Owing(w) => cur'[w] = cur[w] /\ result'[w] = result[w]
  /\ cur'[w] = cur[w] \/ (at[w] \notin Inside /\ at'[w] \notin Inside)
  /\ at'[w] \in Inside /\ at[w] \notin Inside => at[w] \in Owning /\ status[cur[w]] = "runnable"

(* or its hart makes a request;                                            *)
Asks(w) ==
  /\ at[w] \in Inside /\ at'[w] = "leave" /\ cur' = cur
  /\ result'[w] \in {"syscall", "host"}
  /\ status' = [status EXCEPT ![cur[w]] = "waiting"]
  /\ event' = [event EXCEPT ![cur[w]] = result'[w]]
  /\ procState' = [procState EXCEPT ![cur[w]] = "waiting"]

(* or it ends its hart, which it executes or has taken in order to end it; *)
Stops(w) ==
  /\ at[w] \in Owning /\ at'[w] \notin Inside /\ cur' = cur
  /\ ~Owing(w) /\ ~Owing(w)'
  /\ \A g \in Harts \ {cur[w]} : status'[g] = status[g] /\ event'[g] = event[g] /\ procState'[g] = procState[g]
  /\ Agree(cur[w])'
  /\ \/ status'[cur[w]] = "exited"
     \/ status'[cur[w]] = "faulted" /\ status[cur[w]] = "runnable"

(* or it answers a request that still waits, or finds that it does not.    *)
Answers(w) ==
  /\ at[w] = "resume" /\ at'[w] = "resumed" /\ cur' = cur /\ result' = result
  /\ Awaits(cur[w], result[w])
  /\ status' = [status EXCEPT ![cur[w]] = "runnable"]
  /\ event' = [event EXCEPT ![cur[w]] = "none"]
  /\ procState' = [procState EXCEPT ![cur[w]] = "runnable"]

Refuses(w) ==
  /\ at[w] = "resume" /\ at'[w] = "refused" /\ cur' = cur /\ result' = result
  /\ ~Awaits(cur[w], result[w])
  /\ UNCHANGED <<status, event, procState>>

ByItself(w) == Alone(w) /\ \A v \in Workers \ {w} : result'[v] = result[v]

RequestKinds(w) == Quiet(w) \/ Asks(w) \/ Stops(w) \/ Answers(w) \/ Refuses(w)

(* Every step of a worker is of one of these kinds.                        *)
LEMMA RequestEffect ==
  ASSUME DebtInv, NEW w \in Workers,
         Work(w) \/ Stop(w) \/ (\E h \in Harts : RunDirect(w, h) \/ BeginReap(w, h))
  PROVE  ByItself(w) /\ RequestKinds(w)
<1> USE DEF TypeInv, TypeOK, Places, Owning, Inside, Go, Return, Alone, ByItself, Owing,
    RequestKinds, Quiet, kernelVars
<1>0. TypeInv /\ OnlyRunnableExecutes /\ \A h \in Harts : Agree(h)
  BY DEF DebtInv, SafeInv, LockInv
<1>1. CASE Schedule(w)
  <2>1. CASE LookAt(w)
    <3>1. CASE status[Candidate(w)] = "runnable"
      BY <1>0, <2>1, <3>1 DEF LookAt
    <3>2. CASE status[Candidate(w)] # "runnable"
      BY <1>0, <2>1, <3>2, Zenon DEF LookAt
    <3> QED
      BY <3>1, <3>2
  <2>2. CASE StartScan(w) \/ Claim(w) \/ ClaimLost(w) \/ LeaveScheduler(w) \/ NothingRunnable(w)
    BY <1>0, <2>2 DEF StartScan, Claim, ClaimLost, LeaveScheduler, NothingRunnable
  <2> QED
    BY <1>1, <2>1, <2>2 DEF Schedule
<1>2. CASE Enter(w)
  <2>1. Entry(status[cur[w]]) \in {"budget", "exited", "fault", "busy"}
    <3>1. status[cur[w]] \in {"runnable", "waiting", "exited", "faulted"}
      BY <1>0 DEF Status
    <3> QED
      BY <3>1 DEF Entry
  <2>2. Entry(status[cur[w]]) = "budget" => status[cur[w]] = "runnable"
    <3>1. status[cur[w]] \in {"runnable", "waiting", "exited", "faulted"}
      BY <1>0 DEF Status
    <3> QED
      BY <3>1 DEF Entry
  <2> QED
    BY <1>0, <1>2, <2>1, <2>2 DEF Enter
<1>3. CASE BudgetSpent(w)
  BY <1>0, <1>3 DEF BudgetSpent
<1>4. CASE Plain(w) \/ Jump(w) \/ TakeKernelLock(w) \/ FinishLocked(w)
  BY <1>0, <1>4 DEF Plain, Jump, TakeKernelLock, FinishLocked, AtInstruction
<1>5. CASE Contended(w)
  BY <1>0, <1>5 DEF Contended, AtInstruction
<1>6. CASE Fault(w)
  <2>1. at[w] = "step"
    BY <1>6 DEF Fault, AtInstruction
  <2>2. status[cur[w]] = "runnable" /\ Agree(cur[w])
    BY <1>0, <2>1 DEF OnlyRunnableExecutes
  <2>3. /\ status' = [status EXCEPT ![cur[w]] = "faulted"]
        /\ result' = [result EXCEPT ![w] = "fault"]
        /\ at' = [at EXCEPT ![w] = "leave"]
        /\ UNCHANGED <<event, procState, cur>>
    BY <1>6 DEF Fault
  <2>4. Agree(cur[w])'
    BY <1>0, <2>2, <2>3 DEF Agree
  <2> QED
    BY <1>0, <2>1, <2>2, <2>3, <2>4 DEF Stops
<1>7. CASE Trap(w)
  BY <1>0, <1>7 DEF Trap, AtInstruction, Asks
<1>8. CASE ExitCall(w)
  BY <1>0, <1>8 DEF ExitCall, AtInstruction, Stops, Agree
<1>9. CASE Leave(w)
  BY <1>0, <1>9 DEF Leave, Afterwards
<1>10. CASE BeginResume(w) \/ GiveUp(w) \/ EndRefused(w) \/ EndResume(w) \/ EndReap(w) \/ Stop(w)
  BY <1>0, <1>10 DEF BeginResume, GiveUp, EndRefused, EndResume, EndReap, Stop
<1>11. CASE Resume(w)
  BY <1>0, <1>11 DEF Resume, Answers
<1>12. CASE RefuseResume(w)
  BY <1>0, <1>12 DEF RefuseResume, Refuses
<1>13. CASE Reap(w)
  BY <1>0, <1>13 DEF Reap, EventAfterReap, Stops, Agree
<1>14. ASSUME NEW h \in Harts, RunDirect(w, h) \/ BeginReap(w, h)
       PROVE  ByItself(w) /\ Quiet(w)
  BY <1>0, <1>14 DEF RunDirect, BeginReap
<1> QED
  BY <1>1, <1>2, <1>3, <1>4, <1>5, <1>6, <1>7, <1>8, <1>9, <1>10, <1>11, <1>12, <1>13, <1>14
     DEF Work, Execute, Serve, Finish

(* A hart that a step does not touch: neither it nor what is owed to it    *)
(* changes.                                                                *)
Untouched(h) ==
  /\ status'[h] = status[h] /\ event'[h] = event[h] /\ procState'[h] = procState[h]
  /\ debtorBar'[h] = debtorBar[h]
  /\ \A v \in debtorBar[h] : result'[v] = result[v]

LEMMA DebtFramed ==
  ASSUME NEW h \in Harts, Agree(h), Debt(h), Untouched(h)
  PROVE  Agree(h)' /\ Debt(h)'
  BY DEF Agree, Debt, Untouched

(* The step of one worker changes the debts of that worker only.           *)
LEMMA OthersDebts ==
  ASSUME NEW w \in Workers, ByItself(w), NEW h \in Harts
  PROVE  /\ \A v : v # w => (v \in debtorBar'[h] <=> v \in debtorBar[h])
         /\ (w \in debtorBar'[h] <=> w \in debtorBar[h]) => debtorBar'[h] = debtorBar[h]
         /\ \A v \in debtorBar[h] : v # w => result'[v] = result[v]
  BY DEF ByItself, Alone, Owing, debtorBar

(* No kind of step makes two workers owe the same answer, or none.         *)
LEMMA DebtKinds ==
  ASSUME DebtInv, TypeInv', NEW w \in Workers, ByItself(w) /\ RequestKinds(w), NEW h \in Harts
  PROVE  Agree(h)' /\ Debt(h)'
<1>0. TypeInv /\ OnlyRunnableExecutes /\ Agree(h) /\ Debt(h) /\ cur[w] \in Harts
  BY DEF DebtInv, SafeInv, LockInv, TypeInv, TypeOK
<1>1. /\ \A v : v # w => (v \in debtorBar'[h] <=> v \in debtorBar[h])
      /\ (w \in debtorBar'[h] <=> w \in debtorBar[h]) => debtorBar'[h] = debtorBar[h]
      /\ \A v \in debtorBar[h] : v # w => result'[v] = result[v]
  BY OthersDebts
<1>2. CASE Quiet(w)
  <2>1. w \in debtorBar'[h] <=> w \in debtorBar[h]
    BY <1>2 DEF Quiet, debtorBar, Owing
  <2>2. w \in debtorBar[h] => result'[w] = result[w]
    BY <1>2 DEF Quiet, debtorBar, Owing
  <2>3. Untouched(h)
    BY <1>1, <1>2, <2>1, <2>2 DEF Quiet, Untouched
  <2> QED
    BY <1>0, <2>3, DebtFramed
<1>3. CASE Asks(w)
  <2>1. status[cur[w]] = "runnable"
    BY <1>0, <1>3 DEF Asks, OnlyRunnableExecutes, Inside
  <2>2. w \notin debtorBar[h] /\ (w \in debtorBar'[h] <=> h = cur[w])
    BY <1>3 DEF Asks, debtorBar, Owing, Inside
  <2>3. CASE h = cur[w]
    <3>1. debtorBar'[h] = {w}
      BY <1>0, <1>1, <2>1, <2>2, <2>3 DEF Debt
    <3>2. status'[h] = "waiting" /\ event'[h] = result'[w] /\ procState'[h] = "waiting"
      BY <1>0, <1>3, <2>3 DEF Asks, TypeInv, TypeOK
    <3> QED
      BY <1>3, <3>1, <3>2 DEF Asks, Agree, Debt
  <2>4. CASE h # cur[w]
    <3>1. Untouched(h)
      BY <1>0, <1>1, <1>3, <2>2, <2>4 DEF Asks, TypeInv, TypeOK, Untouched
    <3> QED
      BY <1>0, <3>1, DebtFramed
  <2> QED
    BY <2>3, <2>4
<1>4. CASE Stops(w)
  <2>1. w \notin debtorBar[h] /\ w \notin debtorBar'[h]
    BY <1>4 DEF Stops, debtorBar, Owing
  <2>2. debtorBar'[h] = debtorBar[h] /\ \A v \in debtorBar[h] : result'[v] = result[v]
    BY <1>1, <2>1
  <2>3. CASE h = cur[w]
    BY <1>0, <1>4, <2>2, <2>3 DEF Stops, Debt
  <2>4. CASE h # cur[w]
    <3>1. Untouched(h)
      BY <1>4, <2>2, <2>4 DEF Stops, Untouched
    <3> QED
      BY <1>0, <3>1, DebtFramed
  <2> QED
    BY <2>3, <2>4
<1>5. CASE Answers(w)
  <2>1. (w \in debtorBar[h] <=> h = cur[w]) /\ w \notin debtorBar'[h]
    BY <1>5 DEF Answers, debtorBar, Owing
  <2>2. CASE h = cur[w]
    <3>1. debtorBar'[h] = {}
      BY <1>0, <1>1, <2>1, <2>2 DEF Debt
    <3>2. status'[h] = "runnable" /\ event'[h] = "none" /\ procState'[h] = "runnable"
      BY <1>0, <1>5, <2>2 DEF Answers, TypeInv, TypeOK
    <3> QED
      BY <3>1, <3>2 DEF Agree, Debt
  <2>3. CASE h # cur[w]
    <3>1. Untouched(h)
      BY <1>0, <1>1, <1>5, <2>1, <2>3 DEF Answers, TypeInv, TypeOK, Untouched
    <3> QED
      BY <1>0, <3>1, DebtFramed
  <2> QED
    BY <2>2, <2>3
<1>6. CASE Refuses(w)
  <2>1. (w \in debtorBar[h] <=> h = cur[w]) /\ w \notin debtorBar'[h]
    BY <1>6 DEF Refuses, debtorBar, Owing
  <2>2. CASE h = cur[w]
    <3>1. debtorBar[h] = {w} /\ debtorBar'[h] = {}
      BY <1>0, <1>1, <2>1, <2>2 DEF Debt
    <3>2. status[h] # "waiting"
      BY <1>0, <1>6, <2>2, <3>1 DEF Refuses, Awaits, Debt
    <3> QED
      BY <1>0, <1>6, <3>1, <3>2 DEF Refuses, Agree, Debt
  <2>3. CASE h # cur[w]
    <3>1. Untouched(h)
      BY <1>1, <1>6, <2>1, <2>3 DEF Refuses, Untouched
    <3> QED
      BY <1>0, <3>1, DebtFramed
  <2> QED
    BY <2>2, <2>3
<1> QED
  BY <1>2, <1>3, <1>4, <1>5, <1>6 DEF RequestKinds

(* At first nobody has asked for anything.                                 *)
LEMMA DebtInit == Init => DebtInv
<1> SUFFICES ASSUME Init, NEW h \in Harts PROVE Agree(h) /\ Debt(h)
  BY SafeInit DEF DebtInv
<1> QED
  BY DEF Init, Agree, Debt, debtorBar, Owing

(* The inductive step for the requests of the harts.                       *)
LEMMA DebtStep == DebtInv /\ [Next]_vars => DebtInv'
<1> SUFFICES ASSUME DebtInv, [Next]_vars PROVE DebtInv'
  OBVIOUS
<1>1. SafeInv' /\ TypeInv'
  BY SafeStep DEF DebtInv, SafeInv, LockInv
<1>2. CASE UNCHANGED vars
  BY <1>1, <1>2 DEF vars, DebtInv, Agree, Debt, debtorBar, Owing
<1>3. CASE Next
  <2>1. PICK w \in Workers :
          Work(w) \/ Stop(w) \/ \E h \in Harts : RunDirect(w, h) \/ BeginReap(w, h)
    BY <1>3 DEF Next
  <2>2. ByItself(w) /\ RequestKinds(w)
    BY <2>1, RequestEffect
  <2> QED
    BY <1>1, <2>2, DebtKinds DEF DebtInv
<1> QED
  BY <1>2, <1>3

(* No request is lost and none is answered twice, for any number of        *)
(* workers: a hart nobody holds waits exactly when it has an unanswered    *)
(* event, and exactly one worker is about to answer it.                    *)
THEOREM RequestsOwed == Spec => []RequestOwed
<1>1. DebtInv => RequestOwed
  <2> SUFFICES ASSUME DebtInv, NEW h \in Harts, hartLock[h] = 0, status[h] = "waiting"
               PROVE  Cardinality({w \in Workers : /\ at[w] \in {"serve", "broken"}
                                                   /\ cur[w] = h /\ result[w] = event[h]}) = 1
    BY DEF DebtInv, RequestOwed, Agree
  <2>1. LockHeld /\ Debt(h)
    BY DEF DebtInv, SafeInv, LockInv
  <2>2. PICK w \in debtorBar[h] : result[w] = event[h]
    BY <2>1 DEF Debt
  <2>3. w \in Workers /\ at[w] \in {"serve", "broken"} /\ cur[w] = h
    BY <2>1, <2>2 DEF debtorBar, Owing, LockHeld, Owning
  <2>4. \A v \in Workers : at[v] \in {"serve", "broken"} /\ cur[v] = h => v \in debtorBar[h]
    BY DEF debtorBar, Owing
  <2>5. {v \in Workers : /\ at[v] \in {"serve", "broken"}
                         /\ cur[v] = h /\ result[v] = event[h]} = {w}
    BY <2>1, <2>2, <2>3, <2>4 DEF Debt
  <2> QED
    BY <2>5, FS_Singleton
<1>2. QED
  BY <1>1, DebtInit, DebtStep, PTL DEF Spec

-----------------------------------------------------------------------------
(* The scheduler implements HartContract: each kind of step is a step of   *)
(* the contract, or changes nothing the contract knows of.                 *)

(* What a hart looks like to the contract.                                 *)
LEMMA Phases ==
  ASSUME TypeInv, TypeInv', NEW h \in Harts
  PROVE  /\ phaseBar[h] = "ended" <=> status[h] \in {"exited", "faulted"}
         /\ phaseBar[h] = "blocked" <=> status[h] = "waiting"
         /\ phaseBar[h] = "ready" <=> status[h] = "runnable"
         /\ phaseBar'[h] = "ended" <=> status'[h] \in {"exited", "faulted"}
         /\ phaseBar'[h] = "blocked" <=> status'[h] = "waiting"
         /\ phaseBar'[h] = "ready" <=> status'[h] = "runnable"
<1>1. /\ status[h] \in {"runnable", "waiting", "exited", "faulted"}
      /\ status'[h] \in {"runnable", "waiting", "exited", "faulted"}
  BY DEF TypeInv, TypeOK, Status
<1>2. /\ phaseBar[h] = "ended" <=> status[h] \in {"exited", "faulted"}
      /\ phaseBar[h] = "blocked" <=> status[h] = "waiting"
      /\ phaseBar[h] = "ready" <=> status[h] = "runnable"
  BY <1>1 DEF phaseBar
<1> QED
  BY <1>1, <1>2 DEF phaseBar

(* The step of one worker changes the place of that worker only, and a     *)
(* worker that owns a hart is the only one that can be inside it.          *)
LEMMA OthersPlaces ==
  ASSUME HartExclusive, NEW w \in Workers, ByItself(w), NEW h \in Harts
  PROVE  /\ w \in runnerBar[h] <=> at[w] \in Inside /\ cur[w] = h
         /\ at[w] \in Owning /\ cur[w] = h => runnerBar[h] \subseteq {w}
         /\ at'[w] \in Inside /\ cur'[w] = h => runnerBar'[h] = runnerBar[h] \cup {w}
         /\ ~(at'[w] \in Inside /\ cur'[w] = h) => runnerBar'[h] = runnerBar[h] \ {w}
<1>1. at[w] \in Owning /\ cur[w] = h => runnerBar[h] \subseteq {w}
  BY DEF HartExclusive, Owns, runnerBar, Owning
<1> QED
  BY <1>1 DEF ByItself, Alone, runnerBar, Inside

(* The bars are functions, so that they are equal when they agree on every *)
(* hart.                                                                   *)
LEMMA BarFunctions ==
  ASSUME TypeInv, TypeInv'
  PROVE  /\ phaseBar \in [Harts -> {"ready", "blocked", "ended"}]
         /\ phaseBar' \in [Harts -> {"ready", "blocked", "ended"}]
         /\ runnerBar \in [Harts -> SUBSET Workers] /\ runnerBar' \in [Harts -> SUBSET Workers]
         /\ debtorBar \in [Harts -> SUBSET Workers] /\ debtorBar' \in [Harts -> SUBSET Workers]
<1>1. phaseBar \in [Harts -> {"ready", "blocked", "ended"}] /\ phaseBar' \in [Harts -> {"ready", "blocked", "ended"}]
  BY Zenon DEF phaseBar
<1> QED
  BY <1>1 DEF runnerBar, debtorBar

(* What a step of each kind is to the contract.                            *)
LEMMA ContractKinds ==
  ASSUME DebtInv, TypeInv', NEW w \in Workers, ByItself(w) /\ RequestKinds(w)
  PROVE  Contract!Next \/ UNCHANGED <<phaseBar, runnerBar, debtorBar>>
<1> DEFINE h == cur[w]
<1>0. /\ h \in Harts /\ TypeInv /\ OnlyRunnableExecutes /\ HartExclusive
      /\ Debt(h)
  BY DEF DebtInv, SafeInv, LockInv, TypeInv, TypeOK
<1> USE <1>0
<1>1. /\ phaseBar \in [Harts -> {"ready", "blocked", "ended"}]
      /\ phaseBar' \in [Harts -> {"ready", "blocked", "ended"}]
      /\ runnerBar \in [Harts -> SUBSET Workers] /\ runnerBar' \in [Harts -> SUBSET Workers]
      /\ debtorBar \in [Harts -> SUBSET Workers] /\ debtorBar' \in [Harts -> SUBSET Workers]
  BY BarFunctions
(* What stays the same of a hart.                                          *)
<1>2. ASSUME NEW g \in Harts, status'[g] = status[g]
      PROVE  phaseBar'[g] = phaseBar[g]
  BY <1>2, Zenon DEF phaseBar
<1>3. ASSUME NEW g \in Harts, w \in debtorBar'[g] <=> w \in debtorBar[g]
      PROVE  debtorBar'[g] = debtorBar[g]
  BY <1>3, OthersDebts
<1>4. ASSUME NEW g \in Harts, (at'[w] \in Inside /\ cur'[w] = g) <=> (at[w] \in Inside /\ cur[w] = g)
      PROVE  runnerBar'[g] = runnerBar[g]
  BY <1>1, <1>4, OthersPlaces
<1>5. /\ phaseBar[h] = "ended" <=> status[h] \in {"exited", "faulted"}
      /\ phaseBar[h] = "blocked" <=> status[h] = "waiting"
      /\ phaseBar[h] = "ready" <=> status[h] = "runnable"
      /\ phaseBar'[h] = "ended" <=> status'[h] \in {"exited", "faulted"}
      /\ phaseBar'[h] = "blocked" <=> status'[h] = "waiting"
      /\ phaseBar'[h] = "ready" <=> status'[h] = "runnable"
  BY Phases
<1>6. /\ at[w] \in Owning => runnerBar[h] \subseteq {w}
      /\ w \in runnerBar[h] <=> at[w] \in Inside
      /\ at'[w] \in Inside /\ cur'[w] = h => runnerBar'[h] = runnerBar[h] \cup {w}
      /\ ~(at'[w] \in Inside /\ cur'[w] = h) => runnerBar'[h] = runnerBar[h] \ {w}
  BY OthersPlaces
<1>7. \A v : v # w => (v \in debtorBar'[h] <=> v \in debtorBar[h])
  BY OthersDebts
<1>8. CASE Quiet(w)
  <2>1. phaseBar' = phaseBar
    BY <1>1, <1>2, <1>8 DEF Quiet
  <2>2. debtorBar' = debtorBar
    <3>1. ASSUME NEW g \in Harts PROVE w \in debtorBar'[g] <=> w \in debtorBar[g]
      BY <1>8 DEF Quiet, debtorBar, Owing
    <3>2. \A g \in Harts : debtorBar'[g] = debtorBar[g]
      BY <1>3, <3>1
    <3> QED
      BY <1>1, <3>2
  <2>3. \A g \in Harts \ {h} : runnerBar'[g] = runnerBar[g]
    BY <1>4, <1>8 DEF Quiet
  <2>4. CASE at[w] \notin Inside /\ at'[w] \in Inside
    <3>1. at[w] \in Owning /\ status[h] = "runnable" /\ cur'[w] = h
      BY <1>8, <2>4 DEF Quiet
    <3>2. phaseBar[h] = "ready" /\ runnerBar[h] = {} /\ runnerBar'[h] = {w}
      BY <1>5, <1>6, <2>4, <3>1
    <3>3. runnerBar' = [runnerBar EXCEPT ![h] = {w}]
      BY <1>1, <2>3, <3>2
    <3> QED
      BY <2>1, <2>2, <3>2, <3>3 DEF Contract!Next, Contract!Enter
  <2>5. CASE at[w] \in Inside /\ at'[w] \notin Inside
    <3>1. runnerBar[h] = {w} /\ runnerBar'[h] = {}
      BY <1>6, <1>8, <2>5 DEF Quiet, Inside, Owning
    <3>2. runnerBar' = [runnerBar EXCEPT ![h] = {}]
      BY <1>1, <2>3, <3>1
    <3> QED
      BY <2>1, <2>2, <3>1, <3>2 DEF Contract!Next, Contract!Pause
  <2>6. CASE at[w] \in Inside <=> at'[w] \in Inside
    <3>1. runnerBar'[h] = runnerBar[h]
      BY <1>4, <1>8, <2>6 DEF Quiet
    <3>2. runnerBar' = runnerBar
      BY <1>1, <2>3, <3>1
    <3> QED
      BY <2>1, <2>2, <3>2
  <2> QED
    BY <2>4, <2>5, <2>6
<1>9. CASE Asks(w)
  <2>1. status[h] = "runnable" /\ status' = [status EXCEPT ![h] = "waiting"]
    BY <1>9 DEF Asks, OnlyRunnableExecutes, Inside
  <2>2. phaseBar[h] = "ready" /\ phaseBar' = [phaseBar EXCEPT ![h] = "blocked"]
    <3>1. phaseBar[h] = "ready" /\ phaseBar'[h] = "blocked"
      BY <1>5, <2>1 DEF TypeInv, TypeOK
    <3>2. \A g \in Harts \ {h} : phaseBar'[g] = phaseBar[g]
      BY <1>2, <2>1 DEF TypeInv, TypeOK
    <3> QED
      BY <1>1, <3>1, <3>2
  <2>3. runnerBar[h] = {w} /\ runnerBar' = [runnerBar EXCEPT ![h] = {}]
    <3>1. runnerBar[h] = {w} /\ runnerBar'[h] = {}
      BY <1>6, <1>9 DEF Asks, Inside, Owning
    <3>2. \A g \in Harts \ {h} : runnerBar'[g] = runnerBar[g]
      BY <1>4, <1>9 DEF Asks
    <3> QED
      BY <1>1, <3>1, <3>2
  <2>4. debtorBar[h] = {} /\ debtorBar' = [debtorBar EXCEPT ![h] = {w}]
    <3>1. ASSUME NEW g \in Harts PROVE w \notin debtorBar[g] /\ (w \in debtorBar'[g] <=> g = h)
      BY <1>9 DEF Asks, debtorBar, Owing, Inside
    <3>2. debtorBar[h] = {} /\ debtorBar'[h] = {w}
      BY <1>7, <2>1, <3>1 DEF Debt
    <3>3. \A g \in Harts \ {h} : debtorBar'[g] = debtorBar[g]
      BY <1>3, <3>1
    <3> QED
      BY <1>1, <3>2, <3>3
  <2> QED
    BY <2>2, <2>3, <2>4 DEF Contract!Next, Contract!Request
<1>10. CASE Stops(w)
  <2>1. debtorBar' = debtorBar
    <3>1. ASSUME NEW g \in Harts PROVE w \in debtorBar'[g] <=> w \in debtorBar[g]
      BY <1>10 DEF Stops, debtorBar, Owing
    <3>2. \A g \in Harts : debtorBar'[g] = debtorBar[g]
      BY <1>3, <3>1
    <3> QED
      BY <1>1, <3>2
  <2>2. phaseBar' = [phaseBar EXCEPT ![h] = "ended"]
    <3>1. phaseBar'[h] = "ended"
      BY <1>5, <1>10 DEF Stops
    <3>2. \A g \in Harts \ {h} : phaseBar'[g] = phaseBar[g]
      BY <1>2, <1>10 DEF Stops
    <3> QED
      BY <1>1, <3>1, <3>2
  <2>3. runnerBar[h] \subseteq {w} /\ runnerBar' = [runnerBar EXCEPT ![h] = {}]
    <3>1. runnerBar[h] \subseteq {w} /\ runnerBar'[h] = {}
      BY <1>6, <1>10 DEF Stops
    <3>2. \A g \in Harts \ {h} : runnerBar'[g] = runnerBar[g]
      BY <1>4, <1>10 DEF Stops
    <3> QED
      BY <1>1, <3>1, <3>2
  <2>4. CASE phaseBar[h] = "ended"
    <3>1. phaseBar' = phaseBar
      BY <1>1, <2>2, <2>4
    <3>2. runnerBar[h] = {}
      BY <1>5, <1>6, <2>3, <2>4 DEF OnlyRunnableExecutes, Inside
    <3>3. runnerBar' = runnerBar
      BY <1>1, <2>3, <3>2
    <3> QED
      BY <2>1, <3>1, <3>3
  <2>5. CASE phaseBar[h] # "ended"
    BY <2>1, <2>2, <2>3, <2>5 DEF Contract!Next, Contract!End
  <2> QED
    BY <2>4, <2>5
<1>11. CASE Answers(w) \/ Refuses(w)
  <2>1. ASSUME NEW g \in Harts PROVE (w \in debtorBar[g] <=> g = h) /\ w \notin debtorBar'[g]
    BY <1>11 DEF Answers, Refuses, debtorBar, Owing
  <2>2. debtorBar[h] = {w} /\ debtorBar' = [debtorBar EXCEPT ![h] = {}]
    <3>1. debtorBar[h] = {w} /\ debtorBar'[h] = {}
      BY <1>7, <2>1 DEF Debt
    <3>2. \A g \in Harts \ {h} : debtorBar'[g] = debtorBar[g]
      BY <1>3, <2>1
    <3> QED
      BY <1>1, <3>1, <3>2
  <2>3. runnerBar' = runnerBar
    <3>1. \A g \in Harts : runnerBar'[g] = runnerBar[g]
      BY <1>4, <1>11 DEF Answers, Refuses, Inside
    <3> QED
      BY <1>1, <3>1
  <2>4. CASE Answers(w)
    <3>1. phaseBar[h] = "blocked" /\ phaseBar'[h] = "ready"
      BY <1>5, <2>4 DEF Answers, Awaits, TypeInv, TypeOK
    <3>2. \A g \in Harts \ {h} : phaseBar'[g] = phaseBar[g]
      BY <1>2, <2>4 DEF Answers, TypeInv, TypeOK
    <3>3. phaseBar' = [phaseBar EXCEPT ![h] = "ready"]
      BY <1>1, <3>1, <3>2
    <3> QED
      BY <2>2, <2>3, <3>1, <3>3 DEF Contract!Next, Contract!Answer
  <2>5. CASE Refuses(w)
    <3>1. status[h] # "waiting"
      BY <2>2, <2>5 DEF Refuses, Awaits, Debt
    <3>2. phaseBar[h] = "ended"
      BY <1>5, <2>2, <3>1 DEF Debt
    <3>3. phaseBar' = phaseBar
      BY <1>1, <1>2, <2>5 DEF Refuses
    <3> QED
      BY <2>2, <2>3, <3>2, <3>3 DEF Contract!Next, Contract!Drop
  <2> QED
    BY <1>11, <2>4, <2>5
<1> QED
  BY <1>8, <1>9, <1>10, <1>11 DEF RequestKinds

(* The scheduler implements the contract: every step of a behaviour of it  *)
(* is a step of HartContract, or changes nothing HartContract knows of.    *)
THEOREM ContractImplemented == Spec => ImplementsContract
<1>1. Init => Contract!Init
  <2> SUFFICES ASSUME Init PROVE Contract!Init
    OBVIOUS
  <2>1. phaseBar = [h \in Harts |-> "ready"]
    BY DEF Init, phaseBar
  <2>2. runnerBar = [h \in Harts |-> {}] /\ debtorBar = [h \in Harts |-> {}]
    BY DEF Init, runnerBar, debtorBar, Owing
  <2> QED
    BY <2>1, <2>2 DEF Contract!Init
<1>2. DebtInv /\ [Next]_vars => [Contract!Next]_Contract!vars
  <2> SUFFICES ASSUME DebtInv, [Next]_vars
               PROVE  Contract!Next \/ UNCHANGED <<phaseBar, runnerBar, debtorBar>>
    BY DEF Contract!vars
  <2>1. CASE UNCHANGED vars
    BY <2>1 DEF vars, phaseBar, runnerBar, debtorBar, Owing
  <2>2. CASE Next
    <3>1. PICK w \in Workers :
            Work(w) \/ Stop(w) \/ \E h \in Harts : RunDirect(w, h) \/ BeginReap(w, h)
      BY <2>2 DEF Next
    <3>2. ByItself(w) /\ RequestKinds(w)
      BY <3>1, RequestEffect
    <3>3. TypeInv'
      BY TypeStep DEF DebtInv, SafeInv, LockInv
    <3> QED
      BY <3>2, <3>3, ContractKinds
  <2> QED
    BY <2>1, <2>2
<1>3. QED
  BY <1>1, <1>2, DebtInit, DebtStep, PTL DEF Spec, ImplementsContract, Contract!Spec
=============================================================================
