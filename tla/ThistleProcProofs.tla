-------------------------- MODULE ThistleProcProofs --------------------------
(***************************************************************************)
(* Proofs about processes, signals and jobs for any number of processes,   *)
(* calls and commands of a pipeline.                                       *)
(***************************************************************************)
EXTENDS ThistleProc, TLAPS, FiniteSetTheorems

(* The numbers of n new processes are n, and free ones of the table.       *)
LEMMA NewPids ==
  ASSUME TypeOK, NEW n \in Nat, seq + n - 1 <= MaxPid
  PROVE  LET new == seq .. seq + n - 1 IN
           /\ new \subseteq Pids \ {Shell}
           /\ Cardinality(new) = n
           /\ seq + n \in Shell + 1 .. MaxPid + 1
           /\ n >= 1 => seq \in new
<1> DEFINE new == seq .. seq + n - 1
<1>1. seq \in Int /\ seq >= 3 /\ MaxPid \in Nat
  BY ProcAssumption DEF TypeOK, Shell
<1>2. new \subseteq Pids \ {Shell}
  BY <1>1 DEF Pids, Shell
<1>3. Cardinality(new) = n
  BY <1>1, FS_Interval
<1>4. seq + n \in Shell + 1 .. MaxPid + 1
  BY <1>1 DEF Shell
<1>5. n >= 1 => seq \in new
  BY <1>1
<1> QED
  BY <1>2, <1>3, <1>4, <1>5

(* A status fits in eight bits.                                            *)
LEMMA StatusType ==
  ASSUME TypeOK, NEW p \in Pids, NEW n \in Nat
  PROVE  Status(p, n) \in 0 .. 255 \cup {NoCode}
  BY DEF TypeOK, Status, Ended

(* The initial state is well typed.                                        *)
LEMMA TypeInit == Init => TypeOK
  BY ProcAssumption DEF Init, TypeOK, Pids, Shell, NoSig, NoCode, States, Creds, Bodies

(* What a start does to the types.                                         *)
LEMMA CreatedTypes ==
  ASSUME TypeOK, NEW p \in Pids, NEW new \in SUBSET Pids, NEW privileged \in SUBSET new,
         seq \in new, seq + Cardinality(new) \in Shell + 1 .. MaxPid + 1,
         Created(p, new, seq, privileged)
  PROVE  /\ table' \subseteq Pids /\ seq' \in Shell + 1 .. MaxPid + 1
         /\ parent' \in [Pids -> Pids \cup {0}] /\ pgid' \in [Pids -> Pids \cup {0}]
         /\ cred' \in [Pids -> Creds] /\ body' \in [Pids -> Bodies]
<1>1. seq' \in Shell + 1 .. MaxPid + 1
  BY DEF Created
<1>5. cred' \in [Pids -> Creds]
  <2>1. cred' = [q \in Pids |-> CASE q \in privileged -> IF RealRoot(p) THEN "root" ELSE "setid"
                                 [] q \in new \ privileged -> cred[p]
                                 [] OTHER -> cred[q]]
    BY DEF Created
  <2>2. ASSUME NEW q \in Pids
        PROVE  (CASE q \in privileged -> IF RealRoot(p) THEN "root" ELSE "setid"
                  [] q \in new \ privileged -> cred[p]
                  [] OTHER -> cred[q]) \in Creds
    <3>1. cred[p] \in Creds /\ cred[q] \in Creds
      BY DEF TypeOK
    <3> QED
      BY <3>1 DEF Creds
  <2> QED
    BY <2>1, <2>2
<1>6. body' \in [Pids -> Bodies]
  BY DEF Created, TypeOK, Bodies
<1> QED
  BY <1>1, <1>5, <1>6 DEF Created, TypeOK

(* Delivering a signal keeps the range of what it changes.                 *)
LEMMA DeliverTypes ==
  ASSUME TypeOK, NEW hit, NEW s \in Signals, Deliver(hit, s)
  PROVE  /\ sig' \in [Pids -> Signals \cup {NoSig}]
         /\ pending' \in [Pids -> (Signals \ {SigKill}) \cup {NoSig}]
         /\ code' \in [Pids -> 0 .. 255 \cup {NoCode}]
         /\ state' \in [Pids -> States]
         /\ body' \in [Pids -> Bodies]
         /\ UNCHANGED <<mask, family, settled, waitsFor, shell>>
<1> USE DEF Deliver
<1>1. sig' \in [Pids -> Signals \cup {NoSig}]
  BY DEF TypeOK
<1>2. pending' \in [Pids -> (Signals \ {SigKill}) \cup {NoSig}]
  BY DEF TypeOK, Masked
<1>3. code' \in [Pids -> 0 .. 255 \cup {NoCode}]
  <2>1. 128 + s \in Nat
    BY ProcAssumption
  <2>2. \A p \in Pids : Status(p, 128 + s) \in 0 .. 255 \cup {NoCode}
    BY <2>1, StatusType
  <2> QED
    BY <2>2 DEF TypeOK
<1>4. state' \in [Pids -> States]
  BY DEF TypeOK, States
<1>5. body' \in [Pids -> Bodies]
  BY DEF TypeOK, Bodies
<1> QED
  BY <1>1, <1>2, <1>3, <1>4, <1>5

(* What the end of a program keeps in range.                               *)
LEMMA FinishTypes ==
  ASSUME TypeOK, NEW p \in Pids, NEW n \in Nat, Finish(p, n), own' = own \/ Chosen(p)
  PROVE  TypeOK'
<1>1. Status(p, n) \in 0 .. 255 \cup {NoCode}
  BY StatusType
<1>2. own' \subseteq Pids
  BY DEF Chosen, TypeOK
<1> QED
  BY <1>1, <1>2 DEF Finish, TypeOK, States, Bodies, family, shell

(* A signal is a small number.                                             *)
LEMMA SigType ==
  ASSUME TypeOK, NEW p \in Pids
  PROVE  /\ sig[p] \in {0, 1, 2, 9, 13, 15}
         /\ StatusOf(p) \in Nat /\ StatusOf(p) = 128 + sig[p] /\ StatusOf(p) < 256
<1>1. sig[p] \in {0, 1, 2, 9, 13, 15}
  <2>1. sig[p] \in Signals \cup {NoSig}
    BY DEF TypeOK
  <2> QED
    BY <2>1, ProcAssumption DEF NoSig
<1> QED
  BY <1>1 DEF StatusOf

(* Every step keeps every variable in its range.                           *)
LEMMA TypeStep == TypeOK /\ [Next]_vars => TypeOK'
<1> SUFFICES ASSUME TypeOK, [Next]_vars PROVE TypeOK'
  OBVIOUS
<1> USE DEF entries, family, shell, settled
<1>1. ASSUME NEW p \in Pids, Continue(p) PROVE TypeOK'
  <2>1. CASE Queued(p)
    BY <2>1 DEF Queued, TypeOK, Bodies
  <2>2. CASE Loaded(p)
    BY <2>2 DEF Loaded, TypeOK, Bodies, States
  <2>3. CASE Resume(p)
    BY <2>3 DEF Resume, TypeOK, Bodies, States
  <2>4. CASE WaitDone(p)
    BY <2>4 DEF WaitDone, Reap, TypeOK, Bodies
  <2> QED
    BY <1>1, <2>1, <2>2, <2>3, <2>4 DEF Continue
<1>2. ASSUME NEW p \in Pids, Finishes(p) PROVE TypeOK'
  <2>1. ASSUME NEW n \in Statuses, Exit(p, n) PROVE TypeOK'
    <3>1. n \in Nat
      BY ProcAssumption
    <3> QED
      BY <2>1, <3>1, FinishTypes DEF Exit
  <2>2. CASE Chk(p)
    BY <2>2, SigType, FinishTypes DEF Chk
  <2>3. CASE BreaksPipe(p)
    BY <2>3, FinishTypes DEF BreaksPipe, EPipe
  <2>4. CASE Throws(p)
    BY <2>4 DEF Throws, TypeOK, Bodies
  <2>5. ASSUME NEW n \in Errors, Complained(p, n) PROVE TypeOK'
    <3>1. n \in Nat
      BY ProcAssumption
    <3> QED
      BY <2>5, <3>1, FinishTypes DEF Complained
  <2> QED
    BY <1>2, <2>1, <2>2, <2>3, <2>4, <2>5 DEF Finishes, Returns
<1>3. ASSUME NEW p \in Pids, Calls(p) PROVE TypeOK'
  <2> USE DEF Call
  <2>0. ops < MaxOps => ops + 1 \in 0 .. MaxOps
    BY ProcAssumption DEF TypeOK
  <2>1. CASE StartChild(p)
    <3>1. PICK privileged \in SetIds({seq}) : Created(p, {seq}, seq, privileged)
      BY <2>1 DEF StartChild
    <3>2. {seq} \subseteq Pids /\ seq + Cardinality({seq}) \in Shell + 1 .. MaxPid + 1
      <4>1. {seq} \subseteq Pids /\ seq + 1 \in Shell + 1 .. MaxPid + 1
        BY <2>1, ProcAssumption DEF StartChild, TypeOK, Shell, Pids
      <4>2. Cardinality({seq}) = 1
        BY FS_Singleton
      <4> QED
        BY <4>1, <4>2
    <3>3. privileged \in SUBSET {seq}
      BY DEF SetIds
    <3>4. /\ table' \subseteq Pids /\ seq' \in Shell + 1 .. MaxPid + 1
          /\ parent' \in [Pids -> Pids \cup {0}] /\ pgid' \in [Pids -> Pids \cup {0}]
          /\ cred' \in [Pids -> Creds] /\ body' \in [Pids -> Bodies]
      BY <3>1, <3>2, <3>3, CreatedTypes
    <3> QED
      BY <2>0, <2>1, <3>4 DEF StartChild, TypeOK
  <2>2. CASE SleepStart(p)
    BY <2>0, <2>2 DEF SleepStart, TypeOK, States, Bodies
  <2>3. CASE RequestStart(p)
    BY <2>0, <2>3 DEF RequestStart, TypeOK, Bodies
  <2>4. CASE YieldStart(p)
    BY <2>0, <2>4 DEF YieldStart, TypeOK, States, Bodies
  <2>5. ASSUME NEW c \in Pids, Wait(p, c) PROVE TypeOK'
    BY <2>0, <2>5 DEF Wait, TypeOK, Bodies
  <2>6. ASSUME NEW s \in Signals, Kill(p, s) PROVE TypeOK'
    <3>1. PICK hit : Deliver(hit, s)
      BY <2>6 DEF Kill
    <3> QED
      BY <2>0, <2>6, <3>1, DeliverTypes DEF Kill, TypeOK
  <2>7. ASSUME NEW m \in SUBSET Signals, SetMask(p, m) PROVE TypeOK'
    BY <2>0, <2>7 DEF SetMask, MaskOf, TypeOK
  <2>8. CASE SetUid(p)
    BY <2>0, <2>8 DEF SetUid, TypeOK, Creds
  <2>9. CASE ReadStart(p)
    BY <2>0, <2>9 DEF ReadStart, TypeOK, Bodies
  <2> QED
    BY <1>3, <2>1, <2>2, <2>3, <2>4, <2>5, <2>6, <2>7, <2>8, <2>9 DEF Calls
<1>4. ASSUME NEW p \in Pids, LoadFails(p) \/ ReadDone(p) PROVE TypeOK'
  BY <1>4 DEF LoadFails, ReadDone, TypeOK, Bodies
<1>5. ASSUME NEW n \in 1 .. MaxWidth, NEW fate \in {"foreground", "background", "fails"},
             StartUnit(n, fate)
      PROVE  TypeOK'
  <2> DEFINE new == seq .. seq + n - 1
  <2>1. PICK privileged \in SetIds(new) : Created(Shell, new, seq, privileged)
    BY <1>5 DEF StartUnit
  <2>2. privileged \in SUBSET new
    BY DEF SetIds
  <2>3. n \in Nat /\ n >= 1 /\ Shell \in Pids /\ seq + n - 1 <= MaxPid
    <3>1. n \in Nat /\ n >= 1
      BY ProcAssumption
    <3>2. Shell \in Pids
      BY ProcAssumption DEF Pids, Shell
    <3> QED
      BY <1>5, <3>1, <3>2 DEF StartUnit
  <2>0. /\ new \in SUBSET Pids /\ seq \in new
        /\ seq + Cardinality(new) \in Shell + 1 .. MaxPid + 1
    <3>1. /\ new \subseteq Pids \ {Shell} /\ Cardinality(new) = n
          /\ seq + n \in Shell + 1 .. MaxPid + 1 /\ (n >= 1 => seq \in new)
      BY <2>3, NewPids
    <3> HIDE DEF new
    <3> QED
      BY <2>3, <3>1
  <2> HIDE DEF new
  <2>4. /\ table' \subseteq Pids /\ seq' \in Shell + 1 .. MaxPid + 1
        /\ parent' \in [Pids -> Pids \cup {0}] /\ pgid' \in [Pids -> Pids \cup {0}]
        /\ cred' \in [Pids -> Creds] /\ body' \in [Pids -> Bodies]
    BY <2>0, <2>1, <2>2, <2>3, CreatedTypes
  <2>5. front' \in Pids \cup {0} /\ jobs' \subseteq Pids
    <3>1. \/ front' = seq /\ jobs' = jobs
          \/ front' = front /\ jobs' = jobs \cup {seq}
          \/ UNCHANGED shell
      BY <1>5 DEF StartUnit
    <3>2. seq \in Pids
      BY <2>0
    <3>3. front \in Pids \cup {0} /\ jobs \subseteq Pids
      BY DEF TypeOK
    <3> QED
      BY <3>1, <3>2, <3>3 DEF shell
  <2> QED
    BY <1>5, <2>4, <2>5 DEF StartUnit, TypeOK
<1>6. ASSUME NEW g \in jobs, Foreground(g) PROVE TypeOK'
  BY <1>6 DEF Foreground, TypeOK
<1>7. CASE ForegroundDone
  BY <1>7 DEF ForegroundDone, Reap, TypeOK
<1>8. CASE Interrupt
  <2>1. PICK hit : Deliver(hit, SigInt)
    BY <1>8 DEF Interrupt
  <2> QED
    BY <1>8, <2>1, DeliverTypes DEF Interrupt, TypeOK
<1>9. CASE UNCHANGED vars
  BY <1>9 DEF vars, TypeOK
<1> QED
  BY <1>1, <1>2, <1>3, <1>4, <1>5, <1>6, <1>7, <1>8, <1>9 DEF Next

(* Every variable keeps its range, for every instance.                     *)
THEOREM TypeCorrect == Spec => []TypeOK
<1>1. QED
  BY TypeInit, TypeStep, PTL DEF Spec

-----------------------------------------------------------------------------
(* A status that is set stays, and so does the signal, whatever the step.  *)
LEMMA FinalStep ==
  ASSUME TypeOK, [Next]_vars, NEW p \in Pids, Ended(p)
  PROVE  code'[p] = code[p] /\ sig'[p] = sig[p]
<1> USE DEF entries
<1>0. ASSUME NEW hit, NEW s, Deliver(hit, s)
      PROVE  code'[p] = code[p] /\ sig'[p] = sig[p]
  BY <1>0 DEF Deliver, Takes, Status
<1>1. ASSUME NEW q \in Pids, NEW n, Finish(q, n)
      PROVE  code'[p] = code[p] /\ sig'[p] = sig[p]
  BY <1>1 DEF Finish, Status, TypeOK
<1>2. ASSUME NEW q \in Pids, Calls(q)
      PROVE  code'[p] = code[p] /\ sig'[p] = sig[p]
  <2>1. CASE \E s \in Signals : Kill(q, s)
    <3>1. PICK s \in Signals : \E hit : Deliver(hit, s)
      BY <2>1 DEF Kill
    <3>2. PICK hit : Deliver(hit, s)
      BY <3>1
    <3> QED
      BY <3>2, <1>0
  <2>2. CASE \E m \in SUBSET Signals : SetMask(q, m)
    BY <2>2 DEF SetMask, TypeOK
  <2>3. CASE ~(\E s \in Signals : Kill(q, s)) /\ ~(\E m \in SUBSET Signals : SetMask(q, m))
    BY <1>2, <2>3 DEF Calls, StartChild, SleepStart, RequestStart, YieldStart, ReadStart, Wait,
                      SetUid
  <2> QED
    BY <2>1, <2>2, <2>3
<1>3. CASE \E q \in Pids : Continue(q) \/ ReadDone(q) \/ LoadFails(q)
  BY <1>3 DEF Continue, Queued, Loaded, Resume, WaitDone, ReadDone, LoadFails
<1>4. CASE \E q \in Pids : Finishes(q)
  BY <1>4, <1>1 DEF Finishes, Returns, Exit, Chk, BreaksPipe, Throws, Complained
<1>5. CASE Interrupt
  BY <1>5, <1>0 DEF Interrupt
<1>6. CASE \/ \E n \in 1 .. MaxWidth, fate \in {"foreground", "background", "fails"} :
             StartUnit(n, fate)
           \/ \E g \in jobs : Foreground(g)
           \/ ForegroundDone
           \/ UNCHANGED vars
  BY <1>6 DEF StartUnit, Foreground, ForegroundDone, vars
<1> QED
  BY <1>2, <1>3, <1>4, <1>5, <1>6 DEF Next

(* The end of a process is final: a kill and the program's own return may  *)
(* come in either order, and the first of them is what wait reports.       *)
THEOREM EndsAreFinal == Spec => EndIsFinal
<1>1. TypeOK /\ [Next]_vars =>
        [\A p \in Pids : Ended(p) => code'[p] = code[p] /\ sig'[p] = sig[p]]_vars
  BY FinalStep
<1> QED
  BY <1>1, TypeCorrect, PTL DEF Spec, EndIsFinal

-----------------------------------------------------------------------------
(* What a process ended with that did not choose it is its signal.         *)
Named(p) == Ended(p) /\ p \notin own => sig[p] # NoSig /\ code[p] = 128 + sig[p]

(* As long as nobody masks signals.                                        *)
StatusInv ==
  /\ TypeOK
  /\ "mask" \notin habits => \A p \in Pids : mask[p] = {} /\ Named(p)

(* A program that returns or meets an error has chosen its status, and one *)
(* that notices a signal ends with that of the signal.                     *)
LEMMA FinishStatus ==
  ASSUME StatusInv, "mask" \notin habits, NEW p \in Pids, NEW n \in Nat, n < 256,
         Finish(p, n),
         \/ Chosen(p)
         \/ own' = own /\ sig[p] # NoSig /\ n = 128 + sig[p]
  PROVE  \A q \in Pids : mask'[q] = {} /\ Named(q)'
<1> SUFFICES ASSUME NEW q \in Pids PROVE mask'[q] = {} /\ Named(q)'
  OBVIOUS
<1>1. /\ mask' = mask /\ sig' = sig /\ mask[q] = {} /\ Named(q)
      /\ own \subseteq own' /\ n % 256 = n /\ code \in [Pids -> 0 .. 255 \cup {NoCode}]
  BY DEF Finish, Chosen, StatusInv, TypeOK
<1>2. CASE q # p
  <2>1. code'[q] = code[q] /\ (q \in own' => q \in own)
    BY <1>1, <1>2 DEF Finish, Chosen
  <2> QED
    BY <1>1, <2>1 DEF Named, Ended
<1>3. CASE q = p /\ Ended(p)
  <2>1. code'[q] = code[q] /\ own' = own
    BY <1>1, <1>3 DEF Finish, Chosen, Status
  <2> QED
    BY <1>1, <2>1 DEF Named, Ended
<1>4. CASE q = p /\ ~Ended(p)
  <2>1. code'[q] = n
    BY <1>1, <1>4 DEF Finish, Status
  <2>2. CASE Chosen(p)
    BY <1>1, <1>4, <2>2 DEF Chosen, Named
  <2>3. CASE sig[p] # NoSig /\ n = 128 + sig[p]
    BY <1>1, <1>4, <2>1, <2>3 DEF Named
  <2> QED
    BY <2>2, <2>3
<1> QED
  BY <1>2, <1>3, <1>4

(* Who a signal ends has taken it, when nothing is masked.                 *)
LEMMA DeliverStatus ==
  ASSUME StatusInv, "mask" \notin habits, NEW hit, NEW s \in Signals, Deliver(hit, s)
  PROVE  \A q \in Pids : mask'[q] = {} /\ Named(q)'
<1> SUFFICES ASSUME NEW q \in Pids PROVE mask'[q] = {} /\ Named(q)'
  OBVIOUS
<1>1. mask[q] = {} /\ Named(q)
  BY DEF StatusInv
<1>2. s \in 1 .. 15
  BY ProcAssumption
<1>3. mask' = mask /\ own' = own
  BY DEF Deliver, settled
<1>4. CASE Ended(q)
  <2>1. code'[q] = code[q] /\ sig'[q] = sig[q]
    BY <1>4 DEF Deliver, Status, Takes
  <2> QED
    BY <1>1, <1>3, <2>1 DEF Named, Ended
<1>5. CASE ~Ended(q) /\ q \notin hit
  <2>1. code'[q] = code[q]
    BY <1>5 DEF Deliver
  <2> QED
    BY <1>1, <1>3, <1>5, <2>1 DEF Named, Ended
<1>6. CASE ~Ended(q) /\ q \in hit
  <2>1. sig'[q] = s
    BY <1>1, <1>6 DEF Deliver, Takes, Masked
  <2>2. code'[q] = 128 + s \/ code'[q] = NoCode
    <3>1. (128 + s) % 256 = 128 + s
      BY <1>2
    <3> QED
      BY <1>6, <3>1 DEF Deliver, Status, Ended
  <2> QED
    BY <1>1, <1>2, <1>3, <2>1, <2>2 DEF Named, Ended, NoSig
<1> QED
  BY <1>4, <1>5, <1>6

(* StatusInv is inductive.                                                 *)
LEMMA StatusStep == StatusInv /\ [Next]_vars => StatusInv'
<1> SUFFICES ASSUME StatusInv, [Next]_vars PROVE StatusInv'
  OBVIOUS
<1>0. TypeOK /\ TypeOK'
  BY TypeStep DEF StatusInv
<1> SUFFICES ASSUME "mask" \notin habits'
             PROVE  \A q \in Pids : mask'[q] = {} /\ Named(q)'
  BY <1>0 DEF StatusInv
<1> DEFINE Goal == \A q \in Pids : mask'[q] = {} /\ Named(q)'
<1> USE DEF entries, settled
<1>1. "mask" \notin habits => (UNCHANGED <<mask, code, sig, own>> => Goal)
  BY DEF StatusInv, Named, Ended
<1> HIDE DEF Goal
<1>2. ASSUME NEW p \in Pids, Continue(p) \/ ReadDone(p) PROVE Goal
  BY <1>2, <1>1 DEF Continue, Queued, Loaded, Resume, WaitDone, ReadDone
<1>3. ASSUME NEW p \in Pids, Finishes(p) PROVE Goal
  <2>1. "mask" \notin habits
    BY <1>3 DEF Finishes, Returns, Exit, Chk, BreaksPipe, Throws, Complained, Finish
  <2>2. ASSUME NEW n \in Statuses, Exit(p, n) PROVE Goal
    <3>1. n \in Nat /\ n < 256
      BY ProcAssumption
    <3> QED
      BY <2>1, <2>2, <3>1, FinishStatus DEF Exit, Goal
  <2>3. CASE Chk(p)
    BY <1>0, <2>1, <2>3, SigType, FinishStatus DEF Chk, Goal
  <2>4. CASE BreaksPipe(p)
    <3>1. Finish(p, 141) /\ Chosen(p)
      BY <2>4 DEF BreaksPipe, EPipe
    <3> QED
      BY <2>1, <3>1, FinishStatus DEF Goal
  <2>5. CASE Throws(p)
    BY <1>1, <2>1, <2>5 DEF Throws
  <2>6. ASSUME NEW n \in Errors, Complained(p, n) PROVE Goal
    <3>1. n \in Nat /\ n < 256
      BY ProcAssumption
    <3> QED
      BY <2>1, <2>6, <3>1, FinishStatus DEF Complained, Goal
  <2> QED
    BY <1>3, <2>2, <2>3, <2>4, <2>5, <2>6 DEF Finishes, Returns
<1>4. ASSUME NEW p \in Pids, Calls(p) PROVE Goal
  <2>1. CASE \E s \in Signals : Kill(p, s)
    <3>0. PICK s \in Signals : \E hit : Deliver(hit, s)
      BY <2>1 DEF Kill
    <3>1. PICK hit : Deliver(hit, s)
      BY <3>0
    <3>2. habits' = habits
      BY <3>1 DEF Deliver
    <3> QED
      BY <3>1, <3>2, DeliverStatus DEF Goal
  <2>2. CASE ~(\E s \in Signals : Kill(p, s))
    BY <1>4, <1>1, <2>2 DEF Calls, StartChild, SleepStart, RequestStart, YieldStart, ReadStart,
                            Wait, SetMask, SetUid
  <2> QED
    BY <2>1, <2>2
<1>5. CASE Interrupt
  <2>1. PICK hit : SigInt \in Signals /\ Deliver(hit, SigInt)
    BY <1>5 DEF Interrupt
  <2>2. habits' = habits
    BY <2>1 DEF Deliver
  <2> QED
    BY <2>1, <2>2, DeliverStatus DEF Goal
<1>6. CASE \/ \E p \in Pids : LoadFails(p)
           \/ \E n \in 1 .. MaxWidth, fate \in {"foreground", "background", "fails"} :
                StartUnit(n, fate)
           \/ \E g \in jobs : Foreground(g)
           \/ ForegroundDone
           \/ UNCHANGED vars
  <2>1. UNCHANGED <<mask, code, sig, own>> /\ habits' = habits
    BY <1>6 DEF LoadFails, StartUnit, Foreground, ForegroundDone, vars
  <2> QED
    BY <2>1, <1>1 DEF Goal
<1> QED
  BY <1>2, <1>3, <1>4, <1>5, <1>6 DEF Next, Goal

(* wait, which reads the status, and wait4, which reads the signal, tell   *)
(* the same story of a process that did not choose its status itself.      *)
THEOREM StatusesNameSignals == Spec => []StatusNamesSignal
<1>1. Init => StatusInv
  <2>1. Init => \A p \in Pids : mask[p] = {} /\ code[p] = NoCode
    BY DEF Init
  <2> QED
    BY <2>1, TypeInit DEF StatusInv, Named, Ended
<1>2. StatusInv => StatusNamesSignal
  BY DEF StatusInv, Named, StatusNamesSignal
<1> QED
  BY <1>1, <1>2, StatusStep, PTL DEF Spec

-----------------------------------------------------------------------------
(* What the shell started has the number of a unit for its group, and is   *)
(* in the foreground or a job.                                             *)
JobsInv ==
  /\ TypeOK
  /\ parent[Shell] = 0
  /\ \A p \in Pids : parent[p] = Shell => p > Shell /\ pgid[p] \in Pids
  /\ NothingForgotten

(* A reap takes processes from the table and changes nothing else of it.   *)
LEMMA JobsKept ==
  ASSUME JobsInv, table' \subseteq table, UNCHANGED <<parent, pgid, front, jobs, habits>>
  PROVE  /\ parent'[Shell] = 0
         /\ \A p \in Pids : parent'[p] = Shell => p > Shell /\ pgid'[p] \in Pids
         /\ NothingForgotten'
BY DEF JobsInv, NothingForgotten

(* A start, by the shell or by a program.                                  *)
LEMMA JobsCreated ==
  ASSUME JobsInv, NEW p \in Pids, NEW new \in SUBSET (Pids \ {Shell}), NEW privileged,
         seq \in Pids, Created(p, new, seq, privileged), habits' = habits,
         jobs \subseteq jobs' \cup {front'}, front = 0 \/ front' = front,
         p = Shell /\ "missing" \notin habits => seq \in jobs' \cup {front'}
  PROVE  /\ parent'[Shell] = 0
         /\ \A q \in Pids : parent'[q] = Shell => q > Shell /\ pgid'[q] \in Pids
         /\ NothingForgotten'
<1>1. Shell \in Pids /\ \A q \in new : q > Shell
  BY ProcAssumption DEF Pids, Shell
<1>2. parent'[Shell] = 0
  BY <1>1 DEF Created, JobsInv
<1>3. \A q \in Pids : parent'[q] = Shell => q > Shell /\ pgid'[q] \in Pids
  BY <1>1 DEF Created, JobsInv
<1>4. ASSUME "missing" \notin habits, NEW q \in table', parent'[q] = Shell
      PROVE  pgid'[q] \in jobs' \cup {front'}
  <2>0. q \in Pids
    BY DEF Created, JobsInv, TypeOK
  <2>1. CASE q \in new
    BY <1>4, <2>0, <2>1 DEF Created
  <2>2. CASE q \notin new
    <3>1. q \in table /\ parent[q] = Shell /\ pgid'[q] = pgid[q]
      BY <1>4, <2>0, <2>2 DEF Created
    <3>2. pgid[q] \in jobs \cup {front} /\ pgid[q] \in Pids /\ 0 \notin Pids
      BY <1>4, <2>0, <3>1 DEF JobsInv, NothingForgotten, Pids, Shell
    <3> QED
      BY <3>1, <3>2
  <2> QED
    BY <2>1, <2>2
<1> QED
  BY <1>2, <1>3, <1>4 DEF NothingForgotten

(* JobsInv is inductive.                                                   *)
LEMMA JobsStep == JobsInv /\ [Next]_vars => JobsInv'
<1> SUFFICES ASSUME JobsInv, [Next]_vars PROVE JobsInv'
  OBVIOUS
<1>0. TypeOK /\ TypeOK'
  BY TypeStep DEF JobsInv
<1> DEFINE Goal == /\ parent'[Shell] = 0
                   /\ \A p \in Pids : parent'[p] = Shell => p > Shell /\ pgid'[p] \in Pids
                   /\ NothingForgotten'
<1> SUFFICES Goal
  BY <1>0 DEF JobsInv
<1> USE DEF family, settled, shell
<1>1. table' \subseteq table /\ UNCHANGED <<parent, pgid, front, jobs, habits>> => Goal
  BY JobsKept
<1> HIDE DEF Goal
<1>2. ASSUME NEW p \in Pids, Continue(p) \/ ReadDone(p) \/ Finishes(p) \/ LoadFails(p)
      PROVE  Goal
  <2>1. CASE Continue(p) \/ ReadDone(p) \/ LoadFails(p)
    BY <2>1, <1>1 DEF Continue, Queued, Loaded, Resume, WaitDone, Reap, ReadDone, LoadFails
  <2>2. CASE Finishes(p)
    BY <2>2, <1>1 DEF Finishes, Returns, Exit, Chk, BreaksPipe, Throws, Complained, Finish
  <2> QED
    BY <1>2, <2>1, <2>2
<1>3. ASSUME NEW p \in Pids, Calls(p) PROVE Goal
  <2>1. CASE StartChild(p)
    <3>1. PICK privileged : Created(p, {seq}, seq, privileged)
      BY <2>1 DEF StartChild
    <3>2. seq \in Pids \ {Shell} /\ p # Shell
      BY <2>1, <1>0, ProcAssumption DEF StartChild, Call, TypeOK, Pids, Shell
    <3> QED
      BY <2>1, <3>1, <3>2, JobsCreated DEF StartChild, Goal
  <2>2. CASE \E s \in Signals : Kill(p, s)
    <3>0. PICK s \in Signals : \E hit : Deliver(hit, s)
      BY <2>2 DEF Kill
    <3>1. PICK hit : Deliver(hit, s)
      BY <3>0
    <3> QED
      BY <3>1, <1>1 DEF Deliver
  <2>3. CASE ~StartChild(p) /\ ~(\E s \in Signals : Kill(p, s))
    BY <1>3, <1>1, <2>3 DEF Calls, SleepStart, RequestStart, YieldStart, ReadStart, Wait, SetMask,
                            SetUid
  <2> QED
    BY <2>1, <2>2, <2>3
<1>4. ASSUME NEW n \in 1 .. MaxWidth, NEW fate \in {"foreground", "background", "fails"},
             StartUnit(n, fate)
      PROVE  Goal
  <2> DEFINE new == seq .. seq + n - 1
  <2>1. PICK privileged : Created(Shell, new, seq, privileged)
    BY <1>4 DEF StartUnit
  <2>2. n \in Nat /\ n >= 1 /\ Shell \in Pids /\ seq + n - 1 <= MaxPid
    BY <1>4, ProcAssumption DEF StartUnit, Pids, Shell
  <2>3. new \in SUBSET (Pids \ {Shell}) /\ seq \in Pids
    BY <1>0, <2>2, NewPids
  <2>4. front = 0 /\ habits' = habits
    BY <1>4 DEF StartUnit
  <2>5. \/ front' = seq /\ jobs' = jobs
        \/ front' = front /\ jobs' = jobs \cup {seq}
        \/ "missing" \in habits /\ front' = front /\ jobs' = jobs
    BY <1>4 DEF StartUnit
  <2> HIDE DEF new
  <2> QED
    BY <2>1, <2>2, <2>3, <2>4, <2>5, JobsCreated DEF Goal
<1>5. ASSUME NEW g \in jobs, Foreground(g) PROVE Goal
  <2>1. UNCHANGED <<table, parent, pgid, habits, jobs>> /\ front = 0 /\ front' = g
    BY <1>5 DEF Foreground
  <2>2. 0 \notin Pids
    BY DEF Pids, Shell
  <2> QED
    BY <1>0, <2>1, <2>2 DEF Goal, JobsInv, NothingForgotten, TypeOK
<1>6. CASE ForegroundDone
  <2>1. /\ AllEnded(front) /\ UNCHANGED <<parent, pgid, habits>>
        /\ table' = table \ {p \in Ps(front) : p > Shell /\ Ended(p)}
        /\ jobs' = jobs \ {front} /\ front' = 0
    BY <1>6 DEF ForegroundDone, Reap
  <2>2. ASSUME "missing" \notin habits, NEW p \in table', parent[p] = Shell
        PROVE  pgid[p] \in jobs' \cup {front'}
    <3>1. p \in table /\ p \in Pids /\ p > Shell
      BY <1>0, <2>1, <2>2 DEF TypeOK, JobsInv
    <3>2. pgid[p] # front
      BY <2>1, <2>2, <3>1 DEF Ps, AllEnded
    <3>3. pgid[p] \in jobs \cup {front}
      BY <2>2, <3>1 DEF JobsInv, NothingForgotten
    <3> QED
      BY <2>1, <3>2, <3>3
  <2> QED
    BY <2>1, <2>2 DEF Goal, JobsInv, NothingForgotten
<1>7. CASE Interrupt
  <2>1. PICK hit : Deliver(hit, SigInt)
    BY <1>7 DEF Interrupt
  <2> QED
    BY <2>1, <1>1 DEF Deliver
<1>8. CASE UNCHANGED vars
  BY <1>8, <1>1 DEF vars
<1> QED
  BY <1>2, <1>3, <1>4, <1>5, <1>6, <1>7, <1>8 DEF Next

(* Nothing that the shell started is left in the table for good: its unit  *)
(* is in front or among the jobs until it is reaped.                       *)
THEOREM NothingIsForgotten == Spec => []NothingForgotten
<1>1. Init => JobsInv
  <2>1. Init => /\ \A p \in Pids : parent[p] = 0
                /\ Shell \in Pids /\ table \subseteq Pids
    BY ProcAssumption DEF Init, Pids, Shell
  <2> QED
    BY <2>1, TypeInit DEF JobsInv, NothingForgotten, Shell
<1>2. JobsInv => NothingForgotten
  BY DEF JobsInv
<1> QED
  BY <1>1, <1>2, JobsStep, PTL DEF Spec

-----------------------------------------------------------------------------
(* A process that was started and has not ended is in the table, so that   *)
(* kill finds it; and nobody has root's identity if no image gives it.     *)
AliveListed == \A p \in Pids : Alive(p) => p \in table
UsersOnly == "setid" \notin habits => \A p \in Pids : cred[p] = "user"
UnitInv == TypeOK /\ AliveListed /\ UsersOnly

(* A step that starts nothing and reaps only what has ended.               *)
LEMMA AliveKept ==
  ASSUME UnitInv, [Next]_vars, \A p \in table \ table' : Ended(p),
         \A p \in Pids : body[p] = "none" => body'[p] = "none"
  PROVE  AliveListed'
<1> SUFFICES ASSUME NEW p \in Pids, Alive(p)' PROVE p \in table'
  BY DEF AliveListed
<1>1. ~Ended(p)
  BY FinalStep DEF UnitInv, Alive, Ended
<1>2. body[p] # "none"
  BY DEF Alive
<1> QED
  BY <1>1, <1>2 DEF UnitInv, AliveListed, Alive, Ended

(* A start gives only what an image gives.                                 *)
LEMMA UnitCreated ==
  ASSUME UnitInv, [Next]_vars, NEW p \in Pids, NEW new, NEW privileged \in SetIds(new),
         Created(p, new, seq, privileged), habits' = habits
  PROVE  AliveListed' /\ UsersOnly'
<1>1. ASSUME NEW q \in Pids, Alive(q)' PROVE q \in table'
  <2>1. CASE q \in new
    BY <2>1 DEF Created
  <2>2. CASE q \notin new
    <3>1. ~Ended(q)
      BY <1>1, FinalStep DEF UnitInv, Alive, Ended
    <3>2. body[q] # "none"
      BY <1>1, <2>2 DEF Alive, Created
    <3> QED
      BY <3>1, <3>2 DEF UnitInv, AliveListed, Alive, Ended, Created
  <2> QED
    BY <2>1, <2>2
<1>2. ASSUME "setid" \notin habits, NEW q \in Pids PROVE cred'[q] = "user"
  <2>1. privileged = {}
    BY <1>2 DEF SetIds
  <2>2. cred[p] = "user" /\ cred[q] = "user"
    BY <1>2 DEF UnitInv, UsersOnly
  <2>3. cred'[q] = CASE q \in privileged -> IF RealRoot(p) THEN "root" ELSE "setid"
                     [] q \in new \ privileged -> cred[p]
                     [] OTHER -> cred[q]
    BY DEF Created
  <2> QED
    BY <2>1, <2>2, <2>3
<1> QED
  BY <1>1, <1>2 DEF AliveListed, UsersOnly

(* UnitInv is inductive.                                                   *)
LEMMA UnitStep == UnitInv /\ [Next]_vars => UnitInv'
<1> SUFFICES ASSUME UnitInv, [Next]_vars PROVE UnitInv'
  OBVIOUS
<1>0. TypeOK /\ TypeOK'
  BY TypeStep DEF UnitInv
<1> DEFINE Goal == AliveListed' /\ UsersOnly'
<1> SUFFICES Goal
  BY <1>0 DEF UnitInv
<1> DEFINE Quiet == \A p \in Pids : body[p] = "none" => body'[p] = "none"
<1>1. (\A p \in table \ table' : Ended(p)) /\ Quiet /\ UNCHANGED <<cred, habits>> => Goal
  BY AliveKept DEF UnitInv, UsersOnly
<1> HIDE DEF Goal
<1> USE DEF family, settled
<1>2. ASSUME NEW hit, NEW s, Deliver(hit, s) PROVE Goal
  <2>1. table' = table /\ UNCHANGED <<cred, habits>>
    BY <1>2 DEF Deliver
  <2>2. Quiet
    BY <1>2, <1>0 DEF Deliver, TypeOK
  <2> QED
    BY <2>1, <2>2, <1>1
<1>3. ASSUME NEW p \in Pids, Continue(p) \/ ReadDone(p) \/ LoadFails(p) PROVE Goal
  <2>1. Quiet /\ UNCHANGED <<cred, habits>>
    BY <1>0, <1>3 DEF Continue, Queued, Loaded, Resume, Resumable, WaitDone, ReadDone, LoadFails,
                      TypeOK
  <2>2. \A q \in table \ table' : Ended(q)
    BY <1>3 DEF Continue, Queued, Loaded, Resume, WaitDone, Reap, ReadDone, LoadFails
  <2> QED
    BY <2>1, <2>2, <1>1
<1>8. ASSUME NEW p \in Pids, Finishes(p) PROVE Goal
  <2>1. Quiet /\ UNCHANGED <<cred, habits>> /\ table' = table
    BY <1>0, <1>8 DEF Finishes, Returns, Exit, Chk, BreaksPipe, Throws, Complained, Finish, TypeOK
  <2> QED
    BY <2>1, <1>1
<1>4. ASSUME NEW p \in Pids, Calls(p) PROVE Goal
  <2>1. CASE StartChild(p)
    BY <2>1, UnitCreated DEF StartChild, Goal
  <2>2. CASE SetUid(p)
    <3>1. table' = table /\ Quiet
      BY <2>2 DEF SetUid
    <3>2. "setid" \in habits /\ habits' = habits
      BY <2>2 DEF SetUid, EffectiveRoot, UnitInv, UsersOnly
    <3> QED
      BY <3>1, <3>2, AliveKept DEF Goal, UsersOnly
  <2>3. CASE \E s \in Signals : Kill(p, s)
    BY <2>3, <1>2 DEF Kill
  <2>4. CASE \/ SleepStart(p) \/ RequestStart(p) \/ YieldStart(p) \/ ReadStart(p)
             \/ \E c \in Pids : Wait(p, c)
             \/ \E m \in SUBSET Signals : SetMask(p, m)
    <3>1. Quiet
      BY <2>4, <1>0 DEF SleepStart, RequestStart, YieldStart, ReadStart, Wait, SetMask, Call, TypeOK
    <3>2. table' = table /\ UNCHANGED <<cred, habits>>
      BY <2>4 DEF SleepStart, RequestStart, YieldStart, ReadStart, Wait, SetMask
    <3> QED
      BY <3>1, <3>2, <1>1
  <2> QED
    BY <1>4, <2>1, <2>2, <2>3, <2>4 DEF Calls
<1>5. ASSUME NEW n, NEW fate, StartUnit(n, fate) PROVE Goal
  <2>1. Shell \in Pids
    BY ProcAssumption DEF Pids, Shell
  <2> QED
    BY <1>5, <2>1, UnitCreated DEF StartUnit, Goal
<1>6. CASE \/ \E g \in jobs : Foreground(g)
           \/ ForegroundDone
           \/ UNCHANGED vars
  <2>1. Quiet /\ UNCHANGED <<cred, habits>>
    BY <1>6 DEF Foreground, ForegroundDone, vars
  <2>2. \A q \in table \ table' : Ended(q)
    BY <1>6 DEF Foreground, ForegroundDone, Reap, vars
  <2> QED
    BY <2>1, <2>2, <1>1
<1>7. CASE Interrupt
  BY <1>7, <1>2 DEF Interrupt
<1> QED
  BY <1>2, <1>3, <1>4, <1>5, <1>6, <1>7, <1>8 DEF Next

(* An interrupt hits every command of the unit that is still alive: all of *)
(* them are in the table with the unit's group, and none refuses.          *)
LEMMA InterruptHits ==
  ASSUME UnitInv, Interrupt, NEW p \in Ps(front), Alive(p), "setid" \notin habits
  PROVE  sig'[p] = SigInt \/ pending'[p] = SigInt
<1>1. p \in Pids /\ p \in Group(front) /\ ~Ended(p)
  BY DEF Ps, Group, UnitInv, AliveListed, Alive, Ended
<1>2. p \in Reached(Shell, Group(front))
  <2>0. Group(front) \subseteq Pids
    BY DEF Group, UnitInv, TypeOK
  <2>1. Shell \in Pids
    BY ProcAssumption DEF Pids, Shell
  <2>2. \A q \in Pids : ~Refused(Shell, q)
    BY <2>1 DEF Refused, RealRoot, UnitInv, UsersOnly
  <2> QED
    BY <1>1, <2>0, <2>2 DEF Reached
<1>3. Deliver(Reached(Shell, Group(front)), SigInt)
  BY DEF Interrupt
<1> QED
  BY <1>1, <1>2, <1>3 DEF Deliver, Takes

(* ^C reaches all of the foreground unit.                                  *)
THEOREM InterruptReachesAll == Spec => InterruptReachesUnit
<1>1. Init => UnitInv
  <2>1. Init => /\ \A p \in Pids : cred[p] = "user"
                /\ \A p \in Pids \ {Shell} : body[p] = "none"
                /\ table = {Shell}
    BY DEF Init
  <2> QED
    BY <2>1, TypeInit DEF UnitInv, AliveListed, UsersOnly, Alive
<1>2. UnitInv /\ [Next]_vars =>
        [Interrupt =>
           \A p \in Ps(front) : Alive(p) /\ "setid" \notin habits =>
             sig'[p] = SigInt \/ pending'[p] = SigInt]_vars
  BY InterruptHits
<1> QED
  BY <1>1, <1>2, UnitStep, PTL DEF Spec, InterruptReachesUnit
=============================================================================
