------------------------------ MODULE Terminal ------------------------------
(***************************************************************************)
(* The terminal of a session (Tty of io/tty.ts) between the keyboard, the  *)
(* line editor of the session and the programs that read it: who gets a    *)
(* key, and in which modes.  The session is WebSession of                  *)
(* main/websession.ts (main/cli.ts is the same), its commands run in Os.run *)
(* of main/boot.ts one after the other; one of them may be a shell within  *)
(* the shell (Thsh of apps/sys.ts), which edits its lines in a program.    *)
(*                                                                         *)
(* A key is its number, what it is, and whether it was typed into a line.  *)
(* The modes are "cooked" (lines, echo, signals), "cbreak" (single keys,   *)
(* ^C is still a signal) and "raw" (every key is input).  A command is one *)
(* program; masked signals, erase keys, history, completion and here-      *)
(* documents are left out.                                                 *)
(***************************************************************************)
EXTENDS Integers, Sequences, SequencesExt

CONSTANTS
  Kinds,         \* the programs that are typed, some of AllKinds
  MaxKeys,       \* bounds the keys typed
  MaxCommands    \* bounds the commands entered

(* "quiet" does not read; "cat" reads to the end of its input and "bg" is  *)
(* the same in the background; "tui" and "secret" change the modes and     *)
(* read once, "secret" discarding what was typed before; "thsh" is a shell. *)
AllKinds == {"quiet", "cat", "bg", "tui", "secret", "thsh"}

ASSUME ConstantsAssumption ==
  /\ Kinds \subseteq AllKinds
  /\ MaxKeys \in Nat
  /\ MaxCommands \in Nat

Keys == {"char", "enter", "intr", "eof"}

VARIABLES
  modes, line, q, wait,   \* Tty: line is unfinished, q unread, wait who reads
  live, saving,           \* the session is open; Os.flush after a command
  todo, edit, fg,         \* per shell: entered, line not empty, waited for
  login, inherited,       \* the inner shell, 0 for none, and its termios
  cmd,                    \* the commands in the order they were entered
  typed, taken, eof       \* history: keys typed, those read, ^D on no line

tty == <<modes, line, q, wait>>
vars == <<tty, live, saving, todo, edit, fg, login, inherited, cmd, typed, taken, eof>>

Command(kind) == [kind |-> kind, st |-> "entered", killed |-> FALSE, got |-> <<>>]

Init ==
  /\ modes = "cooked" /\ line = <<>> /\ q = <<>> /\ wait = <<>>
  /\ live = TRUE /\ saving = FALSE
  /\ todo = [s \in {"top", "nested"} |-> <<>>]
  /\ edit = [s \in {"top", "nested"} |-> FALSE]
  /\ fg = [s \in {"top", "nested"} |-> 0]
  /\ login = 0 /\ inherited = "cooked"
  /\ cmd = <<>>
  /\ typed = 0 /\ taken = <<>> /\ eof = FALSE

Is(n, kinds, sts) == cmd[n].kind \in kinds /\ cmd[n].st \in sts

---------------------------------------------------------------------------
(* The terminal.                                                           *)

(* Of a key that was read only its number and its line are remembered.     *)
Marks(keys) == [i \in DOMAIN keys |-> <<keys[i][1], keys[i][3]>>]

(* Faults: a program that was given a chunk keeps its place, and a chunk   *)
(* goes into the queue although a program waits.                           *)
PushKeeping(cmds, chunk) ==
  IF wait = <<>>
  THEN q' = Append(q, chunk) /\ cmd' = cmds /\ UNCHANGED <<wait, taken>>
  ELSE /\ cmd' = [cmds EXCEPT ![Head(wait)].st = "told", ![Head(wait)].got = chunk]
       /\ taken' = taken \o Marks(chunk)
       /\ UNCHANGED <<wait, q>>

PushQueued(cmds, chunk) ==
  q' = Append(q, chunk) /\ cmd' = cmds /\ UNCHANGED <<wait, taken>>

(* TtyIn.push: to the program that has waited longest, or into the queue.  *)
Push(cmds, chunk) ==
  IF wait = <<>>
  THEN q' = Append(q, chunk) /\ cmd' = cmds /\ UNCHANGED <<wait, taken>>
  ELSE /\ cmd' = [cmds EXCEPT ![Head(wait)].st = "told", ![Head(wait)].got = chunk]
       /\ wait' = Tail(wait)
       /\ taken' = taken \o Marks(chunk)
       /\ UNCHANGED q

(* TtyIn.rd                                                                *)
Rd(n) ==
  IF q = <<>>
  THEN wait' = Append(wait, n) /\ cmd' = [cmd EXCEPT ![n].st = "read"] /\ UNCHANGED <<q, taken>>
  ELSE /\ cmd' = [cmd EXCEPT ![n].st = "told", ![n].got = Head(q)]
       /\ q' = Tail(q)
       /\ taken' = taken \o Marks(Head(q))
       /\ UNCHANGED wait

(* Fault: nobody is woken.                                                 *)
SignalAlone ==
  /\ line' = <<>>
  /\ cmd' = [cmd EXCEPT ![fg["top"]].killed = TRUE]
  /\ UNCHANGED <<modes, q, wait, taken>>

(* Tty.signalInterrupt: Shell.interrupt signals the group the outer shell  *)
(* waits for; it returns nothing, so that the modes stay; and a program    *)
(* that waits is woken with an empty chunk.                                *)
Signal ==
  /\ line' = <<>>
  /\ Push([cmd EXCEPT ![fg["top"]].killed = TRUE], <<>>)
  /\ UNCHANGED modes

(* Tty.feed and Tty.char                                                   *)
Feed(key) ==
  LET k == key[2] IN
  \/ k = "intr" /\ modes # "raw" /\ Signal
  \/ /\ modes = "raw" \/ (modes = "cbreak" /\ k # "intr")
     /\ Push(cmd, <<key>>)
     /\ UNCHANGED <<modes, line>>
  \/ /\ modes = "cooked" /\ k = "char"
     /\ line' = Append(line, key)
     /\ UNCHANGED <<modes, q, wait, cmd, taken>>
  \/ /\ modes = "cooked" /\ k \in {"enter", "eof"}
     /\ Push(cmd, IF k = "enter" THEN Append(line, key) ELSE line)
     /\ line' = <<>>
     /\ UNCHANGED modes

---------------------------------------------------------------------------
(* The keyboard: LineEditor.key, which gives a busy session's keys to Tty. *)

Busy == fg["top"] # 0

(* The keys of LineEditor.key that matter to a shell s: ^C empties the     *)
(* line, ^D on an empty one leaves, Enter enters a command.                *)
Edits(s, k) == edit' = [edit EXCEPT ![s] = k = "char" \/ (k = "eof" /\ edit[s])]
Leaves(s, k) == k = "eof" /\ ~edit[s]
Enters(s, kind, cmds) ==
  /\ Len(cmd) < MaxCommands
  /\ cmd' = Append(cmds, Command(kind))
  /\ todo' = [todo EXCEPT ![s] = Append(@, Len(cmd) + 1)]

EditorKey(k) ==
  /\ ~Busy
  /\ Edits("top", k)
  /\ live' = ~Leaves("top", k)
  /\ IF k = "enter" THEN \E kind \in Kinds : Enters("top", kind, cmd)
                    ELSE UNCHANGED <<cmd, todo>>
  /\ UNCHANGED <<tty, saving, fg, login, inherited, taken>>

TerminalKey(k) ==
  /\ Busy
  /\ Feed(<<typed + 1, k, modes = "cooked">>)
  /\ UNCHANGED <<live, saving, todo, edit, fg, login, inherited>>

Type ==
  /\ live /\ typed < MaxKeys
  /\ typed' = typed + 1
  /\ \E k \in Keys :
       /\ EditorKey(k) \/ TerminalKey(k)
       /\ eof' = (eof \/ (Busy /\ k = "eof" /\ modes = "cooked" /\ line = <<>>))

---------------------------------------------------------------------------
(* The commands of the session: WebSession.execute and Os.run.             *)

(* Fault: the modes stay.                                                  *)
ResetLine == line' = <<>> /\ UNCHANGED modes

(* Tty.reset: what is in the queue stays.                                  *)
Reset == modes' = "cooked" /\ line' = <<>>

(* A background command gives the keyboard back at once.                   *)
Run ==
  /\ live /\ ~saving /\ ~Busy /\ todo["top"] # <<>>
  /\ LET n == Head(todo["top"]) IN
       /\ todo' = [todo EXCEPT !["top"] = Tail(@)]
       /\ cmd' = [cmd EXCEPT ![n].st = "run"]
       /\ IF cmd[n].kind = "bg"
          THEN Reset /\ saving' = TRUE /\ UNCHANGED fg
          ELSE fg' = [fg EXCEPT !["top"] = n] /\ UNCHANGED <<modes, line, saving>>
  /\ UNCHANGED <<q, wait, live, edit, login, inherited, typed, taken, eof>>

Saved ==
  /\ saving
  /\ saving' = FALSE
  /\ UNCHANGED <<tty, live, todo, edit, fg, login, inherited, cmd, typed, taken, eof>>

(* Fault: the inner shell does not notice that its command has ended.      *)
ExitUnseen(n) ==
  /\ cmd' = [cmd EXCEPT ![n].st = "ended", ![n].got = <<>>, ![n].killed = FALSE]
  /\ fg' = [fg EXCEPT !["top"] = IF @ = n THEN 0 ELSE @]
  /\ IF fg["top"] = n THEN Reset /\ saving' = TRUE ELSE UNCHANGED <<modes, line, saving>>

(* Program n ends: Os.run gives the keyboard back to its editor, the inner *)
(* shell takes the keys again (Tty.lineEditorMode).                        *)
Exit(n) ==
  /\ cmd' = [cmd EXCEPT ![n].st = "ended", ![n].got = <<>>, ![n].killed = FALSE]
  /\ fg' = [s \in DOMAIN fg |-> IF fg[s] = n THEN 0 ELSE fg[s]]
  /\ IF fg["top"] = n THEN Reset /\ saving' = TRUE
     ELSE /\ modes' = IF fg["nested"] = n THEN "raw" ELSE modes
          /\ UNCHANGED <<line, saving>>

---------------------------------------------------------------------------
(* The programs.                                                           *)

Others == <<live, todo, edit, login, inherited, typed, eof>>

(* A program reads: Sys.chunkb, or the read call of a virtual machine.     *)
Read(n) ==
  /\ \/ Is(n, {"cat", "bg"}, {"run"})
     \/ Is(n, {"tui", "secret"}, {"set"})
     \/ Is(n, {"thsh"}, {"run"}) /\ login = n /\ fg["nested"] = 0 /\ todo["nested"] = <<>>
  /\ Rd(n)
  /\ UNCHANGED <<modes, line, saving, fg, Others>>

(* Sys.inb: until an empty chunk.                                          *)
ReadOn(n) ==
  /\ Is(n, {"cat", "bg"}, {"told"}) /\ cmd[n].got # <<>>
  /\ cmd' = [cmd EXCEPT ![n].st = "run", ![n].got = <<>>]
  /\ UNCHANGED <<tty, saving, fg, taken, Others>>

(* TCSETS, or TCSETSF, which discards what was typed (Tty.setTermios).     *)
SetModes(n) ==
  /\ Is(n, {"tui", "secret"}, {"run"})
  /\ modes' \in {"cbreak", "raw"}
  /\ cmd' = [cmd EXCEPT ![n].st = "set"]
  /\ IF cmd[n].kind = "secret" THEN line' = <<>> /\ q' = <<>> ELSE UNCHANGED <<line, q>>
  /\ UNCHANGED <<wait, saving, fg, taken, Others>>

(* A program ends by itself, leaving the modes; or at the next look at its *)
(* signals (Sys.chk), which it may not take before the end of its input.   *)
Ends(n) ==
  /\ \/ Is(n, {"quiet"}, {"run"})
     \/ Is(n, {"cat", "bg"}, {"told"}) /\ cmd[n].got = <<>>
     \/ Is(n, {"tui", "secret"}, {"told"})
     \/ Is(n, AllKinds \ {"thsh"}, {"run", "set", "told"}) /\ cmd[n].killed
  /\ Exit(n)
  /\ UNCHANGED <<q, wait, taken, Others>>

---------------------------------------------------------------------------
(* The shell within the shell: Thsh.run of apps/sys.ts.  A signal leaves   *)
(* it alone, since it never looks at its own.                              *)

Open(n) ==
  /\ Is(n, {"thsh"}, {"run"}) /\ login = 0
  /\ login' = n /\ inherited' = modes
  /\ modes' = "raw"
  /\ UNCHANGED <<line, q, wait, live, saving, todo, edit, fg, cmd, typed, taken, eof>>

(* A line is blank when no more commands are to be entered.                *)
Blank(k) == k # "enter" \/ Len(cmd) = MaxCommands

(* A chunk is one key, or a line, of which only the last key matters.      *)
Given(n) == IF cmd[n].got = <<>> THEN "end" ELSE Last(cmd[n].got)[2]

(* An empty chunk is the end of the session, and so is ^D on an empty line. *)
Logout(n) ==
  /\ Is(n, {"thsh"}, {"told"})
  /\ Given(n) = "end" \/ Leaves("nested", Given(n))
  /\ Exit(n)
  /\ login' = 0
  /\ edit' = [edit EXCEPT !["nested"] = FALSE]
  /\ UNCHANGED <<q, wait, taken, live, todo, inherited, typed, eof>>

NestedKeys(n) ==
  /\ Is(n, {"thsh"}, {"told"})
  /\ Given(n) # "end" /\ ~Leaves("nested", Given(n))
  /\ LET k == Given(n)
         cmds == [cmd EXCEPT ![n].st = "run", ![n].got = <<>>] IN
       /\ Edits("nested", k)
       /\ IF Blank(k) THEN cmd' = cmds /\ UNCHANGED todo
                      ELSE \E kind \in Kinds \ {"thsh", "bg"} : Enters("nested", kind, cmds)
  /\ UNCHANGED <<tty, live, saving, fg, login, inherited, typed, taken, eof>>

(* A command gets the terminal as the shell found it.                      *)
NestedRun(n) ==
  /\ Is(n, {"thsh"}, {"run"}) /\ login = n /\ fg["nested"] = 0 /\ todo["nested"] # <<>>
  /\ LET m == Head(todo["nested"]) IN
       /\ todo' = [todo EXCEPT !["nested"] = Tail(@)]
       /\ fg' = [fg EXCEPT !["nested"] = m]
       /\ cmd' = [cmd EXCEPT ![m].st = "run"]
  /\ modes' = inherited
  /\ UNCHANGED <<line, q, wait, live, saving, edit, login, inherited, typed, taken, eof>>

---------------------------------------------------------------------------
Program(n) ==
  Read(n) \/ ReadOn(n) \/ SetModes(n) \/ Ends(n)
    \/ Open(n) \/ Logout(n) \/ NestedKeys(n) \/ NestedRun(n)

System == Run \/ Saved \/ \E n \in DOMAIN cmd : Program(n)

Next == Type \/ System

Spec == Init /\ [][Next]_vars

(* Promises and timers of the host run; a user need not type.              *)
FairSpec == Spec /\ WF_vars(System)

---------------------------------------------------------------------------
TypeOK ==
  /\ modes \in {"cooked", "cbreak", "raw"} /\ inherited \in {"cooked", "cbreak", "raw"}
  /\ \A s \in {"top", "nested"} :
       /\ fg[s] \in 0..Len(cmd) /\ edit[s] \in BOOLEAN
       /\ \A i \in DOMAIN todo[s] : cmd[todo[s][i]].st = "entered"
  /\ login \in 0..Len(cmd) /\ login # 0 => cmd[login].kind = "thsh" /\ fg["top"] = login
  /\ \A n \in DOMAIN cmd : cmd[n].st = "read" <=> \E i \in DOMAIN wait : wait[i] = n
  /\ IsInjective(wait)
  /\ typed \in 0..MaxKeys /\ {live, saving, eof} \subseteq BOOLEAN

(* Keys come to the programs in the order they were typed, none twice, and *)
(* nobody waits for a key that has been there all the time, whoever reads  *)
(* and whatever is typed ahead (TtyIn); but single keys may overtake a line *)
(* that was not finished when the modes changed.                           *)
Ascends(s) == \A i, j \in DOMAIN s : i < j /\ s[i][2] = s[j][2] => s[i][1] < s[j][1]
Precedes(s, t) == \A i \in DOMAIN s, j \in DOMAIN t : s[i][2] = t[j][2] => s[i][1] < t[j][1]

KeysInOrder ==
  /\ Ascends(taken) /\ Ascends(Marks(line)) /\ Precedes(taken, Marks(line))
  /\ \A i \in DOMAIN q :
       /\ Ascends(Marks(q[i]))
       /\ Precedes(taken, Marks(q[i])) /\ Precedes(Marks(q[i]), Marks(line))
       /\ \A j \in DOMAIN q : i < j => Precedes(Marks(q[i]), Marks(q[j]))
  /\ wait # <<>> => q = <<>>

(* A program finds the terminal as the session set it up, whatever the one *)
(* before has left, also one that ^C ended or that ran in a shell within   *)
(* the shell; and the inner shell gets every key, ^C too, at its prompt.   *)
ModesFollow ==
  /\ ~Busy => modes = "cooked"
  /\ \A s \in {"top", "nested"} :
       fg[s] # 0 /\ fg[s] # login /\ cmd[fg[s]].st = "run" => modes = "cooked"
  /\ login # 0 /\ fg["nested"] = 0 /\ cmd[login].st = "read" => modes = "raw"

(* ^C ends a program that waits for the terminal, unless another one in    *)
(* the background is woken in its place, or the program discards what      *)
(* would wake it (Tty.signalInterrupt and Shell.interrupt).                *)
Elsewhere == \E n \in DOMAIN cmd : cmd[n].kind \in {"bg", "secret"}
Stopped(n) == n \in DOMAIN cmd /\ cmd[n].st = "ended"
Hit(n) == n \in DOMAIN cmd /\ cmd[n].killed /\ cmd[n].kind # "thsh"

InterruptedEnds ==
  \A n \in 1..MaxCommands : Hit(n) ~> (Stopped(n) \/ Elsewhere)

(* A command that was entered is run in the end, behind those before it    *)
(* and their saves (WebSession.execute), unless the user leaves, or the    *)
(* program in front waits for keys: no other wait holds up the session.    *)
InFront == IF fg["nested"] # 0 THEN fg["nested"] ELSE fg["top"]
WaitsForKeys == Busy /\ cmd[InFront].st = "read"
Pending(n) == n \in DOMAIN cmd /\ cmd[n].st = "entered"

CommandsRun ==
  \A n \in 1..MaxCommands : Pending(n) ~> (~Pending(n) \/ ~live \/ WaitsForKeys)

(* A program that was not interrupted sees an end of its input only if the *)
(* user typed one ("A zero-length array ... represents canonical EOF",     *)
(* io/tty.ts).  ^C on a program that does not read leaves its wakening in  *)
(* the queue, and ends the input of the next one, or the inner shell.      *)
EndIsTyped ==
  \A n \in DOMAIN cmd :
    cmd[n].st = "told" /\ cmd[n].got = <<>> /\ ~cmd[n].killed => eof
=============================================================================
