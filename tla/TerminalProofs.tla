--------------------------- MODULE TerminalProofs ---------------------------
(***************************************************************************)
(* Proofs about the terminal and the session for any number of keys and    *)
(* commands: that keys keep their order, and that every program and shell  *)
(* finds the modes it should.                                              *)
(***************************************************************************)
EXTENDS Terminal, SequenceTheorems, TLAPS

-----------------------------------------------------------------------------
(* The inductive invariant.                                                *)

Modes == {"cooked", "cbreak", "raw"}
Shells == {"top", "nested"}
Running == {"run", "read", "set", "told"}
Key == Nat \X Keys \X BOOLEAN
Mark == Nat \X BOOLEAN
ProgramState ==
  [kind : AllKinds, st : Running \cup {"entered", "ended"}, killed : BOOLEAN, got : Seq(Key)]

(* The range of every variable.                                            *)
Typed ==
  /\ modes \in Modes /\ inherited \in Modes
  /\ line \in Seq(Key) /\ q \in Seq(Seq(Key)) /\ wait \in Seq(Nat)
  /\ live \in BOOLEAN /\ saving \in BOOLEAN /\ eof \in BOOLEAN
  /\ todo \in [Shells -> Seq(Nat)] /\ edit \in [Shells -> BOOLEAN] /\ fg \in [Shells -> Nat]
  /\ login \in Nat
  /\ cmd \in Seq(ProgramState)
  /\ typed \in 0 .. MaxKeys /\ taken \in Seq(Mark)

Programs == 1 .. Len(cmd)

(* Who waits for the terminal.                                             *)
Waits ==
  /\ \A i \in DOMAIN wait : wait[i] \in Programs
  /\ \A n \in Programs : cmd[n].st = "read" <=> \E i \in DOMAIN wait : wait[i] = n
  /\ IsInjective(wait)

(* What was entered is entered once, into one of the shells; the inner one *)
(* starts neither shells nor programs in the background.                   *)
Entered ==
  /\ \A s \in Shells :
       /\ IsInjective(todo[s])
       /\ \A i \in DOMAIN todo[s] : todo[s][i] \in Programs /\ cmd[todo[s][i]].st = "entered"
  /\ \A i \in DOMAIN todo["top"], j \in DOMAIN todo["nested"] : todo["top"][i] # todo["nested"][j]
  /\ \A i \in DOMAIN todo["nested"] : cmd[todo["nested"][i]].kind \notin {"thsh", "bg"}

(* What runs in front is what a shell waits for, and the inner shell waits *)
(* for its command or for keys.                                            *)
Foremost ==
  /\ \A s \in Shells :
       fg[s] # 0 => fg[s] \in Programs /\ cmd[fg[s]].st \in Running /\ cmd[fg[s]].kind # "bg"
  /\ \A n \in Programs :
       cmd[n].st \in Running /\ cmd[n].kind # "bg" => n = fg["top"] \/ n = fg["nested"]
  /\ login # 0 => login = fg["top"] /\ cmd[login].kind = "thsh" /\ inherited = "cooked"
  /\ login = 0 => fg["nested"] = 0 /\ todo["nested"] = <<>>
  /\ fg["nested"] # 0 => cmd[fg["nested"]].kind # "thsh"
  /\ \A n \in Programs :
       cmd[n].kind = "thsh" /\ cmd[n].st \in {"read", "told"} =>
         login = n /\ fg["nested"] = 0 /\ todo["nested"] = <<>>

(* The modes are the session's until a program changes them, and the inner *)
(* shell's while it takes keys.                                            *)
AtRest(n) == cmd[n].st = "run" \/ cmd[n].kind \notin {"tui", "secret"}
Moded ==
  /\ ~Busy => modes = "cooked"
  /\ \A s \in Shells : fg[s] # 0 /\ fg[s] # login /\ AtRest(fg[s]) => modes = "cooked"
  /\ login # 0 /\ fg["nested"] = 0 => modes = "raw"

(* No key has a number that was not typed yet; a line holds only keys that *)
(* were typed into it.                                                     *)
Upto(s, n) == \A i \in DOMAIN s : s[i][1] <= n
Numbered ==
  /\ Upto(taken, typed) /\ Upto(Marks(line), typed)
  /\ \A i \in DOMAIN q : Upto(Marks(q[i]), typed)
  /\ \A i \in DOMAIN line : line[i][3]
Ordered == Numbered /\ KeysInOrder

TermInv == Typed /\ Waits /\ Entered /\ Foremost /\ Moded /\ Ordered

-----------------------------------------------------------------------------
(* The marks of keys.                                                      *)

(* There is one for each key, in its place.                                *)
LEMMA MarksType ==
  ASSUME NEW s \in Seq(Key)
  PROVE  /\ Marks(s) \in Seq(Mark) /\ Len(Marks(s)) = Len(s) /\ DOMAIN Marks(s) = 1 .. Len(s)
         /\ \A i \in 1 .. Len(s) : Marks(s)[i] = <<s[i][1], s[i][3]>>
<1>1. DOMAIN s = 1 .. Len(s) /\ Len(s) \in Nat /\ \A i \in 1 .. Len(s) : s[i] \in Key
  OBVIOUS
<1>2. /\ DOMAIN Marks(s) = 1 .. Len(s)
      /\ \A i \in 1 .. Len(s) : Marks(s)[i] = <<s[i][1], s[i][3]>>
  BY <1>1 DEF Marks
<1>3. Marks(s) \in [1 .. Len(s) -> Mark]
  BY <1>1 DEF Marks, Mark, Key
<1>4. Marks(s) \in Seq(Mark) /\ Len(Marks(s)) = Len(s)
  BY <1>1, <1>3
<1> QED
  BY <1>2, <1>4

(* Where the marks of two runs of keys are, one after the other.           *)
LEMMA ConcatIs ==
  ASSUME NEW s \in Seq(Mark), NEW t \in Seq(Mark)
  PROVE  /\ s \o t \in Seq(Mark) /\ Len(s) \in Nat /\ Len(t) \in Nat
         /\ DOMAIN s = 1 .. Len(s) /\ DOMAIN t = 1 .. Len(t)
         /\ Len(s \o t) = Len(s) + Len(t) /\ DOMAIN (s \o t) = 1 .. Len(s) + Len(t)
         /\ \A i \in 1 .. Len(s) : (s \o t)[i] = s[i]
         /\ \A i \in 1 .. Len(t) : (s \o t)[Len(s) + i] = t[i]
  OBVIOUS

(* Two runs of keys, one after the other.                                  *)
LEMMA OneAfterOther ==
  ASSUME NEW s \in Seq(Mark), NEW t \in Seq(Mark)
  PROVE  /\ s \o t \in Seq(Mark)
         /\ Ascends(s) /\ Ascends(t) /\ Precedes(s, t) => Ascends(s \o t)
         /\ \A u \in Seq(Mark) : Precedes(s, u) /\ Precedes(t, u) => Precedes(s \o t, u)
         /\ \A u \in Seq(Mark) : Precedes(u, s) /\ Precedes(u, t) => Precedes(u, s \o t)
         /\ \A n \in Nat : Upto(s, n) /\ Upto(t, n) => Upto(s \o t, n)
<1>1. /\ s \o t \in Seq(Mark) /\ Len(s) \in Nat /\ Len(t) \in Nat
      /\ DOMAIN s = 1 .. Len(s) /\ DOMAIN t = 1 .. Len(t) /\ DOMAIN (s \o t) = 1 .. Len(s) + Len(t)
      /\ \A i \in 1 .. Len(s) : (s \o t)[i] = s[i]
      /\ \A i \in 1 .. Len(t) : (s \o t)[Len(s) + i] = t[i]
  BY ConcatIs
<1>2. ASSUME NEW i \in DOMAIN (s \o t)
      PROVE  \/ i \in DOMAIN s /\ (s \o t)[i] = s[i]
             \/ i > Len(s) /\ i - Len(s) \in DOMAIN t /\ (s \o t)[i] = t[i - Len(s)]
  <2>1. CASE i <= Len(s)
    BY <1>1, <2>1
  <2>2. CASE i > Len(s)
    <3>1. i - Len(s) \in 1 .. Len(t) /\ i = Len(s) + (i - Len(s))
      BY <1>1, <2>2
    <3> QED
      BY <1>1, <2>2, <3>1
  <2> QED
    BY <1>1, <2>1, <2>2
<1>3. ASSUME Ascends(s), Ascends(t), Precedes(s, t)
      PROVE  Ascends(s \o t)
  <2> SUFFICES ASSUME NEW i \in DOMAIN (s \o t), NEW j \in DOMAIN (s \o t), i < j,
                      (s \o t)[i][2] = (s \o t)[j][2]
               PROVE  (s \o t)[i][1] < (s \o t)[j][1]
    BY DEF Ascends
  <2>1. i \in Nat /\ j \in Nat
    BY <1>1
  <2>2. CASE j \in DOMAIN s /\ (s \o t)[j] = s[j]
    <3>1. i \in DOMAIN s /\ (s \o t)[i] = s[i]
      BY <1>1, <2>1, <2>2
    <3> QED
      BY <1>3, <2>2, <3>1 DEF Ascends
  <2>3. CASE j > Len(s) /\ j - Len(s) \in DOMAIN t /\ (s \o t)[j] = t[j - Len(s)]
    <3>1. CASE i \in DOMAIN s /\ (s \o t)[i] = s[i]
      BY <1>3, <2>3, <3>1 DEF Precedes
    <3>2. CASE i > Len(s) /\ i - Len(s) \in DOMAIN t /\ (s \o t)[i] = t[i - Len(s)]
      <4>1. i - Len(s) < j - Len(s)
        BY <1>1, <2>1
      <4> QED
        BY <1>3, <2>3, <3>2, <4>1 DEF Ascends
    <3> QED
      BY <1>2, <3>1, <3>2
  <2> QED
    BY <1>2, <2>2, <2>3
<1>4. ASSUME NEW u \in Seq(Mark), Precedes(s, u), Precedes(t, u)
      PROVE  Precedes(s \o t, u)
  BY <1>2, <1>4 DEF Precedes
<1>5. ASSUME NEW u \in Seq(Mark), Precedes(u, s), Precedes(u, t)
      PROVE  Precedes(u, s \o t)
  BY <1>2, <1>5 DEF Precedes
<1>6. ASSUME NEW n \in Nat, Upto(s, n), Upto(t, n)
      PROVE  Upto(s \o t, n)
  BY <1>2, <1>6 DEF Upto
<1> QED
  BY <1>1, <1>3, <1>4, <1>5, <1>6

(* What a sequence is with one more at its end.                            *)
LEMMA AppendIs ==
  ASSUME NEW X, NEW s \in Seq(X), NEW x \in X
  PROVE  /\ Append(s, x) \in Seq(X) /\ Len(s) \in Nat /\ Len(Append(s, x)) = Len(s) + 1
         /\ \A i \in 1 .. Len(s) : Append(s, x)[i] = s[i]
         /\ Append(s, x)[Len(s) + 1] = x
  OBVIOUS

(* And with its head taken.                                                *)
LEMMA TailIs ==
  ASSUME NEW X, NEW s \in Seq(X), s # <<>>
  PROVE  /\ Head(s) = s[1] /\ Len(s) \in Nat /\ Len(s) >= 1 /\ DOMAIN s = 1 .. Len(s)
         /\ Tail(s) \in Seq(X) /\ DOMAIN Tail(s) = 1 .. Len(s) - 1
         /\ \A i \in 1 .. Len(s) - 1 : Tail(s)[i] = s[i + 1]
  OBVIOUS

(* The marks of a line with one more key, and of no keys.                  *)
LEMMA MarksAppend ==
  ASSUME NEW s \in Seq(Key), NEW k \in Key
  PROVE  /\ Append(s, k) \in Seq(Key)
         /\ Marks(Append(s, k)) = Marks(s) \o <<<<k[1], k[3]>>>>
         /\ <<k>> \in Seq(Key) /\ Marks(<<k>>) = <<<<k[1], k[3]>>>>
         /\ <<<<k[1], k[3]>>>> \in Seq(Mark)
<1> DEFINE m == <<<<k[1], k[3]>>>>
           t == Append(s, k)
<1>1. m \in Seq(Mark) /\ Len(m) = 1 /\ m[1] = <<k[1], k[3]>>
  BY DEF Key, Mark
<1>2. /\ t \in Seq(Key) /\ Len(t) = Len(s) + 1 /\ Len(s) \in Nat
      /\ \A i \in 1 .. Len(s) : t[i] = s[i]
      /\ t[Len(s) + 1] = k
  BY AppendIs
<1>3. /\ Marks(t) \in Seq(Mark) /\ Len(Marks(t)) = Len(t)
      /\ \A i \in 1 .. Len(t) : Marks(t)[i] = <<t[i][1], t[i][3]>>
  BY <1>2, MarksType
<1>4. /\ Marks(s) \in Seq(Mark) /\ Len(Marks(s)) = Len(s)
      /\ \A i \in 1 .. Len(s) : Marks(s)[i] = <<s[i][1], s[i][3]>>
  BY MarksType
<1> HIDE DEF t, m
<1>5. /\ Marks(s) \o m \in Seq(Mark) /\ Len(Marks(s) \o m) = Len(s) + 1
      /\ \A i \in 1 .. Len(s) : (Marks(s) \o m)[i] = Marks(s)[i]
      /\ (Marks(s) \o m)[Len(s) + 1] = m[1]
  <2> DEFINE r == Marks(s)
  <2>1. r \in Seq(Mark) /\ Len(r) = Len(s)
    BY <1>4
  <2> HIDE DEF r
  <2>2. /\ r \o m \in Seq(Mark) /\ Len(r \o m) = Len(r) + Len(m)
        /\ \A i \in 1 .. Len(r) : (r \o m)[i] = r[i]
        /\ \A i \in 1 .. Len(m) : (r \o m)[Len(r) + i] = m[i]
    BY <1>1, <2>1, ConcatIs
  <2>3. (r \o m)[Len(r) + 1] = m[1]
    BY <1>1, <2>2
  <2> QED
    BY <1>1, <2>1, <2>2, <2>3 DEF r
<1>6. \A i \in 1 .. Len(t) : Marks(t)[i] = (Marks(s) \o m)[i]
  <2> SUFFICES ASSUME NEW i \in 1 .. Len(t) PROVE Marks(t)[i] = (Marks(s) \o m)[i]
    OBVIOUS
  <2>1. CASE i \in 1 .. Len(s)
    <3>1. t[i] = s[i] /\ Marks(t)[i] = <<t[i][1], t[i][3]>>
      BY <1>2, <1>3, <2>1
    <3>2. (Marks(s) \o m)[i] = <<s[i][1], s[i][3]>>
      BY <1>4, <1>5, <2>1
    <3> QED
      BY <3>1, <3>2
  <2>2. CASE i = Len(s) + 1
    BY <1>1, <1>2, <1>3, <1>5, <2>2
  <2>3. i \in 1 .. Len(s) \/ i = Len(s) + 1
    BY <1>2
  <2> QED
    BY <2>1, <2>2, <2>3
<1>7. Marks(t) = Marks(s) \o m
  BY <1>2, <1>3, <1>5, <1>6, SeqEqual
<1>8. <<k>> \in Seq(Key) /\ Marks(<<k>>) = m
  <2> DEFINE r == <<k>>
  <2>1. r \in Seq(Key) /\ Len(r) = 1 /\ r[1] = k
    OBVIOUS
  <2> HIDE DEF r
  <2>2. /\ Marks(r) \in Seq(Mark) /\ Len(Marks(r)) = Len(r)
        /\ \A i \in 1 .. Len(r) : Marks(r)[i] = <<r[i][1], r[i][3]>>
    BY <2>1, MarksType
  <2>3. \A i \in 1 .. Len(r) : Marks(r)[i] = m[i]
    BY <1>1, <2>1, <2>2
  <2>4. Marks(r) = m
    BY <1>1, <2>1, <2>2, <2>3, SeqEqual
  <2> QED
    BY <2>1, <2>4 DEF r
<1> QED
  BY <1>1, <1>2, <1>7, <1>8 DEF t, m

(* No keys are in order with any.                                          *)
LEMMA MarksEmpty ==
  /\ Marks(<<>>) = <<>> /\ <<>> \in Seq(Key) /\ <<>> \in Seq(Mark)
  /\ Ascends(<<>>) /\ (\A n : Upto(<<>>, n))
  /\ \A s : Precedes(s, <<>>) /\ Precedes(<<>>, s)
  BY DEF Marks, Ascends, Upto, Precedes

(* A key that is typed now comes after all others.                         *)
LEMMA NewestKey ==
  ASSUME NEW n \in Nat, NEW b \in BOOLEAN
  PROVE  LET m == <<<<n + 1, b>>>> IN
           /\ m \in Seq(Mark) /\ Ascends(m) /\ Upto(m, n + 1)
           /\ \A s \in Seq(Mark) : Upto(s, n) => Precedes(s, m)
<1> DEFINE m == <<<<n + 1, b>>>>
<1>1. m \in Seq(Mark) /\ DOMAIN m = {1} /\ m[1] = <<n + 1, b>>
  BY DEF Mark
<1>2. Ascends(m) /\ Upto(m, n + 1)
  BY <1>1 DEF Ascends, Upto
<1>3. ASSUME NEW s \in Seq(Mark), Upto(s, n)
      PROVE  Precedes(s, m)
  <2>1. \A i \in DOMAIN s : s[i][1] \in Nat
    BY DEF Mark
  <2> QED
    BY <1>1, <1>3, <2>1 DEF Precedes, Upto
<1> QED
  BY <1>1, <1>2, <1>3

-----------------------------------------------------------------------------
(* What the terminal does to the keys keeps their order.                   *)

(* A bound may grow.                                                       *)
LEMMA UptoLater ==
  ASSUME NEW s \in Seq(Mark), NEW n \in Nat, NEW m \in Nat, n <= m, Upto(s, n)
  PROVE  Upto(s, m)
<1>1. \A i \in DOMAIN s : s[i][1] \in Nat
  BY DEF Mark
<1> QED
  BY <1>1 DEF Upto

(* What a chunk must be to go to the reader or behind the queue.           *)
Follows(chunk, rest, n) ==
  /\ chunk \in Seq(Key)
  /\ Ascends(Marks(chunk)) /\ Upto(Marks(chunk), n)
  /\ Precedes(taken, Marks(chunk)) /\ Precedes(Marks(chunk), Marks(rest))
  /\ \A i \in DOMAIN q : Precedes(Marks(q[i]), Marks(chunk))

(* A line that is unchanged or empty stays in order behind what was typed. *)
LEMMA LineKept ==
  ASSUME Typed, Ordered, line' \in {line, <<>>}, typed' \in Nat, typed <= typed'
  PROVE  /\ line' \in Seq(Key) /\ Ascends(Marks(line')) /\ Upto(Marks(line'), typed')
         /\ Precedes(taken, Marks(line'))
         /\ \A i \in DOMAIN q : Precedes(Marks(q[i]), Marks(line'))
         /\ \A i \in DOMAIN line' : line'[i][3]
<1>1. CASE line' = line
  <2>1. Marks(line) \in Seq(Mark) /\ Upto(Marks(line), typed) /\ typed \in Nat
    BY MarksType DEF Typed, Ordered, Numbered
  <2>2. Upto(Marks(line), typed')
    BY <2>1, UptoLater
  <2> QED
    BY <1>1, <2>2 DEF Typed, Ordered, Numbered, KeysInOrder
<1>2. CASE line' = <<>>
  BY <1>2, MarksEmpty
<1> QED
  BY <1>1, <1>2

(* TtyIn.push.                                                             *)
LEMMA PushOrdered ==
  ASSUME Typed, Ordered, NEW cmds, NEW chunk, Push(cmds, chunk), line' \in {line, <<>>},
         typed' \in Nat, typed <= typed', Follows(chunk, line', typed')
  PROVE  Ordered'
<1>1. /\ line' \in Seq(Key) /\ Ascends(Marks(line')) /\ Upto(Marks(line'), typed')
      /\ Precedes(taken, Marks(line'))
      /\ \A i \in DOMAIN q : Precedes(Marks(q[i]), Marks(line'))
      /\ \A i \in DOMAIN line' : line'[i][3]
  BY LineKept
<1>2. /\ taken \in Seq(Mark) /\ q \in Seq(Seq(Key)) /\ Ascends(taken) /\ typed \in Nat
      /\ Upto(taken, typed)
      /\ \A i \in DOMAIN q :
           /\ Ascends(Marks(q[i])) /\ Precedes(taken, Marks(q[i])) /\ Upto(Marks(q[i]), typed)
           /\ \A j \in DOMAIN q : i < j => Precedes(Marks(q[i]), Marks(q[j]))
      /\ wait # <<>> => q = <<>>
  BY DEF Typed, Ordered, Numbered, KeysInOrder
<1>3. /\ chunk \in Seq(Key)
      /\ Ascends(Marks(chunk)) /\ Upto(Marks(chunk), typed')
      /\ Precedes(taken, Marks(chunk)) /\ Precedes(Marks(chunk), Marks(line'))
      /\ \A i \in DOMAIN q : Precedes(Marks(q[i]), Marks(chunk))
  BY DEF Follows
<1>4. Upto(taken, typed') /\ \A i \in DOMAIN q : Upto(Marks(q[i]), typed')
  <2>1. \A i \in DOMAIN q : Marks(q[i]) \in Seq(Mark)
    BY <1>2, MarksType
  <2> QED
    BY <1>2, <2>1, UptoLater
<1>5. CASE wait = <<>>
  <2>1. q' = Append(q, chunk) /\ taken' = taken /\ wait' = wait
    BY <1>5 DEF Push
  <2>2. /\ DOMAIN q = 1 .. Len(q) /\ Len(q) \in Nat
        /\ DOMAIN q' = 1 .. Len(q) + 1 /\ q'[Len(q) + 1] = chunk
        /\ \A i \in 1 .. Len(q) : q'[i] = q[i]
    BY <1>2, <1>3, <2>1
  <2>3. ASSUME NEW i \in DOMAIN q'
        PROVE  /\ Ascends(Marks(q'[i])) /\ Precedes(taken, Marks(q'[i]))
               /\ Upto(Marks(q'[i]), typed') /\ Precedes(Marks(q'[i]), Marks(line'))
               /\ \A j \in DOMAIN q' : i < j => Precedes(Marks(q'[i]), Marks(q'[j]))
    <3>1. CASE i \in DOMAIN q
      BY <1>1, <1>2, <1>3, <1>4, <2>2, <3>1
    <3>2. CASE i = Len(q) + 1
      BY <1>3, <2>2, <3>2
    <3> QED
      BY <2>2, <3>1, <3>2
  <2> QED
    BY <1>1, <1>2, <1>4, <1>5, <2>1, <2>3 DEF Ordered, Numbered, KeysInOrder
<1>6. CASE wait # <<>>
  <2>1. q' = <<>> /\ q = <<>> /\ taken' = taken \o Marks(chunk)
    BY <1>2, <1>6 DEF Push
  <2>2. Marks(chunk) \in Seq(Mark) /\ Marks(line') \in Seq(Mark)
    BY <1>1, <1>3, MarksType
  <2>3. /\ Ascends(taken') /\ Precedes(taken', Marks(line')) /\ Upto(taken', typed')
    BY <1>1, <1>2, <1>3, <1>4, <2>1, <2>2, OneAfterOther
  <2> QED
    BY <1>1, <2>1, <2>3 DEF Ordered, Numbered, KeysInOrder
<1> QED
  BY <1>5, <1>6

(* TtyIn.rd.                                                               *)
LEMMA RdOrdered ==
  ASSUME Typed, Ordered, NEW n, Rd(n), line' = line, typed' = typed
  PROVE  Ordered'
<1>1. /\ taken \in Seq(Mark) /\ q \in Seq(Seq(Key)) /\ line \in Seq(Key) /\ typed \in Nat
      /\ Ascends(taken) /\ Upto(taken, typed)
      /\ Ascends(Marks(line)) /\ Precedes(taken, Marks(line)) /\ Upto(Marks(line), typed)
      /\ \A i \in DOMAIN line : line[i][3]
      /\ \A i \in DOMAIN q :
           /\ Ascends(Marks(q[i])) /\ Precedes(taken, Marks(q[i])) /\ Upto(Marks(q[i]), typed)
           /\ Precedes(Marks(q[i]), Marks(line))
           /\ \A j \in DOMAIN q : i < j => Precedes(Marks(q[i]), Marks(q[j]))
      /\ wait # <<>> => q = <<>>
  BY DEF Typed, Ordered, Numbered, KeysInOrder
<1>2. CASE q = <<>>
  <2>1. q' = q /\ taken' = taken
    BY <1>2 DEF Rd
  <2> QED
    BY <1>1, <1>2, <2>1 DEF Ordered, Numbered, KeysInOrder
<1>3. CASE q # <<>>
  <2>1. q' = Tail(q) /\ wait' = <<>> /\ taken' = taken \o Marks(q[1])
    BY <1>1, <1>3 DEF Rd
  <2>2. 1 \in DOMAIN q /\ \A i \in DOMAIN q' : i + 1 \in DOMAIN q /\ q'[i] = q[i + 1] /\ 1 < i + 1
    BY <1>1, <1>3, <2>1
  <2>3. \A i \in DOMAIN q : Marks(q[i]) \in Seq(Mark)
    BY <1>1, MarksType
  <2>4. Marks(line) \in Seq(Mark)
    BY <1>1, MarksType
  <2>5. /\ Ascends(taken') /\ Precedes(taken', Marks(line)) /\ Upto(taken', typed)
    BY <1>1, <2>1, <2>2, <2>3, <2>4, OneAfterOther
  <2>6. ASSUME NEW i \in DOMAIN q'
        PROVE  /\ Ascends(Marks(q'[i])) /\ Precedes(taken', Marks(q'[i]))
               /\ Upto(Marks(q'[i]), typed) /\ Precedes(Marks(q'[i]), Marks(line))
               /\ \A j \in DOMAIN q' : i < j => Precedes(Marks(q'[i]), Marks(q'[j]))
    <3>1. i + 1 \in DOMAIN q /\ q'[i] = q[i + 1] /\ 1 < i + 1 /\ i \in Nat
      BY <1>1, <2>1, <2>2
    <3>2. Precedes(taken, Marks(q[i + 1])) /\ Precedes(Marks(q[1]), Marks(q[i + 1]))
      BY <1>1, <2>2, <3>1
    <3>3. Precedes(taken', Marks(q[i + 1]))
      BY <1>1, <2>1, <2>2, <2>3, <3>1, <3>2, OneAfterOther
    <3>4. ASSUME NEW j \in DOMAIN q', i < j
          PROVE  Precedes(Marks(q'[i]), Marks(q'[j]))
      <4>1. j + 1 \in DOMAIN q /\ q'[j] = q[j + 1] /\ j \in Nat
        BY <1>1, <2>1, <2>2
      <4> QED
        BY <1>1, <3>1, <3>4, <4>1
    <3> QED
      BY <1>1, <3>1, <3>3, <3>4
  <2> QED
    BY <1>1, <2>1, <2>5, <2>6 DEF Ordered, Numbered, KeysInOrder
<1> QED
  BY <1>2, <1>3

(* What leaves the keys alone, or discards those that nobody has read.     *)
LEMMA StillOrdered ==
  ASSUME Typed, Ordered, line' \in {line, <<>>}, q' \in {q, <<>>}, wait' = wait, taken' = taken,
         typed' \in Nat, typed <= typed'
  PROVE  Ordered'
<1>1. /\ line' \in Seq(Key) /\ Ascends(Marks(line')) /\ Upto(Marks(line'), typed')
      /\ Precedes(taken, Marks(line'))
      /\ \A i \in DOMAIN q : Precedes(Marks(q[i]), Marks(line'))
      /\ \A i \in DOMAIN line' : line'[i][3]
  BY LineKept
<1>2. Upto(taken, typed') /\ \A i \in DOMAIN q : Upto(Marks(q[i]), typed')
  <2>1. taken \in Seq(Mark) /\ typed \in Nat /\ \A i \in DOMAIN q : Marks(q[i]) \in Seq(Mark)
    BY MarksType DEF Typed
  <2> QED
    BY <2>1, UptoLater DEF Ordered, Numbered
<1>3. CASE q' = q
  BY <1>1, <1>2, <1>3 DEF Ordered, Numbered, KeysInOrder
<1>4. CASE q' = <<>>
  BY <1>1, <1>2, <1>4 DEF Ordered, Numbered, KeysInOrder
<1> QED
  BY <1>3, <1>4

(* The parts of a key.                                                     *)
LEMMA KeyIs ==
  ASSUME NEW n \in Nat, NEW k \in Keys, NEW b \in BOOLEAN
  PROVE  /\ <<n + 1, k, b>> \in Key
         /\ <<n + 1, k, b>>[1] = n + 1 /\ <<n + 1, k, b>>[2] = k /\ <<n + 1, k, b>>[3] = b
<1>1. n + 1 \in Nat
  OBVIOUS
<1>2. <<n + 1, k, b>> \in Nat \X Keys \X BOOLEAN
  BY <1>1
<1> QED
  BY <1>2 DEF Key

(* A key that goes into the line comes after all others.                   *)
LEMMA LineOrdered ==
  ASSUME Typed, Ordered, NEW k \in Keys, NEW b \in BOOLEAN, b, line' = Append(line, <<typed + 1, k, b>>),
         typed' = typed + 1, UNCHANGED <<q, wait, taken>>
  PROVE  Ordered'
<1> DEFINE key == <<typed + 1, k, b>>
           m == <<<<typed + 1, b>>>>
<1>1. /\ taken \in Seq(Mark) /\ q \in Seq(Seq(Key)) /\ line \in Seq(Key) /\ typed \in Nat
      /\ Upto(taken, typed) /\ Ascends(Marks(line)) /\ Precedes(taken, Marks(line))
      /\ Upto(Marks(line), typed)
      /\ \A i \in DOMAIN line : line[i][3]
      /\ \A i \in DOMAIN q : Precedes(Marks(q[i]), Marks(line)) /\ Upto(Marks(q[i]), typed)
  BY DEF Typed, Ordered, Numbered, KeysInOrder
<1>2. key \in Key /\ key[1] = typed + 1 /\ key[3] = b
  BY <1>1, KeyIs
<1>3. Marks(line') = Marks(line) \o m
  <2>1. line' = Append(line, key) /\ m = <<<<key[1], key[3]>>>>
    BY <1>2 DEF key
  <2> HIDE DEF key, m
  <2> QED
    BY <1>1, <1>2, <2>1, MarksAppend
<1> HIDE DEF key
<1>4. /\ m \in Seq(Mark) /\ Ascends(m) /\ Upto(m, typed + 1)
      /\ \A s \in Seq(Mark) : Upto(s, typed) => Precedes(s, m)
  BY <1>1, NewestKey
<1>5. Marks(line) \in Seq(Mark) /\ \A i \in DOMAIN q : Marks(q[i]) \in Seq(Mark)
  BY <1>1, MarksType
<1> HIDE DEF m
<1>6. /\ Upto(taken, typed + 1) /\ Upto(Marks(line), typed + 1)
      /\ \A i \in DOMAIN q : Upto(Marks(q[i]), typed + 1)
  <2>1. typed + 1 \in Nat /\ typed <= typed + 1
    BY <1>1
  <2> QED
    BY <1>1, <1>5, <2>1, UptoLater
<1>7. Ascends(Marks(line')) /\ Precedes(taken, Marks(line')) /\ Upto(Marks(line'), typed + 1)
  <2>1. typed + 1 \in Nat
    BY <1>1
  <2> QED
    BY <1>1, <1>3, <1>4, <1>5, <1>6, <2>1, OneAfterOther
<1>8. \A i \in DOMAIN q : Precedes(Marks(q[i]), Marks(line'))
  BY <1>1, <1>3, <1>4, <1>5, OneAfterOther
<1>9. \A i \in DOMAIN line' : line'[i][3]
  <2>1. line' = Append(line, key)
    BY DEF key
  <2> QED
    BY <1>1, <1>2, <2>1
<1> QED
  BY <1>6, <1>7, <1>8, <1>9 DEF Ordered, Numbered, KeysInOrder

(* Tty.feed: an unfinished line keeps the keys that are typed after those  *)
(* of the line, and what is given away as it comes was never in a line.    *)
LEMMA FeedOrdered ==
  ASSUME Typed, Ordered, NEW k \in Keys, NEW b \in BOOLEAN, b <=> modes = "cooked",
         Feed(<<typed + 1, k, b>>), typed' = typed + 1
  PROVE  Ordered'
<1> DEFINE key == <<typed + 1, k, b>>
           m == <<<<typed + 1, b>>>>
<1>1. /\ taken \in Seq(Mark) /\ q \in Seq(Seq(Key)) /\ line \in Seq(Key) /\ typed \in Nat
      /\ Upto(taken, typed) /\ Ascends(Marks(line)) /\ Precedes(taken, Marks(line))
      /\ Upto(Marks(line), typed)
      /\ \A i \in DOMAIN line : line[i][3]
      /\ \A i \in DOMAIN q : Precedes(Marks(q[i]), Marks(line)) /\ Upto(Marks(q[i]), typed)
  BY DEF Typed, Ordered, Numbered, KeysInOrder
<1>2. key \in Key /\ key[1] = typed + 1 /\ key[2] = k /\ key[3] = b
  BY <1>1, KeyIs
<1>3. /\ m \in Seq(Mark) /\ Ascends(m) /\ Upto(m, typed + 1)
      /\ \A s \in Seq(Mark) : Upto(s, typed) => Precedes(s, m)
  BY <1>1, NewestKey
<1>4. Marks(line) \in Seq(Mark) /\ \A i \in DOMAIN q : Marks(q[i]) \in Seq(Mark)
  BY <1>1, MarksType
<1>5. /\ typed + 1 \in Nat /\ typed <= typed + 1 /\ typed' \in Nat /\ typed <= typed'
  BY <1>1
<1>6. Precedes(taken, m) /\ \A i \in DOMAIN q : Precedes(Marks(q[i]), m)
  BY <1>1, <1>3, <1>4
<1>7. Feed(key)
  OBVIOUS
<1>8. /\ Marks(<<key>>) = m /\ <<key>> \in Seq(Key)
      /\ Append(line, key) \in Seq(Key) /\ Marks(Append(line, key)) = Marks(line) \o m
  <2>1. m = <<<<key[1], key[3]>>>>
    BY <1>2
  <2> HIDE DEF key, m
  <2> QED
    BY <1>1, <1>2, <2>1, MarksAppend
<1> HIDE DEF key, m
<1>9. CASE k = "intr" /\ modes # "raw" /\ Signal
  <2>1. PICK cmds : Push(cmds, <<>>)
    BY <1>9 DEF Signal
  <2>2. line' = <<>>
    BY <1>9 DEF Signal
  <2>3. Follows(<<>>, line', typed')
    BY <2>2, MarksEmpty DEF Follows
  <2> QED
    BY <1>5, <2>1, <2>2, <2>3, PushOrdered
<1>10. CASE /\ modes = "raw" \/ (modes = "cbreak" /\ k # "intr")
            /\ Push(cmd, <<key>>)
            /\ UNCHANGED <<modes, line>>
  <2>1. line' = line /\ ~b
    <3>1. modes # "cooked"
      BY <1>10
    <3> QED
      BY <1>10, <3>1
  <2>2. Precedes(m, Marks(line))
    <3>1. line \in Seq(Key) /\ DOMAIN line = 1 .. Len(line)
      BY <1>1
    <3>2. /\ DOMAIN Marks(line) = DOMAIN line
          /\ \A i \in DOMAIN line : Marks(line)[i] = <<line[i][1], line[i][3]>>
      BY <3>1, MarksType
    <3>3. \A i \in DOMAIN Marks(line) : Marks(line)[i][2]
      BY <1>1, <3>2
    <3>4. \A i \in DOMAIN m : ~m[i][2]
      BY <2>1 DEF m
    <3> QED
      BY <3>3, <3>4 DEF Precedes
  <2>3. Follows(<<key>>, line', typed')
    BY <1>3, <1>6, <1>8, <2>1, <2>2 DEF Follows
  <2> QED
    BY <1>5, <1>10, <2>1, <2>3, PushOrdered
<1>11. CASE modes = "cooked" /\ k = "char" /\ line' = Append(line, key)
            /\ UNCHANGED <<modes, q, wait, cmd, taken>>
  <2>1. line' = Append(line, <<typed + 1, k, b>>) /\ b /\ UNCHANGED <<q, wait, taken>>
    BY <1>11 DEF key
  <2> QED
    BY <2>1, LineOrdered
<1>12. CASE /\ modes = "cooked" /\ k \in {"enter", "eof"}
            /\ Push(cmd, IF k = "enter" THEN Append(line, key) ELSE line)
            /\ line' = <<>>
            /\ UNCHANGED modes
  <2>1. PICK chunk \in {Append(line, key), line} : Push(cmd, chunk)
    BY <1>12
  <2>2. /\ chunk \in Seq(Key)
        /\ Ascends(Marks(chunk)) /\ Upto(Marks(chunk), typed')
        /\ Precedes(taken, Marks(chunk)) /\ \A i \in DOMAIN q : Precedes(Marks(q[i]), Marks(chunk))
    <3>1. Upto(Marks(line), typed + 1)
      BY <1>1, <1>4, <1>5, UptoLater
    <3>2. CASE chunk = line
      BY <1>1, <3>1, <3>2
    <3>3. CASE chunk = Append(line, key)
      <4>1. Precedes(Marks(line), m)
        BY <1>1, <1>3, <1>4
      <4>2. /\ Ascends(Marks(line) \o m) /\ Precedes(taken, Marks(line) \o m)
            /\ Upto(Marks(line) \o m, typed + 1)
        BY <1>1, <1>3, <1>4, <1>5, <1>6, <3>1, <4>1, OneAfterOther
      <4>3. \A i \in DOMAIN q : Precedes(Marks(q[i]), Marks(line) \o m)
        BY <1>1, <1>3, <1>4, <1>6, OneAfterOther
      <4> QED
        BY <1>8, <3>3, <4>2, <4>3
    <3> QED
      BY <3>2, <3>3
  <2>3. Follows(chunk, line', typed')
    BY <1>12, <2>2, MarksEmpty DEF Follows
  <2>4. line' = <<>>
    BY <1>12
  <2> QED
    BY <1>5, <2>1, <2>3, <2>4, PushOrdered
<1> QED
  BY <1>2, <1>7, <1>9, <1>10, <1>11, <1>12 DEF Feed

-----------------------------------------------------------------------------
(* What a step does to one program.                                        *)

States == Running \cup {"entered", "ended"}

(* Program n, none if it is 0, goes to state s, and a program may be new.  *)
Becomes(n, s) ==
  /\ cmd' \in Seq(ProgramState)
  /\ Len(cmd') \in {Len(cmd), Len(cmd) + 1}
  /\ \A m \in Programs : cmd'[m].kind = cmd[m].kind
  /\ \A m \in Programs : m # n => cmd'[m].st = cmd[m].st
  /\ n \in Programs => cmd'[n].st = s
  /\ Len(cmd') = Len(cmd) + 1 => cmd'[Len(cmd) + 1].st = "entered"

(* The programs with one of them changed.                                  *)
LEMMA ChangeOne ==
  ASSUME NEW cmds \in Seq(ProgramState), NEW n \in 1 .. Len(cmds), NEW p \in ProgramState
  PROVE  LET c == [cmds EXCEPT ![n] = p] IN
           /\ c \in Seq(ProgramState) /\ Len(c) = Len(cmds) /\ Len(cmds) \in Nat
           /\ c[n] = p /\ \A m \in 1 .. Len(cmds) : m # n => c[m] = cmds[m]
  OBVIOUS

(* A program is replaced by one of its kind.                               *)
LEMMA ReplaceOne ==
  ASSUME Typed, NEW n \in Programs, NEW p \in ProgramState, p.kind = cmd[n].kind,
         cmd' = [cmd EXCEPT ![n] = p]
  PROVE  Becomes(n, p.st)
<1>1. cmd \in Seq(ProgramState) /\ n \in 1 .. Len(cmd)
  BY DEF Typed, Programs
<1>2. /\ cmd' \in Seq(ProgramState) /\ Len(cmd') = Len(cmd) /\ Len(cmd) \in Nat
      /\ cmd'[n] = p /\ \A m \in 1 .. Len(cmd) : m # n => cmd'[m] = cmd[m]
  BY <1>1, ChangeOne
<1>3. \A m \in Programs : cmd'[m].kind = cmd[m].kind /\ (m # n => cmd'[m].st = cmd[m].st)
  BY <1>2 DEF Programs
<1>4. Len(cmd') \in {Len(cmd), Len(cmd) + 1} /\ ~(Len(cmd') = Len(cmd) + 1)
  <2>1. Len(cmd) \in Nat
    BY <1>1
  <2>2. ~(Len(cmd) = Len(cmd) + 1)
    BY <2>1
  <2> QED
    BY <1>2, <2>2, Zenon
<1> QED
  BY <1>2, <1>3, <1>4, Zenon DEF Becomes

(* The three ways in which a step writes a program.                        *)
LEMMA WriteIs ==
  ASSUME Typed, NEW n \in Programs, NEW s \in States, NEW g \in Seq(Key),
         \/ cmd' = [cmd EXCEPT ![n].st = s]
         \/ cmd' = [cmd EXCEPT ![n].st = s, ![n].got = g]
         \/ cmd' = [cmd EXCEPT ![n].st = s, ![n].got = g, ![n].killed = FALSE]
  PROVE  Becomes(n, s)
<1>1. cmd \in Seq(ProgramState) /\ n \in 1 .. Len(cmd) /\ cmd[n] \in ProgramState
  BY DEF Typed, Programs
<1>2. CASE cmd' = [cmd EXCEPT ![n].st = s]
  <2> DEFINE p == [cmd[n] EXCEPT !.st = s]
  <2>1. p \in ProgramState /\ p.kind = cmd[n].kind /\ p.st = s
    BY <1>1 DEF ProgramState, States
  <2>2. cmd' = [cmd EXCEPT ![n] = p]
    BY <1>2
  <2> HIDE DEF p
  <2> QED
    BY <2>1, <2>2, ReplaceOne
<1>3. CASE cmd' = [cmd EXCEPT ![n].st = s, ![n].got = g]
  <2> DEFINE p == [cmd[n] EXCEPT !.st = s, !.got = g]
  <2>1. p \in ProgramState /\ p.kind = cmd[n].kind /\ p.st = s
    BY <1>1 DEF ProgramState, States
  <2>2. cmd' = [cmd EXCEPT ![n] = p]
    BY <1>1, <1>3
  <2> HIDE DEF p
  <2> QED
    BY <2>1, <2>2, ReplaceOne
<1>4. CASE cmd' = [cmd EXCEPT ![n].st = s, ![n].got = g, ![n].killed = FALSE]
  <2> DEFINE p == [cmd[n] EXCEPT !.st = s, !.got = g, !.killed = FALSE]
  <2>1. p \in ProgramState /\ p.kind = cmd[n].kind /\ p.st = s
    BY <1>1 DEF ProgramState, States
  <2>2. cmd' = [cmd EXCEPT ![n] = p]
    BY <1>1, <1>4
  <2> HIDE DEF p
  <2> QED
    BY <2>1, <2>2, ReplaceOne
<1> QED
  BY <1>2, <1>3, <1>4

(* Nothing happens to any program.                                         *)
LEMMA NobodyChanges ==
  ASSUME Typed, cmd' = cmd
  PROVE  \A s : Becomes(0, s)
  BY DEF Typed, Becomes, Programs

-----------------------------------------------------------------------------
(* What follows for each part of the invariant.                            *)

(* TtyIn.push: to the program that has waited longest, or into the queue.  *)
LEMMA PushBecomes ==
  ASSUME Typed, Waits, NEW cmds \in Seq(ProgramState), Len(cmds) = Len(cmd),
         \A m \in Programs : cmds[m].kind = cmd[m].kind /\ cmds[m].st = cmd[m].st,
         NEW chunk \in Seq(Key), Push(cmds, chunk)
  PROVE  /\ wait' \in Seq(Nat) /\ q' \in Seq(Seq(Key)) /\ taken' \in Seq(Mark)
         /\ \/ Becomes(0, "told") /\ wait' = wait
            \/ wait # <<>> /\ Becomes(Head(wait), "told") /\ wait' = Tail(wait)
<1>1. /\ wait \in Seq(Nat) /\ q \in Seq(Seq(Key)) /\ taken \in Seq(Mark)
      /\ cmd \in Seq(ProgramState) /\ Len(cmd) \in Nat
      /\ \A i \in DOMAIN wait : wait[i] \in Programs
  BY DEF Typed, Waits
<1>2. ~(Len(cmd) = Len(cmd) + 1)
  BY <1>1
<1>3. CASE wait = <<>>
  <2>1. cmd' = cmds /\ wait' = wait /\ taken' = taken /\ q' = Append(q, chunk)
    BY <1>3 DEF Push
  <2>2. q' \in Seq(Seq(Key))
    BY <1>1, <2>1
  <2>3. 0 \notin Programs
    BY <1>1 DEF Programs
  <2>4. Becomes(0, "told")
    BY <1>2, <2>1, <2>3, Zenon DEF Becomes
  <2> QED
    BY <1>1, <2>1, <2>2, <2>4
<1>4. CASE wait # <<>>
  <2> DEFINE n == Head(wait)
             p == [cmds[n] EXCEPT !.st = "told", !.got = chunk]
  <2>1. wait' = Tail(wait) /\ q' = q /\ taken' = taken \o Marks(chunk)
    BY <1>4 DEF Push
  <2>2. n \in Programs /\ Tail(wait) \in Seq(Nat)
    BY <1>1, <1>4
  <2>3. n \in 1 .. Len(cmds) /\ cmds[n] \in ProgramState
    BY <2>2 DEF Programs
  <2>4. p \in ProgramState /\ p.kind = cmds[n].kind /\ p.st = "told"
    BY <2>3 DEF ProgramState, Running
  <2>5. cmd' = [cmds EXCEPT ![n].st = "told", ![n].got = chunk]
    BY <1>4 DEF Push
  <2> HIDE DEF n
  <2>6. cmd' = [cmds EXCEPT ![n] = p]
    BY <2>3, <2>5
  <2> HIDE DEF p
  <2>7. /\ cmd' \in Seq(ProgramState) /\ Len(cmd') = Len(cmds)
        /\ cmd'[n] = p /\ \A m \in 1 .. Len(cmds) : m # n => cmd'[m] = cmds[m]
    BY <2>3, <2>4, <2>6, ChangeOne
  <2>8. \A m \in Programs : cmd'[m].kind = cmd[m].kind /\ (m # n => cmd'[m].st = cmd[m].st)
    BY <2>2, <2>4, <2>7 DEF Programs
  <2>9. Becomes(n, "told")
    BY <1>2, <2>4, <2>7, <2>8, Zenon DEF Becomes
  <2>10. Marks(chunk) \in Seq(Mark)
    BY MarksType
  <2>11. taken' \in Seq(Mark)
    BY <1>1, <2>1, <2>10
  <2> QED
    BY <1>1, <1>4, <2>1, <2>2, <2>9, <2>11 DEF n
<1> QED
  BY <1>3, <1>4

(* TtyIn.rd                                                                *)
LEMMA RdBecomes ==
  ASSUME Typed, NEW n \in Programs, Rd(n)
  PROVE  /\ wait' \in Seq(Nat) /\ q' \in Seq(Seq(Key)) /\ taken' \in Seq(Mark)
         /\ \/ Becomes(n, "read") /\ wait' = Append(wait, n)
            \/ Becomes(n, "told") /\ wait' = wait
<1>1. /\ wait \in Seq(Nat) /\ q \in Seq(Seq(Key)) /\ taken \in Seq(Mark) /\ n \in Nat
      /\ {"read", "told"} \subseteq States /\ <<>> \in Seq(Key)
  BY DEF Typed, Programs, States, Running
<1>2. CASE q = <<>>
  <2>1. wait' = Append(wait, n) /\ cmd' = [cmd EXCEPT ![n].st = "read"] /\ q' = q /\ taken' = taken
    BY <1>2 DEF Rd
  <2>2. Becomes(n, "read")
    BY <1>1, <2>1, WriteIs
  <2> QED
    BY <1>1, <2>1, <2>2
<1>3. CASE q # <<>>
  <2>1. /\ cmd' = [cmd EXCEPT ![n].st = "told", ![n].got = Head(q)] /\ wait' = wait
        /\ q' = Tail(q) /\ taken' = taken \o Marks(Head(q))
    BY <1>3 DEF Rd
  <2>2. Head(q) \in Seq(Key) /\ Tail(q) \in Seq(Seq(Key))
    BY <1>1, <1>3
  <2>3. Becomes(n, "told")
    BY <1>1, <2>1, <2>2, WriteIs
  <2>4. Marks(Head(q)) \in Seq(Mark)
    BY <2>2, MarksType
  <2> QED
    BY <1>1, <2>1, <2>2, <2>3, <2>4
<1> QED
  BY <1>2, <1>3

(* A program that does not wait changes, and nobody begins to wait.        *)
LEMMA WaitsSame ==
  ASSUME Typed, Waits, NEW n, NEW s, Becomes(n, s), wait' = wait,
         n \in Programs => cmd[n].st # "read" /\ s # "read"
  PROVE  Waits'
<1>1. Len(cmd) \in Nat /\ Len(cmd') \in {Len(cmd), Len(cmd) + 1} /\ Len(cmd)' = Len(cmd')
  BY DEF Becomes, Typed
<1>2. \A m \in Programs' : m \in Programs \/ (m = Len(cmd) + 1 /\ cmd'[m].st = "entered")
  BY <1>1 DEF Becomes, Programs
<1>3. Programs \subseteq Programs'
  BY <1>1 DEF Programs
<1>4. Len(cmd) + 1 \notin Programs
  BY <1>1 DEF Programs
<1>5. ASSUME NEW m \in Programs'
      PROVE  cmd'[m].st = "read" <=> \E i \in DOMAIN wait : wait[i] = m
  <2>1. CASE m \in Programs
    BY <2>1 DEF Becomes, Waits
  <2>2. CASE m = Len(cmd) + 1 /\ cmd'[m].st = "entered"
    BY <1>4, <2>2 DEF Waits
  <2> QED
    BY <1>2, <2>1, <2>2
<1> QED
  BY <1>3, <1>5 DEF Waits

(* The program that has waited longest is given a chunk.                   *)
LEMMA WaitsLess ==
  ASSUME Typed, Waits, wait # <<>>, Becomes(Head(wait), "told"), wait' = Tail(wait)
  PROVE  Waits'
<1> DEFINE h == Head(wait)
<1>1. /\ Len(cmd) \in Nat /\ Len(cmd') \in {Len(cmd), Len(cmd) + 1} /\ Len(cmd)' = Len(cmd')
      /\ wait \in Seq(Nat)
  BY DEF Becomes, Typed
<1>2. \A m \in Programs' : m \in Programs \/ (m = Len(cmd) + 1 /\ cmd'[m].st = "entered")
  BY <1>1 DEF Becomes, Programs
<1>3. Programs \subseteq Programs' /\ Len(cmd) + 1 \notin Programs
  BY <1>1 DEF Programs
<1>4. /\ h = wait[1] /\ 1 \in DOMAIN wait /\ h \in Programs
      /\ \A i \in DOMAIN wait' : i \in Nat /\ i + 1 \in DOMAIN wait /\ wait'[i] = wait[i + 1] /\ i + 1 # 1
      /\ \A i \in DOMAIN wait : i # 1 => i - 1 \in DOMAIN wait' /\ wait'[i - 1] = wait[i]
  <2> DEFINE t == Tail(wait)
             z == wait
  <2>1. /\ Len(z) \in Nat /\ Len(z) >= 1 /\ h = z[1] /\ DOMAIN z = 1 .. Len(z)
        /\ DOMAIN t = 1 .. Len(z) - 1 /\ \A i \in 1 .. Len(z) - 1 : t[i] = z[i + 1]
    BY <1>1, TailIs
  <2> HIDE DEF t, z
  <2>2. 1 \in DOMAIN z /\ \A i \in DOMAIN t : i \in Nat /\ i + 1 \in DOMAIN z /\ i + 1 # 1
    BY <2>1
  <2>3. \A i \in DOMAIN z : i # 1 => i - 1 \in 1 .. Len(z) - 1 /\ (i - 1) + 1 = i
    BY <2>1
  <2>4. h \in Programs
    BY <2>1, <2>2 DEF Waits, z
  <2> HIDE DEF h
  <2> QED
    BY <2>1, <2>2, <2>3, <2>4 DEF t, z
<1>5. \A i \in DOMAIN wait, j \in DOMAIN wait : wait[i] = wait[j] => i = j
  BY DEF Waits, IsInjective
<1> HIDE DEF h
<1>6. IsInjective(wait')
  <2> SUFFICES ASSUME NEW i \in DOMAIN wait', NEW j \in DOMAIN wait', wait'[i] = wait'[j]
               PROVE  i = j
    BY DEF IsInjective
  <2>1. i + 1 = j + 1 /\ i \in Nat /\ j \in Nat
    BY <1>4, <1>5
  <2> QED
    BY <2>1
<1>7. ASSUME NEW m \in Programs'
      PROVE  cmd'[m].st = "read" <=> \E i \in DOMAIN wait' : wait'[i] = m
  <2>1. CASE m = h
    BY <1>4, <1>5, <2>1 DEF Becomes, h
  <2>2. CASE m \in Programs /\ m # h
    <3>1. cmd'[m].st = cmd[m].st
      BY <2>2 DEF Becomes, h
    <3>2. (\E i \in DOMAIN wait : wait[i] = m) <=> (\E i \in DOMAIN wait' : wait'[i] = m)
      <4>1. ASSUME NEW i \in DOMAIN wait, wait[i] = m
            PROVE  \E j \in DOMAIN wait' : wait'[j] = m
        <5>1. i # 1
          BY <1>4, <2>2, <4>1
        <5> QED
          BY <1>4, <4>1, <5>1
      <4>2. ASSUME NEW i \in DOMAIN wait', wait'[i] = m
            PROVE  \E j \in DOMAIN wait : wait[j] = m
        BY <1>4, <4>2
      <4> QED
        BY <4>1, <4>2
    <3> QED
      BY <2>2, <3>1, <3>2 DEF Waits
  <2>3. CASE m = Len(cmd) + 1 /\ cmd'[m].st = "entered"
    BY <1>3, <1>4, <2>3 DEF Waits
  <2> QED
    BY <1>2, <2>1, <2>2, <2>3
<1> QED
  BY <1>3, <1>4, <1>6, <1>7 DEF Waits

(* A program begins to wait.                                               *)
LEMMA WaitsMore ==
  ASSUME Typed, Waits, NEW n \in Programs, cmd[n].st # "read", Becomes(n, "read"),
         wait' = Append(wait, n)
  PROVE  Waits'
<1>1. /\ Len(cmd) \in Nat /\ Len(cmd') \in {Len(cmd), Len(cmd) + 1} /\ Len(cmd)' = Len(cmd')
      /\ wait \in Seq(Nat) /\ n \in Nat
  BY DEF Becomes, Typed, Programs
<1>2. \A m \in Programs' : m \in Programs \/ (m = Len(cmd) + 1 /\ cmd'[m].st = "entered")
  BY <1>1 DEF Becomes, Programs
<1>3. Programs \subseteq Programs' /\ Len(cmd) + 1 \notin Programs
  BY <1>1 DEF Programs
<1>4. /\ DOMAIN wait' = DOMAIN wait \cup {Len(wait) + 1} /\ wait'[Len(wait) + 1] = n
      /\ Len(wait) + 1 \notin DOMAIN wait
      /\ \A i \in DOMAIN wait : wait'[i] = wait[i]
  BY <1>1
<1>5. \A i \in DOMAIN wait : wait[i] # n /\ wait[i] \in Programs
  BY DEF Waits
<1>6. \A i \in DOMAIN wait, j \in DOMAIN wait : wait[i] = wait[j] => i = j
  BY DEF Waits, IsInjective
<1>7. IsInjective(wait')
  BY <1>4, <1>5, <1>6 DEF IsInjective
<1>8. ASSUME NEW m \in Programs'
      PROVE  cmd'[m].st = "read" <=> \E i \in DOMAIN wait' : wait'[i] = m
  <2>1. CASE m = n
    BY <1>4, <2>1 DEF Becomes
  <2>2. CASE m \in Programs /\ m # n
    BY <1>4, <2>2 DEF Becomes, Waits
  <2>3. CASE m = Len(cmd) + 1 /\ cmd'[m].st = "entered"
    BY <1>3, <1>4, <1>5, <2>3
  <2> QED
    BY <1>2, <2>1, <2>2, <2>3
<1> QED
  BY <1>3, <1>4, <1>5, <1>7, <1>8 DEF Waits

(* The programs after a step: those before, and perhaps one that was       *)
(* entered.                                                                *)
LEMMA ProgramsAfter ==
  ASSUME Typed, NEW n, NEW s, Becomes(n, s)
  PROVE  /\ Programs \subseteq Programs'
         /\ \A m \in Programs' : m \in Programs \/ (m = Len(cmd) + 1 /\ cmd'[m].st = "entered")
         /\ Len(cmd) + 1 \notin Programs /\ 0 \notin Programs /\ 0 \notin Programs'
<1>1. Len(cmd) \in Nat /\ Len(cmd') \in {Len(cmd), Len(cmd) + 1} /\ Len(cmd)' = Len(cmd')
  BY DEF Becomes, Typed
<1> QED
  BY <1>1 DEF Becomes, Programs

(* What was entered stays so until it is run.                              *)
LEMMA EnteredSame ==
  ASSUME Typed, Entered, NEW n, NEW s, Becomes(n, s), todo' = todo,
         n \in Programs => cmd[n].st # "entered"
  PROVE  Entered'
<1>1. Programs \subseteq Programs'
  BY ProgramsAfter
<1>2. \A m \in Programs : cmd[m].st = "entered" => cmd'[m].st = "entered"
  BY DEF Becomes
<1>3. \A m \in Programs : cmd'[m].kind = cmd[m].kind
  BY DEF Becomes
<1>4. \A i \in DOMAIN todo["nested"] : todo["nested"][i] \in Programs
  BY DEF Entered, Shells
<1> QED
  BY <1>1, <1>2, <1>3, <1>4 DEF Entered

(* A command is entered.                                                   *)
LEMMA EnteredMore ==
  ASSUME Typed, Entered, NEW n, NEW s, Becomes(n, s), NEW h \in Shells,
         Len(cmd') = Len(cmd) + 1, todo' = [todo EXCEPT ![h] = Append(@, Len(cmd) + 1)],
         n \in Programs => cmd[n].st # "entered",
         h = "nested" => cmd'[Len(cmd) + 1].kind \notin {"thsh", "bg"}
  PROVE  Entered'
<1> DEFINE z == Len(cmd) + 1
<1>1. Programs \subseteq Programs' /\ z \notin Programs
  BY ProgramsAfter
<1>2. z \in Programs' /\ cmd'[z].st = "entered" /\ z \in Nat
  BY DEF Becomes, Programs, Typed
<1>3. \A m \in Programs : (cmd[m].st = "entered" => cmd'[m].st = "entered") /\ cmd'[m].kind = cmd[m].kind
  BY DEF Becomes
<1>4. /\ \A g \in Shells : todo[g] \in Seq(Nat) /\ DOMAIN todo[g] = 1 .. Len(todo[g])
      /\ \A g \in Shells : g # h => todo'[g] = todo[g]
      /\ todo'[h] = Append(todo[h], z)
  BY DEF Typed
<1> HIDE DEF z
<1>5. /\ DOMAIN todo'[h] = DOMAIN todo[h] \cup {Len(todo[h]) + 1}
      /\ \A i \in DOMAIN todo[h] : todo'[h][i] = todo[h][i] /\ i # Len(todo[h]) + 1
      /\ todo'[h][Len(todo[h]) + 1] = z
  BY <1>2, <1>4
<1>6. \A g \in Shells : \A i \in DOMAIN todo[g] : todo[g][i] \in Programs /\ cmd[todo[g][i]].st = "entered"
  BY DEF Entered
<1>7. \A g \in Shells : \A i \in DOMAIN todo'[g] :
        \/ i \in DOMAIN todo[g] /\ todo'[g][i] = todo[g][i]
        \/ g = h /\ i = Len(todo[h]) + 1 /\ todo'[g][i] = z
  BY <1>4, <1>5
<1>8. \A g \in Shells : IsInjective(todo'[g])
  <2> SUFFICES ASSUME NEW g \in Shells, NEW i \in DOMAIN todo'[g], NEW j \in DOMAIN todo'[g],
                      todo'[g][i] = todo'[g][j]
               PROVE  i = j
    BY DEF IsInjective
  <2>1. \A k, l \in DOMAIN todo[g] : todo[g][k] = todo[g][l] => k = l
    BY DEF Entered, IsInjective
  <2> QED
    BY <1>1, <1>6, <1>7, <2>1
<1>9. \A g \in Shells : \A i \in DOMAIN todo'[g] :
        todo'[g][i] \in Programs' /\ cmd'[todo'[g][i]].st = "entered"
  <2> SUFFICES ASSUME NEW g \in Shells, NEW i \in DOMAIN todo'[g]
               PROVE  todo'[g][i] \in Programs' /\ cmd'[todo'[g][i]].st = "entered"
    OBVIOUS
  <2>1. CASE i \in DOMAIN todo[g] /\ todo'[g][i] = todo[g][i]
    BY <1>1, <1>3, <1>6, <2>1
  <2>2. CASE todo'[g][i] = z
    BY <1>2, <2>2
  <2> QED
    BY <1>7, <2>1, <2>2
<1>10. \A i \in DOMAIN todo'["top"], j \in DOMAIN todo'["nested"] : todo'["top"][i] # todo'["nested"][j]
  <2>1. \A i \in DOMAIN todo["top"], j \in DOMAIN todo["nested"] : todo["top"][i] # todo["nested"][j]
    BY DEF Entered
  <2>2. {"top", "nested"} \subseteq Shells
    BY DEF Shells
  <2> QED
    BY <1>1, <1>6, <1>7, <2>1, <2>2
<1>11. \A i \in DOMAIN todo'["nested"] : cmd'[todo'["nested"][i]].kind \notin {"thsh", "bg"}
  <2>1. \A i \in DOMAIN todo["nested"] : cmd[todo["nested"][i]].kind \notin {"thsh", "bg"}
    BY DEF Entered
  <2>2. "nested" \in Shells
    BY DEF Shells
  <2> QED
    BY <1>3, <1>6, <1>7, <2>1, <2>2 DEF z
<1> QED
  BY <1>8, <1>9, <1>10, <1>11 DEF Entered

(* The first of the entered commands of a shell is run.                    *)
LEMMA EnteredLess ==
  ASSUME Typed, Entered, NEW h \in Shells, todo[h] # <<>>, Becomes(Head(todo[h]), "run"),
         todo' = [todo EXCEPT ![h] = Tail(@)]
  PROVE  /\ Entered' /\ Head(todo[h]) \in Programs /\ cmd[Head(todo[h])].st = "entered"
         /\ h = "nested" => cmd[Head(todo[h])].kind \notin {"thsh", "bg"}
<1> DEFINE n == Head(todo[h])
<1>1. Programs \subseteq Programs'
  BY ProgramsAfter
<1>2. /\ \A g \in Shells : todo[g] \in Seq(Nat)
      /\ \A g \in Shells : g # h => todo'[g] = todo[g]
      /\ todo'[h] = Tail(todo[h])
  BY DEF Typed
<1>3. /\ n = todo[h][1] /\ 1 \in DOMAIN todo[h]
      /\ \A i \in DOMAIN todo'[h] :
           i \in Nat /\ i + 1 \in DOMAIN todo[h] /\ todo'[h][i] = todo[h][i + 1] /\ i + 1 # 1
  <2> DEFINE t == todo[h]
  <2>1. t \in Seq(Nat) /\ t # <<>> /\ todo'[h] = Tail(t)
    BY <1>2
  <2> HIDE DEF t
  <2>2. /\ Head(t) = t[1] /\ 1 \in DOMAIN t
        /\ \A i \in DOMAIN Tail(t) :
             i \in Nat /\ i + 1 \in DOMAIN t /\ Tail(t)[i] = t[i + 1] /\ i + 1 # 1
    BY <2>1
  <2> QED
    BY <2>1, <2>2 DEF t
<1>4. \A g \in Shells : \A i \in DOMAIN todo[g] : todo[g][i] \in Programs /\ cmd[todo[g][i]].st = "entered"
  BY DEF Entered
<1>5. \A g \in Shells : \A i, j \in DOMAIN todo[g] : todo[g][i] = todo[g][j] => i = j
  BY DEF Entered, IsInjective
<1>6. \A i \in DOMAIN todo["top"], j \in DOMAIN todo["nested"] : todo["top"][i] # todo["nested"][j]
  BY DEF Entered
<1>7. \A i \in DOMAIN todo["nested"] : cmd[todo["nested"][i]].kind \notin {"thsh", "bg"}
  BY DEF Entered
<1>8. Becomes(n, "run")
  OBVIOUS
<1> HIDE DEF n
<1>9. \A g \in Shells : \A i \in DOMAIN todo'[g] : \E j \in DOMAIN todo[g] : todo'[g][i] = todo[g][j]
  BY <1>2, <1>3
<1>10. \A g \in Shells : \A i \in DOMAIN todo'[g] : todo'[g][i] # n
  <2> SUFFICES ASSUME NEW g \in Shells, NEW i \in DOMAIN todo'[g] PROVE todo'[g][i] # n
    OBVIOUS
  <2>1. CASE g = h
    BY <1>3, <1>5, <2>1
  <2>2. CASE g # h
    BY <1>2, <1>3, <1>6, <2>2 DEF Shells
  <2> QED
    BY <2>1, <2>2
<1>11. \A m \in Programs : (m # n => cmd'[m].st = cmd[m].st) /\ cmd'[m].kind = cmd[m].kind
  BY <1>8 DEF Becomes
<1>12. \A g \in Shells : IsInjective(todo'[g])
  <2> SUFFICES ASSUME NEW g \in Shells, NEW i \in DOMAIN todo'[g], NEW j \in DOMAIN todo'[g],
                      todo'[g][i] = todo'[g][j]
               PROVE  i = j
    BY DEF IsInjective
  <2>1. CASE g = h
    <3>1. /\ i \in Nat /\ i + 1 \in DOMAIN todo[h] /\ todo'[h][i] = todo[h][i + 1]
          /\ j \in Nat /\ j + 1 \in DOMAIN todo[h] /\ todo'[h][j] = todo[h][j + 1]
      BY <1>3, <2>1
    <3>2. i + 1 = j + 1
      BY <1>5, <2>1, <3>1
    <3> QED
      BY <3>1, <3>2
  <2>2. CASE g # h
    BY <1>2, <1>5, <2>2
  <2> QED
    BY <2>1, <2>2
<1>13. \A g \in Shells : \A i \in DOMAIN todo'[g] :
         todo'[g][i] \in Programs' /\ cmd'[todo'[g][i]].st = "entered"
  BY <1>1, <1>4, <1>9, <1>10, <1>11
<1>14. "top" \in Shells /\ "nested" \in Shells
  BY DEF Shells
<1>15. \A i \in DOMAIN todo'["top"], j \in DOMAIN todo'["nested"] : todo'["top"][i] # todo'["nested"][j]
  BY <1>6, <1>9, <1>14
<1>16. \A i \in DOMAIN todo'["nested"] : cmd'[todo'["nested"][i]].kind \notin {"thsh", "bg"}
  BY <1>4, <1>7, <1>9, <1>11, <1>14
<1>17. n \in Programs /\ cmd[n].st = "entered" /\ (h = "nested" => cmd[n].kind \notin {"thsh", "bg"})
  BY <1>3, <1>4, <1>7
<1> QED
  BY <1>12, <1>13, <1>15, <1>16, <1>17 DEF Entered, n

(* A program that runs goes on running, in front of the same shells.       *)
LEMMA FrontSame ==
  ASSUME Typed, Foremost, NEW n, NEW s, Becomes(n, s), UNCHANGED <<fg, login, inherited>>,
         n \in Programs => cmd[n].st \in Running /\ s \in Running,
         n \in Programs /\ cmd[n].kind = "thsh" /\ s \in {"read", "told"} =>
           login = n /\ fg["nested"] = 0 /\ todo["nested"] = <<>>,
         todo'["nested"] = todo["nested"] \/ (n \in Programs /\ n = login /\ s = "run")
  PROVE  Foremost'
<1>1. /\ Programs \subseteq Programs' /\ 0 \notin Programs
      /\ \A m \in Programs' : m \in Programs \/ cmd'[m].st = "entered"
  BY ProgramsAfter
<1>2. \A m \in Programs : /\ cmd'[m].kind = cmd[m].kind
                          /\ cmd'[m].st = cmd[m].st \/ (m = n /\ cmd'[m].st = s)
  BY DEF Becomes
<1>3. \A m \in Programs : cmd'[m].st \in Running <=> cmd[m].st \in Running
  BY <1>2
<1>4. \A h \in Shells :
        fg[h] # 0 => fg[h] \in Programs' /\ cmd'[fg[h]].st \in Running /\ cmd'[fg[h]].kind # "bg"
  BY <1>1, <1>2, <1>3 DEF Foremost
<1>5. \A m \in Programs' :
        cmd'[m].st \in Running /\ cmd'[m].kind # "bg" => m = fg["top"] \/ m = fg["nested"]
  BY <1>1, <1>2, <1>3 DEF Foremost, Running
<1>6. /\ login # 0 => login = fg["top"] /\ cmd'[login].kind = "thsh" /\ inherited = "cooked"
      /\ fg["nested"] # 0 => cmd'[fg["nested"]].kind # "thsh"
  BY <1>2 DEF Foremost, Shells
<1>7. login = 0 => fg["nested"] = 0 /\ todo'["nested"] = <<>>
  BY <1>1 DEF Foremost
<1>8. \A m \in Programs' :
        cmd'[m].kind = "thsh" /\ cmd'[m].st \in {"read", "told"} =>
          login = m /\ fg["nested"] = 0 /\ todo'["nested"] = <<>>
  <2> SUFFICES ASSUME NEW m \in Programs', cmd'[m].kind = "thsh", cmd'[m].st \in {"read", "told"}
               PROVE  login = m /\ fg["nested"] = 0 /\ todo'["nested"] = <<>>
    OBVIOUS
  <2>1. m \in Programs /\ cmd[m].kind = "thsh"
    BY <1>1, <1>2
  <2>2. CASE m = n /\ cmd'[m].st = s
    BY <2>1, <2>2
  <2>3. CASE cmd'[m].st = cmd[m].st
    <3>1. login = m /\ fg["nested"] = 0 /\ todo["nested"] = <<>>
      BY <2>1, <2>3 DEF Foremost
    <3>2. CASE m = n
      <4>1. cmd'[m].st = s
        BY <2>1, <3>2 DEF Becomes
      <4> QED
        BY <2>2, <3>2, <4>1
    <3>3. CASE m # n
      BY <3>1, <3>3
    <3> QED
      BY <3>2, <3>3
  <2> QED
    BY <1>2, <2>1, <2>2, <2>3
<1> QED
  BY <1>4, <1>5, <1>6, <1>7, <1>8 DEF Foremost

(* A program that is not put to rest, or that leaves the modes alone,      *)
(* finds them as it did.                                                   *)
LEMMA ModedSame ==
  ASSUME Typed, Foremost, Moded, NEW n, NEW s, Becomes(n, s), UNCHANGED <<fg, login, modes>>,
         n \in Programs => s # "run" \/ cmd[n].kind \notin {"tui", "secret"}
  PROVE  Moded'
<1>1. ASSUME NEW h \in Shells, fg[h] # 0, AtRest(fg[h])'
      PROVE  AtRest(fg[h])
  <2>1. fg[h] \in Programs
    BY <1>1 DEF Foremost
  <2>2. fg'[h] = fg[h]
    OBVIOUS
  <2>3. cmd'[fg[h]].st = "run" \/ cmd'[fg[h]].kind \notin {"tui", "secret"}
    BY <1>1 DEF AtRest
  <2>4. cmd[fg[h]].st = "run" \/ cmd[fg[h]].kind \notin {"tui", "secret"}
    <3>1. CASE fg[h] = n
      BY <2>1, <2>3, <3>1 DEF Becomes
    <3>2. CASE fg[h] # n
      BY <2>1, <2>3, <3>2 DEF Becomes
    <3> QED
      BY <3>1, <3>2
  <2> QED
    BY <2>4 DEF AtRest
<1> QED
  BY <1>1 DEF Moded, Busy, AtRest

(* A command is entered, behind what the step has done to program n.       *)
LEMMA EntersBecomes ==
  ASSUME Typed, NEW n, NEW s, NEW cmds \in Seq(ProgramState), Len(cmds) = Len(cmd),
         \A m \in Programs : cmds[m].kind = cmd[m].kind /\ (m # n => cmds[m].st = cmd[m].st),
         n \in Programs => cmds[n].st = s,
         NEW kind \in Kinds, NEW h \in Shells, Enters(h, kind, cmds)
  PROVE  /\ Becomes(n, s) /\ Len(cmd') = Len(cmd) + 1 /\ cmd'[Len(cmd) + 1].kind = kind
         /\ todo' = [todo EXCEPT ![h] = Append(@, Len(cmd) + 1)]
         /\ todo' \in [Shells -> Seq(Nat)]
<1> DEFINE p == Command(kind)
<1>1. p \in ProgramState /\ p.kind = kind /\ p.st = "entered"
  <2>1. kind \in AllKinds
    BY ConstantsAssumption
  <2>2. <<>> \in Seq(Key) /\ FALSE \in BOOLEAN /\ "entered" \in Running \cup {"entered", "ended"}
    OBVIOUS
  <2> QED
    BY <2>1, <2>2 DEF Command, ProgramState
<1>2. cmd' = Append(cmds, p) /\ todo' = [todo EXCEPT ![h] = Append(@, Len(cmd) + 1)]
  BY Zenon DEF Enters
<1> HIDE DEF p
<1>3. /\ cmd' \in Seq(ProgramState) /\ Len(cmd') = Len(cmd) + 1 /\ cmd'[Len(cmd) + 1] = p
      /\ \A m \in 1 .. Len(cmd) : cmd'[m] = cmds[m]
  BY <1>1, <1>2
<1>4. Becomes(n, s)
  <2>1. \A m \in Programs : cmd'[m] = cmds[m]
    BY <1>3 DEF Programs
  <2> QED
    BY <1>1, <1>3, <2>1, Zenon DEF Becomes
<1>5. todo' \in [Shells -> Seq(Nat)]
  <2>1. todo \in [Shells -> Seq(Nat)] /\ Len(cmd) + 1 \in Nat
    BY DEF Typed
  <2>2. Append(todo[h], Len(cmd) + 1) \in Seq(Nat)
    BY <2>1
  <2> QED
    BY <1>2, <2>1, <2>2
<1> QED
  BY <1>1, <1>2, <1>3, <1>4, <1>5

-----------------------------------------------------------------------------
(* Every step keeps the invariant.                                         *)

(* A key that the line editor of the session gets.                         *)
LEMMA EditorKeyKeeps ==
  ASSUME TermInv, typed < MaxKeys, typed' = typed + 1, eof' \in BOOLEAN,
         NEW k \in Keys, EditorKey(k)
  PROVE  TermInv'
<1>1. Typed /\ Waits /\ Entered /\ Foremost /\ Moded /\ Ordered /\ typed \in 0 .. MaxKeys
  BY DEF TermInv, Typed
<1>2. /\ modes' = modes /\ line' = line /\ q' = q /\ wait' = wait /\ saving' = saving /\ fg' = fg
      /\ login' = login /\ inherited' = inherited /\ taken' = taken
      /\ Edits("top", k) /\ live' = ~Leaves("top", k) /\ ~Busy
      /\ IF k = "enter" THEN \E kind \in Kinds : Enters("top", kind, cmd)
                        ELSE UNCHANGED <<cmd, todo>>
  BY DEF EditorKey, tty
<1>3. 0 \notin Programs /\ "top" \in Shells /\ MaxKeys \in Nat
  BY ConstantsAssumption DEF Programs, Shells
<1>4. /\ Becomes(0, "run") /\ Entered' /\ todo' \in [Shells -> Seq(Nat)]
      /\ todo'["nested"] = todo["nested"]
  <2>1. CASE UNCHANGED <<cmd, todo>>
    <3>1. Becomes(0, "run")
      BY <1>1, <2>1, NobodyChanges
    <3> QED
      BY <1>1, <1>3, <2>1, <3>1, EnteredSame DEF Typed
  <2>2. ASSUME NEW kind \in Kinds, Enters("top", kind, cmd)
        PROVE  /\ Becomes(0, "run") /\ Entered' /\ todo' \in [Shells -> Seq(Nat)]
               /\ todo'["nested"] = todo["nested"]
    <3>1. cmd \in Seq(ProgramState)
      BY <1>1 DEF Typed
    <3>2. /\ Becomes(0, "run") /\ Len(cmd') = Len(cmd) + 1
          /\ todo' = [todo EXCEPT !["top"] = Append(@, Len(cmd) + 1)]
          /\ todo' \in [Shells -> Seq(Nat)]
      BY <1>1, <1>3, <2>2, <3>1, EntersBecomes
    <3>3. Entered'
      BY <1>1, <1>3, <3>2, EnteredMore
    <3>4. todo'["nested"] = todo["nested"]
      BY <1>1, <3>2 DEF Typed, Shells
    <3> QED
      BY <3>2, <3>3, <3>4
  <2> QED
    BY <1>2, <2>1, <2>2
<1>5. Typed'
  <2>1. live' \in BOOLEAN
    BY <1>2
  <2>2. edit' \in [Shells -> BOOLEAN]
    BY <1>1, <1>2 DEF Edits, Typed
  <2>3. typed' \in 0 .. MaxKeys
    BY <1>1, <1>3
  <2>4. cmd' \in Seq(ProgramState)
    BY <1>4 DEF Becomes
  <2> QED
    BY <1>1, <1>2, <1>4, <2>1, <2>2, <2>3, <2>4 DEF Typed
<1>6. Waits'
  BY <1>1, <1>2, <1>3, <1>4, WaitsSame
<1>7. Foremost'
  BY <1>1, <1>2, <1>3, <1>4, FrontSame
<1>8. Moded'
  BY <1>1, <1>2, <1>3, <1>4, ModedSame
<1>9. Ordered'
  BY <1>1, <1>2, <1>3, StillOrdered
<1> QED
  BY <1>4, <1>5, <1>6, <1>7, <1>8, <1>9 DEF TermInv

(* What a key gives to the terminal of a busy session.                     *)
LEMMA FeedIs ==
  ASSUME TermInv, NEW key \in Key, Feed(key), Busy
  PROVE  /\ line' \in Seq(Key) /\ wait' \in Seq(Nat) /\ q' \in Seq(Seq(Key)) /\ taken' \in Seq(Mark)
         /\ modes' = modes
         /\ \/ Becomes(0, "told") /\ wait' = wait
            \/ wait # <<>> /\ Becomes(Head(wait), "told") /\ wait' = Tail(wait)
<1>1. /\ Typed /\ Waits /\ Foremost /\ cmd \in Seq(ProgramState) /\ line \in Seq(Key)
      /\ wait \in Seq(Nat) /\ q \in Seq(Seq(Key)) /\ taken \in Seq(Mark)
  BY DEF TermInv, Typed
<1> DEFINE k == key[2]
<1>2. <<>> \in Seq(Key) /\ <<key>> \in Seq(Key) /\ Append(line, key) \in Seq(Key)
  BY <1>1
<1>3. CASE k = "intr" /\ modes # "raw" /\ Signal
  <2> DEFINE f == fg["top"]
             p == [cmd[f] EXCEPT !.killed = TRUE]
             cmds == [cmd EXCEPT ![f] = p]
  <2>1. f \in 1 .. Len(cmd) /\ cmd[f] \in ProgramState
    BY <1>1 DEF Foremost, Busy, Shells, Programs
  <2>2. p \in ProgramState /\ p.kind = cmd[f].kind /\ p.st = cmd[f].st
    BY <2>1 DEF ProgramState
  <2>3. line' = <<>> /\ modes' = modes /\ Push([cmd EXCEPT ![f].killed = TRUE], <<>>)
    BY <1>3 DEF Signal
  <2> HIDE DEF f
  <2>4. [cmd EXCEPT ![f].killed = TRUE] = cmds
    OBVIOUS
  <2> HIDE DEF p
  <2>5. /\ cmds \in Seq(ProgramState) /\ Len(cmds) = Len(cmd)
        /\ cmds[f] = p /\ \A m \in 1 .. Len(cmd) : m # f => cmds[m] = cmd[m]
    BY <1>1, <2>1, <2>2, ChangeOne
  <2>6. Push(cmds, <<>>)
    BY <2>3, <2>4
  <2> HIDE DEF cmds
  <2>7. \A m \in Programs : cmds[m].kind = cmd[m].kind /\ cmds[m].st = cmd[m].st
    BY <2>2, <2>5 DEF Programs
  <2> QED
    BY <1>1, <1>2, <2>3, <2>5, <2>6, <2>7, PushBecomes
<1>4. CASE \E chunk \in {<<key>>, Append(line, key), line} : Push(cmd, chunk) /\ line' \in {line, <<>>} /\ modes' = modes
  <2>1. PICK chunk \in {<<key>>, Append(line, key), line} :
          Push(cmd, chunk) /\ line' \in {line, <<>>} /\ modes' = modes
    BY <1>4
  <2>2. chunk \in Seq(Key) /\ line' \in Seq(Key)
    BY <1>1, <1>2, <2>1
  <2> QED
    BY <1>1, <2>1, <2>2, PushBecomes
<1>5. CASE line' = Append(line, key) /\ UNCHANGED <<modes, q, wait, cmd, taken>>
  BY <1>1, <1>2, <1>5, NobodyChanges
<1> QED
  BY <1>3, <1>4, <1>5 DEF Feed

(* A program that waits runs, in front or in the background; a shell waits *)
(* only for its own keys.                                                  *)
LEMMA WaiterIs ==
  ASSUME TermInv, NEW n \in Programs, cmd[n].st = "read"
  PROVE  cmd[n].kind = "thsh" => login = n /\ fg["nested"] = 0 /\ todo["nested"] = <<>>
  BY DEF TermInv, Foremost

(* A key that the terminal gets.                                           *)
LEMMA TerminalKeyKeeps ==
  ASSUME TermInv, typed < MaxKeys, typed' = typed + 1, eof' \in BOOLEAN,
         NEW k \in Keys, TerminalKey(k)
  PROVE  TermInv'
<1>1. Typed /\ Waits /\ Entered /\ Foremost /\ Moded /\ Ordered /\ typed \in 0 .. MaxKeys
  BY DEF TermInv, Typed
<1>2. PICK b \in BOOLEAN : b = (modes = "cooked")
  OBVIOUS
<1> DEFINE key == <<typed + 1, k, b>>
<1>3. Feed(key) /\ Busy /\ UNCHANGED <<live, saving, todo, edit, fg, login, inherited>>
  BY <1>2 DEF TerminalKey
<1>4. key \in Key
  BY <1>1, KeyIs
<1>5. Ordered'
  BY <1>1, <1>2, <1>3, FeedOrdered
<1> HIDE DEF key
<1>6. /\ line' \in Seq(Key) /\ wait' \in Seq(Nat) /\ q' \in Seq(Seq(Key)) /\ taken' \in Seq(Mark)
      /\ modes' = modes
      /\ \/ Becomes(0, "told") /\ wait' = wait
         \/ wait # <<>> /\ Becomes(Head(wait), "told") /\ wait' = Tail(wait)
  BY <1>3, <1>4, FeedIs
<1>7. 0 \notin Programs /\ MaxKeys \in Nat
  BY ConstantsAssumption DEF Programs
<1>8. Typed'
  <2>1. typed' \in 0 .. MaxKeys
    BY <1>1, <1>7
  <2>2. cmd' \in Seq(ProgramState)
    BY <1>6 DEF Becomes
  <2> QED
    BY <1>1, <1>3, <1>6, <2>1, <2>2 DEF Typed
<1>9. CASE Becomes(0, "told") /\ wait' = wait
  <2>1. Waits'
    BY <1>1, <1>7, <1>9, WaitsSame
  <2>2. Entered'
    BY <1>1, <1>3, <1>7, <1>9, EnteredSame
  <2>3. Foremost'
    BY <1>1, <1>3, <1>7, <1>9, FrontSame
  <2>4. Moded'
    BY <1>1, <1>3, <1>6, <1>7, <1>9, ModedSame
  <2> QED
    BY <1>5, <1>8, <2>1, <2>2, <2>3, <2>4 DEF TermInv
<1>10. CASE wait # <<>> /\ Becomes(Head(wait), "told") /\ wait' = Tail(wait)
  <2> DEFINE n == Head(wait)
  <2>1. n = wait[1] /\ 1 \in DOMAIN wait
    BY <1>1, <1>10 DEF Typed
  <2>2. n \in Programs /\ cmd[n].st = "read"
    BY <1>1, <2>1 DEF Waits
  <2>3. Waits'
    BY <1>1, <1>10, WaitsLess
  <2>4. Becomes(n, "told")
    BY <1>10
  <2> HIDE DEF n
  <2>5. cmd[n].kind = "thsh" => login = n /\ fg["nested"] = 0 /\ todo["nested"] = <<>>
    BY <2>2, WaiterIs
  <2>6. Entered'
    BY <1>1, <1>3, <2>2, <2>4, EnteredSame
  <2>7. cmd[n].st \in Running /\ "told" \in Running /\ todo'["nested"] = todo["nested"]
    BY <1>3, <2>2 DEF Running
  <2>8. Foremost'
    BY <1>1, <1>3, <2>4, <2>5, <2>7, FrontSame
  <2>9. Moded'
    BY <1>1, <1>3, <1>6, <2>4, ModedSame
  <2> QED
    BY <1>5, <1>8, <2>3, <2>6, <2>8, <2>9 DEF TermInv
<1> QED
  BY <1>6, <1>9, <1>10

(* The keyboard.                                                           *)
LEMMA TypeKeeps ==
  ASSUME TermInv, Type
  PROVE  TermInv'
<1>1. typed < MaxKeys /\ typed' = typed + 1
  BY DEF Type
<1>2. PICK k \in Keys :
        /\ EditorKey(k) \/ TerminalKey(k)
        /\ eof' = (eof \/ (Busy /\ k = "eof" /\ modes = "cooked" /\ line = <<>>))
  BY DEF Type
<1>3. eof' \in BOOLEAN
  BY <1>2
<1> QED
  BY <1>1, <1>2, <1>3, EditorKeyKeeps, TerminalKeyKeeps

(* A program that waits for keys, or is given them.                        *)
LEMMA ReadKeeps ==
  ASSUME TermInv, NEW n \in Programs, Read(n)
  PROVE  TermInv'
<1>1. Typed /\ Waits /\ Entered /\ Foremost /\ Moded /\ Ordered
  BY DEF TermInv
<1>2. /\ cmd[n].st \in {"run", "set"}
      /\ cmd[n].kind = "thsh" => login = n /\ fg["nested"] = 0 /\ todo["nested"] = <<>>
  BY DEF Read, Is
<1>3. /\ modes' = modes /\ line' = line /\ saving' = saving /\ fg' = fg /\ live' = live
      /\ todo' = todo /\ edit' = edit /\ login' = login /\ inherited' = inherited
      /\ typed' = typed /\ eof' = eof /\ Rd(n)
  BY DEF Read, Others
<1>4. /\ wait' \in Seq(Nat) /\ q' \in Seq(Seq(Key)) /\ taken' \in Seq(Mark)
      /\ \/ Becomes(n, "read") /\ wait' = Append(wait, n)
         \/ Becomes(n, "told") /\ wait' = wait
  BY <1>1, <1>3, RdBecomes
<1>5. PICK s \in {"read", "told"} : Becomes(n, s)
  BY <1>4
<1>6. Typed'
  <2>1. cmd' \in Seq(ProgramState)
    BY <1>5 DEF Becomes
  <2> QED
    BY <1>1, <1>3, <1>4, <2>1 DEF Typed
<1>7. Waits'
  BY <1>1, <1>2, <1>4, WaitsSame, WaitsMore
<1>8. Entered'
  BY <1>1, <1>2, <1>3, <1>5, EnteredSame
<1>9. Foremost'
  <2>1. cmd[n].st \in Running /\ s \in Running /\ todo'["nested"] = todo["nested"]
    BY <1>2, <1>3 DEF Running
  <2> QED
    BY <1>1, <1>2, <1>3, <1>5, <2>1, FrontSame
<1>10. Moded'
  BY <1>1, <1>3, <1>5, ModedSame
<1>11. Ordered'
  BY <1>1, <1>3, RdOrdered
<1> QED
  BY <1>6, <1>7, <1>8, <1>9, <1>10, <1>11 DEF TermInv

(* A program that reads to the end of its input.                           *)
LEMMA ReadOnKeeps ==
  ASSUME TermInv, NEW n \in Programs, ReadOn(n)
  PROVE  TermInv'
<1>1. Typed /\ Waits /\ Entered /\ Foremost /\ Moded /\ Ordered
  BY DEF TermInv
<1>2. cmd[n].st = "told" /\ cmd[n].kind \in {"cat", "bg"}
  BY DEF ReadOn, Is
<1>3. /\ modes' = modes /\ line' = line /\ saving' = saving /\ fg' = fg /\ live' = live
      /\ todo' = todo /\ edit' = edit /\ login' = login /\ inherited' = inherited
      /\ typed' = typed /\ eof' = eof /\ wait' = wait /\ q' = q /\ taken' = taken
      /\ cmd' = [cmd EXCEPT ![n].st = "run", ![n].got = <<>>]
  BY DEF ReadOn, Others, tty
<1>4. Becomes(n, "run")
  <2>1. "run" \in States /\ <<>> \in Seq(Key)
    BY DEF States, Running
  <2> QED
    BY <1>1, <1>3, <2>1, WriteIs
<1>5. Typed'
  <2>1. cmd' \in Seq(ProgramState)
    BY <1>4 DEF Becomes
  <2> QED
    BY <1>1, <1>3, <2>1 DEF Typed
<1>6. Waits'
  BY <1>1, <1>2, <1>3, <1>4, WaitsSame
<1>7. Entered'
  BY <1>1, <1>2, <1>3, <1>4, EnteredSame
<1>8. Foremost'
  <2>1. cmd[n].st \in Running /\ "run" \in Running /\ todo'["nested"] = todo["nested"]
    BY <1>2, <1>3 DEF Running
  <2> QED
    BY <1>1, <1>2, <1>3, <1>4, <2>1, FrontSame
<1>9. Moded'
  BY <1>1, <1>2, <1>3, <1>4, ModedSame
<1>10. Ordered'
  <2>1. typed' \in Nat /\ typed <= typed'
    BY <1>1, <1>3, ConstantsAssumption DEF Typed
  <2> QED
    BY <1>1, <1>3, <2>1, StillOrdered
<1> QED
  BY <1>5, <1>6, <1>7, <1>8, <1>9, <1>10 DEF TermInv

(* A program changes the modes: it is the one in front, and not the shell. *)
LEMMA SetModesKeeps ==
  ASSUME TermInv, NEW n \in Programs, SetModes(n)
  PROVE  TermInv'
<1>1. Typed /\ Waits /\ Entered /\ Foremost /\ Moded /\ Ordered
  BY DEF TermInv
<1>2. cmd[n].st = "run" /\ cmd[n].kind \in {"tui", "secret"}
  BY DEF SetModes, Is
<1>3. /\ saving' = saving /\ fg' = fg /\ live' = live
      /\ todo' = todo /\ edit' = edit /\ login' = login /\ inherited' = inherited
      /\ typed' = typed /\ eof' = eof /\ wait' = wait /\ taken' = taken
      /\ cmd' = [cmd EXCEPT ![n].st = "set"]
      /\ modes' \in {"cbreak", "raw"} /\ line' \in {line, <<>>} /\ q' \in {q, <<>>}
  BY DEF SetModes, Others
<1>4. Becomes(n, "set")
  <2>1. "set" \in States /\ <<>> \in Seq(Key)
    BY DEF States, Running
  <2> QED
    BY <1>1, <1>3, <2>1, WriteIs
<1>5. Typed'
  <2>1. cmd' \in Seq(ProgramState)
    BY <1>4 DEF Becomes
  <2>2. line' \in Seq(Key) /\ q' \in Seq(Seq(Key)) /\ modes' \in Modes
    <3>1. line \in Seq(Key) /\ q \in Seq(Seq(Key)) /\ <<>> \in Seq(Key) /\ <<>> \in Seq(Seq(Key))
      BY <1>1 DEF Typed
    <3>2. line' \in Seq(Key) /\ q' \in Seq(Seq(Key))
      BY <1>3, <3>1, Zenon
    <3> QED
      BY <1>3, <3>2 DEF Modes
  <2> QED
    BY <1>1, <1>3, <2>1, <2>2 DEF Typed
<1>6. Waits'
  BY <1>1, <1>2, <1>3, <1>4, WaitsSame
<1>7. Entered'
  BY <1>1, <1>2, <1>3, <1>4, EnteredSame
<1>8. Foremost'
  <2>1. cmd[n].st \in Running /\ "set" \in Running /\ todo'["nested"] = todo["nested"]
    BY <1>2, <1>3 DEF Running
  <2> QED
    BY <1>1, <1>2, <1>3, <1>4, <2>1, FrontSame
<1>9. Moded'
  <2>1. 0 \notin Programs /\ Shells = {"top", "nested"}
    BY DEF Programs, Shells
  <2>2. n = fg["top"] \/ n = fg["nested"]
    BY <1>1, <1>2 DEF Foremost, Running
  <2>3. cmd'[n].st = "set" /\ cmd'[n].kind \in {"tui", "secret"}
    BY <1>2, <1>4 DEF Becomes
  <2>4. login # n
    BY <1>1, <1>2, <2>1 DEF Foremost
  <2>5. fg["top"] # 0 /\ (fg["nested"] # 0 => login = fg["top"])
    BY <1>1, <2>1, <2>2 DEF Foremost
  <2>6. login # 0 => fg["nested"] = n
    BY <1>1, <2>2, <2>4 DEF Foremost
  <2>7. \A h \in Shells : fg[h] # 0 /\ fg[h] # login => fg[h] = n
    BY <1>1, <2>1, <2>2, <2>5, <2>6
  <2> QED
    BY <1>3, <2>1, <2>2, <2>3, <2>4, <2>5, <2>6, <2>7 DEF Moded, Busy, AtRest
<1>10. Ordered'
  <2>1. typed' \in Nat /\ typed <= typed'
    BY <1>1, <1>3, ConstantsAssumption DEF Typed
  <2> QED
    BY <1>1, <1>3, <2>1, StillOrdered
<1> QED
  BY <1>5, <1>6, <1>7, <1>8, <1>9, <1>10 DEF TermInv

(* The end of a program, whoever it was.                                   *)
LEMMA ExitIs ==
  ASSUME TermInv, NEW n \in Programs, Exit(n), cmd[n].st \in {"run", "set", "told"},
         UNCHANGED <<q, wait, taken, todo, typed, live, eof, inherited>>,
         edit' \in [Shells -> BOOLEAN], login' \in Nat
  PROVE  /\ Becomes(n, "ended") /\ Typed' /\ Waits' /\ Entered' /\ Ordered'
         /\ fg' = [s \in Shells |-> IF fg[s] = n THEN 0 ELSE fg[s]]
<1>1. Typed /\ Waits /\ Entered /\ Foremost /\ Moded /\ Ordered
  BY DEF TermInv
<1>2. /\ cmd' = [cmd EXCEPT ![n].st = "ended", ![n].got = <<>>, ![n].killed = FALSE]
      /\ fg' = [s \in Shells |-> IF fg[s] = n THEN 0 ELSE fg[s]]
      /\ modes' \in {modes, "cooked", "raw"} /\ line' \in {line, <<>>} /\ saving' \in BOOLEAN
  BY <1>1 DEF Exit, Reset, Typed
<1>3. Becomes(n, "ended")
  <2>1. "ended" \in States /\ <<>> \in Seq(Key)
    BY DEF States
  <2> QED
    BY <1>1, <1>2, <2>1, WriteIs
<1>4. Typed'
  <2>1. cmd' \in Seq(ProgramState)
    BY <1>3 DEF Becomes
  <2>2. line' \in Seq(Key) /\ modes' \in Modes
    <3>1. line \in Seq(Key) /\ <<>> \in Seq(Key) /\ modes \in Modes
      BY <1>1 DEF Typed
    <3>2. line' \in Seq(Key)
      BY <1>2, <3>1, Zenon
    <3> QED
      BY <1>2, <3>1, <3>2 DEF Modes
  <2>3. fg' \in [Shells -> Nat]
    BY <1>1, <1>2 DEF Typed
  <2> QED
    BY <1>1, <1>2, <2>1, <2>2, <2>3 DEF Typed
<1>5. Waits'
  BY <1>1, <1>3, WaitsSame
<1>6. Entered'
  BY <1>1, <1>3, EnteredSame
<1>7. Ordered'
  <2>1. typed' \in Nat /\ typed <= typed'
    BY <1>1, ConstantsAssumption DEF Typed
  <2> QED
    BY <1>1, <1>2, <2>1, StillOrdered
<1> QED
  BY <1>2, <1>3, <1>4, <1>5, <1>6, <1>7

(* A program other than a shell ends, and a shell has the keyboard again.  *)
LEMMA EndsKeeps ==
  ASSUME TermInv, NEW n \in Programs, Ends(n)
  PROVE  TermInv'
<1>1. Typed /\ Waits /\ Entered /\ Foremost /\ Moded /\ Ordered
  BY DEF TermInv
<1>2. cmd[n].st \in {"run", "set", "told"} /\ cmd[n].kind # "thsh"
  BY DEF Ends, Is
<1>3. /\ Exit(n) /\ q' = q /\ wait' = wait /\ taken' = taken /\ live' = live /\ todo' = todo
      /\ edit' = edit /\ login' = login /\ inherited' = inherited /\ typed' = typed /\ eof' = eof
  BY DEF Ends, Others
<1>4. /\ Becomes(n, "ended") /\ Typed' /\ Waits' /\ Entered' /\ Ordered'
      /\ fg' = [s \in Shells |-> IF fg[s] = n THEN 0 ELSE fg[s]]
  BY <1>1, <1>2, <1>3, ExitIs DEF Typed
<1>5. /\ 0 \notin Programs /\ 0 \notin Programs' /\ Programs \subseteq Programs'
      /\ Shells = {"top", "nested"}
      /\ \A m \in Programs' : m \in Programs \/ cmd'[m].st = "entered"
  BY <1>1, <1>4, ProgramsAfter DEF Shells
<1>6. /\ \A m \in Programs : cmd'[m].kind = cmd[m].kind /\ (m # n => cmd'[m].st = cmd[m].st)
      /\ cmd'[n].st = "ended"
  BY <1>4 DEF Becomes
<1>7. login # n
  BY <1>1, <1>2, <1>5 DEF Foremost
<1>8. Foremost'
  <2>1. \A h \in Shells : fg'[h] # 0 =>
          fg'[h] \in Programs' /\ cmd'[fg'[h]].st \in Running /\ cmd'[fg'[h]].kind # "bg"
    BY <1>1, <1>4, <1>5, <1>6 DEF Foremost
  <2>2. ASSUME NEW m \in Programs', cmd'[m].st \in Running, cmd'[m].kind # "bg"
        PROVE  m = fg'["top"] \/ m = fg'["nested"]
    <3>1. m \in Programs /\ m # n
      BY <1>5, <1>6, <2>2 DEF Running
    <3>2. m = fg["top"] \/ m = fg["nested"]
      BY <1>1, <1>6, <2>2, <3>1 DEF Foremost
    <3> QED
      BY <1>4, <1>5, <3>1, <3>2
  <2>3. login # 0 => login = fg'["top"] /\ cmd'[login].kind = "thsh" /\ inherited = "cooked"
    BY <1>1, <1>4, <1>5, <1>6, <1>7 DEF Foremost
  <2>4. login = 0 => fg'["nested"] = 0 /\ todo["nested"] = <<>>
    BY <1>1, <1>4, <1>5 DEF Foremost
  <2>5. fg'["nested"] # 0 => cmd'[fg'["nested"]].kind # "thsh"
    BY <1>1, <1>4, <1>5, <1>6 DEF Foremost
  <2>6. ASSUME NEW m \in Programs', cmd'[m].kind = "thsh", cmd'[m].st \in {"read", "told"}
        PROVE  login = m /\ fg'["nested"] = 0 /\ todo["nested"] = <<>>
    <3>1. m \in Programs /\ m # n
      BY <1>5, <1>6, <2>6
    <3>2. login = m /\ fg["nested"] = 0 /\ todo["nested"] = <<>>
      BY <1>1, <1>6, <2>6, <3>1 DEF Foremost
    <3> QED
      BY <1>4, <1>5, <3>2
  <2> QED
    BY <1>3, <2>1, <2>2, <2>3, <2>4, <2>5, <2>6 DEF Foremost
<1>9. Moded'
  <2>1. CASE fg["top"] = n
    <3>1. login = 0 /\ fg["nested"] = 0 /\ modes' = "cooked"
      BY <1>1, <1>3, <1>7, <2>1 DEF Foremost, Exit, Reset
    <3> QED
      BY <1>3, <3>1 DEF Moded
  <2>2. CASE fg["top"] # n /\ fg["nested"] = n
    <3>1. login # 0 /\ login = fg["top"] /\ modes' = "raw"
      BY <1>1, <1>3, <1>5, <2>2 DEF Foremost, Exit
    <3>2. fg'["top"] = login /\ fg'["nested"] = 0
      BY <1>4, <1>5, <2>2, <3>1
    <3> QED
      BY <1>3, <1>5, <3>1, <3>2 DEF Moded, Busy
  <2>3. CASE fg["top"] # n /\ fg["nested"] # n
    <3>1. modes' = modes
      BY <1>3, <2>3 DEF Exit
    <3>2. \A h \in Shells : fg'[h] = fg[h]
      BY <1>4, <1>5, <2>3
    <3>3. \A h \in Shells : fg'[h] # 0 /\ fg'[h] # login /\
             (cmd'[fg'[h]].st = "run" \/ cmd'[fg'[h]].kind \notin {"tui", "secret"}) => modes' = "cooked"
      <4> SUFFICES ASSUME NEW h \in Shells, fg[h] # 0, fg[h] # login,
                          cmd'[fg[h]].st = "run" \/ cmd'[fg[h]].kind \notin {"tui", "secret"}
                   PROVE  modes = "cooked"
        BY <3>1, <3>2
      <4>1. fg[h] \in Programs /\ fg[h] # n
        BY <1>1, <1>5, <2>3 DEF Foremost
      <4> QED
        BY <1>1, <1>6, <4>1 DEF Moded, AtRest
    <3> QED
      BY <1>1, <1>3, <1>5, <3>1, <3>2, <3>3 DEF Moded, Busy, AtRest
  <2> QED
    BY <2>1, <2>2, <2>3
<1> QED
  BY <1>4, <1>8, <1>9 DEF TermInv

(* The inner shell is left: nothing is in front any more.                  *)
LEMMA LogoutKeeps ==
  ASSUME TermInv, NEW n \in Programs, Logout(n)
  PROVE  TermInv'
<1>1. Typed /\ Waits /\ Entered /\ Foremost /\ Moded /\ Ordered
  BY DEF TermInv
<1>2. cmd[n].st = "told" /\ cmd[n].kind = "thsh"
  BY DEF Logout, Is
<1>3. /\ Exit(n) /\ q' = q /\ wait' = wait /\ taken' = taken /\ live' = live /\ todo' = todo
      /\ edit' = [edit EXCEPT !["nested"] = FALSE]
      /\ login' = 0 /\ inherited' = inherited /\ typed' = typed /\ eof' = eof
  BY DEF Logout
<1>4. /\ Becomes(n, "ended") /\ Typed' /\ Waits' /\ Entered' /\ Ordered'
      /\ fg' = [s \in Shells |-> IF fg[s] = n THEN 0 ELSE fg[s]]
  <2>1. edit' \in [Shells -> BOOLEAN] /\ login' \in Nat
    BY <1>1, <1>3 DEF Typed
  <2> QED
    BY <1>2, <1>3, <2>1, ExitIs
<1>5. /\ 0 \notin Programs /\ Shells = {"top", "nested"}
      /\ \A m \in Programs' : m \in Programs \/ cmd'[m].st = "entered"
  BY <1>1, <1>4, ProgramsAfter DEF Shells
<1>6. /\ \A m \in Programs : cmd'[m].kind = cmd[m].kind /\ (m # n => cmd'[m].st = cmd[m].st)
      /\ cmd'[n].st = "ended"
  BY <1>4 DEF Becomes
<1>7. login = n /\ fg["nested"] = 0 /\ todo["nested"] = <<>> /\ fg["top"] = n
  BY <1>1, <1>2, <1>5 DEF Foremost
<1>8. fg'["top"] = 0 /\ fg'["nested"] = 0 /\ modes' = "cooked"
  BY <1>3, <1>4, <1>5, <1>7 DEF Exit, Reset
<1>9. \A m \in Programs' :
        /\ ~(cmd'[m].st \in Running /\ cmd'[m].kind # "bg")
        /\ ~(cmd'[m].kind = "thsh" /\ cmd'[m].st \in {"read", "told"})
  <2> SUFFICES ASSUME NEW m \in Programs', m \in Programs, m # n
               PROVE  /\ ~(cmd[m].st \in Running /\ cmd[m].kind # "bg")
                      /\ ~(cmd[m].kind = "thsh" /\ cmd[m].st \in {"read", "told"})
    BY <1>5, <1>6 DEF Running
  <2> QED
    BY <1>1, <1>5, <1>7 DEF Foremost
<1>10. Foremost'
  BY <1>3, <1>5, <1>7, <1>8, <1>9 DEF Foremost
<1>11. Moded'
  BY <1>3, <1>5, <1>8 DEF Moded
<1> QED
  BY <1>4, <1>10, <1>11 DEF TermInv

(* The inner shell starts, and finds the modes of the session.             *)
LEMMA OpenKeeps ==
  ASSUME TermInv, NEW n \in Programs, Open(n)
  PROVE  TermInv'
<1>1. Typed /\ Waits /\ Entered /\ Foremost /\ Moded /\ Ordered
  BY DEF TermInv
<1>2. cmd[n].st = "run" /\ cmd[n].kind = "thsh" /\ login = 0
  BY DEF Open, Is
<1>3. /\ login' = n /\ inherited' = modes /\ modes' = "raw"
      /\ line' = line /\ q' = q /\ wait' = wait /\ taken' = taken /\ live' = live /\ saving' = saving
      /\ todo' = todo /\ edit' = edit /\ fg' = fg /\ cmd' = cmd /\ typed' = typed /\ eof' = eof
  BY DEF Open
<1>4. 0 \notin Programs /\ n \in Nat /\ Shells = {"top", "nested"} /\ Programs' = Programs
  BY <1>3 DEF Programs, Shells
<1>5. Typed'
  BY <1>1, <1>3, <1>4 DEF Typed, Modes
<1>6. Waits' /\ Entered'
  <2>1. Becomes(0, "run")
    BY <1>1, <1>3, NobodyChanges
  <2> QED
    BY <1>1, <1>3, <1>4, <2>1, WaitsSame, EnteredSame
<1>7. fg["nested"] = 0 /\ todo["nested"] = <<>> /\ fg["top"] = n
  BY <1>1, <1>2, <1>4 DEF Foremost, Running
<1>8. modes = "cooked"
  BY <1>1, <1>2, <1>4, <1>7 DEF Moded, AtRest
<1>9. \A m \in Programs : ~(cmd[m].kind = "thsh" /\ cmd[m].st \in {"read", "told"})
  BY <1>1, <1>2, <1>4 DEF Foremost
<1>10. Foremost'
  <2>1. /\ \A h \in Shells :
             fg[h] # 0 => fg[h] \in Programs /\ cmd[fg[h]].st \in Running /\ cmd[fg[h]].kind # "bg"
        /\ \A m \in Programs :
             cmd[m].st \in Running /\ cmd[m].kind # "bg" => m = fg["top"] \/ m = fg["nested"]
    BY <1>1 DEF Foremost
  <2> QED
    BY <1>2, <1>3, <1>4, <1>7, <1>8, <1>9, <2>1 DEF Foremost
<1>11. Moded'
  BY <1>3, <1>4, <1>7 DEF Moded, Busy
<1>12. Ordered'
  <2>1. typed' \in Nat /\ typed <= typed'
    BY <1>1, <1>3, ConstantsAssumption DEF Typed
  <2> QED
    BY <1>1, <1>3, <2>1, StillOrdered
<1> QED
  BY <1>5, <1>6, <1>10, <1>11, <1>12 DEF TermInv

(* The inner shell takes a key, or a line, and may enter a command.        *)
LEMMA NestedKeysKeeps ==
  ASSUME TermInv, NEW n \in Programs, NestedKeys(n)
  PROVE  TermInv'
<1>1. Typed /\ Waits /\ Entered /\ Foremost /\ Moded /\ Ordered
  BY DEF TermInv
<1>2. cmd[n].st = "told" /\ cmd[n].kind = "thsh"
  BY DEF NestedKeys, Is
<1> DEFINE p == [cmd[n] EXCEPT !.st = "run", !.got = <<>>]
           cmds == [cmd EXCEPT ![n] = p]
<1>3. PICK k : /\ Edits("nested", k)
               /\ IF Blank(k) THEN cmd' = [cmd EXCEPT ![n].st = "run", ![n].got = <<>>] /\ UNCHANGED todo
                  ELSE \E kind \in Kinds \ {"thsh", "bg"} :
                         Enters("nested", kind, [cmd EXCEPT ![n].st = "run", ![n].got = <<>>])
  BY DEF NestedKeys
<1>4. /\ modes' = modes /\ line' = line /\ q' = q /\ wait' = wait /\ live' = live /\ saving' = saving
      /\ fg' = fg /\ login' = login /\ inherited' = inherited /\ typed' = typed /\ taken' = taken
      /\ eof' = eof
  BY DEF NestedKeys, tty
<1>5. cmd \in Seq(ProgramState) /\ n \in 1 .. Len(cmd) /\ cmd[n] \in ProgramState
  BY <1>1 DEF Typed, Programs
<1>6. p \in ProgramState /\ p.kind = cmd[n].kind /\ p.st = "run"
  <2>1. <<>> \in Seq(Key)
    OBVIOUS
  <2> QED
    BY <1>5, <2>1 DEF ProgramState, Running
<1>7. [cmd EXCEPT ![n].st = "run", ![n].got = <<>>] = cmds
  BY <1>5
<1> HIDE DEF p
<1>8. /\ cmds \in Seq(ProgramState) /\ Len(cmds) = Len(cmd)
      /\ cmds[n] = p /\ \A m \in 1 .. Len(cmd) : m # n => cmds[m] = cmd[m]
  BY <1>5, <1>6, ChangeOne
<1> HIDE DEF cmds
<1>9. "nested" \in Shells /\ n # 0 /\ login = n /\ Shells = {"top", "nested"}
  BY <1>1, <1>2, <1>5 DEF Shells, Foremost
<1>10. /\ Becomes(n, "run") /\ Entered' /\ todo' \in [Shells -> Seq(Nat)]
  <2>1. CASE cmd' = cmds /\ UNCHANGED todo
    <3>1. "run" \in States /\ <<>> \in Seq(Key)
      BY DEF States, Running
    <3>2. Becomes(n, "run")
      BY <1>1, <1>7, <2>1, <3>1, WriteIs
    <3> QED
      BY <1>1, <1>2, <2>1, <3>2, EnteredSame DEF Typed
  <2>2. ASSUME NEW kind \in Kinds \ {"thsh", "bg"}, Enters("nested", kind, cmds)
        PROVE  Becomes(n, "run") /\ Entered' /\ todo' \in [Shells -> Seq(Nat)]
    <3>1. /\ \A m \in Programs : cmds[m].kind = cmd[m].kind /\ (m # n => cmds[m].st = cmd[m].st)
          /\ cmds[n].st = "run"
      BY <1>6, <1>8 DEF Programs
    <3>2. kind \in Kinds
      OBVIOUS
    <3>3. /\ Becomes(n, "run") /\ Len(cmd') = Len(cmd) + 1 /\ cmd'[Len(cmd) + 1].kind = kind
          /\ todo' = [todo EXCEPT !["nested"] = Append(@, Len(cmd) + 1)]
          /\ todo' \in [Shells -> Seq(Nat)]
      BY <1>1, <1>8, <1>9, <2>2, <3>1, <3>2, EntersBecomes
    <3>4. cmd'[Len(cmd) + 1].kind \notin {"thsh", "bg"}
      BY <3>3
    <3>5. Entered'
      BY <1>1, <1>2, <1>9, <3>3, <3>4, EnteredMore
    <3> QED
      BY <3>3, <3>5
  <2> QED
    BY <1>3, <1>7, <2>1, <2>2
<1>11. Typed'
  <2>1. edit' \in [Shells -> BOOLEAN]
    BY <1>1, <1>3 DEF Edits, Typed
  <2>2. cmd' \in Seq(ProgramState)
    BY <1>10 DEF Becomes
  <2> QED
    BY <1>1, <1>4, <1>10, <2>1, <2>2 DEF Typed
<1>12. Waits'
  BY <1>1, <1>2, <1>4, <1>10, WaitsSame
<1>13. Foremost'
  <2>1. cmd[n].st \in Running /\ "run" \in Running
    BY <1>2 DEF Running
  <2> QED
    BY <1>1, <1>4, <1>9, <1>10, <2>1, FrontSame
<1>14. Moded'
  BY <1>1, <1>2, <1>4, <1>10, ModedSame
<1>15. Ordered'
  <2>1. typed' \in Nat /\ typed <= typed'
    BY <1>1, <1>4, ConstantsAssumption DEF Typed
  <2> QED
    BY <1>1, <1>4, <2>1, StillOrdered
<1> QED
  BY <1>10, <1>11, <1>12, <1>13, <1>14, <1>15 DEF TermInv

(* The inner shell runs a command, in the modes it found.                  *)
LEMMA NestedRunKeeps ==
  ASSUME TermInv, NEW n \in Programs, NestedRun(n)
  PROVE  TermInv'
<1>1. Typed /\ Waits /\ Entered /\ Foremost /\ Moded /\ Ordered
  BY DEF TermInv
<1>2. /\ cmd[n].st = "run" /\ cmd[n].kind = "thsh" /\ login = n /\ fg["nested"] = 0
      /\ todo["nested"] # <<>>
  BY DEF NestedRun, Is
<1> DEFINE m == Head(todo["nested"])
<1>3. /\ todo' = [todo EXCEPT !["nested"] = Tail(@)] /\ fg' = [fg EXCEPT !["nested"] = m]
      /\ cmd' = [cmd EXCEPT ![m].st = "run"] /\ modes' = inherited
      /\ line' = line /\ q' = q /\ wait' = wait /\ live' = live /\ saving' = saving
      /\ edit' = edit /\ login' = login /\ inherited' = inherited /\ typed' = typed
      /\ taken' = taken /\ eof' = eof
  BY DEF NestedRun
<1>4. /\ "nested" \in Shells /\ "top" \in Shells /\ Shells = {"top", "nested"} /\ 0 \notin Programs
      /\ todo["nested"] \in Seq(Nat) /\ 1 \in DOMAIN todo["nested"] /\ m = todo["nested"][1]
  BY <1>1, <1>2 DEF Shells, Programs, Typed
<1>5. m \in Programs /\ m \in Nat /\ cmd[m].st = "entered"
  BY <1>1, <1>4 DEF Entered, Programs
<1>6. Becomes(m, "run")
  <2>1. "run" \in States /\ <<>> \in Seq(Key)
    BY DEF States, Running
  <2> HIDE DEF m
  <2> QED
    BY <1>1, <1>3, <1>5, <2>1, WriteIs
<1>7. Entered' /\ cmd[m].kind \notin {"thsh", "bg"}
  BY <1>1, <1>2, <1>3, <1>4, <1>6, EnteredLess
<1> HIDE DEF m
<1>8. /\ Programs \subseteq Programs' /\ \A j \in Programs' : j \in Programs \/ cmd'[j].st = "entered"
  BY <1>1, <1>6, ProgramsAfter
<1>9. /\ \A j \in Programs : cmd'[j].kind = cmd[j].kind /\ (j # m => cmd'[j].st = cmd[j].st)
      /\ cmd'[m].st = "run"
  BY <1>5, <1>6 DEF Becomes
<1>10. n # m /\ login # 0 /\ fg["top"] = n /\ inherited = "cooked" /\ n # 0
  BY <1>1, <1>2, <1>4, <1>5 DEF Foremost
<1>11. fg'["top"] = n /\ fg'["nested"] = m
  BY <1>1, <1>3, <1>4, <1>10 DEF Typed
<1>12. Typed'
  <2>1. todo' \in [Shells -> Seq(Nat)]
    <3>1. Tail(todo["nested"]) \in Seq(Nat)
      BY <1>2, <1>4
    <3> QED
      BY <1>1, <1>3, <3>1 DEF Typed
  <2>2. fg' \in [Shells -> Nat]
    BY <1>1, <1>3, <1>5 DEF Typed
  <2>3. cmd' \in Seq(ProgramState)
    BY <1>6 DEF Becomes
  <2> QED
    BY <1>1, <1>3, <2>1, <2>2, <2>3 DEF Typed
<1>13. Waits'
  BY <1>1, <1>3, <1>5, <1>6, WaitsSame
<1>14. Foremost'
  <2>1. \A h \in Shells : fg'[h] # 0 =>
          fg'[h] \in Programs' /\ cmd'[fg'[h]].st \in Running /\ cmd'[fg'[h]].kind # "bg"
    <3>1. n \in Programs' /\ cmd'[n].st \in Running /\ cmd'[n].kind # "bg"
      BY <1>2, <1>8, <1>9, <1>10 DEF Running
    <3>2. m \in Programs' /\ cmd'[m].st \in Running /\ cmd'[m].kind # "bg"
      BY <1>5, <1>7, <1>8, <1>9 DEF Running
    <3> QED
      BY <1>4, <1>11, <3>1, <3>2
  <2>2. ASSUME NEW j \in Programs', cmd'[j].st \in Running, cmd'[j].kind # "bg"
        PROVE  j = n \/ j = m
    <3>1. j \in Programs
      BY <1>8, <2>2 DEF Running
    <3> QED
      BY <1>1, <1>2, <1>4, <1>9, <1>10, <2>2, <3>1 DEF Foremost
  <2>3. cmd'[n].kind = "thsh" /\ cmd'[m].kind # "thsh"
    BY <1>2, <1>5, <1>7, <1>9
  <2>4. ASSUME NEW j \in Programs', cmd'[j].kind = "thsh", cmd'[j].st \in {"read", "told"}
        PROVE  FALSE
    <3>1. j \in Programs /\ j # m
      BY <1>8, <1>9, <2>4
    <3>2. todo["nested"] = <<>>
      BY <1>1, <1>9, <2>4, <3>1 DEF Foremost
    <3> QED
      BY <1>2, <3>2
  <2> QED
    BY <1>2, <1>3, <1>10, <1>11, <2>1, <2>2, <2>3, <2>4 DEF Foremost
<1>15. Moded'
  BY <1>2, <1>3, <1>4, <1>5, <1>10, <1>11 DEF Moded, Busy
<1>16. Ordered'
  <2>1. typed' \in Nat /\ typed <= typed'
    BY <1>1, <1>3, ConstantsAssumption DEF Typed
  <2> QED
    BY <1>1, <1>3, <2>1, StillOrdered
<1> QED
  BY <1>7, <1>12, <1>13, <1>14, <1>15, <1>16 DEF TermInv

(* The session runs the next command, when nothing is in front.            *)
LEMMA RunKeeps ==
  ASSUME TermInv, Run
  PROVE  TermInv'
<1>1. Typed /\ Waits /\ Entered /\ Foremost /\ Moded /\ Ordered
  BY DEF TermInv
<1> DEFINE n == Head(todo["top"])
<1>2. fg["top"] = 0 /\ todo["top"] # <<>> /\ ~Busy
  BY DEF Run, Busy
<1>3. /\ todo' = [todo EXCEPT !["top"] = Tail(@)] /\ cmd' = [cmd EXCEPT ![n].st = "run"]
      /\ IF cmd[n].kind = "bg"
         THEN Reset /\ saving' = TRUE /\ UNCHANGED fg
         ELSE fg' = [fg EXCEPT !["top"] = n] /\ UNCHANGED <<modes, line, saving>>
      /\ q' = q /\ wait' = wait /\ live' = live /\ edit' = edit /\ login' = login
      /\ inherited' = inherited /\ typed' = typed /\ taken' = taken /\ eof' = eof
  BY DEF Run
<1>4. /\ "nested" \in Shells /\ "top" \in Shells /\ Shells = {"top", "nested"} /\ 0 \notin Programs
      /\ todo["top"] \in Seq(Nat) /\ 1 \in DOMAIN todo["top"] /\ n = todo["top"][1]
  BY <1>1, <1>2 DEF Shells, Programs, Typed
<1>5. n \in Programs /\ n \in Nat /\ n # 0 /\ cmd[n].st = "entered"
  BY <1>1, <1>4 DEF Entered, Programs
<1>6. Becomes(n, "run")
  <2>1. "run" \in States /\ <<>> \in Seq(Key)
    BY DEF States, Running
  <2> HIDE DEF n
  <2> QED
    BY <1>1, <1>3, <1>5, <2>1, WriteIs
<1>7. Entered'
  BY <1>1, <1>2, <1>3, <1>4, <1>6, EnteredLess
<1> HIDE DEF n
<1>8. /\ Programs \subseteq Programs' /\ \A j \in Programs' : j \in Programs \/ cmd'[j].st = "entered"
  BY <1>1, <1>6, ProgramsAfter
<1>9. /\ \A j \in Programs : cmd'[j].kind = cmd[j].kind /\ (j # n => cmd'[j].st = cmd[j].st)
      /\ cmd'[n].st = "run"
  BY <1>5, <1>6 DEF Becomes
<1>10. login = 0 /\ fg["nested"] = 0 /\ todo["nested"] = <<>> /\ modes = "cooked"
  BY <1>1, <1>2 DEF Foremost, Moded
<1>11. modes' = "cooked" /\ line' \in {line, <<>>} /\ saving' \in BOOLEAN
  BY <1>1, <1>3, <1>10 DEF Reset, Typed
<1>12. fg'["nested"] = 0 /\ (IF cmd[n].kind = "bg" THEN fg'["top"] = 0 ELSE fg'["top"] = n)
  BY <1>1, <1>2, <1>3, <1>4, <1>10 DEF Typed
<1>13. todo'["nested"] = <<>>
  BY <1>1, <1>3, <1>4, <1>10 DEF Typed
<1>14. Typed'
  <2>1. todo' \in [Shells -> Seq(Nat)]
    <3>1. Tail(todo["top"]) \in Seq(Nat)
      BY <1>2, <1>4
    <3> QED
      BY <1>1, <1>3, <3>1 DEF Typed
  <2>2. fg' \in [Shells -> Nat]
    BY <1>1, <1>3, <1>5 DEF Typed
  <2>3. cmd' \in Seq(ProgramState)
    BY <1>6 DEF Becomes
  <2>4. line' \in Seq(Key)
    <3>1. line \in Seq(Key) /\ <<>> \in Seq(Key)
      BY <1>1 DEF Typed
    <3> QED
      BY <1>11, <3>1, Zenon
  <2> QED
    BY <1>1, <1>3, <1>11, <2>1, <2>2, <2>3, <2>4 DEF Typed, Modes
<1>15. Waits'
  BY <1>1, <1>3, <1>5, <1>6, WaitsSame
<1>16. Foremost'
  <2>1. \A h \in Shells : fg'[h] # 0 =>
          fg'[h] \in Programs' /\ cmd'[fg'[h]].st \in Running /\ cmd'[fg'[h]].kind # "bg"
    BY <1>4, <1>5, <1>8, <1>9, <1>12 DEF Running
  <2>2. ASSUME NEW j \in Programs', cmd'[j].st \in Running, cmd'[j].kind # "bg"
        PROVE  j = fg'["top"]
    <3>1. j \in Programs
      BY <1>8, <2>2 DEF Running
    <3>2. CASE j = n
      BY <1>9, <1>12, <2>2, <3>1, <3>2
    <3>3. CASE j # n
      BY <1>1, <1>2, <1>4, <1>9, <1>10, <2>2, <3>1, <3>3 DEF Foremost
    <3> QED
      BY <3>2, <3>3
  <2>3. ASSUME NEW j \in Programs', cmd'[j].kind = "thsh", cmd'[j].st \in {"read", "told"}
        PROVE  FALSE
    <3>1. j \in Programs /\ j # n
      BY <1>8, <1>9, <2>3
    <3> QED
      BY <1>1, <1>4, <1>9, <1>10, <2>3, <3>1 DEF Foremost
  <2> QED
    BY <1>3, <1>10, <1>12, <1>13, <2>1, <2>2, <2>3 DEF Foremost
<1>17. Moded'
  BY <1>3, <1>10, <1>11 DEF Moded
<1>18. Ordered'
  <2>1. typed' \in Nat /\ typed <= typed'
    BY <1>1, <1>3, ConstantsAssumption DEF Typed
  <2> QED
    BY <1>1, <1>3, <1>11, <2>1, StillOrdered
<1> QED
  BY <1>7, <1>14, <1>15, <1>16, <1>17, <1>18 DEF TermInv

(* What nobody sees changes nothing.                                       *)
LEMMA RestKeeps ==
  ASSUME TermInv, Saved \/ UNCHANGED vars
  PROVE  TermInv'
<1>1. Typed /\ Waits /\ Entered /\ Foremost /\ Moded /\ Ordered
  BY DEF TermInv
<1>2. /\ modes' = modes /\ line' = line /\ q' = q /\ wait' = wait /\ live' = live /\ todo' = todo
      /\ edit' = edit /\ fg' = fg /\ login' = login /\ inherited' = inherited /\ cmd' = cmd
      /\ typed' = typed /\ taken' = taken /\ eof' = eof /\ saving' \in BOOLEAN
  BY <1>1 DEF Saved, vars, tty, Typed
<1>3. Becomes(0, "run") /\ 0 \notin Programs
  BY <1>1, <1>2, NobodyChanges DEF Programs
<1>4. Typed'
  BY <1>1, <1>2 DEF Typed
<1>5. Waits' /\ Entered'
  BY <1>1, <1>2, <1>3, WaitsSame, EnteredSame
<1>6. Foremost'
  <2>1. todo'["nested"] = todo["nested"]
    BY <1>2
  <2> QED
    BY <1>1, <1>2, <1>3, <2>1, FrontSame
<1>7. Moded'
  BY <1>1, <1>2, <1>3, ModedSame
<1>8. Ordered'
  <2>1. typed' \in Nat /\ typed <= typed'
    BY <1>1, <1>2, ConstantsAssumption DEF Typed
  <2> QED
    BY <1>1, <1>2, <2>1, StillOrdered
<1> QED
  BY <1>4, <1>5, <1>6, <1>7, <1>8 DEF TermInv

(* A session that has just begun.                                          *)
LEMMA TermInit == Init => TermInv
<1> SUFFICES ASSUME Init PROVE TermInv
  OBVIOUS
<1>1. /\ modes = "cooked" /\ line = <<>> /\ q = <<>> /\ wait = <<>> /\ cmd = <<>>
      /\ typed = 0 /\ taken = <<>> /\ login = 0 /\ inherited = "cooked"
      /\ todo = [s \in Shells |-> <<>>] /\ fg = [s \in Shells |-> 0]
      /\ edit = [s \in Shells |-> FALSE] /\ live = TRUE /\ saving = FALSE /\ eof = FALSE
  BY DEF Init, Shells
<1>2. /\ <<>> \in Seq(Key) /\ <<>> \in Seq(Seq(Key)) /\ <<>> \in Seq(Nat) /\ <<>> \in Seq(Mark)
      /\ <<>> \in Seq(ProgramState) /\ Len(<<>>) = 0
  OBVIOUS
<1>3. Programs = {} /\ Shells = {"top", "nested"}
  BY <1>1 DEF Programs, Shells
<1>4. Typed
  <2>1. 0 \in 0 .. MaxKeys /\ 0 \in Nat
    BY ConstantsAssumption DEF ConstantsAssumption
  <2>2. /\ todo \in [Shells -> Seq(Nat)] /\ fg \in [Shells -> Nat]
        /\ edit \in [Shells -> BOOLEAN]
    BY <1>1, <1>2
  <2>3. line \in Seq(Key) /\ q \in Seq(Seq(Key)) /\ wait \in Seq(Nat) /\ taken \in Seq(Mark)
    BY <1>1, <1>2
  <2>4. cmd \in Seq(ProgramState)
    BY <1>1, <1>2
  <2>5. modes \in Modes /\ inherited \in Modes /\ live \in BOOLEAN /\ saving \in BOOLEAN /\ eof \in BOOLEAN
    BY <1>1 DEF Modes
  <2> QED
    BY <1>1, <2>1, <2>2, <2>3, <2>4, <2>5 DEF Typed
<1>5. Waits
  BY <1>1, <1>3 DEF Waits, IsInjective
<1>6. Entered
  BY <1>1, <1>3 DEF Entered, IsInjective
<1>7. Foremost /\ Moded
  BY <1>1, <1>3 DEF Foremost, Moded
<1>8. Ordered
  BY <1>1, MarksEmpty DEF Ordered, Numbered, KeysInOrder
<1> QED
  BY <1>4, <1>5, <1>6, <1>7, <1>8 DEF TermInv

(* Every step.                                                             *)
LEMMA TermStep ==
  ASSUME TermInv, [Next]_vars
  PROVE  TermInv'
<1>1. ASSUME NEW n \in DOMAIN cmd, Program(n)
      PROVE  TermInv'
  <2>1. n \in Programs
    BY DEF TermInv, Typed, Programs
  <2> QED
    BY <1>1, <2>1, ReadKeeps, ReadOnKeeps, SetModesKeeps, EndsKeeps, OpenKeeps, LogoutKeeps,
       NestedKeysKeeps, NestedRunKeeps DEF Program
<1> QED
  BY <1>1, TypeKeeps, RunKeeps, RestKeeps DEF Next, System

(* The inductive invariant: what the keys, the programs, the shells and    *)
(* the modes of io/tty.ts, main/websession.ts and Thsh.run are at any time.*)
THEOREM TerminalInvariant == Spec => []TermInv
<1>1. TermInv /\ [Next]_vars => TermInv'
  BY TermStep
<1> QED
  BY <1>1, TermInit, PTL DEF Spec

(* The terminal's types, and who waits for it: a program that reads is in  *)
(* the queue of readers once (TtyIn.rd), what is entered has not run yet,  *)
(* and an inner shell is what the session waits for.                       *)
THEOREM TypeCorrect == Spec => []TypeOK
<1>1. TermInv => TypeOK
  <2> SUFFICES ASSUME TermInv PROVE TypeOK
    OBVIOUS
  <2>1. Typed /\ Waits /\ Entered /\ Foremost
    BY DEF TermInv
  <2>2. Programs = 1 .. Len(cmd) /\ DOMAIN cmd = Programs /\ Len(cmd) \in Nat
    BY <2>1 DEF Programs, Typed
  <2>3. ASSUME NEW s \in Shells
        PROVE  /\ fg[s] \in 0 .. Len(cmd) /\ edit[s] \in BOOLEAN
               /\ \A i \in DOMAIN todo[s] : cmd[todo[s][i]].st = "entered"
    <3>1. fg[s] \in Nat /\ edit[s] \in BOOLEAN
      BY <2>1 DEF Typed
    <3>2. fg[s] = 0 \/ fg[s] \in 1 .. Len(cmd)
      BY <2>1, <2>2 DEF Foremost
    <3>3. \A i \in DOMAIN todo[s] : cmd[todo[s][i]].st = "entered"
      BY <2>1 DEF Entered
    <3> QED
      BY <2>2, <3>1, <3>2, <3>3
  <2>4. login \in 0 .. Len(cmd) /\ (login # 0 => cmd[login].kind = "thsh" /\ fg["top"] = login)
    BY <2>1, <2>3 DEF Foremost, Shells, Typed
  <2>5. /\ \A n \in DOMAIN cmd : cmd[n].st = "read" <=> \E i \in DOMAIN wait : wait[i] = n
        /\ IsInjective(wait)
    BY <2>1, <2>2 DEF Waits
  <2>6. /\ modes \in {"cooked", "cbreak", "raw"} /\ inherited \in {"cooked", "cbreak", "raw"}
        /\ typed \in 0 .. MaxKeys /\ {live, saving, eof} \subseteq BOOLEAN
    BY <2>1 DEF Typed, Modes
  <2> QED
    BY <2>3, <2>4, <2>5, <2>6 DEF TypeOK, Shells
<1> QED
  BY <1>1, TerminalInvariant, PTL

(* Keys come to the programs in the order they were typed, none twice, and *)
(* nobody waits while there are keys (TtyIn.push and TtyIn.rd), however    *)
(* many are typed ahead and whoever reads.                                 *)
THEOREM KeysKeepOrder == Spec => []KeysInOrder
<1>1. TermInv => KeysInOrder
  BY DEF TermInv, Ordered
<1> QED
  BY <1>1, TerminalInvariant, PTL

(* A program finds the modes of the session, and the inner shell its own   *)
(* (Tty.reset of Os.run, Tty.lineEditorMode of Thsh.run), whatever the     *)
(* programs before have left, however many there were.                     *)
THEOREM ModesAreFollowed == Spec => []ModesFollow
<1>1. TermInv => ModesFollow
  BY DEF TermInv, Moded, ModesFollow, AtRest, Shells
<1> QED
  BY <1>1, TerminalInvariant, PTL

=============================================================================
