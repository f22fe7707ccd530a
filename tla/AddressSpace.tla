---------------------------- MODULE AddressSpace ----------------------------
(***************************************************************************)
(* What a program can rely on about its address space, without mapping     *)
(* tables, frames or search: every unit of it has an owner or none, and    *)
(* either reads zero or has been written.  A unit nobody owns reads zero,  *)
(* so that whatever is mapped later starts clean; a mapping that moves     *)
(* takes its contents along; nothing else changes what it does not name.   *)
(***************************************************************************)
EXTENDS Integers

CONSTANTS
  Units,        \* the addresses
  Protections,  \* the owners that are mappings, by what they permit
  Fixed         \* the owners that are not: image, heap and stack

VARIABLES
  owner,    \* whom each unit belongs to: a protection, a fixed owner or "none"
  dirty     \* the units that do not read zero

vars == <<owner, dirty>>

Free == {a \in Units : owner[a] = "none"}
Mapped == {a \in Units : owner[a] \in Protections}

(* What the step gives up, and what it gains.                              *)
Lost == {a \in Units : owner[a] # "none" /\ owner'[a] = "none"}
Gained == {a \in Units : owner[a] = "none" /\ owner'[a] # "none"}

Kept == \A a \in Units \ (Lost \cup Gained) : owner'[a] = owner[a]

Init ==
  /\ owner \in [Units -> Protections \cup Fixed \cup {"none"}]
  /\ dirty \in SUBSET (Units \ Free)

(* mmap, brk and mremap that grow: what is new reads zero.                 *)
Grow == Lost = {} /\ Kept /\ UNCHANGED dirty

(* munmap, brk and mremap that shrink.                                     *)
Shrink == Gained = {} /\ Kept /\ dirty' = dirty \ Lost

(* mremap that moves: the contents follow by the distance d, the rest of   *)
(* the new place reads zero.                                               *)
First(S) == CHOOSE x \in S : \A y \in S : x <= y

MovedBy(d) ==
  /\ \A a \in Lost : a + d \in Gained /\ owner'[a + d] = owner[a]
  /\ dirty' = (dirty \ Lost) \cup {a + d : a \in dirty \cap Lost}

Move ==
  /\ Kept
  /\ Lost \subseteq Mapped /\ Lost # {}
  /\ \E b \in Gained : MovedBy(b - First(Lost))

(* mprotect.                                                               *)
Protect ==
  /\ \A a \in Units : owner'[a] # owner[a] => a \in Mapped /\ owner'[a] \in Protections
  /\ UNCHANGED dirty

(* A store.                                                                *)
Write(a) ==
  /\ owner[a] \in Fixed \cup {"rw"}
  /\ dirty' = dirty \cup {a}
  /\ UNCHANGED owner

Next == Grow \/ Shrink \/ Move \/ Protect \/ \E a \in Units : Write(a)

Spec == Init /\ [][Next]_vars
=============================================================================
