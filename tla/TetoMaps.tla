------------------------------ MODULE TetoMaps ------------------------------
(***************************************************************************)
(* The address space of a Teto process (src/src/teto/kernel.ts): anonymous *)
(* mappings, the program break, and the frames behind them, which belong   *)
(* to all processes and are never given back.                              *)
(*                                                                         *)
(* The system calls below run under the process's lock; a call that finds  *)
(* it taken is executed again later (see TetoScheduler).  A call that is   *)
(* refused changes nothing and is no step here.  The table of mappings is  *)
(* a set: they are disjoint, and no operation depends on their order.      *)
(***************************************************************************)
EXTENDS Integers, FiniteSets

CONSTANTS
  Page,       \* MAP_PAGE, in units of the address space
  Top,        \* P_VIRTUAL_TOP
  Floor,      \* P_IMAGE_FLOOR and P_BRK_BASE: the end of the image
  Stack,      \* P_STACK_BOTTOM
  Guard,      \* MAP_GUARD
  Spacing,    \* MAP_SPACING
  FirstMap,   \* what P_MAP_NEXT starts with
  Capacity,   \* P_MAP_CAPACITY
  FrameSize,  \* TETO_GUEST_PAGE_SIZE
  Frames,     \* frames left when the program starts
  Lengths,    \* the lengths that are asked for
  MaxDirty    \* bound on the units written at a time, image and stack included

ASSUME MapsAssumption ==
  /\ Page \in Nat \ {0} /\ FrameSize \in Nat \ {0}
  /\ Guard \in Nat \ {0} /\ Spacing \in Nat /\ Spacing > Guard
  /\ Floor \in Nat \ {0} /\ Stack \in Nat /\ Top \in Nat
  /\ Floor + Page + Guard < Stack /\ Stack < Top /\ Spacing <= Top
  /\ FirstMap \in Nat /\ Capacity \in Nat \ {0} /\ Frames \in Nat
  /\ Lengths \subseteq Nat \ {0} /\ MaxDirty \in Nat

VARIABLES
  maps,     \* the table of mappings
  next,     \* P_MAP_NEXT
  brk,      \* P_BRK
  dirty,    \* the units that do not read zero
  touched,  \* the guest pages that have a frame
  left      \* frames between C_PHYSICAL_NEXT and C_IMAGE_TOP

vars == <<maps, next, brk, dirty, touched, left>>

Units == 0 .. Top - 1
Protections == {"r", "rw"}
Mapping == [start : 0 .. Top, end : 0 .. Top, prot : Protections]

RoundUp(n) == ((n + Page - 1) \div Page) * Page
Larger(a, b) == IF a > b THEN a ELSE b
Smaller(a, b) == IF a < b THEN a ELSE b

Interval(lo, hi) == lo .. hi - 1
Overlaps(m, lo, hi) == lo < m.end /\ hi > m.start
GuestPage(a) == a \div FrameSize

-----------------------------------------------------------------------------
(* After tetoImageFinish and tetoStackFinish: the image, and the start of  *)
(* the program at the top of the stack, have been written.                 *)
Init ==
  /\ maps = {}
  /\ next = FirstMap
  /\ brk = RoundUp(Floor)
  /\ dirty = Interval(0, Floor) \cup {Top - 1}
  /\ touched = {GuestPage(a) : a \in dirty}
  /\ left = Frames

(* guestAllowed for a store.  (The image is not written to here.)          *)
Writable(a) ==
  \/ Stack <= a
  \/ Floor <= a /\ a < brk
  \/ \E m \in maps : m.start <= a /\ a < m.end /\ m.prot = "rw"

(* A store of something other than zero; the first touch of a guest page   *)
(* takes a frame.                                                          *)
Write(a) ==
  /\ Writable(a)
  /\ Cardinality(dirty \cup {a}) <= MaxDirty
  /\ GuestPage(a) \in touched \/ left > 0
  /\ dirty' = dirty \cup {a}
  /\ touched' = touched \cup {GuestPage(a)}
  /\ left' = IF GuestPage(a) \in touched THEN left ELSE left - 1
  /\ UNCHANGED <<maps, next, brk>>

(* Another process takes a frame.                                          *)
TouchElsewhere ==
  /\ left > 0
  /\ left' = left - 1
  /\ UNCHANGED <<maps, next, brk, dirty, touched>>

-----------------------------------------------------------------------------
(* mappingConflict and mappingConflictExcept, among the mappings M.        *)

Conflict(M, lo, hi) ==
  \/ lo < RoundUp(brk + Guard)
  \/ hi <= lo \/ hi > Top
  \/ Stack <= Guard \/ hi >= Stack - Guard
  \/ \E m \in M : Overlaps(m, lo, hi)

Fits(at, size) == at <= Top /\ size <= Top - at
Room(at, size) == Fits(at, size) /\ ~Conflict(maps, at, at + size)

(* Where a search that begins at P_MAP_NEXT ends: at most one address.     *)
Searched(size) ==
  LET lowest == RoundUp(brk + Spacing)
      first == IF next < lowest \/ ~Fits(next, size) THEN lowest ELSE next
      candidate(k) == first + k * RoundUp(Spacing)
  IN {candidate(k) : k \in {k \in 0 .. Capacity + 1 :
        /\ Room(candidate(k), size)
        /\ \A j \in 0 .. k - 1 : ~Room(candidate(j), size) /\ candidate(j) <= Top - Spacing}}

(* The address of a new mapping, or none: a fixed one, the hint, or the    *)
(* result of the search.                                                   *)
Places(addr, size, fixed) ==
  LET hint == IF addr > Top - Page + 1 THEN 0 ELSE RoundUp(addr) IN
  CASE fixed -> {a \in {addr} : a % Page = 0 /\ Room(a, size)}
    [] ~fixed /\ hint # 0 /\ Room(hint, size) -> {hint}
    [] OTHER -> Searched(size)

(* Faulty variant: what is given up keeps its contents.                    *)
LeftDirty(lo, hi) == dirty
(* clearMappedRange.                                                       *)
Cleared(lo, hi) == dirty \ Interval(lo, hi)

(* Faulty variant: the table is taken to be large enough.                  *)
NeverFull(n) == TRUE
(* n more mappings have a place in the table.                              *)
TableHas(n) == n <= Capacity - Cardinality(maps)

(* anonymousMap.                                                           *)
Map(addr, length, prot, fixed) ==
  LET size == RoundUp(length) IN
  /\ TableHas(1)
  /\ \E at \in Places(addr, size, fixed) :
       /\ maps' = maps \cup {[start |-> at, end |-> at + size, prot |-> prot]}
       /\ dirty' = Cleared(at, at + size)
       /\ next' = Larger(next, at + size)
  /\ UNCHANGED <<brk, touched, left>>

-----------------------------------------------------------------------------
Hit(lo, hi) == {m \in maps : Overlaps(m, lo, hi)}

(* What lies below lo, and from hi on, of the mappings M.                  *)
Below(M, lo) == {[m EXCEPT !.end = lo] : m \in {m \in M : m.start < lo}}
Above(M, hi) == {[m EXCEPT !.start = hi] : m \in {m \in M : m.end > hi}}

(* The address arguments of munmap, mprotect and mremap.                   *)
Valid(addr, length) ==
  /\ addr % Page = 0
  /\ addr < Top /\ RoundUp(length) <= Top - addr

(* anonymousUnmap.  A range in no mapping is left to the host.             *)
Unmap(addr, length) ==
  LET end == addr + RoundUp(length)
      hit == Hit(addr, end) IN
  /\ Valid(addr, length)
  /\ hit # {}
  /\ TableHas(Cardinality({m \in hit : m.start < addr /\ end < m.end}))
  /\ maps' = (maps \ hit) \cup Below(hit, addr) \cup Above(hit, end)
  /\ dirty' = dirty \ UNION {Interval(Larger(addr, m.start), Smaller(end, m.end)) : m \in hit}
  /\ UNCHANGED <<next, brk, touched, left>>

(* mappingsCover.                                                          *)
Covered(lo, hi) == \A a \in Interval(lo, hi) : \E m \in maps : m.start <= a /\ a < m.end

(* The part of m inside the range, with its new protection.                *)
Part(m, lo, hi, prot) == [start |-> Larger(m.start, lo), end |-> Smaller(m.end, hi), prot |-> prot]

(* protectMappings.                                                        *)
Protect(addr, length, prot) ==
  LET end == addr + RoundUp(length)
      hit == Hit(addr, end)
      rests == Below(hit, addr) \cup Above(hit, end) IN
  /\ Valid(addr, length)
  /\ hit # {} /\ Covered(addr, end)
  /\ TableHas(Cardinality(rests))
  /\ maps' = (maps \ hit) \cup rests \cup {Part(m, addr, end, prot) : m \in hit}
  /\ UNCHANGED <<next, brk, dirty, touched, left>>

-----------------------------------------------------------------------------
(* remapAnonymous of the mapping m, which must be named exactly.           *)

RemapShorter(m, length) ==
  LET end == m.start + RoundUp(length) IN
  /\ end < m.end
  /\ maps' = (maps \ {m}) \cup {[m EXCEPT !.end = end]}
  /\ dirty' = Cleared(end, m.end)
  /\ UNCHANGED <<next, brk, touched, left>>

RemapLonger(m, length) ==
  LET end == m.start + RoundUp(length) IN
  /\ end > m.end
  /\ ~Conflict(maps \ {m}, m.start, end)
  /\ maps' = (maps \ {m}) \cup {[m EXCEPT !.end = end]}
  /\ dirty' = Cleared(m.end, end)
  /\ next' = Larger(next, end)
  /\ UNCHANGED <<brk, touched, left>>

(* There is no room to grow: a new mapping is made as by Map, with the old *)
(* one still there.                                                        *)
Moves(m, length, to) ==
  LET size == RoundUp(length) IN
  /\ m.start + size > m.end
  /\ Conflict(maps \ {m}, m.start, m.start + size)
  /\ TableHas(1)
  /\ to \in Searched(size)
  /\ next' = Larger(next, to + size)

(* The guest pages that the contents of the guest pages S move to.         *)
Images(m, to, S) ==
  {GuestPage(a - m.start + to) : a \in {a \in Interval(m.start, m.end) : GuestPage(a) \in S}} \ touched

(* The guest pages copyAllocatedRange takes a frame for.  One that it has  *)
(* just made may hold a part of the old mapping too; whether the loop over *)
(* the page table still comes to it depends on its slot.                   *)
Wanted(m, to) ==
  LET made == Images(m, to, touched) IN {made, made \cup Images(m, to, made)}

(* The contents after the copy and the unmapping of the old mapping.       *)
Moved(m, to) ==
  (dirty \ Interval(m.start, m.end)) \cup {a - m.start + to : a \in dirty \cap Interval(m.start, m.end)}

RemapElsewhere(m, length, to) ==
  /\ Moves(m, length, to)
  /\ \E got \in Wanted(m, to) :
       /\ Cardinality(got) <= left
       /\ touched' = touched \cup got
       /\ left' = left - Cardinality(got)
  /\ maps' = (maps \ {m}) \cup {[start |-> to, end |-> to + RoundUp(length), prot |-> m.prot]}
  /\ dirty' = Moved(m, to)
  /\ UNCHANGED brk

(* No frame is left for the rest of the copy, or another process holds     *)
(* C_MEMORY_LOCK when one is asked for: the new mapping is unmapped again, *)
(* the frames stay.                                                        *)
RemapFails(m, length, to) ==
  /\ Moves(m, length, to)
  /\ \E all \in Wanted(m, to) : \E got \in SUBSET all :
       /\ got # all /\ Cardinality(got) <= left
       /\ touched' = touched \cup got
       /\ left' = left - Cardinality(got)
  /\ UNCHANGED <<maps, brk, dirty>>

-----------------------------------------------------------------------------
(* Faulty variant: the break may come up to a mapping.                     *)
StackOnly(r) == r >= Stack \/ Stack - r <= Guard
(* What programBreak refuses.                                              *)
Collides(r) ==
  \/ r >= Stack \/ Stack - r <= Guard
  \/ \E m \in maps : m.start <= Guard \/ r >= m.start - Guard

Break(r) ==
  /\ r >= Floor /\ ~Collides(r)
  /\ brk' = r
  /\ dirty' = IF r < brk THEN Cleared(r, brk) ELSE dirty
  /\ UNCHANGED <<maps, next, touched, left>>

Remap ==
  \E m \in maps, length \in Lengths :
    \/ RemapShorter(m, length)
    \/ RemapLonger(m, length)
    \/ \E to \in Units : RemapElsewhere(m, length, to) \/ RemapFails(m, length, to)

Next ==
  \/ \E a \in Units : Write(a)
  \/ TouchElsewhere
  \/ \E addr \in Units, length \in Lengths :
       \/ \E prot \in Protections, fixed \in BOOLEAN : Map(addr, length, prot, fixed)
       \/ Unmap(addr, length)
       \/ \E prot \in Protections : Protect(addr, length, prot)
  \/ Remap
  \/ \E r \in Units : Break(r)

Spec == Init /\ [][Next]_vars

-----------------------------------------------------------------------------
(* The range of every variable; the table does not overflow.               *)
TypeOK ==
  /\ maps \subseteq Mapping /\ Cardinality(maps) <= Capacity
  /\ next \in Nat
  /\ brk \in Units
  /\ dirty \subseteq Units
  /\ touched \subseteq {GuestPage(a) : a \in Units}
  /\ left \in 0 .. Frames

(* Mappings do not overlap, and keep their distance from the heap and from *)
(* the stack, in whatever order mappings are made, split, moved and grown  *)
(* and the break is changed.                                               *)
RegionsApart ==
  /\ \A m \in maps :
       /\ m.start < m.end
       /\ brk + Guard <= m.start
       /\ m.end < Stack - Guard
  /\ \A m, n \in maps : m # n => ~Overlaps(m, n.start, n.end)

(* What a program sees of it all.                                          *)
OwnerOf(a) ==
  CASE a < Floor -> "image"
    [] Floor <= a /\ a < brk -> "heap"
    [] Stack <= a -> "stack"
    [] \E m \in maps : m.start <= a /\ a < m.end ->
         (CHOOSE m \in maps : m.start <= a /\ a < m.end).prot
    [] OTHER -> "none"

owner == [a \in Units |-> OwnerOf(a)]
Space == INSTANCE AddressSpace WITH Fixed <- {"image", "heap", "stack"}

(* The mapping table implements the address space of AddressSpace: memory  *)
(* that is mapped, or given to the heap, reads zero whatever was there     *)
(* before; a mapping that moves keeps its contents; a failed call leaves   *)
(* everything as it was; and nothing but the range that is named changes.  *)
ImplementsSpace == Space!Spec
=============================================================================
