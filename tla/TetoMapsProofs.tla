--------------------------- MODULE TetoMapsProofs ---------------------------
(***************************************************************************)
(* Proofs about the mapping table of a Teto process: its invariants, and,  *)
(* step by step, that it implements AddressSpace, for an address space and *)
(* a table of any size.                                                    *)
(***************************************************************************)
EXTENDS TetoMaps, TLAPS, FiniteSetTheorems

-----------------------------------------------------------------------------
(* The helpers.                                                            *)

(* Rounding goes up, by less than a page.                                  *)
LEMMA RoundUpBounds ==
  ASSUME NEW n \in Nat
  PROVE  RoundUp(n) \in Nat /\ n <= RoundUp(n) /\ RoundUp(n) < n + Page
BY MapsAssumption DEF RoundUp

(* A unit has a guest page.                                                *)
LEMMA GuestPageType == \A a \in Nat : GuestPage(a) \in Nat
BY MapsAssumption DEF GuestPage

(* A set that a function covers is no larger than the function's domain.   *)
LEMMA CoveredIsSmaller ==
  ASSUME NEW S, IsFiniteSet(S), NEW T, NEW f \in [S -> T], \A t \in T : \E s \in S : f[s] = t
  PROVE  IsFiniteSet(T) /\ Cardinality(T) <= Cardinality(S)
<1>1. f \in Surjection(S, T)
  BY DEF Surjection
<1> QED
  BY <1>1, FS_Surjection

(* What is cut off below lo, or above hi, comes one piece from each.       *)
LEMMA BelowCount ==
  ASSUME NEW M, IsFiniteSet(M), NEW lo
  PROVE  /\ IsFiniteSet(Below(M, lo))
         /\ Cardinality(Below(M, lo)) <= Cardinality({m \in M : m.start < lo})
<1> DEFINE S == {m \in M : m.start < lo}
           f == [m \in S |-> [m EXCEPT !.end = lo]]
<1>1. IsFiniteSet(S)
  BY FS_Subset
<1>2. f \in [S -> Below(M, lo)] /\ \A t \in Below(M, lo) : \E m \in S : f[m] = t
  BY DEF Below
<1> QED
  BY <1>1, <1>2, CoveredIsSmaller

(* The same of the pieces above the upper end.                             *)
LEMMA AboveCount ==
  ASSUME NEW M, IsFiniteSet(M), NEW hi
  PROVE  /\ IsFiniteSet(Above(M, hi))
         /\ Cardinality(Above(M, hi)) <= Cardinality({m \in M : m.end > hi})
<1> DEFINE S == {m \in M : m.end > hi}
           f == [m \in S |-> [m EXCEPT !.start = hi]]
<1>1. IsFiniteSet(S)
  BY FS_Subset
<1>2. f \in [S -> Above(M, hi)] /\ \A t \in Above(M, hi) : \E m \in S : f[m] = t
  BY DEF Above
<1> QED
  BY <1>1, <1>2, CoveredIsSmaller

(* What is protected is no more than what is hit.                          *)
LEMMA PartsCount ==
  ASSUME NEW M, IsFiniteSet(M), NEW lo, NEW hi, NEW prot
  PROVE  /\ IsFiniteSet({Part(m, lo, hi, prot) : m \in M})
         /\ Cardinality({Part(m, lo, hi, prot) : m \in M}) <= Cardinality(M)
<1> DEFINE T == {Part(m, lo, hi, prot) : m \in M}
           f == [m \in M |-> Part(m, lo, hi, prot)]
<1>1. f \in [M -> T] /\ \A t \in T : \E m \in M : f[m] = t
  OBVIOUS
<1> QED
  BY <1>1, CoveredIsSmaller

(* The hit mappings make place for what is put in their stead.             *)
LEMMA ReplacedCount ==
  ASSUME NEW M, IsFiniteSet(M), NEW hit \in SUBSET M, NEW new, IsFiniteSet(new), NEW n \in Int,
         Cardinality(new) <= Cardinality(hit) + n, n <= Capacity - Cardinality(M)
  PROVE  /\ IsFiniteSet((M \ hit) \cup new)
         /\ Cardinality((M \ hit) \cup new) <= Capacity
<1>1. IsFiniteSet(hit) /\ IsFiniteSet(M \ hit)
  BY FS_Subset, FS_Difference
<1>2. Cardinality(M \ hit) = Cardinality(M) - Cardinality(hit)
  <2>1. M \cap hit = hit
    OBVIOUS
  <2> QED
    BY <2>1, FS_Difference
<1>3. /\ Cardinality(M \ hit) \in Nat /\ Cardinality(hit) \in Nat /\ Cardinality(M) \in Nat
      /\ Cardinality(new) \in Nat
  BY <1>1, FS_CardinalityType
<1>4. /\ IsFiniteSet((M \ hit) \cup new)
      /\ Cardinality((M \ hit) \cup new) <= Cardinality(M \ hit) + Cardinality(new)
  <2>1. IsFiniteSet((M \ hit) \cap new)
    BY <1>1, FS_Intersection
  <2>2. Cardinality((M \ hit) \cap new) \in Nat
    BY <2>1, FS_CardinalityType
  <2>3. /\ IsFiniteSet((M \ hit) \cup new)
        /\ Cardinality((M \ hit) \cup new)
             = Cardinality(M \ hit) + Cardinality(new) - Cardinality((M \ hit) \cap new)
    BY <1>1, FS_Union
  <2> QED
    BY <1>3, <2>2, <2>3
<1>5. Cardinality((M \ hit) \cup new) \in Nat
  BY <1>4, FS_CardinalityType
<1> QED
  BY <1>2, <1>3, <1>4, <1>5, MapsAssumption

(* The union of two sets has no more elements than both together.          *)
LEMMA UnionCount ==
  ASSUME NEW S, IsFiniteSet(S), NEW T, IsFiniteSet(T)
  PROVE  /\ IsFiniteSet(S \cup T)
         /\ Cardinality(S \cup T) <= Cardinality(S) + Cardinality(T)
<1>1. IsFiniteSet(S \cap T)
  BY FS_Intersection
<1>2. /\ Cardinality(S) \in Nat /\ Cardinality(T) \in Nat
      /\ Cardinality(S \cap T) \in Nat
  BY <1>1, FS_CardinalityType
<1>3. /\ IsFiniteSet(S \cup T)
      /\ Cardinality(S \cup T) = Cardinality(S) + Cardinality(T) - Cardinality(S \cap T)
  BY FS_Union
<1> QED
  BY <1>2, <1>3

(* The mappings of M that a range cuts on both sides.                      *)
Torn(M, lo, hi) == {m \in M : m.start < lo /\ hi < m.end}

(* A split needs a place only where both ends stick out.                   *)
LEMMA SplitCount ==
  ASSUME NEW M, IsFiniteSet(M), NEW lo, NEW hi
  PROVE  /\ IsFiniteSet(Below(M, lo) \cup Above(M, hi))
         /\ Cardinality(Torn(M, lo, hi)) \in Nat
         /\ (\A m \in M : m.start \in Int /\ m.end \in Int) /\ lo \in Int /\ hi \in Int =>
              Cardinality(Below(M, lo) \cup Above(M, hi))
                <= Cardinality(M) + Cardinality(Torn(M, lo, hi))
<1> USE DEF Torn
<1> DEFINE A == {m \in M : m.start < lo}
           B == {m \in M : m.end > hi}
           C == {m \in M : m.start < lo /\ hi < m.end}
<1>1. IsFiniteSet(A) /\ IsFiniteSet(B) /\ IsFiniteSet(C) /\ IsFiniteSet(A \cup B)
  BY FS_Subset
<1>2. /\ Cardinality(A) \in Nat /\ Cardinality(B) \in Nat /\ Cardinality(C) \in Nat
      /\ Cardinality(A \cup B) \in Nat /\ Cardinality(M) \in Nat
  BY <1>1, FS_CardinalityType
<1>3. /\ IsFiniteSet(Below(M, lo)) /\ Cardinality(Below(M, lo)) <= Cardinality(A)
      /\ IsFiniteSet(Above(M, hi)) /\ Cardinality(Above(M, hi)) <= Cardinality(B)
  BY BelowCount, AboveCount
<1>4. /\ IsFiniteSet(Below(M, lo) \cup Above(M, hi))
      /\ Cardinality(Below(M, lo) \cup Above(M, hi))
           <= Cardinality(Below(M, lo)) + Cardinality(Above(M, hi))
  BY <1>3, UnionCount
<1>5. ASSUME \A m \in M : m.start \in Int /\ m.end \in Int, lo \in Int, hi \in Int
      PROVE  Cardinality(A) + Cardinality(B) <= Cardinality(M) + Cardinality(C)
  <2>1. A \cap B = C
    BY <1>5
  <2>2. Cardinality(A \cup B) = Cardinality(A) + Cardinality(B) - Cardinality(C)
    <3>1. Cardinality(A \cup B) = Cardinality(A) + Cardinality(B) - Cardinality(A \cap B)
      BY <1>1, FS_Union
    <3> HIDE DEF A, B, C
    <3> QED
      BY <2>1, <3>1
  <2>3. Cardinality(A \cup B) <= Cardinality(M)
    BY FS_Subset
  <2> HIDE DEF A, B, C
  <2> QED
    BY <1>2, <2>1, <2>2, <2>3
<1>6. /\ Cardinality(Below(M, lo)) \in Nat /\ Cardinality(Above(M, hi)) \in Nat
      /\ Cardinality(Below(M, lo) \cup Above(M, hi)) \in Nat
  BY <1>3, <1>4, FS_CardinalityType
<1> QED
  BY <1>2, <1>3, <1>4, <1>5, <1>6

-----------------------------------------------------------------------------
(* Where a mapping may be made.                                            *)

(* What Conflict denies of a range, the range has.                         *)
LEMMA NoConflict ==
  ASSUME TypeOK, NEW M \in SUBSET maps, NEW lo \in Nat, NEW hi \in Int, ~Conflict(M, lo, hi)
  PROVE  /\ brk + Guard <= lo /\ lo < hi /\ hi <= Top /\ hi < Stack - Guard
         /\ \A m \in M : m.end <= lo \/ hi <= m.start
<1>1. brk + Guard \in Nat
  BY MapsAssumption DEF TypeOK, Units
<1>2. RoundUp(brk + Guard) \in Nat /\ brk + Guard <= RoundUp(brk + Guard)
  BY <1>1, RoundUpBounds
<1>3. lo >= RoundUp(brk + Guard) /\ hi > lo /\ hi <= Top /\ hi < Stack - Guard
  BY <1>2, MapsAssumption DEF Conflict
<1>4. ASSUME NEW m \in M PROVE m.end <= lo \/ hi <= m.start
  <2>1. m.start \in Int /\ m.end \in Int
    BY DEF TypeOK, Mapping
  <2> QED
    BY <2>1 DEF Conflict, Overlaps
<1> QED
  BY <1>1, <1>2, <1>3, <1>4

(* A place of that size is in the address space and clear of all else.     *)
LEMMA RoomIsClear ==
  ASSUME TypeOK, NEW at \in Nat, NEW size \in Nat, Room(at, size)
  PROVE  /\ at + size \in 0 .. Top /\ at \in 0 .. Top
         /\ brk + Guard <= at /\ at < at + size /\ at + size < Stack - Guard
         /\ \A m \in maps : m.end <= at \/ at + size <= m.start
  BY NoConflict, MapsAssumption DEF Room, Fits

(* The search ends where there is room.                                    *)
LEMMA SearchedRoom ==
  ASSUME TypeOK, NEW size \in Nat, NEW at \in Searched(size)
  PROVE  at \in Nat /\ Room(at, size)
<1> DEFINE lowest == RoundUp(brk + Spacing)
           first == IF next < lowest \/ ~Fits(next, size) THEN lowest ELSE next
           candidate(k) == first + k * RoundUp(Spacing)
<1>1. lowest \in Nat /\ RoundUp(Spacing) \in Nat
  BY MapsAssumption, RoundUpBounds DEF TypeOK, Units
<1>2. first \in Nat
  BY <1>1 DEF TypeOK
<1> HIDE DEF first
<1>3. PICK k \in 0 .. Capacity + 1 : at = candidate(k) /\ Room(candidate(k), size)
  BY DEF Searched, first
<1>4. candidate(k) \in Nat
  <2>1. k \in Nat
    BY MapsAssumption
  <2> QED
    BY <1>1, <1>2, <2>1
<1> QED
  BY <1>3, <1>4

(* So does the placing of a new mapping.                                   *)
LEMMA PlacesRoom ==
  ASSUME TypeOK, NEW addr \in Units, NEW size \in Nat, NEW fixed \in BOOLEAN,
         NEW at \in Places(addr, size, fixed)
  PROVE  at \in Nat /\ Room(at, size)
<1> DEFINE hint == IF addr > Top - Page + 1 THEN 0 ELSE RoundUp(addr)
<1>1. addr \in Nat /\ hint \in Nat
  BY RoundUpBounds, MapsAssumption DEF Units
<1> HIDE DEF hint
<1>2. CASE fixed
  BY <1>1, <1>2 DEF Places, hint
<1>3. CASE ~fixed /\ hint # 0 /\ Room(hint, size)
  <2>1. Places(addr, size, fixed) = {hint}
    BY <1>3, Zenon DEF Places, hint
  <2> QED
    BY <1>1, <1>3, <2>1
<1>4. CASE ~fixed /\ ~(hint # 0 /\ Room(hint, size))
  <2>1. Places(addr, size, fixed) = Searched(size)
    BY <1>4, Zenon DEF Places, hint
  <2> QED
    BY <2>1, SearchedRoom
<1> QED
  BY <1>2, <1>3, <1>4

-----------------------------------------------------------------------------
(* The table is finite, whatever the address space.                        *)
TypeInv == TypeOK /\ IsFiniteSet(maps)

(* The program starts with an empty table.                                 *)
LEMMA TypeInit == Init => TypeInv
<1> SUFFICES ASSUME Init PROVE TypeInv
  OBVIOUS
<1>1. IsFiniteSet(maps) /\ Cardinality(maps) <= Capacity
  BY FS_EmptySet, MapsAssumption DEF Init
<1>2. brk \in Units
  <2>1. RoundUp(Floor) \in Nat /\ RoundUp(Floor) < Floor + Page
    BY RoundUpBounds, MapsAssumption
  <2> QED
    BY <2>1, MapsAssumption DEF Init, Units
<1>3. dirty \subseteq Units
  BY MapsAssumption DEF Init, Units, Interval
<1>4. touched \subseteq {GuestPage(a) : a \in Units}
  BY <1>3 DEF Init
<1> QED
  BY <1>1, <1>2, <1>3, <1>4, MapsAssumption DEF Init, TypeInv, TypeOK

(* A mapping that is changed in place keeps the table within its size.     *)
LEMMA ExchangedTable ==
  ASSUME TypeInv, NEW m \in maps, NEW x \in Mapping, maps' = (maps \ {m}) \cup {x}
  PROVE  maps' \subseteq Mapping /\ IsFiniteSet(maps') /\ Cardinality(maps') <= Capacity
<1>1. /\ IsFiniteSet({x}) /\ Cardinality({x}) = 1 /\ Cardinality({m}) = 1
      /\ Cardinality(maps) \in Nat
  BY FS_Singleton, FS_CardinalityType DEF TypeInv
<1>2. 0 <= Capacity - Cardinality(maps)
  BY <1>1, MapsAssumption DEF TypeInv, TypeOK
<1>3. IsFiniteSet((maps \ {m}) \cup {x}) /\ Cardinality((maps \ {m}) \cup {x}) <= Capacity
  <2>1. {m} \in SUBSET maps /\ Cardinality({x}) <= Cardinality({m}) + 0
    BY <1>1
  <2> QED
    BY <1>1, <1>2, <2>1, ReplacedCount DEF TypeInv
<1> QED
  BY <1>3 DEF TypeInv, TypeOK

(* The frames that a copy takes are guest pages, finitely many.            *)
LEMMA WantedFrames ==
  ASSUME TypeOK, NEW m \in maps, NEW to \in Nat, NEW size \in Nat, to + size <= Top,
         m.start + size > m.end, NEW all \in Wanted(m, to), NEW got \in SUBSET all
  PROVE  /\ IsFiniteSet(got) /\ Cardinality(got) \in Nat
         /\ got \subseteq {GuestPage(a) : a \in Units}
<1> DEFINE D == Interval(m.start, m.end)
           f == [a \in D |-> GuestPage(a - m.start + to)]
           T == {f[a] : a \in D}
<1>1. m.start \in Nat /\ m.end \in Nat
  BY DEF TypeOK, Mapping
<1>2. IsFiniteSet(T)
  <2>1. m.start \in Int /\ m.end - 1 \in Int
    BY <1>1
  <2>2. IsFiniteSet(m.start .. m.end - 1)
    BY <2>1, FS_Interval
  <2>3. IsFiniteSet(D)
    BY <2>2 DEF Interval
  <2>4. f \in [D -> T] /\ \A t \in T : \E a \in D : f[a] = t
    OBVIOUS
  <2> HIDE DEF D, f, T
  <2> QED
    BY <2>3, <2>4, CoveredIsSmaller
<1>3. T \subseteq {GuestPage(a) : a \in Units}
  <2>1. ASSUME NEW a \in D PROVE a - m.start + to \in Units
    BY <1>1, MapsAssumption DEF Interval, Units
  <2> QED
    BY <2>1
<1>4. \A S : Images(m, to, S) \subseteq T
  BY DEF Images
<1>5. all \subseteq T
  BY <1>4 DEF Wanted
<1> HIDE DEF T
<1>6. IsFiniteSet(got)
  BY <1>2, <1>5, FS_Subset
<1> QED
  BY <1>3, <1>5, <1>6, FS_CardinalityType

(* A length that is asked for is rounded to one that is not zero.          *)
LEMMA LengthRounded ==
  ASSUME NEW length \in Lengths
  PROVE  RoundUp(length) \in Nat /\ RoundUp(length) > 0
BY RoundUpBounds, MapsAssumption

(* A valid range lies in the address space.                                *)
LEMMA ValidRange ==
  ASSUME NEW addr \in Units, NEW length \in Lengths, Valid(addr, length)
  PROVE  /\ addr \in 0 .. Top /\ addr + RoundUp(length) \in 0 .. Top
         /\ addr < addr + RoundUp(length)
BY LengthRounded, MapsAssumption DEF Valid, Units

(* A mapping is made only while the table has a place for it.              *)
LEMMA MapType ==
  ASSUME TypeInv, NEW addr \in Units, NEW length \in Lengths, NEW prot \in Protections,
         NEW fixed \in BOOLEAN, Map(addr, length, prot, fixed)
  PROVE  TypeInv'
<1> DEFINE size == RoundUp(length)
<1>1. size \in Nat
  BY LengthRounded
<1> HIDE DEF size
<1>2. PICK at \in Places(addr, size, fixed) :
        /\ maps' = maps \cup {[start |-> at, end |-> at + size, prot |-> prot]}
        /\ dirty' = Cleared(at, at + size)
        /\ next' = Larger(next, at + size)
  BY DEF Map, size
<1>3. at \in 0 .. Top /\ at + size \in 0 .. Top
  BY <1>1, <1>2, PlacesRoom, RoomIsClear DEF TypeInv
<1> DEFINE x == [start |-> at, end |-> at + size, prot |-> prot]
<1>4. x \in Mapping
  BY <1>3 DEF Mapping
<1> HIDE DEF x
<1>5. maps' = maps \cup {x}
  BY <1>2 DEF x
<1>6. IsFiniteSet(maps') /\ Cardinality(maps') <= Capacity
  <2>1. 1 <= Capacity - Cardinality(maps) /\ Cardinality(maps) \in Nat
    BY FS_CardinalityType DEF Map, TableHas, TypeInv
  <2>2. /\ IsFiniteSet(maps \cup {x})
        /\ Cardinality(maps \cup {x}) \in {Cardinality(maps), Cardinality(maps) + 1}
    BY FS_AddElement DEF TypeInv
  <2>3. Capacity \in Nat
    BY MapsAssumption
  <2> QED
    BY <1>5, <2>1, <2>2, <2>3
<1>7. next' \in Nat /\ dirty' \subseteq Units
  BY <1>2, <1>3 DEF Larger, Cleared, TypeInv, TypeOK
<1> QED
  BY <1>4, <1>5, <1>6, <1>7 DEF Map, TypeInv, TypeOK

(* The pieces of mappings that are hit are mappings.                       *)
LEMMA PiecesType ==
  ASSUME TypeOK, NEW lo \in 0 .. Top, NEW hi \in 0 .. Top, NEW prot \in Protections
  PROVE  /\ Hit(lo, hi) \subseteq maps
         /\ Below(Hit(lo, hi), lo) \subseteq Mapping /\ Above(Hit(lo, hi), hi) \subseteq Mapping
         /\ \A m \in Hit(lo, hi) : Part(m, lo, hi, prot) \in Mapping
<1>1. Hit(lo, hi) \subseteq maps /\ Hit(lo, hi) \subseteq Mapping
  BY DEF Hit, TypeOK
<1>2. Below(Hit(lo, hi), lo) \subseteq Mapping /\ Above(Hit(lo, hi), hi) \subseteq Mapping
  BY <1>1 DEF Below, Above, Mapping
<1>3. \A m \in Hit(lo, hi) : Part(m, lo, hi, prot) \in Mapping
  BY <1>1 DEF Part, Mapping, Larger, Smaller
<1> QED
  BY <1>1, <1>2, <1>3

(* Unmapping.                                                              *)
LEMMA UnmapType ==
  ASSUME TypeInv, NEW addr \in Units, NEW length \in Lengths, Unmap(addr, length)
  PROVE  TypeInv'
<1> DEFINE end == addr + RoundUp(length)
           hit == Hit(addr, end)
           split == Torn(hit, addr, end)
           new == Below(hit, addr) \cup Above(hit, end)
<1>1. addr \in 0 .. Top /\ end \in 0 .. Top
  BY ValidRange DEF Unmap
<1>2. /\ maps' = (maps \ hit) \cup new /\ Cardinality(split) <= Capacity - Cardinality(maps)
      /\ dirty' \subseteq dirty
  BY DEF Unmap, TableHas, Torn
<1>3. hit \subseteq maps /\ new \subseteq Mapping
  BY <1>1, PiecesType DEF TypeInv, Protections
<1>4. \A m \in hit : m.start \in Int /\ m.end \in Int
  BY <1>3 DEF TypeInv, TypeOK, Mapping
<1>5. IsFiniteSet(hit)
  BY <1>3, FS_Subset DEF TypeInv
<1>6. addr \in Int /\ end \in Int
  BY <1>1
<1> HIDE DEF hit, end
<1>7. /\ IsFiniteSet(new) /\ Cardinality(split) \in Nat
      /\ Cardinality(new) <= Cardinality(hit) + Cardinality(split)
  BY <1>4, <1>5, <1>6, SplitCount
<1> HIDE DEF new, split
<1>8. IsFiniteSet(maps') /\ Cardinality(maps') <= Capacity
  BY <1>2, <1>3, <1>7, ReplacedCount DEF TypeInv
<1> QED
  BY <1>2, <1>3, <1>8 DEF Unmap, TypeInv, TypeOK

(* Protecting.                                                             *)
LEMMA ProtectType ==
  ASSUME TypeInv, NEW addr \in Units, NEW length \in Lengths, NEW prot \in Protections,
         Protect(addr, length, prot)
  PROVE  TypeInv'
<1> DEFINE end == addr + RoundUp(length)
           hit == Hit(addr, end)
           rests == Below(hit, addr) \cup Above(hit, end)
           parts == {Part(m, addr, end, prot) : m \in hit}
           new == rests \cup parts
<1>1. addr \in 0 .. Top /\ end \in 0 .. Top
  BY ValidRange DEF Protect
<1>2. maps' = (maps \ hit) \cup new /\ Cardinality(rests) <= Capacity - Cardinality(maps)
  BY DEF Protect, TableHas
<1>3. hit \subseteq maps /\ new \subseteq Mapping
  BY <1>1, PiecesType DEF TypeInv
<1>4. IsFiniteSet(hit)
  BY <1>3, FS_Subset DEF TypeInv
<1> HIDE DEF end, hit
<1>5. IsFiniteSet(rests)
  BY <1>4, BelowCount, AboveCount, FS_Union
<1>6. IsFiniteSet(parts) /\ Cardinality(parts) <= Cardinality(hit)
  BY <1>4, PartsCount
<1> HIDE DEF rests, parts
<1>7. /\ Cardinality(rests) \in Nat /\ Cardinality(parts) \in Nat /\ Cardinality(hit) \in Nat
      /\ IsFiniteSet(new) /\ Cardinality(new) \in Nat
      /\ Cardinality(new) <= Cardinality(rests) + Cardinality(parts)
  BY <1>4, <1>5, <1>6, UnionCount, FS_CardinalityType
<1> HIDE DEF new
<1>8. Cardinality(new) <= Cardinality(hit) + Cardinality(rests)
  BY <1>6, <1>7
<1>9. IsFiniteSet(maps') /\ Cardinality(maps') <= Capacity
  BY <1>2, <1>3, <1>7, <1>8, ReplacedCount DEF TypeInv
<1> QED
  BY <1>2, <1>3, <1>9 DEF Protect, TypeInv, TypeOK

(* Remapping, in place or elsewhere, done or given up.                     *)
LEMMA RemapType == TypeInv /\ Remap => TypeInv'
<1> SUFFICES ASSUME TypeInv, NEW m \in maps, NEW length \in Lengths,
                    \/ RemapShorter(m, length) \/ RemapLonger(m, length)
                    \/ \E to \in Units : RemapElsewhere(m, length, to) \/ RemapFails(m, length, to)
             PROVE  TypeInv'
  BY DEF Remap
<1> DEFINE size == RoundUp(length)
<1>1. size \in Nat
  BY LengthRounded
<1> HIDE DEF size
<1>2. m.start \in 0 .. Top /\ m.end \in 0 .. Top /\ m.prot \in Protections /\ m \in Mapping
  BY DEF TypeInv, TypeOK, Mapping
<1>3. CASE RemapShorter(m, length) \/ RemapLonger(m, length)
  <2> DEFINE end == m.start + size
             x == [m EXCEPT !.end = end]
  <2>1. end \in 0 .. Top
    <3>1. CASE RemapShorter(m, length)
      <4>1. end < m.end
        BY <3>1 DEF RemapShorter, size
      <4> QED
        BY <1>1, <1>2, <4>1, MapsAssumption
    <3>2. CASE RemapLonger(m, length)
      <4>1. ~Conflict(maps \ {m}, m.start, end)
        BY <3>2 DEF RemapLonger, size
      <4>2. ~(end > Top)
        BY <4>1 DEF Conflict
      <4> QED
        BY <1>1, <1>2, <4>2, MapsAssumption
    <3> QED
      BY <1>3, <3>1, <3>2
  <2>2. maps' = (maps \ {m}) \cup {x}
    BY <1>3 DEF RemapShorter, RemapLonger, size
  <2>3. x \in Mapping
    BY <1>2, <2>1 DEF Mapping
  <2> HIDE DEF x
  <2>4. maps' \subseteq Mapping /\ IsFiniteSet(maps') /\ Cardinality(maps') <= Capacity
    BY <2>2, <2>3, ExchangedTable
  <2>5. next' \in Nat /\ dirty' \subseteq dirty /\ UNCHANGED <<brk, touched, left>>
    BY <1>3, <2>1 DEF RemapShorter, RemapLonger, Larger, Cleared, size, TypeInv, TypeOK
  <2> QED
    BY <2>4, <2>5 DEF TypeInv, TypeOK
<1>4. ASSUME NEW to \in Units, RemapElsewhere(m, length, to) \/ RemapFails(m, length, to)
      PROVE  TypeInv'
  <2>1. Moves(m, length, to)
    BY <1>4 DEF RemapElsewhere, RemapFails
  <2>2. to \in Nat /\ Room(to, size) /\ m.start + size > m.end /\ next' = Larger(next, to + size)
    BY <2>1, <1>1, SearchedRoom DEF Moves, size, TypeInv
  <2>3. to + size \in 0 .. Top /\ to \in 0 .. Top
    BY <2>2, <1>1, RoomIsClear DEF TypeInv
  <2> DEFINE Takes(got) == /\ Cardinality(got) <= left
                           /\ touched' = touched \cup got /\ left' = left - Cardinality(got)
  <2>0. PICK all \in Wanted(m, to) : \E got \in SUBSET all : Takes(got)
    BY <1>4 DEF RemapElsewhere, RemapFails
  <2>4. PICK got \in SUBSET all : Takes(got)
    BY <2>0
  <2>5. touched' \subseteq {GuestPage(a) : a \in Units} /\ left' \in 0 .. Frames
    <3>1. /\ IsFiniteSet(got) /\ Cardinality(got) \in Nat
          /\ got \subseteq {GuestPage(a) : a \in Units}
      BY <1>1, <2>2, <2>3, <2>4, WantedFrames DEF TypeInv
    <3> QED
      BY <2>4, <3>1, MapsAssumption DEF TypeInv, TypeOK
  <2>6. next' \in Nat
    BY <2>2, <2>3 DEF Larger, TypeInv, TypeOK
  <2>7. CASE RemapElsewhere(m, length, to)
    <3> DEFINE x == [start |-> to, end |-> to + size, prot |-> m.prot]
    <3>1. x \in Mapping
      BY <1>2, <2>3 DEF Mapping
    <3>2. maps' = (maps \ {m}) \cup {x} /\ dirty' = Moved(m, to) /\ brk' = brk
      BY <2>7 DEF RemapElsewhere, size
    <3> HIDE DEF x
    <3>3. maps' \subseteq Mapping /\ IsFiniteSet(maps') /\ Cardinality(maps') <= Capacity
      BY <3>1, <3>2, ExchangedTable
    <3>4. dirty' \subseteq Units
      <4>1. ASSUME NEW a \in dirty \cap Interval(m.start, m.end) PROVE a - m.start + to \in Units
        BY <1>1, <1>2, <2>2, <2>3, MapsAssumption DEF Interval, Units, TypeInv, TypeOK
      <4> QED
        BY <3>2, <4>1 DEF Moved, TypeInv, TypeOK
    <3> QED
      BY <2>5, <2>6, <3>2, <3>3, <3>4 DEF TypeInv, TypeOK
  <2>8. CASE RemapFails(m, length, to)
    BY <2>5, <2>6, <2>8 DEF RemapFails, TypeInv, TypeOK
  <2> QED
    BY <1>4, <2>7, <2>8
<1> QED
  BY <1>3, <1>4

(* TypeInv is inductive.                                                   *)
LEMMA TypeStep == TypeInv /\ [Next]_vars => TypeInv'
<1> SUFFICES ASSUME TypeInv, [Next]_vars PROVE TypeInv'
  OBVIOUS
<1>1. ASSUME NEW a \in Units, Write(a) PROVE TypeInv'
  BY <1>1, MapsAssumption DEF Write, TypeInv, TypeOK
<1>2. CASE TouchElsewhere
  BY <1>2, MapsAssumption DEF TouchElsewhere, TypeInv, TypeOK
<1>3. ASSUME NEW r \in Units, Break(r) PROVE TypeInv'
  BY <1>3 DEF Break, Cleared, TypeInv, TypeOK
<1>4. CASE UNCHANGED vars
  BY <1>4 DEF vars, TypeInv, TypeOK
<1> QED
  BY <1>1, <1>2, <1>3, <1>4, MapType, UnmapType, ProtectType, RemapType DEF Next

(* The mapping table never overflows, a frame is never taken that is not   *)
(* there, and addresses stay in the address space.                         *)
THEOREM TypeCorrect == Spec => []TypeOK
<1>1. TypeInv => TypeOK
  BY DEF TypeInv
<1> QED
  BY <1>1, TypeInit, TypeStep, PTL DEF Spec

-----------------------------------------------------------------------------
(* Regions are apart.                                                      *)

(* What RegionsApart says of one mapping, and of two, in numbers.          *)
Clear(m) == m.start < m.end /\ brk + Guard <= m.start /\ m.end < Stack - Guard
Apart(m, n) == m.end <= n.start \/ n.end <= m.start
Inside(x, m) == m.start <= x.start /\ x.start < x.end /\ x.end <= m.end

(* The two ways to say it are the same, for mappings.                      *)
LEMMA ApartMeans ==
  ASSUME maps \subseteq Mapping
  PROVE  RegionsApart <=> /\ \A m \in maps : Clear(m)
                          /\ \A m, n \in maps : m # n => Apart(m, n)
<1>1. \A m \in maps : m.start \in Int /\ m.end \in Int
  BY DEF Mapping
<1>2. \A m, n \in maps : Apart(m, n) <=> ~Overlaps(m, n.start, n.end)
  BY <1>1 DEF Apart, Overlaps
<1> QED
  BY <1>2 DEF RegionsApart, Clear

(* A mapping is put beside others, in the place of those that are gone.    *)
LEMMA Inserted ==
  ASSUME TypeInv, TypeInv', RegionsApart, brk' = brk, NEW M \in SUBSET maps, NEW x \in Mapping,
         maps' = M \cup {x}, Clear(x), \A m \in M : Apart(m, x)
  PROVE  RegionsApart'
<1>1. \A m \in maps' : Clear(m)'
  BY ApartMeans DEF Clear, TypeInv, TypeOK
<1>2. ASSUME NEW m \in maps', NEW n \in maps', m # n
      PROVE  Apart(m, n)
  BY <1>2, ApartMeans DEF Apart, TypeInv, TypeOK
<1>3. \A m \in maps' : m \in Mapping
  BY DEF TypeInv, TypeOK
<1> QED
  BY <1>1, <1>2, <1>3 DEF RegionsApart, Clear, Apart, Overlaps, Mapping

(* Every mapping is cut at lo and at hi, and nothing is moved.             *)
LEMMA Sliced ==
  ASSUME TypeInv, TypeInv', RegionsApart, brk' = brk, NEW lo \in 0 .. Top, NEW hi \in 0 .. Top,
         lo < hi, NEW prot,
         \A x \in maps' : \/ x \in maps \ Hit(lo, hi)
                         \/ x \in Below(Hit(lo, hi), lo) \/ x \in Above(Hit(lo, hi), hi)
                         \/ \E m \in Hit(lo, hi) : x = Part(m, lo, hi, prot)
  PROVE  RegionsApart'
<1> DEFINE Slice(x, m) ==
             \/ x = m /\ m \notin Hit(lo, hi)
             \/ m \in Hit(lo, hi) /\ m.start < lo /\ x = [m EXCEPT !.end = lo]
             \/ m \in Hit(lo, hi) /\ m.end > hi /\ x = [m EXCEPT !.start = hi]
             \/ m \in Hit(lo, hi) /\ x = Part(m, lo, hi, prot)
<1>1. \A m \in maps : m \in Mapping /\ m.start \in Nat /\ m.end \in Nat
  BY DEF TypeInv, TypeOK, Mapping
<1>2. \A x \in maps' : \E m \in maps : Slice(x, m)
  BY DEF Hit, Below, Above
<1>3. ASSUME NEW x, NEW m \in maps, Slice(x, m) PROVE Inside(x, m)
  <2>0. m.start < m.end
    BY DEF RegionsApart
  <2>1. CASE x = m
    BY <1>1, <2>0, <2>1 DEF Inside
  <2>2. CASE m \in Hit(lo, hi)
    <3>1. lo < m.end /\ hi > m.start
      BY <2>2 DEF Hit, Overlaps
    <3>2. CASE m.start < lo /\ x = [m EXCEPT !.end = lo]
      BY <1>1, <3>1, <3>2 DEF Inside, Mapping
    <3>3. CASE m.end > hi /\ x = [m EXCEPT !.start = hi]
      BY <1>1, <3>1, <3>3 DEF Inside, Mapping
    <3>4. CASE x = Part(m, lo, hi, prot)
      BY <1>1, <2>0, <3>1, <3>4 DEF Inside, Part, Larger, Smaller
    <3> QED
      BY <1>3, <2>2, <3>2, <3>3, <3>4
  <2> QED
    BY <1>3, <2>1, <2>2
<1>4. ASSUME NEW x, NEW y, NEW m \in maps, Slice(x, m), Slice(y, m), x # y PROVE Apart(x, y)
  <2>1. m \in Hit(lo, hi) /\ lo < m.end /\ hi > m.start
    BY <1>4 DEF Hit, Overlaps
  <2> DEFINE before(z) == z.end = lo
             after(z) == z.start = hi
             between(z) == z.start >= lo /\ z.end <= hi
  <2>2. ASSUME NEW z, Slice(z, m)
        PROVE  \/ z = [m EXCEPT !.end = lo] /\ before(z)
               \/ z = [m EXCEPT !.start = hi] /\ after(z)
               \/ z = Part(m, lo, hi, prot) /\ between(z)
    BY <1>1, <2>1, <2>2 DEF Part, Larger, Smaller, Mapping
  <2>3. \/ before(x) /\ after(y)
        \/ before(x) /\ between(y)
        \/ between(x) /\ after(y)
        \/ before(y) /\ after(x)
        \/ before(y) /\ between(x)
        \/ between(y) /\ after(x)
    BY <1>4, <2>2
  <2>4. Inside(x, m) /\ Inside(y, m)
    BY <1>3, <1>4
  <2> QED
    BY <1>1, <2>3, <2>4 DEF Apart, Inside
<1> HIDE DEF Slice
<1>5. \A x \in maps' : Clear(x)
  <2> TAKE x \in maps'
  <2>1. PICK m \in maps : Slice(x, m)
    BY <1>2
  <2>2. Inside(x, m) /\ x \in Mapping /\ Clear(m) /\ brk \in Int
    BY <1>3, <2>1, ApartMeans DEF TypeInv, TypeOK, Units
  <2> QED
    BY <1>1, <2>2, MapsAssumption DEF Inside, Clear, Mapping
<1>6. \A x, y \in maps' : x # y => Apart(x, y)
  <2> TAKE x, y \in maps'
  <2> HAVE x # y
  <2>1. PICK m \in maps : Slice(x, m)
    BY <1>2
  <2>2. PICK n \in maps : Slice(y, n)
    BY <1>2
  <2>3. CASE m = n
    BY <1>4, <2>1, <2>2, <2>3
  <2>4. CASE m # n
    <3>1. Inside(x, m) /\ Inside(y, n) /\ Apart(m, n)
      BY <1>3, <2>1, <2>2, <2>4, ApartMeans DEF TypeInv, TypeOK
    <3>2. x \in Mapping /\ y \in Mapping
      BY DEF TypeInv, TypeOK
    <3> QED
      BY <1>1, <3>1, <3>2 DEF Inside, Apart, Mapping
  <2> QED
    BY <2>3, <2>4
<1>7. \A x \in maps' : x \in Mapping
  BY DEF TypeInv, TypeOK
<1> QED
  BY <1>5, <1>6, <1>7 DEF RegionsApart, Clear, Apart, Overlaps, Mapping

(* RegionsApart is inductive, for a well-typed table.                      *)
LEMMA ApartStep ==
  ASSUME TypeInv, TypeInv', RegionsApart, [Next]_vars
  PROVE  RegionsApart'
<1>1. CASE UNCHANGED <<maps, brk>>
  BY <1>1 DEF RegionsApart
<1>2. ASSUME NEW addr \in Units, NEW length \in Lengths, NEW prot \in Protections,
             NEW fixed \in BOOLEAN, Map(addr, length, prot, fixed)
      PROVE  RegionsApart'
  <2> DEFINE size == RoundUp(length)
  <2>1. size \in Nat
    BY LengthRounded
  <2> HIDE DEF size
  <2>2. PICK at \in Places(addr, size, fixed) :
          maps' = maps \cup {[start |-> at, end |-> at + size, prot |-> prot]}
    BY <1>2 DEF Map, size
  <2> DEFINE x == [start |-> at, end |-> at + size, prot |-> prot]
  <2>3. at \in Nat /\ Room(at, size)
    BY <2>1, <2>2, PlacesRoom DEF TypeInv
  <2>4. /\ at \in 0 .. Top /\ at + size \in 0 .. Top
        /\ brk + Guard <= at /\ at < at + size /\ at + size < Stack - Guard
        /\ \A m \in maps : m.end <= at \/ at + size <= m.start
    BY <2>1, <2>3, RoomIsClear DEF TypeInv
  <2>5. x \in Mapping /\ Clear(x) /\ \A m \in maps : Apart(m, x)
    BY <2>4 DEF Mapping, Clear, Apart
  <2>6. brk' = brk
    BY <1>2 DEF Map
  <2> HIDE DEF x
  <2> QED
    BY <2>2, <2>5, <2>6, Inserted DEF x
<1>3. ASSUME NEW addr \in Units, NEW length \in Lengths, Unmap(addr, length)
      PROVE  RegionsApart'
  <2> DEFINE end == addr + RoundUp(length)
  <2>1. addr \in 0 .. Top /\ end \in 0 .. Top /\ addr < end
    BY <1>3, ValidRange DEF Unmap
  <2>2. /\ maps' = (maps \ Hit(addr, end)) \cup Below(Hit(addr, end), addr)
                       \cup Above(Hit(addr, end), end)
        /\ brk' = brk
    BY <1>3 DEF Unmap
  <2> HIDE DEF end
  <2> QED
    BY <2>1, <2>2, Sliced
<1>4. ASSUME NEW addr \in Units, NEW length \in Lengths, NEW prot \in Protections,
             Protect(addr, length, prot)
      PROVE  RegionsApart'
  <2> DEFINE end == addr + RoundUp(length)
  <2>1. addr \in 0 .. Top /\ end \in 0 .. Top /\ addr < end
    BY <1>4, ValidRange DEF Protect
  <2>2. /\ maps' = (maps \ Hit(addr, end))
                     \cup (Below(Hit(addr, end), addr) \cup Above(Hit(addr, end), end))
                     \cup {Part(m, addr, end, prot) : m \in Hit(addr, end)}
        /\ brk' = brk
    BY <1>4 DEF Protect
  <2> HIDE DEF end
  <2> QED
    BY <2>1, <2>2, Sliced
<1>5. ASSUME NEW m \in maps, NEW length \in Lengths, RemapShorter(m, length) PROVE RegionsApart'
  <2> DEFINE end == m.start + RoundUp(length)
             x == [m EXCEPT !.end = end]
  <2>1. RoundUp(length) \in Nat /\ RoundUp(length) > 0
    BY LengthRounded
  <2>2. m \in Mapping /\ m.start \in 0 .. Top /\ m.end \in 0 .. Top
    BY DEF TypeInv, TypeOK, Mapping
  <2>3. end < m.end /\ maps' = (maps \ {m}) \cup {x} /\ brk' = brk
    BY <1>5 DEF RemapShorter
  <2>4. end \in 0 .. Top /\ m.start < end
    BY <2>1, <2>2, <2>3, MapsAssumption
  <2> HIDE DEF end
  <2>5. x \in Mapping /\ x.start = m.start /\ x.end = end
    BY <2>2, <2>4 DEF Mapping
  <2> HIDE DEF x
  <2>6. Clear(m) /\ \A n \in maps \ {m} : Apart(n, m)
    BY ApartMeans DEF TypeInv, TypeOK
  <2>7. Clear(x)
    BY <2>2, <2>3, <2>4, <2>5, <2>6, MapsAssumption DEF Clear, TypeInv, TypeOK, Units
  <2>8. \A n \in maps \ {m} : Apart(n, x)
    BY <2>2, <2>3, <2>4, <2>5, <2>6 DEF Apart, TypeInv, TypeOK, Mapping
  <2> QED
    BY <2>3, <2>5, <2>7, <2>8, Inserted
<1>6. ASSUME NEW m \in maps, NEW length \in Lengths, RemapLonger(m, length) PROVE RegionsApart'
  <2> DEFINE end == m.start + RoundUp(length)
             x == [m EXCEPT !.end = end]
  <2>1. RoundUp(length) \in Nat /\ RoundUp(length) > 0
    BY LengthRounded
  <2>2. m \in Mapping /\ m.start \in 0 .. Top /\ m.end \in 0 .. Top
    BY DEF TypeInv, TypeOK, Mapping
  <2>3. /\ ~Conflict(maps \ {m}, m.start, end) /\ maps' = (maps \ {m}) \cup {x}
        /\ brk' = brk
    BY <1>6 DEF RemapLonger
  <2>4. end \in Int
    BY <2>1, <2>2
  <2>5. m.start \in Nat /\ (maps \ {m}) \in SUBSET maps
    BY <2>2
  <2> HIDE DEF end
  <2>6. /\ brk + Guard <= m.start /\ m.start < end /\ end <= Top /\ end < Stack - Guard
        /\ \A n \in maps \ {m} : n.end <= m.start \/ end <= n.start
    BY <2>3, <2>4, <2>5, NoConflict DEF TypeInv
  <2>7. x \in Mapping /\ x.start = m.start /\ x.end = end
    BY <2>2, <2>4, <2>6, MapsAssumption DEF Mapping
  <2> HIDE DEF x
  <2>8. Clear(x) /\ \A n \in maps \ {m} : Apart(n, x)
    BY <2>6, <2>7 DEF Clear, Apart
  <2> QED
    BY <2>3, <2>7, <2>8, Inserted
<1>7. ASSUME NEW m \in maps, NEW length \in Lengths, NEW to \in Units, RemapElsewhere(m, length, to)
      PROVE  RegionsApart'
  <2> DEFINE size == RoundUp(length)
             x == [start |-> to, end |-> to + size, prot |-> m.prot]
  <2>1. size \in Nat
    BY LengthRounded
  <2>2. to \in Searched(size) /\ maps' = (maps \ {m}) \cup {x} /\ brk' = brk
    BY <1>7 DEF RemapElsewhere, Moves
  <2> HIDE DEF size
  <2>3. to \in Nat /\ Room(to, size)
    BY <2>1, <2>2, SearchedRoom DEF TypeInv
  <2>4. /\ to \in 0 .. Top /\ to + size \in 0 .. Top
        /\ brk + Guard <= to /\ to < to + size /\ to + size < Stack - Guard
        /\ \A n \in maps : n.end <= to \/ to + size <= n.start
    BY <2>1, <2>3, RoomIsClear DEF TypeInv
  <2>5. x \in Mapping /\ Clear(x) /\ \A n \in maps : Apart(n, x)
    BY <2>4 DEF Mapping, Clear, Apart, TypeInv, TypeOK
  <2> HIDE DEF x
  <2> QED
    BY <2>2, <2>5, Inserted
<1>8. ASSUME NEW r \in Units, Break(r) PROVE RegionsApart'
  <2>1. maps' = maps /\ brk' = r /\ ~Collides(r)
    BY <1>8 DEF Break
  <2>2. \A m \in maps : r + Guard <= m.start
    BY <2>1, MapsAssumption DEF Collides, TypeInv, TypeOK, Mapping, Units
  <2> QED
    BY <2>1, <2>2 DEF RegionsApart
<1> QED
  <2>1. CASE Remap
    <3>1. CASE \E m \in maps, length \in Lengths, to \in Units : RemapFails(m, length, to)
      BY <3>1, <1>1 DEF RemapFails
    <3> QED
      BY <2>1, <3>1, <1>5, <1>6, <1>7 DEF Remap
  <2>2. CASE \E a \in Units : Write(a)
    BY <2>2, <1>1 DEF Write
  <2>3. CASE TouchElsewhere
    BY <2>3, <1>1 DEF TouchElsewhere
  <2>4. CASE UNCHANGED vars
    BY <2>4, <1>1 DEF vars
  <2> QED
    BY <2>1, <2>2, <2>3, <2>4, <1>2, <1>3, <1>4, <1>8 DEF Next

(* Mappings, the heap and the stack never meet.                            *)
THEOREM RegionsKeepApart == Spec => []RegionsApart
<1>1. Init => TypeInv /\ RegionsApart
  BY TypeInit DEF Init, RegionsApart
<1>2. TypeInv /\ RegionsApart /\ [Next]_vars => TypeInv' /\ RegionsApart'
  BY TypeStep, ApartStep
<1> QED
  BY <1>1, <1>2, PTL DEF Spec

-----------------------------------------------------------------------------
Covers(m, a) == m.start <= a /\ a < m.end
Mapped(a) == \E m \in maps : Covers(m, a)

(* The heap begins above the image and ends below the stack.               *)
HeapBetween == Floor <= brk /\ brk + Guard < Stack
TableInv == TypeInv /\ RegionsApart /\ HeapBetween

(* Who owns what, region by region; the regions are apart.                 *)
Owners ==
  /\ owner \in [Units -> Protections \cup {"image", "heap", "stack", "none"}]
  /\ \A a \in Units :
       /\ a < Floor => owner[a] = "image"
       /\ Floor <= a /\ a < brk => owner[a] = "heap"
       /\ Stack <= a => owner[a] = "stack"
       /\ \A m \in maps : Covers(m, a) => owner[a] = m.prot /\ brk <= a /\ a < Stack
       /\ brk <= a /\ a < Stack /\ ~Mapped(a) => owner[a] = "none"
       /\ \A m \in maps : m.prot \in Protections

(* The cases of OwnerOf exclude each other, so that it says what it seems. *)
LEMMA OwnersHold == TableInv => Owners
<1> SUFFICES ASSUME TableInv PROVE Owners
  OBVIOUS
<1>0. /\ brk \in Nat /\ Floor \in Nat /\ Stack \in Nat /\ Guard \in Nat
      /\ Floor <= brk /\ brk < Stack
  BY MapsAssumption DEF TableInv, HeapBetween, TypeInv, TypeOK, Units
<1>1. \A m \in maps : /\ m.start \in Nat /\ m.end \in Nat /\ m.prot \in Protections
                      /\ brk <= m.start /\ m.end < Stack
  BY <1>0, MapsAssumption DEF TableInv, TypeInv, TypeOK, Mapping, RegionsApart
<1>2. ASSUME NEW a \in Units
      PROVE  /\ a < Floor => OwnerOf(a) = "image"
             /\ Floor <= a /\ a < brk => OwnerOf(a) = "heap"
             /\ Stack <= a => OwnerOf(a) = "stack"
             /\ \A m \in maps : Covers(m, a) => OwnerOf(a) = m.prot /\ brk <= a /\ a < Stack
             /\ brk <= a /\ a < Stack /\ ~Mapped(a) => OwnerOf(a) = "none"
  <2> DEFINE image == a < Floor
             heap == Floor <= a /\ a < brk
             stack == Stack <= a
             mapped == \E m \in maps : m.start <= a /\ a < m.end
  <2>1. a \in Nat
    BY DEF Units
  <2>2. /\ image => ~heap /\ ~stack /\ ~mapped
        /\ heap => ~image /\ ~stack /\ ~mapped
        /\ stack => ~image /\ ~heap /\ ~mapped
        /\ mapped => ~image /\ ~heap /\ ~stack /\ brk <= a /\ a < Stack
        /\ brk <= a /\ a < Stack => ~image /\ ~heap /\ ~stack
    BY <1>0, <1>1, <2>1
  <2>3. image => OwnerOf(a) = "image"
    BY <2>2, Zenon DEF OwnerOf
  <2>4. heap => OwnerOf(a) = "heap"
    BY <2>2, Zenon DEF OwnerOf
  <2>5. stack => OwnerOf(a) = "stack"
    BY <2>2, Zenon DEF OwnerOf
  <2>6. ~image /\ ~heap /\ ~stack /\ ~mapped => OwnerOf(a) = "none"
    BY Zenon DEF OwnerOf
  <2>7. ASSUME NEW m \in maps, Covers(m, a) PROVE OwnerOf(a) = m.prot
    <3> DEFINE c == CHOOSE n \in maps : n.start <= a /\ a < n.end
    <3>1. mapped
      BY <2>7 DEF Covers
    <3>2. OwnerOf(a) = c.prot
      BY <2>2, <3>1, Zenon DEF OwnerOf
    <3>3. c \in maps /\ c.start <= a /\ a < c.end
      BY <3>1
    <3> HIDE DEF c
    <3>4. c = m
      BY <1>1, <2>1, <2>7, <3>3 DEF Covers, TableInv, RegionsApart, Overlaps
    <3> QED
      BY <3>2, <3>4
  <2> QED
    BY <2>2, <2>3, <2>4, <2>5, <2>6, <2>7 DEF Covers, Mapped
<1>3. ASSUME NEW a \in Units
      PROVE  OwnerOf(a) \in Protections \cup {"image", "heap", "stack", "none"}
  <2>1. a \in Nat
    BY DEF Units
  <2> QED
    BY <1>0, <1>1, <1>2, <2>1 DEF Mapped
<1> QED
  BY <1>1, <1>2, <1>3 DEF Owners, owner

(* The same after a step.                                                  *)
LEMMA OwnersNext == TableInv' => Owners'
BY OwnersHold, PTL

-----------------------------------------------------------------------------
(* The table and the heap stay well formed.                                *)
LEMMA TableInit == Init => TableInv
<1> SUFFICES ASSUME Init PROVE TableInv
  OBVIOUS
<1>1. RoundUp(Floor) \in Nat /\ Floor <= RoundUp(Floor) /\ RoundUp(Floor) < Floor + Page
  BY RoundUpBounds, MapsAssumption
<1>2. HeapBetween
  <2> DEFINE r == RoundUp(Floor)
  <2>1. brk = r
    BY DEF Init
  <2>2. /\ Floor \in Nat /\ Page \in Nat /\ Guard \in Nat /\ Stack \in Nat
        /\ Floor + Page + Guard < Stack
    BY MapsAssumption
  <2> HIDE DEF r
  <2>3. r \in Nat /\ Floor <= r /\ r < Floor + Page
    BY <1>1 DEF r
  <2> QED
    BY <2>1, <2>2, <2>3 DEF HeapBetween
<1> QED
  BY <1>2, TypeInit DEF TableInv, Init, RegionsApart

(* Only Break moves the end of the heap.                                   *)
LEMMA BreakAlone == [Next]_vars => UNCHANGED brk \/ \E r \in Units : Break(r)
<1>1. ASSUME Remap PROVE UNCHANGED brk
  BY <1>1 DEF Remap, RemapShorter, RemapLonger, RemapElsewhere, RemapFails
<1>2. ASSUME NEW a, Write(a) \/ TouchElsewhere PROVE UNCHANGED brk
  BY <1>2 DEF Write, TouchElsewhere
<1>3. ASSUME NEW addr, NEW length, NEW prot, NEW fixed,
             Map(addr, length, prot, fixed) \/ Unmap(addr, length) \/ Protect(addr, length, prot)
      PROVE  UNCHANGED brk
  BY <1>3 DEF Map, Unmap, Protect
<1> QED
  BY <1>1, <1>2, <1>3 DEF Next, vars

(* TableInv is inductive.                                                  *)
LEMMA TableStep == TableInv /\ [Next]_vars => TableInv'
<1> SUFFICES ASSUME TableInv, [Next]_vars PROVE TableInv'
  OBVIOUS
<1>1. TypeInv' /\ RegionsApart'
  BY TypeStep, ApartStep DEF TableInv
<1>2. CASE UNCHANGED brk
  BY <1>1, <1>2 DEF TableInv, HeapBetween
<1>3. ASSUME NEW r \in Units, Break(r) PROVE HeapBetween'
  BY <1>3, MapsAssumption DEF Break, Collides, HeapBetween, Units
<1> QED
  BY <1>1, <1>2, <1>3, BreakAlone DEF TableInv

-----------------------------------------------------------------------------
(* What is not zero belongs to somebody.                                   *)
Clean == dirty \subseteq Units /\ \A a \in dirty : owner[a] # "none"

(* The address space itself keeps it so, in whatever way it changes.       *)
LEMMA CleanStep ==
  ASSUME Owners, Owners', Clean, Space!Next, dirty' \subseteq Units
  PROVE  Clean'
<1> SUFFICES ASSUME NEW a \in dirty', owner'[a] = "none" PROVE FALSE
  BY DEF Clean
<1>0. a \in Units
  OBVIOUS
<1>1. CASE Space!Grow
  BY <1>0, <1>1 DEF Space!Grow, Space!Lost, Clean
<1>2. CASE Space!Shrink
  BY <1>0, <1>2 DEF Space!Shrink, Space!Lost, Clean
<1>3. CASE Space!Move
  <2>1. PICK d : Space!MovedBy(d)
    BY <1>3 DEF Space!Move
  <2>2. a \in dirty \ Space!Lost \/ a \in Space!Gained
    BY <2>1 DEF Space!MovedBy
  <2> QED
    BY <1>0, <2>2 DEF Space!Lost, Space!Gained, Clean
<1>4. CASE Space!Protect
  BY <1>0, <1>4 DEF Space!Protect, Clean, Protections
<1>5. ASSUME NEW u \in Units, Space!Write(u) PROVE FALSE
  BY <1>0, <1>5 DEF Space!Write, Clean
<1> QED
  BY <1>1, <1>2, <1>3, <1>4, <1>5 DEF Space!Next

(* The start of the program.                                               *)
LEMMA SpaceInit == Init => Space!Init /\ Clean
<1> SUFFICES ASSUME Init PROVE Space!Init /\ Clean
  OBVIOUS
<1>1. Owners /\ TableInv
  BY TableInit, OwnersHold
<1>2. dirty \subseteq Units
  BY <1>1 DEF TableInv, TypeInv, TypeOK
<1>3. \A a \in dirty : a < Floor \/ Stack <= a
  BY MapsAssumption DEF Init, Interval
<1>4. Clean
  BY <1>1, <1>2, <1>3 DEF Clean, Owners
<1> QED
  BY <1>1, <1>4 DEF Space!Init, Space!Free, Clean, Owners

-----------------------------------------------------------------------------
(* The steps.                                                              *)

Good == TableInv /\ Owners /\ Clean

(* Mappings that are the same give the same owners.                        *)
LEMMA SameOwners == UNCHANGED <<maps, brk>> => owner' = owner
BY DEF owner, OwnerOf

(* A store is one to a unit that the program may write.                    *)
LEMMA WriteStep ==
  ASSUME Good, NEW a \in Units, Write(a)
  PROVE  Space!Write(a)
<1>1. a \in Nat /\ brk \in Nat /\ Floor \in Nat /\ Stack \in Nat
  BY MapsAssumption DEF Units, Good, TableInv, TypeInv, TypeOK
<1>2. owner[a] \in {"image", "heap", "stack"} \cup {"rw"}
  <2>1. Writable(a)
    BY DEF Write
  <2>2. CASE \E m \in maps : m.start <= a /\ a < m.end /\ m.prot = "rw"
    BY <2>2 DEF Good, Owners, Covers
  <2> QED
    BY <2>1, <2>2 DEF Writable, Good, Owners
<1>3. owner' = owner
  BY SameOwners DEF Write
<1> QED
  BY <1>2, <1>3 DEF Space!Write, Write

(* Growth: what somebody owned keeps its owner, and what is gained was     *)
(* nobody's, so that clearing it changes nothing.                          *)
LEMMA GrowStep ==
  ASSUME Good, Owners', NEW lo, NEW hi, dirty' = dirty \/ dirty' = Cleared(lo, hi),
         \A a \in Units : a \in Interval(lo, hi) => owner[a] = "none",
         \A a \in Units : owner[a] # "none" => owner'[a] = owner[a]
  PROVE  Space!Grow
<1>1. dirty' = dirty
  BY DEF Cleared, Good, Clean
<1> QED
  BY <1>1 DEF Space!Grow, Space!Lost, Space!Gained, Space!Kept

(* Shrinking: what is lost reads zero from now on, and nothing is gained.  *)
LEMMA ShrinkStep ==
  ASSUME Good, Owners', NEW lost \in SUBSET Units, dirty' = dirty \ lost,
         \A a \in lost : owner'[a] = "none",
         \A a \in Units \ lost : owner'[a] = owner[a]
  PROVE  Space!Shrink
<1>1. Space!Gained = {}
  BY DEF Space!Gained
<1>2. Space!Kept
  BY DEF Space!Gained, Space!Lost, Space!Kept
<1>3. dirty' = dirty \ Space!Lost
  BY DEF Space!Lost, Good, Clean
<1> QED
  BY <1>1, <1>2, <1>3 DEF Space!Shrink

(* Whoever owned a unit still does when every mapping is still there, or a *)
(* longer one in its place.                                                *)
LEMMA OwnersRemain ==
  ASSUME Good, TableInv', Owners', brk' = brk,
         \A m \in maps : \E n \in maps' : n.start <= m.start /\ m.end <= n.end /\ n.prot = m.prot
  PROVE  \A a \in Units : owner[a] # "none" => owner'[a] = owner[a]
<1> SUFFICES ASSUME NEW a \in Units, owner[a] # "none" PROVE owner'[a] = owner[a]
  OBVIOUS
<1>1. a \in Nat /\ brk \in Nat /\ Floor \in Nat /\ Stack \in Nat
  BY MapsAssumption DEF Units, Good, TableInv, TypeInv, TypeOK
<1>2. CASE a < brk \/ Stack <= a
  BY <1>1, <1>2 DEF Good, Owners
<1>3. CASE brk <= a /\ a < Stack
  <2>1. PICK m \in maps : Covers(m, a)
    BY <1>3 DEF Good, Owners, Mapped
  <2>2. PICK n \in maps' : n.start <= m.start /\ m.end <= n.end /\ n.prot = m.prot
    OBVIOUS
  <2>3. /\ m.start \in Int /\ m.end \in Int /\ n.start \in Int /\ n.end \in Int
    BY DEF Good, TableInv, TypeInv, TypeOK, Mapping
  <2>4. Covers(n, a)
    BY <1>1, <2>1, <2>2, <2>3 DEF Covers
  <2> QED
    BY <2>1, <2>2, <2>4 DEF Good, Owners, Covers
<1> QED
  BY <1>1, <1>2, <1>3

(* A range that keeps clear of the heap, the stack and the mappings is     *)
(* nobody's.                                                               *)
LEMMA RangeFree ==
  ASSUME Good, NEW lo \in Nat, NEW hi \in Int, brk + Guard <= lo, hi < Stack - Guard,
         \A m \in maps : m.end <= lo \/ hi <= m.start
  PROVE  \A a \in Units : a \in Interval(lo, hi) => owner[a] = "none"
<1> SUFFICES ASSUME NEW a \in Units, a \in Interval(lo, hi) PROVE owner[a] = "none"
  OBVIOUS
<1>1. a \in Nat /\ brk \in Nat /\ Stack \in Nat /\ Guard \in Nat /\ lo <= a /\ a < hi
  BY MapsAssumption DEF Units, Good, TableInv, TypeInv, TypeOK, Interval
<1>2. brk <= a /\ a < Stack
  BY <1>1
<1>3. ~Mapped(a)
  BY <1>1 DEF Mapped, Covers, Good, TableInv, TypeInv, TypeOK, Mapping
<1> QED
  BY <1>2, <1>3 DEF Good, Owners

(* mmap grows.                                                             *)
LEMMA MapStep ==
  ASSUME Good, TableInv', Owners', NEW addr \in Units, NEW length \in Lengths,
         NEW prot \in Protections, NEW fixed \in BOOLEAN, Map(addr, length, prot, fixed)
  PROVE  Space!Grow
<1> DEFINE size == RoundUp(length)
<1>1. size \in Nat
  BY LengthRounded
<1> HIDE DEF size
<1>2. PICK at \in Places(addr, size, fixed) :
        /\ maps \subseteq maps'
        /\ dirty' = Cleared(at, at + size)
  BY DEF Map, size
<1>3. at \in Nat /\ Room(at, size)
  BY <1>1, <1>2, PlacesRoom DEF Good, TableInv, TypeInv
<1>4. /\ brk + Guard <= at /\ at + size < Stack - Guard
      /\ \A m \in maps : m.end <= at \/ at + size <= m.start
  BY <1>1, <1>3, RoomIsClear DEF Good, TableInv, TypeInv
<1>5. \A a \in Units : a \in Interval(at, at + size) => owner[a] = "none"
  <2>1. at + size \in Int
    BY <1>1, <1>3
  <2> QED
    BY <1>3, <1>4, <2>1, RangeFree
<1>6. \A a \in Units : owner[a] # "none" => owner'[a] = owner[a]
  <2>1. \A m \in maps : m \in maps' /\ m.start <= m.start /\ m.end <= m.end
    BY <1>2 DEF Good, TableInv, TypeInv, TypeOK, Mapping
  <2>2. brk' = brk
    BY DEF Map
  <2> QED
    BY <2>1, <2>2, OwnersRemain
<1> QED
  BY <1>2, <1>5, <1>6, GrowStep

(* mremap in place grows, or shrinks.                                      *)
LEMMA LongerStep ==
  ASSUME Good, TableInv', Owners', NEW m \in maps, NEW length \in Lengths, RemapLonger(m, length)
  PROVE  Space!Grow
<1> DEFINE end == m.start + RoundUp(length)
           x == [m EXCEPT !.end = end]
<1>1. /\ m \in Mapping /\ m.start \in Nat /\ m.end \in Nat /\ m.start < m.end
      /\ \A n \in maps : n.start \in Nat /\ n.end \in Nat
  BY DEF Good, TableInv, RegionsApart, TypeInv, TypeOK, Mapping
<1>2. end \in Int
  BY <1>1, LengthRounded
<1>3. /\ end > m.end /\ ~Conflict(maps \ {m}, m.start, end) /\ maps' = (maps \ {m}) \cup {x}
      /\ dirty' = Cleared(m.end, end) /\ brk' = brk
  BY DEF RemapLonger
<1> HIDE DEF end
<1>4. /\ brk + Guard <= m.start /\ end < Stack - Guard
      /\ \A n \in maps \ {m} : n.end <= m.start \/ end <= n.start
  BY <1>1, <1>2, <1>3, NoConflict DEF Good, TableInv, TypeInv
<1>5. brk \in Nat /\ Guard \in Nat
  BY MapsAssumption DEF Units, Good, TableInv, TypeInv, TypeOK
<1>6. \A a \in Units : a \in Interval(m.end, end) => owner[a] = "none"
  <2>1. brk + Guard <= m.end
    BY <1>1, <1>4, <1>5
  <2>2. \A n \in maps : n.end <= m.end \/ end <= n.start
    BY <1>1, <1>4
  <2> QED
    BY <1>1, <1>2, <1>4, <2>1, <2>2, RangeFree
<1>7. x.start = m.start /\ x.end = end /\ x.prot = m.prot
  BY <1>1 DEF Mapping
<1> HIDE DEF x
<1>8. \A a \in Units : owner[a] # "none" => owner'[a] = owner[a]
  <2>1. \A n \in maps : \E y \in maps' : y.start <= n.start /\ n.end <= y.end /\ y.prot = n.prot
    <3> TAKE n \in maps
    <3>1. CASE n = m
      BY <1>1, <1>2, <1>3, <1>7, <3>1
    <3>2. CASE n # m
      BY <1>1, <1>3, <3>2
    <3> QED
      BY <3>1, <3>2
  <2> QED
    BY <1>3, <2>1, OwnersRemain
<1> QED
  BY <1>3, <1>6, <1>8, GrowStep

(* Cutting units out of the mappings takes their owner from them, and      *)
(* leaves the others theirs.                                               *)
LEMMA OwnersCut ==
  ASSUME Good, Owners', brk' = brk, NEW lost \in SUBSET Units,
         \A a \in lost : Mapped(a),
         \A n \in maps', a \in Units : Covers(n, a) =>
           a \notin lost /\ \E m \in maps : Covers(m, a) /\ m.prot = n.prot,
         \A m \in maps, a \in Units \ lost : Covers(m, a) => \E n \in maps' : Covers(n, a)
  PROVE  /\ \A a \in lost : owner'[a] = "none"
         /\ \A a \in Units \ lost : owner'[a] = owner[a]
<1>1. \A a \in Units : a \in Nat /\ brk \in Nat /\ Floor \in Nat /\ Stack \in Nat
  BY MapsAssumption DEF Units, Good, TableInv, TypeInv, TypeOK
<1>2. ASSUME NEW a \in lost PROVE owner'[a] = "none"
  <2>1. brk <= a /\ a < Stack
    BY DEF Good, Owners, Mapped
  <2>2. ~Mapped(a)'
    BY DEF Mapped, Covers
  <2> QED
    BY <2>1, <2>2 DEF Owners
<1>3. ASSUME NEW a \in Units \ lost PROVE owner'[a] = owner[a]
  <2>1. CASE a < brk \/ Stack <= a
    BY <1>1, <2>1 DEF Good, Owners
  <2>2. CASE brk <= a /\ a < Stack /\ ~Mapped(a)
    <3>1. ~Mapped(a)'
      BY <2>2 DEF Mapped, Covers
    <3> QED
      BY <2>2, <3>1 DEF Good, Owners
  <2>3. CASE Mapped(a)
    <3>1. PICK n \in maps' : Covers(n, a)
      BY <2>3 DEF Mapped
    <3>2. PICK m \in maps : Covers(m, a) /\ m.prot = n.prot
      BY <3>1
    <3> QED
      BY <3>1, <3>2 DEF Good, Owners, Covers
  <2> QED
    BY <1>1, <2>1, <2>2, <2>3
<1> QED
  BY <1>2, <1>3

(* munmap shrinks: what it clears is what the program owned of the range.  *)
LEMMA UnmapStep ==
  ASSUME Good, Owners', NEW addr \in Units, NEW length \in Lengths, Unmap(addr, length)
  PROVE  Space!Shrink
<1> DEFINE end == addr + RoundUp(length)
           hit == Hit(addr, end)
           lost == {a \in Units : addr <= a /\ a < end /\ Mapped(a)}
<1>1. addr \in Nat /\ end \in Nat /\ addr < end
  BY ValidRange DEF Unmap, Units
<1>2. /\ maps' = (maps \ hit) \cup Below(hit, addr) \cup Above(hit, end) /\ brk' = brk
      /\ dirty' = dirty \ UNION {Interval(Larger(addr, m.start), Smaller(end, m.end)) : m \in hit}
  BY DEF Unmap
<1> HIDE DEF end
<1>3. \A m \in maps : m \in Mapping /\ m.start \in Nat /\ m.end \in Nat
  BY DEF Good, TableInv, TypeInv, TypeOK, Mapping
<1>4. \A a \in Units : a \in Nat
  BY DEF Units
<1>5. \A m \in maps : m \in hit <=> addr < m.end /\ end > m.start
  BY DEF Hit, Overlaps
<1> HIDE DEF hit
<1>6. hit \subseteq maps
  BY DEF hit, Hit
<1>7. ASSUME NEW n \in maps', NEW a \in Units, Covers(n, a)
      PROVE  a \notin lost /\ \E m \in maps : Covers(m, a) /\ m.prot = n.prot
  <2>0. a \notin lost <=> ~(addr <= a /\ a < end) \/ ~Mapped(a)
    OBVIOUS
  <2>1. CASE n \in maps \ hit
    BY <1>1, <1>3, <1>4, <1>5, <1>7, <2>0, <2>1 DEF Covers
  <2>2. CASE n \in Below(hit, addr)
    <3>1. PICK m \in hit : m.start < addr /\ n = [m EXCEPT !.end = addr]
      BY <2>2 DEF Below
    <3>2. m \in Mapping /\ n.start = m.start /\ n.end = addr /\ n.prot = m.prot
      BY <1>3, <1>6, <3>1 DEF Mapping
    <3> QED
      BY <1>1, <1>3, <1>4, <1>5, <1>6, <1>7, <2>0, <3>1, <3>2 DEF Covers
  <2>3. CASE n \in Above(hit, end)
    <3>1. PICK m \in hit : m.end > end /\ n = [m EXCEPT !.start = end]
      BY <2>3 DEF Above
    <3>2. m \in Mapping /\ n.start = end /\ n.end = m.end /\ n.prot = m.prot
      BY <1>3, <1>6, <3>1 DEF Mapping
    <3> QED
      BY <1>1, <1>3, <1>4, <1>5, <1>6, <1>7, <2>0, <3>1, <3>2 DEF Covers
  <2> QED
    BY <1>2, <2>1, <2>2, <2>3
<1>8. ASSUME NEW m \in maps, NEW a \in Units \ lost, Covers(m, a)
      PROVE  \E n \in maps' : Covers(n, a)
  <2>1. ~(addr <= a /\ a < end)
    BY <1>8 DEF Mapped
  <2>2. CASE m \notin hit
    BY <1>2, <1>8, <2>2
  <2>3. CASE m \in hit /\ a < addr
    <3> DEFINE n == [m EXCEPT !.end = addr]
    <3>1. m.start < addr
      BY <1>1, <1>3, <1>4, <1>8, <2>3 DEF Covers
    <3>2. n \in maps'
      BY <1>2, <2>3, <3>1 DEF Below
    <3>3. n.start = m.start /\ n.end = addr
      BY <1>3 DEF Mapping
    <3> QED
      BY <1>8, <2>3, <3>2, <3>3 DEF Covers
  <2>4. CASE m \in hit /\ a >= end
    <3> DEFINE n == [m EXCEPT !.start = end]
    <3>1. m.end > end
      BY <1>1, <1>3, <1>4, <1>8, <2>4 DEF Covers
    <3>2. n \in maps'
      BY <1>2, <2>4, <3>1 DEF Above
    <3>3. n.start = end /\ n.end = m.end
      BY <1>3 DEF Mapping
    <3> QED
      BY <1>8, <2>4, <3>2, <3>3 DEF Covers
  <2> QED
    BY <1>1, <1>4, <2>1, <2>2, <2>3, <2>4
<1>9. dirty' = dirty \ lost
  <2>1. ASSUME NEW a \in dirty
        PROVE  a \in lost <=>
                 \E m \in hit : a \in Interval(Larger(addr, m.start), Smaller(end, m.end))
    <3>1. a \in Units
      BY DEF Good, Clean
    <3>2. a \in lost <=> addr <= a /\ a < end /\ \E m \in maps : Covers(m, a)
      BY <3>1 DEF Mapped
    <3>3. ASSUME NEW m \in hit
          PROVE  a \in Interval(Larger(addr, m.start), Smaller(end, m.end))
                   <=> addr <= a /\ a < end /\ Covers(m, a)
      BY <1>1, <1>3, <1>4, <1>6, <3>1 DEF Interval, Larger, Smaller, Covers
    <3>4. ASSUME NEW m \in maps, addr <= a, a < end, Covers(m, a) PROVE m \in hit
      BY <1>1, <1>3, <1>4, <1>5, <3>1, <3>4 DEF Covers
    <3> QED
      BY <1>6, <3>2, <3>3, <3>4
  <2> QED
    BY <1>2, <2>1
<1>10. /\ \A a \in lost : owner'[a] = "none"
       /\ \A a \in Units \ lost : owner'[a] = owner[a]
  <2>1. lost \in SUBSET Units /\ \A a \in lost : Mapped(a)
    OBVIOUS
  <2> HIDE DEF lost
  <2> QED
    BY <1>2, <1>7, <1>8, <2>1, OwnersCut
<1> QED
  BY <1>9, <1>10, ShrinkStep

(* mremap in place shrinks.                                                *)
LEMMA ShorterStep ==
  ASSUME Good, Owners', NEW m \in maps, NEW length \in Lengths, RemapShorter(m, length)
  PROVE  Space!Shrink
<1> DEFINE end == m.start + RoundUp(length)
           x == [m EXCEPT !.end = end]
           lost == {a \in Units : end <= a /\ a < m.end}
<1>1. /\ m \in Mapping /\ m.start \in Nat /\ m.end \in Nat
      /\ \A n \in maps : n.start \in Nat /\ n.end \in Nat
      /\ \A a \in Units : a \in Nat
  BY DEF Good, TableInv, TypeInv, TypeOK, Mapping, Units
<1>2. end \in Nat /\ m.start <= end
  BY <1>1, LengthRounded
<1>3. /\ end < m.end /\ maps' = (maps \ {m}) \cup {x} /\ dirty' = Cleared(end, m.end)
      /\ brk' = brk
  BY DEF RemapShorter
<1> HIDE DEF end
<1>4. x.start = m.start /\ x.end = end /\ x.prot = m.prot
  BY <1>1 DEF Mapping
<1> HIDE DEF x
<1>5. \A n \in maps \ {m} : n.end <= m.start \/ m.end <= n.start
  BY <1>1 DEF Good, TableInv, RegionsApart, Overlaps
<1>6. \A a \in lost : Mapped(a)
  BY <1>1, <1>2 DEF Mapped, Covers
<1>7. ASSUME NEW n \in maps', NEW a \in Units, Covers(n, a)
      PROVE  a \notin lost /\ \E y \in maps : Covers(y, a) /\ y.prot = n.prot
  <2>1. CASE n = x
    BY <1>1, <1>2, <1>3, <1>4, <1>7, <2>1 DEF Covers
  <2>2. CASE n \in maps \ {m}
    BY <1>1, <1>2, <1>5, <1>7, <2>2 DEF Covers
  <2> QED
    BY <1>3, <2>1, <2>2
<1>8. ASSUME NEW n \in maps, NEW a \in Units \ lost, Covers(n, a)
      PROVE  \E y \in maps' : Covers(y, a)
  <2>1. CASE n = m
    BY <1>1, <1>2, <1>3, <1>4, <1>8, <2>1 DEF Covers
  <2>2. CASE n # m
    BY <1>3, <1>8, <2>2
  <2> QED
    BY <2>1, <2>2
<1>9. dirty' = dirty \ lost
  BY <1>1, <1>2, <1>3 DEF Cleared, Interval, Good, Clean
<1>10. /\ \A a \in lost : owner'[a] = "none"
       /\ \A a \in Units \ lost : owner'[a] = owner[a]
  <2>1. lost \in SUBSET Units
    OBVIOUS
  <2> HIDE DEF lost
  <2> QED
    BY <1>3, <1>6, <1>7, <1>8, <2>1, OwnersCut
<1> QED
  BY <1>9, <1>10, ShrinkStep

(* mprotect changes who owns a unit only from one protection to another.   *)
LEMMA ProtectStep ==
  ASSUME Good, TableInv', Owners', NEW addr \in Units, NEW length \in Lengths,
         NEW prot \in Protections, Protect(addr, length, prot)
  PROVE  Space!Protect
<1> DEFINE end == addr + RoundUp(length)
           hit == Hit(addr, end)
<1>1. addr \in Nat /\ end \in Nat /\ addr < end
  BY ValidRange DEF Protect, Units
<1>2. /\ maps' = (maps \ hit) \cup (Below(hit, addr) \cup Above(hit, end))
                   \cup {Part(m, addr, end, prot) : m \in hit}
      /\ brk' = brk /\ dirty' = dirty
  BY DEF Protect
<1> HIDE DEF end
<1>3. /\ \A m \in maps : m \in Mapping /\ m.start \in Nat /\ m.end \in Nat
      /\ \A a \in Units : a \in Nat
      /\ brk \in Nat /\ Floor \in Nat /\ Stack \in Nat
  BY MapsAssumption DEF Good, TableInv, TypeInv, TypeOK, Mapping, Units
<1>4. hit \subseteq maps /\ \A m \in hit : addr < m.end /\ end > m.start
  BY DEF Hit, Overlaps
<1> HIDE DEF hit
<1>5. ASSUME NEW m \in hit
      PROVE  LET n == Part(m, addr, end, prot) IN
               /\ n.start = Larger(m.start, addr) /\ n.end = Smaller(m.end, end)
               /\ n.prot = prot
  BY DEF Part
<1>6. ASSUME NEW n \in maps', NEW a \in Units, Covers(n, a)
      PROVE  Mapped(a)
  <2>1. CASE n \in maps \ hit
    BY <1>6, <2>1 DEF Mapped
  <2>2. CASE n \in Below(hit, addr)
    <3>1. PICK m \in hit : n = [m EXCEPT !.end = addr]
      BY <2>2 DEF Below
    <3>2. m \in Mapping /\ n.start = m.start /\ n.end = addr
      BY <1>3, <1>4, <3>1 DEF Mapping
    <3> QED
      BY <1>1, <1>3, <1>4, <1>6, <3>2 DEF Covers, Mapped
  <2>3. CASE n \in Above(hit, end)
    <3>1. PICK m \in hit : n = [m EXCEPT !.start = end]
      BY <2>3 DEF Above
    <3>2. m \in Mapping /\ n.start = end /\ n.end = m.end
      BY <1>3, <1>4, <3>1 DEF Mapping
    <3> QED
      BY <1>1, <1>3, <1>4, <1>6, <3>2 DEF Covers, Mapped
  <2>4. ASSUME NEW m \in hit, n = Part(m, addr, end, prot) PROVE Mapped(a)
    BY <1>1, <1>3, <1>4, <1>5, <1>6, <2>4 DEF Covers, Mapped, Larger, Smaller
  <2> QED
    BY <1>2, <2>1, <2>2, <2>3, <2>4
<1>7. ASSUME NEW m \in maps, NEW a \in Units, Covers(m, a)
      PROVE  \E n \in maps' : Covers(n, a)
  <2>1. CASE m \notin hit
    BY <1>2, <1>7, <2>1
  <2>2. CASE m \in hit /\ a < addr
    <3> DEFINE n == [m EXCEPT !.end = addr]
    <3>1. m.start < addr
      BY <1>1, <1>3, <1>7, <2>2 DEF Covers
    <3>2. n \in maps'
      BY <1>2, <2>2, <3>1 DEF Below
    <3>3. n.start = m.start /\ n.end = addr
      BY <1>3 DEF Mapping
    <3> QED
      BY <1>7, <2>2, <3>2, <3>3 DEF Covers
  <2>3. CASE m \in hit /\ a >= end
    <3> DEFINE n == [m EXCEPT !.start = end]
    <3>1. m.end > end
      BY <1>1, <1>3, <1>7, <2>3 DEF Covers
    <3>2. n \in maps'
      BY <1>2, <2>3, <3>1 DEF Above
    <3>3. n.start = end /\ n.end = m.end
      BY <1>3 DEF Mapping
    <3> QED
      BY <1>7, <2>3, <3>2, <3>3 DEF Covers
  <2>4. CASE m \in hit /\ addr <= a /\ a < end
    <3>1. Part(m, addr, end, prot) \in maps'
      BY <1>2, <2>4
    <3>2. Covers(Part(m, addr, end, prot), a)
      BY <1>1, <1>3, <1>5, <1>7, <2>4 DEF Covers, Larger, Smaller
    <3> QED
      BY <3>1, <3>2
  <2> QED
    BY <1>1, <1>3, <2>1, <2>2, <2>3, <2>4
<1>8. ASSUME NEW a \in Units, owner'[a] # owner[a]
      PROVE  owner[a] \in Protections /\ owner'[a] \in Protections
  <2>1. CASE a < brk \/ Stack <= a
    BY <1>2, <1>3, <1>8, <2>1 DEF Good, Owners
  <2>2. CASE brk <= a /\ a < Stack /\ ~Mapped(a)
    <3>1. ~Mapped(a)'
      BY <1>6, <2>2 DEF Mapped, Covers
    <3> QED
      BY <1>2, <1>8, <2>2, <3>1 DEF Good, Owners
  <2>3. CASE Mapped(a)
    <3>1. PICK m \in maps : Covers(m, a)
      BY <2>3 DEF Mapped
    <3>2. PICK n \in maps' : Covers(n, a)
      BY <1>7, <3>1
    <3> QED
      BY <3>1, <3>2 DEF Good, Owners, Covers
  <2> QED
    BY <1>3, <2>1, <2>2, <2>3
<1> QED
  BY <1>2, <1>8 DEF Space!Protect, Space!Mapped

(* mremap elsewhere moves: what is lost is the old place, what is gained   *)
(* the new one, and the contents follow by the distance between them.      *)
LEMMA MoveStep ==
  ASSUME Good, TableInv', Owners', NEW m \in maps, NEW length \in Lengths, NEW to \in Units,
         RemapElsewhere(m, length, to)
  PROVE  Space!Move
<1> DEFINE size == RoundUp(length)
           x == [start |-> to, end |-> to + size, prot |-> m.prot]
           old == Interval(m.start, m.end)
           new == Interval(to, to + size)
           d == to - m.start
<1>1. size \in Nat
  BY LengthRounded
<1>2. /\ to \in Searched(size) /\ m.start + size > m.end
      /\ maps' = (maps \ {m}) \cup {x} /\ brk' = brk /\ dirty' = Moved(m, to)
  BY DEF RemapElsewhere, Moves
<1> HIDE DEF size
<1>3. to \in Nat /\ Room(to, size)
  BY <1>1, <1>2, SearchedRoom DEF Good, TableInv, TypeInv
<1>4. /\ to + size \in 0 .. Top /\ brk + Guard <= to /\ to < to + size /\ to + size < Stack - Guard
      /\ \A n \in maps : n.end <= to \/ to + size <= n.start
  BY <1>1, <1>3, RoomIsClear DEF Good, TableInv, TypeInv
<1>5. /\ \A n \in maps : n \in Mapping /\ n.start \in Nat /\ n.end \in Nat /\ n.end <= Top
      /\ m.start < m.end
      /\ \A a : a \in Units <=> a \in Nat /\ a < Top
      /\ brk \in Nat /\ Floor \in Nat /\ Stack \in Nat /\ Guard \in Nat /\ Top \in Nat
  BY MapsAssumption DEF Good, TableInv, RegionsApart, TypeInv, TypeOK, Mapping, Units
<1>6. \A n \in maps \ {m} : n.end <= m.start \/ m.end <= n.start
  BY <1>5 DEF Good, TableInv, RegionsApart, Overlaps
<1>7. x.start = to /\ x.end = to + size /\ x.prot = m.prot
  OBVIOUS
<1> HIDE DEF x
<1>8. /\ old \subseteq Units /\ new \subseteq Units
      /\ \A a \in Units : a \in old <=> Covers(m, a)
      /\ \A a \in Units : a \in new <=> Covers(x, a)
      /\ m.start \in old
      /\ \A a \in old : a \notin new /\ m.start <= a /\ a + d \in new /\ a \in Nat
      /\ to \in new /\ m.start \in Nat /\ to \in Nat
  BY <1>1, <1>2, <1>3, <1>4, <1>5, <1>7 DEF Interval, Covers
<1> HIDE DEF old, new
<1>9. \A a \in old : owner[a] = m.prot /\ owner'[a] = "none"
  <2> TAKE a \in old
  <2>1. owner[a] = m.prot /\ brk <= a /\ a < Stack
    BY <1>8 DEF Good, Owners
  <2>2. ~Mapped(a)'
    <3>1. ~Covers(x, a)
      BY <1>8
    <3>2. ASSUME NEW n \in maps \ {m} PROVE ~Covers(n, a)
      BY <1>5, <1>6, <1>8 DEF Covers
    <3> QED
      BY <1>2, <3>1, <3>2 DEF Mapped, Covers
  <2> QED
    BY <1>2, <1>8, <2>1, <2>2 DEF Owners
<1>10. \A a \in new : owner[a] = "none" /\ owner'[a] = m.prot
  <2>1. \A a \in Units : a \in Interval(to, to + size) => owner[a] = "none"
    BY <1>3, <1>4, RangeFree
  <2> TAKE a \in new
  <2>2. owner[a] = "none"
    BY <1>8, <2>1 DEF new
  <2>3. x \in maps' /\ Covers(x, a)
    BY <1>2, <1>8
  <2>4. owner'[a] = x.prot
    BY <1>8, <2>3 DEF Owners, Covers
  <2> QED
    BY <1>7, <2>2, <2>4
<1>11. \A a \in Units : a \notin old /\ a \notin new => owner'[a] = owner[a]
  <2> TAKE a \in Units
  <2> HAVE a \notin old /\ a \notin new
  <2>1. CASE a < brk \/ Stack <= a
    BY <1>2, <1>5, <2>1 DEF Good, Owners
  <2>2. ASSUME NEW n \in maps, Covers(n, a) PROVE owner'[a] = owner[a]
    <3>1. n \in maps'
      BY <1>2, <1>8, <2>2
    <3> QED
      BY <2>2, <3>1 DEF Good, Owners, Covers
  <2>3. CASE brk <= a /\ a < Stack /\ ~Mapped(a)
    <3>1. ~Mapped(a)'
      BY <1>2, <1>8, <2>3 DEF Mapped, Covers
    <3> QED
      BY <1>2, <2>3, <3>1 DEF Good, Owners
  <2> QED
    BY <1>5, <2>1, <2>2, <2>3 DEF Mapped
<1>12. m.prot \in Protections /\ m.prot # "none"
  BY <1>5 DEF Mapping, Protections
<1>13. Space!Lost = old
  BY <1>8, <1>9, <1>10, <1>11, <1>12 DEF Space!Lost
<1>14. Space!Gained = new
  BY <1>8, <1>9, <1>10, <1>11, <1>12 DEF Space!Gained
<1>15. Space!Kept
  BY <1>11, <1>13, <1>14 DEF Space!Kept
<1>16. Space!First(Space!Lost) = m.start
  <2>1. \E y \in old : \A z \in old : y <= z
    BY <1>8
  <2>2. Space!First(old) \in old /\ \A z \in old : Space!First(old) <= z
    BY <2>1 DEF Space!First
  <2> DEFINE first == Space!First(old)
  <2>3. first \in old /\ first <= m.start /\ m.start <= first /\ first \in Nat /\ m.start \in Nat
    BY <1>8, <2>2
  <2> HIDE DEF first
  <2>4. first = m.start
    BY <2>3
  <2> QED
    BY <1>13, <2>4 DEF first
<1>17. dirty' = (dirty \ old) \cup {a + d : a \in dirty \cap old}
  <2>1. \A a \in old : a - m.start + to = a + d
    BY <1>8
  <2> QED
    BY <1>2, <2>1 DEF Moved, old
<1>18. \A a \in old : a + d \in new /\ owner'[a + d] = owner[a]
  BY <1>8, <1>9, <1>10
<1>19. Space!MovedBy(d)
  BY <1>13, <1>14, <1>17, <1>18 DEF Space!MovedBy
<1>20. Space!MovedBy(to - Space!First(Space!Lost))
  BY <1>16, <1>19
<1>21. to \in Space!Gained
  BY <1>8, <1>14
<1>22. Space!Lost \subseteq Space!Mapped /\ Space!Lost # {}
  BY <1>8, <1>9, <1>12, <1>13 DEF Space!Mapped
<1> QED
  BY <1>15, <1>20, <1>21, <1>22, Zenon DEF Space!Move

(* brk gives the heap units that are nobody's and zero, or takes some back. *)
LEMMA BreakStep ==
  ASSUME Good, TableInv', Owners', NEW r \in Units, Break(r)
  PROVE  Space!Grow \/ Space!Shrink
<1>1. /\ r >= Floor /\ maps' = maps /\ brk' = r
      /\ dirty' = IF r < brk THEN Cleared(r, brk) ELSE dirty
  BY DEF Break
<1>2. /\ \A a \in Units : a \in Nat
      /\ brk \in Nat /\ Floor \in Nat /\ Stack \in Nat /\ r \in Nat
      /\ brk < Stack /\ r < Stack
  BY <1>1, MapsAssumption DEF Good, TableInv, HeapBetween, TypeInv, TypeOK, Units
<1>3. \A a \in Units : Mapped(a)' <=> Mapped(a)
  BY <1>1 DEF Mapped
<1>4. CASE r < brk
  <2> DEFINE lost == {a \in Units : r <= a /\ a < brk}
  <2>1. dirty' = dirty \ lost
    <3>1. dirty' = Cleared(r, brk)
      BY <1>1, <1>4
    <3>2. \A a \in dirty : a \in Interval(r, brk) <=> a \in lost
      BY <1>2 DEF Interval, Good, Clean
    <3> QED
      BY <3>1, <3>2 DEF Cleared
  <2>2. ASSUME NEW a \in lost PROVE owner'[a] = "none"
    <3>1. ~Mapped(a)
      BY <1>2 DEF Mapped, Good, Owners
    <3> QED
      BY <1>1, <1>2, <1>3, <3>1 DEF Owners
  <2>3. ASSUME NEW a \in Units \ lost PROVE owner'[a] = owner[a]
    <3>1. CASE Mapped(a)
      BY <1>1, <3>1 DEF Mapped, Covers, Good, Owners
    <3>2. CASE ~Mapped(a)
      BY <1>1, <1>2, <1>3, <1>4, <2>3, <3>2 DEF Good, Owners
    <3> QED
      BY <3>1, <3>2
  <2>4. lost \in SUBSET Units
    OBVIOUS
  <2> HIDE DEF lost
  <2> QED
    BY <2>1, <2>2, <2>3, <2>4, ShrinkStep
<1>5. CASE r >= brk
  <2>1. dirty' = dirty
    BY <1>1, <1>2, <1>5
  <2>2. ASSUME NEW a \in Units, owner[a] # "none" PROVE owner'[a] = owner[a]
    <3>1. CASE Mapped(a)
      BY <1>1, <3>1 DEF Mapped, Covers, Good, Owners
    <3>2. CASE ~Mapped(a)
      BY <1>1, <1>2, <1>3, <1>5, <2>2, <3>2 DEF Good, Owners
    <3> QED
      BY <3>1, <3>2
  <2>3. \A a \in Units : a \in Interval(0, 0) => owner[a] = "none"
    BY DEF Interval
  <2> QED
    BY <2>1, <2>2, <2>3, GrowStep
<1> QED
  BY <1>2, <1>4, <1>5

-----------------------------------------------------------------------------
(* Every step of the table is one of the address space, or none.           *)
LEMMA SpaceStep ==
  ASSUME Good, TableInv', Owners', [Next]_vars
  PROVE  [Space!Next]_(Space!vars)
<1>1. CASE UNCHANGED <<maps, brk, dirty>>
  BY <1>1, SameOwners DEF Space!vars
<1>2. CASE UNCHANGED vars \/ TouchElsewhere
  BY <1>2, <1>1 DEF vars, TouchElsewhere
<1>3. CASE Remap
  <2>1. CASE \E m \in maps, length \in Lengths, to \in Units : RemapFails(m, length, to)
    BY <2>1, <1>1 DEF RemapFails
  <2> QED
    BY <1>3, <2>1, LongerStep, ShorterStep, MoveStep DEF Remap, Space!Next
<1>4. CASE \E a \in Units : Write(a)
  BY <1>4, WriteStep DEF Space!Next
<1>5. CASE \E r \in Units : Break(r)
  BY <1>5, BreakStep DEF Space!Next
<1>6. ASSUME NEW addr \in Units, NEW length \in Lengths,
             \/ \E prot \in Protections, fixed \in BOOLEAN : Map(addr, length, prot, fixed)
             \/ Unmap(addr, length)
             \/ \E prot \in Protections : Protect(addr, length, prot)
      PROVE  Space!Next
  BY <1>6, MapStep, UnmapStep, ProtectStep DEF Space!Next
<1> QED
  BY <1>2, <1>3, <1>4, <1>5, <1>6 DEF Next

(* Good is inductive, and every step is one of the address space.          *)
LEMMA GoodInit == Init => Space!Init /\ Good
BY SpaceInit, TableInit, OwnersHold DEF Good

(* Every step of the kernel keeps Good and is one of the address space.    *)
LEMMA GoodStep == Good /\ [Next]_vars => Good' /\ [Space!Next]_(Space!vars)
<1> SUFFICES ASSUME Good, [Next]_vars PROVE Good' /\ [Space!Next]_(Space!vars)
  OBVIOUS
<1>1. TableInv'
  BY TableStep DEF Good
<1>2. Owners'
  BY <1>1, OwnersNext
<1>3. [Space!Next]_(Space!vars)
  BY <1>1, <1>2, SpaceStep
<1>4. dirty' \subseteq Units
  BY <1>1 DEF TableInv, TypeInv, TypeOK
<1>5. Clean'
  <2>1. CASE Space!Next
    BY <1>2, <1>4, <2>1, CleanStep DEF Good
  <2>2. CASE UNCHANGED Space!vars
    BY <1>2, <2>2 DEF Good, Clean, Space!vars
  <2> QED
    BY <1>3, <2>1, <2>2
<1> QED
  BY <1>1, <1>2, <1>3, <1>5 DEF Good

(* The mapping table, the break, the frames and the copy of a mapping that *)
(* moves implement the address space that a program relies on.             *)
THEOREM SpaceImplemented == Spec => ImplementsSpace
<1>1. QED
  BY GoodInit, GoodStep, PTL DEF Spec, ImplementsSpace, Space!Spec

(* A unit that belongs to nobody reads zero, so that whatever is mapped    *)
(* there, or given to the heap, starts clean.                              *)
THEOREM FreeReadsZero == Spec => [](\A a \in dirty : owner[a] # "none")
<1>1. Good => \A a \in dirty : owner[a] # "none"
  BY DEF Good, Clean
<1> QED
  BY <1>1, GoodInit, GoodStep, PTL DEF Spec
=============================================================================
