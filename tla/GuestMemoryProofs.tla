-------------------------- MODULE GuestMemoryProofs --------------------------
(***************************************************************************)
(* Proofs about guest memory, for every page size, address space and set   *)
(* of regions a caller asks for.                                           *)
(***************************************************************************)
EXTENDS GuestMemory, NaturalLemmas, FiniteSetTheorems, TLAPS

(* Every recorded region is non-empty and ends within the address space.   *)
Bounded(r) == r.size > 0 /\ r.start + r.size <= Space

Inv ==
  /\ TypeOK
  /\ \A r \in regions : Bounded(r)
  /\ RegionsDisjoint
  /\ ClearNeverPanics

-----------------------------------------------------------------------------
(* Fields of a region.                                                     *)
LEMMA RegionType ==
  ASSUME NEW r \in MapRegion
  PROVE  /\ r.start \in Nat /\ r.start < Space
         /\ r.size \in Nat
         /\ r.offset \in Int
         /\ Space \in Nat \ {0}
BY SpaceAssumption DEF MapRegion, Addr

(* A set of regions that is not empty has a last and a first one.          *)
LEMMA Extremes ==
  ASSUME NEW S \in SUBSET MapRegion, S # {}
  PROVE  /\ Last(S) \in S /\ \A q \in S : q.start <= Last(S).start
         /\ First(S) \in S /\ \A q \in S : First(S).start <= q.start
<1>1. \A r \in S : r.start \in Nat /\ r.start < Space /\ Space \in Nat
  BY RegionType
<1>2. \E r \in S : \A q \in S : r.start <= q.start
  <2> DEFINE T == {r.start : r \in S}
  <2>1. T \in SUBSET Nat /\ T # {}
    BY <1>1
  <2>2. PICK i \in T : \A j \in T : i <= j
    BY <2>1, LeastNatural
  <2> QED BY <2>2
<1>3. \E r \in S : \A q \in S : q.start <= r.start
  <2> DEFINE T == {Space - r.start : r \in S}
  <2>1. T \in SUBSET Nat /\ T # {}
    BY <1>1
  <2>2. PICK i \in T : \A j \in T : i <= j
    BY <2>1, LeastNatural
  <2>3. PICK r \in S : i = Space - r.start
    BY <2>2
  <2>4. ASSUME NEW q \in S PROVE q.start <= r.start
    <3>1. Space - r.start <= Space - q.start
      BY <2>2, <2>3
    <3> QED BY <3>1, <1>1
  <2> QED BY <2>4
<1> QED BY <1>2, <1>3 DEF Last, First

(* If the new region does not overlap its two neighbours, it overlaps no   *)
(* region: the others lie beyond the neighbours.                           *)
LEMMA NeighboursSuffice ==
  ASSUME TypeOK, \A r \in regions : Bounded(r), RegionsDisjoint,
         NEW other \in MapRegion, other.size > 0, test_free_area(other),
         NEW r \in regions
  PROVE  ~ is_overlap_with(r, other) /\ r.start # other.start
<1>1. /\ r \in MapRegion /\ Below(other) \in SUBSET MapRegion
      /\ NotBelow(other) \in SUBSET MapRegion
  BY DEF TypeOK, Below, NotBelow
<1>2. /\ r.start \in Nat /\ r.size \in Nat /\ r.size > 0
      /\ other.start \in Nat /\ other.size \in Nat
  BY <1>1, RegionType DEF Bounded
<1>3. CASE r.start < other.start
  <2> DEFINE l == Last(Below(other))
  <2>1. r \in Below(other)
    BY <1>3 DEF Below
  <2>2. l \in Below(other) /\ r.start <= l.start
    BY <1>1, <2>1, Extremes
  <2>3. ~ is_overlap_with(l, other)
    BY <2>1 DEF test_free_area
  <2> HIDE DEF l
  <2>4. l \in regions /\ l.start < other.start
    BY <2>2 DEF Below
  <2>5. l.start \in Nat /\ l.size \in Nat /\ l.size > 0
    BY <2>4, RegionType DEF TypeOK, Bounded
  <2>6. l.start + l.size <= other.start
    BY <2>3, <2>4, <2>5, <1>2 DEF is_overlap_with
  <2>7. r = l \/ r.start + r.size <= l.start
    BY <2>2, <2>4, <2>5, <1>2 DEF RegionsDisjoint, is_overlap_with
  <2> QED BY <2>4, <2>5, <2>6, <2>7, <1>2, <1>3 DEF is_overlap_with
<1>4. CASE r.start >= other.start
  <2> DEFINE l == First(NotBelow(other))
  <2>1. r \in NotBelow(other)
    BY <1>4 DEF NotBelow
  <2>2. l \in NotBelow(other) /\ l.start <= r.start
    BY <1>1, <2>1, Extremes
  <2>3. ~ is_overlap_with(l, other)
    BY <2>1 DEF test_free_area
  <2> HIDE DEF l
  <2>4. l \in regions /\ l.start >= other.start
    BY <2>2 DEF NotBelow
  <2>5. l.start \in Nat /\ l.size \in Nat /\ l.size > 0
    BY <2>4, RegionType DEF TypeOK, Bounded
  <2>6. other.start + other.size <= l.start
    BY <2>3, <2>4, <2>5, <1>2 DEF is_overlap_with
  <2> QED BY <2>2, <2>5, <2>6, <1>2 DEF is_overlap_with
<1> QED BY <1>2, <1>3, <1>4

-----------------------------------------------------------------------------
(* The pages that the loop over a region visits exist.                     *)
LEMMA PageExists ==
  ASSUME NEW r \in MapRegion, Bounded(r), NEW i \in Visits(r)
  PROVE  /\ page(r, i) \in Page
         /\ target(r, address(r, i)) \div PageSize \in Page
<1>1. /\ PageSize \in Nat \ {0} /\ Space \in Nat \ {0} /\ Space % PageSize = 0
      /\ r.start \in Nat /\ r.size \in Nat \ {0} /\ r.offset \in Int
      /\ r.start + r.size <= Space
  BY RegionType, SpaceAssumption DEF Bounded
<1> DEFINE n == (r.size + PageSize - 1) \div PageSize
           pages == Space \div PageSize
           a == address(r, i)
<1>2. n \in Nat /\ PageSize * n <= r.size + PageSize - 1
  <2>1. r.size + PageSize - 1 \in Nat
    BY <1>1
  <2> QED BY <2>1, <1>1, Quotient
<1>3. i \in Nat /\ i + 1 <= n
  BY <1>2 DEF Visits
<1>4. PageSize * pages = Space /\ pages \in Nat
  BY <1>1
<1> HIDE DEF n, pages
<1>5. PageSize * (i + 1) <= PageSize * n /\ PageSize * (i + 1) = PageSize * i + PageSize
      /\ PageSize * i \in Nat /\ PageSize * n \in Nat
  BY <1>1, <1>2, <1>3, TimesMonotonic
<1>6. a \in Nat /\ a < Space
  <2>1. a = r.start + PageSize * i
    BY <1>1, <1>3 DEF address
  <2> QED BY <2>1, <1>1, <1>2, <1>5
<1> HIDE DEF a
<1>7. \A x \in Nat : x < Space => x \div PageSize \in Page
  <2> SUFFICES ASSUME NEW x \in Nat, x < Space PROVE x \div PageSize \in Page
    OBVIOUS
  <2>1. x \div PageSize < pages
    BY <1>1, <1>4, QuotientBound
  <2>2. x \div PageSize \in Nat
    BY <1>1, Quotient
  <2> QED BY <2>1, <2>2, <1>4 DEF Page, pages
<1>8. target(r, a) \in Nat /\ target(r, a) < Space
  <2>1. a - r.offset \in Int
    BY <1>1, <1>6
  <2> QED BY <2>1, <1>1 DEF target
<1> QED BY <1>6, <1>7, <1>8 DEF page, a

(* The loop makes as many iterations as Visits has members.                *)
LEMMA VisitCount ==
  ASSUME NEW r \in MapRegion
  PROVE  /\ Cardinality(Visits(r)) \in Nat
         /\ Visits(r) = 0 .. Cardinality(Visits(r)) - 1
<1> DEFINE n == (r.size + PageSize - 1) \div PageSize
<1>1. n \in Nat
  <2>1. r.size + PageSize - 1 \in Nat /\ PageSize \in Nat \ {0}
    BY RegionType, SpaceAssumption
  <2> QED BY <2>1, Quotient
<1>2. Visits(r) = 0 .. n - 1
  BY DEF Visits
<1> HIDE DEF n
<1>3. Cardinality(0 .. n - 1) = n
  <2>1. 0 \in Int /\ n - 1 \in Int
    BY <1>1
  <2> QED BY <2>1, <1>1, FS_Interval
<1> QED BY <1>1, <1>2, <1>3

(* What n iterations of map_to do to the page table: they fill entries     *)
(* that were unused and change no other.                                   *)
LEMMA MapEffect ==
  ASSUME TypeOK, NEW r \in MapRegion, Bounded(r),
         NEW n \in Nat, 0 .. n - 1 \subseteq Visits(r), map(r, n)
  PROVE  /\ npt' \in [Page -> Page \cup {Unused}]
         /\ \A i \in 0 .. n - 1 : npt[page(r, i)] = Unused /\ npt'[page(r, i)] # Unused
         /\ \A p \in Page : npt[p] # Unused => npt'[p] = npt[p]
<1>1. \A i \in 0 .. n - 1 : /\ page(r, i) \in Page
                            /\ target(r, address(r, i)) \div PageSize \in Page
  BY PageExists
<1>2. \A p \in Page : p # Unused
  BY SpaceAssumption DEF Page
<1> DEFINE Hit(p) == \E i \in 0 .. n - 1 : page(r, i) = p
           host(p) == target(r, address(r, CHOOSE i \in 0 .. n - 1 : page(r, i) = p))
                        \div PageSize
<1>3. \A p : Hit(p) => host(p) \in Page
  <2> SUFFICES ASSUME NEW p, Hit(p) PROVE host(p) \in Page
    OBVIOUS
  <2> DEFINE k == CHOOSE i \in 0 .. n - 1 : page(r, i) = p
  <2>1. k \in 0 .. n - 1
    OBVIOUS
  <2> HIDE DEF k
  <2> QED BY <2>1, <1>1 DEF k
<1>4. /\ npt' = [p \in Page |-> IF Hit(p) THEN host(p) ELSE npt[p]]
      /\ \A i \in 0 .. n - 1 : npt[page(r, i)] = Unused
  BY DEF map
<1>5. \A i \in 0 .. n - 1 : Hit(page(r, i))
  OBVIOUS
<1>6. \A p : Hit(p) => npt[p] = Unused
  BY <1>4
<1> HIDE DEF Hit, host
<1>7. npt' \in [Page -> Page \cup {Unused}]
  BY <1>3, <1>4 DEF TypeOK
<1>8. \A i \in 0 .. n - 1 : npt'[page(r, i)] # Unused
  BY <1>1, <1>2, <1>3, <1>4, <1>5
<1>9. \A p \in Page : npt[p] # Unused => npt'[p] = npt[p]
  BY <1>4, <1>6
<1> QED BY <1>4, <1>7, <1>8, <1>9

(* Every request is a region that fits into the address space.             *)
LEMMA RequestType ==
  ASSUME NEW r \in Request
  PROVE  r \in MapRegion /\ r.start + r.size <= Space
<1>1. PICK gpa \in Addr, hpa \in HostStart, size \in Sizes : r = new_offset(gpa, hpa, size)
  BY DEF Request
<1>2. (gpa - hpa) % Space \in Addr
  BY SpaceAssumption DEF Addr
<1>3. size \in Nat
  BY SpaceAssumption
<1> QED BY <1>1, <1>2, <1>3 DEF Request, new_offset, MapRegion

(* Pages of a recorded region, by iteration.                               *)
LEMMA PagesMember ==
  ASSUME NEW r \in MapRegion, Bounded(r), NEW p \in PagesOf(r)
  PROVE  p \in Page /\ \E i \in Visits(r) : p = page(r, i)
BY PageExists DEF PagesOf

(* The pages that iterations fill belong to no recorded region, and those  *)
(* of recorded regions stay mapped.                                        *)
LEMMA RecordedStay ==
  ASSUME Inv, NEW r \in MapRegion, Bounded(r),
         NEW n \in Nat, 0 .. n - 1 \subseteq Visits(r), map(r, n),
         NEW q \in regions
  PROVE  /\ \A p \in PagesOf(q) : npt'[p] # Unused
         /\ \A i \in 0 .. n - 1 : page(r, i) \notin PagesOf(q)
<1>1. q \in MapRegion /\ Bounded(q)
  BY DEF Inv, TypeOK
<1>2. \A p \in PagesOf(q) : p \in Page /\ npt[p] # Unused
  BY <1>1, PagesMember DEF Inv, ClearNeverPanics, clear_panics
<1>3. /\ \A i \in 0 .. n - 1 : npt[page(r, i)] = Unused
      /\ \A p \in Page : npt[p] # Unused => npt'[p] = npt[p]
  BY MapEffect DEF Inv
<1> QED BY <1>2, <1>3

-----------------------------------------------------------------------------
(* A guest starts without regions and with an empty page table.            *)
LEMMA InvInit == Init => Inv
<1> SUFFICES ASSUME Init PROVE Inv
  OBVIOUS
<1>1. TypeOK
  BY DEF Init, TypeOK
<1> QED BY <1>1 DEF Init, Inv, RegionsDisjoint, ClearNeverPanics, clear_panics

(* A region that is accepted is disjoint from the others, and its pages    *)
(* were not mapped before.                                                 *)
LEMMA InvMapRegion ==
  ASSUME Inv, NEW r \in Request, map_region(r)
  PROVE  Inv'
<1> DEFINE n == Cardinality(Visits(r))
<1>1. r \in MapRegion /\ r.size > 0 /\ Bounded(r)
  BY RequestType, RegionType DEF map_region, Bounded
<1>2. n \in Nat /\ Visits(r) = 0 .. n - 1
  BY <1>1, VisitCount
<1>3. map(r, n) /\ test_free_area(r)
      /\ regions' = {q \in regions : q.start # r.start} \cup {r}
  BY DEF map_region
<1> HIDE DEF n
<1>4. \A q \in regions : ~ is_overlap_with(q, r) /\ q.start # r.start
  BY <1>1, <1>3, NeighboursSuffice DEF Inv
<1>5. regions' = regions \cup {r}
  BY <1>3, <1>4
<1>6. /\ npt' \in [Page -> Page \cup {Unused}]
      /\ \A i \in Visits(r) : npt'[page(r, i)] # Unused
  BY <1>1, <1>2, <1>3, MapEffect DEF Inv
<1>7. \A q \in regions : /\ \A p \in PagesOf(q) : npt'[p] # Unused
                         /\ \A i \in Visits(r) : page(r, i) \notin PagesOf(q)
  BY <1>1, <1>2, <1>3, RecordedStay
<1>8. TypeOK'
  BY <1>1, <1>5, <1>6 DEF Inv, TypeOK
<1>9. \A q \in regions' : Bounded(q)
  BY <1>1, <1>5 DEF Inv
<1>10. RegionsDisjoint'
  <2>1. \A q \in regions : ~ is_overlap_with(r, q)
    BY <1>4 DEF is_overlap_with
  <2> QED BY <2>1, <1>4, <1>5 DEF Inv, RegionsDisjoint
<1>11. ClearNeverPanics'
  <2>1. \A q \in regions' : \A p \in PagesOf(q) : npt'[p] # Unused
    BY <1>5, <1>6, <1>7 DEF PagesOf
  <2>2. \A q \in regions : PagesOf(r) \cap PagesOf(q) = {}
    BY <1>7 DEF PagesOf
  <2>3. \A q1, q2 \in regions : q1 # q2 => PagesOf(q1) \cap PagesOf(q2) = {}
    BY DEF Inv, ClearNeverPanics, clear_panics
  <2>4. \A q1, q2 \in regions' : q1 # q2 => PagesOf(q1) \cap PagesOf(q2) = {}
    BY <1>5, <2>2, <2>3
  <2> QED BY <2>1, <2>4 DEF ClearNeverPanics, clear_panics
<1> QED BY <1>8, <1>9, <1>10, <1>11 DEF Inv

(* A region that fails half way leaves pages mapped that belong to no      *)
(* recorded region.                                                        *)
LEMMA InvMapRegionFails ==
  ASSUME Inv, NEW r \in Request, NEW n \in 0 .. Cardinality(Visits(r)) - 1,
         map_region_fails(r, n)
  PROVE  Inv'
<1>1. r \in MapRegion /\ r.size > 0 /\ Bounded(r)
  BY RequestType, RegionType DEF map_region_fails, Bounded
<1>2. n \in Nat /\ 0 .. n - 1 \subseteq Visits(r)
  BY <1>1, VisitCount
<1>3. map(r, n) /\ regions' = regions
  BY DEF map_region_fails
<1>4. npt' \in [Page -> Page \cup {Unused}]
  BY <1>1, <1>2, <1>3, MapEffect DEF Inv
<1>5. \A q \in regions : \A p \in PagesOf(q) : npt'[p] # Unused
  BY <1>1, <1>2, <1>3, RecordedStay
<1>6. TypeOK'
  BY <1>3, <1>4 DEF Inv, TypeOK
<1>7. RegionsDisjoint' /\ \A q \in regions' : Bounded(q)
  BY <1>3 DEF Inv, RegionsDisjoint
<1>8. ClearNeverPanics'
  BY <1>3, <1>5 DEF Inv, ClearNeverPanics, clear_panics
<1> QED BY <1>6, <1>7, <1>8 DEF Inv

(* clear empties both the regions and their pages.                         *)
LEMMA InvClear ==
  ASSUME Inv, clear
  PROVE  Inv'
<1>1. TypeOK'
  BY DEF Inv, TypeOK, clear
<1> QED BY <1>1 DEF clear, Inv, RegionsDisjoint, ClearNeverPanics, clear_panics

(* The inductive invariant holds throughout.                               *)
THEOREM Invariance == Spec => []Inv
<1>1. Inv /\ [Next]_vars => Inv'
  <2> SUFFICES ASSUME Inv, [Next]_vars PROVE Inv'
    OBVIOUS
  <2>1. CASE UNCHANGED vars
    BY <2>1 DEF vars, Inv, TypeOK, RegionsDisjoint, ClearNeverPanics, clear_panics
  <2> QED BY <2>1, InvMapRegion, InvMapRegionFails, InvClear DEF Next
<1> QED BY <1>1, InvInit, PTL DEF Spec

(* Regions and page table entries keep their types: host pages computed    *)
(* with wrap-around exist, and so do the guest pages that are visited.     *)
THEOREM TypeCorrect == Spec => []TypeOK
<1>1. Inv => TypeOK
  BY DEF Inv
<1> QED BY <1>1, Invariance, PTL

(* Any two recorded regions are disjoint, for every number of regions.     *)
THEOREM NoOverlap == Spec => []RegionsDisjoint
<1>1. Inv => RegionsDisjoint
  BY DEF Inv
<1> QED BY <1>1, Invariance, PTL

(* clear never unwraps an error, after any sequence of requests.           *)
THEOREM ClearSucceeds == Spec => []ClearNeverPanics
<1>1. Inv => ClearNeverPanics
  BY DEF Inv
<1> QED BY <1>1, Invariance, PTL

-----------------------------------------------------------------------------
(* What the page table holds for the regions: exactly the host pages that  *)
(* the loop computed.                                                      *)
MapsExactly ==
  \A r \in regions : \A i \in Visits(r) :
    npt[page(r, i)] = target(r, address(r, i)) \div PageSize

(* Consecutive iterations visit consecutive pages.                         *)
LEMMA PageNumber ==
  ASSUME NEW r \in MapRegion, NEW i \in Nat
  PROVE  page(r, i) = (r.start \div PageSize) + i
<1> DEFINE s == r.start \div PageSize
           m == r.start % PageSize
<1>1. PageSize \in Nat \ {0} /\ r.start \in Nat
  BY SpaceAssumption, RegionType
<1>2. s \in Int /\ m \in 0 .. PageSize - 1 /\ r.start = PageSize * s + m
  <2>1. r.start \in Int
    BY <1>1
  <2> QED BY <1>1, <2>1, Division
<1> HIDE DEF s, m
<1>3. address(r, i) = PageSize * (s + i) + m /\ s + i \in Int /\ address(r, i) \in Int
  <2>1. PageSize * (s + i) = PageSize * s + i * PageSize
    BY <1>1, <1>2
  <2>2. PageSize * s \in Int /\ i * PageSize \in Int
    BY <1>1, <1>2
  <2>3. address(r, i) = r.start + i * PageSize
    BY DEF address
  <2> QED BY <1>1, <1>2, <2>1, <2>2, <2>3
<1>4. address(r, i) \div PageSize = s + i
  BY <1>1, <1>2, <1>3, DivisionUnique
<1> QED BY <1>4 DEF page, s

(* So every iteration finds the entry it wrote itself.                     *)
LEMMA MapWrites ==
  ASSUME NEW r \in MapRegion, Bounded(r),
         NEW n \in Nat, 0 .. n - 1 \subseteq Visits(r), map(r, n),
         NEW i \in 0 .. n - 1
  PROVE  npt'[page(r, i)] = target(r, address(r, i)) \div PageSize
<1> DEFINE k == CHOOSE j \in 0 .. n - 1 : page(r, j) = page(r, i)
<1>1. k \in 0 .. n - 1 /\ page(r, k) = page(r, i)
  OBVIOUS
<1>2. npt'[page(r, i)] = target(r, address(r, k)) \div PageSize
  <2>1. page(r, i) \in Page
    BY PageExists
  <2>2. npt' = [p \in Page |->
                  IF \E j \in 0 .. n - 1 : page(r, j) = p
                  THEN target(r, address(r, CHOOSE j \in 0 .. n - 1 : page(r, j) = p))
                         \div PageSize
                  ELSE npt[p]]
    BY DEF map
  <2> QED BY <2>1, <2>2
<1> HIDE DEF k
<1>3. k = i
  <2> DEFINE first == r.start \div PageSize
  <2>1. k \in Nat /\ i \in Nat /\ first \in Int
    BY <1>1, SpaceAssumption, RegionType
  <2>2. page(r, k) = first + k /\ page(r, i) = first + i
    BY <2>1, PageNumber
  <2> HIDE DEF first
  <2>3. first + k = first + i
    BY <1>1, <2>2, Zenon
  <2> QED BY <2>1, <2>3
<1> QED BY <1>2, <1>3

(* Regions that are recorded keep their translations.                      *)
LEMMA MapsKept ==
  ASSUME Inv, MapsExactly, NEW r \in MapRegion, Bounded(r),
         NEW n \in Nat, 0 .. n - 1 \subseteq Visits(r), map(r, n),
         NEW q \in regions, NEW i \in Visits(q)
  PROVE  npt'[page(q, i)] = target(q, address(q, i)) \div PageSize
<1>1. q \in MapRegion /\ Bounded(q) /\ page(q, i) \in PagesOf(q)
  BY DEF Inv, TypeOK, PagesOf
<1>2. page(q, i) \in Page /\ npt[page(q, i)] # Unused
  BY <1>1, PageExists DEF Inv, ClearNeverPanics, clear_panics
<1>3. npt'[page(q, i)] = npt[page(q, i)]
  BY <1>2, MapEffect DEF Inv
<1> QED BY <1>3 DEF MapsExactly

(* Every operation keeps the translations of the recorded regions.         *)
LEMMA MapsExactlyNext == Inv /\ MapsExactly /\ [Next]_vars => MapsExactly'
<1> SUFFICES ASSUME Inv, MapsExactly, [Next]_vars PROVE MapsExactly'
  OBVIOUS
<1>1. ASSUME NEW r \in Request, map_region(r) PROVE MapsExactly'
  <2> DEFINE n == Cardinality(Visits(r))
  <2>1. r \in MapRegion /\ Bounded(r) /\ n \in Nat /\ Visits(r) = 0 .. n - 1
    BY <1>1, RequestType, RegionType, VisitCount DEF map_region, Bounded
  <2>2. map(r, n) /\ regions' \subseteq regions \cup {r}
    BY <1>1 DEF map_region
  <2> HIDE DEF n
  <2>3. \A i \in Visits(r) : npt'[page(r, i)] = target(r, address(r, i)) \div PageSize
    BY <2>1, <2>2, MapWrites
  <2>4. \A q \in regions : \A i \in Visits(q) :
          npt'[page(q, i)] = target(q, address(q, i)) \div PageSize
    BY <2>1, <2>2, MapsKept
  <2> QED BY <2>2, <2>3, <2>4 DEF MapsExactly
<1>2. ASSUME NEW r \in Request, NEW n \in 0 .. Cardinality(Visits(r)) - 1,
             map_region_fails(r, n)
      PROVE  MapsExactly'
  <2>1. r \in MapRegion /\ Bounded(r)
    BY <1>2, RequestType, RegionType DEF map_region_fails, Bounded
  <2>2. n \in Nat /\ 0 .. n - 1 \subseteq Visits(r)
    BY <2>1, VisitCount
  <2>3. map(r, n) /\ regions' = regions
    BY <1>2 DEF map_region_fails
  <2>4. \A q \in regions : \A i \in Visits(q) :
          npt'[page(q, i)] = target(q, address(q, i)) \div PageSize
    BY <2>1, <2>2, <2>3, MapsKept
  <2> QED BY <2>3, <2>4 DEF MapsExactly
<1>3. CASE clear
  BY <1>3 DEF clear, MapsExactly
<1>4. CASE UNCHANGED vars
  BY <1>4 DEF vars, MapsExactly
<1> QED BY <1>1, <1>2, <1>3, <1>4 DEF Next

(* An address of an aligned region lies in the page of one iteration, at   *)
(* the same distance from the start of the page in guest and host.         *)
LEMMA AlignedTranslation ==
  ASSUME NEW r \in MapRegion, Bounded(r), Aligned(r),
         NEW gpa \in r.start .. r.start + r.size - 1
  PROVE  \E i \in Visits(r) :
           /\ gpa \div PageSize = page(r, i)
           /\ target(r, gpa) =
                (target(r, address(r, i)) \div PageSize) * PageSize + (gpa % PageSize)
<1> DEFINE d == PageSize
           s == r.start \div d
           o == r.offset \div d
           n == Space \div d
           x == gpa - r.start
           i == x \div d
           m == x % d
<1>1. /\ d \in Nat \ {0} /\ r.start \in Nat /\ r.size \in Nat \ {0}
      /\ r.offset \in Int /\ Space \in Nat \ {0}
      /\ r.start % d = 0 /\ r.offset % d = 0 /\ Space % d = 0
      /\ gpa \in Int /\ r.start <= gpa /\ gpa <= r.start + r.size - 1
  BY SpaceAssumption, RegionType DEF Bounded, Aligned
<1>2. x \in Nat /\ x < r.size
  BY <1>1
<1> HIDE DEF x
<1>3. s \in Int /\ r.start = d * s
  <2>1. r.start \in Int
    BY <1>1
  <2> QED BY <1>1, <2>1, WholeMultiple
<1>4. o \in Int /\ r.offset = d * o
  BY <1>1, WholeMultiple
<1>5. n \in Nat \ {0} /\ Space = d * n
  <2>1. n \in Int /\ Space = d * n
    BY <1>1, WholeMultiple
  <2>2. n \in Nat
    BY <1>1, Quotient
  <2>3. n # 0
    BY <1>1, <2>1
  <2> QED BY <2>1, <2>2, <2>3
<1>6. i \in Nat /\ m \in 0 .. d - 1 /\ x = d * i + m
  <2>1. x \in Int
    BY <1>2
  <2> QED BY <1>1, <1>2, <2>1, Division, Quotient
<1>7. i \in Visits(r)
  <2> DEFINE c == (r.size + d - 1) \div d
  <2>1. c \in Nat /\ r.size + d - 1 < d * c + d
    <3>1. r.size + d - 1 \in Nat
      BY <1>1
    <3> QED BY <3>1, <1>1, Quotient
  <2> HIDE DEF c
  <2>2. d * c \in Int /\ r.size - 1 < d * c
    BY <1>1, <2>1
  <2>3. x < d * c
    BY <1>1, <1>2, <2>2
  <2>4. i < c
    BY <1>1, <1>2, <2>1, <2>3, QuotientBound
  <2> QED BY <1>6, <2>1, <2>4 DEF Visits, c
<1> HIDE DEF s, o, n, i, m
<1> DEFINE g == s + i
           q == g - o
<1>8. page(r, i) = g /\ g \in Int
  BY <1>3, <1>6, PageNumber DEF s
<1>9. gpa = d * g + m /\ address(r, i) = d * g
  <2>1. gpa = r.start + x
    BY <1>1 DEF x
  <2>2. /\ d * g = d * s + d * i /\ d * g = d * s + i * d
        /\ d * s \in Int /\ d * i \in Int /\ i * d \in Int
    BY <1>1, <1>3, <1>6
  <2>3. address(r, i) = d * s + i * d
    BY <1>3 DEF address
  <2> QED BY <2>1, <2>2, <2>3, <1>1, <1>3, <1>6
<1> HIDE DEF g
<1>10. gpa \div d = g /\ gpa % d = m
  BY <1>1, <1>6, <1>8, <1>9, DivisionUnique
<1>11. q \in Int /\ q % n \in Int
  BY <1>4, <1>5, <1>8
<1>12. target(r, gpa) = d * (q % n) + m
  <2>1. gpa - r.offset = d * q + m
    <3>1. d \in Int /\ m \in Int
      BY <1>1, <1>6
    <3> QED BY <3>1, <1>4, <1>8, <1>9, Distribute
  <2>2. (d * q + m) % (d * n) = d * (q % n) + m
    <3> HIDE DEF q
    <3>1. d \in Nat \ {0} /\ n \in Nat \ {0} /\ m \in 0 .. d - 1 /\ q \in Int
      BY <1>1, <1>5, <1>6, <1>11
    <3> HIDE DEF d, n, m
    <3> QED BY ONLY <3>1, WrapPages, Zenon
  <2> QED BY <2>1, <2>2, <1>5 DEF target
<1>13. target(r, address(r, i)) = d * (q % n)
  <2>1. address(r, i) - r.offset = d * q
    <3>1. d \in Int
      BY <1>1
    <3> QED BY <3>1, <1>4, <1>8, <1>9, Distribute
  <2>2. (d * q) % (d * n) = d * (q % n)
    <3> HIDE DEF q
    <3> QED BY <1>1, <1>5, <1>11, WrapWholePages
  <2> QED BY <2>1, <2>2, <1>5 DEF target
<1> HIDE DEF q
<1>14. target(r, address(r, i)) \div d = q % n
  <2> DEFINE t == d * (q % n)
  <2>1. t \in Int /\ t = d * (q % n) + 0 /\ 0 \in 0 .. d - 1
    BY <1>1, <1>11
  <2>2. t \div d = q % n
    BY <2>1, <1>1, <1>11, DivisionUnique
  <2> QED BY <2>2, <1>13
<1>15. target(r, gpa) = (target(r, address(r, i)) \div d) * d + (gpa % d)
  <2>1. (q % n) * d = d * (q % n)
    BY <1>1, <1>11
  <2> QED BY <2>1, <1>10, <1>12, <1>14
<1> QED BY <1>7, <1>8, <1>10, <1>15

(* Every address of an aligned region is translated to its target, for     *)
(* every page size and every sequence of requests.                         *)
THEOREM TranslationCorrect == Spec => []TranslatesAll
<1>1. Init => MapsExactly
  BY DEF Init, MapsExactly
<1>2. Inv /\ MapsExactly => TranslatesAll
  <2> SUFFICES ASSUME Inv, MapsExactly, NEW r \in regions, Aligned(r),
                      NEW gpa \in r.start .. r.start + r.size - 1
               PROVE  npt[gpa \div PageSize] # Unused /\ query(gpa) = target(r, gpa)
    BY DEF TranslatesAll
  <2>1. r \in MapRegion /\ Bounded(r)
    BY DEF Inv, TypeOK
  <2>2. PICK i \in Visits(r) :
          /\ gpa \div PageSize = page(r, i)
          /\ target(r, gpa) =
               (target(r, address(r, i)) \div PageSize) * PageSize + (gpa % PageSize)
    BY <2>1, AlignedTranslation
  <2>3. npt[gpa \div PageSize] = target(r, address(r, i)) \div PageSize
    BY <2>2 DEF MapsExactly
  <2>4. npt[gpa \div PageSize] # Unused
    BY <2>2 DEF Inv, ClearNeverPanics, clear_panics, PagesOf
  <2> QED BY <2>2, <2>3, <2>4 DEF query
<1> QED BY <1>1, <1>2, MapsExactlyNext, Invariance, PTL DEF Spec

(* All of it, for every page size and every sequence of requests.           *)
THEOREM GuestMemoryCorrect == Spec => []GuestMemorySound
<1>1. TypeOK /\ RegionsDisjoint /\ ClearNeverPanics /\ TranslatesAll => GuestMemorySound
  BY DEF GuestMemorySound
<1> QED BY <1>1, TypeCorrect, NoOverlap, ClearSucceeds, TranslationCorrect, PTL
=============================================================================
