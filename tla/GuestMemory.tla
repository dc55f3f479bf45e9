----------------------------- MODULE GuestMemory -----------------------------
(***************************************************************************)
(* The physical memory of a guest: the regions of GuestPhysMemorySet       *)
(* (kernel/src/virt/kvm/gpm.rs) and the nested page table that implements  *)
(* them (kernel/crates/rvm/src/mm/page_table.rs), seen as a function from  *)
(* guest pages to host pages.                                              *)
(*                                                                         *)
(* Addresses are numbers below Space, of which the pages have PageSize     *)
(* each.  Neither the start nor the size of a region need be aligned.      *)
(***************************************************************************)
EXTENDS Integers, FiniteSets

CONSTANTS
  PageSize,   \* 0x1000 in the code
  Space,      \* number of addresses; host addresses wrap around here
  HostStart,  \* host addresses at which regions are placed
  Sizes,      \* sizes of the regions that are mapped
  Unused      \* an empty page table entry

ASSUME SpaceAssumption ==
  /\ PageSize \in Nat \ {0}
  /\ Space \in Nat \ {0}
  /\ Space % PageSize = 0
  /\ HostStart \subseteq 0 .. Space - 1
  /\ Sizes \subseteq Nat
  /\ Unused \notin Int

VARIABLES
  regions,  \* GuestPhysMemorySet::regions, keyed by start
  npt       \* leaf entries of the nested page table: host pages or Unused

vars == <<regions, npt>>

Addr == 0 .. Space - 1
Page == 0 .. (Space \div PageSize) - 1
MapRegion == [start : Addr, size : Nat, offset : Addr]

TypeOK ==
  /\ regions \subseteq MapRegion
  /\ npt \in [Page -> Page \cup {Unused}]

Init ==
  /\ regions = {}
  /\ npt = [p \in Page |-> Unused]

-----------------------------------------------------------------------------
(* MapRegion::new_offset and target: subtraction wraps around.             *)
new_offset(gpa, hpa, size) ==
  [start |-> gpa, size |-> size, offset |-> (gpa - hpa) % Space]

(* Mutant: the subtraction does not wrap around.                           *)
target_signed(r, gpa) == gpa - r.offset

target(r, gpa) == (gpa - r.offset) % Space

is_overlap_with(r, other) ==
  ~ (r.start + r.size <= other.start \/ other.start + other.size <= r.start)

(* The neighbours that BTreeMap::range finds.                              *)
Below(other) == {r \in regions : r.start < other.start}
NotBelow(other) == {r \in regions : r.start >= other.start}
Last(S) == CHOOSE r \in S : \A q \in S : q.start <= r.start
First(S) == CHOOSE r \in S : \A q \in S : r.start <= q.start

(* Mutant: only the region after the new one is looked at.                 *)
test_free_area_after(other) ==
  NotBelow(other) # {} => ~ is_overlap_with(First(NotBelow(other)), other)

test_free_area(other) ==
  /\ Below(other) # {} => ~ is_overlap_with(Last(Below(other)), other)
  /\ NotBelow(other) # {} => ~ is_overlap_with(First(NotBelow(other)), other)

(* Mutant: a last page that is not full is left out.                       *)
Visits_floor(r) == 0 .. (r.size \div PageSize) - 1

(* The loops of map_to and unmap_to visit start, start + 0x1000, ... below *)
(* the end, and hand each address to the page table.                       *)
Visits(r) == 0 .. ((r.size + PageSize - 1) \div PageSize) - 1
address(r, i) == r.start + i * PageSize
page(r, i) == address(r, i) \div PageSize
PagesOf(r) == {page(r, i) : i \in Visits(r)}

(* The first n iterations of map_to: each needs an unused entry and fills  *)
(* it with the host page.                                                  *)
map(r, n) ==
  /\ \A i \in 0 .. n - 1 : npt[page(r, i)] = Unused
  /\ npt' = [p \in Page |->
               IF \E i \in 0 .. n - 1 : page(r, i) = p
               THEN target(r, address(r, CHOOSE i \in 0 .. n - 1 : page(r, i) = p))
                      \div PageSize
               ELSE npt[p]]

(* map_region.  A region of size 0 is accepted and one that overlaps is    *)
(* refused without any effect.                                             *)
map_region(r) ==
  /\ r.size # 0
  /\ test_free_area(r)
  /\ map(r, Cardinality(Visits(r)))
  /\ regions' = {q \in regions : q.start # r.start} \cup {r}

(* Mutant: the result of map_to is ignored.                                *)
map_region_fails_ignored(r, n) ==
  /\ r.size # 0
  /\ test_free_area(r)
  /\ map(r, n)
  /\ regions' = {q \in regions : q.start # r.start} \cup {r}

(* An iteration of map_to fails because the page is mapped already or      *)
(* because there is no frame for an intermediate table.  The pages mapped  *)
(* before stay mapped and the region is not recorded.                      *)
map_region_fails(r, n) ==
  /\ r.size # 0
  /\ test_free_area(r)
  /\ map(r, n)
  /\ UNCHANGED regions

(* unmap panics on an entry that is unused, so clear does if a page of a   *)
(* region is not mapped or belongs to two regions.                         *)
clear_panics ==
  \/ \E r \in regions : \E p \in PagesOf(r) : npt[p] = Unused
  \/ \E r, q \in regions : r # q /\ PagesOf(r) \cap PagesOf(q) # {}

clear ==
  /\ ~ clear_panics
  /\ npt' = [p \in Page |-> IF \E r \in regions : p \in PagesOf(r) THEN Unused ELSE npt[p]]
  /\ regions' = {}

(* The regions a caller may ask for.                                       *)
Request ==
  {r \in {new_offset(gpa, hpa, size) : gpa \in Addr, hpa \in HostStart, size \in Sizes} :
     r.start + r.size <= Space}

Next ==
  \/ \E r \in Request : map_region(r)
  \/ \E r \in Request : \E n \in 0 .. Cardinality(Visits(r)) - 1 : map_region_fails(r, n)
  \/ clear

Spec == Init /\ [][Next]_vars

-----------------------------------------------------------------------------
(* Any two regions are disjoint, although test_free_area compares the new  *)
(* one only with the region before and the region after it.                *)
RegionsDisjoint == \A r, q \in regions : r # q => ~ is_overlap_with(r, q)

(* clear never meets an unused entry: its unwrap and Drop do not panic,    *)
(* after any sequence of accepted, refused and half-mapped regions.        *)
ClearNeverPanics == ~ clear_panics

(* If a region is aligned in the guest and in the host, the page table     *)
(* translates every address of it to the address target gives.             *)
query(gpa) == npt[gpa \div PageSize] * PageSize + (gpa % PageSize)
Aligned(r) == r.start % PageSize = 0 /\ r.offset % PageSize = 0
TranslatesAll ==
  \A r \in regions : Aligned(r) =>
    \A gpa \in r.start .. r.start + r.size - 1 :
      /\ npt[gpa \div PageSize] # Unused
      /\ query(gpa) = target(r, gpa)

(* Regions, page table and translation agree, and clear can undo them all.  *)
GuestMemorySound == TypeOK /\ RegionsDisjoint /\ ClearNeverPanics /\ TranslatesAll
=============================================================================
