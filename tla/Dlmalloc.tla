------------------------------- MODULE Dlmalloc -------------------------------
(***************************************************************************)
(* The allocator behind malloc, realloc, memalign and free of relibc       *)
(* (relibc/dlmalloc-rs/src/dlmalloc.rs), with its boundary tags, its bins, *)
(* the designated victim dv, the top chunk and the segments it gets from   *)
(* the system and gives back.                                              *)
(*                                                                         *)
(* Addresses and sizes count units of malloc_alignment, 16 bytes; requests *)
(* count words of 8 bytes.  A chunk starts at its head.  The bitwise tries *)
(* of large chunks are a set here: TreeBin shows what they return.  The    *)
(* system allocator is external.  The whole heap is one record, which the  *)
(* operators below take and return as the methods do with self.            *)
(***************************************************************************)
EXTENDS Naturals, Sequences, SequencesExt, FiniteSets, FiniteSetsExt, TLC

CONSTANTS
  Space,            \* units of address space the system can give
  Granularity,      \* DEFAULT_GRANULARITY
  Page,             \* what the system aligns to
  MinLarge,         \* min_large_size
  TrimThreshold,    \* DEFAULT_TRIM_THRESHOLD
  MaxReleaseCheck,  \* MAX_RELEASE_CHECK_RATE
  Requests,         \* sizes asked for, in words
  Alignments,       \* alignments asked of memalign
  MaxLive           \* blocks at a time

VARIABLES
  heap,             \* the Dlmalloc and the heads and feet in its memory
  live              \* history: the words asked for, per block of the caller

vars == <<heap, live>>

Null == Space + 1
MinChunk == 2       \* min_chunk_size: 32 bytes
SegmentChunk == 3   \* pad_request(size_of::<Segment>()): 48 bytes
TopFoot == SegmentChunk + MinChunk      \* top_foot_size
Never == Space * Space                  \* usize::max_value()

(* Mutant: no room for the head of the chunk.                               *)
request2size_short(words) == IF words < 3 THEN MinChunk ELSE (words + 1) \div 2

request2size(words) == IF words < 3 THEN MinChunk ELSE (words + 2) \div 2

-----------------------------------------------------------------------------
(* Heads: the size and the flags CINUSE and PINUSE.                         *)

Size(m, p) == m.head[p].size
cinuse(m, p) == m.head[p].c
pinuse(m, p) == m.head[p].p

SetHead(m, p, size, pin, c) == [m EXCEPT !.head = (p :> [size |-> size, p |-> pin, c |-> c]) @@ @]

(* head |= PINUSE, also where no head has been written yet.                 *)
mark_pinuse(m, p) ==
  IF p \in DOMAIN m.head THEN [m EXCEPT !.head[p].p = TRUE] ELSE SetHead(m, p, 0, TRUE, FALSE)
clear_pinuse(m, p) == [m EXCEPT !.head[p].p = FALSE]

set_inuse(m, p, size) == mark_pinuse(SetHead(m, p, size, m.head[p].p, TRUE), p + size)
set_inuse_and_pinuse(m, p, size) == mark_pinuse(SetHead(m, p, size, TRUE, TRUE), p + size)
set_size_and_pinuse_of_inuse_chunk(m, p, size) == SetHead(m, p, size, TRUE, TRUE)
set_size_and_pinuse_of_free_chunk(m, p, size) ==
  [SetHead(m, p, size, TRUE, FALSE) EXCEPT !.foot = ((p + size) :> size) @@ @]
(* Mutant: the next chunk is not told.                                      *)
set_free_only(m, p, size, next) == set_size_and_pinuse_of_free_chunk(m, p, size)

set_free_with_pinuse(m, p, size, next) ==
  set_size_and_pinuse_of_free_chunk(clear_pinuse(m, next), p, size)

-----------------------------------------------------------------------------
(* Bins.  A small bin hands out the chunk it got last.                      *)

insert_small_chunk(m, p, size) == [m EXCEPT !.small[size] = Append(@, p)]
insert_chunk(m, p, size) ==
  IF size < MinLarge THEN insert_small_chunk(m, p, size) ELSE [m EXCEPT !.large = @ \cup {p}]
unlink_chunk(m, p, size) ==
  IF size < MinLarge
  THEN [m EXCEPT !.small[size] = SelectSeq(@, LAMBDA q : q # p)]
  ELSE [m EXCEPT !.large = @ \ {p}]

set_dv(m, p, size) == [m EXCEPT !.dv = p, !.dvsize = size]
set_top(m, p, size) == [SetHead(m, p, size, TRUE, FALSE) EXCEPT !.top = p, !.topsize = size]

(* Mutant: the old victim is not binned.                                    *)
replace_dv_only(m, p, size) == set_dv(m, p, size)

replace_dv(m, p, size) ==
  set_dv(IF m.dvsize # 0 THEN insert_small_chunk(m, m.dv, m.dvsize) ELSE m, p, size)

(* Split free chunk p, already unlinked, of size had; the rest is the new   *)
(* victim, takes the place of one, or goes to a bin.                        *)
Keep(m, p, size, as) ==
  CASE as = "victim" -> set_dv(m, p, size)
    [] as = "new victim" -> replace_dv(m, p, size)
    [] as = "binned" -> insert_chunk(m, p, size)

Split(m, p, had, nb, as) ==
  IF had - nb < MinChunk THEN set_inuse_and_pinuse(m, p, had)
  ELSE Keep(set_size_and_pinuse_of_free_chunk(set_size_and_pinuse_of_inuse_chunk(m, p, nb), p + nb, had - nb),
            p + nb, had - nb, as)

-----------------------------------------------------------------------------
(* Segments: base, size, and where the record is (Null: in Dlmalloc).       *)

init_top(m, p, size) == SetHead(set_top([m EXCEPT !.trim_check = TrimThreshold], p, size), p + size, TopFoot, FALSE, FALSE)

End(s) == s.base + s.size
InSegment(s, p) == s.base <= p /\ p < End(s)

prepend_alloc(m, p, oldfirst, size) ==
  LET q == p + size
      qsize == oldfirst - q
      a == set_size_and_pinuse_of_inuse_chunk(m, p, size)
      merged == IF cinuse(a, oldfirst) THEN 0 ELSE Size(a, oldfirst)
      b == IF merged = 0 THEN a ELSE unlink_chunk(a, oldfirst, merged)
  IN  CASE oldfirst = m.top -> set_top(a, q, m.topsize + qsize)
        [] oldfirst = m.dv -> set_dv(set_size_and_pinuse_of_free_chunk(a, q, m.dvsize + qsize), q, m.dvsize + qsize)
        [] OTHER -> insert_chunk(set_free_with_pinuse(b, q, qsize + merged, oldfirst + merged), q, qsize + merged)

(* The record of the old segment and a fence post go behind the old top.    *)
add_segment(m, tbase, tsize) ==
  LET old == m.segs[1]
      asp == End(old) - TopFoot
      csp == IF asp < m.top + MinChunk THEN m.top ELSE asp
      fenced == SetHead(set_size_and_pinuse_of_inuse_chunk(init_top(m, tbase, tsize - TopFoot), csp, SegmentChunk),
                     csp + SegmentChunk, 0, TRUE, TRUE)
      n == [fenced EXCEPT !.segs = <<[base |-> tbase, size |-> tsize, at |-> Null], [old EXCEPT !.at = csp]>> \o Tail(@)]
  IN  IF csp = m.top THEN n
      ELSE insert_chunk(set_free_with_pinuse(n, m.top, csp - m.top, csp), m.top, csp - m.top)

FromTop(m, nb) ==
  [m |-> set_size_and_pinuse_of_inuse_chunk(set_top(m, m.top + nb, m.topsize - nb), m.top, nb), p |-> m.top]

TopOrNull(m, nb) == IF nb < m.topsize THEN FromTop(m, nb) ELSE [m |-> m, p |-> Null]

(* tbase is what the system gives, Null when it fails.                      *)
SystemSize(nb) == ((nb + TopFoot + 1 + Granularity - 1) \div Granularity) * Granularity
sys_alloc(m, nb, tbase) ==
  LET tsize == SystemSize(nb)
      got == [m EXCEPT !.footprint = @ + tsize]
      after == {i \in DOMAIN m.segs : End(m.segs[i]) = tbase}
      before == {i \in DOMAIN m.segs : m.segs[i].base = tbase + tsize}
      first == [got EXCEPT !.segs = <<[base |-> tbase, size |-> tsize, at |-> Null]>>,
                           !.release_checks = MaxReleaseCheck]
      grown == CHOOSE i \in before : TRUE
      prepended == [got EXCEPT !.segs[grown].base = tbase, !.segs[grown].size = @ + tsize]
      n == CASE m.top = Null -> init_top(first, tbase, tsize - TopFoot)
             [] m.top # Null /\ after = {1} ->
                  init_top([got EXCEPT !.segs[1].size = @ + tsize], m.top, m.topsize + tsize)
             [] OTHER -> add_segment(got, tbase, tsize)
  IN  CASE tbase = Null -> [m |-> m, p |-> Null]
        [] tbase # Null /\ m.top # Null /\ after # {1} /\ before # {} ->
             [m |-> prepend_alloc(prepended, tbase, m.segs[grown].base, nb), p |-> tbase]
        [] OTHER -> TopOrNull(n, nb)

-----------------------------------------------------------------------------
BySize(m, ps) == {p \in ps : \A q \in ps : Size(m, p) <= Size(m, q)}

(* The order in which malloc looks: an exact small bin, a larger small bin, *)
(* the tries, the designated victim, top, the system.                       *)
malloc(m, nb, tbase) ==
  LET larger == {s \in DOMAIN m.small : s > nb /\ m.small[s] # <<>>}
      fits == {p \in m.large : Size(m, p) >= nb}
      v == CHOOSE p \in BySize(m, fits) : \A q \in BySize(m, fits) : p <= q
      unlinked == unlink_chunk(m, v, Size(m, v))
  IN  CASE nb < MinLarge /\ m.small[nb] # <<>> ->
             LET p == Last(m.small[nb])
             IN  [m |-> set_inuse_and_pinuse(unlink_chunk(m, p, nb), p, nb), p |-> p]
        [] nb < MinLarge /\ m.small[nb] = <<>> /\ nb > m.dvsize /\ larger # {} ->
             LET s == Min(larger)
                 p == Last(m.small[s])
             IN  [m |-> Split(unlink_chunk(m, p, s), p, s, nb, "new victim"), p |-> p]
        [] nb < MinLarge /\ m.small[nb] = <<>> /\ nb > m.dvsize /\ larger = {} /\ m.large # {} ->
             [m |-> Split(unlinked, v, Size(m, v), nb, "new victim"), p |-> v]
        [] nb >= MinLarge /\ fits # {} /\ (m.dvsize < nb \/ Size(m, v) < m.dvsize) ->
             [m |-> Split(unlinked, v, Size(m, v), nb, "binned"), p |-> v]
        [] OTHER ->
             CASE nb <= m.dvsize /\ m.dvsize - nb >= MinChunk ->
                    [m |-> Split(m, m.dv, m.dvsize, nb, "victim"), p |-> m.dv]
               [] nb <= m.dvsize /\ m.dvsize - nb < MinChunk ->
                    [m |-> set_inuse_and_pinuse(set_dv(m, Null, 0), m.dv, m.dvsize), p |-> m.dv]
               [] nb > m.dvsize /\ nb < m.topsize -> FromTop(m, nb)
               [] OTHER -> sys_alloc(m, nb, tbase)

-----------------------------------------------------------------------------
(* Free chunk p of psize: merged with its neighbours and binned.            *)
dispose_chunk(m, chunk, chunksize) ==
  LET next == chunk + chunksize
      prevsize == IF pinuse(m, chunk) THEN 0 ELSE m.foot[chunk]
      p == chunk - prevsize
      psize == chunksize + prevsize
      indv == prevsize # 0 /\ p = m.dv
      a == IF prevsize # 0 /\ ~indv THEN unlink_chunk(m, p, prevsize) ELSE m
      nsize == Size(m, next)
      b == set_size_and_pinuse_of_free_chunk(unlink_chunk(a, next, nsize), p, psize + nsize)
  IN  CASE indv /\ cinuse(m, next) -> set_free_with_pinuse([m EXCEPT !.dvsize = psize], p, psize, next)
        [] ~cinuse(m, next) /\ next = m.top ->
             set_top(IF p = m.dv THEN set_dv(a, Null, 0) ELSE a, p, psize + m.topsize)
        [] ~cinuse(m, next) /\ next = m.dv ->
             set_dv(set_size_and_pinuse_of_free_chunk(a, p, psize + m.dvsize), p, psize + m.dvsize)
        [] ~cinuse(m, next) /\ next \notin {m.top, m.dv} ->
             IF p = m.dv THEN [b EXCEPT !.dvsize = psize + nsize] ELSE insert_chunk(b, p, psize + nsize)
        [] OTHER -> insert_chunk(set_free_with_pinuse(a, p, psize, next), p, psize)

(* A segment that is one free chunk up to its record goes back, if the      *)
(* system takes it; if not, the chunk goes to the tries.                    *)
AllFree(m, s) == ~cinuse(m, s.base) /\ s.base + Size(m, s.base) >= End(s) - TopFoot
release_unused_segments(m, takes) ==
  LET unused == {i \in 2..Len(m.segs) : AllFree(m, m.segs[i])}
      bases == {m.segs[i].base : i \in unused}
      a == [IF m.dv \in bases THEN set_dv(m, Null, 0) ELSE m EXCEPT !.release_checks = MaxReleaseCheck]
  IN  IF takes
      THEN [a EXCEPT !.large = @ \ bases,
                     !.segs = SelectSeq(@, LAMBDA s : s.base \notin bases),
                     !.footprint = @ - MapThenSumSet(LAMBDA i : m.segs[i].size, unused)]
      ELSE [a EXCEPT !.large = @ \cup bases]

Retry(m, b) == IF b.footprint = m.footprint /\ b.topsize > b.trim_check THEN [b EXCEPT !.trim_check = Never] ELSE b

sys_trim(m, takes) ==
  LET extra == ((m.topsize - TopFoot + Granularity - 1) \div Granularity - 1) * Granularity
      linked == \E i \in DOMAIN m.segs : m.segs[i].at # Null /\ InSegment(m.segs[1], m.segs[i].at)
      cut == m.topsize > TopFoot /\ takes /\ m.segs[1].size >= extra /\ ~linked /\ extra # 0
      a == IF cut THEN init_top([m EXCEPT !.segs[1].size = @ - extra, !.footprint = @ - extra], m.top, m.topsize - extra)
           ELSE m
  IN  Retry(m, release_unused_segments(a, takes))

(* free: dispose_chunk, and memory that may go back to the system: a is the *)
(* heap once the chunk is disposed of.                                      *)
give_back(m, a, first, takes) ==
  LET counted == [a EXCEPT !.release_checks = @ - 1]
  IN  CASE a.topsize # m.topsize /\ a.topsize > a.trim_check -> sys_trim(a, takes)
        [] a.topsize = m.topsize /\ first \in a.large ->
             IF counted.release_checks = 0 THEN release_unused_segments(counted, takes) ELSE counted
        [] OTHER -> a

free(m, p, takes) ==
  give_back(m, dispose_chunk(m, p, Size(m, p)), IF pinuse(m, p) THEN p ELSE p - m.foot[p], takes)

(* Give back what chunk p, of size had, has beyond nb.                      *)
Shrink(m, p, had, nb) == dispose_chunk(set_inuse(set_inuse(m, p, nb), p + nb, had - nb), p + nb, had - nb)

(* The chunk stays where it is: the heap, or <<>> when it cannot.           *)
try_realloc_chunk(m, p, nb) ==
  LET had == Size(m, p)
      next == p + had
      room == had + (IF next = m.top THEN m.topsize ELSE IF next = m.dv THEN m.dvsize ELSE Size(m, next))
      rest == room - nb
      unlinked == unlink_chunk(m, next, Size(m, next))
  IN  CASE had >= nb -> <<IF had - nb >= MinChunk THEN Shrink(m, p, had, nb) ELSE m>>
        [] had < nb /\ next = m.top /\ room > nb -> <<set_top(set_inuse(m, p, nb), p + nb, rest)>>
        [] had < nb /\ next = m.dv /\ room >= nb ->
             IF rest >= MinChunk
             THEN <<set_dv(clear_pinuse(set_size_and_pinuse_of_free_chunk(set_inuse(m, p, nb), p + nb, rest),
                                        p + nb + rest), p + nb, rest)>>
             ELSE <<set_dv(set_inuse(m, p, room), Null, 0)>>
        [] had < nb /\ next \notin {m.top, m.dv} /\ ~cinuse(m, next) /\ room >= nb ->
             <<IF rest < MinChunk THEN set_inuse(unlinked, p, room) ELSE Shrink(unlinked, p, room, nb)>>
        [] OTHER -> <<>>

Replace(new, old, takes) == IF new.p = Null THEN new ELSE [m |-> free(new.m, old, takes), p |-> new.p]

realloc(m, old, nb, tbase, takes) ==
  LET inplace == try_realloc_chunk(m, old, nb)
  IN  IF inplace # <<>> THEN [m |-> inplace[1], p |-> old] ELSE Replace(malloc(m, nb, tbase), old, takes)

(* Room for the alignment is asked for and given back on both sides.        *)
Align(got, alignment, nb) ==
  LET p == got.p
      br == (((p + 1 + alignment - 1) \div alignment) * alignment) - 1
      pos == IF (p + 1) % alignment = 0 THEN p ELSE IF br - p > MinChunk THEN br ELSE br + alignment
      all == Size(got.m, p)
      a == IF pos = p THEN got.m
           ELSE dispose_chunk(set_inuse(set_inuse(SetHead(got.m, pos, 0, FALSE, FALSE), pos, all - (pos - p)), p, pos - p),
                              p, pos - p)
      size == all - (pos - p)
  IN  IF p = Null THEN got
      ELSE [m |-> IF size > nb + MinChunk THEN Shrink(a, pos, size, nb) ELSE a, p |-> pos]

memalign(m, alignment, nb, tbase) == Align(malloc(m, nb + alignment + MinChunk, tbase), alignment, nb)

-----------------------------------------------------------------------------
(* The chunks of a segment, from its base to top or the fence post.         *)
RECURSIVE ChunksFrom(_, _)
ChunksFrom(m, p) ==
  IF p \notin DOMAIN m.head THEN {Null}
  ELSE IF p = m.top \/ Size(m, p) = 0 THEN {p}
  ELSE {p} \cup ChunksFrom(m, p + Size(m, p))
Chunks(m) == UNION {ChunksFrom(m, m.segs[i].base) : i \in DOMAIN m.segs}

(* Memory that is no head and no foot any more is forgotten.                *)
Forget(m) ==
  LET cs == Chunks(m) \ {Null}
  IN  [m EXCEPT !.head = [p \in cs |-> m.head[p]],
                !.foot = [p \in {q \in cs : ~m.head[q].p} \cap DOMAIN m.foot |-> m.foot[p]]]

Bases(nb) ==
  {Null} \cup {b \in 0..(Space - SystemSize(nb)) : b % Page = 0 /\
     \A i \in DOMAIN heap.segs : b + SystemSize(nb) <= heap.segs[i].base \/ End(heap.segs[i]) <= b}

Allocates(r, words) ==
  /\ heap' = Forget(r.m)
  /\ live' = IF r.p = Null THEN live ELSE (r.p :> words) @@ live

Malloc(words) ==
  /\ Cardinality(DOMAIN live) < MaxLive
  /\ \E b \in Bases(request2size(words)) : Allocates(malloc(heap, request2size(words), b), words)

Memalign(alignment, words) ==
  /\ Cardinality(DOMAIN live) < MaxLive
  /\ LET nb == request2size(words)
     IN  \E b \in Bases(nb + alignment + MinChunk) : Allocates(memalign(heap, alignment, nb, b), words)

Free(p) ==
  /\ \E takes \in BOOLEAN : heap' = Forget(free(heap, p, takes))
  /\ live' = [q \in DOMAIN live \ {p} |-> live[q]]

Moves(r, p, words) ==
  /\ heap' = Forget(r.m)
  /\ live' = IF r.p = Null THEN live ELSE (r.p :> words) @@ [q \in DOMAIN live \ {p} |-> live[q]]

Realloc(p, words) ==
  \E b \in Bases(request2size(words)), takes \in BOOLEAN :
    Moves(realloc(heap, p, request2size(words), b, takes), p, words)

Init ==
  /\ heap = [head |-> <<>>, foot |-> <<>>, small |-> [s \in MinChunk..(MinLarge - 1) |-> <<>>], large |-> {},
             dv |-> Null, dvsize |-> 0, top |-> Null, topsize |-> 0, segs |-> <<>>, footprint |-> 0,
             trim_check |-> 0, release_checks |-> 0]
  /\ live = <<>>

Next ==
  \/ \E w \in Requests : Malloc(w)
  \/ \E w \in Requests, a \in Alignments : Memalign(a, w)
  \/ \E p \in DOMAIN live : Free(p)
  \/ \E p \in DOMAIN live, w \in Requests : Realloc(p, w)

Spec == Init /\ [][Next]_vars

-----------------------------------------------------------------------------
TypeOK ==
  /\ heap.footprint \in 0..Space /\ heap.topsize \in 0..Space /\ heap.dvsize \in 0..Space
  /\ heap.large \subseteq 0..Space /\ DOMAIN live \subseteq 0..Space

FreeChunks == {p \in DOMAIN heap.head : ~heap.head[p].c /\ p # heap.top}
Binned == UNION {ToSet(heap.small[s]) : s \in DOMAIN heap.small} \cup heap.large

(* The boundary tags that merging relies on are right: the chunks of every  *)
(* segment follow each other without a gap up to top or a fence post, each  *)
(* head says whether the chunk before it is in use and, if it is free, the  *)
(* foot says its size; and no two free chunks are neighbours.               *)
BoundaryTags ==
  /\ Null \notin Chunks(heap)
  /\ \A p \in DOMAIN heap.head \ {heap.top} : Size(heap, p) # 0 =>
       LET next == p + Size(heap, p)
       IN  /\ next \in DOMAIN heap.head
           /\ pinuse(heap, next) = cinuse(heap, p)
           /\ ~cinuse(heap, p) => heap.foot[next] = Size(heap, p) /\ cinuse(heap, next) /\ next # heap.top

(* Every free chunk is in exactly one place malloc looks: the bin of its    *)
(* size, the tries, or the designated victim; and nothing else is there.    *)
FreeChunksFound ==
  /\ FreeChunks = Binned \cup (IF heap.dvsize = 0 THEN {} ELSE {heap.dv})
  /\ heap.dv \notin Binned
  /\ heap.dvsize # 0 => Size(heap, heap.dv) = heap.dvsize
  /\ \A s \in DOMAIN heap.small : IsInjective(heap.small[s]) /\ \A p \in ToSet(heap.small[s]) : Size(heap, p) = s
  /\ \A p \in heap.large : Size(heap, p) >= MinLarge
  /\ heap.top # Null => Size(heap, heap.top) = heap.topsize

(* Every block of the caller is a chunk in use that has room for what was   *)
(* asked for, and no other chunk is in use except the records of segments:  *)
(* nothing is lost or handed out twice, also when segments grow at either   *)
(* end, are trimmed or go back to the system.                               *)
BlocksKept ==
  /\ {p \in DOMAIN heap.head : heap.head[p].c /\ Size(heap, p) # 0}
       = DOMAIN live \cup ({heap.segs[i].at : i \in DOMAIN heap.segs} \ {Null})
  /\ \A p \in DOMAIN live : live[p] <= 2 * Size(heap, p) - 1
  /\ \A i, j \in DOMAIN heap.segs : i # j =>
       End(heap.segs[i]) <= heap.segs[j].base \/ End(heap.segs[j]) <= heap.segs[i].base
  /\ \A p \in DOMAIN live : \E i \in DOMAIN heap.segs :
       InSegment(heap.segs[i], p) /\ p + Size(heap, p) <= End(heap.segs[i]) - TopFoot
=============================================================================
