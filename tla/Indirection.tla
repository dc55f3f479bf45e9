----------------------------- MODULE Indirection -----------------------------
(***************************************************************************)
(* The lists of blocks of an ext2 inode with their three levels of         *)
(* indirection (kernel/crates/efs/src/fs/structures/indirection.rs), as    *)
(* values and operators on them, and a machine that appends and truncates  *)
(* in any order.                                                           *)
(*                                                                         *)
(* Simple indirection is a block b and the data blocks it lists, double    *)
(* and triple ones are a block b and what the blocks it lists are.  Block  *)
(* number 0 is no block.                                                   *)
(***************************************************************************)
EXTENDS Naturals, Sequences, SequencesExt, FiniteSets

CONSTANTS
  DBPC,         \* direct pointers of an inode: 12
  BPI,          \* blocks_per_indirection: block_size / 4
  MaxData,      \* data blocks of a list
  MaxOffset     \* first data block of a write

VARIABLES
  ib,           \* the IndirectedBlocks
  size          \* history: the data blocks it should hold

vars == <<ib, size>>

None == [b |-> 0, list |-> <<>>]
Empty == [direct |-> <<>>, single |-> None, double |-> None, triple |-> None]

Take(s, n) == SubSeq(s, 1, IF n < Len(s) THEN n ELSE Len(s))
Drop(s, n) == SubSeq(s, n + 1, Len(s))
Flat(subs) == FlattenSeq([i \in DOMAIN subs |-> subs[i].list])

-----------------------------------------------------------------------------
(* What a list holds, and how many blocks that takes.                       *)

flatten_data_blocks(x) ==
  x.direct \o x.single.list \o Flat(x.double.list) \o Flat(Flat(x.triple.list))

(* The level of the data block at an offset, and the offset in that level.  *)
block_at_offset_remainging_in_indirection(offset) ==
  CASE offset < DBPC -> <<"direct", offset>>
    [] offset \in DBPC..(DBPC + BPI - 1) -> <<"single", offset - DBPC>>
    [] offset \in (DBPC + BPI)..(DBPC + BPI + BPI^2 - 1) -> <<"double", offset - (DBPC + BPI)>>
    [] OTHER -> <<"triple", offset - (DBPC + BPI + BPI^2)>>

Get(s, i) == IF i < Len(s) THEN s[i + 1] ELSE 0
GetSub(s, i) == IF i < Len(s) THEN s[i + 1] ELSE None

block_at_offset(x, offset) ==
  LET at == block_at_offset_remainging_in_indirection(offset)
      o == at[2]
  IN  CASE at[1] = "direct" -> Get(x.direct, o)
        [] at[1] = "single" -> Get(x.single.list, o)
        [] at[1] = "double" -> Get(GetSub(x.double.list, o \div BPI).list, o % BPI)
        [] at[1] = "triple" -> Get(GetSub(GetSub(x.triple.list, o \div BPI^2).list, (o % BPI^2) \div BPI).list, o % BPI)

LastList(subs) == IF subs = <<>> THEN <<>> ELSE Last(subs).list

(* From where the last block is: the lists before it are taken for full.    *)
data_block_count(x) ==
  LET t == LastList(x.triple.list)
      full == BPI * (Len(x.double.list) - 1)
  IN  CASE LastList(t) # <<>> -> DBPC + BPI + BPI^2 + BPI^2 * (Len(x.triple.list) - 1) + BPI * (Len(t) - 1) + Len(LastList(t))
        [] LastList(t) = <<>> /\ LastList(x.double.list) # <<>> -> DBPC + BPI + full + Len(LastList(x.double.list))
        [] OTHER -> IF x.single.list # <<>> THEN DBPC + Len(x.single.list) ELSE Len(x.direct)

necessary_indirection_block_count(count) ==
  LET s == count - DBPC
      d == s - BPI
      t == d - BPI^2
  IN  CASE count <= DBPC -> 0
        [] count > DBPC /\ s <= BPI -> 1
        [] count > DBPC + BPI /\ d <= BPI^2 -> 3 + (d - 1) \div BPI
        [] OTHER -> 5 + BPI + (t - 1) \div BPI + ((t - 1) \div BPI) \div BPI

indirection_block_count(x) == necessary_indirection_block_count(data_block_count(x))

-----------------------------------------------------------------------------
(* Growing: rest is what is left of the blocks given.                       *)

FillLast(subs, rest) ==
  LET room == BPI - Len(Last(subs).list)
  IN  IF subs = <<>> THEN [subs |-> subs, rest |-> rest]
      ELSE [subs |-> [subs EXCEPT ![Len(subs)].list = @ \o Take(rest, room)], rest |-> Drop(rest, room)]

RECURSIVE Push(_, _)
Push(subs, rest) ==
  IF Len(subs) >= BPI \/ rest = <<>> THEN [subs |-> subs, rest |-> rest]
  ELSE Push(Append(subs, [b |-> Head(rest), list |-> Take(Tail(rest), BPI)]), Drop(rest, BPI + 1))

(* Mutant: a last block that is not full is left as it is.                  *)
GrowDouble_push(subs, rest) == Push(subs, rest)

GrowDouble(subs, rest) == LET f == FillLast(subs, rest) IN Push(f.subs, f.rest)

(* A new double block under the triple one takes a block to see it is full. *)
RECURSIVE PushDoubles(_, _)
PushDoubles(subs, rest) ==
  LET p == Push(<<>>, Tail(rest))
      left == IF Len(p.subs) = BPI /\ p.rest # <<>> THEN Tail(p.rest) ELSE p.rest
  IN  IF Len(subs) >= BPI \/ rest = <<>> THEN subs
      ELSE PushDoubles(Append(subs, [b |-> Head(rest), list |-> p.subs]), left)

GrowTriple(subs, rest) ==
  LET last == Last(subs)
      g == GrowDouble(last.list, rest)
  IN  IF subs # <<>> /\ Len(last.list) < BPI
      THEN PushDoubles([subs EXCEPT ![Len(subs)].list = g.subs], g.rest)
      ELSE PushDoubles(subs, rest)

OrNext(b, rest) == IF b = 0 /\ rest # <<>> THEN Head(rest) ELSE b
AfterNext(b, rest) == IF b = 0 /\ rest # <<>> THEN Tail(rest) ELSE rest

(* With d the double level and the blocks it leaves for the triple one.     *)
append_triply(x, d) ==
  LET rest == AfterNext(x.triple.b, d.rest)
  IN  [x EXCEPT !.double.list = d.subs,
                !.triple = [b |-> OrNext(@.b, d.rest), list |-> IF rest = <<>> THEN @.list ELSE GrowTriple(@.list, rest)]]

append_doubly(x, blocks) ==
  LET rest == AfterNext(x.double.b, blocks)
  IN  append_triply([x EXCEPT !.double.b = OrNext(@, blocks)],
                    IF rest = <<>> THEN [subs |-> x.double.list, rest |-> rest] ELSE GrowDouble(x.double.list, rest))

append_blocks(x, blocks) ==
  LET dn == DBPC - Len(x.direct)
      rest == Drop(blocks, dn)
      list == AfterNext(x.single.b, rest)
      sn == BPI - Len(x.single.list)
  IN  append_doubly([x EXCEPT !.direct = @ \o Take(blocks, dn),
                              !.single = [b |-> OrNext(@.b, rest), list |-> @.list \o Take(list, sn)]],
                    Drop(list, sn))

-----------------------------------------------------------------------------
(* Shrinking.                                                               *)

(* Mutant: a block that is kept in part goes with the rest.                 *)
CutSubs_whole(subs, n) == Take(subs, n \div BPI)

(* subs cut after n data blocks.                                            *)
CutSubs(subs, n) ==
  LET i == n \div BPI
      cut == IF i < Len(subs) THEN [subs EXCEPT ![i + 1].list = Take(@, n % BPI)] ELSE subs
  IN  Take(cut, (n - 1) \div BPI + 1)

truncate_back_data_blocks(x, n) ==
  LET s == n - DBPC
      d == s - BPI
      t == d - BPI^2
      i == (t \div BPI) \div BPI
      cut == IF i < Len(x.triple.list) THEN [x.triple.list EXCEPT ![i + 1].list = CutSubs(@, t)] ELSE x.triple.list
  IN  CASE n > data_block_count(x) -> x
        [] n <= data_block_count(x) /\ n <= DBPC -> [Empty EXCEPT !.direct = Take(x.direct, n)]
        [] n <= data_block_count(x) /\ n \in (DBPC + 1)..(DBPC + BPI) ->
             [x EXCEPT !.single.list = Take(@, s), !.double = None, !.triple = None]
        [] n <= data_block_count(x) /\ n \in (DBPC + BPI + 1)..(DBPC + BPI + BPI^2) ->
             [x EXCEPT !.double.list = CutSubs(@, d), !.triple = None]
        [] OTHER -> [x EXCEPT !.triple.list = Take(cut, ((t - 1) \div BPI) \div BPI + 1)]

(* The part of subs from data block n on.                                   *)
FromSubs(subs, n) ==
  LET rest == Drop(subs, n \div BPI)
  IN  IF rest = <<>> THEN rest ELSE [rest EXCEPT ![1].list = Drop(@, n % BPI)]

(* A SymmetricDifference: the list without what lies before data block n,   *)
(* and the level and offset where it starts.                                *)
truncate_front_data_blocks(x, n) ==
  LET at == block_at_offset_remainging_in_indirection(n)
      o == at[2]
      doubles == Drop(x.triple.list, o \div BPI^2)
      later == [x EXCEPT !.direct = <<>>]
  IN  [at |-> at,
       ib |-> CASE at[1] = "direct" -> [x EXCEPT !.direct = Drop(@, o)]
                [] at[1] = "single" -> [later EXCEPT !.single.list = Drop(@, o)]
                [] at[1] = "double" -> [later EXCEPT !.single = None, !.double.list = FromSubs(@, o)]
                [] at[1] = "triple" ->
                     [later EXCEPT !.single = None, !.double = None,
                        !.triple.list = IF doubles = <<>> THEN doubles
                                        ELSE [doubles EXCEPT ![1].list = FromSubs(@, o % BPI^2)]]]

(* Unlist a block whose list has become empty.                              *)
Clear(sub) == IF sub.list = <<>> THEN None ELSE sub
ClearFirst(s) == IF s = <<>> THEN s ELSE [s EXCEPT ![1] = Clear(@)]

(* Mutant: what changes starts at the first new block, not at the offset.   *)
append_blocks_with_difference_new(x, blocks, offset) ==
  [new |-> append_blocks(x, blocks),
   changed |-> truncate_front_data_blocks(append_blocks(x, blocks), data_block_count(x))]

(* In the triple level a list that starts at the offset is dropped.         *)
Cleared(diff) ==
  LET o == diff.at[2]
      y == diff.ib
      first == IF o % BPI^2 = 0 THEN None
               ELSE IF o % BPI = 0 THEN [y.triple.list[1] EXCEPT !.list = [@ EXCEPT ![1] = None]]
               ELSE y.triple.list[1]
  IN  [diff EXCEPT !.ib =
         CASE diff.at[1] = "direct" -> y
           [] diff.at[1] = "single" -> [y EXCEPT !.single = Clear(@)]
           [] diff.at[1] = "double" -> [y EXCEPT !.double = Clear([@ EXCEPT !.list = ClearFirst(@)])]
           [] diff.at[1] = "triple" -> IF y.triple.list = <<>> THEN y ELSE [y EXCEPT !.triple.list[1] = first]]

Differing(new, offset) == [new |-> new, changed |-> Cleared(truncate_front_data_blocks(new, offset))]

(* The list with blocks added, and its difference from data block offset.   *)
append_blocks_with_difference(x, blocks, offset) == Differing(append_blocks(x, blocks), offset)

-----------------------------------------------------------------------------
(* What a difference says must be written.                                  *)

changed_data_blocks(diff) == flatten_data_blocks(diff.ib)

Numbers(subs) == [i \in DOMAIN subs |-> subs[i].b]

(* The lists of subs, the first of which starts at an index of its own.     *)
Listed(subs, index) ==
  [i \in DOMAIN subs |-> [index |-> IF i = 1 THEN index ELSE 0, b |-> subs[i].b, list |-> subs[i].list]]

(* Every indirection block to write: its list, and the index it starts at.  *)
changed_indirected_blocks(diff) ==
  LET x == diff.ib
      o(level) == IF diff.at[1] = level THEN diff.at[2] ELSE 0
      Under(sub, start) == <<[index |-> start \div BPI, b |-> sub.b, list |-> Numbers(sub.list)]>>
                              \o Listed(sub.list, start % BPI)
      triples == x.triple.list
  IN  (IF x.single.b = 0 THEN <<>> ELSE <<[index |-> o("single"), b |-> x.single.b, list |-> x.single.list]>>)
      \o (IF x.double.b = 0 THEN <<>> ELSE Under(x.double, o("double")))
      \o (IF x.triple.b = 0 THEN <<>>
          ELSE <<[index |-> o("triple") \div BPI^2, b |-> x.triple.b, list |-> Numbers(triples)]>>
               \o FlattenSeq([i \in DOMAIN triples |-> Under(triples[i], IF i = 1 THEN o("triple") % BPI^2 ELSE 0)]))

-----------------------------------------------------------------------------
Singles(x) == <<x.single>> \o x.double.list \o Flat(x.triple.list)
Doubles(x) == <<x.double>> \o x.triple.list

(* Every indirection block of a list with the numbers in it.                *)
Tables(x) ==
  LET listing == Doubles(x) \o <<x.triple>>
      numbers == [i \in DOMAIN listing |-> [b |-> listing[i].b, list |-> Numbers(listing[i].list)]]
  IN  {t \in ToSet(Singles(x)) \cup ToSet(numbers) : t.b # 0}

Blocks(x) == ToSet(flatten_data_blocks(x)) \cup {t.b : t \in Tables(x)}

(* Free blocks for n more data blocks, as many as File::write asks for.     *)
Given(n) ==
  LET free == (1..(4 * MaxData)) \ Blocks(ib)
      wanted == (n + necessary_indirection_block_count(size + n)) - indirection_block_count(ib)
  IN  [i \in 1..wanted |-> CHOOSE b \in free : Cardinality({c \in free : c < b}) = i - 1]

Add(n) ==
  /\ size + n <= MaxData
  /\ ib' = append_blocks(ib, Given(n))
  /\ size' = size + n

Truncate(n) ==
  /\ n < size
  /\ ib' = truncate_back_data_blocks(ib, n)
  /\ size' = n

Init == ib = Empty /\ size = 0

Next == \E n \in 0..MaxData : (n > 0 /\ Add(n)) \/ Truncate(n)

Spec == Init /\ [][Next]_vars

-----------------------------------------------------------------------------
TypeOK ==
  /\ size \in 0..MaxData
  /\ ib.direct \in Seq(Nat) /\ Len(ib.direct) <= DBPC
  /\ \A s \in ToSet(Singles(ib)) : s.b \in Nat /\ Len(s.list) <= BPI
  /\ \A d \in ToSet(Doubles(ib)) : d.b \in Nat /\ Len(d.list) <= BPI

(* However the list grew and shrank, it holds as many data blocks as were   *)
(* asked for, each in one place and found at its offset, and it has exactly *)
(* the indirection blocks that many take: of the blocks given to            *)
(* append_blocks none is lost and none is used twice.                       *)
ListExact ==
  LET flat == flatten_data_blocks(ib)
  IN  /\ Len(flat) = size /\ data_block_count(ib) = size
      /\ \A o \in 0..MaxData : block_at_offset(ib, o) = Get(flat, o)
      /\ 0 \notin ToSet(flat)
      /\ Cardinality(Blocks(ib)) = size + necessary_indirection_block_count(size)
      /\ Cardinality(Tables(ib)) = indirection_block_count(ib)

(* Growing keeps the data blocks in front, and cutting keeps the first ones *)
(* in their order.                                                          *)
FrontStep ==
  LET m == IF size < size' THEN size ELSE size'
  IN  Take(flatten_data_blocks(ib'), m) = Take(flatten_data_blocks(ib), m)

KeepsFront == [][FrontStep]_vars

(* What the disk has in table t, once the changes are written over it.      *)
Written(t, changes) ==
  LET old == UNION {{<<i, u.list[i]>> : i \in DOMAIN u.list} : u \in {u \in Tables(ib) : u.b = t.b}}
      new == UNION {{<<c.index + i, c.list[i]>> : i \in DOMAIN c.list} : c \in {c \in changes : c.b = t.b}}
      at == {e[1] : e \in new}
  IN  new \cup {e \in old : e[1] \notin at}

(* For a write that starts at a data block of the list or right behind it   *)
(* and has the blocks it needs, the difference tells all there is to write: *)
(* the data blocks from there to the end, and with the lists written at     *)
(* their index every indirection block has the numbers it should.           *)
DifferenceComplete ==
  \A offset \in 0..MaxOffset, n \in 0..(MaxData - size) : offset <= size /\ offset < size + n =>
    LET r == append_blocks_with_difference(ib, Given(n), offset)
    IN  /\ changed_data_blocks(r.changed) = Drop(flatten_data_blocks(r.new), offset)
        /\ \A t \in Tables(r.new) :
             Written(t, ToSet(changed_indirected_blocks(r.changed))) = {<<i, t.list[i]>> : i \in DOMAIN t.list}
=============================================================================
