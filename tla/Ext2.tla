-------------------------------- MODULE Ext2 --------------------------------
(***************************************************************************)
(* Inodes and blocks of an ext2 volume: the bitmaps and counts of          *)
(* kernel/crates/efs/src/fs/ext2/mod.rs, the lists of blocks of inode.rs,  *)
(* and write, truncate and read of file.rs as the kernel's Ext2File        *)
(* (kernel/src/fs/ext2.rs) calls them.                                     *)
(*                                                                         *)
(* A cell is four bytes: a pointer, or data, which is the place in the     *)
(* file it was written to.  A crash keeps a prefix of the device writes of *)
(* an operation and loses the File objects.  Directories are left out: an  *)
(* inode is made and given up as add_entry and remove_entry do.            *)
(***************************************************************************)
EXTENDS Naturals, Sequences, SequencesExt, FiniteSets

CONSTANTS
  Inodes,       \* the inodes, numbers
  Handle,       \* File objects of the kernel
  Blocks,       \* blocks of the volume: 1..Blocks
  PerGroup,     \* blocks_per_group
  BlockCells,   \* block_size in cells, and so blocks_per_indirection
  DBPC,         \* direct pointers of an inode
  Minimal,      \* MINIMAL_FILE_ALLOCATION in cells
  MaxCells,     \* cells of a file
  Offsets,      \* where writes start
  Lengths,      \* cells they write
  Sizes,        \* what files are truncated to
  MaxStart,     \* last data block a write starts in
  MaxKept,      \* most data blocks truncate keeps
  MaxOps        \* writes and truncations

VARIABLES
  used,         \* the block bitmap
  group_free,   \* free_blocks_count of every group descriptor
  super_free,   \* free_blocks_count of the superblock
  inode,        \* inodes on the device
  disk,         \* the cells of every block
  file,         \* File objects: the inode number and their copy of the inode
  crashed,      \* history: an operation was cut short
  ops           \* history: how many there were

vars == <<used, group_free, super_free, inode, disk, file, crashed, ops>>

I == INSTANCE Indirection WITH BPI <- BlockCells, MaxData <- Blocks, MaxOffset <- Blocks, ib <- 0, size <- 0

Block == 1..Blocks
Groups == 0..((Blocks - 1) \div PerGroup)
block_group(b) == (b - 1) \div PerGroup
Count(cells) == 1 + (cells - 1) \div BlockCells
Larger(a, b) == IF a > b THEN a ELSE b
Garbage == Blocks + 1                   \* a cell that is neither zero nor a block
Place(n, i) == 100 * (n + 1) + i        \* what is written at cell i of file n
NoFile == [n |-> 0]
NewInode == [used |-> TRUE, size |-> 0, ptr |-> I!Empty]

(* Inode::indirected_blocks: the pointers that are not zero, cut to size.   *)
read_indirect_block(b) == IF b \in Block THEN SelectSeq(disk[b], LAMBDA c : c # 0) ELSE <<>>
Read(bs) == [i \in DOMAIN bs |-> [b |-> bs[i], list |-> read_indirect_block(bs[i])]]

indirected_blocks(ino) ==
  LET n == Count(Larger(ino.size, 1))
      p == ino.ptr
      single == IF p.single.b # 0 /\ n > DBPC THEN read_indirect_block(p.single.b) ELSE <<>>
      subs == IF p.double.b # 0 /\ p.single.b # 0 /\ n > DBPC + BlockCells
              THEN Read(I!Take(read_indirect_block(p.double.b), (n - DBPC - 1) \div BlockCells)) ELSE <<>>
  IN  I!truncate_back_data_blocks(
        [p EXCEPT !.single.list = single, !.double.list = subs], n)

data_blocks(ino) == I!flatten_data_blocks(indirected_blocks(ino))

-----------------------------------------------------------------------------
(* Free blocks, from group start on and around; none if there are too few.  *)

Sorted(S) == [i \in 1..Cardinality(S) |-> CHOOSE b \in S : Cardinality({c \in S : c < b}) = i - 1]

(* Mutant: the bitmap of the first group is not looked at.                  *)
free_blocks_offset_first(n, start) == I!Take(Sorted(Block), n)

free_blocks_offset(n, start) ==
  LET group(i) == (i - 1 + start) % Cardinality(Groups)
      free(g) == IF group_free[g] = 0 THEN {} ELSE {b \in Block \ used : block_group(b) = g}
  IN  I!Take(FlattenSeq([i \in 1..Cardinality(Groups) |-> Sorted(free(group(i)))]), n)

InGroup(S, g) == Cardinality({b \in S : block_group(b) = g})

(* u16, as the free_blocks_count of a descriptor.                           *)
Added(S, usage, g) == (IF usage THEN group_free[g] + 65536 - InGroup(S, g) ELSE group_free[g] + InGroup(S, g)) % 65536

(* A crash finds the bitmaps of the groups bits and the descriptors of      *)
(* counts written; the superblock follows when every group is done.         *)
Whole == [bits |-> Groups, counts |-> Groups, super |-> TRUE]
Cut == {c \in [bits : SUBSET Groups, counts : SUBSET Groups, super : {FALSE}] :
          c.counts \subseteq c.bits /\ Cardinality(c.bits \ c.counts) <= 1}

(* Mutant: the counts are left to the superblock.                           *)
locate_blocks_super(S, usage, c) ==
  /\ used' = IF usage THEN used \cup {b \in S : block_group(b) \in c.bits} ELSE {b \in used : b \notin S \/ block_group(b) \notin c.bits}
  /\ super_free' = IF ~c.super THEN super_free ELSE IF usage THEN super_free - Cardinality(S) ELSE super_free + Cardinality(S)
  /\ UNCHANGED group_free

(* locate_blocks, for distinct blocks none of which is already so.          *)
locate_blocks(S, usage, c) ==
  LET bits == {b \in S : block_group(b) \in c.bits}
  IN  /\ used' = IF usage THEN used \cup bits ELSE used \ bits
      /\ group_free' = [g \in Groups |-> IF g \in c.counts THEN Added(S, usage, g) ELSE group_free[g]]
      /\ super_free' = CASE ~c.super         -> super_free
                         [] c.super /\ usage  -> super_free - Cardinality(S)
                         [] c.super /\ ~usage -> super_free + Cardinality(S)

(* The File objects are lost if not all of an operation was done.           *)
Done(all, files) ==
  /\ all \/ ~crashed                    \* the bound: one crash
  /\ file' = IF all THEN files ELSE [h \in Handle |-> NoFile]
  /\ crashed' = (crashed \/ ~all)
  /\ ops' = ops + 1

-----------------------------------------------------------------------------
(* free_inode and allocate_inode.                                           *)
create(n) ==
  /\ ~inode[n].used /\ \A m \in Inodes : m < n => inode[m].used
  /\ inode' = [inode EXCEPT ![n] = NewInode]
  /\ UNCHANGED <<used, group_free, super_free, disk, file, crashed, ops>>

(* File::new reads the inode once.  The bound: a file has one File object,  *)
(* whose copy of the inode is then never behind.                            *)
open(h, n) ==
  /\ file[h] = NoFile /\ inode[n].used
  /\ \A g \in Handle : file[g].n # n
  /\ file' = [file EXCEPT ![h] = [n |-> n, ino |-> inode[n]]]
  /\ UNCHANGED <<used, group_free, super_free, inode, disk, crashed, ops>>

close(h) ==
  /\ file[h] # NoFile
  /\ file' = [file EXCEPT ![h] = NoFile]
  /\ UNCHANGED <<used, group_free, super_free, inode, disk, crashed, ops>>

(* The list of an indirection block, written behind a seek to index, which  *)
(* Block::seek takes for bytes.                                             *)
WriteList(cells, c) ==
  [i \in 1..BlockCells |->
     IF c.index % 4 = 0
     THEN LET j == i - (c.index \div 4) IN IF j \in DOMAIN c.list THEN c.list[j] ELSE cells[i]
     ELSE IF 4 * i > c.index /\ 4 * (i - 1) < c.index + 4 * Len(c.list) THEN Garbage ELSE cells[i]]

(* Mutant: no seek within the first block.                                  *)
WriteData_start(cells, n, off, len, b, blocks) ==
  [i \in 1..BlockCells |->
     LET at == {j \in DOMAIN blocks : blocks[j] = b}
         pos == ((CHOOSE j \in at : TRUE) - 1) * BlockCells + i - 1
     IN  IF at # {} /\ pos < len THEN Place(n, off + pos) ELSE cells[i]]

(* Data from cell off of file n on, len cells, over the blocks listed.      *)
WriteData(cells, n, off, len, b, blocks) ==
  [i \in 1..BlockCells |->
     LET at == {j \in DOMAIN blocks : blocks[j] = b}
         pos == ((off \div BlockCells) + (CHOOSE j \in at : TRUE) - 1) * BlockCells + i - 1
     IN  IF at # {} /\ off <= pos /\ pos < off + len THEN Place(n, pos) ELSE cells[i]]

(* The device is written in the order locate_blocks, indirection blocks     *)
(* (k = 1), data (2), inode (3); r is the new list and how it differs.      *)
write_to_device(h, off, len, free, r) ==
  LET n == file[h].n
      lists == I!changed_indirected_blocks(r.changed)
      listed == [b \in Block |-> FoldLeft(LAMBDA cells, l : IF l.b = b THEN WriteList(cells, l) ELSE cells, disk[b], lists)]
      data == I!changed_data_blocks(r.changed)
      new == [file[h].ino EXCEPT !.size = Larger(@, off + len),
                                 !.ptr = [direct |-> r.new.direct, single |-> [I!None EXCEPT !.b = r.new.single.b],
                                          double |-> [I!None EXCEPT !.b = r.new.double.b],
                                          triple |-> [I!None EXCEPT !.b = r.new.triple.b]]]
  IN  \E c \in Cut \cup {Whole}, k \in 0..3 :
        /\ k > 0 => c = Whole
        /\ locate_blocks(ToSet(free), TRUE, c)
        /\ disk' = CASE k = 0 -> disk
                     [] k = 1 -> listed
                     [] k > 1 -> [b \in Block |-> WriteData(listed[b], n, off, len, b, data)]
        /\ inode' = IF k < 3 THEN inode ELSE [inode EXCEPT ![n] = new]
        /\ Done(k = 3, [file EXCEPT ![h].ino = new])

(* File::write over the blocks x that the file has.                         *)
write_over(h, off, len, x, have) ==
  LET needed == Count(Larger(len, Minimal) + off)
      tables == I!necessary_indirection_block_count(needed)
      start == IF have = 0 THEN 0 ELSE block_group(Last(I!flatten_data_blocks(x)))
      want == ((IF needed > have THEN needed - have ELSE 0) + tables) - I!indirection_block_count(x)
      free == free_blocks_offset(want, start)
  IN  /\ tables >= I!indirection_block_count(x)     \* else the number of blocks wraps, and there are too few
      /\ want <= super_free /\ Len(free) = want
      /\ write_to_device(h, off, len, free, I!append_blocks_with_difference(x, free, off \div BlockCells))

(* Ext2File::write_at and File::write.                                      *)
write(h, off, len) ==
  LET ino == file[h].ino
      x == I!truncate_back_data_blocks(indirected_blocks(ino), Count(Larger(ino.size, Minimal)))
  IN  /\ ops < MaxOps
      /\ file[h] # NoFile /\ off <= ino.size /\ off + len <= MaxCells /\ off \div BlockCells <= MaxStart
      /\ write_over(h, off, len, x, I!data_block_count(x))

(* File::truncate.  The inode is written before the blocks are given back.  *)
truncate(h, cells) ==
  LET n == file[h].n
      new == [file[h].ino EXCEPT !.size = cells]
      diff == I!truncate_front_data_blocks(indirected_blocks(file[h].ino), Count(Larger(cells, 1)))
      freed == ToSet(I!changed_data_blocks(diff)) \cup {l.b : l \in ToSet(I!changed_indirected_blocks(diff))}
  IN  /\ ops < MaxOps
      /\ file[h] # NoFile /\ cells < file[h].ino.size /\ Count(Larger(cells, 1)) <= MaxKept
      /\ freed \subseteq used
      /\ inode' = [inode EXCEPT ![n] = new]
      /\ \E c \in Cut \cup {Whole} :
           /\ locate_blocks(freed, FALSE, c)
           /\ Done(c.super, [file EXCEPT ![h].ino = new])
      /\ UNCHANGED disk

(* deallocate_inode for the last link: the data blocks, then the inode.     *)
deallocate_inode(n) ==
  /\ inode[n].used /\ \A h \in Handle : file[h].n # n
  /\ ToSet(data_blocks(inode[n])) \subseteq used
  /\ locate_blocks(ToSet(data_blocks(inode[n])), FALSE, Whole)
  /\ inode' = [inode EXCEPT ![n].used = FALSE]
  /\ UNCHANGED <<disk, file, crashed, ops>>

-----------------------------------------------------------------------------
Init ==
  /\ used = {}
  /\ group_free = [g \in Groups |-> InGroup(Block, g)]
  /\ super_free = Blocks
  /\ inode = [n \in Inodes |-> [NewInode EXCEPT !.used = FALSE]]
  /\ disk = [b \in Block |-> [i \in 1..BlockCells |-> 0]]
  /\ file = [h \in Handle |-> NoFile]
  /\ crashed = FALSE
  /\ ops = 0

Next ==
  \/ \E n \in Inodes : create(n) \/ deallocate_inode(n) \/ \E h \in Handle : open(h, n)
  \/ \E h \in Handle :
       \/ close(h)
       \/ \E off \in Offsets, len \in Lengths : write(h, off, len)
       \/ \E cells \in Sizes : truncate(h, cells)

Spec == Init /\ [][Next]_vars

-----------------------------------------------------------------------------
TypeOK ==
  /\ used \subseteq Block
  /\ group_free \in [Groups -> 0..65535] /\ super_free \in 0..Blocks
  /\ \A n \in Inodes : inode[n].used \in BOOLEAN /\ inode[n].size \in 0..MaxCells
  /\ \A b \in Block : disk[b] \in [1..BlockCells -> Nat]
  /\ \A h \in Handle : file[h].n \in Inodes \cup {0}

(* Every block an inode refers to by its size, its indirection blocks too.  *)
Reached(n) == IF inode[n].used THEN I!Blocks(indirected_blocks(inode[n])) ELSE {}

(* Also after a crash in the middle of write or truncate, the blocks within *)
(* the size of a file are marked in the bitmap and no other file has them:  *)
(* nothing that is still read can be given away.                            *)
BlocksOwned ==
  \A n \in Inodes :
    LET blocks == Reached(n)
    IN  blocks \subseteq used /\ \A m \in Inodes : m > n => Reached(m) \cap blocks = {}

RECURSIVE read_data(_, _, _)
read_data(blocks, off, len) ==
  LET b == Head(blocks)
      count == IF len < BlockCells THEN len ELSE BlockCells
  IN  IF blocks = <<>> \/ len = 0 THEN <<>>
      ELSE IF off >= BlockCells THEN read_data(Tail(blocks), off - BlockCells, len)
      ELSE IF count < off THEN <<>>
      ELSE SubSeq(disk[b], off + 1, count) \o read_data(Tail(blocks), 0, len - (count - off))

(* A file reads back what was written to it, from the start of any block    *)
(* on, whatever was made, cut and grown around it, and a crash before the   *)
(* inode was written leaves it as it was.                                   *)
ReadsBack ==
  \A n \in Inodes : inode[n].used =>
    LET blocks == data_blocks(inode[n])
    IN  \A b \in 0..(MaxCells \div BlockCells) : LET off == b * BlockCells IN off < inode[n].size =>
          read_data(blocks, off, inode[n].size - off)
            = [i \in 1..(inode[n].size - off) |-> Place(n, off + i - 1)]

(* Without a crash the counts of the groups and of the superblock are those *)
(* of the bitmap.                                                           *)
CountsAgree ==
  ~crashed => /\ super_free = Blocks - Cardinality(used)
              /\ \A g \in Groups : group_free[g] = InGroup(Block \ used, g)
=============================================================================
