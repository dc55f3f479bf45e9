------------------------------ MODULE FatVolume ------------------------------
(***************************************************************************)
(* A FAT32 volume as the kernel uses it: the allocation table, FSInfo and  *)
(* dirty flag of good-fatfs (table.rs, fs.rs), its File objects (file.rs)  *)
(* and the read_at and write_at of the kernel's inode (fs/fat32.rs).       *)
(*                                                                         *)
(* A step is one write to the disk, with the work in memory that follows   *)
(* it, so a crash can come between any two writes.  Operations run one at  *)
(* a time, and a name has one File at a time.  A directory entry is        *)
(* written in one step: the slots of directories are in FatDir.            *)
(***************************************************************************)
EXTENDS Integers, FiniteSets, Sequences, FiniteSetsExt

CONSTANTS
  Total,      \* total_clusters
  Size,       \* cluster_size in bytes
  Name,       \* names of files
  MaxLen,     \* bound: bytes in one call of read_at and write_at
  MaxOpen     \* bound: Files open at a time

VARIABLES
  fat,        \* disk: the allocation table
  dir,        \* disk: the directory entries, first cluster and size by name
  disk_info,  \* disk: FSInfo, count of free clusters and next free cluster
  disk_dirty, \* disk: the dirty flag of the boot sector
  info,       \* fs_info: the same numbers in memory, and whether they changed
  bpb_dirty,  \* the dirty flag the volume was mounted with
  flag,       \* current_status_flags
  file,       \* the open Files by name
  op,         \* the call in progress
  pc,         \* its next step
  crashed,    \* history: there has been a crash
  torn        \* history: one within, or after, a release of clusters

disk == <<fat, dir, disk_info, disk_dirty>>
mount == <<info, bpb_dirty, flag>>
history == <<crashed, torn>>
vars == <<disk, mount, file, op, pc, history>>

Cluster == 2 .. Total + 1      \* RESERVED_FAT_ENTRIES is 2
None == 0
Free == 0
EndOfChain == -1
Unknown == -1                  \* free_cluster_count when it is not known

TypeOK ==
  /\ fat \in [Cluster -> Cluster \cup {Free, EndOfChain}]
  /\ DOMAIN dir \subseteq Name
  /\ \A n \in DOMAIN dir : dir[n].first \in Cluster \cup {None} /\ dir[n].size \in 0 .. Total * Size
  /\ disk_info \in [count : Unknown .. Total, next : 0 .. Total + 2]
  /\ info \in [count : Unknown .. Total, next : 0 .. Total + 2, dirty : BOOLEAN]
  /\ disk_dirty \in BOOLEAN /\ bpb_dirty \in BOOLEAN /\ flag \in BOOLEAN
  /\ DOMAIN file \subseteq Name
  /\ \A n \in DOMAIN file :
       file[n] \in [first : Cluster \cup {None}, cur : Cluster \cup {None}, off : 0 .. Total * Size,
                    size : 0 .. Total * Size, dirty : BOOLEAN, cut : BOOLEAN]
  /\ op \in [call : {"none", "create", "write_at", "truncate", "remove", "unmount"},
             name : Name, left : 0 .. MaxLen, done : 0 .. MaxLen, start : 0 .. Total * Size,
             at : Cluster \cup {None}, num : 0 .. Total]
  /\ crashed \in BOOLEAN /\ torn \in BOOLEAN

-----------------------------------------------------------------------------
(* table.rs                                                                 *)

(* get_next_cluster: anything but a data entry ends a chain.                *)
get_next_cluster(c) == IF fat[c] \in Cluster THEN fat[c] ELSE None

(* The clusters a ClusterIterator visits from c on, c included.             *)
cluster_iter(c) ==
  LET it[k \in 1 .. Total + 1] ==
        IF k = 1 THEN c ELSE IF it[k - 1] = None THEN None ELSE get_next_cluster(it[k - 1])
  IN  SelectSeq(it, LAMBDA d : d # None)

FreeClusters == {c \in Cluster : fat[c] = Free}

(* Mutant: the search starts again at the hint whatever is there.           *)
find_free_hint ==
  IF info.next \in Cluster THEN info.next ELSE Min(FreeClusters)

(* The search of alloc_cluster, from the hint to the end and then from the  *)
(* first cluster.                                                           *)
find_free ==
  LET ahead == {c \in FreeClusters : c >= info.next}
  IN  IF info.next < Total + 2 /\ ahead # {} THEN Min(ahead) ELSE Min(FreeClusters)

-----------------------------------------------------------------------------
(* fs.rs                                                                    *)

NoCall == [call |-> "none", name |-> CHOOSE n \in Name : TRUE, left |-> 0, done |-> 0, start |-> 0,
           at |-> None, num |-> 0]

Return == op' = NoCall /\ pc' = "idle"

(* set_dirty_flag(d): the flag read on mount is never cleared.              *)
set_dirty_flag(d) ==
  LET f == bpb_dirty \/ d
  IN  /\ flag' = f
      /\ disk_dirty' = IF f = flag THEN disk_dirty ELSE f

(* Mutant: the count of a dirty volume is believed.                         *)
new_trusting(count, next, d) ==
  /\ info' = [count |-> count, next |-> next, dirty |-> FALSE]
  /\ bpb_dirty' = d
  /\ flag' = d

(* FileSystem::new on the disk as it is: the count of a dirty volume is     *)
(* ignored.                                                                 *)
new(count, next, d) ==
  /\ info' = [count |-> IF d THEN Unknown ELSE count, next |-> next, dirty |-> FALSE]
  /\ bpb_dirty' = d
  /\ flag' = d

(* map_free_clusters(|n| n + k).                                            *)
Counted(i, k) ==
  IF i.count = Unknown THEN i ELSE [i EXCEPT !.count = @ + k, !.dirty = TRUE]

stats ==
  /\ pc = "idle" /\ info.count = Unknown
  /\ info' = [info EXCEPT !.count = Cardinality(FreeClusters), !.dirty = TRUE]
  /\ UNCHANGED <<disk, bpb_dirty, flag, file, op, pc, history>>

unmount ==
  /\ pc = "idle" /\ DOMAIN file = {}
  /\ op' = [NoCall EXCEPT !.call = "unmount"] /\ pc' = "info"
  /\ UNCHANGED <<disk, mount, file, history>>

(* flush_fs_info                                                            *)
flush_fs_info ==
  /\ pc = "info"
  /\ disk_info' = IF info.dirty THEN [count |-> info.count, next |-> info.next]
                  ELSE disk_info
  /\ info' = [info EXCEPT !.dirty = FALSE]
  /\ pc' = "clean"
  /\ UNCHANGED <<fat, dir, disk_dirty, bpb_dirty, flag, file, op, history>>

(* set_dirty_flag(false); the volume is then mounted again.                 *)
unmount_clean ==
  /\ pc = "clean"
  /\ disk_dirty' = IF bpb_dirty = flag THEN disk_dirty ELSE bpb_dirty
  /\ new(disk_info.count, disk_info.next, disk_dirty')
  /\ Return
  /\ UNCHANGED <<fat, dir, disk_info, file, history>>

-----------------------------------------------------------------------------
(* file.rs                                                                  *)

clusters_from_bytes(b) == (b + Size - 1) \div Size
Smaller(a, b) == IF a < b THEN a ELSE b

OpenFile(n) == [first |-> dir[n].first, cur |-> None, off |-> 0, size |-> dir[n].size,
                dirty |-> FALSE, cut |-> FALSE]

(* Mutant: the cluster is kept when the offset crosses to another one.      *)
seek_lazy(f, to) ==
  [f EXCEPT !.off = Smaller(to, f.size), !.cur = IF to = 0 THEN None ELSE f.cur]

(* seek(SeekFrom::Start(to)): not beyond the end, and between two clusters  *)
(* the current cluster is the previous one.                                 *)
seek(f, to) ==
  LET new_offset == Smaller(to, f.size)
      k == clusters_from_bytes(new_offset)
      chain == cluster_iter(f.first)
  IN  IF new_offset = f.off THEN f
      ELSE IF new_offset = 0 THEN [f EXCEPT !.off = 0, !.cur = None]
      ELSE IF k = clusters_from_bytes(f.off) THEN [f EXCEPT !.off = new_offset]
      ELSE IF f.first = None THEN [f EXCEPT !.off = 0, !.cur = None]
      ELSE IF k <= Len(chain) THEN [f EXCEPT !.off = new_offset, !.cur = chain[k]]
      ELSE [f EXCEPT !.off = Len(chain) * Size, !.cur = chain[Len(chain)]]

(* The cluster that holds the byte at the offset, None past the last one.   *)
current_cluster(f) ==
  IF f.off % Size # 0 THEN f.cur
  ELSE IF f.cur = None THEN f.first ELSE get_next_cluster(f.cur)

open(n) ==
  /\ pc = "idle" /\ n \in DOMAIN dir \ DOMAIN file /\ Cardinality(DOMAIN file) < MaxOpen
  /\ file' = [m \in DOMAIN file \cup {n} |-> IF m = n THEN OpenFile(n) ELSE file[m]]
  /\ UNCHANGED <<disk, mount, op, pc, history>>

(* create_file writes the new entry through the directory's own stream,     *)
(* which marks the volume first.                                            *)
create_file(n) ==
  /\ pc = "idle" /\ n \notin DOMAIN dir /\ Cardinality(DOMAIN file) < MaxOpen
  /\ set_dirty_flag(TRUE)
  /\ op' = [NoCall EXCEPT !.call = "create", !.name = n] /\ pc' = "entry"
  /\ UNCHANGED <<fat, dir, disk_info, info, bpb_dirty, file, history>>

(* Fat32File::read_at: a seek, then pieces of cluster_size, of which the    *)
(* last one is left out when the buffer is longer than the file.            *)
ReadPiece(f, len) ==
  LET c == current_cluster(f)
      n == Min({len, Size - (f.off % Size), f.size - f.off})
  IN  IF c = None \/ n = 0 THEN f ELSE [f EXCEPT !.off = @ + n, !.cur = c]

read_at(n, to, len) ==
  LET f == seek(file[n], to)
      left == IF len <= f.size THEN len ELSE (Smaller(len, f.size) \div Size) * Size
      after[k \in 0 .. clusters_from_bytes(left)] ==
        IF k = 0 THEN f ELSE ReadPiece(after[k - 1], Smaller(Size, left - (k - 1) * Size))
  IN  /\ pc = "idle" /\ n \in DOMAIN file
      /\ file' = [file EXCEPT ![n] = after[clusters_from_bytes(left)]]
      /\ UNCHANGED <<disk, mount, op, pc, history>>

(* Mutant: the offset asked for is not sought.                              *)
write_at_unsought(n, to, len) ==
  /\ pc = "idle" /\ n \in DOMAIN file
  /\ op' = [NoCall EXCEPT !.call = "write_at", !.name = n, !.left = len, !.start = Smaller(to, file[n].size)]
  /\ pc' = "write"
  /\ UNCHANGED <<disk, mount, file, history>>

(* Fat32File::write_at: a seek, then pieces of cluster_size, then flush.    *)
write_at(n, to, len) ==
  /\ pc = "idle" /\ n \in DOMAIN file
  /\ LET f == seek(file[n], to)
     IN  /\ file' = [file EXCEPT ![n] = f]
         /\ op' = [NoCall EXCEPT !.call = "write_at", !.name = n, !.left = len, !.start = f.off]
  /\ pc' = "write"
  /\ UNCHANGED <<disk, mount, history>>

(* write marks the volume dirty before anything else.                       *)
write ==
  /\ pc = "write" /\ ~flag
  /\ set_dirty_flag(TRUE)
  /\ UNCHANGED <<fat, dir, disk_info, info, bpb_dirty, file, op, pc, history>>

(* Mutant: the whole piece is written, beyond the end of the cluster.       *)
WriteData_beyond(c) ==
  LET f == file[op.name]
      piece == Smaller(op.left, Size)
      end == f.off + piece
  IN  /\ file' = [file EXCEPT ![op.name] =
                    [f EXCEPT !.off = end, !.cur = c, !.size = IF end > @ THEN end ELSE @,
                              !.dirty = @ \/ end > f.size]]
      /\ op' = [op EXCEPT !.left = @ - piece, !.done = @ + piece, !.at = None]
      /\ pc' = IF op.left = piece THEN "flush" ELSE "write"

(* The bytes of a piece go to cluster c, up to its end, and                 *)
(* update_dir_entry_after_write follows.  The call goes on behind the piece *)
(* whatever was written of it.                                              *)
WriteData(c) ==
  LET f == file[op.name]
      piece == Smaller(op.left, Size)
      end == f.off + Smaller(piece, Size - (f.off % Size))
  IN  /\ file' = [file EXCEPT ![op.name] =
                    [f EXCEPT !.off = end, !.cur = c, !.size = IF end > @ THEN end ELSE @,
                              !.dirty = @ \/ end > f.size]]
      /\ op' = [op EXCEPT !.left = @ - piece, !.done = @ + piece, !.at = None]
      /\ pc' = IF op.left = piece THEN "flush" ELSE "write"

(* There is a cluster to write to, or else a new one is marked as the end   *)
(* of a chain.  A full disk is an error, and write_at ends there.           *)
write_cluster ==
  LET c == current_cluster(file[op.name])
  IN  /\ pc = "write" /\ flag
      /\ \/ c # None /\ WriteData(c) /\ UNCHANGED fat
         \/ c = None /\ FreeClusters = {} /\ Return /\ UNCHANGED <<fat, file>>
         \/ /\ c = None /\ FreeClusters # {}
            /\ fat' = [fat EXCEPT ![find_free] = EndOfChain]
            /\ op' = [op EXCEPT !.at = find_free] /\ pc' = "link"
            /\ UNCHANGED file
      /\ UNCHANGED <<dir, disk_info, disk_dirty, mount, history>>

(* Mutant: the last cluster of the chain is not made to point to the new.   *)
write_link_missing ==
  LET f == file[op.name]
  IN  /\ pc = "link"
      /\ info' = Counted([info EXCEPT !.next = op.at + 1, !.dirty = TRUE], -1)
      /\ file' = IF f.first = None THEN [file EXCEPT ![op.name].first = op.at, ![op.name].dirty = TRUE]
                 ELSE file
      /\ pc' = "data"
      /\ UNCHANGED <<disk, bpb_dirty, flag, op, history>>

(* alloc_cluster links the new cluster, then FSInfo is brought up to date.  *)
write_link ==
  LET f == file[op.name]
  IN  /\ pc = "link"
      /\ fat' = IF f.cur = None THEN fat ELSE [fat EXCEPT ![f.cur] = op.at]
      /\ info' = Counted([info EXCEPT !.next = op.at + 1, !.dirty = TRUE], -1)
      /\ file' = IF f.first = None THEN [file EXCEPT ![op.name].first = op.at, ![op.name].dirty = TRUE]
                 ELSE file
      /\ pc' = "data"
      /\ UNCHANGED <<dir, disk_info, disk_dirty, bpb_dirty, flag, op, history>>

write_data ==
  /\ pc = "data"
  /\ WriteData(op.at)
  /\ UNCHANGED <<disk, mount, history>>

(* flush, and what dropping a File does: the directory entry is written if  *)
(* it changed.                                                              *)
Flushed(n) ==
  /\ dir' = IF file[n].dirty THEN [dir EXCEPT ![n] = [first |-> file[n].first, size |-> file[n].size]]
            ELSE dir
  /\ UNCHANGED <<fat, disk_info, disk_dirty, mount, history>>

flush ==
  /\ pc = "flush"
  /\ Flushed(op.name)
  /\ file' = [file EXCEPT ![op.name].dirty = FALSE, ![op.name].cut = FALSE]
  /\ Return

drop(n) ==
  /\ pc = "idle" /\ n \in DOMAIN file
  /\ Flushed(n)
  /\ file' = [m \in DOMAIN file \ {n} |-> file[m]]
  /\ UNCHANGED <<op, pc>>

(* truncate at the offset: the entry changes in memory, and the clusters    *)
(* behind the current one are released.                                     *)
truncate(n) ==
  /\ pc = "idle" /\ n \in DOMAIN file
  /\ LET f == file[n] IN
       /\ file' = [file EXCEPT ![n].size = f.off, ![n].cut = TRUE,
                     ![n].dirty = @ \/ f.size # f.off \/ (f.off = 0 /\ f.first # None),
                     ![n].first = IF f.off = 0 THEN None ELSE @]
       /\ fat' = IF f.cur = None THEN fat ELSE [fat EXCEPT ![f.cur] = EndOfChain]
       /\ op' = IF f.cur = None /\ f.first = None THEN NoCall
                ELSE [NoCall EXCEPT !.call = "truncate", !.name = n,
                        !.at = IF f.cur = None THEN f.first ELSE get_next_cluster(f.cur)]
       /\ pc' = IF f.cur # None THEN "mark" ELSE IF f.first # None THEN "free" ELSE "idle"
  /\ UNCHANGED <<dir, disk_info, disk_dirty, mount, history>>

(* remove, of a name without a File: the chain, then the entry.             *)
remove(n) ==
  /\ pc = "idle" /\ n \in DOMAIN dir \ DOMAIN file
  /\ op' = [NoCall EXCEPT !.call = "remove", !.name = n, !.at = dir[n].first]
  /\ \/ dir[n].first # None /\ pc' = "free" /\ UNCHANGED <<flag, disk_dirty>>
     \/ dir[n].first = None /\ pc' = "entry" /\ set_dirty_flag(TRUE)
  /\ UNCHANGED <<fat, dir, disk_info, info, bpb_dirty, file, history>>

(* ClusterIterator::free, one cluster, then the count for all of them.      *)
free ==
  /\ pc = "free"
  /\ IF op.at # None
     THEN /\ fat' = [fat EXCEPT ![op.at] = Free]
          /\ op' = [op EXCEPT !.at = get_next_cluster(op.at), !.num = @ + 1]
          /\ pc' = "mark" /\ UNCHANGED info
     ELSE /\ info' = Counted(info, op.num)
          /\ pc' = IF op.call = "remove" THEN "entry" ELSE "idle"
          /\ op' = IF op.call = "remove" THEN op ELSE NoCall
          /\ UNCHANGED fat
  /\ UNCHANGED <<dir, disk_info, disk_dirty, bpb_dirty, flag, file, history>>

(* FsIoAdapter::write marks the volume after a write to the table.          *)
mark ==
  /\ pc = "mark"
  /\ set_dirty_flag(TRUE) /\ pc' = "free"
  /\ UNCHANGED <<fat, dir, disk_info, info, bpb_dirty, file, op, history>>

(* The directory entry is written: a new one, or one marked as deleted.     *)
entry ==
  /\ pc = "entry"
  /\ LET n == op.name IN
       IF op.call = "create"
       THEN /\ dir' = [m \in DOMAIN dir \cup {n} |-> IF m = n THEN [first |-> None, size |-> 0] ELSE dir[m]]
            /\ file' = [m \in DOMAIN file \cup {n} |->
                          IF m = n THEN [first |-> None, cur |-> None, off |-> 0, size |-> 0,
                                         dirty |-> FALSE, cut |-> FALSE]
                          ELSE file[m]]
       ELSE /\ dir' = [m \in DOMAIN dir \ {n} |-> dir[m]]
            /\ UNCHANGED file
  /\ Return
  /\ UNCHANGED <<fat, disk_info, disk_dirty, mount, history>>

-----------------------------------------------------------------------------
(* The power fails, and the volume is mounted again as the disk has it.     *)
crash ==
  /\ new(disk_info.count, disk_info.next, disk_dirty)
  /\ file' = <<>>
  /\ Return
  /\ crashed' = TRUE
  /\ torn' = (torn \/ op.call \in {"truncate", "remove"} \/ \E n \in DOMAIN file : file[n].cut)
  /\ UNCHANGED disk

(* A formatted volume, mounted.                                             *)
Init ==
  /\ fat = [c \in Cluster |-> Free]
  /\ dir = <<>> /\ file = <<>>
  /\ disk_info = [count |-> Total, next |-> 2]
  /\ disk_dirty = FALSE
  /\ info = [count |-> Total, next |-> 2, dirty |-> FALSE]
  /\ bpb_dirty = FALSE /\ flag = FALSE
  /\ op = NoCall /\ pc = "idle"
  /\ crashed = FALSE /\ torn = FALSE

(* An offset further beyond the end is as good as the first one.  A torn    *)
(* volume is followed no further: its entries name released clusters.       *)
Next ==
  /\ ~torn
  /\ \/ \E n \in Name :
          \/ open(n) \/ create_file(n) \/ drop(n) \/ truncate(n) \/ remove(n)
          \/ n \in DOMAIN file /\ \E to \in 0 .. file[n].size + 1, len \in 1 .. MaxLen :
                                   write_at(n, to, len) \/ read_at(n, to, len)
     \/ stats \/ unmount \/ flush_fs_info \/ unmount_clean
     \/ write \/ write_cluster \/ write_link \/ write_data \/ flush
     \/ free \/ mark \/ entry
     \/ crash

Spec == Init /\ [][Next]_vars

-----------------------------------------------------------------------------
(* Properties                                                               *)

(* What a name stands for: its File if it is open, else its entry.         *)
Entry(n) == IF n \in DOMAIN file THEN [first |-> file[n].first, size |-> file[n].size] ELSE dir[n]
Chain(e) == cluster_iter(e.first)

(* No cluster is in two files, or twice in one: however files grow, shrink,*)
(* are removed and are interrupted, unless a crash cut short the release   *)
(* of clusters, which good-fatfs does before it changes the entry.         *)
NoCrossLink ==
  torn \/ pc # "idle" \/
    \A n \in DOMAIN dir :
      LET chain == Chain(Entry(n)) IN
        /\ Len(chain) = Cardinality(Range(chain))
        /\ \A c \in Range(chain) : fat[c] # Free
        /\ \A m \in DOMAIN dir \ {n} : Range(chain) \cap Range(Chain(Entry(m))) = {}

(* Where a File is: its current cluster is the one its offset lies in, or  *)
(* ends, so that bytes are read from where they were written.              *)
PositionExact ==
  torn \/ pc # "idle" \/
    \A n \in DOMAIN file :
      LET f == file[n] IN
        IF f.off = 0 THEN f.cur = None
        ELSE /\ clusters_from_bytes(f.off) <= Len(cluster_iter(f.first))
             /\ f.cur = cluster_iter(f.first)[clusters_from_bytes(f.off)]

(* On the disk an entry never promises more bytes than its chain holds,    *)
(* at any moment a crash may come.                                         *)
DiskSizeCovered ==
  torn \/ op.call \in {"truncate", "remove"} \/
    \A n \in DOMAIN dir :
      (n \in DOMAIN file /\ file[n].cut) \/ dir[n].size <= Len(Chain(dir[n])) * Size

(* A count of free clusters that is known is right, also one that was read *)
(* from FSInfo after a crash: a volume that changed was marked before.     *)
CountExact ==
  torn \/ pc # "idle" \/ info.count \in {Unknown, Cardinality(FreeClusters)}

(* Without a crash no cluster is lost: one that is not free is in a file.  *)
NoLeak ==
  crashed \/ pc # "idle" \/
    \A c \in Cluster : fat[c] # Free => \E n \in DOMAIN dir : c \in Range(Chain(Entry(n)))

(* write_at and read_at that start at a cluster boundary pass every byte   *)
(* of the buffer at its own offset.  (Elsewhere the first piece ends early *)
(* at the boundary, and the next one does not make up for it.)             *)
BufferInStep ==
  op.call = "write_at" /\ pc = "write" /\ op.start % Size = 0 /\ op.left > 0
    => file[op.name].off = op.start + op.done
=============================================================================
