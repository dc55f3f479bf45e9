------------------------------ MODULE MCStorage ------------------------------
(***************************************************************************)
(* Storage, one layer at a time: KIND says whether a behaviour is about    *)
(* the sector cache of BlockCache, whose variables these are, or about a   *)
(* FAT volume, a FAT directory or the files of an ext2 volume, whose       *)
(* variables are the slots s1, s2...                                       *)
(***************************************************************************)
EXTENDS BlockCache, Sequences

CONSTANTS
  Kinds,      \* the kinds of a run
  Name        \* names of files in a volume

VARIABLES kind, s1, s2, s3, s4, s5, s6, s7, s8, s9, s10, s11, s12

slots == <<s1, s2, s3, s4, s5, s6, s7, s8, s9, s10, s11, s12>>

(* Two files compete for two clusters; a chain of three for one file.       *)
Vol == INSTANCE FatVolume WITH Total <- 2, Size <- 2, MaxLen <- 2, MaxOpen <- 1,
         fat <- s1, dir <- s2, disk_info <- s3, disk_dirty <- s4, info <- s5, bpb_dirty <- s6,
         flag <- s7, file <- s8, op <- s9, pc <- s10, crashed <- s11, torn <- s12

Long == INSTANCE FatVolume WITH Total <- 3, Size <- 1, MaxLen <- 2, MaxOpen <- 1,
          Name <- {CHOOSE n \in Name : TRUE},
          fat <- s1, dir <- s2, disk_info <- s3, disk_dirty <- s4, info <- s5, bpb_dirty <- s6,
          flag <- s7, file <- s8, op <- s9, pc <- s10, crashed <- s11, torn <- s12

(* A name that fits in 8.3, one that does not and would get the same short  *)
(* name, and one with a character that is not allowed.                      *)
LongNames == {"foo~1", "foo+bar", "a:b"}

(* The name of the second has two parts, and checksums collide.             *)
Dir == INSTANCE FatDir WITH Name <- LongNames, Valid <- {"foo~1", "foo+bar"}, Fits <- {"foo~1"},
         Parts <- [n \in LongNames |-> IF n = "foo+bar" THEN 2 ELSE 1],
         Own <- [n \in LongNames |-> CASE n = "foo~1" -> "FOO~1" [] n = "foo+bar" -> "FOO_BAR" [] n = "a:b" -> "A_B"],
         Numbered <- [n \in LongNames |-> CASE n = "foo~1" -> <<"FOO~1~1">> [] n = "foo+bar" -> <<"FOO~1">>
                                            [] n = "a:b" -> <<"A_B~1">>],
         Hashed <- [n \in LongNames |-> CASE n = "foo~1" -> <<"FO1111~1", "FO1111~2">>
                                          [] n = "foo+bar" -> <<"FO2222~1", "FO2222~2">> [] n = "a:b" -> <<"A_3333~1">>],
         Sum <- [s \in {"FOO~1", "FOO_BAR", "A_B", "FOO~1~1", "A_B~1", "FO1111~1", "FO1111~2", "FO2222~1",
                        "FO2222~2", "A_3333~1"} |-> IF s = "FOO~1" THEN 1 ELSE 2],
         Data <- {1, 2}, PerCluster <- 3, MaxSlots <- 6,
         slots <- s1, capacity <- s2, op <- s3, pc <- s4, expected <- s5, maimed <- s6

(* Two files that reach the indirect blocks of a volume with two groups.    *)
Ext == INSTANCE Ext2 WITH Inodes <- {1, 2}, Handle <- {1}, Blocks <- 7, PerGroup <- 4, BlockCells <- 2, DBPC <- 2,
         Minimal <- 4, MaxCells <- 7, Offsets <- {0, 3, 4}, Lengths <- {3}, Sizes <- {0, 3}, MaxStart <- 2,
         MaxKept <- 2, MaxOps <- 4,
         used <- s1, group_free <- s2, super_free <- s3, inode <- s4, disk <- s5, file <- s6, crashed <- s7, ops <- s8

spare == <<s7, s8, s9, s10, s11, s12>>
SpareInit == s7 = 0 /\ s8 = 0 /\ s9 = 0 /\ s10 = 0 /\ s11 = 0 /\ s12 = 0

MCInit ==
  /\ kind \in Kinds
  /\ Init /\ (kind # "cache" => disk = CHOOSE d \in [Sector -> Block] : TRUE)
  /\ CASE kind = "cache" -> /\ s1 = 0 /\ s2 = 0 /\ s3 = 0 /\ s4 = 0 /\ s5 = 0 /\ s6 = 0 /\ SpareInit
       [] kind = "volume" -> Vol!Init
       [] kind = "chain" -> Long!Init
       [] kind = "directory" -> Dir!Init /\ SpareInit
       [] kind = "ext2" -> Ext!Init /\ s9 = 0 /\ s10 = 0 /\ s11 = 0 /\ s12 = 0

MCNext ==
  /\ \/ kind = "cache" /\ Next /\ UNCHANGED slots
     \/ kind = "volume" /\ Vol!Next /\ UNCHANGED vars
     \/ kind = "chain" /\ Long!Next /\ UNCHANGED vars
     \/ kind = "directory" /\ Dir!Next /\ UNCHANGED <<vars, spare>>
     \/ kind = "ext2" /\ Ext!Next /\ UNCHANGED <<vars, s9, s10, s11, s12>>
  /\ UNCHANGED kind

MCSpec == MCInit /\ [][MCNext]_<<kind, slots, vars>>

-----------------------------------------------------------------------------
(* Properties                                                               *)

(* FatVolume: no cluster is in two files or twice in one, however files     *)
(* grow, shrink, are removed and are interrupted by a crash; without a      *)
(* crash every cluster in use is in a file; and the count of free clusters  *)
(* is right whenever it is known.                                           *)
ClustersOwned ==
  /\ kind = "volume" => Vol!TypeOK /\ Vol!NoCrossLink /\ Vol!NoLeak /\ Vol!CountExact
  /\ kind = "chain" => Long!TypeOK /\ Long!NoCrossLink /\ Long!NoLeak /\ Long!CountExact

(* FatVolume: the current cluster of a File is the one its offset is in, no *)
(* entry on the disk promises more bytes than its chain has, and write_at   *)
(* from a cluster boundary on puts every piece at its own offset.           *)
FilesExact ==
  /\ kind = "volume" => Vol!PositionExact /\ Vol!DiskSizeCovered /\ Vol!BufferInStep
  /\ kind = "chain" => Long!PositionExact /\ Long!DiskSizeCovered /\ Long!BufferInStep

(* FatDir: an entry that was made and not touched since is found under its  *)
(* name, a listing shows nothing else at any moment of any call, and no two *)
(* entries have the same short name.                                        *)
DirectoryExact == kind = "directory" => Dir!TypeOK /\ Dir!Found /\ Dir!NothingElse /\ Dir!ShortNamesUnique

(* Ext2: also after a crash the blocks of a file are marked and its own; it *)
(* reads back what was written; without a crash the counts are those of the *)
(* bitmap.                                                                  *)
Ext2Sound == kind = "ext2" => Ext!TypeOK /\ Ext!BlocksOwned /\ Ext!ReadsBack /\ Ext!CountsAgree

(* FatDir: after rename, whether it fails or not, the data has an entry.    *)
RenameKeeps == Dir!RenameKeeps
=============================================================================
