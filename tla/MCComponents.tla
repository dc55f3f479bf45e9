---------------------------- MODULE MCComponents ----------------------------
(***************************************************************************)
(* Components that do not interact, checked one at a time: those of        *)
(* MCParts, GuestMemory, which has variables of its own, and those whose   *)
(* algorithms are recursive.                                               *)
(***************************************************************************)
EXTENDS GuestMemory, MCParts, TLC

CONSTANT Kinds   \* the kinds of a run

(* Three blocks at a time, small and large, with room for two segments that *)
(* are adjacent, and a threshold that a free top passes.                    *)
Heap == INSTANCE Dlmalloc WITH Space <- 30, Granularity <- 12, Page <- 6, MinLarge <- 5,
          TrimThreshold <- 6, MaxReleaseCheck <- 2, Requests <- {4, 9}, Alignments <- {4}, MaxLive <- 3,
          heap <- s1, live <- s2

(* Sizes that differ in their first, second and last bits below the index.  *)
Trie == INSTANCE TreeBin WITH Width <- 6, Shift <- 3, NTreeBins <- 4,
          Sizes <- {8, 9, 10, 11, 13, 26, 40, 41}, MaxChunks <- 4,
          node <- s1, treebins <- s2, treemap <- s3

(* Two processes.  The kernel has a table with a page of the heap, another  *)
(* page, and a huge page; the frames do not last for all that may be asked. *)
KernelTables ==
  LET Leaf(frame, u) == [to |-> frame, user |-> u, huge |-> FALSE]
      Huge(frame) == [to |-> frame, user |-> FALSE, huge |-> TRUE]
  IN  1 :> <<Leaf(0, FALSE), Leaf(2, FALSE)>> @@ 2 :> <<Huge(6), Leaf(3, TRUE)>> @@ 3 :> <<Leaf(4, TRUE), Leaf(5, FALSE)>>

Tables == INSTANCE PageTables WITH Proc <- {1, 2}, Levels <- 3, Fan <- 2, Frames <- 19, Kernel <- KernelTables,
            KernelPages <- {4, 5, 6}, Ranges <- {<<0, 0>>, <<1, 2>>, <<3, 3>>, <<3, 4>>},
            table <- s1, next <- s2, freed <- s3, status <- s4, root <- s5, base <- s6, own <- s7, handed <- s8, stuck <- s9

(* Buffers of two bytes and a write that is longer.                         *)
C == INSTANCE Stdio WITH Content <- <<1, 0>>, Data <- {<<1>>, <<2, 0, 1>>}, ReadCap <- 2, WriteCap <- 2, MaxSize <- 4, MaxUnget <- 2,
       line <- s1, stream <- s2, last <- s3, want <- s4, at <- s5, got <- s6, due <- s7, closed <- s8

(* Two processors, two processes that run and one to be made.               *)
Locks == INSTANCE KernelLocks WITH CPU <- {1, 2}, Kernel <- 0, Proc <- {11, 12, 13}, Running <- {11, 12},
           program <- s1, holds <- s2, current <- s3, queue <- s4, processes <- s5, made <- s6, exited <- s7,
           panicked <- s8

(* File systems.  The partition has /a, /a/b and the file /a/f.             *)
Absolute(names) == [abs |-> TRUE, names |-> names]
Relative(names) == [abs |-> FALSE, names |-> names]

Vfs == INSTANCE Files WITH Pid <- {1}, Dirs <- {<<"a">>, <<"a", "b">>}, Files <- {<<"a", "f">>},
         Reversed <- [n \in {"gh"} |-> "hg"], Std <- {2}, MaxVolumes <- 2, MaxFd <- 5,
         OpenPaths <- {Relative(<<"..">>), Relative(<<"b">>), Relative(<<"f", "x">>), Absolute(<<"root", "a">>), Absolute(<<"mnt">>)},
         NewPaths <- {Absolute(<<"root", "gh">>), Absolute(<<"dev", "gh">>), Relative(<<"gh">>)},
         MountPaths <- {Absolute(<<>>), Absolute(<<"mnt">>), Absolute(<<"root", "a">>), Absolute(<<"root", "a", "b">>)},
         nodes <- s1, where <- s2, lost <- s3, made <- s4, proc <- s5, fds <- s6, next_fd <- s7, cwd <- s8

(* Lists that reach the second block of the triple level.                   *)
List == INSTANCE Indirection WITH DBPC <- 3, BPI <- 3, MaxData <- 22, MaxOffset <- 14, ib <- s1, size <- s2

Zero4 == s4 = 0 /\ s5 = 0 /\ Zero6
Zero3 == s3 = 0 /\ Zero4
Rest4 == <<s4, s5, s6, s7, s8, s9>>

MCInit ==
  /\ kind \in Kinds
  /\ Init
  /\ \/ PartsInit
     \/ kind = "guest" /\ s1 = 0 /\ s2 = 0 /\ Zero3
     \/ kind = "heap" /\ Heap!Init /\ Zero3
     \/ kind = "trie" /\ Trie!Init /\ Zero4
     \/ kind = "locks" /\ Locks!Init /\ s9 = 0
     \/ kind = "files" /\ Vfs!Init /\ s9 = 0
     \/ kind = "list" /\ List!Init /\ Zero3
     \/ kind = "tables" /\ Tables!Init
     \/ kind = "stdio" /\ C!Init /\ s9 = 0

Others ==
  \/ PartsNext
  \/ kind = "heap" /\ Heap!Next /\ UNCHANGED <<s3, Rest4>>
  \/ kind = "trie" /\ Trie!Next /\ UNCHANGED Rest4
  \/ kind = "locks" /\ Locks!Next /\ UNCHANGED s9
  \/ kind = "files" /\ Vfs!Next /\ UNCHANGED s9
  \/ kind = "list" /\ List!Next /\ UNCHANGED <<s3, Rest4>>
  \/ kind = "tables" /\ Tables!Next
  \/ kind = "stdio" /\ C!Next /\ UNCHANGED s9

MCNext ==
  /\ \/ kind = "guest" /\ Next /\ UNCHANGED slots
     \/ Others /\ UNCHANGED vars
  /\ UNCHANGED kind

MCSpec == MCInit /\ [][MCNext]_<<kind, slots, vars>>

-----------------------------------------------------------------------------
(* Properties                                                               *)

(* Dlmalloc: the segments are tiled by chunks whose sizes and in-use bits   *)
(* agree, every free chunk is found in one place, and a block of the caller *)
(* keeps to its chunk.  TreeBin: the tries are sorted by the bits of the    *)
(* sizes and the searches find the smallest chunk that fits.                *)
AllocatorSound ==
  /\ kind = "heap" => Heap!TypeOK /\ Heap!BoundaryTags /\ Heap!FreeChunksFound /\ Heap!BlocksKept
  /\ kind = "trie" => Trie!TypeOK /\ Trie!TriesHold /\ Trie!BestFit

(* KernelLocks: no processors wait for each other's locks, or for their     *)
(* own.                                                                     *)
NoDeadlock == kind = "locks" => Locks!TypeOK /\ Locks!NoDeadlock

(* PageTables: a process sees its own pages and the kernel's, whatever      *)
(* others map, and gives back all it was given and nothing else.            *)
AddressSpaces == kind = "tables" => Tables!TypeOK /\ Tables!ViewExact /\ Tables!DropExact

(* Files: the path of the working directory leads to it, and a volume is    *)
(* found at the path it was mounted at.                                     *)
PathsExact == kind = "files" => Vfs!TypeOK /\ Vfs!CwdLeadsBack /\ Vfs!VolumeFound

(* Indirection: a list of blocks holds what was added, each in its place,   *)
(* and the difference of two lists tells all there is to write.             *)
BlockListsExact == kind = "list" => List!TypeOK /\ List!ListExact /\ List!DifferenceComplete

(* Files: a descriptor names its inode until it is closed.  Indirection:    *)
(* growing and cutting a list keep the blocks in front.                     *)
NothingMoves ==
  [][(kind = "files" => Vfs!DescriptorsStep) /\ (kind = "list" => List!FrontStep)]_<<kind, slots>>

(* Stdio: no byte that a write call took is lost or misplaced, the position *)
(* is exact, reads get each byte once and in order, and whole lines go out. *)
StreamsExact ==
  kind = "stdio" => C!TypeOK /\ C!TakenIsKept /\ C!PositionExact /\ C!ReadsInOrder /\ C!LinesOut
=============================================================================
