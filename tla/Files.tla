-------------------------------- MODULE Files --------------------------------
(***************************************************************************)
(* The tree of names and the descriptor tables (kernel/src/fs/operation.rs,*)
(* vfs/root.rs, vfs/inode.rs, and the directories of fat32.rs).            *)
(*                                                                         *)
(* The directories of the kernel and the roots of volumes are objects that *)
(* stay.  The directories and files of a volume are made anew by every     *)
(* open: such an inode is a value here, with the path and the parent it    *)
(* got when it was made.  A path is the sequence of its names.  Inodes of  *)
(* files and devices do not implement open, and panic; a panic inside a    *)
(* system call ends the calling process.                                   *)
(***************************************************************************)
EXTENDS Naturals, Sequences, SequencesExt, FiniteSets

CONSTANTS
  Pid,
  Dirs, Files,   \* the paths on the partition, from its root
  Reversed,      \* the names of new files, read backwards
  Std,           \* the descriptors of the standard streams, 0 to 2
  OpenPaths, NewPaths, MountPaths,   \* paths of the calls: [abs, names]
  MaxVolumes,    \* bound: volumes, the one at /root included
  MaxFd          \* bound: the next descriptor of a process

VARIABLES
  nodes,      \* per object: its names (RootFS::nodes, virtual_inodes)
  where,      \* per object: its path
  lost,       \* history: volumes mounted in a directory that was then dropped
  made,       \* files that were created on the partition
  proc,       \* per process: none, started, ready or dead
  fds,        \* per process: file_descriptors
  next_fd,    \* per process: file_descriptor_allocator
  cwd         \* per process

vars == <<nodes, where, lost, made, proc, fds, next_fd, cwd>>

None == [obj |-> "none"]
Panic == [obj |-> "panic"]
Object(o) == [obj |-> o]
Fresh(ty, at, path, father) == [obj |-> "fresh", ty |-> ty, at |-> at, path |-> path, father |-> father]

Volume == 1 .. MaxVolumes
IsVolume(o) == o \in {ToString(v) : v \in Volume}

TypeOK ==
  /\ DOMAIN nodes = DOMAIN where
  /\ \A o \in DOMAIN nodes : \A name \in DOMAIN nodes[o] : nodes[o][name].obj \in DOMAIN nodes \cup {"fresh"}
  /\ lost \subseteq DOMAIN nodes
  /\ proc \in [Pid -> {"none", "started", "ready", "dead"}]
  /\ \A p \in Pid : next_fd[p] \in 3 .. MaxFd /\ DOMAIN fds[p] \subseteq 0 .. MaxFd - 1

get_path(n) == IF n.obj = "fresh" THEN n.path ELSE where[n.obj]

inode_type(n) == IF n.obj = "fresh" THEN n.ty ELSE IF n.obj \in {"hda1", "terminal"} THEN "File" ELSE "Dir"

-----------------------------------------------------------------------------
(* Names                                                                    *)

RECURSIVE walk(_, _), open_in(_, _)

(* get_inode_by_path, from node on.                                         *)
walk(node, names) ==
  IF names = <<>> THEN node
  ELSE LET child == open_in(node, Head(names))
       IN  IF child \in {None, Panic} THEN child ELSE walk(child, Tail(names))

get_inode_by_path(names) == walk(Object("/"), names)

(* Inode::open.  A directory of a volume looks itself up by its path, to be *)
(* the parent of what it opens.                                             *)
open_in(node, name) ==
  IF inode_type(node) = "File" THEN Panic
  ELSE LET fresh == node.obj = "fresh"
           virtual == IF fresh THEN [n \in {"."} \cup (IF node.father = None THEN {} ELSE {".."}) |->
                                       IF n = "." THEN node ELSE node.father]
                      ELSE nodes[node.obj]
           at == Append(IF fresh THEN node.at ELSE <<>>, name)
           path == Append(get_path(node), name)
       IN  IF name \in DOMAIN virtual THEN virtual[name]
           ELSE IF ~fresh /\ ~IsVolume(node.obj) THEN None
           ELSE IF at \in Dirs THEN Fresh("Dir", at, path, get_inode_by_path(get_path(node)))
           ELSE IF at \in Files \cup made THEN Fresh("File", at, path, None)
           ELSE None

(* The paths of system calls are from / or from the path of the cwd.        *)
Names(p, path) == IF path.abs THEN path.names ELSE get_path(cwd[p]) \o path.names

-----------------------------------------------------------------------------
Init ==
  /\ nodes = [o \in {"/", "dev", "mnt", "hda1", "terminal", "1"} |->
       CASE o = "/" -> [n \in {".", "dev", "mnt", "root"} |->
                          CASE n = "." -> Object("/") [] n = "root" -> Object("1") [] OTHER -> Object(n)]
         [] o = "dev" -> [n \in {".", "..", "hda1"} |->
                            CASE n = "." -> Object("dev") [] n = ".." -> Object("/") [] OTHER -> Object(n)]
         [] o \in {"mnt", "1"} -> [n \in {".", ".."} |-> IF n = "." THEN Object(o) ELSE Object("/")]
         [] OTHER -> <<>>]
  /\ where = [o \in DOMAIN nodes |-> CASE o \in {"/", "terminal"} -> <<>> [] o = "hda1" -> <<"dev", o>>
                                       [] o = "1" -> <<"root">> [] OTHER -> <<o>>]
  /\ lost = {} /\ made = {}
  /\ proc = [p \in Pid |-> "none"]
  /\ fds = [p \in Pid |-> <<>>] /\ next_fd = [p \in Pid |-> 3] /\ cwd = [p \in Pid |-> Object("/")]

Tree == <<nodes, where, lost, made>>
Tables == <<fds, next_fd, cwd>>

(* new_user_process puts the thread of the process in the run queue before  *)
(* the process has its table.                                               *)
new_user_process(p) ==
  /\ proc[p] = "none" /\ proc' = [proc EXCEPT ![p] = "started"]
  /\ UNCHANGED <<Tree, Tables>>

init_file_descriptor_manager(p) ==
  /\ proc[p] = "started" /\ proc' = [proc EXCEPT ![p] = "ready"]
  /\ fds' = [fds EXCEPT ![p] = [fd \in Std |-> [node |-> Object("terminal"), offset |-> 0]]]
  /\ next_fd' = [next_fd EXCEPT ![p] = 3] /\ cwd' = [cwd EXCEPT ![p] = Object("/")]
  /\ UNCHANGED Tree

(* A process that has exited keeps its table.                               *)
exit(p) ==
  /\ proc[p] \in {"started", "ready"} /\ proc' = [proc EXCEPT ![p] = "dead"]
  /\ UNCHANGED <<Tree, Tables>>

(* Mutant: the number of open files is the next descriptor.                 *)
add_inode_counting(p, n) ==
  LET fd == Cardinality(DOMAIN fds[p])
  IN  /\ fd < MaxFd
      /\ fds' = [fds EXCEPT ![p] = [f \in DOMAIN @ \cup {fd} |->
                                      IF f = fd THEN [node |-> n, offset |-> 0] ELSE @[f]]]
      /\ UNCHANGED next_fd

add_inode(p, n) ==
  /\ next_fd[p] < MaxFd
  /\ next_fd' = [next_fd EXCEPT ![p] = @ + 1]
  /\ fds' = [fds EXCEPT ![p] = [f \in DOMAIN @ \cup {next_fd[p]} |->
                                  IF f = next_fd[p] THEN [node |-> n, offset |-> 0] ELSE @[f]]]

(* open; a process without a table is told that there is no such file.      *)
open(p, path) ==
  /\ proc[p] = "ready"
  /\ LET n == get_inode_by_path(Names(p, path))
     IN  /\ n # None
         /\ IF n = Panic THEN exit(p)
            ELSE /\ add_inode(p, n)
                 /\ UNCHANGED <<Tree, cwd, proc>>

(* create, of a file; only the directories of volumes implement it.  The    *)
(* name at the end of an absolute path is put together backwards.           *)
create(p, path) ==
  /\ proc[p] = "ready" /\ path.names # <<>>
  /\ LET parent == get_inode_by_path(Names(p, [path EXCEPT !.names = Front(@)]))
         name == IF path.abs THEN Reversed[Last(path.names)] ELSE Last(path.names)
         at == Append(IF parent.obj = "fresh" THEN parent.at ELSE <<>>, name)
         panics == parent = Panic \/ (parent # None /\ parent.obj # "fresh" /\ ~IsVolume(parent.obj))
                     \/ (parent.obj = "fresh" /\ inode_type(parent) = "File")
     IN  /\ parent # None
         /\ IF panics THEN exit(p)
            ELSE /\ name \notin {".", ".."} /\ at \notin Dirs
                 /\ made' = IF at \in Files THEN made ELSE made \cup {at}
                 /\ add_inode(p, IF parent.obj # "fresh" /\ name \in DOMAIN nodes[parent.obj]
                                 THEN nodes[parent.obj][name]
                                 ELSE Fresh("File", at, Append(get_path(parent), name), None))
                 /\ UNCHANGED <<nodes, where, lost, cwd, proc>>

close(p, fd) ==
  /\ proc[p] = "ready" /\ fd \in DOMAIN fds[p]
  /\ fds' = [fds EXCEPT ![p] = [f \in DOMAIN @ \ {fd} |-> @[f]]]
  /\ UNCHANGED <<Tree, next_fd, cwd, proc>>

lseek(p, fd) ==
  /\ proc[p] = "ready" /\ fd \in DOMAIN fds[p]
  /\ fds' = [fds EXCEPT ![p][fd].offset = 1 - @]
  /\ UNCHANGED <<Tree, next_fd, cwd, proc>>

(* Mutant: the path is put behind the old one, whatever it leads to.        *)
change_cwd_textual(p, path) ==
  /\ proc[p] = "ready"
  /\ LET n == get_inode_by_path(Names(p, path))
     IN  /\ n \notin {None, Panic} /\ inode_type(n) = "Dir"
         /\ cwd' = [cwd EXCEPT ![p] = Fresh("Dir", <<>>, Names(p, path), None)]
         /\ UNCHANGED <<Tree, fds, next_fd, proc>>

change_cwd(p, path) ==
  /\ proc[p] = "ready"
  /\ LET n == get_inode_by_path(Names(p, path))
     IN  /\ n # None
         /\ IF n = Panic THEN exit(p)
            ELSE /\ inode_type(n) = "Dir"
                 /\ cwd' = [cwd EXCEPT ![p] = n]
                 /\ UNCHANGED <<Tree, fds, next_fd, proc>>

(* Mutant: the volume is told the path of its parent.                       *)
mount_to_father(v, father, name) ==
  /\ nodes' = [o \in DOMAIN nodes \cup {v} |->
                 IF o = v THEN [n \in {".", ".."} |-> IF n = "." THEN Object(v) ELSE father]
                 ELSE IF o = father.obj
                 THEN [n \in DOMAIN nodes[o] \cup {name} |-> IF n = name THEN Object(v) ELSE nodes[o][n]]
                 ELSE nodes[o]]
  /\ where' = [o \in DOMAIN nodes' |-> IF o = v THEN get_path(father) ELSE where[o]]
  /\ lost' = IF father.obj = "fresh" THEN lost \cup {v} ELSE lost

(* mount_to: what is mounted in an inode made anew goes with that inode.    *)
mount_to(v, father, name) ==
  /\ nodes' = [o \in DOMAIN nodes \cup {v} |->
                 IF o = v THEN [n \in {".", ".."} |-> IF n = "." THEN Object(v) ELSE father]
                 ELSE IF o = father.obj
                 THEN [n \in DOMAIN nodes[o] \cup {name} |-> IF n = name THEN Object(v) ELSE nodes[o][n]]
                 ELSE nodes[o]]
  /\ where' = [o \in DOMAIN nodes' |-> IF o = v THEN Append(get_path(father), name) ELSE where[o]]
  /\ lost' = IF father.obj = "fresh" THEN lost \cup {v} ELSE lost

(* mount, of the partition at an absolute path.  The last name is taken     *)
(* from the path of the inode found there, the directory from the path      *)
(* given; the paths / and what leads to it panic.                           *)
mount(p, path) ==
  /\ proc[p] \in {"started", "ready"} /\ path.abs
  /\ IF path.names = <<>> THEN exit(p)
     ELSE LET father == get_inode_by_path(Front(path.names))
              to == get_inode_by_path(path.names)
              count == Cardinality({o \in DOMAIN nodes : IsVolume(o)})
          IN  /\ father # None /\ to # None
              /\ IF father = Panic \/ to = Panic \/ get_path(to) = <<>> THEN exit(p)
                 ELSE /\ count < MaxVolumes
                      /\ mount_to(ToString(count + 1), father, Last(get_path(to)))
                      /\ UNCHANGED <<made, Tables, proc>>

Next ==
  \E p \in Pid :
    \/ new_user_process(p) \/ init_file_descriptor_manager(p) \/ exit(p)
    \/ \E path \in OpenPaths : open(p, path) \/ change_cwd(p, path)
    \/ \E path \in NewPaths : create(p, path)
    \/ \E path \in MountPaths : mount(p, path)
    \/ \E fd \in 0 .. MaxFd - 1 : close(p, fd) \/ lseek(p, fd)

Spec == Init /\ [][Next]_vars

-----------------------------------------------------------------------------
(* Properties                                                               *)

Over(v, path) == v \notin lost /\ IsPrefix(where[v], path)

(* The path of a working directory leads back to a directory that has this *)
(* path, so that relative names mean the same in every call, however it was*)
(* reached and through whatever parents; unless a volume was mounted over  *)
(* it.                                                                     *)
CwdLeadsBack ==
  \A p \in Pid :
    LET path == get_path(cwd[p])
        n == get_inode_by_path(path)
    IN  \/ n \notin {None, Panic} /\ inode_type(n) = "Dir" /\ get_path(n) = path
        \/ \E v \in DOMAIN nodes \ {"1"} : IsVolume(v) /\ Over(v, path)

(* A volume is found at the path it was told, until another one is mounted *)
(* over it.                                                                *)
VolumeFound ==
  \A v \in DOMAIN nodes \ lost :
    IsVolume(v) =>
      \/ get_inode_by_path(where[v]) = Object(v)
      \/ \E w \in DOMAIN nodes \ {v} : IsVolume(w) /\ Over(w, where[v])

(* A descriptor names the inode it was opened for until its process closes *)
(* it, through all other opens and closes, and the late making of the      *)
(* table of a process that already runs; its number is not used again.     *)
DescriptorsStep ==
  \A p \in Pid :
    /\ \A fd \in DOMAIN fds[p] \cap DOMAIN fds'[p] : fds'[p][fd].node = fds[p][fd].node
    /\ Cardinality(DOMAIN fds[p] \ DOMAIN fds'[p]) <= 1
    /\ \A fd \in DOMAIN fds'[p] \ DOMAIN fds[p] : fd \notin 3 .. next_fd[p] - 1

DescriptorsKept == [][DescriptorsStep]_vars
=============================================================================
