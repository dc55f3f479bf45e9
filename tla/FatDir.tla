------------------------------- MODULE FatDir -------------------------------
(***************************************************************************)
(* A directory of good-fatfs (dir.rs): slots that hold the parts of long   *)
(* names and the short entries, the reading of them, and what create_file, *)
(* create_dir, remove and rename write to them.  A step writes one slot,   *)
(* and a crash or a full disk can come between two.                        *)
(*                                                                         *)
(* A name stands for its spellings in either case.  What a name is like is *)
(* given by constants; the data of an entry is its identity.               *)
(***************************************************************************)
EXTENDS Integers, FiniteSets, Sequences, SequencesExt

CONSTANTS
  Name,       \* names that are passed in
  Valid,      \* those validate_long_name accepts
  Parts,      \* number of LFN entries of a name
  Own,        \* the 8.3 form of a name, as ShortNameGenerator::new makes it
  Fits,       \* names that fit in it without loss
  Numbered,   \* the forms with a long prefix, TEXTFI~1 and on, of a name
  Hashed,     \* the forms with a checksum, TE021F~1 and on, of a name
  Sum,        \* lfn_checksum of a short name
  Data,       \* files and directories, numbered
  PerCluster, \* slots in a cluster
  MaxSlots    \* bound: slots the disk has space for

VARIABLES
  slots,      \* the slots of the directory, up to the first that is unused
  capacity,   \* the slots its clusters have
  op,         \* the call in progress
  pc,         \* its next step
  expected,   \* history: the entries that were made, <<name, data>>
  maimed      \* history: data of entries a crash left half deleted

vars == <<slots, capacity, op, pc, expected, maimed>>

NoName == "no name"
Mixed == "mixed"          \* a name of parts of different names
Deleted == [kind |-> "deleted"]
Lfn(n, index, last, sum) == [kind |-> "lfn", name |-> n, index |-> index, last |-> last, sum |-> sum]
Sfn(short, d) == [kind |-> "sfn", short |-> short, data |-> d]

-----------------------------------------------------------------------------
(* Reading                                                                  *)

(* LongNameBuilder: the name it holds, the index and checksum it last saw;  *)
(* index 0 after new and clear.  begin is the first slot of the entry.      *)
NewBuilder(begin) == [buf |-> <<>>, index |-> 0, sum |-> 0, begin |-> begin]

clear(b) == [b EXCEPT !.buf = <<>>, !.index = 0]

process(b, s) ==
  IF s.last THEN [b EXCEPT !.index = s.index, !.sum = s.sum, !.buf = [i \in {s.index} |-> s.name]]
  ELSE IF b.index = 0 \/ s.index # b.index - 1 \/ s.sum # b.sum THEN clear(b)
  ELSE [b EXCEPT !.index = s.index, !.buf = [i \in DOMAIN b.buf \cup {s.index} |->
                                               IF i = s.index THEN s.name ELSE b.buf[i]]]

(* validate_chksum and into_buf: the long name before a short entry.        *)
LongName(b, short) ==
  IF b.index # 1 \/ b.sum # Sum[short] THEN NoName
  ELSE IF b.buf = [i \in 1 .. Parts[b.buf[1]] |-> b.buf[1]] THEN b.buf[1] ELSE Mixed

(* read_dir_entry until the end of the directory.                           *)
DirIter ==
  FoldLeftDomain(
    LAMBDA acc, k :
      LET s == slots[k]
          b == acc.b
      IN  CASE s.kind = "deleted" -> [acc EXCEPT !.b = [clear(b) EXCEPT !.begin = k + 1]]
            [] s.kind = "lfn"     -> [acc EXCEPT !.b = process(b, s)]
            [] s.kind = "sfn"     -> [b |-> NewBuilder(k + 1),
                                      entries |-> Append(acc.entries,
                                        [long |-> LongName(b, s.short), short |-> s.short, data |-> s.data,
                                         from |-> b.begin, to |-> k])],
    [b |-> NewBuilder(1), entries |-> <<>>], slots).entries

Smaller(a, b) == IF a < b THEN a ELSE b

eq_name(e, n) == e.long = n \/ (n \in Fits /\ e.short = Own[n])

Matches(n) == SelectSeq(DirIter, LAMBDA e : eq_name(e, n))
Exists(n) == Matches(n) # <<>>

(* find_entry, when there is one.                                           *)
find_entry(n) == Head(Matches(n))

-----------------------------------------------------------------------------
(* Short names                                                              *)

Shorts == {e.short : e \in Range(DirIter)}

(* Mutant: the numbered forms are not compared with what exists.            *)
generate_blind(n) ==
  IF n \in Fits /\ Own[n] \notin Shorts THEN Own[n] ELSE Numbered[n][1]

(* add_existing for every entry, then generate, with the next checksums     *)
(* while there are too many collisions: the first form not in use.          *)
generate(n) ==
  LET forms == (IF n \in Fits THEN <<Own[n]>> ELSE <<>>) \o Numbered[n] \o Hashed[n]
  IN  forms[Min({i \in 1 .. Len(forms) : forms[i] \notin Shorts})]

-----------------------------------------------------------------------------
(* Writing                                                                  *)

NoCall == [call |-> "none", name |-> NoName, data |-> 0, short |-> NoName, at |-> 0, until |-> 0, part |-> 0]

Return == op' = NoCall /\ pc' = "idle"

(* Mutant: free slots are counted over used ones.                           *)
find_free_entries_scattered(num) ==
  Min({Len(slots) + 1} \cup {f \in 1 .. Len(slots) :
         Cardinality({k \in f .. Len(slots) : slots[k] = Deleted}) >= num})

(* find_free_entries: the first num free slots in a row, the unused ones at *)
(* the end of the directory included.                                       *)
find_free_entries(num) ==
  Min({f \in 1 .. Len(slots) + 1 : \A k \in f .. Smaller(f + num - 1, Len(slots)) : slots[k] = Deleted})

(* write_entry, as far as the first slot.                                   *)
write_entry(call, n, short, d) ==
  /\ op' = [NoCall EXCEPT !.call = call, !.name = n, !.data = d, !.short = short,
              !.at = find_free_entries(Parts[n] + 1), !.part = Parts[n]]
  /\ pc' = "write"

Listed == {e.data : e \in Range(DirIter)}

(* create_file and create_dir of a name that is not there: otherwise they   *)
(* open what is there or fail, and write nothing.                           *)
create(n) ==
  /\ pc = "idle" /\ ~Exists(n) /\ n \in Valid /\ Listed # Data
  /\ LET d == Min(Data \ Listed) IN
       /\ write_entry("create", n, generate(n), d)
       /\ maimed' = maimed \ {d}
  /\ UNCHANGED <<slots, capacity, expected>>

(* remove, of a file or of a directory that was found empty.                *)
remove(n) ==
  /\ pc = "idle" /\ Exists(n)
  /\ LET e == find_entry(n) IN
       /\ op' = [NoCall EXCEPT !.call = "remove", !.data = e.data, !.at = e.from, !.until = e.to]
       /\ expected' = {x \in expected : x[2] # e.data}
  /\ pc' = "delete"
  /\ UNCHANGED <<slots, capacity, maimed>>

(* rename_internal: the short name is chosen while the old entry is there.  *)
rename(n, to) ==
  /\ pc = "idle" /\ Exists(n) /\ ~Exists(to)
  /\ LET e == find_entry(n) IN
       /\ op' = [NoCall EXCEPT !.call = "rename", !.name = to, !.data = e.data, !.short = generate(to),
                   !.at = e.from, !.until = e.to]
       /\ expected' = {x \in expected : x[2] # e.data}
  /\ pc' = "delete"
  /\ UNCHANGED <<slots, capacity, maimed>>

(* Mutant: the short entry is not deleted with its long name.               *)
delete_slot_lfn ==
  /\ pc = "delete"
  /\ IF op.at < op.until
     THEN /\ slots' = [slots EXCEPT ![op.at] = Deleted]
          /\ op' = [op EXCEPT !.at = @ + 1] /\ UNCHANGED pc
     ELSE Return /\ UNCHANGED slots
  /\ UNCHANGED <<capacity, expected, maimed>>

(* One slot of the old entry.  After the last one rename goes on with       *)
(* write_entry, which refuses a name that is not valid.                     *)
delete_slot ==
  /\ pc = "delete"
  /\ IF op.at <= op.until
     THEN /\ slots' = [slots EXCEPT ![op.at] = Deleted]
          /\ op' = [op EXCEPT !.at = @ + 1] /\ UNCHANGED pc
     ELSE /\ IF op.call = "rename" /\ op.name \in Valid THEN write_entry("rename", op.name, op.short, op.data)
             ELSE Return
          /\ UNCHANGED slots
  /\ UNCHANGED <<capacity, expected, maimed>>

(* LfnEntriesGenerator, last part first, and then the short entry.          *)
NextSlot ==
  IF op.part > 0 THEN Lfn(op.name, op.part, op.part = Parts[op.name], Sum[op.short])
  ELSE Sfn(op.short, op.data)

(* One slot of the new entry; File::write adds a cluster to the directory   *)
(* when it has come to the end of the last one.                             *)
write_slot ==
  /\ pc = "write"
  /\ op.at > capacity => capacity + PerCluster <= MaxSlots
  /\ capacity' = IF op.at > capacity THEN capacity + PerCluster ELSE capacity
  /\ slots' = [k \in 1 .. (IF op.at > Len(slots) THEN op.at ELSE Len(slots)) |->
                 IF k = op.at THEN NextSlot ELSE slots[k]]
  /\ IF op.part > 0
     THEN op' = [op EXCEPT !.at = @ + 1, !.part = @ - 1] /\ UNCHANGED <<pc, expected>>
     ELSE Return /\ expected' = expected \cup {<<op.name, op.data>>}
  /\ UNCHANGED maimed

(* No cluster is free for it: the call fails as it stands.                  *)
write_fails ==
  /\ pc = "write" /\ op.at > capacity
  /\ Return
  /\ UNCHANGED <<slots, capacity, expected, maimed>>

crash ==
  /\ pc # "idle"
  /\ maimed' = IF pc = "delete" THEN maimed \cup {op.data} ELSE maimed
  /\ Return
  /\ UNCHANGED <<slots, capacity, expected>>

Init ==
  /\ slots = <<>> /\ capacity = PerCluster
  /\ op = NoCall /\ pc = "idle"
  /\ expected = {} /\ maimed = {}

Next ==
  \/ \E n \in Name : \/ create(n)
                     \/ remove(n)
                     \/ \E to \in Name : rename(n, to)
  \/ delete_slot \/ write_slot \/ write_fails \/ crash

Spec == Init /\ [][Next]_vars

-----------------------------------------------------------------------------
(* Properties                                                               *)

TypeOK ==
  /\ \A k \in 1 .. Len(slots) : slots[k].kind \in {"deleted", "lfn", "sfn"}
  /\ Len(slots) <= capacity /\ capacity <= MaxSlots
  /\ pc \in {"idle", "write", "delete"}
  /\ expected \subseteq Name \X Data /\ maimed \subseteq Data

(* Whatever is written, deleted, cut short by a crash or refused for lack  *)
(* of space, every entry that was made and not touched since is found      *)
(* under its name, with its data: parts left over from another name never  *)
(* stick to it, and deleting never takes a slot of it.                     *)
Found ==
  \A x \in expected : Exists(x[1]) /\ find_entry(x[1]).data = x[2]

(* A listing shows nothing else, at any moment, but what a crash left half *)
(* deleted or what is being deleted.                                       *)
NothingElse ==
  \A e \in Range(DirIter) :
    \/ <<e.long, e.data>> \in expected
    \/ e.data \in maimed \/ (pc = "delete" /\ e.data = op.data)

(* No two entries have the same short name, which is what other systems    *)
(* find them by.                                                           *)
ShortNamesUnique ==
  Cardinality(Shorts) = Len(DirIter)

(* rename moves an entry: a call that failed has not made the data         *)
(* unreachable.                                                            *)
RenameKeeps ==
  [][(delete_slot \/ write_slot \/ write_fails) /\ op.call = "rename" /\ pc' = "idle" =>
        \E e \in Range(DirIter') : e.data = op.data]_vars
=============================================================================
