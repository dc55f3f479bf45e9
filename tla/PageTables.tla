------------------------------ MODULE PageTables ------------------------------
(***************************************************************************)
(* Address spaces (kernel/src/memory/page_table.rs, manager.rs): a process *)
(* gets a copy of the kernel's page table, pages for its segments and its  *)
(* stack, and gives everything back when it is dropped.                    *)
(*                                                                         *)
(* Tables have Levels levels of Fan entries, 4 and 512 in the code.  A     *)
(* frame is handed out once, in order, as allocate_frame does              *)
(* (FrameAllocator); freed are the frames marked free.  FRAME_ALLOCATOR is *)
(* locked during each step.                                                *)
(***************************************************************************)
EXTENDS Naturals, Sequences, SequencesExt, FiniteSets

CONSTANTS
  Proc,
  Levels, Fan,
  Frames,       \* the last frame
  Kernel,       \* the tables of the kernel at boot, by frame
  KernelPages,  \* the frames its pages are in, the heap's among them
  Ranges        \* <<first, last>> pages of segments and stacks

VARIABLES
  table,        \* per frame that holds a page table: its entries
  next,         \* the frame handed out next
  freed,        \* frames marked free
  status,       \* per process: none, made, dropped, abandoned
  root,         \* per process: its level 4 table, 0 for none
  base,         \* history: what the kernel mapped when a process was made
  own,          \* history: per process, page to frame, by alloc_range
  handed,       \* history: per process, the frames it was given
  stuck         \* a panic with FRAME_ALLOCATOR locked

vars == <<table, next, freed, status, root, base, own, handed, stuck>>

NoEntry == [to |-> 0, user |-> FALSE, huge |-> FALSE]
Entry == [to : 0..Frames, user : BOOLEAN, huge : BOOLEAN]
KernelRoot == 1
Index == 1..Fan
Page == 0..(Fan ^ Levels - 1)

TypeOK ==
  /\ table \in [DOMAIN table -> [Index -> Entry]] /\ DOMAIN table \subseteq 1..Frames
  /\ next \in 1..(Frames + 1) /\ freed \subseteq 1..Frames
  /\ status \in [Proc -> {"none", "made", "dropped", "abandoned"}]
  /\ root \in [Proc -> 0..Frames] /\ handed \in [Proc -> SUBSET (1..Frames)]

(* The index of a page in a table of a level.                               *)
At(page, level) == 1 + ((page \div Fan ^ (level - 1)) % Fan)

RECURSIVE Walk(_, _, _, _)
Walk(t, frame, page, level) ==
  LET e == t[frame][At(page, level)]
  IN  IF e = NoEntry \/ e.huge \/ level = 1 THEN e ELSE Walk(t, e.to, page, level - 1)

translate(t, frame, page) == Walk(t, frame, page, Levels)

-----------------------------------------------------------------------------
(* Memory while one call runs: tables, the next frame, and whether it goes  *)
(* on.                                                                      *)

(* Mutant: one frame past the end.                                          *)
allocate_frame_past(m) ==
  IF m.ok /\ m.next <= Frames + 1 THEN [m EXCEPT !.next = @ + 1] ELSE [m EXCEPT !.ok = FALSE]

(* The next frame of BitmapFrameAllocator (FrameAllocator).                 *)
allocate_frame(m) ==
  IF m.ok /\ m.next <= Frames THEN [m EXCEPT !.next = @ + 1] ELSE [m EXCEPT !.ok = FALSE]

(* A frame for a table.  deep_copy writes every entry of it, map_to clears  *)
(* it.                                                                      *)
NewTable(m) ==
  LET a == allocate_frame(m)
  IN  IF a.ok THEN [a EXCEPT !.table = [f \in DOMAIN @ \cup {m.next} |-> IF f = m.next THEN [i \in Index |-> NoEntry] ELSE @[f]]]
      ELSE a

(* Mutant: tables of the last level are shared.                             *)
Copied_shallow(level, e) == level <= 2 \/ e = NoEntry \/ e.huge

(* Entries that are copied as they are.                                     *)
Copied(level, e) == level = 1 \/ e = NoEntry \/ e.huge

RECURSIVE new_from_recursion(_, _, _, _, _)
new_from_recursion(m, source, target, level, i) ==
  LET e == m.table[source][i]
      a == NewTable(m)
      new == m.next
      deeper == new_from_recursion([a EXCEPT !.table[target][i] = [e EXCEPT !.to = new]], e.to, new, level - 1, 1)
  IN  IF ~m.ok \/ i > Fan THEN m
      ELSE IF Copied(level, e) THEN new_from_recursion([m EXCEPT !.table[target][i] = e], source, target, level, i + 1)
      ELSE IF ~a.ok THEN a
      ELSE new_from_recursion(deeper, source, target, level, i + 1)

deep_copy(m) ==
  LET a == NewTable(m)
  IN  IF a.ok THEN new_from_recursion(a, KernelRoot, m.next, Levels, 1) ELSE a

(* Mapper::map_to, with the tables it needs on the way.                     *)
RECURSIVE map_to(_, _, _, _, _)
map_to(m, frame, page, to, level) ==
  LET i == At(page, level)
      e == m.table[frame][i]
      a == NewTable(m)
  IN  CASE level = 1 -> IF e = NoEntry THEN [m EXCEPT !.table[frame][i] = [to |-> to, user |-> TRUE, huge |-> FALSE]]
                        ELSE [m EXCEPT !.ok = FALSE]
        [] level > 1 /\ e.huge -> [m EXCEPT !.ok = FALSE]
        [] level > 1 /\ e # NoEntry /\ ~e.huge -> map_to(m, e.to, page, to, level - 1)
        [] OTHER -> IF a.ok
                    THEN map_to([a EXCEPT !.table[frame][i] = [to |-> m.next, user |-> TRUE, huge |-> FALSE]],
                                m.next, page, to, level - 1)
                    ELSE a

(* alloc_range: a frame for every page, until one cannot be had or mapped.  *)
RECURSIVE AllocPages(_, _, _, _)
AllocPages(m, frame, page, last) ==
  LET a == allocate_frame(m)
  IN  IF ~m.ok \/ page > last THEN m
      ELSE IF ~a.ok THEN a
      ELSE AllocPages(map_to(a, frame, page, m.next, Levels), frame, page + 1, last)

(* Mutant: only whole tables go back, not the pages in them.                *)
Returned_tables(e) == {}

(* The frame of a leaf that goes back with the address space.               *)
Returned(e) == IF e.user THEN {e.to} ELSE {}

(* The frames that free_pages_recursion marks free.                         *)
RECURSIVE free_pages_recursion(_, _)
free_pages_recursion(frame, level) ==
  {frame} \cup UNION {LET e == table[frame][i]
                      IN  IF e = NoEntry THEN {}
                          ELSE IF level = 1 \/ e.huge THEN Returned(e)
                          ELSE free_pages_recursion(e.to, level - 1) : i \in Index}

-----------------------------------------------------------------------------
Memory == [table |-> table, next |-> next, ok |-> TRUE]
KernelView == [page \in Page |-> translate(table, KernelRoot, page)]

(* Process::new.  There is no frame left: the panic keeps the lock.         *)
new(p) ==
  LET m == deep_copy(Memory)
  IN  /\ ~stuck /\ status[p] = "none"
      /\ next' = m.next /\ table' = m.table /\ stuck' = ~m.ok
      /\ IF m.ok
         THEN /\ status' = [status EXCEPT ![p] = "made"] /\ root' = [root EXCEPT ![p] = next]
              /\ base' = [base EXCEPT ![p] = KernelView]
              /\ handed' = [handed EXCEPT ![p] = next..(m.next - 1)]
         ELSE UNCHANGED <<status, root, base, handed>>
      /\ UNCHANGED <<freed, own>>

(* alloc_range for a segment or a stack.  Its callers panic when it fails:  *)
(* the process is neither published nor dropped.                            *)
alloc_range(p) ==
  /\ ~stuck /\ status[p] = "made"
  /\ \E r \in Ranges :
       LET m == AllocPages(Memory, root[p], r[1], r[2])
       IN  /\ next' = m.next /\ table' = m.table
           /\ status' = IF m.ok THEN status ELSE [status EXCEPT ![p] = "abandoned"]
           /\ own' = IF m.ok
                     THEN [own EXCEPT ![p] = [page \in DOMAIN @ \cup (r[1]..r[2]) |->
                             IF page \in DOMAIN @ THEN @[page] ELSE translate(m.table, root[p], page).to]]
                     ELSE own
           /\ handed' = [handed EXCEPT ![p] = @ \cup next..(m.next - 1)]
  /\ UNCHANGED <<freed, root, base, stuck>>

(* Process::drop.                                                           *)
drop(p) ==
  /\ ~stuck /\ status[p] = "made"
  /\ freed' = freed \cup free_pages_recursion(root[p], Levels)
  /\ status' = [status EXCEPT ![p] = "dropped"]
  /\ UNCHANGED <<table, next, root, base, own, handed, stuck>>

Init ==
  /\ table = Kernel
  /\ next = 1 + Cardinality(DOMAIN Kernel \cup KernelPages) /\ freed = {}
  /\ status = [p \in Proc |-> "none"] /\ root = [p \in Proc |-> 0]
  /\ base = [p \in Proc |-> <<>>] /\ own = [p \in Proc |-> <<>>] /\ handed = [p \in Proc |-> {}]
  /\ stuck = FALSE

Next == \E p \in Proc : new(p) \/ alloc_range(p) \/ drop(p)

Spec == Init /\ [][Next]_vars

-----------------------------------------------------------------------------
Heap == {f \in KernelPages : \E t \in DOMAIN Kernel, i \in Index : Kernel[t][i].to = f /\ Kernel[t][i].user}

(* A process that is not dropped sees its own pages where alloc_range put   *)
(* them, each in a frame of its own, and everything else as the kernel had  *)
(* it when the process was made, whatever other processes map and give      *)
(* back: no table is shared or lost by deep_copy.                           *)
ViewExact ==
  \A p \in Proc : status[p] = "made" =>
    /\ \A page \in Page : page \notin DOMAIN own[p] => translate(table, root[p], page) = base[p][page]
    /\ \A page \in DOMAIN own[p] : translate(table, root[p], page).to = own[p][page] /\ own[p][page] \in handed[p]
    /\ IsInjective(own[p])

(* Dropping a process frees every frame it was given, tables included, and  *)
(* no frame that another process or a table of the kernel is in.  The heap  *)
(* is the exception: its pages have the flags of user pages and are marked  *)
(* free with the first process (page_table.rs:118).                         *)
DropExact ==
  /\ \A p \in Proc : IF status[p] = "dropped" THEN handed[p] \subseteq freed ELSE handed[p] \cap freed = {}
  /\ freed \cap (DOMAIN Kernel \cup KernelPages) \subseteq Heap
=============================================================================
