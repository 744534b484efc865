--------------------------------- MODULE Vmm ---------------------------------
(***************************************************************************)
(* The memory map of one process: its table of areas (vm_area_t, in        *)
(* kernel/mm/vmm.c), the page-table entries of the same pages              *)
(* (kernel/mm/memory.c), the frames behind them, and the system calls mmap,*)
(* munmap and mprotect and the page fault that change all three.           *)
(*                                                                         *)
(* Addresses are page numbers: the calls round lengths up to pages and     *)
(* reject unaligned addresses.  The window 1 .. VPAGES lies in the mmap    *)
(* area; the process has used it before, so that the page-table levels     *)
(* above its entries exist (the kernel never frees one).  The handlers run *)
(* with interrupts disabled: each is one step.                             *)
(*                                                                         *)
(* careful is whether the program keeps to calls the code handles: it does *)
(* not call mmap with MAP_FIXED or on ranges that are in use (only the     *)
(* first page of a hint is checked, and mmap_curr_base not at all), nor    *)
(* mprotect on a range that begins inside of an area and ends beyond it.   *)
(* Where it does not, one slot holds an area outside of the window.        *)
(***************************************************************************)
EXTENDS Integers, FiniteSets

CONSTANTS
  MAX_PROCESS_VMAS,   \* slots of the table of areas
  VPAGES,             \* bound: pages of the window
  MAX_PAGES, WORD     \* the frame pool of Pmm

ASSUME VmasAssumption == MAX_PROCESS_VMAS \in Nat \ {0}
ASSUME VpagesAssumption == VPAGES \in Nat \ {0}
ASSUME PoolAssumption == MAX_PAGES \in Nat \ {0} /\ WORD \in Nat \ {0}

Pages == 1 .. VPAGES
Slots == 1 .. MAX_PROCESS_VMAS
Prots == {"r", "rw"}
NoVma == [used |-> FALSE]
Elsewhere == [used |-> TRUE, start |-> VPAGES + 2, end |-> VPAGES + 3, prot |-> "rw", fixed |-> FALSE]
NoPte == [frame |-> -1, w |-> FALSE]

VARIABLES
  careful,
  vmas,             \* the table of areas
  mmap_curr_base,   \* where the next area without an address goes
  pte,              \* the page-table entry of every page
  page_bitmap       \* the frames in use

vars == <<careful, vmas, mmap_curr_base, pte, page_bitmap>>

Pool == INSTANCE Pmm WITH given <- {}, BOOT_FRAMES <- 0

Least(S) == CHOOSE x \in S : \A y \in S : x <= y
Span(v) == v.start .. v.end - 1
UsedSlots(vs) == {i \in Slots : vs[i].used}
Covered(vs) == UNION {Span(vs[i]) : i \in UsedSlots(vs)}
Mapped == {p \in Pages : pte[p] # NoPte}

Init ==
  /\ careful \in BOOLEAN
  /\ vmas = [i \in Slots |-> IF i = 1 /\ ~careful THEN Elsewhere ELSE NoVma]
  /\ mmap_curr_base = 1
  /\ pte = [p \in Pages |-> NoPte]
  /\ page_bitmap = {}

-----------------------------------------------------------------------------
(* The table of areas.                                                      *)

\* Mutant: areas are merged whatever their protections.
Extends_AnyProt(v, s, e, prot, fixed) ==
  v.used /\ v.fixed = fixed /\
    ((s >= v.start /\ e <= v.end) \/ v.end = s \/ v.start = e)

\* An area of the same kind that holds the new one or touches it.
Extends(v, s, e, prot, fixed) ==
  v.used /\ v.prot = prot /\ v.fixed = fixed /\
    ((s >= v.start /\ e <= v.end) \/ v.end = s \/ v.start = e)

Extended(v, s, e) ==
  IF s >= v.start /\ e <= v.end THEN v
  ELSE IF v.end = s THEN [v EXCEPT !.end = e] ELSE [v EXCEPT !.start = s]

VmaFits(vs, s, e, prot, fixed) ==
  \E i \in Slots : Extends(vs[i], s, e, prot, fixed) \/ ~vs[i].used

\* vma_create: the first area to extend, else the first free slot, else the
\* table stays as it is (and NULL is returned).
vma_create(vs, s, e, prot, fixed) ==
  LET near == {i \in Slots : Extends(vs[i], s, e, prot, fixed)}
      free == Slots \ UsedSlots(vs)
  IN  IF near # {} THEN [vs EXCEPT ![Least(near)] = Extended(@, s, e)]
      ELSE IF free = {} THEN vs
      ELSE [vs EXCEPT ![Least(free)] =
              [used |-> TRUE, start |-> s, end |-> e, prot |-> prot, fixed |-> fixed]]

vma_find(p) ==
  LET at == {i \in UsedSlots(vmas) : p \in Span(vmas[i])}
  IN  IF at = {} THEN NoVma ELSE vmas[Least(at)]

Overlaps(v, s, e) == v.used /\ s < v.end /\ e > v.start

\* Mutant: the part behind the hole is dropped.
RemoveFrom_NoTail(vs, i, s, e) ==
  LET v == vs[i]
  IN  IF ~Overlaps(v, s, e) THEN vs
      ELSE IF s <= v.start /\ e >= v.end THEN [vs EXCEPT ![i] = NoVma]
      ELSE IF s <= v.start THEN [vs EXCEPT ![i].start = e]
      ELSE [vs EXCEPT ![i].end = s]

\* One turn of the loop of vma_remove: drop, trim or split the area of slot i.
RemoveFrom(vs, i, s, e) ==
  LET v == vs[i]
  IN  IF ~Overlaps(v, s, e) THEN vs
      ELSE IF s <= v.start /\ e >= v.end THEN [vs EXCEPT ![i] = NoVma]
      ELSE IF s <= v.start THEN [vs EXCEPT ![i].start = e]
      ELSE IF e >= v.end THEN [vs EXCEPT ![i].end = s]
      ELSE vma_create([vs EXCEPT ![i].end = s], e, v.end, v.prot, v.fixed)

\* One turn of the loop of vma_protect.  The area that is cut at its end gets
\* a neighbour that goes up to the end of the call's range.
ProtectIn(vs, i, s, e, prot) ==
  LET v == vs[i]
  IN  IF ~Overlaps(v, s, e) THEN vs
      ELSE IF s <= v.start /\ e >= v.end THEN [vs EXCEPT ![i].prot = prot]
      ELSE IF s <= v.start
           THEN vma_create([vs EXCEPT ![i].end = e, ![i].prot = prot],
                           e, v.end, v.prot, v.fixed)
      ELSE IF e >= v.end
           THEN vma_create([vs EXCEPT ![i].end = s], s, e, prot, v.fixed)
      ELSE vma_create(vma_create([vs EXCEPT ![i].end = s], s, e, prot, v.fixed),
                      e, v.end, v.prot, v.fixed)

\* The loops: the table before the turn of every slot, and after the last.  A
\* turn may fill a slot that is still to come.
vma_remove(s, e) ==
  LET after[i \in 0 .. MAX_PROCESS_VMAS] ==
        IF i = 0 THEN vmas ELSE RemoveFrom(after[i - 1], i, s, e)
  IN  after

vma_protect(s, e, prot) ==
  LET after[i \in 0 .. MAX_PROCESS_VMAS] ==
        IF i = 0 THEN vmas ELSE ProtectIn(after[i - 1], i, s, e, prot)
  IN  after

\* The pages of a range that the loop finds in an area.
Touched(after, s, e) ==
  UNION {Span(after[i - 1][i]) \cap (s .. e - 1) :
           i \in {j \in Slots : Overlaps(after[j - 1][j], s, e)}}

-----------------------------------------------------------------------------
(* The system calls.                                                        *)

\* The entries of n pages from a on, for the frames from f on (map_user_pages
\* always maps them writable).
map_user_pages(a, f, n) ==
  pte' = [p \in Pages |->
            IF p \in a .. a + n - 1 THEN [frame |-> f + p - a, w |-> TRUE] ELSE pte[p]]

\* Where SYS_MMAP puts an area: at a fixed address, at a hint whose first page
\* is free, or at mmap_curr_base (no hint, or a hint that is taken).
TakesAddr(a, fixed) == fixed \/ (a # 0 /\ ~vma_find(a).used)

MmapAt(a, fixed) == IF TakesAddr(a, fixed) THEN a ELSE mmap_curr_base

\* SYS_MMAP.
sys_mmap(a, n, prot, fixed) ==
  LET at == MmapAt(a, fixed)
      base == Pool!FirstFit(n)
  IN  /\ fixed => a # 0
      /\ at + n - 1 <= VPAGES
      /\ careful => (~fixed /\ (at .. at + n - 1) \cap Covered(vmas) = {})
      /\ mmap_curr_base' = IF TakesAddr(a, fixed) THEN mmap_curr_base ELSE at + n
      /\ vmas' = vma_create(vmas, at, at + n, prot, fixed)
      /\ UNCHANGED careful
      /\ IF base = Pool!NULL \/ ~VmaFits(vmas, at, at + n, prot, fixed)
         THEN UNCHANGED <<pte, page_bitmap>>
         ELSE /\ map_user_pages(at, base, n)
              /\ page_bitmap' = page_bitmap \cup Pool!Run(base, n)

\* Mutant: the entries stay.
Unmapped_Stale(pages) ==
  /\ UNCHANGED pte
  /\ page_bitmap' = page_bitmap \ {pte[p].frame : p \in pages \cap Mapped}

\* unmap_user_pages: entries that are present are cleared, their frames freed.
Unmapped(pages) ==
  /\ pte' = [p \in Pages |-> IF p \in pages THEN NoPte ELSE pte[p]]
  /\ page_bitmap' = page_bitmap \ {pte[p].frame : p \in pages \cap Mapped}

\* SYS_MUNMAP.
sys_munmap(a, n) ==
  LET after == vma_remove(a, a + n)
  IN  /\ vmas' = after[MAX_PROCESS_VMAS]
      /\ Unmapped(Touched(after, a, a + n))
      /\ UNCHANGED <<careful, mmap_curr_base>>

\* Mutant: pages that are already present keep their flags.
Reflagged_Not(pages, prot) == UNCHANGED pte

\* modify_page_flags on the entries that are present.
Reflagged(pages, prot) ==
  pte' = [p \in Pages |->
            IF p \in pages \cap Mapped THEN [pte[p] EXCEPT !.w = (prot = "rw")] ELSE pte[p]]

Spills(s, e) ==
  \E i \in UsedSlots(vmas) : vmas[i].start < s /\ s < vmas[i].end /\ vmas[i].end < e

\* SYS_MPROTECT.
sys_mprotect(a, n, prot) ==
  LET after == vma_protect(a, a + n, prot)
  IN  /\ careful => ~Spills(a, a + n)
      /\ vmas' = after[MAX_PROCESS_VMAS]
      /\ Reflagged(Touched(after, a, a + n), prot)
      /\ UNCHANGED <<careful, mmap_curr_base, page_bitmap>>

-----------------------------------------------------------------------------
(* The page fault.                                                          *)

\* An access that the page-table entry does not allow.
Faults(p, write) == pte[p] = NoPte \/ (write /\ ~pte[p].w)

\* The handler refuses the access (and the process is terminated).
Refused(p, write) ==
  \/ ~vma_find(p).used
  \/ pte[p] # NoPte /\ write /\ vma_find(p).prot # "rw"

\* vmm_handle_page_fault, when it resolves the fault.
vmm_handle_page_fault(p, write) ==
  LET f == Pool!FirstFit(1)
  IN  /\ Faults(p, write)
      /\ ~Refused(p, write)
      /\ f # Pool!NULL
      /\ pte' = [pte EXCEPT ![p] = [frame |-> f, w |-> vma_find(p).prot = "rw"]]
      /\ page_bitmap' = page_bitmap \cup {f}
      /\ UNCHANGED <<careful, vmas, mmap_curr_base>>

Next ==
  \/ \E a \in 0 .. VPAGES, n \in 1 .. MAX_PAGES, prot \in Prots, fixed \in BOOLEAN :
       sys_mmap(a, n, prot, fixed)
  \/ \E a \in Pages : \E n \in 1 .. VPAGES + 1 - a :
       sys_munmap(a, n) \/ \E prot \in Prots : sys_mprotect(a, n, prot)
  \/ \E p \in Pages, write \in BOOLEAN : vmm_handle_page_fault(p, write)

Spec == Init /\ [][Next]_vars

-----------------------------------------------------------------------------
(* Properties.                                                              *)

TypeOK ==
  /\ \A i \in {j \in UsedSlots(vmas) : vmas[j] # Elsewhere} :
       /\ vmas[i].start \in Pages /\ vmas[i].end \in Pages \cup {VPAGES + 1}
       /\ vmas[i].start < vmas[i].end
       /\ vmas[i].prot \in Prots /\ vmas[i].fixed \in BOOLEAN
  /\ mmap_curr_base \in 1 .. VPAGES + 1
  /\ pte \in [Pages -> {NoPte} \cup [frame : Pool!Frames, w : BOOLEAN]]
  /\ page_bitmap \subseteq Pool!Frames

\* No two pages share a frame, and no page is backed by a frame the allocator
\* may hand out again, whatever the calls cover and however full the table is.
FramesNotShared ==
  \A p \in Mapped :
    /\ pte[p].frame \in page_bitmap
    /\ \A q \in Mapped \ {p} : pte[p].frame # pte[q].frame

\* Areas are ranges of the window and, as long as calls of mmap take free
\* ranges, the frames in use are those of pages that belong to an area: munmap
\* and failed calls leak no frame, and leave no entry behind that a later
\* owner of the page would see.
AreasSound ==
  /\ TypeOK
  /\ careful => page_bitmap = {pte[p].frame : p \in Mapped \cap Covered(vmas)}

\* The page fault fills pages that are not present; it never puts a fresh
\* frame, without the data, under a page that is.  (The handler does not
\* check: an entry must be writable whenever its area is.)
FaultKeepsPages == [][careful => \A p \in Mapped : ~vmm_handle_page_fault(p, TRUE)]_vars

\* The protection vma_find reports for every page.
View == [p \in Pages |-> IF vma_find(p).used THEN vma_find(p).prot ELSE "unmapped"]

Abstract == INSTANCE AddressSpace WITH view <- View

\* The table of areas, with its merging, trimming and splitting, behaves as a
\* function from pages to protections, and every call does to the function
\* what the abstract one does: on its range, and nowhere else.
ImplementsAddressSpace ==
  [][careful =>
     /\ \A a \in 0 .. VPAGES, n \in 1 .. MAX_PAGES, prot \in Prots, fixed \in BOOLEAN :
         sys_mmap(a, n, prot, fixed) =>
           LET at == MmapAt(a, fixed)
           IN  IF VmaFits(vmas, at, at + n, prot, fixed)
               THEN Abstract!Map(at .. at + n - 1, prot) ELSE UNCHANGED View
     /\ \A a \in Pages : \A n \in 1 .. VPAGES + 1 - a :
         /\ sys_munmap(a, n) => Abstract!Unmap(a .. a + n - 1)
         /\ \A prot \in Prots :
              sys_mprotect(a, n, prot) => Abstract!Protect(a .. a + n - 1, prot)]_vars

=============================================================================
