------------------------------ MODULE VmmProofs ------------------------------
(***************************************************************************)
(* No two pages of a process share a frame, and no page is backed by a     *)
(* frame that is free, for any number of areas, pages and frames, whatever *)
(* ranges the calls name.  The scan of the frame allocator enters through  *)
(* what it promises (Pool!FirstFit).                                       *)
(***************************************************************************)
EXTENDS Vmm, WellFoundedInduction, TLAPS

Entries == {NoPte} \cup [frame : Pool!Frames, w : BOOLEAN]

\* What the argument needs of the types.
FrameTypes ==
  /\ mmap_curr_base \in Nat
  /\ pte \in [Pages -> Entries]
  /\ page_bitmap \subseteq Pool!Frames

\* alloc_pages returns NULL or the start of a run of free frames of the pool.
LEMMA FirstFitFree ==
  ASSUME NEW n \in 1 .. MAX_PAGES, Pool!FirstFit(n) # Pool!NULL
  PROVE  /\ Pool!FirstFit(n) \in Nat
         /\ Pool!Run(Pool!FirstFit(n), n) \subseteq Pool!Frames
         /\ Pool!Run(Pool!FirstFit(n), n) \cap page_bitmap = {}
<1> DEFINE fits == {i \in 0 .. MAX_PAGES - n : Pool!Run(i, n) \cap page_bitmap = {}}
<1>1. fits # {} /\ Pool!FirstFit(n) = CHOOSE i \in fits : \A j \in fits : i <= j
  BY DEF Pool!FirstFit
<1>2. fits \subseteq Nat
  OBVIOUS
<1>3. PICK x \in fits : \A y \in fits : ~(<<y, x>> \in OpToRel(<, Nat))
  <2> HIDE DEF fits
  <2> QED
    BY <1>1, <1>2, NatLessThanWellFounded, WFMin, Zenon
<1>4. \A y \in fits : x <= y
  <2> HIDE DEF fits
  <2> SUFFICES ASSUME NEW y \in fits PROVE x <= y
    OBVIOUS
  <2>1. x \in Nat /\ y \in Nat
    BY <1>2
  <2>2. ~(y < x)
    BY <1>3, <2>1, Zenon DEF OpToRel
  <2> QED
    BY <2>1, <2>2
<1>5. Pool!FirstFit(n) \in fits
  <2> HIDE DEF fits
  <2> QED
    BY <1>1, <1>4
<1> QED
  BY <1>5, PoolAssumption DEF Pool!Run, Pool!Frames

\* An entry that is present has a frame of the pool.
LEMMA PresentFrame ==
  ASSUME FrameTypes, NEW p \in Pages
  PROVE  /\ p \in Mapped <=> pte[p] # NoPte
         /\ p \in Mapped => pte[p] \in [frame : Pool!Frames, w : BOOLEAN]
BY DEF FrameTypes, Entries, Mapped

\* Pages that get fresh frames of their own, while the others keep theirs.
LEMMA FramesAdded ==
  ASSUME FrameTypes, FramesNotShared, NEW new \in SUBSET Pages, NEW fr \in [new -> Pool!Frames],
         \A p \in new : fr[p] \notin page_bitmap,
         \A p, q \in new : fr[p] = fr[q] => p = q,
         pte' \in [Pages -> Entries],
         \A p \in new : pte'[p].frame = fr[p],
         \A p \in Pages \ new : pte'[p] = pte[p],
         page_bitmap \subseteq page_bitmap', \A p \in new : fr[p] \in page_bitmap'
  PROVE  FramesNotShared'
<1> SUFFICES ASSUME NEW p \in Pages, pte'[p] # NoPte
             PROVE  /\ pte'[p].frame \in page_bitmap'
                    /\ \A q \in Pages : pte'[q] # NoPte /\ q # p => pte'[p].frame # pte'[q].frame
  BY DEF FramesNotShared, Mapped
<1>1. \A q \in Pages \ new : pte'[q] # NoPte =>
        pte[q].frame \in page_bitmap /\ pte'[q].frame = pte[q].frame
  BY DEF FramesNotShared, Mapped
<1>2. pte'[p].frame \in page_bitmap'
  BY <1>1
<1>3. ASSUME NEW q \in Pages, pte'[q] # NoPte, q # p
      PROVE  pte'[p].frame # pte'[q].frame
  <2>1. CASE p \in new /\ q \in new
    BY <1>3, <2>1
  <2>2. CASE p \in new /\ q \notin new
    BY <1>1, <1>3, <2>2
  <2>3. CASE p \notin new /\ q \in new
    BY <1>1, <2>3
  <2>4. CASE p \notin new /\ q \notin new
    BY <1>3, <2>4 DEF FramesNotShared, Mapped
  <2> QED
    BY <2>1, <2>2, <2>3, <2>4
<1> QED
  BY <1>2, <1>3

\* SYS_MMAP maps a run of free frames, or nothing.
LEMMA MmapStep ==
  ASSUME FrameTypes, FramesNotShared, NEW a \in 0 .. VPAGES, NEW n \in 1 .. MAX_PAGES,
         NEW prot \in Prots, NEW fixed \in BOOLEAN, sys_mmap(a, n, prot, fixed)
  PROVE  FrameTypes' /\ FramesNotShared'
<1> DEFINE at == MmapAt(a, fixed)
           base == Pool!FirstFit(n)
<1>1. at \in Nat /\ n \in Nat
  BY VpagesAssumption, PoolAssumption DEF MmapAt, FrameTypes
<1>2. mmap_curr_base' \in Nat
  BY <1>1 DEF sys_mmap, FrameTypes
<1>3. CASE UNCHANGED <<pte, page_bitmap>>
  BY <1>2, <1>3 DEF FrameTypes, FramesNotShared, Mapped
<1>4. CASE base # Pool!NULL /\ map_user_pages(at, base, n)
           /\ page_bitmap' = page_bitmap \cup Pool!Run(base, n)
  <2>1. /\ base \in Nat /\ Pool!Run(base, n) \subseteq Pool!Frames
        /\ Pool!Run(base, n) \cap page_bitmap = {}
    BY <1>4, FirstFitFree
  <2> HIDE DEF at, base
  <2> DEFINE new == {p \in Pages : p \in at .. at + n - 1}
             fr == [p \in new |-> base + p - at]
  <2>2. \A p \in new : fr[p] \in Pool!Run(base, n)
    BY <1>1, <2>1 DEF Pages, Pool!Run
  <2>3. \A p, q \in new : fr[p] = fr[q] => p = q
    BY <1>1, <2>1 DEF Pages
  <2>4. \A p \in Pages : pte'[p] = IF p \in new THEN [frame |-> fr[p], w |-> TRUE] ELSE pte[p]
    BY <1>4 DEF map_user_pages
  <2>5. fr \in [new -> Pool!Frames]
    BY <2>1, <2>2
  <2>6. DOMAIN pte' = Pages /\ pte' = [p \in Pages |-> pte'[p]]
    BY <1>4 DEF map_user_pages
  <2> HIDE DEF new, fr
  <2>7. pte' \in [Pages -> Entries]
    <3>1. ASSUME NEW p \in Pages PROVE pte'[p] \in Entries
      <4>1. CASE p \in new
        <5>1. pte'[p] = [frame |-> fr[p], w |-> TRUE] /\ fr[p] \in Pool!Frames
          BY <2>4, <2>5, <4>1
        <5> QED
          BY <5>1 DEF Entries
      <4>2. CASE p \notin new
        BY <2>4, <4>2, Zenon DEF FrameTypes
      <4> QED
        BY <4>1, <4>2
    <3> QED
      BY <2>6, <3>1
  <2>8. new \in SUBSET Pages
    BY DEF new
  <2>9. FramesNotShared'
    BY <1>4, <2>1, <2>2, <2>3, <2>4, <2>5, <2>7, <2>8, FramesAdded
  <2> QED
    BY <1>2, <1>4, <2>1, <2>7, <2>9 DEF FrameTypes
<1> QED
  BY <1>3, <1>4 DEF sys_mmap

\* The page fault maps one free frame.
LEMMA FaultStep ==
  ASSUME FrameTypes, FramesNotShared, NEW p \in Pages, NEW write \in BOOLEAN,
         vmm_handle_page_fault(p, write)
  PROVE  FrameTypes' /\ FramesNotShared'
<1> DEFINE f == Pool!FirstFit(1)
           e == [frame |-> f, w |-> vma_find(p).prot = "rw"]
<1>1. 1 \in 1 .. MAX_PAGES
  BY PoolAssumption
<1>2. f \in Pool!Frames /\ f \notin page_bitmap
  BY <1>1, FirstFitFree DEF vmm_handle_page_fault, Pool!Run
<1>3. pte' = [pte EXCEPT ![p] = e] /\ page_bitmap' = page_bitmap \cup {f}
  BY DEF vmm_handle_page_fault
<1>4. UNCHANGED mmap_curr_base
  BY DEF vmm_handle_page_fault
<1>5. e \in Entries /\ e.frame = f
  BY <1>2 DEF Entries
<1> HIDE DEF f, e
<1>6. pte' \in [Pages -> Entries]
  BY <1>3, <1>5 DEF FrameTypes
<1>7. FramesNotShared'
  <2> DEFINE fr == [q \in {p} |-> f]
  <2>1. fr \in [{p} -> Pool!Frames] /\ fr[p] = f
    BY <1>2
  <2>2. pte'[p] = e /\ \A q \in Pages \ {p} : pte'[q] = pte[q]
    BY <1>3 DEF FrameTypes
  <2> HIDE DEF fr
  <2> QED
    BY <1>2, <1>3, <1>5, <1>6, <2>1, <2>2, FramesAdded
<1> QED
  BY <1>2, <1>3, <1>4, <1>6, <1>7 DEF FrameTypes

\* Clearing entries frees their frames and no others.
LEMMA UnmapStep ==
  ASSUME FrameTypes, FramesNotShared, UNCHANGED mmap_curr_base, NEW pages, Unmapped(pages)
  PROVE  FrameTypes' /\ FramesNotShared'
<1>1. \A p \in Pages : pte'[p] = IF p \in pages THEN NoPte ELSE pte[p]
  BY DEF Unmapped
<1>2. pte' \in [Pages -> Entries]
  BY DEF Unmapped, FrameTypes, Entries
<1>3. \A x : x \in page_bitmap' <=>
        x \in page_bitmap /\ \A p \in pages \cap Mapped : x # pte[p].frame
  BY DEF Unmapped
<1>4. FramesNotShared'
  <2> SUFFICES ASSUME NEW p \in Pages, pte'[p] # NoPte
               PROVE  /\ pte'[p].frame \in page_bitmap'
                      /\ \A q \in Pages : pte'[q] # NoPte /\ q # p
                           => pte'[p].frame # pte'[q].frame
    BY DEF FramesNotShared, Mapped
  <2>1. p \notin pages /\ pte'[p] = pte[p] /\ p \in Mapped
    BY <1>1 DEF Mapped
  <2>2. pte[p].frame \in page_bitmap /\ \A q \in Mapped \ {p} : pte[p].frame # pte[q].frame
    BY <2>1 DEF FramesNotShared
  <2>3. pte'[p].frame \in page_bitmap'
    BY <1>3, <2>1, <2>2
  <2>4. \A q \in Pages : pte'[q] # NoPte => q \in Mapped /\ pte'[q] = pte[q]
    BY <1>1 DEF Mapped
  <2> QED
    BY <2>1, <2>2, <2>3, <2>4
<1> QED
  BY <1>2, <1>3, <1>4 DEF FrameTypes

\* Changing the protection of entries leaves their frames alone.
LEMMA ReflagStep ==
  ASSUME FrameTypes, FramesNotShared, UNCHANGED <<mmap_curr_base, page_bitmap>>,
         NEW pages, NEW prot, Reflagged(pages, prot)
  PROVE  FrameTypes' /\ FramesNotShared'
<1>1. ASSUME NEW p \in Pages
      PROVE  /\ pte'[p] \in Entries
             /\ pte'[p] # NoPte => pte[p] # NoPte /\ pte'[p].frame = pte[p].frame
  <2>1. CASE p \in pages \cap Mapped
    <3>1. pte'[p] = [pte[p] EXCEPT !.w = (prot = "rw")]
      BY <2>1 DEF Reflagged
    <3>2. pte[p] \in [frame : Pool!Frames, w : BOOLEAN] /\ pte[p] # NoPte
      BY <2>1, PresentFrame
    <3> QED
      BY <3>1, <3>2, Zenon DEF Entries
  <2>2. CASE p \notin pages \cap Mapped
    <3>1. pte'[p] = pte[p]
      BY <2>2 DEF Reflagged
    <3> QED
      BY <3>1 DEF FrameTypes
  <2> QED
    BY <2>1, <2>2
<1>2. pte' \in [Pages -> Entries]
  BY <1>1 DEF Reflagged
<1>3. FramesNotShared'
  BY <1>1 DEF FramesNotShared, Mapped
<1> QED
  BY <1>2, <1>3 DEF FrameTypes

\* No two pages share a frame and no page has a free one, through mmap, munmap,
\* mprotect and page faults on any ranges, with any number of areas.
THEOREM FramesCorrect == Spec => []FramesNotShared
<1>1. Init => FrameTypes /\ FramesNotShared
  BY DEF Init, FrameTypes, FramesNotShared, Mapped, Entries
<1>2. FrameTypes /\ FramesNotShared /\ [Next]_vars => FrameTypes' /\ FramesNotShared'
  <2> SUFFICES ASSUME FrameTypes, FramesNotShared, [Next]_vars
               PROVE  FrameTypes' /\ FramesNotShared'
    OBVIOUS
  <2>1. ASSUME NEW a, NEW n, sys_munmap(a, n)
        PROVE  FrameTypes' /\ FramesNotShared'
    <3>1. UNCHANGED mmap_curr_base /\ \E pages : Unmapped(pages)
      BY <2>1 DEF sys_munmap
    <3> QED
      BY <3>1, UnmapStep
  <2>2. ASSUME NEW a, NEW n, NEW prot, sys_mprotect(a, n, prot)
        PROVE  FrameTypes' /\ FramesNotShared'
    <3>1. UNCHANGED <<mmap_curr_base, page_bitmap>> /\ \E pages : Reflagged(pages, prot)
      BY <2>2 DEF sys_mprotect
    <3> QED
      BY <3>1, ReflagStep
  <2>3. CASE UNCHANGED vars
    BY <2>3 DEF vars, FrameTypes, FramesNotShared, Mapped
  <2> QED
    BY <2>1, <2>2, <2>3, MmapStep, FaultStep DEF Next
<1> QED
  BY <1>1, <1>2, PTL DEF Spec

=============================================================================
