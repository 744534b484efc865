--------------------------------- MODULE Pmm ---------------------------------
(***************************************************************************)
(* The physical frame allocator of kernel/mm/memory.c: a bitmap of frames, *)
(* scanned from the start for a run of free frames, with a fast path that  *)
(* skips whole words of allocated frames.                                  *)
(*                                                                         *)
(* A frame is its index in the pool.  The kernel calls the allocator with  *)
(* interrupts disabled: an allocation is one step.                         *)
(***************************************************************************)
EXTENDS Integers, FiniteSets

CONSTANTS
  MAX_PAGES,    \* frames of the pool
  WORD,         \* frames of a word of the bitmap (64)
  BOOT_FRAMES   \* frames mm_init takes for the kernel's page tables (6)

ASSUME PagesAssumption == MAX_PAGES \in Nat \ {0}
ASSUME WordAssumption == WORD \in Nat \ {0} /\ MAX_PAGES % WORD = 0
ASSUME BootAssumption == BOOT_FRAMES \in 0 .. MAX_PAGES

Frames == 0 .. MAX_PAGES - 1
NULL == -1

VARIABLES
  page_bitmap,   \* the frames in use
  given          \* the frames the last allocation returned

vars == <<page_bitmap, given>>

Run(i, count) == i .. i + count - 1

\* mm_init clears the bitmap and takes the first frames, one by one, for the
\* page tables of the identity mapping.
Init == page_bitmap = 0 .. BOOT_FRAMES - 1 /\ given = {}

\* What alloc_pages promises: the lowest free run, NULL if there is none.
FirstFit(count) ==
  LET fits == {i \in 0 .. MAX_PAGES - count : Run(i, count) \cap page_bitmap = {}}
  IN  IF fits = {} THEN NULL ELSE CHOOSE i \in fits : \A j \in fits : i <= j

\* Mutant: a word is skipped if one of its frames is in use.
SkipFullWords_Any(from) ==
  LET skip[i \in 0 .. MAX_PAGES] ==
        IF i <= MAX_PAGES - WORD /\ Run(i, WORD) \cap page_bitmap # {}
        THEN skip[i + WORD] ELSE i
  IN  skip[from]

\* The fast path: from a word boundary on, words that are full are skipped.
SkipFullWords(from) ==
  LET skip[i \in 0 .. MAX_PAGES] ==
        IF i <= MAX_PAGES - WORD /\ Run(i, WORD) \subseteq page_bitmap
        THEN skip[i + WORD] ELSE i
  IN  skip[from]

\* The first used frame of a run that is not free.
FirstUsed(i, count) ==
  CHOOSE j \in Run(i, count) \cap page_bitmap :
    \A k \in Run(i, count) \cap page_bitmap : j <= k

\* Mutant: only the first frame of a run is looked at.
Scan_FirstOnly(count) ==
  LET scan[i \in 0 .. MAX_PAGES] ==
        IF i > MAX_PAGES - count THEN NULL ELSE IF i \notin page_bitmap THEN i ELSE scan[i + 1]
  IN  scan[0]

\* The scan of alloc_pages, for 1 <= count <= MAX_PAGES.
Scan(count) ==
  LET scan[i \in 0 .. MAX_PAGES] ==
        LET at == IF i % WORD = 0 /\ count <= WORD /\ i <= MAX_PAGES - count
                  THEN SkipFullWords(i) ELSE i
        IN  IF at > MAX_PAGES - count THEN NULL
            ELSE IF Run(at, count) \cap page_bitmap = {} THEN at
            ELSE scan[FirstUsed(at, count) + 1]
  IN  scan[0]

\* alloc_pages; a count of 0, or a pool without such a run, returns NULL.
alloc_pages(count) ==
  LET base == IF count = 0 THEN NULL ELSE Scan(count)
  IN  /\ given' = IF base = NULL THEN {} ELSE Run(base, count)
      /\ page_bitmap' = page_bitmap \cup given'

\* free_page; frames outside of the pool are ignored.
free_page(frame) ==
  /\ page_bitmap' = IF frame \in Frames THEN page_bitmap \ {frame} ELSE page_bitmap
  /\ given' = {}

Next ==
  \/ \E count \in 0 .. MAX_PAGES : alloc_pages(count)
  \/ \E frame \in -1 .. MAX_PAGES : free_page(frame)

Spec == Init /\ [][Next]_vars

-----------------------------------------------------------------------------
(* Properties.                                                              *)

\* First fit: whatever is in use, the scan with its two kinds of skips finds
\* the lowest free run, and finds one if there is one.
ScanIsFirstFit == \A count \in 1 .. MAX_PAGES : Scan(count) = FirstFit(count)

\* No frame is handed out twice: alloc_pages returns frames that were free,
\* and a frame becomes free only when free_page names it, one at a time (NULL
\* and addresses outside of the pool free nothing).
FramesAccounted ==
  [][/\ given' \cap page_bitmap = {}
     /\ page_bitmap \ page_bitmap' # {} =>
          given' = {} /\ Cardinality(page_bitmap \ page_bitmap') = 1]_vars

=============================================================================
