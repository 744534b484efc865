----------------------------- MODULE AddressSpace -----------------------------
(***************************************************************************)
(* What mmap, munmap and mprotect promise: an address space is a function  *)
(* from pages to protections, and a call changes it on the pages of its    *)
(* range and nowhere else.                                                 *)
(***************************************************************************)
CONSTANTS
  Pages,   \* the pages of the window that is looked at
  Prots    \* the protections

NoProt == "unmapped"

VARIABLE view   \* the protection of every page

\* mmap gives every page of a range one protection.
Map(r, prot) == view' = [p \in Pages |-> IF p \in r THEN prot ELSE view[p]]

\* munmap leaves no page of the range.
Unmap(r) == view' = [p \in Pages |-> IF p \in r THEN NoProt ELSE view[p]]

\* mprotect changes the pages of the range that are mapped, and maps none.
Protect(r, prot) ==
  view' = [p \in Pages |-> IF p \in r /\ view[p] # NoProt THEN prot ELSE view[p]]

===============================================================================
