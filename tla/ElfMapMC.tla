------------------------------ MODULE ElfMapMC ------------------------------
(***************************************************************************)
(* Files of up to two segments.  Memory: frame 1 the directory, frames 2   *)
(* to 4 the tables, 5 and 6 for the kernel, 7 and 8 the file, 9 the last.  *)
(* Pages 0 to 9 are mapped to themselves, those from 5 on may be asked for.*)
(***************************************************************************)
EXTENDS ElfMap

Seg(offset, vaddr, paddr, filesz, memsz, write) ==
  [load |-> TRUE, offset |-> offset, vaddr |-> vaddr, paddr |-> paddr,
   filesz |-> filesz, memsz |-> memsz, write |-> write]

Text == {Seg(0, 60, 20, 4, 4, FALSE), Seg(0, 60, 24, 3, 3, FALSE)}
Data == {Seg(4, 64, 24, 2, 4, TRUE), Seg(4, 68, 20, 0, 2, TRUE)}
Long == {Seg(1, 60, 20, 5, 7, TRUE), Seg(0, 60, 20, 2, 8, TRUE)}
Note == {[Seg(0, 60, 20, 1, 1, FALSE) EXCEPT !.load = FALSE]}
(* At addresses that are mapped to themselves before: to another frame, to *)
(* the same one, past the file, and from the middle of a page.             *)
Low  == {Seg(0, 20, 24, 4, 4, TRUE), Seg(2, 24, 20, 3, 4, FALSE),
         Seg(0, 20, 20, 2, 4, FALSE), Seg(0, 36, 24, 4, 4, TRUE),
         Seg(0, 22, 20, 2, 4, TRUE)}
(* Too large, and so large that two of them add up to nothing; no table;   *)
(* an odd address; above PADDR_MAX; in its last page but not at the start  *)
(* of it; 1 KiB-aligned addresses.                                         *)
Bad  == {Seg(0, 60, 40, 2, 9, TRUE), Seg(0, 44, 40, 2, 50, TRUE),
         Seg(0, 44, 20, 2, 2, TRUE), Seg(0, 61, 20, 2, 2, TRUE),
         Seg(0, 60, 40, 2, 2, TRUE), Seg(0, 60, 38, 1, 1, TRUE),
         Seg(0, 62, 20, 2, 2, TRUE), Seg(0, 64, 22, 2, 2, TRUE)}

Segs == Text \cup Data \cup Long \cup Low \cup Note \cup Bad

MCImages ==
  {[supported |-> TRUE, entry |-> 60, segments |-> <<s, t>>] : s, t \in Segs}
    \cup {[supported |-> b, entry |-> e, segments |-> <<s>>] :
            b \in BOOLEAN, e \in {0, 60}, s \in Text}
=============================================================================
