------------------------------ MODULE PageMap ------------------------------
(***************************************************************************)
(* What mm/paging.c promises: a map from pages to frames that changes in   *)
(* one place at a time, the page asked for, and in no other way.  There    *)
(* are no tables and no translation cache here; Paging implements this.    *)
(***************************************************************************)
CONSTANTS Pages,    \* the pages that can be mapped
          Entry,    \* what a page can be mapped to: a frame and its rights
          None      \* the entry of a page that is not mapped

VARIABLES map,      \* the entry of each page
          asked     \* the change that is under way, or None

Init == /\ map = [p \in Pages |-> None]
        /\ asked = None

Ask(p, e) == /\ asked = None
             /\ asked' = [page |-> p, entry |-> e]
             /\ UNCHANGED map

Change == /\ asked # None
          /\ map' = [map EXCEPT ![asked.page] = asked.entry]
          /\ asked' = None

Next == \/ \E p \in Pages, e \in Entry \cup {None} : Ask(p, e)
        \/ Change

Spec == Init /\ [][Next]_<<map, asked>>
=============================================================================
