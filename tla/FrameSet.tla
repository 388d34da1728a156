------------------------------ MODULE FrameSet ------------------------------
(***************************************************************************)
(* What a frame allocator promises: a frame that is handed out belongs to  *)
(* the caller until the caller gives it back, and there is one to hand out *)
(* as long as not all are taken.  A frame is its first address; whether    *)
(* another address inside it gives it back or is refused is left open.     *)
(***************************************************************************)
CONSTANTS Frames,     \* the frames there are
          Addresses,  \* what a caller may pass
          Owner       \* the frame an address lies in: a set of one or none

VARIABLES used,       \* the frames handed out
          result      \* what the last call returned

vars == <<used, result>>

Init == used = {} /\ result = 0

Alloc == IF used = Frames
         THEN result' = 0 /\ UNCHANGED used
         ELSE \E f \in Frames \ used : result' = f /\ used' = used \cup {f}

Dealloc(a) == \/ /\ Owner[a] \cap used # {}
                 /\ result' = 0
                 /\ used' = used \ Owner[a]
              \/ /\ a \notin used
                 /\ result' = 1
                 /\ UNCHANGED used

Next == Alloc \/ \E a \in Addresses : Dealloc(a)

Spec == Init /\ [][Next]_vars
=============================================================================
