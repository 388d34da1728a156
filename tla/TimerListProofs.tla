-------------------------- MODULE TimerListProofs --------------------------
(***************************************************************************)
(* Theorems about TimerList for every set of timers and every bound on the *)
(* timeouts: type correctness, the safety invariants, and that the linked  *)
(* list implements TimerSet.                                               *)
(*                                                                         *)
(* IInv is inductive.  It adds to the invariants the discipline of the     *)
(* interrupt flag (Sections), what an operation has established so far     *)
(* about its own timer (Operand), that timers outside the list have no     *)
(* pointers into it (Detached), and that the timers a walk has still to    *)
(* visit form a suffix of the list that begins at cur (Walk).              *)
(*                                                                         *)
(* That agreeing pointers could still form a ring apart from the head, or  *)
(* one around it, is excluded by Ordered: the timers have ranks that grow  *)
(* along next.  Following prev from any timer then ends, at the head.      *)
(***************************************************************************)
EXTENDS TimerList, NumberFacts, FiniteSetTheorems, TLAPS

(* The main thread is between cli and the restore of IF. *)
InSection == \/ pc \in {"add_link", "add_mark", "add_sti",
                        "rem_unlink", "rem_mark", "rem_sti",
                        "rst_recheck", "rst_sti"}
             \/ ret = "rst_sti" /\ pc \in {"rst_reload", "add_check", "add_cli"}

Sections == /\ isr => ~intr /\ ~InSection
            /\ InSection => ~intr
            /\ ret = "rst_sti" /\ pc \in {"add_link", "add_mark", "add_sti"}
                 => ~savedAdd
            /\ pc = "rst_check" => ret = "idle"

Operand == /\ pc \in {"add_check", "add_cli", "add_link", "add_mark",
                      "rem_sti", "rem_null", "rst_reload"} => ~inList[tmr]
           /\ pc \in {"add_cli", "add_link", "add_mark"} => counter[tmr] > 0

Detached == \A t \in Timers \ Linked :
              \/ t = tmr /\ pc \in {"rem_mark", "rem_sti", "rem_null"}
              \/ next[t] = NULL /\ prev[t] = NULL

Counting == \A t \in Timers :
              /\ inList[t] \/ t \in Linked => counter[t] > 0
              /\ counter[t] <= initial[t]
              /\ counter[t] + age[t] >= initial[t]
              /\ t \in due => counter[t] + age[t] >= initial[t] + 1

Walk == /\ ~isr => due = {} /\ cur = NULL
        /\ due \subseteq Linked
        /\ cur # NULL => cur \in due /\ prev[cur] \notin due
        /\ \A t \in due : next[t] # NULL => next[t] \in due

(* What the client asked for holds of every timer the running operation is *)
(* not about, and of that one too once the operation has done its work.    *)
Asked == /\ \A t \in Timers :
              t # tmr \/ pc \in {"idle", "add_sti", "rst_sti"}
                => (inList[t] <=> asked[t] = "run" /\ counter[t] # 0)
         /\ pc \in RemPC => asked[tmr] = "stop"
         /\ pc \in AddPC \cup RstPC => asked[tmr] = "run"

(* The links form no ring: some ranks grow along next. *)
Ordered == \E r \in [Timers -> Nat] :
             \A t \in Linked : next[t] # NULL => r[t] < r[next[t]]

(* While nothing has triggered, a timer that is not counted yet is the one *)
(* the walk is at, or stands in the list behind another of its kind.       *)
Behind == isr /\ fired = {} =>
            \A t \in due : t = cur \/ prev[t] \in due

IInv == /\ TypeOK
        /\ Sections
        /\ Operand
        /\ LinksAgree
        /\ Detached
        /\ Counting
        /\ Walk
        /\ Behind
        /\ Ordered
        /\ Asked

-----------------------------------------------------------------------------

(* Types, and in particular the counter of the timer the walk is at. *)
LEMMA TypeStep == IInv /\ [Next]_vars => TypeOK'
<1> SUFFICES ASSUME IInv, [Next]_vars PROVE TypeOK'
  OBVIOUS
<1> USE NullAssumption, TimeoutAssumption
    DEF IInv, TypeOK, AddPC, RemPC, RstPC, Linked, Counting, list, counts,
        frame, tick, Main, Idle
<1>1. CASE IsrEnter
  <2>1. Linked \in SUBSET Timers
    BY DEF Linked
  <2>2. age' \in [Timers -> 0 .. MaxTimeout]
    BY <1>1 DEF IsrEnter
  <2> QED
    BY <1>1, <2>1, <2>2 DEF IsrEnter
<1>2. CASE IsrStep
  <2>1. cur \in Timers /\ counter[cur] > 0
    BY <1>2 DEF IsrStep, Walk
  <2>2. counter' \in [Timers -> 0 .. MaxTimeout]
    BY <1>2, <2>1 DEF IsrStep
  <2>3. /\ head' \in Timers \cup {NULL}
        /\ next' \in [Timers -> Timers \cup {NULL}]
        /\ prev' \in [Timers -> Timers \cup {NULL}]
        /\ inList' \in [Timers -> BOOLEAN]
    <3>1. UnlinkedNext(cur) \in [Timers -> Timers \cup {NULL}]
      BY <2>1 DEF UnlinkedNext
    <3>2. UnlinkedPrev(cur) \in [Timers -> Timers \cup {NULL}]
      BY <2>1 DEF UnlinkedPrev
    <3>3. UnlinkedHead(cur) \in Timers \cup {NULL}
      BY <2>1 DEF UnlinkedHead
    <3> QED
      BY <1>2, <2>1, <3>1, <3>2, <3>3 DEF IsrStep, IsrRemove
  <2>4. /\ cur' \in Timers \cup {NULL}
        /\ due' \in SUBSET Timers
        /\ fired' \in SUBSET Timers
    BY <1>2, <2>1, <2>3 DEF IsrStep
  <2> QED
    BY <1>2, <2>2, <2>3, <2>4 DEF IsrStep
<1>3. CASE IsrReturn
  BY <1>3 DEF IsrReturn
<1>4. ASSUME NEW t \in Timers, NEW n \in 0 .. MaxTimeout,
             Start(t, n)
      PROVE  TypeOK'
  BY <1>4 DEF Start
<1>5. ASSUME NEW t \in Timers, Stop(t)
      PROVE  TypeOK'
  BY <1>5 DEF Stop
<1>6. ASSUME NEW t \in Timers, Resume(t)
      PROVE  TypeOK'
  BY <1>6 DEF Resume
<1>7. ASSUME NEW t \in Timers, Restart(t)
      PROVE  TypeOK'
  BY <1>7 DEF Restart
<1>8. ASSUME NEW b \in BOOLEAN, SetIntr(b)
      PROVE  TypeOK'
  BY <1>8 DEF SetIntr
<1>9. CASE AddCheck
  BY <1>9 DEF AddCheck
<1>10. CASE AddCli
  BY <1>10 DEF AddCli
<1>11. CASE AddLink
  BY <1>11 DEF AddLink
<1>12. CASE AddMark
  BY <1>12 DEF AddMark
<1>13. CASE AddSti
  BY <1>13 DEF AddSti
<1>14. CASE RemCheck
  BY <1>14 DEF RemCheck
<1>15. CASE RemCli
  BY <1>15 DEF RemCli
<1>16. CASE RemUnlink
  BY <1>16 DEF RemUnlink, UnlinkedNext, UnlinkedPrev, UnlinkedHead
<1>17. CASE RemMark
  BY <1>17 DEF RemMark
<1>18. CASE RemSti
  BY <1>18 DEF RemSti
<1>19. CASE RemNull
  BY <1>19 DEF RemNull
<1>20. CASE RstCheck
  BY <1>20 DEF RstCheck
<1>21. CASE RstReload
  BY <1>21 DEF RstReload
<1>22. CASE RstCli
  BY <1>22 DEF RstCli
<1>23. CASE RstRecheck
  BY <1>23 DEF RstRecheck
<1>24. CASE RstSti
  BY <1>24 DEF RstSti
<1>25. CASE UNCHANGED vars
  BY <1>25 DEF vars
<1> QED
  BY <1>1, <1>2, <1>3, <1>4, <1>5, <1>6, <1>7, <1>8, <1>9, <1>10, <1>11,
     <1>12, <1>13, <1>14, <1>15, <1>16, <1>17, <1>18, <1>19, <1>20, <1>21,
     <1>22, <1>23, <1>24, <1>25
  DEF Next, Isr, Begin, Step, Add, Rem, Rst

(* The interrupt flag, and what an operation knows about its own timer. *)
LEMMA SectionStep == IInv /\ [Next]_vars => Sections' /\ Operand'
<1> SUFFICES ASSUME IInv, [Next]_vars PROVE Sections' /\ Operand'
  OBVIOUS
<1> USE NullAssumption, TimeoutAssumption
    DEF IInv, TypeOK, AddPC, RemPC, RstPC, Linked, Sections, Operand, InSection,
        list, counts, frame, tick, Main, Idle
<1>1. CASE IsrEnter
  BY <1>1 DEF IsrEnter
<1>2. CASE IsrStep
  <2>1. cur \in Timers /\ cur \in Linked
    BY <1>2 DEF IsrStep, Walk
  <2>2. inList'[tmr] => inList[tmr]
    BY <1>2, <2>1 DEF IsrStep, IsrRemove
  <2>3. cur # tmr => counter'[tmr] = counter[tmr]
    BY <1>2, <2>1 DEF IsrStep
  <2> QED
    BY <1>2, <2>1, <2>2, <2>3 DEF IsrStep
<1>3. CASE IsrReturn
  BY <1>3 DEF IsrReturn
<1>4. ASSUME NEW t \in Timers, NEW n \in 0 .. MaxTimeout,
             Start(t, n)
      PROVE  Sections' /\ Operand'
  BY <1>4 DEF Start
<1>5. ASSUME NEW t \in Timers, Stop(t)
      PROVE  Sections' /\ Operand'
  BY <1>5 DEF Stop
<1>6. ASSUME NEW t \in Timers, Resume(t)
      PROVE  Sections' /\ Operand'
  BY <1>6 DEF Resume
<1>7. ASSUME NEW t \in Timers, Restart(t)
      PROVE  Sections' /\ Operand'
  BY <1>7 DEF Restart
<1>8. ASSUME NEW b \in BOOLEAN, SetIntr(b)
      PROVE  Sections' /\ Operand'
  BY <1>8 DEF SetIntr
<1>9. CASE AddCheck
  BY <1>9 DEF AddCheck
<1>10. CASE AddCli
  BY <1>10 DEF AddCli
<1>11. CASE AddLink
  BY <1>11 DEF AddLink
<1>12. CASE AddMark
  BY <1>12 DEF AddMark
<1>13. CASE AddSti
  BY <1>13 DEF AddSti
<1>14. CASE RemCheck
  BY <1>14 DEF RemCheck
<1>15. CASE RemCli
  BY <1>15 DEF RemCli
<1>16. CASE RemUnlink
  BY <1>16 DEF RemUnlink, UnlinkedNext, UnlinkedPrev, UnlinkedHead
<1>17. CASE RemMark
  BY <1>17 DEF RemMark
<1>18. CASE RemSti
  BY <1>18 DEF RemSti
<1>19. CASE RemNull
  BY <1>19 DEF RemNull
<1>20. CASE RstCheck
  <2>1. CASE inList[tmr]
    BY <1>20, <2>1 DEF RstCheck
  <2>2. CASE ~inList[tmr]
    BY <1>20, <2>2 DEF RstCheck
  <2> QED
    BY <2>1, <2>2
<1>21. CASE RstReload
  BY <1>21 DEF RstReload
<1>22. CASE RstCli
  BY <1>22 DEF RstCli
<1>23. CASE RstRecheck
  BY <1>23 DEF RstRecheck
<1>24. CASE RstSti
  BY <1>24 DEF RstSti
<1>25. CASE UNCHANGED vars
  BY <1>25 DEF vars
<1> QED
  BY <1>1, <1>2, <1>3, <1>4, <1>5, <1>6, <1>7, <1>8, <1>9, <1>10, <1>11,
     <1>12, <1>13, <1>14, <1>15, <1>16, <1>17, <1>18, <1>19, <1>20, <1>21,
     <1>22, <1>23, <1>24, <1>25
  DEF Next, Isr, Begin, Step, Add, Rem, Rst

(* The pointers; only AddLink and the two removals touch those of others. *)
LEMMA LinkStep == IInv /\ [Next]_vars => LinksAgree' /\ Detached'
<1> SUFFICES ASSUME IInv, [Next]_vars PROVE LinksAgree' /\ Detached'
  OBVIOUS
<1> USE NullAssumption, TimeoutAssumption
    DEF IInv, TypeOK, AddPC, RemPC, RstPC, Linked, Sections, Operand, InSection,
        LinksAgree, Detached, Walk, list, counts, frame, tick, Main, Idle
<1>1. CASE IsrEnter
  BY <1>1 DEF IsrEnter
<1>2. CASE IsrStep
  <2>1. CASE counter[cur] # 1
    BY <1>2, <2>1 DEF IsrStep
  <2>2. CASE counter[cur] = 1
    <3>1. LinksAgree'
      BY <1>2, <2>2 DEF IsrStep, IsrRemove, UnlinkedNext, UnlinkedPrev, UnlinkedHead
    <3>2. Detached'
      BY <1>2, <2>2 DEF IsrStep, IsrRemove, UnlinkedNext, UnlinkedPrev, UnlinkedHead
    <3> QED
      BY <3>1, <3>2
  <2> QED
    BY <2>1, <2>2
<1>3. CASE IsrReturn
  BY <1>3 DEF IsrReturn
<1>4. ASSUME NEW t \in Timers, NEW n \in 0 .. MaxTimeout,
             Start(t, n)
      PROVE  LinksAgree' /\ Detached'
  BY <1>4 DEF Start
<1>5. ASSUME NEW t \in Timers, Stop(t)
      PROVE  LinksAgree' /\ Detached'
  BY <1>5 DEF Stop
<1>6. ASSUME NEW t \in Timers, Resume(t)
      PROVE  LinksAgree' /\ Detached'
  BY <1>6 DEF Resume
<1>7. ASSUME NEW t \in Timers, Restart(t)
      PROVE  LinksAgree' /\ Detached'
  BY <1>7 DEF Restart
<1>8. ASSUME NEW b \in BOOLEAN, SetIntr(b)
      PROVE  LinksAgree' /\ Detached'
  BY <1>8 DEF SetIntr
<1>9. CASE AddCheck
  BY <1>9 DEF AddCheck
<1>10. CASE AddCli
  BY <1>10 DEF AddCli
<1>11. CASE AddLink
  BY <1>11 DEF AddLink
<1>12. CASE AddMark
  BY <1>12 DEF AddMark
<1>13. CASE AddSti
  BY <1>13 DEF AddSti
<1>14. CASE RemCheck
  BY <1>14 DEF RemCheck
<1>15. CASE RemCli
  BY <1>15 DEF RemCli
<1>16. CASE RemUnlink
  BY <1>16 DEF RemUnlink, UnlinkedNext, UnlinkedPrev, UnlinkedHead
<1>17. CASE RemMark
  BY <1>17 DEF RemMark
<1>18. CASE RemSti
  BY <1>18 DEF RemSti
<1>19. CASE RemNull
  <2>1. Linked' = Linked /\ tmr \notin Linked
    BY <1>19 DEF RemNull
  <2>2. \A t \in Timers : t # tmr => next'[t] = next[t] /\ prev'[t] = prev[t]
    BY <1>19 DEF RemNull
  <2>3. next'[tmr] = NULL /\ prev'[tmr] = NULL
    BY <1>19 DEF RemNull
  <2>4. head' = head /\ pc = "rem_null" /\ tmr' = tmr
    BY <1>19 DEF RemNull
  <2>5. Linked \subseteq Timers
    OBVIOUS
  <2> HIDE DEF Linked
  <2>6. LinksAgree'
    BY <2>1, <2>2, <2>4, <2>5
  <2>7. Detached'
    BY <2>1, <2>2, <2>3, <2>4
  <2> QED
    BY <2>6, <2>7
<1>20. CASE RstCheck
  BY <1>20 DEF RstCheck
<1>21. CASE RstReload
  BY <1>21 DEF RstReload
<1>22. CASE RstCli
  BY <1>22 DEF RstCli
<1>23. CASE RstRecheck
  BY <1>23 DEF RstRecheck
<1>24. CASE RstSti
  BY <1>24 DEF RstSti
<1>25. CASE UNCHANGED vars
  BY <1>25 DEF vars
<1> QED
  BY <1>1, <1>2, <1>3, <1>4, <1>5, <1>6, <1>7, <1>8, <1>9, <1>10, <1>11,
     <1>12, <1>13, <1>14, <1>15, <1>16, <1>17, <1>18, <1>19, <1>20, <1>21,
     <1>22, <1>23, <1>24, <1>25
  DEF Next, Isr, Begin, Step, Add, Rem, Rst

(* The counters; IsrStep takes a tick, RstReload and RstRecheck reload. *)
LEMMA CountStep == IInv /\ [Next]_vars => Counting'
<1> SUFFICES ASSUME IInv, [Next]_vars PROVE Counting'
  OBVIOUS
<1> USE NullAssumption, TimeoutAssumption
    DEF IInv, TypeOK, AddPC, RemPC, RstPC, Linked, Sections, Operand, InSection,
        Counting, Walk, list, counts, frame, tick, Main, Idle
<1>1. CASE IsrEnter
  BY <1>1 DEF IsrEnter
<1>2. CASE IsrStep
  BY <1>2 DEF IsrStep, IsrRemove, UnlinkedNext, UnlinkedPrev, UnlinkedHead
<1>3. CASE IsrReturn
  BY <1>3 DEF IsrReturn
<1>4. ASSUME NEW t \in Timers, NEW n \in 0 .. MaxTimeout,
             Start(t, n)
      PROVE  Counting'
  BY <1>4 DEF Start
<1>5. ASSUME NEW t \in Timers, Stop(t)
      PROVE  Counting'
  BY <1>5 DEF Stop
<1>6. ASSUME NEW t \in Timers, Resume(t)
      PROVE  Counting'
  BY <1>6 DEF Resume
<1>7. ASSUME NEW t \in Timers, Restart(t)
      PROVE  Counting'
  BY <1>7 DEF Restart
<1>8. ASSUME NEW b \in BOOLEAN, SetIntr(b)
      PROVE  Counting'
  BY <1>8 DEF SetIntr
<1>9. CASE AddCheck
  BY <1>9 DEF AddCheck
<1>10. CASE AddCli
  BY <1>10 DEF AddCli
<1>11. CASE AddLink
  BY <1>11 DEF AddLink
<1>12. CASE AddMark
  BY <1>12 DEF AddMark
<1>13. CASE AddSti
  BY <1>13 DEF AddSti
<1>14. CASE RemCheck
  BY <1>14 DEF RemCheck
<1>15. CASE RemCli
  BY <1>15 DEF RemCli
<1>16. CASE RemUnlink
  BY <1>16 DEF RemUnlink, UnlinkedNext, UnlinkedPrev, UnlinkedHead
<1>17. CASE RemMark
  BY <1>17 DEF RemMark
<1>18. CASE RemSti
  BY <1>18 DEF RemSti
<1>19. CASE RemNull
  BY <1>19 DEF RemNull
<1>20. CASE RstCheck
  BY <1>20 DEF RstCheck
<1>21. CASE RstReload
  BY <1>21 DEF RstReload
<1>22. CASE RstCli
  BY <1>22 DEF RstCli
<1>23. CASE RstRecheck
  BY <1>23 DEF RstRecheck
<1>24. CASE RstSti
  BY <1>24 DEF RstSti
<1>25. CASE UNCHANGED vars
  BY <1>25 DEF vars
<1> QED
  BY <1>1, <1>2, <1>3, <1>4, <1>5, <1>6, <1>7, <1>8, <1>9, <1>10, <1>11,
     <1>12, <1>13, <1>14, <1>15, <1>16, <1>17, <1>18, <1>19, <1>20, <1>21,
     <1>22, <1>23, <1>24, <1>25
  DEF Next, Isr, Begin, Step, Add, Rem, Rst

(* The walk of timer_list_update: the main thread stands still meanwhile. *)
LEMMA WalkStep == IInv /\ [Next]_vars => Walk'
<1> SUFFICES ASSUME IInv, [Next]_vars PROVE Walk'
  OBVIOUS
<1> USE NullAssumption, TimeoutAssumption
    DEF IInv, TypeOK, AddPC, RemPC, RstPC, Linked, Sections, Operand, InSection,
        LinksAgree, Walk, list, counts, frame, tick, Main, Idle
<1>1. CASE IsrEnter
  BY <1>1 DEF IsrEnter
<1>2. CASE IsrStep
  BY <1>2 DEF IsrStep, IsrRemove, UnlinkedNext, UnlinkedPrev, UnlinkedHead
<1>3. CASE IsrReturn
  BY <1>3 DEF IsrReturn
<1>4. ASSUME NEW t \in Timers, NEW n \in 0 .. MaxTimeout,
             Start(t, n)
      PROVE  Walk'
  BY <1>4 DEF Start
<1>5. ASSUME NEW t \in Timers, Stop(t)
      PROVE  Walk'
  BY <1>5 DEF Stop
<1>6. ASSUME NEW t \in Timers, Resume(t)
      PROVE  Walk'
  BY <1>6 DEF Resume
<1>7. ASSUME NEW t \in Timers, Restart(t)
      PROVE  Walk'
  BY <1>7 DEF Restart
<1>8. ASSUME NEW b \in BOOLEAN, SetIntr(b)
      PROVE  Walk'
  BY <1>8 DEF SetIntr
<1>9. CASE AddCheck
  BY <1>9 DEF AddCheck
<1>10. CASE AddCli
  BY <1>10 DEF AddCli
<1>11. CASE AddLink
  BY <1>11 DEF AddLink
<1>12. CASE AddMark
  BY <1>12 DEF AddMark
<1>13. CASE AddSti
  BY <1>13 DEF AddSti
<1>14. CASE RemCheck
  BY <1>14 DEF RemCheck
<1>15. CASE RemCli
  BY <1>15 DEF RemCli
<1>16. CASE RemUnlink
  BY <1>16 DEF RemUnlink, UnlinkedNext, UnlinkedPrev, UnlinkedHead
<1>17. CASE RemMark
  BY <1>17 DEF RemMark
<1>18. CASE RemSti
  BY <1>18 DEF RemSti
<1>19. CASE RemNull
  BY <1>19 DEF RemNull
<1>20. CASE RstCheck
  BY <1>20 DEF RstCheck
<1>21. CASE RstReload
  BY <1>21 DEF RstReload
<1>22. CASE RstCli
  BY <1>22 DEF RstCli
<1>23. CASE RstRecheck
  BY <1>23 DEF RstRecheck
<1>24. CASE RstSti
  BY <1>24 DEF RstSti
<1>25. CASE UNCHANGED vars
  BY <1>25 DEF vars
<1> QED
  BY <1>1, <1>2, <1>3, <1>4, <1>5, <1>6, <1>7, <1>8, <1>9, <1>10, <1>11,
     <1>12, <1>13, <1>14, <1>15, <1>16, <1>17, <1>18, <1>19, <1>20, <1>21,
     <1>22, <1>23, <1>24, <1>25
  DEF Next, Isr, Begin, Step, Add, Rem, Rst

(* The walk goes from head along next, so behind it lies what it has met. *)
LEMMA BehindStep == IInv /\ [Next]_vars => Behind'
<1> SUFFICES ASSUME IInv, [Next]_vars PROVE Behind'
  OBVIOUS
<1> USE NullAssumption, TimeoutAssumption
    DEF IInv, TypeOK, AddPC, RemPC, RstPC, Linked, Sections, Operand, InSection,
        LinksAgree, Walk, Behind, list, counts, frame, tick, Main, Idle
<1>1. CASE IsrEnter
  BY <1>1 DEF IsrEnter
<1>2. CASE IsrStep
  BY <1>2 DEF IsrStep, IsrRemove, UnlinkedNext, UnlinkedPrev, UnlinkedHead
<1>3. CASE IsrReturn
  BY <1>3 DEF IsrReturn
<1>4. ASSUME NEW t \in Timers, NEW n \in 0 .. MaxTimeout,
             Start(t, n)
      PROVE  Behind'
  BY <1>4 DEF Start
<1>5. ASSUME NEW t \in Timers, Stop(t)
      PROVE  Behind'
  BY <1>5 DEF Stop
<1>6. ASSUME NEW t \in Timers, Resume(t)
      PROVE  Behind'
  BY <1>6 DEF Resume
<1>7. ASSUME NEW t \in Timers, Restart(t)
      PROVE  Behind'
  BY <1>7 DEF Restart
<1>8. ASSUME NEW b \in BOOLEAN, SetIntr(b)
      PROVE  Behind'
  BY <1>8 DEF SetIntr
<1>9. CASE AddCheck
  BY <1>9 DEF AddCheck
<1>10. CASE AddCli
  BY <1>10 DEF AddCli
<1>11. CASE AddLink
  BY <1>11 DEF AddLink
<1>12. CASE AddMark
  BY <1>12 DEF AddMark
<1>13. CASE AddSti
  BY <1>13 DEF AddSti
<1>14. CASE RemCheck
  BY <1>14 DEF RemCheck
<1>15. CASE RemCli
  BY <1>15 DEF RemCli
<1>16. CASE RemUnlink
  BY <1>16 DEF RemUnlink, UnlinkedNext, UnlinkedPrev, UnlinkedHead
<1>17. CASE RemMark
  BY <1>17 DEF RemMark
<1>18. CASE RemSti
  BY <1>18 DEF RemSti
<1>19. CASE RemNull
  BY <1>19 DEF RemNull
<1>20. CASE RstCheck
  BY <1>20 DEF RstCheck
<1>21. CASE RstReload
  BY <1>21 DEF RstReload
<1>22. CASE RstCli
  BY <1>22 DEF RstCli
<1>23. CASE RstRecheck
  BY <1>23 DEF RstRecheck
<1>24. CASE RstSti
  BY <1>24 DEF RstSti
<1>25. CASE UNCHANGED vars
  BY <1>25 DEF vars
<1> QED
  BY <1>1, <1>2, <1>3, <1>4, <1>5, <1>6, <1>7, <1>8, <1>9, <1>10, <1>11,
     <1>12, <1>13, <1>14, <1>15, <1>16, <1>17, <1>18, <1>19, <1>20, <1>21,
     <1>22, <1>23, <1>24, <1>25
  DEF Next, Isr, Begin, Step, Add, Rem, Rst

(* Ranks before a step give ranks after it: the same ones, unless a timer   *)
(* becomes the head.                                                       *)
LEMMA OrderStep == IInv /\ [Next]_vars => Ordered'
<1> SUFFICES ASSUME IInv, [Next]_vars PROVE Ordered'
  OBVIOUS
<1> USE NullAssumption
    DEF IInv, TypeOK, AddPC, RemPC, RstPC, list, counts, frame, tick, Main, Idle
<1>0. PICK r \in [Timers -> Nat] :
             \A t \in Linked : next[t] # NULL => r[t] < r[next[t]]
  BY DEF Ordered
<1> DEFINE Kept == \A t \in Linked' : next'[t] # NULL => r[t] < r[next'[t]]
<1>a. Kept => Ordered'
  BY DEF Ordered
<1>b. Linked \subseteq Timers /\ Linked' \subseteq Timers
  BY DEF Linked
<1>c. ASSUME next' = next, Linked' \subseteq Linked PROVE Kept
  BY <1>0, <1>c
<1>d. ASSUME NEW u \in Linked, next' = UnlinkedNext(u) \/
                 next' = [UnlinkedNext(u) EXCEPT ![u] = NULL],
             Linked' = Linked \ {u}
      PROVE  Kept
  <2>1. SUFFICES ASSUME NEW t \in Linked, t # u, next'[t] # NULL
                 PROVE  r[t] < r[next'[t]]
    BY <1>d
  <2>2. next'[t] = UnlinkedNext(u)[t]
    <3>1. UnlinkedNext(u) \in [Timers -> Timers \cup {NULL}]
      BY <1>b DEF UnlinkedNext
    <3> QED
      BY <1>b, <1>d, <2>1, <3>1
  <2>3. CASE next[t] = u
    <3>1. prev[u] = t /\ t # NULL
      BY <1>b, <2>1, <2>3 DEF LinksAgree
    <3>2. next'[t] = next[u]
      BY <1>b, <2>1, <2>2, <3>1 DEF UnlinkedNext
    <3>3. r[t] < r[u] /\ r[u] < r[next[u]]
      BY <1>0, <1>b, <2>1, <2>3, <3>2
    <3>4. next[u] \in Timers
      BY <1>b, <2>1, <3>2
    <3> QED
      BY <1>b, <3>2, <3>3, <3>4
  <2>4. CASE next[t] # u
    <3>1. prev[u] # t
      BY <1>b, <2>4 DEF LinksAgree
    <3>2. next'[t] = next[t]
      BY <1>b, <2>1, <2>2, <3>1 DEF UnlinkedNext
    <3> QED
      BY <1>0, <2>1, <3>2
  <2> QED
    BY <2>3, <2>4
<1>1. CASE IsrEnter
  <2>1. next' = next /\ Linked' = Linked
    BY <1>1 DEF IsrEnter, Linked
  <2> QED
    BY <1>a, <1>c, <2>1
<1>2. CASE IsrStep
  <2>1. /\ cur \in Timers /\ cur \in Linked /\ inList[cur]
        /\ pc \notin {"add_mark", "rem_mark"} /\ pc' = pc
    BY <1>2 DEF IsrStep, Walk, Sections, InSection, Linked
  <2>2. CASE counter[cur] = 1
    <3>1. /\ next' = [UnlinkedNext(cur) EXCEPT ![cur] = NULL]
          /\ inList' = [inList EXCEPT ![cur] = FALSE]
      BY <1>2, <2>1, <2>2 DEF IsrStep, IsrRemove
    <3>2. Linked' = Linked \ {cur}
      BY <2>1, <3>1 DEF Linked
    <3> QED
      BY <1>a, <1>d, <2>1, <3>1, <3>2
  <2>3. CASE counter[cur] # 1
    <3>1. next' = next /\ Linked' = Linked
      BY <1>2, <2>1, <2>3 DEF IsrStep, Linked
    <3> QED
      BY <1>a, <1>c, <3>1
  <2> QED
    BY <2>2, <2>3
<1>4. ASSUME NEW t \in Timers, NEW n \in 0 .. MaxTimeout, Start(t, n)
      PROVE  Ordered'
  <2>1. Linked' = Linked /\ next' = [next EXCEPT ![t] = NULL]
    BY <1>4 DEF Start, Linked
  <2>2. Kept
    BY <1>0, <1>b, <2>1
  <2> QED
    BY <1>a, <2>2
<1>11. CASE AddLink
  <2>1. /\ tmr \in Timers /\ tmr \notin Linked /\ Linked' = Linked \cup {tmr}
        /\ next' = [next EXCEPT ![tmr] = head]
    BY <1>11 DEF AddLink, Linked, Operand
  <2> DEFINE s == [t \in Timers |-> IF t = tmr THEN 0 ELSE r[t] + 1]
  <2>2. s \in [Timers -> Nat]
    OBVIOUS
  <2>3. ASSUME NEW t \in Linked', next'[t] # NULL
        PROVE  s[t] < s[next'[t]]
    <3>1. CASE t = tmr
      <4>1. next'[t] = head /\ head \in Linked
        BY <2>1, <2>3, <3>1 DEF LinksAgree
      <4>2. head \in Timers /\ head # tmr
        BY <1>b, <2>1, <4>1
      <4> QED
        BY <2>1, <3>1, <4>1, <4>2
    <3>2. CASE t # tmr
      <4>1. t \in Linked /\ t \in Timers /\ next'[t] = next[t]
        BY <1>b, <2>1, <3>2
      <4>2. next[t] \in Linked /\ next[t] \in Timers /\ next[t] # tmr
        BY <1>b, <2>1, <2>3, <4>1 DEF LinksAgree
      <4>3. r[t] < r[next[t]]
        BY <1>0, <2>3, <4>1
      <4> QED
        BY <3>2, <4>1, <4>2, <4>3
    <3> QED
      BY <3>1, <3>2
  <2> QED
    BY <2>2, <2>3 DEF Ordered
<1>12. CASE AddMark
  <2>1. next' = next /\ Linked' = Linked
    BY <1>12 DEF AddMark, Linked
  <2> QED
    BY <1>a, <1>c, <2>1
<1>16. CASE RemUnlink
  <2>1. next' = UnlinkedNext(tmr) /\ Linked' = Linked \ {tmr}
    BY <1>16 DEF RemUnlink, Linked
  <2>2. tmr \in Linked \/ next' = next
    BY <1>16, <2>1 DEF RemUnlink, UnlinkedNext, Detached
  <2> QED
    BY <1>a, <1>c, <1>d, <2>1, <2>2
<1>17. CASE RemMark
  <2>1. next' = next /\ Linked' = Linked
    BY <1>17 DEF RemMark, Linked
  <2> QED
    BY <1>a, <1>c, <2>1
<1>19. CASE RemNull
  <2>1. Linked' = Linked /\ next' = [next EXCEPT ![tmr] = NULL]
    BY <1>19 DEF RemNull, Linked
  <2>2. Kept
    BY <1>0, <1>b, <2>1
  <2> QED
    BY <1>a, <2>2
(* The other steps leave the links alone. *)
<1>3. ASSUME next' = next, inList' = inList, pc' # "add_mark", pc' # "rem_mark",
             pc # "add_mark", pc # "rem_mark"
      PROVE  Ordered'
  <2>1. Linked' = Linked
    BY <1>3 DEF Linked
  <2> QED
    BY <1>a, <1>c, <1>3, <2>1
<1>5. CASE IsrReturn
  <2>1. next' = next /\ Linked' = Linked
    BY <1>5 DEF IsrReturn, Linked
  <2> QED
    BY <1>a, <1>c, <2>1
<1>6. ASSUME NEW t \in Timers, Stop(t) \/ Resume(t) \/ Restart(t)
      PROVE  Ordered'
  BY <1>3, <1>6 DEF Stop, Resume, Restart
<1>8. ASSUME NEW b \in BOOLEAN, SetIntr(b) PROVE Ordered'
  BY <1>3, <1>8 DEF SetIntr
<1>9. CASE AddCheck \/ AddCli
  BY <1>3, <1>9 DEF AddCheck, AddCli
<1>13. CASE AddSti
  BY <1>3, <1>13 DEF AddSti
<1>14. CASE RemCheck \/ RemCli
  BY <1>3, <1>14 DEF RemCheck, RemCli
<1>18. CASE RemSti
  BY <1>3, <1>18 DEF RemSti
<1>20. CASE RstCheck \/ RstReload \/ RstCli
  BY <1>3, <1>20 DEF RstCheck, RstReload, RstCli
<1>23. CASE RstRecheck \/ RstSti
  BY <1>3, <1>23 DEF RstRecheck, RstSti
<1>25. CASE UNCHANGED vars
  <2>1. next' = next /\ Linked' = Linked
    BY <1>25 DEF vars, Linked
  <2> QED
    BY <1>a, <1>c, <2>1
<1> QED
  BY <1>1, <1>2, <1>4, <1>5, <1>6, <1>8, <1>9, <1>11, <1>12, <1>13, <1>14,
     <1>16, <1>17, <1>18, <1>19, <1>20, <1>23, <1>25
  DEF Next, Isr, Begin, Step, Add, Rem, Rst

(* What the client asked for and what the list holds. *)
LEMMA AskedStep == IInv /\ [Next]_vars => Asked'
<1> SUFFICES ASSUME IInv, [Next]_vars PROVE Asked'
  OBVIOUS
<1> USE NullAssumption, TimeoutAssumption
    DEF IInv, TypeOK, AddPC, RemPC, RstPC, Linked, Sections, Operand, InSection,
        Counting, Walk, Asked, list, counts, frame, tick, Main, Idle
<1>1. CASE IsrEnter
  BY <1>1 DEF IsrEnter
<1>2. CASE IsrStep
  <2>1. cur \in Timers /\ cur \in Linked /\ counter[cur] > 0
    BY <1>2 DEF IsrStep, Walk
  <2>2. inList[cur]
    BY <1>2, <2>1 DEF IsrStep
  <2>3. \A t \in Timers : t # cur => inList'[t] = inList[t] /\ counter'[t] = counter[t]
    BY <1>2, <2>1 DEF IsrStep, IsrRemove
  <2>4. IF counter[cur] = 1 THEN ~inList'[cur] /\ counter'[cur] = 0
        ELSE inList'[cur] /\ counter'[cur] # 0
    BY <1>2, <2>1, <2>2 DEF IsrStep, IsrRemove
  <2>5. /\ pc' = pc /\ tmr' = tmr /\ asked' = asked
        /\ pc \notin {"add_mark", "rem_mark"}
    BY <1>2 DEF IsrStep
  <2>6. ASSUME NEW t \in Timers,
               t # tmr \/ pc \in {"idle", "add_sti", "rst_sti"}
        PROVE  inList'[t] <=> asked[t] = "run" /\ counter'[t] # 0
    <3>1. inList[t] <=> asked[t] = "run" /\ counter[t] # 0
      BY <2>6
    <3>2. CASE t = cur
      BY <2>1, <2>2, <2>4, <3>1, <3>2
    <3>3. CASE t # cur
      BY <2>3, <3>1, <3>3
    <3> QED
      BY <3>2, <3>3
  <2> QED
    BY <2>5, <2>6
<1>3. CASE IsrReturn
  BY <1>3 DEF IsrReturn
<1>4. ASSUME NEW t \in Timers, NEW n \in 0 .. MaxTimeout,
             Start(t, n)
      PROVE  Asked'
  BY <1>4 DEF Start
<1>5. ASSUME NEW t \in Timers, Stop(t)
      PROVE  Asked'
  BY <1>5 DEF Stop
<1>6. ASSUME NEW t \in Timers, Resume(t)
      PROVE  Asked'
  BY <1>6 DEF Resume
<1>7. ASSUME NEW t \in Timers, Restart(t)
      PROVE  Asked'
  BY <1>7 DEF Restart
<1>8. ASSUME NEW b \in BOOLEAN, SetIntr(b)
      PROVE  Asked'
  BY <1>8 DEF SetIntr
<1>9. CASE AddCheck
  BY <1>9 DEF AddCheck
<1>10. CASE AddCli
  BY <1>10 DEF AddCli
<1>11. CASE AddLink
  BY <1>11 DEF AddLink
<1>12. CASE AddMark
  BY <1>12 DEF AddMark
<1>13. CASE AddSti
  BY <1>13 DEF AddSti
<1>14. CASE RemCheck
  BY <1>14 DEF RemCheck
<1>15. CASE RemCli
  BY <1>15 DEF RemCli
<1>16. CASE RemUnlink
  BY <1>16 DEF RemUnlink, UnlinkedNext, UnlinkedPrev, UnlinkedHead
<1>17. CASE RemMark
  BY <1>17 DEF RemMark
<1>18. CASE RemSti
  BY <1>18 DEF RemSti
<1>19. CASE RemNull
  BY <1>19 DEF RemNull
<1>20. CASE RstCheck
  BY <1>20 DEF RstCheck
<1>21. CASE RstReload
  BY <1>21 DEF RstReload
<1>22. CASE RstCli
  BY <1>22 DEF RstCli
<1>23. CASE RstRecheck
  BY <1>23 DEF RstRecheck
<1>24. CASE RstSti
  BY <1>24 DEF RstSti
<1>25. CASE UNCHANGED vars
  BY <1>25, SMTT(30) DEF vars
<1> QED
  BY <1>1, <1>2, <1>3, <1>4, <1>5, <1>6, <1>7, <1>8, <1>9, <1>10, <1>11,
     <1>12, <1>13, <1>14, <1>15, <1>16, <1>17, <1>18, <1>19, <1>20, <1>21,
     <1>22, <1>23, <1>24, <1>25
  DEF Next, Isr, Begin, Step, Add, Rem, Rst

(* Every step is one step of TimerSet or none. *)
LEMMA RefinementStep == IInv /\ [Next]_vars => [TS!Next]_TS!svars
<1> SUFFICES ASSUME IInv, [Next]_vars PROVE [TS!Next]_TS!svars
  OBVIOUS
<1> USE NullAssumption, TimeoutAssumption
    DEF IInv, TypeOK, AddPC, RemPC, RstPC, Linked, Operand, Counting, Walk,
        TS!Next, TS!svars, TS!Load, TS!Reload, TS!Run, TS!Stop, TS!Count,
        list, counts, frame, tick, Main, Idle
<1>1. CASE IsrEnter
  BY <1>1 DEF IsrEnter
<1>2. CASE IsrStep
  <2>1. /\ cur \in Timers /\ cur \in Linked /\ counter[cur] > 0
        /\ inList[cur] /\ pc \notin {"add_mark", "rem_mark"}
    BY <1>2 DEF IsrStep, Walk, Sections, InSection
  <2>2. initial' = initial /\ counter' = [counter EXCEPT ![cur] = @ - 1]
    BY <1>2 DEF IsrStep
  <2>3. Linked' = IF counter[cur] = 1 THEN Linked \ {cur} ELSE Linked
    <3>1. CASE counter[cur] = 1
      BY <1>2, <2>1, <3>1 DEF IsrStep, IsrRemove
    <3>2. CASE counter[cur] # 1
      BY <1>2, <2>1, <3>2 DEF IsrStep
    <3> QED
      BY <3>1, <3>2
  <2> HIDE DEF Linked
  <2>4. TS!Count(cur)
    BY <2>1, <2>2, <2>3
  <2> QED
    BY <2>1, <2>4
<1>3. CASE IsrReturn
  BY <1>3 DEF IsrReturn
<1>4. ASSUME NEW t \in Timers, NEW n \in 0 .. MaxTimeout,
             Start(t, n)
      PROVE  [TS!Next]_TS!svars
  BY <1>4 DEF Start
<1>5. ASSUME NEW t \in Timers, Stop(t)
      PROVE  [TS!Next]_TS!svars
  BY <1>5 DEF Stop
<1>6. ASSUME NEW t \in Timers, Resume(t)
      PROVE  [TS!Next]_TS!svars
  BY <1>6 DEF Resume
<1>7. ASSUME NEW t \in Timers, Restart(t)
      PROVE  [TS!Next]_TS!svars
  BY <1>7 DEF Restart
<1>8. ASSUME NEW b \in BOOLEAN, SetIntr(b)
      PROVE  [TS!Next]_TS!svars
  BY <1>8 DEF SetIntr
<1>9. CASE AddCheck
  BY <1>9 DEF AddCheck
<1>10. CASE AddCli
  BY <1>10 DEF AddCli
<1>11. CASE AddLink
  BY <1>11 DEF AddLink
<1>12. CASE AddMark
  BY <1>12 DEF AddMark
<1>13. CASE AddSti
  BY <1>13 DEF AddSti
<1>14. CASE RemCheck
  BY <1>14 DEF RemCheck
<1>15. CASE RemCli
  BY <1>15 DEF RemCli
<1>16. CASE RemUnlink
  BY <1>16 DEF RemUnlink, UnlinkedNext, UnlinkedPrev, UnlinkedHead
<1>17. CASE RemMark
  BY <1>17 DEF RemMark
<1>18. CASE RemSti
  BY <1>18 DEF RemSti
<1>19. CASE RemNull
  BY <1>19 DEF RemNull
<1>20. CASE RstCheck
  BY <1>20 DEF RstCheck
<1>21. CASE RstReload
  BY <1>21 DEF RstReload
<1>22. CASE RstCli
  BY <1>22 DEF RstCli
<1>23. CASE RstRecheck
  BY <1>23 DEF RstRecheck
<1>24. CASE RstSti
  BY <1>24 DEF RstSti
<1>25. CASE UNCHANGED vars
  BY <1>25 DEF vars
<1> QED
  BY <1>1, <1>2, <1>3, <1>4, <1>5, <1>6, <1>7, <1>8, <1>9, <1>10, <1>11,
     <1>12, <1>13, <1>14, <1>15, <1>16, <1>17, <1>18, <1>19, <1>20, <1>21,
     <1>22, <1>23, <1>24, <1>25
  DEF Next, Isr, Begin, Step, Add, Rem, Rst

(* The initial states satisfy the inductive invariant. *)
LEMMA InitInv == Init => IInv
<1> SUFFICES ASSUME Init PROVE IInv
  OBVIOUS
<1> USE NullAssumption, TimeoutAssumption
<1>1. Linked = {}
  BY DEF Init, Linked
<1>2. TypeOK
  <2>1. 0 \in 0 .. MaxTimeout /\ "idle" \in {"idle"} \cup AddPC \cup RemPC \cup RstPC
    OBVIOUS
  <2> QED
    BY <2>1 DEF Init, TypeOK
<1>3. Sections /\ Operand
  BY DEF Init, Sections, InSection, Operand
<1>4. LinksAgree /\ Detached /\ Walk
  BY <1>1 DEF Init, LinksAgree, Detached, Walk
<1>5. Counting /\ Asked
  BY <1>1 DEF Init, Counting, Asked, AddPC, RemPC, RstPC
<1>6. Behind /\ Ordered
  <2>1. [t \in Timers |-> 0] \in [Timers -> Nat]
    OBVIOUS
  <2> QED
    BY <1>1, <2>1 DEF Init, Behind, Ordered
<1> QED
  BY <1>2, <1>3, <1>4, <1>5, <1>6 DEF IInv

(* IInv is inductive: it holds in every state of the specification. *)
THEOREM Invariance == Spec => []IInv
<1>1. IInv /\ [Next]_vars => IInv'
  BY TypeStep, SectionStep, LinkStep, CountStep, WalkStep, BehindStep,
     OrderStep, AskedStep
  DEF IInv
<1> QED
  BY <1>1, InitInv, PTL DEF Spec

(* Every variable keeps its type; in particular no timer_t.counter wraps   *)
(* around below zero in timer_list_update.                                 *)
THEOREM TypeCorrectness == Spec => []TypeOK
<1>1. IInv => TypeOK
  BY DEF IInv
<1> QED
  BY <1>1, Invariance, PTL

(* The pointers of the timer list agree, whatever the interrupts do.       *)
THEOREM ListIntegrity == Spec => []LinksAgree
<1>1. IInv => LinksAgree
  BY DEF IInv
<1> QED
  BY <1>1, Invariance, PTL

(* A timer in the list has not triggered, as timer.c states.               *)
THEOREM ListedHasNotTriggered == Spec => []TriggeredNotListed
<1>1. IInv => TriggeredNotListed
  BY DEF IInv, Counting, TriggeredNotListed
<1> QED
  BY <1>1, Invariance, PTL

(* No timer triggers before its timeout.                                   *)
THEOREM NoEarlyTrigger == Spec => []NeverEarly
<1>1. IInv => NeverEarly
  BY DEF IInv, Counting, NeverEarly
<1> QED
  BY <1>1, Invariance, PTL

(* A tick counts no timer twice.                                           *)
THEOREM WalkCountsOnce == Spec => []WalkVisitsOnce
<1>1. IInv => WalkVisitsOnce
  BY DEF IInv, Walk, WalkVisitsOnce
<1> QED
  BY <1>1, Invariance, PTL

(* Between calls the list holds what the client asked to run.              *)
THEOREM ListHoldsAsked == Spec => []ListedAsAsked
<1>1. IInv => ListedAsAsked
  BY DEF IInv, Asked, ListedAsAsked
<1> QED
  BY <1>1, Invariance, PTL

(* The walk of timer_list_update skips a timer only behind one that has    *)
(* triggered: of the timers it has not counted, the one with the least     *)
(* rank has no other of them before it.                                    *)
THEOREM SkipSafe == Spec => []SkipOnlyBehindTrigger
<1>1. IInv => SkipOnlyBehindTrigger
  <2> SUFFICES ASSUME IInv, isr, cur = NULL, due # {}, fired = {} PROVE FALSE
    BY DEF SkipOnlyBehindTrigger
  <2>1. due \subseteq Linked /\ due \subseteq Timers
    BY DEF IInv, Walk, TypeOK
  <2>2. \A t \in due : prev[t] \in due /\ next[prev[t]] = t
    <3>1. TAKE t \in due
    <3>2. t # NULL /\ prev[t] \in due
      BY <2>1, NullAssumption DEF IInv, Behind
    <3>3. prev[t] # NULL
      BY <2>1, <3>2, NullAssumption
    <3> QED
      BY <2>1, <3>2, <3>3 DEF IInv, LinksAgree
  <2>3. PICK r \in [Timers -> Nat] :
               \A t \in Linked : next[t] # NULL => r[t] < r[next[t]]
    BY DEF IInv, Ordered
  <2> DEFINE T == {r[t] : t \in due}
  <2>4. T \in SUBSET Nat /\ T # {}
    BY <2>1
  <2>5. PICK m \in T : \A k \in T : m <= k
    <3> HIDE DEF T
    <3> QED
      BY <2>4, LeastNumber
  <2>6. PICK t \in due : m = r[t]
    OBVIOUS
  <2>7. r[prev[t]] < r[t]
    BY <2>1, <2>2, <2>3, NullAssumption
  <2>8. r[t] <= r[prev[t]]
    BY <2>2, <2>5, <2>6
  <2> QED
    BY <2>1, <2>2, <2>3, <2>7, <2>8
<1> QED
  BY <1>1, Invariance, PTL

-----------------------------------------------------------------------------
(* Chain is what its definition says: following next from head.            *)
LEMMA ChainIs ==
  ASSUME TypeOK
  PROVE  /\ Chain \in [Nat -> Timers \cup {NULL}]
         /\ Chain[0] = head
         /\ \A k \in Nat : Chain[k + 1] = IF Chain[k] = NULL THEN NULL
                                          ELSE next[Chain[k]]
<1> DEFINE S == Timers \cup {NULL}
           G == [k \in Nat |-> [x \in S |-> IF x = NULL THEN NULL ELSE next[x]]]
           C(g) == g = [k \in Nat |-> IF k = 0 THEN head
                                      ELSE IF g[k - 1] = NULL THEN NULL
                                      ELSE next[g[k - 1]]]
<1>1. head \in S /\ G \in [Nat -> [S -> S]]
  BY DEF TypeOK
<1>2. PICK f \in [Nat -> S] : StepsBy(f, head, G)
  <2> HIDE DEF S, G
  <2> QED
    BY <1>1, Recursion
<1>3. f[0] = head /\ \A k \in Nat : f[k + 1] = G[k][f[k]]
  BY <1>2 DEF StepsBy
<1>4. \A k \in Nat : f[k + 1] = IF f[k] = NULL THEN NULL ELSE next[f[k]]
  BY <1>2, <1>3, SMTT(30)
<1>5. C(f)
  <2> DEFINE b == [k \in Nat |-> IF k = 0 THEN head
                                 ELSE IF f[k - 1] = NULL THEN NULL
                                 ELSE next[f[k - 1]]]
  <2>1. ASSUME NEW k \in Nat PROVE f[k] = b[k]
    <3>1. CASE k = 0
      BY <1>3, <3>1
    <3>2. CASE k # 0
      <4>1. k - 1 \in Nat /\ (k - 1) + 1 = k
        BY <3>2
      <4>2. f[(k - 1) + 1] = IF f[k - 1] = NULL THEN NULL ELSE next[f[k - 1]]
        BY <1>4, <4>1
      <4> QED
        BY <3>2, <4>1, <4>2
    <3> QED
      BY <3>1, <3>2
  <2>2. b = [k \in Nat |-> b[k]] /\ f = [k \in Nat |-> f[k]]
    BY <1>2
  <2> HIDE DEF b
  <2>3. f = b
    BY <2>1, <2>2
  <2> QED
    BY <2>3 DEF b
<1>6. C(Chain)
  <2>1. \E g : C(g)
    BY <1>5
  <2>2. C(CHOOSE g : C(g))
    <3> HIDE DEF C
    <3> QED
      BY <2>1
  <2> QED
    BY <2>2 DEF Chain
<1>7. Chain[0] = head
  BY <1>6
<1>8. \A k \in Nat : Chain[k + 1] = IF Chain[k] = NULL THEN NULL
                                    ELSE next[Chain[k]]
  <2> TAKE k \in Nat
  <2> DEFINE body(g, i) == IF i = 0 THEN head ELSE IF g[i - 1] = NULL THEN NULL
                           ELSE next[g[i - 1]]
  <2>1. Chain = [i \in Nat |-> body(Chain, i)]
    BY <1>6
  <2>2. k + 1 \in Nat /\ k + 1 # 0 /\ (k + 1) - 1 = k
    OBVIOUS
  <2> HIDE DEF body
  <2>3. Chain[k + 1] = body(Chain, k + 1)
    BY <2>1, <2>2
  <2> QED
    BY <2>2, <2>3 DEF body
<1>9. \A k \in Nat : Chain[k] \in S
  <2> DEFINE U == {k \in Nat : Chain[k] \in S}
  <2>1. 0 \in U
    BY <1>1, <1>7
  <2>2. ASSUME NEW k \in Nat, k \in U PROVE k + 1 \in U
    BY <1>8, <2>2 DEF TypeOK
  <2>3. Nat \subseteq U
    <3> HIDE DEF U
    <3> QED
      BY <2>1, <2>2, NumberInduction
  <2> QED
    BY <2>3
<1>10. Chain = [k \in Nat |-> Chain[k]]
  BY <1>6
<1> QED
  BY <1>7, <1>8, <1>9, <1>10

(* From _head on, next meets every timer of the list, each at its own      *)
(* place, and then the null pointer: timer_list_update ends and misses     *)
(* none.                                                                   *)
THEOREM ReachAll == Spec => []HeadReachesAll
<1>1. IInv => HeadReachesAll
  <2> SUFFICES ASSUME IInv PROVE HeadReachesAll
    OBVIOUS
  <2>1. TypeOK /\ LinksAgree /\ Linked \subseteq Timers
    BY DEF IInv, Linked
  <2>2. /\ Chain \in [Nat -> Timers \cup {NULL}]
        /\ Chain[0] = head
        /\ \A k \in Nat : Chain[k + 1] = IF Chain[k] = NULL THEN NULL
                                         ELSE next[Chain[k]]
    BY <2>1, ChainIs
  <2>3. PICK r \in [Timers -> Nat] :
               \A t \in Linked : next[t] # NULL => r[t] < r[next[t]]
    BY DEF IInv, Ordered
  <2>4. NULL \notin Timers
    BY NullAssumption
  <2> DEFINE c == Chain
             L == Linked
  <2> HIDE DEF c, L
  <2>5. /\ c \in [Nat -> Timers \cup {NULL}]
        /\ c[0] = head
        /\ \A k \in Nat : c[k] = NULL => c[k + 1] = NULL
        /\ \A k \in Nat : c[k] # NULL => c[k + 1] = next[c[k]]
    BY <2>2 DEF c
  <2>6. /\ L \subseteq Timers
        /\ head # NULL => head \in L
        /\ \A t \in L : next[t] # NULL => next[t] \in L
        /\ \A t \in L : prev[t] = NULL => head = t
        /\ \A t \in L : prev[t] # NULL => prev[t] \in L /\ next[prev[t]] = t
        /\ \A t \in L : next[t] # NULL => r[t] < r[next[t]]
    BY <2>1, <2>3 DEF LinksAgree, L
  (* The chain stays in the list. *)
  <2>7. \A k \in Nat : c[k] \in L \cup {NULL}
    <3> DEFINE U == {k \in Nat : c[k] \in L \cup {NULL}}
    <3>1. 0 \in U
      BY <2>5, <2>6
    <3>2. ASSUME NEW k \in Nat, k \in U PROVE k + 1 \in U
      BY <2>5, <2>6, <3>2
    <3>3. Nat \subseteq U
      <4> HIDE DEF U
      <4> QED
        BY <3>1, <3>2, NumberInduction
    <3> QED
      BY <3>3
  (* Its ranks grow until it ends. *)
  <2>8. \A k \in Nat : c[k] # NULL =>
               \A i \in 0 .. k - 1 : c[i] # NULL /\ r[c[i]] < r[c[k]]
    <3> DEFINE U == {k \in Nat : c[k] # NULL =>
                       \A i \in 0 .. k - 1 : c[i] # NULL /\ r[c[i]] < r[c[k]]}
    <3>1. 0 \in U
      OBVIOUS
    <3>2. ASSUME NEW k \in Nat, k \in U PROVE k + 1 \in U
      <4>1. SUFFICES ASSUME c[k + 1] # NULL, NEW i \in 0 .. k
                     PROVE  c[i] # NULL /\ r[c[i]] < r[c[k + 1]]
        OBVIOUS
      <4>2. c[k] # NULL /\ c[k] \in L /\ c[k + 1] = next[c[k]]
        BY <2>5, <2>7, <4>1
      <4>3. c[k] \in Timers /\ c[k + 1] \in Timers /\ r[c[k]] < r[c[k + 1]]
        BY <2>6, <4>1, <4>2
      <4>4. CASE i = k
        BY <4>2, <4>3, <4>4
      <4>5. CASE i < k
        <5>1. i \in 0 .. k - 1 /\ i \in Nat
          BY <4>5
        <5>2. c[i] # NULL /\ r[c[i]] < r[c[k]]
          BY <3>2, <4>2, <5>1
        <5>3. c[i] \in Timers
          BY <2>6, <2>7, <5>1, <5>2
        <5> QED
          BY <2>3, <4>3, <5>2, <5>3
      <4> QED
        BY <4>4, <4>5
    <3>3. Nat \subseteq U
      <4> HIDE DEF U
      <4> QED
        BY <3>1, <3>2, NumberInduction
    <3> QED
      BY <3>3
  (* It meets every timer of the list: else one of the least rank is not    *)
  (* met, but its predecessor is.                                           *)
  <2>9. \A t \in L : \E k \in Nat : c[k] = t
    <3> DEFINE M == {t \in L : \A k \in Nat : c[k] # t}
               T == {r[t] : t \in M}
    <3>1. SUFFICES ASSUME M # {} PROVE FALSE
      OBVIOUS
    <3>2. T \in SUBSET Nat /\ T # {}
      BY <2>6, <3>1
    <3>3. PICK m \in T : \A k \in T : m <= k
      <4> HIDE DEF T
      <4> QED
        BY <3>2, LeastNumber
    <3>4. PICK t \in M : m = r[t]
      OBVIOUS
    <3>5. prev[t] # NULL
      BY <2>5, <2>6, <3>4
    <3>6. prev[t] \in L /\ next[prev[t]] = t /\ t # NULL
      BY <2>4, <2>6, <3>4, <3>5
    <3>7. prev[t] \notin M
      <4>1. r[prev[t]] < r[t]
        BY <2>6, <3>6
      <4>2. r[prev[t]] \in Nat /\ r[t] \in Nat
        BY <2>6, <3>4, <3>6
      <4> QED
        BY <3>3, <3>4, <4>1, <4>2
    <3>8. PICK k \in Nat : c[k] = prev[t]
      BY <3>6, <3>7
    <3>9. c[k + 1] = t
      BY <2>5, <3>5, <3>6, <3>8
    <3> QED
      BY <3>4, <3>9
  (* So many timers, so many steps. *)
  <2> DEFINE N == Cardinality(Timers)
  <2>10. N \in Nat /\ IsFiniteSet(Timers)
    BY TimersAssumption, FS_CardinalityType
  <2>11. ASSUME NEW k \in Nat, c[k] # NULL PROVE k < N
    <3>1. SUFFICES ASSUME N < k + 1 PROVE FALSE
      BY <2>10
    <3> DEFINE f == [i \in 0 .. k |-> c[i]]
    <3>2. \A i \in 0 .. k : c[i] \in Timers
      BY <2>5, <2>8, <2>11
    <3>3. f \in [0 .. k -> Timers]
      BY <3>2
    <3>4. IsFiniteSet(0 .. k) /\ Cardinality(0 .. k) = k + 1
      <4>1. 0 \in Int /\ k \in Int /\ ~ (0 > k) /\ k - 0 + 1 = k + 1
        OBVIOUS
      <4> QED
        BY <4>1, FS_Interval
    <3>5. PICK x \in 0 .. k, y \in 0 .. k : x # y /\ f[x] = f[y]
      <4> HIDE DEF f
      <4> QED
        BY <2>10, <3>1, <3>3, <3>4, FS_PigeonHole
    <3>6. ASSUME NEW i \in 0 .. k, NEW j \in 0 .. k, i < j PROVE c[i] # c[j]
      <4>1. c[j] # NULL /\ i \in 0 .. j - 1 /\ j \in Nat
        BY <2>4, <3>2, <3>6
      <4>2. r[c[i]] < r[c[j]]
        BY <2>8, <4>1
      <4> QED
        BY <2>3, <3>2, <4>2
    <3> QED
      BY <3>5, <3>6
  <2>12. c[N] = NULL
    BY <2>10, <2>11
  <2>13. {c[k] : k \in 0 .. N} \subseteq L \cup {NULL}
    BY <2>7, <2>10
  <2>14. L \cup {NULL} \subseteq {c[k] : k \in 0 .. N}
    <3>1. ASSUME NEW t \in L PROVE \E k \in 0 .. N : c[k] = t
      <4>1. PICK k \in Nat : c[k] = t
        BY <2>9
      <4>2. k < N
        BY <2>4, <2>6, <2>11, <4>1
      <4> QED
        BY <2>10, <4>1, <4>2
    <3>2. N \in 0 .. N
      BY <2>10
    <3> QED
      BY <2>12, <3>1, <3>2
  <2> QED
    BY <2>13, <2>14 DEF c, L, N, HeadReachesAll
<1> QED
  BY <1>1, Invariance, PTL

(* The interrupt-driven linked list implements the set of timers.          *)
THEOREM Refinement == Spec => ImplementsTimerSet
<1>1. Init => TS!Init
  BY DEF Init, TS!Init, Linked
<1> QED
  BY <1>1, RefinementStep, Invariance, PTL DEF Spec, TS!Spec, ImplementsTimerSet
=============================================================================
