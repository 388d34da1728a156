----------------------------- MODULE TimerList -----------------------------
(***************************************************************************)
(* lib/timer.c, lib/timer_list.c and the tick handler of drivers/pit.c:    *)
(* the main thread operates on a doubly linked list of timers that the     *)
(* PIT's interrupt handler walks.  There is one CPU: the handler runs      *)
(* between two steps of the main thread, whenever IF is set, and the main  *)
(* thread stands still until iret.                                         *)
(*                                                                         *)
(* A step of the main thread is a stretch of code that ends where an       *)
(* interrupt could matter; inside the cli sections the steps are as short, *)
(* so that a section that is not protected would show.                     *)
(*                                                                         *)
(* The client keeps two rules that the code relies on and does not check:  *)
(* timer_start and timer_resume are called only on a timer that is not in  *)
(* the list, and the other operations only on a timer started before.      *)
(***************************************************************************)
EXTENDS Integers, FiniteSets

CONSTANTS Timers,      \* the timer_t objects of the client
          NULL,        \* the null pointer
          MaxTimeout   \* largest timeout a client asks for

ASSUME NullAssumption == NULL \notin Timers
ASSUME TimersAssumption == IsFiniteSet(Timers)
ASSUME TimeoutAssumption == MaxTimeout \in Nat

VARIABLES
  head,      \* timer_list.c: _head
  next,      \* timer_t.next
  prev,      \* timer_t.prev
  inList,    \* timer_t.in_list
  counter,   \* timer_t.counter
  initial,   \* timer_t.initial_counter
  intr,      \* EFLAGS.IF
  pc,        \* where the main thread is
  tmr,       \* its argument tmr
  savedAdd,  \* intr_flag in timer_list_add_timer and _remove_timer
  savedRst,  \* intr_flag in timer_restart
  ret,       \* where timer_list_add_timer returns to
  isr,       \* whether pit_isr is running
  cur,       \* tmr in timer_list_update
  \* history variables, which no action reads
  due,       \* timers of this tick the walk has not visited yet
  fired,     \* timers that triggered in this tick
  age,       \* ticks a timer was in the list for since it was loaded
  asked      \* what the client last asked of each timer

list   == <<head, next, prev, inList>>
counts == <<counter, initial, age>>
frame  == <<tmr, savedAdd, savedRst, ret>>
tick   == <<isr, cur, due, fired>>
vars   == <<list, counts, intr, pc, frame, tick, asked>>

AddPC == {"add_check", "add_cli", "add_link", "add_mark", "add_sti"}
RemPC == {"rem_check", "rem_cli", "rem_unlink", "rem_mark", "rem_sti",
          "rem_null"}
RstPC == {"rst_check", "rst_reload", "rst_cli", "rst_recheck", "rst_sti"}

TypeOK == /\ head \in Timers \cup {NULL}
          /\ next \in [Timers -> Timers \cup {NULL}]
          /\ prev \in [Timers -> Timers \cup {NULL}]
          /\ inList \in [Timers -> BOOLEAN]
          /\ counter \in [Timers -> 0 .. MaxTimeout]
          /\ initial \in [Timers -> 0 .. MaxTimeout]
          /\ intr \in BOOLEAN
          /\ pc \in {"idle"} \cup AddPC \cup RemPC \cup RstPC
          /\ tmr \in Timers
          /\ savedAdd \in BOOLEAN
          /\ savedRst \in BOOLEAN
          /\ ret \in {"idle", "rst_sti"}
          /\ isr \in BOOLEAN
          /\ cur \in Timers \cup {NULL}
          /\ due \in SUBSET Timers
          /\ fired \in SUBSET Timers
          /\ age \in [Timers -> 0 .. MaxTimeout]
          /\ asked \in [Timers -> {"nothing", "run", "stop"}]

(* The timers the links hold: in_list, but for the step of a cli section   *)
(* between linking and marking.                                            *)
Linked == {t \in Timers : inList[t] /\ ~(pc = "rem_mark" /\ tmr = t)}
            \cup {t \in Timers : pc = "add_mark" /\ tmr = t}

Init == /\ head = NULL
        /\ next = [t \in Timers |-> NULL]
        /\ prev = [t \in Timers |-> NULL]
        /\ inList = [t \in Timers |-> FALSE]
        /\ counter = [t \in Timers |-> 0]
        /\ initial = [t \in Timers |-> 0]
        /\ intr = FALSE
        /\ pc = "idle"
        /\ tmr \in Timers
        /\ savedAdd = FALSE
        /\ savedRst = FALSE
        /\ ret = "idle"
        /\ isr = FALSE
        /\ cur = NULL
        /\ due = {}
        /\ fired = {}
        /\ age = [t \in Timers |-> 0]
        /\ asked = [t \in Timers |-> "nothing"]

-----------------------------------------------------------------------------
(* The interrupt handler.                                                  *)

(* IRQ 0 is delivered: the gate clears IF and timer_list_update starts at  *)
(* the head.                                                               *)
IsrEnter == /\ ~isr
            /\ intr
            /\ isr' = TRUE
            /\ intr' = FALSE
            /\ cur' = head
            /\ due' = Linked
            /\ fired' = {}
            /\ age' = [t \in Timers |->
                         IF t \in Linked /\ age[t] < MaxTimeout
                         THEN age[t] + 1 ELSE age[t]]
            /\ UNCHANGED <<list, counter, initial, pc, frame, asked>>

(* What the cli section of timer_list_remove_timer does to the links.      *)
UnlinkedNext(t) == IF prev[t] = NULL THEN next
                   ELSE [next EXCEPT ![prev[t]] = next[t]]
(* Mutant: the neighbour behind keeps pointing at the removed timer. *)
UnlinkedPrevKept(t) == prev
UnlinkedPrev(t) == IF next[t] = NULL THEN prev
                   ELSE [prev EXCEPT ![next[t]] = prev[t]]

UnlinkedHead(t) == IF t = head THEN next[t] ELSE head

(* Mutant: a timer that triggers stays in the list. *)
IsrRemoveNothing(t) == UNCHANGED list

(* The handler calls timer_list_remove_timer with IF clear: it runs whole. *)
IsrRemove(t) ==
  IF inList[t]
  THEN /\ head' = UnlinkedHead(t)
       /\ next' = [UnlinkedNext(t) EXCEPT ![t] = NULL]
       /\ prev' = [UnlinkedPrev(t) EXCEPT ![t] = NULL]
       /\ inList' = [inList EXCEPT ![t] = FALSE]
  ELSE UNCHANGED list

(* Mutant: after a removal the walk starts again at the head. *)
IsrStepFromHead == /\ isr
                   /\ cur # NULL
                   /\ counter' = [counter EXCEPT ![cur] = @ - 1]
                   /\ IF counter[cur] = 1
                      THEN /\ IsrRemove(cur)
                           /\ fired' = fired \cup {cur}
                           /\ cur' = head'
                      ELSE /\ cur' = next[cur]
                           /\ UNCHANGED <<list, fired>>
                   /\ due' = due \ {cur}
                   /\ UNCHANGED <<initial, age, intr, pc, frame, isr, asked>>

(* The loop of timer_list_update that counts cur, removes it when it       *)
(* triggers and follows its next pointer, as it is after the removal.      *)
IsrStep == /\ isr
           /\ cur # NULL
           /\ counter' = [counter EXCEPT ![cur] = @ - 1]
           /\ IF counter[cur] = 1
              THEN /\ IsrRemove(cur)
                   /\ fired' = fired \cup {cur}
              ELSE UNCHANGED <<list, fired>>
           /\ cur' = next'[cur]
           /\ due' = due \ {cur}
           /\ UNCHANGED <<initial, age, intr, pc, frame, isr, asked>>

(* End of interrupt and iret: IF is what it was, set. *)
IsrReturn == /\ isr
             /\ cur = NULL
             /\ isr' = FALSE
             /\ intr' = TRUE
             /\ due' = {}
             /\ fired' = {}
             /\ UNCHANGED <<list, counts, pc, frame, cur, asked>>

-----------------------------------------------------------------------------
(* The main thread: the operations it may begin when it is idle.           *)

Main == ~isr

Idle == Main /\ pc = "idle"

(* timer_start on a timer that is not in the list. *)
Start(t, n) == /\ Idle
               /\ ~inList[t]
               /\ next' = [next EXCEPT ![t] = NULL]
               /\ prev' = [prev EXCEPT ![t] = NULL]
               /\ inList' = [inList EXCEPT ![t] = FALSE]
               /\ counter' = [counter EXCEPT ![t] = n]
               /\ initial' = [initial EXCEPT ![t] = n]
               /\ age' = [age EXCEPT ![t] = 0]
               /\ tmr' = t
               /\ ret' = "idle"
               /\ pc' = "add_check"
               /\ asked' = [asked EXCEPT ![t] = "run"]
               /\ UNCHANGED <<head, intr, savedAdd, savedRst, tick>>

(* timer_end, timer_stop and timer_pause: one removal each. *)
Stop(t) == /\ Idle
           /\ asked[t] # "nothing"
           /\ tmr' = t
           /\ pc' = "rem_check"
           /\ asked' = [asked EXCEPT ![t] = "stop"]
           /\ UNCHANGED <<list, counts, intr, savedAdd, savedRst, ret, tick>>

(* timer_resume on a timer that is not in the list. *)
Resume(t) == /\ Idle
             /\ asked[t] # "nothing"
             /\ ~inList[t]
             /\ tmr' = t
             /\ ret' = "idle"
             /\ pc' = IF counter[t] # 0 THEN "add_check" ELSE "idle"
             /\ asked' = [asked EXCEPT ![t] = "run"]
             /\ UNCHANGED <<list, counts, intr, savedAdd, savedRst, tick>>

Restart(t) == /\ Idle
              /\ asked[t] # "nothing"
              /\ tmr' = t
              /\ ret' = "idle"
              /\ pc' = "rst_check"
              /\ asked' = [asked EXCEPT ![t] = "run"]
              /\ UNCHANGED <<list, counts, intr, savedAdd, savedRst, tick>>

(* intr_enable and intr_disable by the client, outside the operations. *)
SetIntr(b) == /\ Idle
              /\ intr # b
              /\ intr' = b
              /\ UNCHANGED <<list, counts, pc, frame, tick, asked>>

Begin == \/ \E t \in Timers : \/ \E n \in 0 .. MaxTimeout : Start(t, n)
                              \/ Stop(t)
                              \/ Resume(t)
                              \/ Restart(t)
         \/ \E b \in BOOLEAN : SetIntr(b)

-----------------------------------------------------------------------------
(* timer_list_add_timer.                                                   *)

AddCheck == /\ Main
            /\ pc = "add_check"
            /\ pc' = IF counter[tmr] = 0 THEN ret ELSE "add_cli"
            /\ UNCHANGED <<list, counts, intr, frame, tick, asked>>

(* Mutant: the section is entered with interrupts on. *)
AddCliOpen == /\ Main
              /\ pc = "add_cli"
              /\ savedAdd' = intr
              /\ pc' = "add_link"
              /\ UNCHANGED <<list, counts, intr, tmr, savedRst, ret, tick, asked>>

AddCli == /\ Main
          /\ pc = "add_cli"
          /\ savedAdd' = intr
          /\ intr' = FALSE
          /\ pc' = "add_link"
          /\ UNCHANGED <<list, counts, tmr, savedRst, ret, tick, asked>>

(* Mutant: the old head does not learn who precedes it. *)
AddLinkOneWay == /\ Main
                 /\ pc = "add_link"
                 /\ next' = [next EXCEPT ![tmr] = head]
                 /\ head' = tmr
                 /\ pc' = "add_mark"
                 /\ UNCHANGED <<prev, inList, counts, intr, frame, tick, asked>>

(* Mutant: the new head forgets the old one. *)
AddLinkAlone == /\ Main
                /\ pc = "add_link"
                /\ prev' = IF head = NULL THEN prev
                           ELSE [prev EXCEPT ![head] = tmr]
                /\ head' = tmr
                /\ pc' = "add_mark"
                /\ UNCHANGED <<next, inList, counts, intr, frame, tick, asked>>

AddLink == /\ Main
           /\ pc = "add_link"
           /\ next' = [next EXCEPT ![tmr] = head]
           /\ prev' = IF head = NULL THEN prev ELSE [prev EXCEPT ![head] = tmr]
           /\ head' = tmr
           /\ pc' = "add_mark"
           /\ UNCHANGED <<inList, counts, intr, frame, tick, asked>>

AddMark == /\ Main
           /\ pc = "add_mark"
           /\ inList' = [inList EXCEPT ![tmr] = TRUE]
           /\ pc' = "add_sti"
           /\ UNCHANGED <<head, next, prev, counts, intr, frame, tick, asked>>

AddSti == /\ Main
          /\ pc = "add_sti"
          /\ intr' = savedAdd
          /\ pc' = ret
          /\ UNCHANGED <<list, counts, frame, tick, asked>>

Add == AddCheck \/ AddCli \/ AddLink \/ AddMark \/ AddSti

-----------------------------------------------------------------------------
(* timer_list_remove_timer.                                                *)

RemCheck == /\ Main
            /\ pc = "rem_check"
            /\ pc' = IF inList[tmr] THEN "rem_cli" ELSE "idle"
            /\ UNCHANGED <<list, counts, intr, frame, tick, asked>>

RemCli == /\ Main
          /\ pc = "rem_cli"
          /\ savedAdd' = intr
          /\ intr' = FALSE
          /\ pc' = "rem_unlink"
          /\ UNCHANGED <<list, counts, tmr, savedRst, ret, tick, asked>>

RemUnlink == /\ Main
             /\ pc = "rem_unlink"
             /\ next' = UnlinkedNext(tmr)
             /\ prev' = UnlinkedPrev(tmr)
             /\ head' = UnlinkedHead(tmr)
             /\ pc' = "rem_mark"
             /\ UNCHANGED <<inList, counts, intr, frame, tick, asked>>

RemMark == /\ Main
           /\ pc = "rem_mark"
           /\ inList' = [inList EXCEPT ![tmr] = FALSE]
           /\ pc' = "rem_sti"
           /\ UNCHANGED <<head, next, prev, counts, intr, frame, tick, asked>>

RemSti == /\ Main
          /\ pc = "rem_sti"
          /\ intr' = savedAdd
          /\ pc' = "rem_null"
          /\ UNCHANGED <<list, counts, frame, tick, asked>>

(* The pointers of the removed timer are cleared after IF is restored. *)
RemNull == /\ Main
           /\ pc = "rem_null"
           /\ next' = [next EXCEPT ![tmr] = NULL]
           /\ prev' = [prev EXCEPT ![tmr] = NULL]
           /\ pc' = "idle"
           /\ UNCHANGED <<head, inList, counts, intr, frame, tick, asked>>

Rem == RemCheck \/ RemCli \/ RemUnlink \/ RemMark \/ RemSti \/ RemNull

-----------------------------------------------------------------------------
(* timer_restart.                                                          *)

RstCheck == /\ Main
            /\ pc = "rst_check"
            /\ pc' = IF inList[tmr] THEN "rst_cli" ELSE "rst_reload"
            /\ UNCHANGED <<list, counts, intr, frame, tick, asked>>

(* First scenario: load the counter and add the timer to the list. *)
RstReload == /\ Main
             /\ pc = "rst_reload"
             /\ counter' = [counter EXCEPT ![tmr] = initial[tmr]]
             /\ age' = [age EXCEPT ![tmr] = 0]
             /\ pc' = "add_check"
             /\ UNCHANGED <<list, initial, intr, frame, tick, asked>>

RstCli == /\ Main
          /\ pc = "rst_cli"
          /\ savedRst' = intr
          /\ intr' = FALSE
          /\ pc' = "rst_recheck"
          /\ UNCHANGED <<list, counts, tmr, savedAdd, ret, tick, asked>>

(* Mutant: in_list is not read again under cli. *)
RstRecheckStale == /\ Main
                   /\ pc = "rst_recheck"
                   /\ counter' = [counter EXCEPT ![tmr] = initial[tmr]]
                   /\ age' = [age EXCEPT ![tmr] = 0]
                   /\ pc' = "rst_sti"
                   /\ UNCHANGED <<list, initial, intr, frame, tick, asked>>

(* Mutant: a timer that triggered is looked for again in the list. *)
RstRecheckAgain ==
  /\ Main
  /\ pc = "rst_recheck"
  /\ counter' = [counter EXCEPT ![tmr] = initial[tmr]]
  /\ age' = [age EXCEPT ![tmr] = 0]
  /\ pc' = IF inList[tmr] THEN "rst_sti" ELSE "rst_cli"
  /\ UNCHANGED <<list, initial, intr, frame, tick, asked>>

(* The timer triggered before cli: timer_restart calls itself and comes    *)
(* back to restore IF.  Otherwise the second scenario.                     *)
RstRecheck == /\ Main
              /\ pc = "rst_recheck"
              /\ IF inList[tmr]
                 THEN /\ counter' = [counter EXCEPT ![tmr] = initial[tmr]]
                      /\ age' = [age EXCEPT ![tmr] = 0]
                      /\ pc' = "rst_sti"
                      /\ UNCHANGED ret
                 ELSE /\ pc' = "rst_reload"
                      /\ ret' = "rst_sti"
                      /\ UNCHANGED <<counter, age>>
              /\ UNCHANGED <<list, initial, intr, tmr, savedAdd, savedRst,
                             tick, asked>>

RstSti == /\ Main
          /\ pc = "rst_sti"
          /\ intr' = savedRst
          /\ pc' = "idle"
          /\ UNCHANGED <<list, counts, frame, tick, asked>>

Rst == RstCheck \/ RstReload \/ RstCli \/ RstRecheck \/ RstSti

-----------------------------------------------------------------------------
Step == Add \/ Rem \/ Rst

Isr == IsrStep \/ IsrReturn

Next == IsrEnter \/ Isr \/ Begin \/ Step

Spec == Init /\ [][Next]_vars

(* A tick lasts 25 ms, so an operation that has begun is executed to its   *)
(* end however many ticks interrupt it, and so is the handler.             *)
FairSpec == Spec /\ WF_vars(Isr) /\ SF_vars(Step)

-----------------------------------------------------------------------------
(* Properties.                                                             *)

(* The links of the list agree with each other whatever interrupts what:   *)
(* next and prev are inverse, stay inside the list, and only the head has  *)
(* no predecessor.  timer_list_remove_timer unlinks a timer by its own two *)
(* pointers and has no other way to find its neighbours.                   *)
LinksAgree ==
  /\ head # NULL => head \in Linked /\ prev[head] = NULL
  /\ \A t \in Linked :
        /\ next[t] # NULL => next[t] \in Linked /\ prev[next[t]] = t
        /\ IF prev[t] = NULL THEN head = t
           ELSE prev[t] \in Linked /\ next[prev[t]] = t

(* The timers from the head on, in the order timer_list_update meets them. *)
Chain[k \in Nat] == IF k = 0 THEN head
                    ELSE IF Chain[k - 1] = NULL THEN NULL
                    ELSE next[Chain[k - 1]]

(* Following next from _head meets every timer that is in the list and     *)
(* comes to the null pointer: no timer is cut off, and there is no loop.   *)
HeadReachesAll ==
  {Chain[k] : k \in 0 .. Cardinality(Timers)} = Linked \cup {NULL}

(* timer.c, on the two states of a timer: one that is in the list has not  *)
(* triggered.  Its counter would wrap around at the next tick.             *)
TriggeredNotListed == \A t \in Timers : inList[t] => counter[t] > 0

(* A timer has used up no more of its timeout than the ticks it was in the *)
(* list for, however it was restarted, paused or interrupted.              *)
NeverEarly == \A t \in Timers : counter[t] + age[t] >= initial[t]

(* One tick counts a timer once: the walk of timer_list_update only comes  *)
(* to timers that were in the list at the interrupt and not counted yet.   *)
WalkVisitsOnce == cur # NULL => isr /\ cur \in due /\ cur \in Linked

(* The walk ends before the end of the list only behind a timer that has   *)
(* triggered in this tick.                                                 *)
SkipOnlyBehindTrigger == isr /\ cur = NULL /\ due # {} => fired # {}

(* Between two calls a timer is in the list exactly when the client asked  *)
(* for it to run and it has not triggered: an operation that raced with a  *)
(* tick neither loses a timer nor revives one.                             *)
ListedAsAsked ==
  pc = "idle" =>
    \A t \in Timers : inList[t] <=> asked[t] = "run" /\ counter[t] # 0

(* What a caller of timer_start(tmr, timeout) counts on: each tick while   *)
(* the timer is in the list takes one from it.                             *)
EveryTickCounts == isr /\ cur = NULL => due = {}

(* Every call returns, whatever interrupts it: the handler's walk ends, so *)
(* the main thread goes on, and timer_restart's call of itself is not      *)
(* repeated.                                                               *)
CallsReturn == pc # "idle" ~> pc = "idle"

(* The linked list implements the set of running timers. *)
TS == INSTANCE TimerSet WITH running <- Linked, left <- counter,
                             period <- initial
ImplementsTimerSet == TS!Spec
=============================================================================
