---------------------------- MODULE Interrupts ----------------------------
(***************************************************************************)
(* How an interrupt reaches its handler: EFLAGS.IF, the master PIC         *)
(* (drivers/pic.c, kernel/drivers/pic.c), the gates of the IDT             *)
(* (lib/idt.c, kernel/lib/idt.c) and lib/intr.c.  Two lines are connected, *)
(* the timer's and the keyboard's; the slave has none.                     *)
(*                                                                         *)
(* The PIC is external.  A line requests when it rises; the request is     *)
(* latched and kept until it is acknowledged or the PIC is initialised,    *)
(* after which a line that is still up does not request.  A line in        *)
(* service shuts out those of its own and of lower priority.  The timer    *)
(* may request at any time, so its requests are not recorded.              *)
(***************************************************************************)
EXTENDS Naturals

VARIABLES
  intr,       \* EFLAGS.IF
  imr,        \* the PIC's lines that are masked
  requested,  \* the keyboard's request is latched
  serviced,   \* lines that were delivered and not ended
  gate        \* the handler the processor finds for a line

pic        == <<imr, requested, serviced>>
interrupts == <<intr, pic, gate>>

PIT_IRQ_NUM      == 0
KEYBOARD_IRQ_NUM == 1
Lines == {PIT_IRQ_NUM, KEYBOARD_IRQ_NUM}

(* What the drivers register for their lines. *)
ForLines(timer, keyboard) == [l \in Lines |-> IF l = PIT_IRQ_NUM THEN timer ELSE keyboard]

Isr == ForLines("pit_isr", "keyboard_isr")

(* Gates of a table that was set up, by the loader and by the kernel; the  *)
(* first names a stub for every line.                                      *)
LoaderIdt == ForLines("isr32", "isr33")
KernelIdt == ForLines("absent", "dummy_isr")

InterruptsTypeOK ==
  /\ intr \in BOOLEAN
  /\ imr \subseteq Lines
  /\ requested \in BOOLEAN
  /\ serviced \subseteq Lines
  /\ gate \in [Lines -> {"absent", "isr32", "isr33", "dummy_isr", "pit_isr", "keyboard_isr"}]

(* The second boot stage clears IF and masks all lines, and its table has  *)
(* no gates.                                                               *)
InterruptsInit == /\ intr = FALSE
                  /\ imr = Lines
                  /\ requested = FALSE
                  /\ serviced = {}
                  /\ gate = [l \in Lines |-> "absent"]

-----------------------------------------------------------------------------

(* An end of interrupt that names no line ends the one of highest priority.*)
EndOne(s) == s \ {CHOOSE l \in s : \A k \in s : l <= k}

(* Mutant: the lines are not masked; pic_remap restores the masks it found.*)
MaskAllNot(m) == m

(* pic_disable *)
MaskAll(m) == Lines

(* pic_init: pic_disable, pic_remap with the masks saved around the        *)
(* initialisation, and, in the loader, an end of interrupt for each line.  *)
PicInit == /\ imr' = MaskAll(imr)
           /\ requested' = FALSE
           /\ serviced' = {}

(* idt_init *)
IdtInit(idt) == gate' = idt

(* intr_register_irq and pic_enable_irq *)
Register(line) == gate' = [gate EXCEPT ![line] = Isr[line]]
EnableIrq(line)  == imr' = imr \ {line}
DisableIrq(line) == imr' = imr \cup {line}

Deliverable(line) == /\ intr
                     /\ line \notin imr
                     /\ \A l \in serviced : line < l

(* The handler runs between the two steps of the PIC. *)
Acknowledged(line) == serviced \cup {line}

(* pic_send_eoi *)
SendEoi(s) == IF s = {} THEN s ELSE EndOne(s)

(* No interrupt is let through that would find another handler than its    *)
(* own, or none: kmain opens IF only when each line that is not masked has *)
(* the handler of its driver in the kernel's own table, whatever lines the *)
(* loader had in use.                                                      *)
HandlersReady == \A l \in Lines : Deliverable(l) => gate[l] = Isr[l]
=============================================================================
