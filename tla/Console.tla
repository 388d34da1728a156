------------------------------ MODULE Console ------------------------------
(***************************************************************************)
(* The line editor: drivers/console.c and drivers/keyboard.c, the shell    *)
(* that reads lines from it, the keyboard's interrupt handler, which puts  *)
(* characters into the same buffer, and the screen both write to.  The     *)
(* kernel has a copy of these files under kernel/; the loader runs first,  *)
(* and either starts the kernel or, on an error, its own shell.  The       *)
(* kernel's shell runs with IF set and get_line closes its section with    *)
(* cli; in the loader IF is clear from the beginning of main on, and       *)
(* get_line masks IRQ 1 in the PIC.                                        *)
(*                                                                         *)
(* An interrupt that is let through may come between any two steps of the  *)
(* main thread; the handler runs whole.  The keyboard's queue and what is  *)
(* pressed when is external.                                               *)
(***************************************************************************)
EXTENDS Interrupts, Screen

CONSTANTS IbufSize,   \* IBUF_SIZE
          Chars,      \* keys that only stand for a character
          KeysAhead   \* events the keyboard's queue holds

(* A prompt and a full buffer fit on the screen wherever they begin, and a *)
(* full buffer that is erased above the screen does not take the cursor,   *)
(* whose row wraps to the greatest, as far as the last row of the screen.  *)
ASSUME SizesAssumption == /\ IbufSize \in Nat \ {0} /\ KeysAhead \in Nat \ {0}
                          /\ IbufSize + 1 <= (Rows - 1) * Cols
                          /\ IbufSize <= (CursRange - Rows) * Cols

(* The key maps have a newline for Enter only, and no tab. *)
ASSUME CharsAssumption == Chars \cap {"\n", "\t"} = {}

VARIABLES
  program,    \* "loader" or "kernel"
  pc,         \* where its main thread is
  line,       \* the buffer get_line fills
  pending,    \* scan codes the keyboard has not delivered yet
  ctrl,       \* keyboard.c: _.ctrl
  ibuf,       \* the first widx characters of _.ibuf
  completed,  \* _.line_completed
  cleared,    \* _.cleared
  scr,        \* the screen, _.curs_x and _.curs_y
  \* history variables
  entered,    \* ibuf when the line in it was completed
  waited,     \* get_line has waited for a line before
  shown,      \* the prompt was written where it can be seen
  deaf        \* a key was waiting when the kernel initialised the PIC

keys    == <<pending, ctrl>>
editor  == <<ibuf, completed, cleared>>
shell   == <<program, pc, line>>
history == <<entered, waited, shown, deaf>>
vars    == <<shell, keys, editor, scr, interrupts, history>>

(* Control, the two letters that mean something with it, a key whose entry *)
(* in the key map is zero, and the others.                                 *)
Codes == {"ctrl", "u", "l", "enter", "erase", "unmapped"} \cup Chars
Characters == {"u", "l", "NUL"} \cup Chars

(* The greetings and the loader's error message. *)
Message == <<"w", "\n">>
Newline == <<"\n">>

(* A screen both threads were writing to at once; y is no byte. *)
Garbled == [ClearScreen EXCEPT !.y = CursRange]

(* What the main thread writes besides: the prompt and its messages. *)
Glyphs == Characters \cup {Blank, "$", "w"}

ShellPC == {"welcome", "prompt", "enter", "uncl", "loop", "test", "open",
            "halted", "take", "reset", "echo", "lost"}
BootPC  == {"pic", "idt", "pit", "console", "keyboard", "load", "sti"}

EditorTypeOK ==
  /\ program \in {"loader", "kernel"}
  /\ pc \in BootPC \cup ShellPC
  /\ line \in Seq(Characters)
  /\ pending \in Seq([code : Codes, make : BOOLEAN])
  /\ Len(pending) <= KeysAhead
  /\ ctrl \in BOOLEAN
  /\ ibuf \in Seq(Characters) /\ Len(ibuf) <= IbufSize
  /\ completed \in BOOLEAN
  /\ cleared \in BOOLEAN
  /\ entered \in Seq(Characters)
  /\ {waited, shown, deaf} \subseteq BOOLEAN

ScreenTypeOK ==
  /\ scr.cell \in Seq(Glyphs) /\ Len(scr.cell) = Rows * Cols
  /\ scr.x \in 0 .. Cols - 1 /\ scr.y \in 0 .. CursRange

(* In particular neither the line buffer nor the cursor leaves its bounds: *)
(* the cursor as long as one thread writes (Garbled stands for any screen  *)
(* and cursor that two have left, curs_x past the last column included).   *)
TypeOK == InterruptsTypeOK /\ EditorTypeOK /\ ScreenTypeOK

Init == /\ InterruptsInit
        /\ program = "loader"
        /\ pc = "pic"
        /\ line = <<>>
        /\ pending = <<>>
        /\ ctrl = FALSE
        /\ ibuf = <<>>
        /\ completed = FALSE
        /\ cleared = FALSE
        /\ scr = ClearScreen
        /\ entered = <<>>
        /\ waited = FALSE
        /\ shown = FALSE
        /\ deaf = FALSE

Kernel == program = "kernel"

(* The main thread writes. *)
Display(str) == scr' = IF scr = Garbled THEN scr ELSE Puts(scr, str)

(* Until get_line has first waited the handler may come while the main     *)
(* thread is writing or passing arguments.                                 *)
Racing == intr /\ ~waited /\ pc \in {"welcome", "prompt", "enter"}

(* A halted processor goes on behind the hlt.  The kernel's _keyboard_isr  *)
(* saves no registers: a main thread that has a value in eax, ecx or edx   *)
(* is lost.  What it does then (it may write anywhere) is not modelled,    *)
(* and later nothing is in them where IF is set, between sti and cli.      *)
Resumed == IF pc = "halted" THEN {"loop"}
           ELSE IF Racing THEN {pc, "lost"} ELSE {pc}

(* The handler writes. *)
Draw(s) == scr' = IF Racing THEN Garbled ELSE s

Known(s) == IF scr = Garbled THEN scr ELSE s

-----------------------------------------------------------------------------
(* console_put_ibuf.                                                       *)

(* Mutant: a full buffer takes another character. *)
PutCharAnyway(c) ==
  /\ ibuf' = Append(ibuf, c)
  /\ Draw(Known(Putc(scr, c)))
  /\ UNCHANGED <<completed, cleared, entered, shown>>

PutChar(c) ==
  /\ IF Len(ibuf) < IbufSize
     THEN ibuf' = Append(ibuf, c) /\ Draw(Known(Putc(scr, c)))
     ELSE UNCHANGED <<ibuf, scr>>
  /\ UNCHANGED <<completed, cleared, entered, shown>>

PutNewline == /\ completed' = TRUE
              /\ Draw(Known(LineFeed(scr)))
              /\ entered' = IF completed THEN entered ELSE ibuf
              /\ UNCHANGED <<ibuf, cleared, shown>>

RuboutAll(gone) == FoldLeft(LAMBDA s, c : Rubout(s), scr, gone)

(* What is erased is taken from the buffer's end and from the screen. *)
Erase(gone, rest) ==
  /\ ibuf' = rest
  /\ Draw(Known(RuboutAll(gone)))
  /\ UNCHANGED <<completed, cleared, entered, shown>>

NoEdit == UNCHANGED <<editor, scr, entered, shown>>

(* Mutant: a completed line can still be erased. *)
DelIbufCompleted(all) ==
  IF ibuf = <<>> THEN NoEdit
  ELSE IF all THEN Erase(ibuf, <<>>)
  ELSE Erase(<<Last(ibuf)>>, Front(ibuf))

(* _del_ibuf once, or, in _kill, until it refuses. *)
DelIbuf(all) ==
  IF completed \/ ibuf = <<>> THEN NoEdit
  ELSE IF all THEN Erase(ibuf, <<>>)
  ELSE Erase(<<Last(ibuf)>>, Front(ibuf))

(* console_clear.  Where the redraw is over but for cleared = false, the   *)
(* clear will be forgotten.                                                *)
Clear == /\ cleared' = TRUE
         /\ Draw(ClearScreen)
         /\ shown' = (shown /\ pc # "uncl")
         /\ UNCHANGED <<ibuf, completed, entered>>

(* keyboard_isr for a key that was pressed: its character, mapped to a     *)
(* control character where it is one.  Only the loader drops a key without *)
(* a character; the kernel's console takes a null character for it.        *)
Edit(code) ==
  CASE code = "enter" -> PutNewline
    [] code = "erase" -> DelIbuf(FALSE)
    [] code = "u" /\ ctrl -> DelIbuf(TRUE)
    [] code = "l" /\ ctrl -> Clear
    [] code = "unmapped" -> IF Kernel THEN PutChar("NUL") ELSE NoEdit
    [] OTHER -> PutChar(code)

(* Mutant: a key that only changes the state of control is not ended. *)
EndNotControl(code) == serviced' = IF code = "ctrl"
                                   THEN Acknowledged(KEYBOARD_IRQ_NUM)
                                   ELSE SendEoi(Acknowledged(KEYBOARD_IRQ_NUM))

(* keyboard_isr_end: every path ends the interrupt. *)
End(code) == serviced' = SendEoi(Acknowledged(KEYBOARD_IRQ_NUM))

(* Reading the data port lets the line fall, and rise again for the next   *)
(* scan code.                                                              *)
KeyboardIsr ==
  /\ requested
  /\ Deliverable(KEYBOARD_IRQ_NUM)
  /\ LET e == Head(pending)
     IN  /\ ctrl' = IF e.code = "ctrl" THEN e.make ELSE ctrl
         /\ IF e.make /\ e.code # "ctrl" THEN Edit(e.code) ELSE NoEdit
         /\ End(e.code)
  /\ pending' = Tail(pending)
  /\ requested' = (Len(pending) > 1)
  /\ pc' \in Resumed
  /\ UNCHANGED <<program, line, intr, imr, gate, waited, deaf>>

(* Releasing a key other than control does nothing: it is left out.        *)
Press(code, make) == /\ Len(pending) < KeysAhead
                     /\ code # "ctrl" => make
                     /\ pending' = Append(pending, [code |-> code, make |-> make])
                     /\ requested' = (requested \/ pending = <<>>)
                     /\ UNCHANGED <<shell, ctrl, editor, scr, intr, imr,
                                    serviced, gate, history>>

-----------------------------------------------------------------------------
(* Booting: main, and kmain.                                               *)

Goto(here, there) == pc = here /\ pc' = there

(* The loader initialises the PIC before the table, the kernel behind it. *)
InitPic == /\ Goto("pic", IF Kernel THEN "console" ELSE "idt")
           /\ PicInit
           /\ deaf' = (Kernel /\ pending # <<>>)
           /\ UNCHANGED <<program, line, keys, editor, scr, intr, gate,
                          entered, waited, shown>>

InitIdt == /\ Goto("idt", IF Kernel THEN "pic" ELSE "pit")
           /\ IdtInit(IF Kernel THEN KernelIdt ELSE LoaderIdt)
           /\ UNCHANGED <<program, line, keys, editor, scr, intr, pic, history>>

(* pit_init *)
InitPit == /\ Goto("pit", "console")
           /\ Register(PIT_IRQ_NUM)
           /\ EnableIrq(PIT_IRQ_NUM)
           /\ serviced' = SendEoi(serviced)
           /\ UNCHANGED <<program, line, keys, editor, scr, intr, requested,
                          history>>

(* console_init *)
InitConsole == /\ Goto("console", "keyboard")
               /\ ibuf' = <<>>
               /\ completed' = FALSE
               /\ cleared' = TRUE
               /\ scr' = ClearScreen
               /\ UNCHANGED <<program, line, keys, interrupts, history>>

(* keyboard_init, which does not read what the keyboard has waiting. *)
InitKeyboard == /\ Goto("keyboard", IF Kernel THEN "sti" ELSE "load")
                /\ ctrl' = FALSE
                /\ Register(KEYBOARD_IRQ_NUM)
                /\ EnableIrq(KEYBOARD_IRQ_NUM)
                /\ serviced' = IF Kernel THEN serviced ELSE SendEoi(serviced)
                /\ UNCHANGED <<program, line, pending, editor, scr, intr,
                               requested, history>>

(* The rest of main ends in the kernel's kmain, which finds its own data   *)
(* cleared and everything else as the loader used it.                      *)
Jump == /\ Goto("load", "idt")
        /\ program' = "kernel"
        /\ ctrl' = FALSE
        /\ ibuf' = <<>>
        /\ completed' = FALSE
        /\ cleared' = FALSE
        /\ gate' = [l \in Lines |-> "absent"]
        /\ intr' = FALSE
        /\ UNCHANGED <<line, pending, scr, pic, history>>

(* Or in an error. *)
Error == /\ Goto("load", "welcome")
         /\ Display(Message)
         /\ UNCHANGED <<program, line, keys, editor, interrupts, history>>

Sti == /\ Goto("sti", "welcome")
       /\ Display(Message)
       /\ intr' = TRUE
       /\ UNCHANGED <<program, line, keys, editor, pic, gate, history>>

Boot == \/ InitPic \/ InitIdt \/ InitPit \/ InitConsole \/ InitKeyboard
        \/ Jump \/ Error \/ Sti

-----------------------------------------------------------------------------
(* shell_do and console_get_line.                                          *)

Welcome == /\ Goto("welcome", "prompt")
           /\ Display(Message)
           /\ UNCHANGED <<program, line, keys, editor, interrupts, history>>

(* A screen that was cleared with characters in the buffer, which were     *)
(* then erased: the cursor is in no row of the screen.                     *)
Prompt == /\ Goto("prompt", "enter")
          /\ Display(<<"$">>)
          /\ shown' = OnScreen(scr)
          /\ UNCHANGED <<program, line, keys, editor, interrupts, entered,
                         waited, deaf>>

(* A cleared screen: write what was typed again. *)
Enter == /\ Goto("enter", IF cleared THEN "uncl" ELSE "loop")
         /\ IF cleared THEN Display(ibuf) ELSE UNCHANGED scr
         /\ UNCHANGED <<program, line, keys, editor, interrupts, history>>

Uncl == /\ Goto("uncl", "loop")
        /\ cleared' = FALSE
        /\ UNCHANGED <<program, line, keys, ibuf, completed, scr, interrupts,
                       history>>

(* The kernel's section, and the loader's. *)
Close == IF Kernel THEN intr' = FALSE /\ UNCHANGED imr
         ELSE DisableIrq(KEYBOARD_IRQ_NUM) /\ UNCHANGED intr
Reopen == IF Kernel THEN intr' = TRUE /\ UNCHANGED imr
          ELSE EnableIrq(KEYBOARD_IRQ_NUM) /\ UNCHANGED intr

(* Mutant: the section is left open. *)
LoopOpen == /\ Goto("loop", "test")
            /\ waited' = TRUE
            /\ UNCHANGED <<program, line, keys, editor, scr, interrupts,
                           entered, shown, deaf>>

Loop == /\ Goto("loop", "test")
        /\ Close
        /\ waited' = TRUE
        /\ UNCHANGED <<program, line, keys, editor, scr, requested, serviced,
                       gate, entered, shown, deaf>>

(* Mutant: the kernel's get_line opens the section before it returns, as   *)
(* the loader's does.                                                      *)
TestReopens == /\ Goto("test", IF completed THEN "take"
                               ELSE IF cleared THEN "prompt" ELSE "open")
               /\ IF ~completed /\ cleared THEN Reopen ELSE UNCHANGED <<intr, imr>>
               /\ UNCHANGED <<program, line, keys, editor, scr, requested,
                              serviced, gate, history>>

(* No line yet: get_line waits, or returns to have the prompt written      *)
(* again.  Only the loader's opens the section before it returns.          *)
Test == /\ Goto("test", IF completed THEN "take"
                        ELSE IF cleared THEN "prompt" ELSE "open")
        /\ IF ~completed /\ cleared /\ ~Kernel THEN Reopen
           ELSE UNCHANGED <<intr, imr>>
        /\ UNCHANGED <<program, line, keys, editor, scr, requested, serviced,
                       gate, history>>

(* The loader then halts until an interrupt is delivered; as IF is clear,  *)
(* none can come in between, or later.                                     *)
Open == /\ Goto("open", IF Kernel THEN "loop" ELSE "halted")
        /\ Reopen
        /\ UNCHANGED <<program, line, keys, editor, scr, requested, serviced,
                       gate, history>>

(* memcpy; the caller's buffer is longer than _.ibuf. *)
Take == /\ Goto("take", "reset")
        /\ line' = ibuf
        /\ UNCHANGED <<program, keys, editor, scr, interrupts, history>>

(* Mutant: the flag of the line stays set. *)
ResetIbufOnly == /\ Goto("reset", "echo")
                 /\ ibuf' = <<>>
                 /\ UNCHANGED <<program, line, keys, completed, cleared, scr,
                                interrupts, history>>

(* _reset_ibuf; get_line returns with the section closed. *)
Reset == /\ Goto("reset", "echo")
         /\ ibuf' = <<>>
         /\ completed' = FALSE
         /\ UNCHANGED <<program, line, keys, cleared, scr, interrupts, history>>

(* str: what strlen and console_puts see of the line. *)
Str(l) == LET ends == {k \in 1 .. Len(l) : l[k] = "NUL"}
          IN  IF ends = {} THEN l ELSE SubSeq(l, 1, Min(ends) - 1)

(* The kernel's shell echoes the line; the loader's, which never gets one, *)
(* would run the command.                                                  *)
Echo == /\ Goto("echo", "prompt")
        /\ line' = <<>>
        /\ Display(IF Str(line) = <<>> THEN <<>> ELSE Str(line) \o Newline)
        /\ UNCHANGED <<program, keys, editor, interrupts, history>>

Shell == \/ Boot
         \/ Welcome \/ Prompt \/ Enter \/ Uncl \/ Loop \/ Test \/ Open
         \/ Take \/ Reset \/ Echo

Next == \/ \E code \in Codes, make \in BOOLEAN : Press(code, make)
        \/ KeyboardIsr
        \/ Shell

(* The processor runs the main thread, and takes an interrupt that is let  *)
(* through soon after each sti; nobody has to press a key.                 *)
Spec == Init /\ [][Next]_vars /\ SF_vars(KeyboardIsr) /\ WF_vars(Shell)

-----------------------------------------------------------------------------
(* Properties.                                                             *)

(* console_get_line empties the buffer of what it has handed over and of   *)
(* nothing else: no character comes in between memcpy and _reset_ibuf.     *)
NothingDropped == pc = "reset" => line = ibuf

(* Once Enter is pressed nothing can take back the line, and get_line      *)
(* hands over its characters first (those typed before it is fetched go    *)
(* behind them).                                                           *)
LineAsEntered == /\ completed => IsPrefix(entered, ibuf)
                 /\ pc \in {"reset", "echo"} => IsPrefix(entered, line)

(* While get_line waits, the screen shows the prompt, behind it what is in *)
(* the buffer, and nothing behind that: typing, erasing over the end of a  *)
(* row, killing and clearing keep the two together ("return the control to *)
(* get the prompt displayed").  Exempt is a prompt that was written while  *)
(* the handler wrote, which only the first can be, or while the cursor was *)
(* in no row of the screen, as it is when characters are erased between a  *)
(* clear and its answer.                                                   *)
EchoShown ==
  pc \in {"loop", "test", "open"} /\ ~completed /\ ~cleared /\ shown /\ scr # Garbled =>
    LET text == <<"$">> \o ibuf
        end  == scr.y * Cols + scr.x
    IN  /\ Len(text) <= end /\ end < Rows * Cols
        /\ SubSeq(scr.cell, end - Len(text) + 1, Rows * Cols)
             = text \o Blanks(Rows * Cols - end)

(* The kernel handles keys as long as any arrive: get_line never waits     *)
(* with the keyboard shut out.  Exempt is a key that waited when the       *)
(* kernel initialised the PIC: nothing reads it, and no other can come;    *)
(* and a key that the main thread lost its registers to.                   *)
(* The loader's shell waits for a key that it shuts out for ever.          *)
KeysHandled ==
  /\ <>Kernel /\ []~deaf /\ [](pc # "lost")
     => ([]<>(pending # <<>>) => []<><<KeyboardIsr>>_vars)
  /\ <>Kernel \/ <>[](pc = "halted")

(* A completed line is fetched, if no key came while the main thread first *)
(* had something in the registers the handler does not save.               *)
LineTaken == [](pc # "lost") => (completed ~> ~completed)
=============================================================================
