# kboot86 in TLA+

kboot86 is a boot loader for the 32-bit PC: it runs from a floppy, switches to
protected mode, sets up paging, reads a kernel from a FAT16 partition of the
first ATA drive, maps its ELF segments and jumps to it. A small kernel with a
shell comes with it. These modules model the parts of it where several actors
or many steps meet: timers against the tick interrupt, the file system over a
drive that may fail, the driver's polling loops against the drive, the line
editor and the screen against the keyboard interrupt across both programs,
the page tables against the processor's cached translations, the ELF loader that
writes through the pages it maps, the shell that turns a line into variables, the
frame allocator and formatted output. TLC checks small instances; for the
timers, paging, the ELF loader, the frames, the drive, the file system, the line
editor, the shell and formatted output TLAPS proves the main properties for instances of any size.

All paths below are under `src/`.

## The system

There is one CPU and no threads. Concurrency comes from interrupt handlers (the
PIT's and the keyboard's), which run with IF clear and to their end, and from
the drive and the keyboard, which change what a register reads.

| component | state | operations | interacts with | hard behaviour | correct when |
|---|---|---|---|---|---|
| timers: `lib/timer.c`, `lib/timer_list.c`, `drivers/pit.c` | doubly linked list, a counter per timer | start, stop, pause, resume, restart; the tick | the PIT's handler walks and changes the list the main thread changes | the handler between any two statements; checks before `cli` that are stale after it | the list is a list, holds the timers asked for, counts no timer twice or early |
| drive addressing: `drivers/hdd.c`, `drivers/mbr.c` | partition table | init, read a partition's sector | `ata.c` below, `fat16.c` above | boundaries of a partition, a bad table | reads stay in the partition; one bootable partition |
| FAT16: `drivers/fat16.c` | volume parameters, one sector buffer | mount, file size, load | every read through `hdd.c` | one buffer for FAT, directory and data; reads that fail; cluster arithmetic | what is loaded is the file, a file that is there is found |
| ATA: `drivers/ata.c` | none but geometry; the drive's registers | init, read a sector | the drive, by polling | stale status bits, a drive that fails, hangs or is not there | a read returns its sector or an error, and returns |
| console, keyboard, shell: `drivers/console.c`, `drivers/keyboard.c`, `kernel/drivers/*`, `kernel/shell.c` | line buffer, `line_completed`, `cleared`, cursor | put a character, get a line, write | the keyboard's handler edits the buffer get_line hands over | keys between any two steps, sections closed with `cli` or the PIC's mask | no character lost, the line is the one entered, get_line does not sleep for ever |
| frames: `kernel/lib/frame.c` | bitmap | alloc, dealloc | no caller yet | alignment, addresses below and above the bitmap, the last frame | a frame has one owner, none is refused while one is free |
| paging: `mm/*.c` | page directory and tables | init, map, unmap, vaddr2paddr | ELF loader | alignment, tables that do not exist | a translation is what was mapped last |
| ELF: `lib/elf32.c` | memory | map an image | paging | one segment of several fails, overlap | the image is where its headers say |
| loader shell: `sh/*.c` | token, syntax vector, variable table | lex, parse, run a command, set a variable | console | limits of the vectors, ends of lines | tokens are the line's words; a variable has its last value |
| PIC, IDT, GDT, faults, EFLAGS: `drivers/pic.c`, `lib/idt.c`, `lib/intr.c`, `kernel/*` | masks, requests, gates, IF | set up, enable a line, end an interrupt | all handlers | the loader's lines and handlers survive the jump into the kernel | an interrupt that is let through finds its own handler, and keys still arrive |
| VGA: `drivers/vga.c` | video memory | write, clear, scroll | console | last column, last row, a cursor outside | the screen shows what was written |
| formatted output, strings: `lib/kstdio.c`, `lib/string.c` | buffer, scan of the format | `kprintf` | console | ends of formats, signs, widths and precisions together | the field asked for, nothing read past the format |
| boot stages: `boot0.asm`, `boot1.asm`, flow: `main.c`, `kernel/kmain.c` | | | | an error at any stage | |

`PROJECT.json` lists, per component, what is modelled and what is not, the
hazards of the code at their lines, and which definition stands for which lines.

## Modules

| module | stands for |
|---|---|
| `TimerSet` | what timers promise: a set of running timers that lose one per tick at most (abstract) |
| `TimerList` | the list and the tick handler, statement by statement inside the `cli` sections |
| `TimerListMC` | three interchangeable timers for TLC |
| `TimerListProofs` | the inductive invariant, the safety theorems and the refinement |
| `Hdd` | partition table and sector arithmetic, as operators |
| `Fat16` (extends `Hdd`) | mounting, lookup and load, a step per sector |
| `Fat16MC` | small volumes |
| `Fat16Proofs` | the inductive invariants and the safety theorems |
| `NumberFacts` | quotients and remainders; induction, recursion and folds over the naturals |
| `Ata` | the polling driver and the drive |
| `AtaProofs` | the inductive invariant and the safety theorems |
| `Interrupts` | IF, the PIC's masks, requests and lines in service, the gates of two lines |
| `Screen` | video memory and the cursor, as operators |
| `Console` (extends `Interrupts`, `Screen`) | from power-up through the loader into its error shell or the kernel's shell; line buffer, keyboard handler, get_line |
| `ConsoleProofs` | of `Console`, the inductive invariants and the safety theorems, the screen's among them; of `Printf`, that the scan stays in its format, the screen shows what was written, and a field is the one asked for |
| `Printf` (extends `Screen`) | `kprintf` from its format to the screen |
| `PrintfMC` | formats, arguments and calls |
| `FrameSet` | what a frame allocator promises (abstract) |
| `Frame` | the bitmap |
| `FrameProofs` | the refinement |
| `PageMap` | what paging promises: a map of pages that changes one page at a time (abstract) |
| `Paging` | directory, tables, `paging_init`, `paging_map`, `paging_unmap`, the software lookup, and the processor |
| `ElfMap` (extends `Paging`) | `elf32_map` and the part of `main` around it |
| `ElfMapMC` | files of up to two segments |
| `MappingProofs` | of `Paging`, the inductive invariant, the safety theorems and the refinement; of `ElfMap`, that paging is set up, the identity map stays, and the image is put in place and nothing else written |
| `BootShell` | lexer, tokens, parser, commands and the table of variables |
| `BootShellMC` | words and lines |
| `BootShellProofs` | that lines are understood and variables hold what was typed |

### TimerList

A variable for each field and static of the code (`head`, `next`, `prev`,
`inList`, `counter`, `initial`), `intr` for IF, `pc`/`tmr`/`ret` for the call in
progress and the saved flags of the two critical sections. `Start`, `Stop`,
`Resume`, `Restart` begin a call; `AddX`, `RemX`, `RstX` are its steps;
`IsrEnter`, `IsrStep`, `IsrReturn` the handler, one step per list node.
`timer_restart` calls itself with interrupts off; since the second call returns
to the first's last statement, `ret` is all that is needed of the stack. Four
history variables (`due`, `fired`, `age`, `asked`) are there for the properties
only. The client keeps the two rules the code relies on: start and resume only
what is not in the list.

### Hdd and Fat16

A sector's content is the address it came from, a byte is (sector, offset), so
"the right bytes" can be stated without bytes. `disk` is a drive as a FAT16
formatter writes it; the code's own arithmetic (`ROOT_CLUSTERS`, the shift of
cluster numbers, the constant 8) is kept. `FindStep` is one iteration of the
directory search, `LoadStep` one sector of the copy loop with the FAT lookup
before it; each read takes a boolean that says whether the drive works. File
names are a stem, which the search compares, and the last characters, which it
does not: `strncmp` looks at one character less than it is told. Directory entries
are deleted, parts of a long name, files, subdirectories or the volume's label;
the search passes over the first two kinds only. A chain ends in any of the marks
0xFFF8 to 0xFFFF (`EndMarks`), of which `fat16_load` knows the last. `FoundIsFirst`
says that the first entry of the name asked for is found, of whatever kind, where
no other entry has nearly the same name (`ToldApart`). Sums of sector numbers are
unbounded here: `drivers/hdd.c:48` adds in 32 bits, and a table whose partition
would wrap around the end of that range is not modelled.

### Ata

The drive is a machine of its own: it may take any time to raise BSY after a
command, and ends a command well, with an error and data, or with an error
alone (`Outcomes`), or is missing: then its status reads zero. A loop that polls
is an action whose guard is the loop's exit. The registers are written in one
step. `ended` is history.

### Interrupts and Screen

`Interrupts` has what decides whether an interrupt reaches a handler and which:
`intr` (IF), `imr` (the PIC's masks), `requested` (the keyboard's latched
request), `serviced` (lines delivered and not ended) and `gate` (per line, the
handler the table in use names). The timer may request at any time. Only the two
lines the program connects are there: `lib/idt.c` sets gate 41 twice and leaves
gate 42 empty, but nothing is connected to that line and it stays masked.

`Screen` is `[cell, x, y]` with the operators of `vga.c` and of the cursor. `y`
is a byte, as in the code: below zero it becomes 255, a row outside of video
memory's first page.

### Console

The variable `program` says which program runs; both come from the same actions,
with the differences of the two copies as conditions (`Kernel`). `InitPic` to
`Sti` follow `main` and `kmain`. The kernel is entered (`Jump`) with the screen,
the PIC and the keyboard as the loader left them, and its own data cleared;
`Error` is the way into the loader's shell. `KeyboardIsr` handles a whole scan
code; `Loop`, `Test`, `Open`, `Take`, `Reset` are `console_get_line`. In the
kernel the section is `cli`/`sti`, and both returns leave IF clear; in the loader
it is the PIC's mask, and IF is clear from the beginning of `main` on. Before
`get_line` has waited for the first time the handler may move the cursor in the
middle of the main thread's write: the screen is then `Garbled` until the next
clear (any screen and any cursor, one past the last column included). The kernel's
`_keyboard_isr` saves no registers, so the main thread may lose what it holds in
them: from then on `pc` is `"lost"`, and what that thread does is not modelled
(`Resumed`). Later nothing is in those registers where IF is set, between `sti` and
`cli`. `entered`, `waited`, `shown`, `deaf` are history.

### Printf

One action per part of a directive, one per conversion, `Show` for the hand-over
to `console_puts`, and `Call` for the next call. A script is a sequence of calls.
A call carries what its format is meant to say (`asked`), which only the
properties look at. Integers have `IntRange` values and negative ones are two's
complements, so that `num = -num` of the most negative one is itself; `skip_atoi`'s
sum and the sign change of a `*`'s argument wrap around as well. `size` in `number`
is not wrapped: it would only next to the ends of int, for fields no buffer holds.
`asked` has no `*` and no number that an int cannot hold; formats with those are
run, but what they ask for is left open. Characters
are one-letter strings here, as the conversion is what is checked. `Char` is the
set they come from: with what a directive is made of and the digits, and without
the `'\0'` and the characters that edit a line (`'\b'`, `'\r'` and 127, which
nothing prints; `CharAssumption`). `Scripts` are sequences of at least one call, and
callers pass an argument for each place in their format that takes one
(`ScriptsAssumption`), as `kprintf` cannot tell; `RangeAssumption` says that the
number of integers is even, as two's complements have it.

### Frame

`bitmap` is a set of set bits for each word. `FrameAlloc` takes the lowest clear
bit of the first word that has one, `FrameDealloc` does the code's three tests in
its order, with a page number that wraps around below `PADDR_MIN`. `FrameSet` is
the set of frames handed out; `Owner` says in which frame an address lies. A frame
is given back by its address, and no other frame goes with it. Whether an address
inside a frame but not at its start gives the frame back or is refused is left open:
the comment and the mask of `kernel/lib/frame.c:101-102` disagree.

### Paging

`dir` and `tables` are the two static arrays, in frames `DirFrame` and
`FirstTable` on, so that `Walk`, the processor's translation, can find a table
by the frame an entry names; the directory's last entry names the directory.
`tlb` is one translation the processor keeps, filled at any time paging is on
(`Fill`), also between the write of an entry (`SetEntry`, `ClearEntry`) and the
reload of CR3 (`Flush`). One is enough: a stale translation is stale by itself.
`Vaddr2Paddr` reads memory through the last entry as the code does, with the
same processor. `StartMap` and `StartUnmap` are everything the calls do before
they write the table's entry. `boot` follows `paging_init` and `main`, `addr` is
the identity loop's.

Page size, alignment unit, number of entries and of tables are separate
constants, since the code has separate constants for them: `AlignUnit` is a
quarter of `PageSize` in the code (0x3ff against 4096) and half of it in the
runs. Addresses are numbers below the size of the address space and the sum in
the memory test wraps around.

The client maps and unmaps whatever it wants but the loader's own pages;
through those the tables are written. A client that unmapped them would leave
the model at the next write of an entry.

### ElfMap

Memory is an array of numbers: byte k of the file is k + 1. `Copy` is one
iteration of either loop of `_map_progseg`; it writes where the processor
translates the destination to, so a wrong or missing mapping is a wrong byte or
a fault. `Begin` is the check of a segment, `MapPage` and `PageMapped` the call
of `paging_map` when a page begins, whose steps are those of `Paging`. CR0.WP
is clear, as in the loader, so writes through a read-only page succeed. The load
may fail (`LoadFails`) with part of the file in memory.
`ImageAssumption` says what is expected of a file: sizes a linker can produce,
physical addresses from `KERNEL_PADDR_MIN` on and virtual ones from
`KERNEL_VADDR_MIN` on (`VaddrMin`), segments that do not wrap around the
end of the address space, and pages, virtual or physical, that are not the loaded
file's. None of this is checked by the code: `lib/elf32.c:225` and `231-237` look at
the upper ends only, so a segment below 1 MiB is accepted, remaps or overwrites the
loader's own pages, and what follows is not modelled; nor is a file that is
overwritten while its headers are read. Virtual addresses between `KERNEL_VADDR_MIN`
and the end of the identity map are modelled: such a segment takes pages that were
mapped to themselves, so `IdentityKept` speaks of the others (`Claimed`).
`FileAssumption` types the headers, puts the loaded file above the first page and
inside memory, and the paging structures below file and kernel.

### BootShell

One action per kind of token (`Lexer`), then one per line (`RunSet`,
`RunOther`, `Reject`). The shell's buffer is kept whole: behind a line's `'\0'`
lie the ends of earlier lines, and `_process_string` and `_process_unknown` look
for their delimiter there too, and behind the buffer if it has none: there it may be
found anywhere (`LoopEnds`, up to `MemSize`, the end of what may be read). That there
is one, as on the screen, is assumed. Every word of a line carries the token a reader
takes it for, which the code's side never looks at; the properties compare the
two. Command names are one letter, and the longest name, number and table are
small.

What a reader takes a word for is `Reads`, with `Numbered` for a number's value as
it is written in its base; `WordsAssumption` says that the words of `Lines` carry
that token, and TLC evaluates it for the words of `BootShellMC`. Words that the
lexer takes for several tokens, such as `1x`, are not typed.
`LinesAssumption` types them and keeps the empty line among them.
`NumbersAssumption` says that the longest numbers of each base fit (8^10, 10^9 and
16^8 against 2^32 in the code), and `RoomAssumption` that no line comes so near the
end of the buffer that what lies behind it could complete a short string
(the console takes lines of at most 128 characters, the shell's buffer has 512). A string that
does not end is `Open`: what becomes of it depends on earlier lines, so the
properties are about lines without one (`Terminated`). A boolean is read from one
byte of the number (`var_table.c:125`); `StoreAsTyped` is about lines that give it
such a number (`OneByte`). Both kinds of line are typed in between.

## Runs

| run | checks | bounds |
|---|---|---|
| `timer_list` | all safety properties of `TimerList`, and that it implements `TimerSet` | 3 timers (a middle node to remove), timeouts 0 to 2 (disabled, last tick, one more), symmetry |
| `timer_returns` | every call returns | 2 timers, no symmetry (liveness) |
| `timer_tick_skips` | violation: a tick counts every listed timer | 2 timers |
| `fat16_load` | loaded bytes, search, partition limits, failing reads | a file behind a deleted entry, a subdirectory or a label of its name, with and without a look-alike behind it; chains ended by 0xFFFF or 0xFFF8; up to 3 clusters anywhere among 4, 1 or 2 sectors per cluster, partition 0 or 1, partition shorter than the volume or not, buffers smaller and larger than the file |
| `fat16_geometry` | violation: the loaded bytes with a root directory of 10 clusters | the same |
| `ata_read` | data and errors of a read, commands only to a drive that is ready, calls return but in two named cases | 3 sectors (one asked for, one before, one never) of 3 words (first, middle, last); a drive that is there or not, every outcome of every command |
| `console_kernel` | types, hand-over of lines, handlers in place, the screen against the buffer, keys are handled, lines are fetched | screen of 2 rows and 3 columns: the shortest prompt and buffer wrap and scroll; buffer of 2; cursor rows modulo 4: one beyond the screen on either side; one queued key: every later key can be pressed at once, so more in the queue adds nothing but time |
| `paging` | cached translations, the lookup, frames, and that the tables implement `PageMap` | pages of 4 bytes, 5 entries, 2 low tables and a high one; client addresses in a low page mapped to itself, behind a table that does not exist, in the high table, in the middle of a page, in the directory's own entry; frames in range, odd and out of range |
| `elf_map` | the image after the jump, memory elsewhere, the identity map, `elf32_map` returns | the same paging; all pairs of 20 segments: two texts, two data, two longer than a page, one not loadable, five at addresses mapped to themselves before, eight that are refused, one or two for each reason |
| `boot_shell` | a line is understood, variables hold what was typed | 24 lines over words for each token and each error, tokens up to 2 characters, vector of 4, table of 2, numbers up to 8 bits |
| `frames` | the bitmap implements the set of frames | 2 words of 3 bits, pages of 8 bytes, 4 aligned addresses in each, and every address from below `PADDR_MIN` to behind the last frame |
| `kprintf` | the field, the bounds of the scan, the screen | every subset of the flags, widths none, 1, 4 and 10 (two digits), precisions none, empty, zero and 2, every conversion, numbers at both signs' ends with 5 bits; `*` and numbers beyond an int for either; all 4-call sequences of 5 texts on a screen of 2 by 3 |

Every property of a passing run has a mutant of the code (an operator beside
the one it replaces, marked "Mutant") that violates it.

### What the runs show

* The list code withstands a tick between any two statements: the check of
  `in_list` before `cli` is stale at times and no harm is done, and clearing a
  removed timer's pointers after `sti` does none either.
* A tick does not count every timer. `timer_list_update` reads `tmr->next` after
  `timer_list_remove_timer` cleared it, so the walk stops behind the first timer
  that triggers. `SkipOnlyBehindTrigger` says that this is the only way to miss a
  tick, and `NeverEarly` that the error is on one side only.
* `fat16_load` is right when the root directory takes eight clusters
  (512 entries and 4 sectors per cluster, for instance) and wrong otherwise. Its
  loop knows one end mark, 0xFFFF (`drivers/fat16.c:464`): a chain that is too short
  for the file and ends in another is followed into a cluster that is none, so
  `Loadable` asks for that mark or for a chain as long as the file.
* A call of the drive polls for ever in two cases, which `CallsReturn` names: no
  drive (`ata_init` waits for RDY at `drivers/ata.c:253`, so that `_identify`'s
  branch "drive does not exist" is never reached), and a command that ends in an
  error without data (the loops at lines 372 and 448 wait for DRQ before ERR is
  looked at). `NoDrive` and `NoData` are no exemptions from fairness: in both the
  driver has no step left.
* The kernel's `get_line` owes the answer to a clear to the fact that it returns
  with interrupts off; the one pass that is entered with them on, the first,
  forgets a clear that falls into the redraw.
* The loader's error shell cannot be used: `main` clears IF at its beginning
  (line 39) and never sets it, so the shell halts for ever (`KeysHandled`).
* A key that waits in the keyboard when the kernel initialises the PIC makes the
  kernel deaf: the request is cleared, nothing reads the controller's buffer, and
  its line does not rise again. `KeysHandled` is about runs without that.
* No interrupt finds a handler that is gone: the loader leaves its lines unmasked
  and its table behind, and the kernel sets IF only after both are put right.
* Ctrl-L with characters in the buffer, and erasing before the redraw, takes the
  cursor out of the screen; `EchoShown` holds again from the next clear on.
* `kprintf` writes the field that `Field` says. That is C's, with these differences,
  which the code shares with the Linux 0.01 function it was taken from: `0x` stands
  before a zero too (`%#x`), `0` before an octal zero (`%#o` prints `00`), a zero with
  precision zero is printed (`%.0d`), `+` and blank also go with unsigned
  conversions (`%+u`), and the flag `0` fills when there is a precision.
* A key that falls into the first prompt's or greeting's write can cost the kernel's
  main thread its registers (`"lost"`); `KeysHandled` and `LineTaken` are about runs
  without that.
* Nothing is lost at the end of a row or of the screen, and the most negative
  number prints right.
* The allocator never hands a frame out twice, and an address below `PADDR_MIN`
  frees none.
* `paging_map` and `paging_unmap` leave no stale translation, and the lookup
  through the last entry agrees with the processor for every address, although
  the alignment test accepts addresses in the middle of a page and
  `page_tables_get_paddr` returns 1 where 0 is tested for: the second is caught
  by `page_dir_set_entry`.
* A well-linked image (page-aligned segments that share no page) is in place when
  `main` jumps, and a refused one leaves the loader's memory and the identity map
  as they were. Without page alignment neither holds: a segment that begins at a
  multiple of 1 KiB writes its first bytes through a page not mapped for it.
* A line is understood whatever was typed before it, provided its strings are
  terminated. An unterminated string can be completed by what an earlier line
  left behind the `'\0'`, and the command is then run with it. A scan that leaves
  the buffer altogether ends in a refused line.

### Where code and comments differ

The properties are silent where a comment says one thing and the code does another,
so that passing them takes neither side:

* `lib/string.c:60` has it that "all n characters were compared"; `strncmp(a, b, n)`
  compares n - 1. `FoundIsFirst` is about names that this does not confuse.
* `kernel/lib/frame.c:101` asks "page-aligned address?" and tests against 0x3ff, a
  quarter of a page, as `include/mm_common.h:18-20` does for paging. `FrameSet` leaves
  open what such an address does, and for paging the properties are about the page
  it lies in.
* `lib/kstdio.c:189` and `204` say of a `*` "it's the next argument"; its argument is
  taken, but the `*` is not skipped and ends the directive, so that `%*d` prints
  `%*d`. `FieldAsAsked` is about directives without one.

A comment that contradicts what the code does to what a property is about is a
finding of `PROJECT.json`: the tick and the root directory's eight clusters.

### What the properties leave out

* `FramesInRange` is about clients that pass no address at which the sum of
  `mm/paging.c:96` wraps around (`NoWrap`).
* `EchoShown` is not about the screen after a write that the handler ran into
  (`Garbled`), nor about the prompt that answers a clear of the first pass (`shown`).
* `KeysHandled` is not about a kernel that a waiting key made deaf (`deaf`), and like
  `LineTaken` not about a main thread that lost its registers. The other invariants
  hold in the model then too, but say only what the handler does.
* `ImageInPlace`, `OthersKept` and `Answered` are about well-linked files.
* `LineUnderstood` and `StoreAsTyped` are about lines whose strings end
  (`Terminated`), the second about numbers of one byte where a boolean is set.
* `LoadedIsFile` and `FoundAndLoaded` are about drives whose root directory takes
  eight clusters; the run that shows why is `fat16_geometry`.

### Fairness

`TimerList`: weak fairness of the handler and strong fairness of the steps of a
call. A tick comes every 25 ms and an operation takes microseconds: ticks can
interrupt a call but not keep it from its next step. `Ata`: weak fairness of
driver and drive; the loops poll for ever and a drive ends what it began. (The
comment at `drivers/ata.c:69-70` expects drives that hang with BSY set; the driver
has no timeout for them, and with one no call would return.)
`Console`: weak fairness of the shell, strong fairness of the handler: an
interrupt that is pending when `sti` is executed is taken soon, even though IF
is set only for moments. This rests on how the kernel is built: its `CFLAGS` ask for
no optimisation, so that instructions stand between `sti` and the next `cli`; the
processor takes no interrupt before the instruction behind `sti` has ended, and a
`cli` there would shut the window. `ElfMap`: weak fairness of the loader's own next step;
there is one thread, interrupts are off and no step waits for a device.
Nothing is fair to whoever starts calls or presses
keys. Runs switch the deadlock check off where a system may really stop: no call is
due after a failed initialisation (`Fat16`, `Ata`), the loader's shell halts and
a deaf kernel gets no key (`Console`), and a script of calls ends (`Printf`).

Type invariants that are proved are not among the properties of the runs, nor
is that of `ElfMap`, whose other invariants would not hold without it.

## Proofs

`TimerListProofs` proves, for every finite set `Timers` and every `MaxTimeout`,
with the assumptions `NullAssumption` (the null pointer is no timer),
`TimersAssumption` (finitely many) and `TimeoutAssumption`:

    Spec => [](TypeOK), LinksAgree, HeadReachesAll, TriggeredNotListed, NeverEarly,
            WalkVisitsOnce, SkipOnlyBehindTrigger, ListedAsAsked
                                                and      Spec => TimerSet's Spec

The invariants are not inductive alone. `IInv` adds

* `Sections`: inside a `cli` section IF is clear and the handler is not running,
  and what the section's step assumes of `inList` holds;
* `Operand`: what each `pc` implies for the timer the call is about;
* `Detached`: a timer that is not linked has null pointers, but for the steps
  between unlinking and clearing them;
* `Counting`: counters, ages and the timers already counted in this tick;
* `Walk`: the handler's cursor is linked and not counted yet;
* `Ordered`: the linked timers have ranks that grow along `next`. This says that
  the links have no cycle without naming the sequence they make up;
* `Behind`: until a timer triggers, each timer still to be counted is the walk's
  place or has its predecessor still to be counted;
* `Asked`: `asked` against the list, with the call in progress.

There is a lemma per group of conjuncts (`TypeStep`, `SectionStep`, `LinkStep`,
`CountStep`, `WalkStep`, `AskedStep`, `OrderStep`, `BehindStep`), each with a step
per action, and `RefinementStep`, which maps every step to a step of `TimerSet` or
a stutter. `HeadReachesAll` is stated with a recursive function; `ChainIs` unfolds
it, and `ReachAll` adds that the ranks make the places distinct, so that a chain
of linked timers that went on would need more timers than there are.

`MappingProofs` proves of `Paging`, for any page size, number of entries, number of tables
and clients' addresses that satisfy `SizeAssumption`, `MemoryAssumption` (the
directory and the tables are in different frames, and the low tables cover the
memory there is), `ClientAssumption` and `NoneAssumption`:

    Spec => [](TypeOK), TlbFresh, FramesInRange, LookupAgrees
                                            and      Spec => PageMap's Spec

The inductive invariant `IInv` adds to these

* `DirRight`: a directory entry names the table of its own index, or is the last
  and names the directory; `SelfMapped`: once paging is on it is there;
* `Untouched`: a table is empty while its directory entry is. Without this the
  directory entry that `paging_map` adds could bring entries to light that
  nobody mapped, and the step would not be a stutter of `PageMap`;
* `Calling`: what a call in progress is about to write is in range, and its
  directory entry is present;
* `PagingOff`: the processor keeps nothing before paging is on.

Facts about the parts of an address (`AddressParts`), about table indices
(`TableFacts`, `ArrayIdxOne`: no two share a place in the array) and about a
walk (`WalkFacts`) are lemmas. Each action has its step lemma; `StartMapRefines`,
`StartUnmapRefines` and `WriteRefines` map the steps of a call to `Ask`,
`Change` or a stutter.

`FrameProofs` proves, for a bitmap, words, pages and an alignment unit of any
size that fit into the address space and divide one another as they do in the code
(`SizeAssumption`), `Spec => []TypeOK` and
`Spec => ImplementsFrameSet`. Type correctness is inductive alone; the refinement
rests on arithmetic: `DivModUnique` gives that an address lies in one frame only,
and the lemmas on `PageNum` that the word and the bit found are those of that
frame, or lie behind the bitmap when the subtraction wrapped around.

`AtaProofs` proves, for any sectors and any number of words (`WordsAssumption`,
`IdentifyAssumption`), `[](TypeOK)`, `DataIsSector`, `FailureHasReason` and
`CommandWhenReady`. `IInv` adds `PhaseAt` (what the drive can be doing at each
place of the driver: in particular it is not accepting or busy when the driver
thinks it is done), `Handing` (words left and words read make up a sector),
`Asked` (the drive's address is the caller's once the command is written) and
`Answered` (ERR and the outcome agree).

`ConsoleProofs` proves, for a line buffer, a queue and a screen of any size and
any set of keys,

    Spec => []TypeOK, HandlersReady, NothingDropped, LineAsEntered, EchoShown

`SizesAssumption` says that a prompt and a full buffer leave one row of the screen
free, and that a full buffer erased above the screen does not take the cursor once
around its byte (128 characters against 25 rows and 231 rows of 80 in the code);
`CharsAssumption` that no key but Enter stands for a newline and none for a tab.
`IInv` adds `Latched` (a request has a key behind it), `ShutOut` (where IF is
clear: in all of the loader, until `kmain` is ready, and from get_line's look at
the line to the next prompt), `Booting` and `Connected` (what has been initialised
where), and `Fetching`. What a key can do to the line is one lemma (`Edited`).

The screen has an invariant of its own, `Quiet /\ Drawn`. The cursor is counted in
cells from the first one on (`Place`), negative in the rows its byte wraps to.
`Tame(s, low)` says that the cursor is at `low` or behind and everything behind the
cursor is blank; `Shows(s, text, n)` that the first `n` characters of `text` stand
just before it. `Drawn` is that the screen is `Tame` with what may still be erased
left over, `Shows` the prompt when one was written, and `Shows` the prompt and the
line where get_line waits; `Quiet` is where the main thread can be interrupted, and
that a line which is not written again is empty. What single operations do
(`LineFeedDoes`, `WriteCDoes`, `PutcAttrDoes`, `CursBackwardDoes`, `RuboutDoes`) is
arithmetic on rows; what a string does is induction over its length
(`PutsSteps`, `RuboutsSteps`, from `FoldExists`).

The same module proves of `Printf`, for every range of integers, set of
characters, screen size and set of scripts that satisfy the assumptions named with
the module,

    PrintfSpec => []WithinFormat, OutputShown, FieldAsAsked

(the last, as in the runs, for formats that spell a directive without `*`, with
numbers that fit an int).

`WithinFormat` follows from `PrintfInv`, which adds `Scanning` (a directive's part
is read behind a `%` with nothing but modifiers between) and `Arguments` (the
arguments taken are counted against the places of the format that take one, a `*`
being one ahead of the scan). `OutputShown` rests on `Showing`: what was written
so far lies on an endless roll of rows of which the screen is the last; the lemmas
on what a character and a string do to a screen are those of `Console`.

`FieldAsAsked` compares the field with `Field`, which is written from the
directive that is meant and not from the code, so it takes an invariant about the
scan, `FollowsAsked`: where the parts of the asked directive lie in the format
(`AtSign` to `AtConv`, one behind the other by `PartsLie`), what the scan has made
of those it has passed, and behind the directive that the field is written; and
`AtEnd`, that nothing is shown before the format's end. TLC checked the invariant
on the run's instance before it was proved. What the loops compute is by
induction: `NumeralIs` (the remainders of `do_div`, taken from the end, are the
digits by their places), `AtoiDecimal`
(`skip_atoi` reads back the decimal that is written) and `NumberIsPadded` with
`PaddedIs` (what `number` counts down from the width is the padding of `Field`).

`Fat16Proofs` proves, for every drive geometry, sector size, set of names, buffer
sizes and set of drives (`GeometryAssumption`, `SizeAssumption`,
`CallerAssumption`, `DisksAssumption`, which only types a drive),

    Spec => [](TypeOK), OneBootable, ReadsInPartition, FoundIsFirst

The inductive invariant `IInv` adds `Tables` (the partition table is untouched or
what `mbr_init` made of the drive's), `Mounted` (the volume's parameters are the
drive's) and `Searching` (no entry passed would have matched). Under it are the
lemmas on addresses: `ChsIsLba` (the way through cylinder, head and sector ends
where it began), `HddRight` (what passes `_rel2abs_sector` is in the partition),
`EntryRead` (`_rootdir_get_entry_num` comes to the entry asked for).

For drives that are `Loadable` it also proves `Spec => []LoadedIsFile`
(`LoadRight`). `Loadable` is what the code takes for granted: a root directory of
eight clusters, a chain without repetition of numbers a formatter uses (at most
65519, so that the eight fit into 16 bits), and that the chain is the found
file's and, unless it ends in 0xFFFF, as long as the file. `LIInv` adds `Loading`: the copy so far is the file's beginning, and the
cluster is that of the byte copied last. `ClusterOfByte` and `CopySector` carry
it over a step; `NextInChain` says the FAT's entry is the next cluster of the
chain. `Fat16MC` checks by an assumption that its drives of eight clusters are
`Loadable`; `fat16_geometry` shows the assumption is needed.

For drives that are `Complete` as well it proves `Spec => FoundAndLoaded`
(`LoadSucceeds`). `Complete` says that the volume lies on cylinders the driver
reaches and holds the root directory, the FAT and the clusters its parameters and
its chain name, that the directory has no gap before its end, and that where a
search for one of the callers' names ends is a file with clusters enough for its
size; `Fat16MC` checks it of its drives. `FInv` adds `Served` (a partition of the
table is mounted) and `Started` (`Copying` for whatever file the search came to,
and a chain as long as the file). Then no step fails by itself: `EntryReached`,
`ClusterReached` and `FatReached` say that the sectors it asks for pass every test
on the way to the drive, `SearchGoesOn` that the directory does not end before the
name, and `ChainIsLeft` with `ChainGoesOn` that the FAT does not end before the
file.

`NumberFacts` has the facts about quotients and remainders that `FrameProofs`,
`Fat16Proofs`, `MappingProofs`, `ConsoleProofs` and `BootShellProofs` share, and what takes the place of
the library's induction theorems, whose operator parameter no prover can
instantiate: `NumberInduction` is about a set of numbers, `Recursion` about the
sequence a function of functions yields, and `FoldExists` about a fold over
`1 .. n`, by which `FoldLeft` is computed. `FoldIs` gives the
values such a fold goes through, all in a set the operator keeps to. `Descent` is
about a function that calls itself on a smaller number, as the digits of a number
do on its quotient.

`MappingProofs` proves of `ElfMap`, for every page size and memory, every set of files that
satisfies `FileAssumption` and `ImageAssumption` (which the code does not enforce,
see above), and a `PADDR_MAX` that is the
last byte of a page (`WholePages`; 15 MiB - 1 in the code),

    ElfSpec => []IdentityKept, OthersKept, ImageInPlace

It stands on the invariant of `Paging`: `BInv` is `IInv` with `NoFail` (no call
of `paging_init` is refused, which is a fact about addresses: `PageAccepted`),
`Looping`, `CallPlace` and `Ident`, which say how far the loop has come and what
the low pages hold or are about to get (`Due`), `NullGone`, and `LowFresh`: a
cached translation of a low page that the image does not ask for is the table's
even while a call runs, because `elf32_map` asks for none of those (`DstFacts`).
`Working` ties `elf32_map` to
the calls it makes. `Progress`, for the files `WellLinked` describes, is `Asking`
(the call that runs is for the byte that is due), `Within` (inside a page its
mapping is there), `Copied` (earlier segments and the bytes before the one due
are in the tables and in memory) and `OthersKept`. That a page mapped later does
not disturb one in place is `Elsewhere`, from segments that share no page
(`Apart`) and a page having one place in the tables (`PlaceOnce`,
`ArrayIdxOne`); that the byte read is the file's is `Source`, from the identity
map and `OthersKept`.

`BootShellProofs` proves, for lines, buffer, vector, table and numbers of any size
that satisfy the assumptions named with the module,

    Spec => [](TypeOK /\ ScanInBuffer), LineUnderstood, StoreAsTyped

`Typing` keeps the end of the buffer, from `Room` on, at `'\0'`: no line is written
there, so every scan for a character that is not in a token ends before it. The two
loops that look for one character (`LoopEnds`) may leave the buffer; what they then
take is too long for a token or refused anyway, so that while tokens are taken the
scan is inside (`ScanStays`).
`Understanding` adds, for a line whose strings end, that the buffer holds its text,
that the tokens taken are those of its first words, and that the scan stands behind
the last of them (`Reading`). Where the words lie in the text is `Laid`, by
induction over `FlattenSeq`'s fold (`TextShape`). `WordTaken` is the step for one
word, with a lemma for each form `Reads` allows: its first character alone decides
which function takes it (`WhichTakes`), the scan stops at its end (`WordEnd`), what
is copied is the word (`WordCopied`), and the converters' arithmetic modulo 2^32
gives the number as written, because as many digits as they accept fit (`NoWrap`,
an octal number's leading zero not counted). For the table, `Distinct` says that no
two entries are the same variable, so that the table has room exactly while it holds
fewer than `TableLen` (`RoomInTable`), and an entry written replaces its variable
and no other (`Written`).

Only model-checked: the liveness properties, `Answered` in `ElfMap` and
`LineTaken` in `Console` among them, which take fairness and `ENABLED`. Every
safety and action property of a passing run has a theorem.

## Plan

The order followed importance: the code that runs against interrupts first, then
what reads the disk, then what writes memory.

1. Done: `TimerSet`, `TimerList`, `TimerListProofs`; `Hdd`, `Fat16`,
   `Fat16Proofs`; `Ata`, `AtaProofs`; `Interrupts`, `Screen`, `Console`,
   `ConsoleProofs`; `PageMap`, `Paging`; `ElfMap`,
   `MappingProofs`; `BootShell`, `BootShellProofs`; `FrameSet`, `Frame`, `FrameProofs`; `Printf`, proved about in
   `ConsoleProofs`.
2. An abstract store of typed variables that `BootShell`'s table implements, in
   place of the action property.
3. An abstract file system that `Fat16` implements, of which `LoadedIsFile` and
   `FoundAndLoaded` are the two halves.

## Not modelled

The boot stages in assembly and the display functions: straight-line code over
constants or pure output. Of the tables only the gates of the two lines that are
in use: segments are flat and never change, the handlers of exceptions display
and halt. Of the PIC the slave, which has no line in use. Of the screen the
colours, the hardware's cursor and the blue screen of `vga.c`; of the keyboard
the shift keys, which choose between two characters. `kprintf` never checks the
size of its buffer (`BUF_SIZE`): what a longer output overwrites is not modelled,
nor are the string functions other than `strlen` and what `strncmp` does to names.
Timers are used by no code that is compiled in, and nothing calls the frame
allocator yet; they are modelled as the libraries they are. The identification
sector's contents, from which the drive's geometry comes, are constants of `Hdd`.
