# A TLA+ model of AlmaOS

AlmaOS is a small 32-bit x86 operating system: a boot sector and a second stage
that read a kernel from a FAT12 floppy, and a single-address-space kernel with
interrupts, a keyboard, a text console mirrored on COM1, a shell, BIOS video
services reached through a real-mode trampoline, and a software rasterizer.
This directory holds TLA+ modules that model it, TLC configurations that check
them, and proofs of some of their properties. Paths below are relative to the
repository (`src/kernel/...`, `src/bootloader/...`).

## 1. Inventory

| component | state it keeps | operations | talks to |
|---|---|---|---|
| keyboard driver, `keyboard.c` | ring `kb_buffer`/`kb_head`/`kb_tail`; modifiers `kb_shift`, `kb_altgr`, `kb_caps`; pending prefix `kb_ext`; three table pointers | `keyboard_handler` (IRQ 1), `keyboard_read`, `keyboard_getchar`, `keyboard_has_data`, `keyboard_set_layout` | port 0x60; the shell and the video commands through the ring |
| interrupts, `idt.c`, `isr_stubs.asm`, `pic.c`, `pit.c`, wrappers in `kernel_main.c` | IDT, handler table, the PIC's mask/request/service registers, `tick_count` | `isr_dispatch`, `pic_send_eoi`, `pic_set_mask`, `pit_handler` | every driver |
| serial port, `serial.c` | `serial_enabled`, the UART | `serial_putchar`, `serial_has_data`, `serial_getchar`, all polled | `vga_putchar` mirrors its output; the shell reads it |
| shell, `shell.c`, `root/echo.c` | `cmd_buf`, `cmd_len` | `shell_read_char`, `shell_run`, `execute_cmd`, the commands | keyboard, serial, VGA, commands |
| VGA text, `vga.c` | row, column, attribute, the text memory | `vga_putchar`, `vga_clear`, `vga_scroll`, `vga_printf` | serial |
| getopt, `getopt.c` | `optind`, `optarg`, `optopt`, `_next` | `getopt`, `getopt_long` | meant for the built-in commands; none calls it yet |
| page allocator, `kalloc.c` | region base, capacity, offset | `kalloc_init`, `kalloc_pages` (no free) | the E820 map in boot_info; `gfx_bridge.c` |
| real-mode trampoline, `realmode.c/.asm` | transfer state at a fixed address, PIC masks around a call | `realmode_init`, `realmode_int` | BIOS, PIC, IDT register |
| video, `video.c` | `current_mode`, `vbe_available` | `video_init`, `video_set_text/vga13/vbe` | trampoline |
| bridge and commands, `gfx_bridge.c`, `cmd_video.c` | bridge framebuffer and depth buffer, `bridge_mode`, `bridge_ready` | `gfx_bridge_init/present`, `mode`, `gfxdemo` | kalloc, video, keyboard, serial |
| stage 1, `stage1/boot.asm` | registers, fixed buffers | search the root directory, follow the FAT, load stage 2 | BIOS int 13h |
| stage 2: `disk.c`, `fat.c`, `memory.c`, `main.c`, `x86.asm` | open-file table, FAT cache, E820 table, bump allocator | `DISK_ReadSectors`, `FAT_Open/Read/Close`, `MEMORY_*`, `cstart` | BIOS; hands boot_info to the kernel |

Not part of the system's own logic: `third_party/` (vendored rasterizer),
`tools/`, `protected/` and `kernel/main.asm` (demonstrations), the formatting and
string code.

### What is hard here

There is one CPU and no threads, so concurrency is interrupts against the code
they interrupt, and devices against both. The keyboard ring is shared without a
lock; `hlt` is executed after polls that an interrupt may have made stale; IRQ 1
is an edge and the PIC must be acknowledged exactly once per handled interrupt;
IRQs left unmasked by the BIOS have no handler and get no acknowledgement. A BIOS
call exchanges the whole environment an interrupt would meet. The
keyboard protocol is stateful: prefixes, modifiers and layouts must be right
when a byte is *handled*, which may be well after it was sent. The allocators,
the disk readers and getopt are sequential, and what is hard in them is arithmetic at
boundaries, state that survives a call, and errors part of the way through; for the
video commands, it is what is left on the screen and in memory when one step of
several fails. `PROJECT.json` lists these
hazards with the lines where they bite, including those not covered.

### What makes each component correct

* keyboard ring: a bounded FIFO that gives up the newest character; the reader
  never returns a character that is not the oldest one.
* decoder: the modifiers are those of the keys held; each key decodes to the
  character its cap shows, however late its byte is handled.
* interrupts and shell: no byte waits without an interrupt to fetch it; the PIC
  and the CPU agree on what is in service; input always reaches the shell; the line on
  the screen is the line that Enter runs, and a command gets its words.
* VGA text: the cursor never leaves the screen, since nothing tests the cell written.
* kalloc: the region is memory the firmware reported, the best such region;
  blocks are inside it and disjoint. Stage 2's heap and it never share a byte.
* trampoline: no kernel vector is reached through the BIOS's table and the masks
  are what they were.
* video: `current_mode` is the mode on the screen, the mode is the best for what was asked;
  bridge: a frame fits its buffers and shows the colours drawn; `gfxdemo` ends, and ends
  in text mode.
* boot: both stages ask the drive for the sectors they mean; stage 2 and the kernel are
  entered only when all of each is in memory; every boot ends.
* FAT reader: the bytes returned are the file's; a short count is reported.
* getopt: what the arguments mean, each option once and with its own argument.

## 2. Modules

```
LossyFifo <- Keyboard <- MCKeyboard (with Scancodes)
LossyFifo <- KeyRing (implements it) <- Console <- MCConsole, ConsoleProofs

Keyboard, RealMode <- InterruptProofs
RealMode  <- MCRealMode
VgaText   <- Shell, VgaPrintf <- ShellProofs, MCShell
Getopt    <- GetoptProofs, MCGetopt

Kalloc    <- BootMemory <- MCBootMemory, MemoryProofs
Kalloc, Video <- GfxBridge <- CmdVideo <- MCCmdVideo, CmdVideoProofs (with MemoryProofs)

Chs       <- Stage1, Fat12
Volume    <- Stage1, Fat12 (implements Files)
             Fat12 <- MCFat12, FatProofs, Stage2
             Stage1, Stage2 <- Boot <- MCBoot, BootProofs (with FatProofs)
```

An arrow points to what is extended; KeyRing takes LossyFifo, and Fat12 takes Files, by INSTANCE, and
the proof modules of compositions also extend those of their parts.
Each `MC` module gives a specification the constants of its runs. Definitions that follow a comment "A ... that
..." and change one thing of their neighbour (`TableFull`, `PushNoWrap`) are used by no
behaviour: they name the mistakes the properties are tried against.

**LossyFifo** is the abstract specification of the keyboard buffer: `queue`,
`result`; `Offer` appends or discards, `Take` returns the oldest character,
`Miss` returns NUL.

**KeyRing** is the buffer of `keyboard.c` as the compiler sees it. `Push` is
`kb_push`, one step because an interrupt gate clears IF. The reader is cut into
its accesses of the volatile variables: `CheckEmpty`/`CheckData` (the comparison),
`Load`, `Advance`, and for `keyboard_getchar` `Halt` and `Wake`. Between any two
of them `Push` may happen. The comparison reads two variables but only `kb_head`
can move under it and only the reader moves `kb_tail`, so it is one step.
`Contents` maps the ring to the abstract queue.

**Keyboard** is the decoder, with the buffer in its abstract form (which KeyRing
is proved to implement). `KeyboardHandler` takes the oldest byte of `wire` through
the branches of `keyboard_handler`: `Prefix`, `Release`, `MakeShift`, `MakeCaps`,
`MakeAltGr`, `MakeChar`. `SetLayout` and three `StoreMap` steps are
`keyboard_set_layout`: its pointers are not volatile, so the order of the stores
is the compiler's. The user and the cable are the environment; each byte carries
two ghost fields, the layer and the Caps Lock state when its key went down,
which only properties look at. **Scancodes** is the six arrays themselves, which `MCKeyboard` takes
its entries from; the proofs hold for any tables.

**Console** composes KeyRing with the timer, the PS/2 controller, the PIC, the
UART, the two IRQ wrappers and `shell_read_char`. `Accept` is the CPU taking an
interrupt, `TimerHandler`, `KbdHandler`, `NoHandler`, `Eoi`, `Iret` are the
stations of a handler; devices go on between them. The shell's polls, its calls
and its `hlt` are steps of the main context, which runs only when no handler
does. `Stray` are IRQs that nobody registered: `isr_dispatch` returns without an
EOI (IRQs of the slave PIC reach the master as IRQ 2). The variable `rpc`
of KeyRing is the position inside `keyboard_getchar`.

**RealMode** is `kernel_main` from its entry to the shell, then any number of BIOS
calls: `realmode_int` of `realmode.c` and the stub of `realmode.asm`, one step per
instruction that changes what an interrupt would meet (IF, CR0.PE, IDTR, the two
mask registers). `ReadMasks` to `RestoreSlave` follow the text of the code; `BiosToggles` and
`BiosReturns` are the BIOS, which may execute `sti` and `cli` as it likes. It is taken
not to unmask an IRQ and to return. Requests arrive at any time on either PIC; `Accept`
leaves out priorities and the in-service register, which Console has, and so allows
more than the hardware does. `AcceptSpurious` is the IRQ 7 an 8259 answers with when the
request that raised INT is masked before the acknowledge. An interrupt met in the wrong
environment never returns. Every initial value of the masks is covered.

**VgaText** is `vga.c` without colours: `Putchar` with its four control characters, the
wrap of a full line and `Scrolled`. **Shell** adds the line editor (`Enter`, `Erase`,
`Store`, from the keyboard or the serial line), the tokenizer one word at a time
(`SplitWord`, in place, with its limit of words), and `Dispatch`, which starts a command.
`out` is what remains to be printed, one `Putchar` a step; a command is the text it prints.
`typed` remembers the line for the property. `mode` and `gfxdemo` are in CmdVideo.

**VgaPrintf** is `vga_vprintf` as a function from a format and its arguments to the
characters printed: `VPrintf` walks the format (`Printed`, a recursive function), `PrintUint` and `PrintInt` are `print_uint`
and `print_int` (the least digit first, padded, then reversed), and `TicksText` and
`MemText` are what `ticks` and `mem` print with them. It has no state. The text of `ticks`
in the shell's run is made by it, and MCShell states as assumptions, which TLC evaluates
before the run, what the functions promise on a few hundred words of 16 bits: a number comes
out as digits that stand for it (`ShowsNumber`, `ShowsInt`), within the twelve characters of
`buf`, and `mem` prints a line per entry whose first byte, last byte and size are those of
the region. The numbers are proved too, for every value, width and padding, and so is the line
of a region; that `mem` prints one per entry is checked on these inputs.

**Getopt** is `getopt.c`, one call a step, with `optind` and `_next` (`next`, the letters
that remain) surviving from one parse to the next, as they do in the code. `Meaning` reads
an argument vector from left to right, without either variable: `Reading` is a function that
recurs over the arguments, and `AddToken` says what one more of them adds.

**Kalloc** is `kalloc.c`: `KallocInit` is its entry, `ScanEntry` one turn of the loop,
`KallocPages` one call. Widths are constants (`W32`, `W64`), so the same text is
checked on a 5-bit machine and proved for every width.

**BootMemory** is where the map comes from and who else uses it: `E820Entry` is one call of the
firmware's E820 service, `E820Fails` any of the ways `x86_Memory_GetMap` fails (a full
table, the carry flag, also as a sign of the end), `HeapFromMap` and `HeapAlloc` the
allocator of stage 2 with its far pointers, `WriteBootInfo` the hand-over; then
Kalloc runs on what boot_info says. `cstart` itself asks its allocator for nothing, but hands it over
in boot_info; `HeapAlloc` is any caller.

**Video** is `video.c`: the record `current_mode` next to `adapter` and `dac`, what the
hardware is really in. `Listed` to `Found` are the choice of `video_set_vbe`: the list is copied
before the first 4F01 call, which may overwrite it, and the first of the best-scoring modes is kept.
A BIOS is a list of modes, each with its attributes; it may refuse any VBE switch.
**GfxBridge** is `gfx_bridge.c` over Video and Kalloc: `BridgeStart`, `BridgeColour` and
`BridgeDepth` are `gfx_bridge_init` up to each of its early returns; `DrawFrame` converts one
pixel, which stands for them all, by the branch of the mode. **CmdVideo** is `mode` and
`gfxdemo` on top: `ParseModeSpec`, `ApplyMode`, the loop frame by frame, and the exit that
takes one key and one serial byte. Keys and bytes arrive at any moment.

**Volume** is the FAT12 layout both stages find: a byte is named by its place on the disk and a
buffer by the sector in it, so delivering a wrong byte shows while no file contents are
modelled. Only the bytes of the FAT, unpacked as the code does, and the directory entries are data.
Its assumptions are what a volume must be for the boot to succeed: regions that do not overlap
(`VolumeAssumption`), chains of data clusters that the FAT's entries link and end (`ChainAssumption`),
files with enough clusters for their size and a chain of their own (`FilesAssumption`). `Stage1Assumption`,
`DiskAssumption` and `KernelAssumption` add what each reader counts on: a cluster of one sector, a single
entry named as the file it looks for, stage 2 within 64 KiB, sector numbers of 16 bits. **Chs** has
the split of an LBA into cylinder, head and sector, done by `lba_to_chs` of stage 1 and by
`DISK_LBA2CHS` with `x86_Disk_Read` in stage 2, and the sector a BIOS makes of the registers.

**Files** is what `fat.h` promises a caller on a readable disk: a table of handles, `Open`,
`Read` of successive pieces, `Close`.

**Fat12** is `fat.c` on `disk.c`. The program counter `pc` stands in `FAT_ReadImpl` (`loop`,
`boundary`, `done`), in the
search of `FAT_Open` (`find`, `opened`, `openNull`) or in `DISK_ReadSectors` (`disk`),
which succeeds, tries again or gives up after three attempts (a buffer holds `Junk` after a
failed one); `io` is where it was
called from. The position is 32 bits wide (`W32`), `min` works on 16-bit ints.
A sector beyond the disk cannot be read. Callers make one call after another, on open
handles only, and with `Careful` they do not take the last handle before opening a path with directories in it.
`Table` hides the file whose call is in progress: that is the refinement mapping.

**Stage1** is the boot sector: the drive's geometry, the search of the root directory entry by
entry (`SearchEntry`), the walk of the FAT (`TableEntry`, with the words past the table being
anything), a read with its retries and the way out through a message and a key. **Stage2** is
`cstart`: `OpenKernel`, one
`ReadKernel` of the whole size, `Leave` with the comparison of the count with
`kernel->Size`. C does not say whether the size is loaded before or after the call,
and the call may change it, so `Leave` allows both. Its memory map is one step that may
fail: BootMemory opens it up. **Boot** runs the two one after the other on one volume and one
drive.

## 3. Runs

| run | configuration | shows |
|---|---|---|
| `keyring` | 4 slots, 2 characters, both kinds of read | types, `ReaderStable`, `UnreadAreChars`, refinement of LossyFifo |
| `keyboard` | left Shift, AltGr, Alt, Caps Lock, Q; 3 bytes in flight; both layouts, with the entries of the source's tables | `ModifiersTrackKeys`, `DecodesAsTyped` |
| `console` | 3 slots, 2 controller bytes, 1 UART byte, one stray IRQ | `NoByteWithoutIrq`, `EoiDiscipline`, `GetcharNeverBlocks`; `InputWakesShell`, `KeyIsHandled`, `ClockGoesOn` |
| `realmode` | IRQs 0, 1, 2, 7 and 9, all 32 initial masks | `RightTable`, `HandlersReady`, `CallLeavesNoTrace`; `ClockSurvivesBios`, `KeyDuringCallIsServed` |
| `memory` | every firmware map of up to two entries on the boundary addresses above an entry around the heap, maps that split the heap's memory, maps longer than the table; 5 sizes, 5 heap requests | `RegionIsMemory`, `BlocksApart`, `LargestRegion`, `MapComplete`, `HeapIsMemory`, `AllocatorsApart` |
| `fat12` | two files, one in a subdirectory, one over two clusters; two handles; reads of 1, 5 and 8 bytes | `BufferAtPosition`, `ImplementsFiles` |
| `boot` | stage 2 and the kernel on one volume, the kernel's entry in the second sector of the root, a drive with more cylinders than their low bits hold; any sector may fail for good | `Stage2Loaded`, `SectorsMeant`, `KernelComplete`; `BootEnds` |
| `shell` | 9 by 2 screen, lines of up to seven characters, one tab or NUL, three words | `CursorOnScreen`, `LineShown`, `ArgsAreWords` |
| `getopt` | vectors of up to two tokens of seventeen kinds, and of three of six kinds; both functions, parse after parse | `Accounted`, `OperandsFollow` |
| `video` | four BIOSes, nine specifications, memory for four 320x200 buffers or none | `RecordedIsShown`, `ModeAsAsked`, `FrameFits`, `ColoursShown`, `TextComesBack`; `InputEndsDemo` |
| `fat12_missing`, `getopt_cluster` | | violations, see section 6 |

### Bounds and why they are enough

* `Size` is 4 or 3 instead of `KB_BUFFER_SIZE`: the ring fills, wraps and empties
  in every alignment; the proofs cover every size from 2 to 256. Two
  characters are enough to see one replaced by another.
* `Capacity = 1` in the decoder's run: the queue is only written there. Alt is there because its code is
  AltGr's without the prefix.
* `WireCap` is 3 bytes: enough for a prefixed modifier and the key it
  modifies to be in flight together.
* `KbcCap = 2` is the least with which one byte hides behind another, which is
  when the edge of IRQ 1 matters. `UartCap` 1 overruns at once.
* `TickMod = 2` makes the wrap of `tick_count` happen all the time.
* RealMode has no bound: its state is finite once the IRQs are fixed. IRQ 9 stands for the
  second PIC, and its bit has the place of the keyboard's in the other byte, so that
  exchanged mask bytes show.
* The machine of `memory` has 4-byte pages, 32-bit addresses shrunk to 5 bits, "1 MiB"
  at 8 and a table of three entries; bases and lengths sit on and next to each boundary, at and
  beyond 4 GiB. Requests that round up past the width, of nothing, and of more than there is occur.
* Fat12's sectors have 4 bytes and a directory entry 1, so that reads start and end at,
  before and after a sector's end; a cluster has 2 sectors and the long file 2 clusters
  out of order, one of an odd number, so that every turn of the walk and both packings of a
  FAT entry occur. Two handles fill the table. In `fat12` the disk fails for good only
  on sectors that are read by `FAT_Initialize` (`Fatal` names them), and up to twice in a row
  elsewhere; in `boot` every sector may fail for good in stage 1, and in stage 2 every one but the
  second of the root directory, without which the search would never end. `W16 = 32`, the range of a
  16-bit int, is above twice the size of any file: files below 32 KiB. `fat12_missing` shrinks the position to 3 bits, which makes the search's
  way round the 32-bit position short enough to print.
* `boot`'s drive has four cylinders of which two fit the low bits, so that half of the
  sectors need the high ones; stage 2 has three clusters in neither order nor place, of both parities.
* `shell`'s screen is so small that what a command prints wraps and that almost every line scrolls.
  `CmdMaxLen = 8` and `MaxArgs = 3` for 64 and 16 let the line fill up and hold more words than
  the table. The edited line fits the screen as it does in the code: prompt and line are at most
  1 + 7 characters on 9 columns, for 8 + 63 on 80, so a line without tabs never wraps.
  `MaxOdd = 1` bounds the tabs and NULs of a session, not of a line.
* `video` has the real sizes of two modes, 320x200 and 640x400, with addresses of 24 bits
  (TLC's numbers have 32), so that real colour, depth and region sizes meet. The copy of
  the BIOS's list holds `MaxModes = 3` of 128, and one BIOS has four. `KeyCap = 2` keys and bytes:
  one for the demo and one typed ahead.

### Fairness

Boot and Fat12 run alone with interrupts irrelevant to them: a step that can be taken is
taken (weak). Nobody has to make a call, nor hit a key after a message of stage 1.

CmdVideo: weak fairness of `Demo`, the command that runs; interrupts are short, as in
Console. Nobody has to type.

RealMode: the timer requests again (weak); a handler ends (weak); the main context goes
on with boot and with a call it has started (strong, for the same reason as below), and so
a BIOS call ends; IRQ 0 and IRQ 1 are taken if they can be taken again and again (strong:
the windows between calls are many instructions long and these are the highest
priorities). Nobody has to make a call.

Console: Weak fairness of `PitFires`,
`Accept(TIMER)` and `Handler`: the 8254 runs freely, IRQ 0 has the highest
priority, and handlers contain no loop. Strong fairness of `Main` and
`Accept(KBD)`: an interrupt can take the CPU again and again, but ticks are 10 ms
and key bytes about 1 ms apart while handlers take microseconds, so the main
context and IRQ 1 get their turn. Nothing obliges a user to type, a serial
line to send or a stray device to interrupt. `InputWakesShell` says that with
input waiting the shell returns *a* character: it is not a promise that COM1 is
served while keys keep coming, and the code gives none.

## 4. Proofs

`ConsoleProofs` begins with the ring alone, for every `Size` in 2..256 and every set of characters
without NUL, assumptions that KeyRing declares:

* `TypeCorrect`, `ReaderKeepsItsCharacter`, `UnreadSlotsHoldChars`: `Spec => []` of `TypeOK`,
  `ReaderStable`, `UnreadAreChars`. None of the last two is inductive alone: that a pending reader sees a
  non-empty ring needs that `Push` never closes the gap to the tail, and that the loaded character stays
  equal to `buffer[tail]` needs that `Push` writes at `head # tail`. The invariant is their conjunction
  with the type; `PushStored` and `AdvanceShifts` say what the two index moves do to `SlotOf` and
  `Count`, with the wrap split into cases.
* `RingRefinesFifo`: `Spec => ImplementsFifo`. `PushOffers`, `AdvanceTakes` and `CheckEmptyMisses` map
  the three visible steps to `Offer`, `Take` and `Miss`; every other step leaves `Contents` and `result`
  alone.

It goes on, for every buffer size, every set of stray IRQs among 2..7 and every bound, with
`ConsoleTypes`, `KeyboardNeverSilent` (`NoByteWithoutIrq`), `EoiRetiresItsSender` (`EoiDiscipline`),
`ShellHearsSerial` (`GetcharNeverBlocks`) and `ConsoleReaderStable` (`ReaderStable` in the composition).
The invariant `ConInv` joins five parts: the ring's own invariant; `MachineOK`, the types; `PortServed`,
a byte waits *exactly* when its interrupt is requested or its handler is about to read, never both (so
that the handler always finds a byte); `ServiceInv`, everything in service but the IRQ being served is a
stray one of lower priority (so that the non-specific EOI hits its sender); `ShellInv`, the reader is
active only inside `keyboard_getchar` and its test finds data, because `kb_push` never makes the ring
look empty.

`MemoryProofs` proves of kalloc.c, for every page size, word width and E820 map without a wrapping entry,
`KallocTypes`, `KallocRegion` (`RegionIsMemory`), `KallocBlocks` (`BlocksApart`), `KallocAlignment`
(`BlocksAligned`) and `KallocLargest` (`LargestRegion`). `BlocksApart` is not inductive:
`BlocksBelowOffset` adds that all blocks end at or before the first free byte and `RegionPaged` that base
and offset are whole pages within the capacity. `ConsideredFits` is the arithmetic of one loop turn: the
64-bit end, the cut at 4 GiB and the 32-bit narrowing lose nothing for an entry that passes the tests.
`LargestRegion` compares the region with the *set* of whole pages of every entry; `PagesAreInterval`
shows that set to be an interval, so that `SizeIsPages` can count it, and the invariant `ScanBest` says
that `best` is the maximum of the entries scanned so far: an entry that a turn skips has no whole page
above 1 MiB.

Of BootMemory it proves, for every firmware map without a wrapping entry, table size, heap and request,
with the heap below 1 MiB as `memdefs.h` puts it: `WholeMapArrives` (`MapComplete`), `HeapSound`
(`HeapIsMemory`), `OwnersApart` (`AllocatorsApart`), and `BootRefinesKalloc`: what stage 2 and the kernel
do together is, for kalloc.c, its own specification with the firmware's map, which brings its theorems along. The invariant `MInv` says for each stage how much of the map the table holds, and that
lent blocks lie in order below the heap's offset; `FarBelowLimit` is why a far pointer names the address
meant.

`InterruptProofs` is about what happens at and around an interrupt. Of the decoder it proves, for every keyboard
whose codes are those of a PC's (`KeysAssumption`: one byte,
or E0 and a byte, breaks with bit 7; one Shift and one AltGr key; no other key with a modifier's code),
every pair of tables and every number of bytes in flight: `ModifiersAgree` (`ModifiersTrackKeys`), `TypedIsDecoded`
(`DecodesAsTyped`) and the invariant they rest on, `DecoderCatchesUp`. That one is about a decoder that
lags behind: `CatchesUp` says that there is a sequence of decoder states, one per byte on the wire, that
leads from the present one to the one the held keys stand for, each step being what the handler makes of
that byte (`After`), and that each byte of a character meets the layer it was stamped with. Sending a
byte prolongs the sequence at its end (`FollowsAppend`), handling one drops its first state
(`FollowsTail`). Two keys that set one flag would break it, which is the divergence at `keyboard.c:271`
below.

Of the trampoline it proves, for all sets of IRQs on the two PICs and every initial mask,
`EveryInterruptFindsTheKernel` (`RightTable`), `BiosCallIsTransparent` (`CallLeavesNoTrace`),
`HandlersComeFirst`, `StubIsThere` and `RealModeTypes`. None is inductive: the invariant `RMInv` says for
every position of the main context what the mode, the table and the vectors are (`EnvInv`), where IF is
on, off or the BIOS's (`FlagInv`), and what is in the two masks and in their saved copies (`MaskInv`).
The crux is `AllMasked`: where IF is the BIOS's, the first PIC is masked and with it the cascade of the
second.

`FatProofs` is about `fat.c` and `disk.c` with any caller, for every drive INT 13h can describe and every
well-formed volume. It begins with `GeometryLearnt`, `Stage1Means` and `Stage2Means`: the registers either
stage computes name the sector meant; `EntryRead` is the unpacking of a 12-bit entry from two bytes, and
`StepAlong` the next sector of a file in the chain. Its two results are `BufferKeepsUp`
(`BufferAtPosition`) and `FatRefinesFiles` (`ImplementsFiles`): with any number of files open and the calls
in any order, each `FAT_Read` returns the next bytes of its file. Neither is inductive. The invariant
`FInv` has two parts. `TableOK` is what holds of the handles no call is working on: `FileOK`, the handle is
a file of the volume, its position is at most its size, and unless it is at its end it stands in the chain
at the sector of its position (`AtPosition`) with that sector in its buffer. The rest says for the call in
progress what it has read: `Scanning` that the search is at an entry of a directory and copies whole
entries, `Entering` that the handle being filled in stands at the first sector of its file, `DuringRead`
that the bytes copied are the ones before the position (`Copied`) and that the copied and the wanted make
what was asked for, cut at the end of the file (`Standing` at each place of the loop). Two facts carry the
step: a buffer is a whole sector and the loop turns to the next one exactly at a sector's end (`ToBoundary`),
and `StepOn` moves the handle to the next sector of its chain, or rewrites the size where it already is
(`StepAlong`). For the refinement every step is either hidden (`Unseen`, `StartKept`, `NoFiles`) or one of
Files' actions (`OpenedMaps`, `GivesUpMaps`, `ReadMaps`, `CallerMaps`); `PieceIs` shows what was copied to
be the promised piece.

Both assume `WithinLimits`: files and requests stay below half the range of a 16-bit int (beyond it `min`
cuts them, section 6), the entries divide the range of a `uint32_t` (32 and 2^32), the data area can be
read in three attempts (a failed read-ahead is not reported, section 6), and every path ends in a name that only
files have and goes through names that only directories have (`FAT_Open` tests no attribute of the last
entry, `fat.c:348`). TLC evaluates it on the constants of `fat12`. The root
directory may be unreadable, the searches may go on for ever, and callers need not be `Careful`.

`BootProofs` proves, for every such drive and volume, whatever sectors
fail: `Stage2IsLoaded` (`Stage2Loaded`), `EverySectorMeant` (`SectorsMeant`) and `KernelIsComplete`
(`KernelComplete`). `Inv1` says for each place in stage 1 which
sectors are in memory already and which read comes next (`Placed`, `AtCluster`, `Asks`). `Inv2` is a disjunction of the phases of stage 2, from
`Fresh` to `Left2`, each with what fd holds then: in `Searching` the root directory is at one entry after
the other, in `Copying` the bytes returned are the kernel's first ones and the buffer holds the sector of
the position, and `Wrapped` is the phase after a size that a 16-bit `min` has cut, in which `Leave`
refuses the kernel.

`ShellProofs` proves, for every screen, prompt, line length and argv: `CursorStays` (`CursorOnScreen`),
`LineIsShown` (`LineShown`) and `WordsAreGiven` (`ArgsAreWords`). `ShellInv` joins `CursorOnScreen`;
`Blank`, nothing is shown after the hardware cursor, without which a backspace would uncover old text;
`SessionOK`, the types; `EditOK`, the part of prompt and line already printed is on the row and the rest
is in `out`, or `out` is the backspace over a character the line no longer has; and `SplitOK`, the words
of the typed line before the place reached are in argv and cut in the buffer, which is unchanged beyond
it. Induction over a line goes through `Least`: a counterexample has a least one.

Of printf it proves `NumberShown` and `IntShown`: for every number, both bases, every width and padding
`print_uint` and `print_int` print digits of the base, none to spare, that read back as the number, behind
exactly the padding the width asks for; and `NumberFitsBuffer`: a number of 32 bits in a field of at most
twelve places stays inside `buf`, which nothing tests (`vga.c:109`, `:120`). `DigitsUp` recurs towards the
quotient, so `DigitsExist` and `DigitsAgree` first show that the recursion has one solution up to every
number, and `DigitsStep` unfolds it; `ValueOneMore` does the same for the reading of digits.
`WrittenMore` is the step, the last digit is the remainder and the others stand for the quotient, and
`PaddedReverse` turns the padded buffer round. `PrintedStep` unfolds the walk along a format, and with it
`TicksShown` and `RegionShown` say that `ticks` shows every tick and that `mem` names the first and the last
byte of a region below 4 GiB, its kind and its size. `TenDigits` counts: a bound ten (sixteen) times as high
costs one digit more (`DigitMore`).

`GetoptProofs` proves, for every optstring, table of long options and set of argument vectors, and parse
after parse: `OptionsAccounted` (`Accounted`), `OperandsComeNext` (`OperandsFollow`) and `EveryCallConsumes`. The only
assumption is Getopt's own, `ArgumentAssumption`: the vectors are made of the four kinds of tokens.
`EveryCallConsumes` is why a caller's `while (getopt(...) != -1)` ends: a call that does not return -1 moves
`optind` on, never past the end of the vector, or leaves it and takes letters off `_next`, so the arguments
left and then the letters left grow fewer (`LetterConsumes`, `LongConsumes`).
`Accounted` compares the meaning of two vectors and is not inductive: an option that lacks its argument is
reported where the vector ends, and a meaning does not say so. The invariant `GInv` compares readings instead:
until -1 was returned, reading the whole vector comes to the same as reading what remains with the returned
options in front (`Halfway`), or the last option lacked its argument and nothing remains (`Lacked`); after
it, the two properties hold. `ReadingStep` unfolds the recursion, which has one solution (`PartialExists`,
`PartialUnique`); `ReadingPrefixed` says that what was read before stays in front whatever follows, by a least argument at
which it would not. `LetterReads`, `LetterLacks`, `LongReads`, `OperandReads` and `EndReads` say what one call finds at the
front of the reading, and `LetterCall` and `LongCall` that the call returns just that. `ClusterHead` is where
the text of the code and the meaning differ most: the code takes letters off one at a time, the meaning
looks for the first one that takes an argument.

`CmdVideoProofs` proves, for every set of BIOSes whose frames are smaller than the address space, every
specification typed, memory map and bound: `RecordAgrees` (`RecordedIsShown`), `FramesFit` (`FrameFits`),
`BuffersApart` (`BlocksApart`), `TextReturns` (`TextComesBack`), `BestModeWins` (`ModeAsAsked`), `ColoursArrive` (`ColoursShown`). The
invariant `VInv` says that the adapter's mode is text, mode 13h or a listed mode that was the best for
what was asked (`Screen`), that record and adapter agree once the boot is over, and what each step of the
bridge has secured so far (`Bridging`); for blocks it rests on Kalloc's own invariant, which holds here
because every step is one of Kalloc's or leaves it alone. `FrameFits` asks for two different allocations
that are large enough; that allocations share no byte is `BuffersApart`, from the same invariant. `ColoursArrive` is for BIOSes whose channels
are nonempty, inside the pixel and apart (`ChannelAssumption`): `ThreeFields` shows that a word put
together of three shifted fields gives each of them back, over `PowerSum` and `PowerDivides` for powers
of two up to 2^32; `NarrowKeeps` bounds what the cut to a channel's width loses, and `PaletteBack`
inverts the 3-3-2 index by the palette of mode 13h. `ColourInv` adds that mode 13h always has the
palette, and that no pixel is held in a mode the bridge does not convert to.

Some theorems state what no run lists (`KallocTypes`, `KallocAlignment`, `StubIsThere`,
`EveryCallConsumes`, the types of Console and RealMode): they hold for all parameters and need no instance.

Liveness and ENABLED are out of the prover's reach and stay with TLC.

## 5. What is only model-checked, and what is not modelled

Every safety property of the passing runs is a theorem, and both refinements are. Model-checked
only: liveness (`BootEnds`, `ClockGoesOn`, `InputWakesShell`, `KeyIsHandled`, `ClockSurvivesBios`,
`KeyDuringCallIsServed`, `InputEndsDemo`), and the assumptions of MCShell on the whole text of `mem` and the
rarer directives of printf.

`Boot`, `BootMemory` and `Shell` may stop and their runs do not check deadlock: a boot ends at a message or
in the kernel, a machine's memory is used up, and the user may have spent the tabs and commands a run allows.

Not modelled, with the reason:

* CPU exceptions (dispatch prints and halts), spurious IRQs outside a BIOS call, the register block and the
  segment and stack switches of the trampoline: straight-line code with nothing to interleave with.
* `serial_init` and the transmit side of COM1: a bounded wait for the UART that changes no state.
* The formatting of stage 2's `stdio.c`, `string.c`, colours: wording and layout.
* The drawing of the cube and the rasterizer in `third_party/`: a frame has any colour.
* `fpu.c`, `panic.c`, `boot.asm` and `entry.asm` of the kernel: initialisation without state that other
  parts test, and a halt.
* `main.asm` of the kernel, `protected/`: demonstrations that the image does not boot.
  `tools/`: programs for the host.
* A BIOS that unmasks an IRQ or does not return, one that fails a mode switch of mode 3 or 13h (there is no
  answer the code could look at: `video.c:186`, `video.c:205`); a keyboard that repeats Caps Lock, a
  controller that overflows, keys typed while a layout switch is half done.
* An argument vector whose strings are overwritten while `_next` still points into them: the letters of a
  cluster live in the shell's `cmd_buf`, but no command calls getopt yet.

## 6. Where the code and its texts differ

* `fat12_missing`: `FAT_ReadEntry` never returns false, because reads of a directory are
  not limited (`fat.c:206-207`) and the end of the root only stops the read-ahead
  (`fat.c:225`): `FAT_Open` never returns for a missing name, and "kernel.bin not found"
  (`main.c:69`) is never printed.
* `getopt_cluster`: `getopt.c:38` ends the parse when `optind` is past the arguments, which it is as soon as
  the first letter of a last cluster was read; `-ab` as the last argument gives `a` only, and the next parse
  starts with `b`. `getopt.c:13` says "-abc -> processa a, b, c em ordem".

Read in the code and kept out of the runs:

* `keyboard.c:271-272`: either Shift's release clears `kb_shift`, with the other still held
  ("Shift (Left/Right)", `keyboard.c:10`). `keyboard.c:280`: the `E0 2A` of Print Screen is taken
  for the left Shift.
* `fat.c:253`: a failed read-ahead is not reported, and the next read returns the old buffer, against "ou
  0 se ocorrer um erro" (`fat.h:84`). `fat.c:248`: the end of a chain rewrites the size, so the check of
  `main.c:71` accepts a chain that is too short if the size is loaded after the call. `fat.c:207`: `min` takes 16-bit
  ints (`utility.c:3`), so a kernel of 32 KiB or more cannot be loaded, although `memdefs.h:20` gives it
  56 KiB; `MEMORY_KERNEL_SIZE` is 0xE0000 beside that comment.
* `fat.c:277-279`: closing the root directory does not read its first sector back, so a second
  search starts in the sector the first one ended in; `cstart` opens one file, and `MCFat12` has a root
  directory of one sector. `fat.c:354`: a directory along a path that cannot be opened is followed as
  a null pointer; Fat12 stops there (`pc = "lost"`), and `Careful` keeps `fat12` away from it. An
  unreadable second sector of the root directory turns a search into that of `fat12_missing`; `boot` leaves
  that sector readable to stage 2.
* `kalloc.c:67-69`: `kalloc_base()` is documented as 0 when `kalloc_init()` failed
  (`kalloc.h:41`), but a usable region of less than a page sets the base before its size
  is rounded to 0.
* `gfx_bridge.c:62`, `:159`: 8-bit pixels are 3-3-2 indices, and only `video_set_vga13` installs that palette; `mode
  320x200x8` of a BIOS with such a VBE mode (and `x264`, whose bits are cut to 8) shows other colours.
  `ColoursShown` leaves these modes out. `gfx_bridge_is_ready` stays true after the return to text; only
  `gfxdemo` draws, after an initialisation of its own.
* `gfx_bridge.c:35`: `narrow_channel` is documented to return 0 for a channel the mode does not have, and returns
  the value. `video.c:327`: when the best candidate has no framebuffer the call fails, though another might
  do. `cmd_video.c:31`: `parse_uint` wraps, and a width of 0 in any spelling means mode 13h.
* `gfxdemo` takes a new pair of buffers each time and cannot give them back (`kalloc.h`); `still` eats one key and one
  byte typed ahead of it (`cmd_video.c:402-406`).
* `print_int` (`vga.c:126`) prints the sign before the padding (a width of 4 shows -5 as `-  5`), and `mem` shows the
  low 32 bits of a size (`shell.c:73`): a region of 4 GiB has 0 bytes.
* `getopt` accepts `:` as an option letter. `vga_entry` (`vga.c:14`) sign-extends characters from 0x80 on into
  the attribute.

## 7. Plan

1. Fat12: that the file `FAT_Open` returns is the one its path names, which Files leaves open. It is false
   where a search starts in a stale sector of the root directory (section 6), so it needs the directory of one
   sector as a hypothesis.
2. The transfer block of the trampoline, and the CPU exceptions of `isr_dispatch`.
3. Stage 2's `printf`, with its long division and its decoder of UTF-8.
