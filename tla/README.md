# A TLA+ model of ZeOS

ZeOS is a teaching kernel for one x86 processor. This repository holds three
deliveries of it: `E1` (one process, `write`, `gettime`), `E2` (fork, exit,
block, unblock, a round-robin scheduler) and `PROJECTE`, the final one (fork,
exit, yield, statistics, keyboard input, console, shared memory). The modules
here model `PROJECTE/zeos` from the boot sector to the library of its programs,
of `E2` what differs (processes, console, memory checks, system call path), and
`E1` whole: its `main`, its calls and its page fault. Paths below are relative to
`src/PROJECTE/zeos` unless they begin with a delivery.

## The system

There is one processor and the kernel runs with interrupts masked: interrupt
and trap gates clear the flag, `sysenter` does too, and only `sysexit` and
`iret` let interrupts in again. A handler or system call is therefore atomic
with respect to all others, and the concurrency of the system is that of its
*sequences*: any running process may make any call, the clock and the keyboard
may come between any two of them, and a call may leave the processor on
another process's kernel stack in the middle of its own C frames. What is hard
to get right is state that must stay coherent across those sequences.

| Component | State | Operations | What makes it correct |
|---|---|---|---|
| Processes, scheduler (`sched.c`, `sys.c`, `kernel-utils.S`) | task array, `freequeue`, `readyqueue`, `remaining_quantum`, `global_PID`, kernel stacks, TSS, CR3 | clock, yield, fork, exit, task switch | each slot has one owner; tasks resume where they stopped, in their own address space; turns are taken in order; every ready process runs |
| Keyboard (`interrupt.c`, `circular_buffer.c`, `sys_read`) | the circular buffer | key interrupt, read | first in first out, nothing lost but what does not fit, read never waits |
| Memory (`mm.c`, `sys.c`) | byte map of frames, page table of each slot, `shared_vector` | fork, exit, shmat, shmdt, shmrm | private frames stay private, none leaks, references are counted exactly, a deleted frame is cleared by its last user |
| Statistics (`p_stats.c`, hooks in entry, sched and sys) | `p_stats` of each task | every handler, `get_stats` | no time is lost; ready time is exact; counters that wrap do no harm |
| Console (`io.c`, `devices.c`, `sys_write`) | cursor, colour, screen | write, gotoxy, set_color, a message from the keyboard interrupt | texts appear whole and in order; the cursor stays on the screen |
| User memory (`utils.c`) | none | `access_ok`, copies | no call touches the kernel, the process's own memory is never refused |
| Lists (`list.c`) | links | add, delete | a ring of distinct nodes |
| Entry (`entry.S`, `user-utils.S`, `sys_call_table.S`) | registers, two stacks, the table | wrapper, `sysenter`, dispatch, `sysexit`, interrupts | arguments arrive, results return, registers survive |
| Start-up (`system.c`, `hardware.c`) | everything the kernel needs | `main`, call by call | nothing is used before it is set up |
| Boot and image (`bootsect.S`, `build.c`) | the disk image, memory being loaded | `build`, `read_it`, the copy of the user program | kernel and program are where they were linked |
| User library (`user-utils.S`, `libc.c`) | `errno` | wrappers, formatting | registers survive, errors are reported |
| E1 (`E1/zeos/system.c`, `sys.c`, `interrupt.c`) | page table, frames, ticks, what the processor was told | `main`, `write`, `gettime`, clock, page fault | the program gets its pages; only its own fault stops it, and the address shown is right |
| E2's processes (`E2/zeos/sched.c`, `sys.c`) | the queues and rings of sons as pointers, `pending_unblocks` | fork, exit, block, unblock, clock | queues and families stay whole as long as every process outlives its sons; a blocked process is suspended and found again |

How they interact: the clock handler calls the scheduler; fork and exit change
the task array, the page tables, the frames and the shared vector in one call;
`sys_read` takes from the buffer that the keyboard handler fills; every switch
goes through `switch_stack`, which trusts the saved stack pointer it is given.

`PROJECT.json` lists every component, and under `hazards` each place of this
code that a test would hardly reach, with the property that watches it.

## Modules

| Module | What it is |
|---|---|
| `Sched` | the processes and the scheduler |
| `SchedProps` | its properties |
| `RoundRobin` | what the scheduler promises: a ring of PIDs that only rotates |
| `SchedProofs` | the inductive invariant of `Sched`, theorems about its states and about its turns: full turns, no overtaking, the refinement of `RoundRobin` |
| `Keyboard`, `KeyboardProps` | the buffer, its interrupt routine and `sys_read`; its properties |
| `BoundedFifo` | what the buffer promises |
| `KeyboardProofs` | theorems about `Keyboard` |
| `Memory`, `MemoryProps` | frames, page tables, shared memory; their properties |
| `MemoryProofs` | theorems about `Memory` |
| `Zeos`, `ZeosProps` | `Sched` and `Memory` as one system, with the contents of private pages; what must hold of the two together |
| `Isolation` | what that system promises a process about its data |
| `ZeosProofs` | the invariant of the two together; isolation as a theorem |
| `ProcStats` | `Sched` with the statistics, its properties |
| `Ticks` | the clock of the statistics, its divisions and wraps |
| `Screen`, `Console`, `ConsoleE2` | the screen; the output calls of PROJECTE and of E2, with their properties |
| `Terminal` | what both consoles promise |
| `UserMemory` | `access_ok` and copies, PROJECTE and E2, with their properties |
| `List` | `list.c` at the level of pointers |
| `E2Processes`, `E2Props` | E2's processes over `List`; its properties; it also implements `RoundRobin` |
| `E2Proofs` | what the functions of `list.c` do to a ring; the inductive invariant of `E2Processes` and its four theorems |
| `Instructions`, `Entry`, `EntryProps` | the instructions used, the machine that runs programs and kernel entry, its properties |
| `WrappersP`, `WrappersE2`, `WrappersE1` | the assembler files of each delivery, as data for `Entry` |
| `EntryProofs` | what a process leaves on its kernel stack, that processes run as if alone, and the wrappers of PROJECTE followed to the handler and back |
| `Startup` | `main`, then `Sched`; its properties |
| `SchedClientsProofs` | theorems about `ProcStats` and `Startup`, which both build on `Sched` |
| `BootLoader`, `Image`, `Boot` | the boot sector; `build.c`; image, boot sector and copy of the user program together, with their properties |
| `FirstDelivery` | E1, from `main` to its program, over the pointers of `UserMemory`; its properties |
| `PartsProofs` | theorems about `Ticks`, `UserMemory`, `Boot`, `FirstDelivery`, `Console` and `ConsoleE2` |
| `MC...` | instances for TLC; `MCParts` is also the module of the parts that keep to themselves. `KeyboardProps`, `MemoryProps` and `E2Props` need no definitions for TLC and are run as they are |

Definitions whose name begins with `Mut_` are faulty variants of the one they
precede (a dropped guard, a missing reset). No specification uses them: they
are there to test that each property would notice.

### Sched

A state of `Sched` is a state between two kernel entries. `task` is the task
array, `freequeue` and `readyqueue` are sequences of slots (the lists are
always used as queues), `current` is the slot whose kernel stack is in use,
which is how `current()` finds it. A stack pointer is a pair of a slot and a
depth. `kstack[t]` is the depth at which `switch_stack` last left a frame on
the stack of `t` (history, not a variable of the program); `register_esp` is
what the program remembers of it. Their agreement is what makes a switch
correct, and `wild` is set by a switch that loads anything else: from then on
the processor runs no known code and the model stops, which is why these runs
do not check deadlock.

`Depth` says how deep each path into `switch_stack` saves; the values depend on
the compiler, so they are a constant, different for each path in the instance
and arbitrary in the proofs. The proofs so cover every build.

| Action | Code |
|---|---|
| `ClockPreempt`, `ClockContinue` | `clock_routine`, `schedule`, `needs_sched_rr` |
| `SysYield` | `force_task_switch` |
| `SysFork`, `SysForkNoFrames` | `sys_fork`, by the outcome of `alloc_frame` |
| `SysExit` | `sys_exit` |
| `sched_next_rr`, `task_switch` | operators the actions share, as in the code |

Idle makes no call: it is an endless loop in kernel mode with interrupts on.
The lone yield (the ready queue is empty) is the one case where the target of
the switch is the caller; the switch is modelled in the order of the code: the
pointer to load is read when `switch_stack` is called, the one of the caller is
stored after.

Fairness: weak fairness of the clock interrupt and nothing else. The timer
interrupts for ever, and user code runs with interrupts on; no process is
assumed ever to yield or exit.

### Keyboard

The four fields of `kbd_circularBuffer`, a `sys_read` in progress (one step per
character, no key in between), and histories: what was accepted, what was
copied to users, and whether a key was dropped since the last one was copied. The user buffer may be writable or not; `char_map` is a
constant, and a code past its end gives any character. Fairness: a system call
that has started goes on. Nothing is assumed of the keyboard.

### Memory

`phys_mem` is the set of frames marked used, `pt` the page table of every slot
(a frame number and a present bit per page; the entry of a page that was
unmapped is zero, and zero is what the code takes for "no frame"), `ref` and
`delete` are the fields of `shared_vector`, `content` says whether a shared
frame is all zeros. Page numbers and frame numbers share one interval, as in
the code, because `sys_exit` uses one for the other. The layout is that of
`mm_address.h` with smaller numbers; `alloc_frame` looks at every second frame.

Each system call is one action with the loops of the code folded into sets: the
table of the child, the attachments that are left when the copy window was
unmapped, the frames to free. A fault of the kernel itself reaches
`page_fault_routine`, which does not return: `halted`. Where the result depends
on what the TLB still holds (fork's copy through a page that was attached, the
clearing loop of exit) the model allows both outcomes.

Which process runs next is the scheduler's business: here any live one may
call, and `Zeos` puts the two together. Left out: access bits, and `shmdt` of a
page that is not an attachment (it reads past the end of `shared_vector`, so it
has no defined result).

### Zeos

`Sched` and `Memory` are instantiated side by side and each makes the choices
the other leaves open: the running process calls, fork takes the slot at the
head of the free queue and fails if and only if frames run out. `data` is what
each frame holds. Programs read and write through the table of the directory in
CR3, not of the task that runs, so that a switch that forgot CR3 would show.
`Isolation` knows no slots, tables or frames: data is a function from PIDs and
pages, changed by its process only, and a child starts with a copy. The system
is shown to implement it, with the data of a process read through its slot.

### ProcStats and Ticks

The actions of `ProcStats` are those of `Sched`; each takes some time before
the switch, charged to whoever entered, and after it, to whoever resumes, and
each reading of the clock moves the time since the last one to a counter as the
hooks do. `user_to_system` and `system_to_user` are called by the interrupt
handlers of clock and keyboard only, so the split of the time of a system call is not exact and no
property says it is; that no time is lost and that ready time is exact are.
`sys_get_stats` looks for the slot with the PID when the caller may write the
block; what it only reports (`remaining_ticks`, `total_trans`) is left out.
`Ticks` has the arithmetic underneath: the two machine divisions of `do_div` and
differences of readings that wrap, in words of W values.

### Console, ConsoleE2

A screen is a cursor and cells. Each call is one step; the history of what was
asked for is the abstract `Terminal`: one line of cells that wraps. `printc`
row by row, going on in the first row after the last, and the loop of `sys_write` in pieces of
its buffer, are shown to implement it.

### UserMemory

Addresses are words, of which there are `Words`, and a page has `PAGE_SIZE` of
them. The arguments of one call are chosen freely among all addresses and the
sizes of the instance; a call tests them in the order of `sys_write` or
`sys_read`, and `access_ok` is evaluated as written. `delivery` says whose
layout, order and pages are meant. `access_ok` of PROJECTE looks for shared
pages in the process's descriptor instead of its page table; what it reads there
is undefined and is any set of pages.

### Intrusive lists and E2Processes

`List` is a heap of `list_head`s with the assignments of `list.c` in their order.
`E2Processes` is a function from machine to machine for each handler, with the
pointers of the queues and rings of sons as they are, so that what stale or
uninitialised pointers do is visible: a null pointer followed (`fault`), a walk
that never ends (`hung`), a ring that no longer holds its members.

What goes wrong goes wrong with orphans. `sys_exit` leaves `pParent` of its sons
pointing to the slot it gives back and hangs them from the list of sons of idle,
which nobody initialised. `orphaned` remembers that a process exited before one
of its sons; the properties speak of systems where none has, and of the step
that orphans a process they say nothing. This is the weakest condition found: it
says nothing of who forks or how deep the tree becomes. With orphans the walks
may not end, and the rest depends on the number of slots: with four, TLC finds
that the queues still stay whole; with five, the list of idle leads through slots
used again from the sons of one process to those of another and to free slots, an
unblock then puts the running process into the ready queue, and the initial
process follows a null pointer in an unblock. TLC finds both with the condition
taken out of the properties, in 33 and 18 steps.

### Instructions, Wrappers, Entry

A wrapper is a sequence of instructions, translated line by line;
`Instructions` says what each does to registers and stack. User instructions
are steps and the clock may come between any two. The kernel is one
step from entry to exit, with the switch in the middle: the dispatch test, the
argument slots, which a handler owns and may overwrite, what `SAVE_ALL`
saved and `RESTORE_ALL` restores. The deliveries differ only in the data, so
one machine runs the three: `system`, chosen at the start, says which.

### Startup, BootLoader, Image, Boot

`Startup` is `main` as a sequence of calls that each need what earlier ones set
up. Interrupts may come from `enable_int` on, on the boot stack: without a gate
they reset the processor, and a quantum that ends before the ready queue is
initialised makes `schedule` follow null pointers; both, like a call that comes
too early, leave the machine `astray`. The buffer of the keyboard is no such
case: before it is initialised it is all zeros, which is an empty one whose keys
are lost when `main` initialises it, as `StartsSound` would show. From the `lret`
on the steps are those of `Sched`, whose invariants are checked from that state;
`NeverAstray` says nothing of them, and a lone yield there goes wild as in
`sched`.

`BootLoader` is `read_it` with the register arithmetic of 16 bits, one
step per track; `Image` is `build`, which any failing system call may stop; in
`Boot` the sectors `build` wrote are the ones the loader reads. Neither `build`
nor the boot sector checks a size (the `SYSSIZE` of `bootsect.S:17` is patched
over), so the models assume none. There is room for 524272 bytes below the boot
sector. A longer image is read over the code that reads it, after which anything
may happen: stage `lost`. From a MB on the word of the size wraps, and an image
whose word is small again is loaded in part and started as if it were whole.
`LoaderIntact` states the first limit and `ProgramsInPlace` is conditional on the
second.

### FirstDelivery

E1 has one process and nothing that manages it. `place` is the next call of
`main`, each an action with what it needs of the calls before; `told` is what
the processor was told of, and a call that comes too early leaves the machine
`Lost`. `monoprocess_init_addr_space`, which gives slot 0 its pages, is in the
prebuilt library and is modelled from what `main` and `copy_data` expect of it.
Then the program runs: the clock routine, `gettime`, `write` with any pointer
(the tests of E1 are those of E2: their `utils.c` is the same file), a
write that faults in the kernel, and an access of the program's own that faults.
`page_fault_routine` shows the address and does not return, with the digits
`long_to_char` makes of it.

### MCParts

Consoles, pointers, the arithmetic of ticks, boot and E1 share no state with each
other in the models, so one run explores them all: a behaviour is a behaviour of
one of them, `part`, and the variables of the others stay where they start.

## Runs

| Run | Instance | States | What it shows |
|---|---|---|---|
| `sched` | 4 slots, quantum 2, 3 forks | 7,624 | one owner per slot, PIDs, contexts and saved stack pointers; only a lone yield goes wild; full turns, the refinement of `RoundRobin`, ready processes run |
| `keyboard` | buffer of 3, 5 keys | 41,165 | short reads, the refinement of `BoundedFifo`, reads return |
| `memory` | 3 slots, 2 shared frames, one attach address, frames for less than 3 processes | 137,192 | private frames, byte map, reference counts, attachments through fork, clearing by the last detach, no fault while a frame is still used |
| `zeos` | 4 slots, 2 forks, 2 values | 148,604 | programs find their data mapped, and the refinement of `Isolation` |
| `stats` | 3 slots, 2 forks, 3 units of time | 290,231 | no time is lost or counted twice; ready time is exact |
| `e2` | 4 slots, 4 forks, of any process | 34,134 | queues stay rings, the family tree, where the kernel faults, the refinement of `RoundRobin`, ready processes run |
| `entry` | PROJECTE with two processes, PROJECTE with all its calls and numbers out of the table, E2, E1 | 72,080 | arguments, results, registers, interrupts |
| `startup` | 4 slots, 2 interrupts in the window | 23,706 | no call of `main` and no interrupt finds something that is not set up; the first process starts in a sound system, with every key typed until then |
| `parts` | see below | 177,372 | both consoles implement `Terminal`; no pointer leads to kernel memory and data is never refused; charges add up; programs in place; the boot sector is not loaded over by an image there is room for, and no longer one of less than a MB gets to start; `main` of E1 leaves its program the right pages, only the program's own fault stops it, and the number shown is the address |
| `lone_yield` | as `sched` | | **violated**: a process that yields alone resumes at a stale stack pointer |
| `window` | 2 slots, attached in the copy window | | **violated**: fork drops the attachment of the parent and does not give it to the child |
| `e2_block` | as `e2` | | **violated**: a blocked process runs on |

Bounds, and why they are enough.

- *Slots.* Four are idle, the initial process and two children, so that a queue
  can hold two tasks and a slot can be freed and used again; `MaxPID` bounds the
  forks, in `sched` at one more than there are slots for. A quantum of two
  distinguishes a tick that ends a turn from one that does not.
- *Keyboard.* A buffer of three with five characters typed goes round more than
  once, and is found full, empty and in between at each place.
- *Memory.* Three slots give a parent, a child and a grandchild; two data pages
  let a fork fail between them, and there are frames for less than three
  processes, so it does; two shared frames let exit clear another frame than the
  one it means; `MaxRef` bounds the attachments of a frame at two, which may be
  of one process or of two. The permutations of the children are a symmetry: the
  model names no slot but the first.
- *Zeos.* Pages are one per kind and values two, 0 and not 0: a page is its
  owner's or not, whatever else is in it. Every child can be written to before
  and after any switch and every slot is used twice.
- *Entry.* Registers hold symbolic values, each of a different origin, so that
  one exchanged for another always shows. `Depth` is deeper than any wrapper
  goes.
- *Pointers.* All addresses of seven bits, pages of four, sizes from -9 to 9: a
  block can begin and end in any page and wrap round the address space.
- *Ticks.* Words of 8 values, every counter of two words as a start, and steps
  that cross one and several ticks; the theorems cover the real sizes.
- *Boot.* The sizes are those of the code, with files around each boundary of
  buffer, sector, track and segment: among them the longest image there is room
  for below the boot sector, one byte more, and one of more than a MB, whose
  word wraps.
- *E1.* The pages and addresses of the pointers, kernel pages up to those of the
  program, two ticks so that `gettime` differs between calls, and addresses
  shown in base 3, with even and odd numbers of digits.
- *Console.* A screen of two columns and a buffer of two characters: every text
  of the instance crosses rows, the screen and the buffer.

Fairness. `sched` and `e2` assume weak fairness of the clock interrupt: the timer
interrupts for ever and user code runs with interrupts on; no process is assumed
ever to yield or exit. `keyboard` assumes that a system call that has started
goes on, which runs with interrupts masked. Nothing else is assumed anywhere.

Deadlock is checked where the system never stops, for the keyboard. The
scheduler stops after a wild switch, memory when halted or when the last process
has exited, E2 after a fault, and the instances of the others at their bounds.

## Where code and comments disagree

Three runs each check one sentence of a comment or test of the code against what
the code does and find it violated; `findings` in `PROJECT.json` quotes it. The
others met while modelling are these. Where a property states the promise, it is
named, with its module; put among the properties of the instance named, TLC
violates it.

| Place | What the code does | Says otherwise |
|---|---|---|
| `sys.c:116` | fork makes every kernel page of the child present, page 0 and the guard pages too (`NullPageInaccessible`, `GuardPagesInvalid` in `MemoryProps`; instance `memory`) | `mm.c:67`, `mm.c:74` |
| `sys.c:332` | `shmat(NULL)` searches from page 0, which is free in the initial process, and attaches there (`NullIsNoAttachment` in `MemoryProps`; `AttachPages` with 0) | `sys.c:322` |
| `sys.c:233` | exit clears a frame at the logical page of its number, which in general is not mapped: the kernel faults and does not go on (`LastExitClears` in `MemoryProps`; instance `memory`) | the comment on that line |
| `sys.c:266` | `get_stats` finds slots without a process that a failed fork left with a PID (`StatsOfProcess` in `ProcStats`; instance `stats`) | `include/errno.h:6` |
| `sys.c:298` | `set_color` puts the foreground where the background is (`ColoursAsAsked` in `Console`, with two valid colours) | `user-utils.S:118` |
| `utils.c:86`, `:88`, `:91` | `access_ok` accepts writes to code, a block that ends in the page after the data, and looks for shared pages in the descriptor of the process (`CodeNotWritten`, `InvalidRefused`, `AttachedAccepted` in `UserMemory`; instance `parts`) | `utils.c:77`, `:63`, `:62` |
| `entry.S:108` | the number just past the table is let through, and what lies there is called: the one way to the status `wild` in `Entry` | `include/errno.h:42` |
| `E2/zeos/sys.c:143` | exit walks the sons of a parent that has itself exited; the walk may not end (status `hung` in `E2Processes`) | `E2/zeos/sys.c:140` |
| `E2/zeos/sys.c:147` | orphans go to the sons of idle, a list never initialised (`OrphansReachIdle` in `E2Props`) | `E2/zeos/sys.c:140` |
| `E2/zeos/sys.c:193` | unblock counts the wake-up in the caller (`UnblockReachesChild` in `E2Props`) | `E2/zeos/user.c:36` |
| `E2/zeos/wrappers.S:47` | the error path loads from address -1 instead of the number: a failed call faults in the wrapper; only fork's is right, so `MCEntry` lets only fork fail | the comment at line 46 |
| `E2/zeos/wrappers.S:77` | `gettime` gives ECX and EDX back exchanged (C lets a function change both) | the comment at line 50 |
| `E1/zeos/wrappers.S:15` | `write` loses the EBX of its caller: `lost` in `MCEntry` | `user-utils.S:21` |

## Proofs

TLC checks the instances above; the modules `...Proofs` prove for every value of
the constants. The assumptions are those the component modules name
(`SchedAssumption`, `KeyboardAssumption`, `MemoryAssumption`, `ZeosAssumption`,
`ProcStatsAssumption`, `TicksAssumption`, `PointersAssumption`,
`EntryAssumption`, `E2Assumption`, `StartupAssumption`, `ImageAssumption`, `LoaderAssumption`,
`BootAssumption`, `FirstAssumption`): the types of the constants, that there are
at least two slots (three in E2), that the layout of pages and frames fits, that a
track has as many sectors as the BIOS can number. Where a theorem assumes more,
its statement says so.

**Sched.** The invariant is `IInv`: the type invariant, slot partition, idle
only when alone, states matching places, distinct PIDs, context of the current
task, saved pointers on their frames, and a live quantum (every task that may
run has `total_quantum = DEFAULT_QUANTUM`). None of these is inductive alone:
that the clock never reloads zero needs the live quantum, which needs to know
which slots are live, hence the partition; that the pointer a switch loads is
right needs that its target is not the running task, hence the partition again.
`Dispatch` proves once what a switch to the head of a queue does, and every
action that switches uses it. Proved: types, partition, idle only when alone,
state and place, PIDs, context, saved pointers, and that only a lone yield goes
wild.

The second part of `SchedProofs` says first (`Shapes`) that under this invariant
every step leaves the turns alone, rotates them, adds a process at their end or
takes the first away. From that, and from what `Append` and `Tail` do to each
place of a queue, follow `FullTurn`, `NoOvertaking` and the refinement of
`RoundRobin`.

**Keyboard.** `KInv` is the type invariant, agreement of the indices, the order
of the contents, and the bounds of a read in progress. The arithmetic of the
ring is isolated in four lemmas (`RingPlace`, `RingDistinct`, `RingNext`,
`RingShift`); `EnqueueCells` and `DequeueCells` say what happens to the cells,
and the rest follows from them. Proved: types, indices, order, short reads,
drops, and the refinement of `BoundedFifo`.

**Memory.** The invariant comes in two layers. `Tables` says of every page table
what kind of frame each kind of page may hold, that data frames are held once,
that the byte map is exact and that free slots hold no attachment; each action
preserves it by what it does to one or two tables (`ForkPreserves`,
`ExitPreserves`, `SetPagePreserves`). From it: private data, no leak, clean
slots, and that a mapped page keeps its frame, for any layout, number of
processes and shared frames. `Counts` adds that each reference count is the
number of pages that hold the frame. This is false where programs attach in the
pages through which fork copies (run `window`), so the theorems `CountsExact`,
`MemoryTypes`, `LastDetach`, `ForkInherits` and `FaultByLastUser` assume
`AttachAbove`, that they attach above them; the counting itself is by injections
between sets of users (`UsersByPage`, `SetPageUsers`).

**Zeos.** `ZInv` joins the two invariants: `IInv` of the scheduler, `Tables` of
the memory, and that the two agree on who is alive. Each action of `Zeos` is
an action of both, so the step theorems of `SchedProofs` and `MemoryProofs`
carry their halves over; what is new is that they stay together, and that the
running process has its own table in CR3 (`OwnTable`). From it: programs find
their data (`OwnDataThere`), and, because frames of data are held once, a write
changes what one process sees and a fork copies what one process has, which is
the refinement of `Isolation` (`ProcessesIsolated`), for any number of slots,
pages and values.

**ProcStats.** A reading changes no counter sum (`Sum`), a birth sets it; the
type theorem of `Sched` is carried over because a step of the statistics is a
step of the scheduler or leaves it alone: `NoTimeLost`. That ready time is exact
(`ReadyTimeIsExact`) also needs to know where each process is when it is
charged, so `ReadyInv` is carried through every shape of step together with the
partition of the scheduler: the one that leaves the head of the queue is
charged, the others only wait longer.

**Startup.** `SInv` says, for each place in `main`, what the calls before it
have set up, and from user mode on that Sched's `IInv` holds. The interrupts
before it run on the boot stack, where `current()` is a free slot: that they
disturb no part of `IInv`, and find the gates and the ready queue set up, is the
step that takes the work. From it: `StartupNeverAstray`, which is about `main`
and the interrupts on its stack, and `StartupSound`.

**Entry.** `EInv` says what lies on the kernel stack of a process that waits: the
frame of its way in, which is its registers as they were, and above it that of
the switch. It needs nothing of the wrappers or handlers, only that what
restores registers mirrors what saves them (`SystemsMirror`), which
`DeliveriesMirror` proves of the three deliveries and TLC evaluates of the
instance (`SystemsDelivered` in `MCEntry`). From it: each step is one that the
process could make alone and that no other can see (`ProcessesRunAlone`),
interrupts are invisible (`InterruptsInvisible`) and a switch gives the C code
that called it its registers back (`SwitchesComeBack`), for any programs,
handlers and number of processes (`DeliveriesTransparent`).

A process that runs as if alone can be followed as if alone. `ProperP` is an
outline of the wrappers of PROJECTE: what holds of registers, stack and call
before each instruction of a wrapper, of `syscall_sysenter` and of `nok`. One
lemma per instruction says what it does to a context, one per text which
instruction stands where, and together they carry the outline from each place
to the next (`OutlineStep`). `ArgumentsArrive`, `CallersKeepRegisters` and
`ResultsReturn` are read off its ends. They assume `ProjectSystems`: the system
runs PROJECTE, with any number of processes, calls, numbers passed directly,
handlers that fail or switch (but for those whose wrappers do not look at the
result), and a user stack of twelve words, which the deepest call needs. TLC
evaluates it of the instance (`ProjectDelivered`).

**E2Processes.** `Own` says that a list is the ring of a sequence of distinct
tasks, with a head that is no task's; the first third of `E2Proofs` says what each
function of `list.c` does to it, down to single pointers: insertion appends
(`JoinTail`), deletion takes the node out wherever it is (`Quit`), a walk and a
`list_for_each_safe` that deletes as it goes end and meet each node once
(`NodesOfRing`, `LeaveLoop`), and what touches other nodes leaves a ring alone
(`OwnStays`). The inductive invariant is `Good`: there are sequences `fq`, `rq`
and `kids` of which the free queue, the ready queue and the sons of each live
process are the rings, they divide the slots, PIDs are distinct, every process
but the first has a live parent whose list it is in, and the `list_head` of the
running process points nowhere or, once it has called block, to the list nobody
initialised. That last part is what makes `list_del` of a node in no list
harmless: it writes through the null pointer, in a process with page 0, and
breaks nothing. Each handler takes `Good` to `Good`, and `Outcome` says how `rq`
changes: not, by a turn, by a new process at its end, or by its first becoming
the running one (`Scheduled`, `Blocked`, `Unblocked`, `Forked`, `ForkedNone`,
`Exited`). Proved from it: `QueuesStayRings`, `FamiliesStayIntact`,
`NoFaultButInits` and, with what appending and removing do to the sequence of
PIDs, the refinement of `RoundRobin` (`SonsTakeTurns`); for any number of slots,
any quantum and any tree, as long as every process outlives its sons.

**Ticks.** `TwoDivisions`: dividing the high word and then the rest with the low
word is dividing the double word, and the second quotient fits a word. With
`Telescope`, that differences of wrapped readings add up to the wrapped
difference, it gives `DivisionExact` and `ChargesCorrect`.

**UserMemory.** Nothing is carried from call to call; the work is in the
arithmetic of the address space. A block that `access_ok` lets through does not
wrap (`NoWrap`), so its pages are between its ends: `KernelNotReached`. A block
within the data has its ends in pages the test lets through:
`DataNotRefused`.

**Boot.** `ImageInv`: the pieces written so far have no gap and end where the
next begins. `LoaderInv`: tracks arrive in order and each below the boot
sector while the loader is not lost. `BootInv` joins them. No size of the files is assumed:
`BootKeepsLoader` is that images there is room for keep the loader and longer
ones, short of a MB, lose it before the kernel starts; `BootInPlace` that each
byte probed is where it was linked if the program starts and the size fits its
word.

**FirstDelivery.** `FInv` is, for each place in `main`, what the calls before it
told the processor and what the table, the byte map and the program's frames
are: `FirstSound`. Neither `copy_from_user` nor `main` faults on anything but
what the program passed, and the number that `page_fault_routine` shows is the
address, in any base: together `ProgramStops`. The second half is an
induction over the digits of `long_to_char`.

**Console, ConsoleE2.** The invariant is that the cursor is on the screen
(`OnScreen`) and, in E2, that the buffer has its size. `PrintcIs` says what
`printc` does to the position in the line of cells, which is where the byte of
the cursor and the two ways of starting a row come in; `AfterIs` that a run of
`printc` ends where the terminal does. A piece printed from where the ones
before it stopped continues the run (`PieceOfRun`), so the loop of `sys_write`
in pieces, with whatever the buffer held (`Turn`, `Stretch`), leaves the screen
of the whole text. Proved: both consoles implement `Terminal`
(`ConsoleIsTerminal`, `ConsoleE2IsTerminal`, the two halves of the property
`IsTerminal` of the run `parts`), for every screen of at most 255
rows and columns, every size of the buffer and all texts. They assume
`ConsoleSizes` of their module, which TLC evaluates of the instance
(`PartsAssumption`).

Inductions over data (the digits of E1, the texts of the consoles, the walks and
loops of E2, its boot) are by the least counterexample, which `NatLessThanWellFounded` and `WFMin` give: the
library's induction theorems take an operator and cannot be used. What a
recursive function computes is proved the same way: that one with its equation
exists, that it is the only one, and then what it is.

Only model-checked:

- the liveness properties `ReadyRuns` and `ReadReturns`: liveness is out of the
  prover's reach;
- `ArgumentsReachHandler`, `CalleeSaved` and `ResultReturned` for the wrappers of
  E1 and E2: each of these wrappers has a shape of its own, some of them wrong,
  and needs an outline of its own.

## Plan

Done: all modules above; theorems about the scheduler, the keyboard, memory, the
two together, statistics, start-up, entry, E2's processes, pointers, boot, E1 and the consoles.
Left, in this order:

1. `CalleeSaved`, `ResultReturned` and `ArgumentsReachHandler` as theorems for
   the wrappers of E1 and E2.
2. The keyboard and the statistics in `Zeos`.
3. `Sched` over the intrusive lists: what `E2Proofs` shows of a ring is what
   `Sched` takes for granted of its sequences; so far the tie is that both
   deliveries implement `RoundRobin`.
4. The contents of pages in E2's fork, whose `mm.c` is the one of PROJECTE
   without shared memory.

## Not modelled

- Access bits of pages, segment descriptors and their privileges: no property
  here speaks of protection beyond what is mapped.
- `shmdt` of a page that is not an attachment: it reads past the end of
  `shared_vector`, so it has no defined result. The same for a scan code past
  `char_map`, for which the model lets any character come.
- The A20 line, the interrupt controller and the switch to protected mode in the
  boot sector, and errors of the BIOS: device protocols without state of the
  program, and no line of it says what happens when they fail.
- `itoa`, `strlen`, `perror`'s messages, and the page fault report of PROJECTE
  and E2: formatting. The programs in `user.c`: to the kernel models any process may make any call.
- What the generated and prebuilt binaries contain (`libzeos.a`), of which only
  the page fault routine matters here: it does not return.
- In E1: the character its `keyboard_routine` shows, and the functions of its
  `mm.c` that it never calls.
