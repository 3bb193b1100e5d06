-------------------------------- MODULE Boot --------------------------------
(***************************************************************************)
(* From the files to user mode: build writes the image, the boot sector    *)
(* loads it, and main moves the user program behind the system to where    *)
(* it was linked.  Composes Image and BootLoader.                          *)
(***************************************************************************)
EXTENDS Image, BootLoader

CONSTANT
    UserSize           \* bytes of the user pages: NUM_PAG_CODE + NUM_PAG_DATA

\* build writes the system right behind the boot sector (SETUPSECS), and the
\* linker leaves room before its first instruction, at 0x10010, for the words
\* build patches.  Nothing bounds the sizes: neither build nor the boot sector
\* looks at them.
ASSUME BootAssumption ==
    /\ UserSize \in Nat /\ setup_sects = 0
    /\ \A f \in Files : f.system >= 12

KERNEL_START == 65536
L_USER_START == 1048576

VARIABLES
    stage,             \* "make", "load", "main", "user", "fault", or "lost"
    user               \* what copy_data moved: [from, length]
boot_vars == <<image_vars, loader_vars, stage, user>>

BootInit ==
    /\ ImageInit
    /\ stage = "make" /\ user = [from |-> 0, length |-> 0]
    /\ syssize = 0 /\ es = 0 /\ bx = 0 /\ sread = 0 /\ head = 0 /\ track = 0
    /\ memory = << >> /\ loading = FALSE

Make == stage = "make" /\ ImageNext /\ UNCHANGED <<loader_vars, stage, user>>

\* The BIOS loads the boot sector of an image that make finished.
PowerOn ==
    /\ stage = "make" /\ status = 0
    /\ stage' = "load"
    /\ syssize' = patch[500] /\ read_it
    /\ memory' = << >>
    /\ UNCHANGED <<image_vars, user>>

\* A sector has been read over the boot sector.
overwritten == \E a \in DOMAIN memory :
                  /\ a < address(INITSEG, 0) + SectorSize
                  /\ address(INITSEG, 0) < a + SectorSize

\* The loader runs from there: once overwritten the processor is lost in
\* whatever the image has there.
Load ==
    /\ stage = "load" /\ LoaderNext
    /\ stage' = CASE overwritten' -> "lost"
                  [] ~overwritten' /\ loading' -> "load"
                  [] OTHER -> "main"
    /\ UNCHANGED <<image_vars, user>>

\* *p_sys_size and *p_usr_size: the words patched at the start of the system.
p_sys_size == patch[512]
p_usr_size == patch[516]

\* To the addresses the program was linked at.  Beyond the user pages there
\* is nothing mapped, and the kernel faults.
copy_data(from, size) ==
    IF size > UserSize \/ from + size > L_USER_START + UserSize
    THEN stage' = "fault" /\ UNCHANGED user
    ELSE stage' = "user" /\ user' = [from |-> from, length |-> size]

Main ==
    /\ stage = "main"
    /\ copy_data(KERNEL_START + p_sys_size, p_usr_size)
    /\ UNCHANGED <<image_vars, loader_vars>>

BootNext == Make \/ PowerOn \/ Load \/ Main
BootSpec == BootInit /\ [][BootNext]_boot_vars

-----------------------------------------------------------------------------
patched(o) == \E p \in DOMAIN patch : o \in p .. p + (IF p = 500 THEN 1 ELSE 3)
no_byte == [file |-> "none", byte |-> 0]
\* A byte of the image, and a byte of the machine's memory.
image_byte(o) ==
    IF ~ \E p \in out : o \in p.at .. p.at + p.length - 1 THEN no_byte
    ELSE LET p == CHOOSE p \in out : o \in p.at .. p.at + p.length - 1
         IN  [file |-> IF patched(o) THEN "patch" ELSE p.file, byte |-> p.first + (o - p.at)]
memory_byte(a) ==
    LET s == a - (a % SectorSize)
    IN  IF s \notin DOMAIN memory THEN no_byte
        ELSE image_byte((memory[s] * SectorSize) + (a % SectorSize))

\* The bytes on both sides of every boundary of a sector or a buffer.
probes(size, shift) ==
    {b \in 0 .. size - 1 : b \in {0, size - 1}
                           \/ b % BufSize \in {0, BufSize - 1}
                           \/ (b + shift) % SectorSize \in {0, SectorSize - 1}}

\* The bytes the loader brings, and what it has room for below the boot
\* sector: it reads whole segments while one starts within the size.
image_size == st_size.system + st_size.user
Room == (INITSEG - SYSSEG) * Paragraph - Paragraph

\* Whatever buffers, sectors, tracks and segments the files are cut at on
\* their way through the image, the disk and the memory: when user mode
\* starts, the kernel is where it was linked, with only the words reserved
\* before its first instruction (0x10010) written over, and the whole user
\* program is where main moves it from to the addresses it was linked at.
\* That is of all images whose size in paragraphs fits the word build patches
\* (build.c:169): a longer one, of a MB, is loaded in part.
ProgramsInPlace ==
    stage = "user" /\ (image_size + 15) \div Paragraph < Segment =>
        /\ \A b \in probes(st_size.system, 0) \cup 12 .. 20 :
              b \in 12 .. st_size.system - 1 =>
                  memory_byte(KERNEL_START + b) = [file |-> "system", byte |-> b]
        /\ user.length = st_size.user
        /\ \A b \in probes(st_size.user, st_size.system) :
              memory_byte(user.from + b) = [file |-> "user", byte |-> b]

\* The boot sector is not loaded over by an image there is room for below it,
\* although the loop reads whole segments; and an image there is no room for,
\* short of a MB, never gets as far as the kernel (bootsect.S:218): nothing of
\* the system runs with its end missing.
LoaderIntact ==
    /\ image_size <= Room =>
          stage # "lost" /\ \A a \in DOMAIN memory : a + SectorSize <= address(INITSEG, 0)
    /\ stage \in {"main", "user", "fault"} /\ (image_size + 15) \div Paragraph < Segment
          => image_size <= Room
=============================================================================
