----------------------------- MODULE BootLoader -----------------------------
(***************************************************************************)
(* The boot sector (bootsect.S): read_it loads the system from the disk,   *)
(* a track at a time, without crossing a 64 kB boundary of memory.  A step *)
(* is one round of its loop, with the call of read_track in it.            *)
(***************************************************************************)
EXTENDS Naturals

CONSTANTS
    sectors,           \* SEC_PISTA: sectors of a track
    setup_sects        \* sectors between the boot sector and the system

\* The BIOS takes a sector number of six bits, and a track of eight: with three
\* sectors on a track the part of a disk it can name reaches past the memory
\* below the boot sector.
ASSUME LoaderAssumption ==
    /\ sectors \in 3 .. 63
    /\ setup_sects \in 0 .. sectors - 1

SectorSize == 512      \* what the shifts by 9 multiply and divide by
Segment    == 65536    \* values of a register, and bytes of a segment
Paragraph  == 16       \* bytes of one step of a segment register
SYSSEG     == 4096     \* where the system goes,
INITSEG    == 36864    \* and where the boot sector is

VARIABLES
    syssize,           \* the word of the boot sector: paragraphs to load
    es, bx,            \* where the next sector goes
    sread, head, track,\* where it is on the disk
    memory,            \* address of each sector loaded |-> sector of the disk
    loading            \* inside read_it
loader_vars == <<syssize, es, bx, sread, head, track, memory, loading>>

address(segment, offset) == (segment * Paragraph) + offset

\* BIOS interrupt 0x13, function 2: n consecutive sectors of one track.
lba(t, h, s) == ((((t * 2) + h) * sectors) + s) - 1
int13(t, h, s, n, to) ==
    LET read == {to + (SectorSize * i) : i \in 0 .. n - 1}
    IN  [a \in DOMAIN memory \cup read |->
            IF a \in read THEN lba(t, h, s) + ((a - to) \div SectorSize)
                          ELSE memory[a]]

\* Registers are a word wide, the head number one bit of dh.
read_track(n) ==
    int13(track % 256, head % 2, sread + 1, n, address(es, bx))

\* The start of read_it: behind the boot and setup sectors of track 0.
read_it ==
    /\ es' = SYSSEG /\ bx' = 0
    /\ sread' = setup_sects + 1 /\ head' = 0 /\ track' = 0
    /\ loading' = TRUE

\* sub ax,#SYSSEG; cmp ax,syssize; jbe ok1_read
Mut_one_more(segment) == (segment + Segment - SYSSEG) % Segment <= syssize + 1
more(segment) == (segment + Segment - SYSSEG) % Segment <= syssize

\* shl cx,#9: the bytes of n sectors, in a word.
shl9(n) == (n * SectorSize) % Segment

\* The rest of the track, or what fits in the segment (carry without zero).
to_read ==
    LET n == sectors - sread
        end == shl9(n) + bx
    IN  IF end <= Segment THEN n ELSE (Segment - bx) \div SectorSize

Mut_next_track(n) ==
    IF sread + n # sectors
    THEN sread' = sread + n /\ UNCHANGED <<head, track>>
    ELSE /\ sread' = 0 /\ head' = 1 - head
         /\ track' = track + 1
next_track(n) ==
    IF sread + n # sectors
    THEN sread' = sread + n /\ UNCHANGED <<head, track>>
    ELSE /\ sread' = 0 /\ head' = 1 - head
         /\ track' = IF head = 1 THEN track + 1 ELSE track

next_segment(n) ==
    LET end == bx + shl9(n)
    IN  IF end < Segment
        THEN bx' = end /\ UNCHANGED es
        ELSE bx' = 0 /\ es' = (es + (Segment \div Paragraph)) % Segment

ReadTrack ==
    /\ loading /\ more(es)
    /\ LET n == to_read
       IN  memory' = read_track(n) /\ next_track(n) /\ next_segment(n)
    /\ UNCHANGED <<syssize, loading>>

ReadDone ==
    /\ loading /\ ~ more(es)
    /\ loading' = FALSE
    /\ UNCHANGED <<syssize, es, bx, sread, head, track, memory>>

LoaderNext == ReadTrack \/ ReadDone
=============================================================================
