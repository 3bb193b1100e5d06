-------------------------------- MODULE Image -------------------------------
(***************************************************************************)
(* build.c: writes the disk image to its standard output from the boot     *)
(* sector, the system and the user program, then goes back to patch their  *)
(* sizes into it.  Any of its calls may fail; what it wrote stays.         *)
(***************************************************************************)
EXTENDS Integers

CONSTANTS
    Boots,             \* bound: boot sectors tried, [length, flag]
    Files,             \* bound: sizes of the two other files, [system, user]
    BufSize            \* sizeof(buf)

ASSUME ImageAssumption ==
    /\ BufSize \in Nat \ {0}
    /\ \A f \in Files : f \in [system : Nat, user : Nat]

VARIABLES
    boot, st_size,     \* the input files
    step,              \* where main is
    sz,                \* bytes of the current file still to copy
    end,               \* bytes written
    out,               \* pieces written: where, which file, from which byte, how many
    patch,             \* offset |-> value written over it after lseek
    status             \* exit status, -1 before
image_vars == <<boot, st_size, step, sz, end, out, patch, status>>

ImageInit ==
    /\ boot \in Boots /\ st_size \in Files
    /\ step = "boot" /\ sz = 0 /\ end = 0 /\ out = {}
    /\ patch = << >> /\ status = -1

write(file, first, n) ==
    /\ out' = out \cup {[at |-> end, file |-> file, first |-> first, length |-> n]}
    /\ end' = end + n

\* open, read, write, fstat or lseek fails, or a file is not what it should be.
Dies ==
    /\ step \notin {"died", "done"}
    /\ status' = 1 /\ step' = "died"
    /\ UNCHANGED <<boot, st_size, sz, end, out, patch>>

CopyBoot ==
    /\ step = "boot" /\ boot.length = 512 /\ boot.flag
    /\ write("boot", 0, 512)
    /\ step' = "system" /\ sz' = st_size.system
    /\ UNCHANGED <<boot, st_size, patch, status>>

\* The two copying loops: a buffer at a time, as long as fstat said.
CopyPiece ==
    /\ step \in {"system", "user"} /\ sz > 0
    /\ LET l == IF sz > BufSize THEN BufSize ELSE sz
       IN  write(step, st_size[step] - sz, l) /\ sz' = sz - l
    /\ UNCHANGED <<boot, st_size, step, patch, status>>

NextFile ==
    /\ step \in {"system", "user"} /\ sz = 0
    /\ step' = IF step = "system" THEN "user" ELSE "patch"
    /\ sz' = IF step = "system" THEN st_size.user ELSE 0
    /\ UNCHANGED <<boot, st_size, end, out, patch, status>>

\* The size of the image in paragraphs, rounded up, in a word.
im_size == ((st_size.system + st_size.user + 15) \div 16) % 65536

\* lseek and write, four times; buf[3] = 0 leaves 24 bits of a size.
Patches == [at \in {500, 512, 516, 520} |->
    CASE at = 500 -> im_size
      [] at = 512 -> st_size.system % 16777216
      [] at = 516 -> st_size.user % 16777216
      [] at = 520 -> 32282]
Patch ==
    /\ step = "patch"
    /\ patch' = Patches /\ status' = 0 /\ step' = "done"
    /\ UNCHANGED <<boot, st_size, sz, end, out>>

ImageNext == CopyBoot \/ CopyPiece \/ NextFile \/ Patch \/ Dies
=============================================================================
