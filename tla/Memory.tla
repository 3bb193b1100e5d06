------------------------------- MODULE Memory -------------------------------
(***************************************************************************)
(* Paging and shared memory of PROJECTE/zeos: the byte map of frames, the  *)
(* page table of every task slot, the vector of shared frames, and what    *)
(* fork, exit, shmat, shmdt and shmrm do to them (mm.c, sys.c).            *)
(*                                                                         *)
(* A logical page number and a frame number range over the same interval,  *)
(* laid out as in mm_address.h: kernel, code, data, and the pages above,   *)
(* where shared frames are attached and through whose first NUM_PAG_DATA   *)
(* pages fork copies the parent's data.  Which process runs is up to the   *)
(* scheduler: any live one may make the next call, and each call is one    *)
(* step, for interrupts are masked.  The access bits of a page and what    *)
(* private pages hold are left out.  A page fault in the kernel ends in    *)
(* page_fault_routine, which never returns: halted.                        *)
(*                                                                         *)
(* The program detaches what it attached; what shmdt does to any other     *)
(* page is undefined (it reads past shared_vector) and left out.           *)
(* Mut_... definitions are faulty variants, used only to test properties.  *)
(***************************************************************************)
EXTENDS Integers, FiniteSets

CONSTANTS
    Procs,            \* task slots, but for the one of idle
    FirstProc,        \* the slot of the initial process
    TOTAL_PAGES, NUM_PAG_KERNEL, NUM_PAG_CODE, NUM_PAG_DATA,
    GuardPages,       \* kernel pages around the task array
    SHARED,           \* length of shared_vector
    AttachPages,      \* addresses the program passes to shmat
    MaxRef            \* bound: attachments of one shared frame

PAG_LOG_INIT_CODE == NUM_PAG_KERNEL
PAG_LOG_INIT_DATA == PAG_LOG_INIT_CODE + NUM_PAG_CODE
PAG_LOG_INIT_SHM  == PAG_LOG_INIT_DATA + NUM_PAG_DATA

Pages  == 0 .. TOTAL_PAGES - 1
Frames == 0 .. TOTAL_PAGES - 1
Ids    == 0 .. SHARED - 1

KernelPages == 0 .. PAG_LOG_INIT_CODE - 1
CodePages   == PAG_LOG_INIT_CODE .. PAG_LOG_INIT_DATA - 1
DataPages   == PAG_LOG_INIT_DATA .. PAG_LOG_INIT_SHM - 1
ShmPages    == PAG_LOG_INIT_SHM .. TOTAL_PAGES - 1
WindowPages == {pag + NUM_PAG_DATA : pag \in DataPages}

\* alloc_frame looks at every second frame only.
AllocFrames == {f \in Frames : \E n \in Frames : f = NUM_PAG_KERNEL + 2 * n}

ASSUME MemoryAssumption ==
    /\ IsFiniteSet(Procs) /\ FirstProc \in Procs
    /\ {TOTAL_PAGES, NUM_PAG_CODE, NUM_PAG_DATA, SHARED, MaxRef} \subseteq Nat \ {0}
    /\ NUM_PAG_KERNEL \in Nat /\ NUM_PAG_KERNEL >= 2
    /\ GuardPages \subseteq KernelPages \ {0}
    /\ PAG_LOG_INIT_SHM + NUM_PAG_DATA <= TOTAL_PAGES
    /\ NUM_PAG_KERNEL + 2 * (NUM_PAG_CODE + NUM_PAG_DATA + SHARED) <= TOTAL_PAGES + 1
    /\ AttachPages \subseteq Pages

VARIABLES
    live,      \* slots that hold a process
    phys_mem,  \* frames marked USED_FRAME
    pt,        \* page table of every slot
    ref, delete,   \* of the entries of shared_vector
    content,   \* "clear" or "used": what each shared frame holds
    halted     \* the kernel stopped at a page fault of its own

vars == <<live, phys_mem, pt, ref, delete, content, halted>>

-----------------------------------------------------------------------------
\* Page tables and frames.

Unmapped == [frame |-> 0, present |-> FALSE]

\* set_ss_pag, del_ss_pag, get_frame.
MapTo(f) == [frame |-> f, present |-> TRUE]
get_frame(p, page) == pt[p][page].frame

\* What alloc_frame returns when it is called once for each data page, in
\* order: every time the lowest frame that is still free.
FreeFrames == AllocFrames \ phys_mem
lowest_free(alloc) ==
    /\ \A pag, q \in DataPages : pag < q => alloc[pag] < alloc[q]
    /\ \A pag \in DataPages, f \in FreeFrames :
          f < alloc[pag] => \E q \in DataPages : alloc[q] = f

\* free_frame ignores frames up to NUM_PAG_KERNEL.
freeable(F) == {f \in F : f > NUM_PAG_KERNEL /\ f < TOTAL_PAGES}

\* Frames given out at boot: code, data of the initial process, shared ones.
boot_frame(n) == NUM_PAG_KERNEL + 2 * n
CodeFrame(pag) == boot_frame(pag - PAG_LOG_INIT_CODE)
id_frame(id)   == boot_frame(NUM_PAG_CODE + NUM_PAG_DATA + id)

SharedFrames == {id_frame(id) : id \in Ids}
find_shframe(f) == CHOOSE id \in Ids : id_frame(id) = f

\* init_table_pages: page 0 is left out, guard pages are made invalid but
\* keep the number of their frame.
kernel_entry(pag) == IF pag = 0 THEN Unmapped
                     ELSE [frame |-> pag, present |-> pag \notin GuardPages]

init_table == [pag \in Pages |->
                  IF pag \in KernelPages THEN kernel_entry(pag) ELSE Unmapped]

\* set_user_pages
user_table == [pag \in Pages |->
                  IF pag \in CodePages \cup DataPages
                  THEN MapTo(CodeFrame(pag)) ELSE init_table[pag]]

Init ==
    /\ live = {FirstProc}
    /\ phys_mem = KernelPages \cup
           {boot_frame(n) : n \in 0 .. NUM_PAG_CODE + NUM_PAG_DATA + SHARED - 1}
    /\ pt = [p \in Procs |-> IF p = FirstProc THEN user_table ELSE init_table]
    /\ ref = [id \in Ids |-> 0]
    /\ delete = [id \in Ids |-> FALSE]
    /\ content \in [Ids -> {"clear", "used"}]
    /\ halted = FALSE

Running(p) == ~halted /\ p \in live

\* The pages above the data of p where a shared frame is attached, and those
\* of them that hold the one of id.
attached(p) == {pag \in ShmPages : get_frame(p, pag) # 0}
attachments(p, id) == {pag \in attached(p) : get_frame(p, pag) = id_frame(id)}

-----------------------------------------------------------------------------
\* fork.  The table of the child c: frames of its own for the data, the
\* parent's for kernel and code (every entry present), and the parent's
\* attachments that are left once its data was copied: the page at which a
\* child's frame is mapped for the copy is unmapped afterwards, whatever was
\* there before.

Mut_copied_attachments(p) ==
    {pag \in attached(p) \ WindowPages :
        \A q \in ShmPages \ WindowPages : q < pag => q \in attached(p)}
copied_attachments(p) == attached(p) \ WindowPages

Mut_child_table(p, c, alloc) ==
    [pag \in Pages |->
        CASE pag \in KernelPages \cup CodePages \cup DataPages -> MapTo(get_frame(p, pag))
          [] pag \in copied_attachments(p) -> MapTo(get_frame(p, pag))
          [] OTHER -> pt[c][pag]]

child_table(p, c, alloc) ==
    [pag \in Pages |->
        CASE pag \in KernelPages \cup CodePages -> MapTo(get_frame(p, pag))
          [] pag \in DataPages -> MapTo(alloc[pag])
          [] pag \in copied_attachments(p) -> MapTo(get_frame(p, pag))
          [] OTHER -> pt[c][pag]]

parent_table(p) ==
    [pag \in Pages |-> IF pag \in WindowPages THEN Unmapped ELSE pt[p][pag]]

inherited(p, id) == Cardinality(attachments(p, id) \ WindowPages)

\* If the translation of a page of the copy window was cached, the copy may
\* still go to the frame that was attached there.
stale_window(p, id) == attachments(p, id) \cap WindowPages # {}

Mut_SysFork(p, c) ==
    /\ Running(p) /\ c \in Procs \ live
    /\ live' = live \cup {c}
    /\ \E alloc \in [DataPages -> FreeFrames] :
          /\ lowest_free(alloc)
          /\ phys_mem' = phys_mem \cup {alloc[pag] : pag \in DataPages}
          /\ pt' = [pt EXCEPT ![c] = child_table(p, c, alloc), ![p] = parent_table(p)]
    /\ UNCHANGED <<ref, delete, content, halted>>

SysFork(p, c) ==
    /\ Running(p) /\ c \in Procs \ live
    /\ live' = live \cup {c}
    /\ \E alloc \in [DataPages -> FreeFrames] :
          /\ lowest_free(alloc)
          /\ phys_mem' = phys_mem \cup {alloc[pag] : pag \in DataPages}
          /\ pt' = [pt EXCEPT ![c] = child_table(p, c, alloc), ![p] = parent_table(p)]
    /\ \A id \in Ids : ref[id] + inherited(p, id) <= MaxRef
    /\ ref' = [id \in Ids |-> ref[id] + inherited(p, id)]
    /\ \E stale \in SUBSET {id \in Ids : stale_window(p, id)} :
          content' = [id \in Ids |-> IF id \in stale THEN "used" ELSE content[id]]
    /\ UNCHANGED <<delete, halted>>

Mut_SysForkNoFrames(p, c) ==
    /\ Running(p) /\ c \in Procs \ live
    /\ Cardinality(FreeFrames) < NUM_PAG_DATA
    /\ phys_mem' = phys_mem \cup FreeFrames
    /\ pt' = [pt EXCEPT ![c] = [pag \in Pages |->
                 IF pag \in DataPages /\ pag < PAG_LOG_INIT_DATA + Cardinality(FreeFrames)
                 THEN Unmapped ELSE pt[c][pag]]]
    /\ UNCHANGED <<live, ref, delete, content, halted>>

\* fork when the frames run out: those allocated so far are freed again and
\* taken out of the table of the slot.
SysForkNoFrames(p, c) ==
    /\ Running(p) /\ c \in Procs \ live
    /\ Cardinality(FreeFrames) < NUM_PAG_DATA
    /\ phys_mem' = (phys_mem \cup FreeFrames) \ freeable(FreeFrames)
    /\ pt' = [pt EXCEPT ![c] = [pag \in Pages |->
                 IF pag \in DataPages /\ pag < PAG_LOG_INIT_DATA + Cardinality(FreeFrames)
                 THEN Unmapped ELSE pt[c][pag]]]
    /\ UNCHANGED <<live, ref, delete, content, halted>>

-----------------------------------------------------------------------------
\* exit.  Data frames are freed, attachments removed page by page, upwards.
\* When the last attachment of a frame marked for deletion goes, the code
\* clears the logical page that has the number of the frame.

left_data(p) == freeable({get_frame(p, pag) : pag \in DataPages})
left_table(p) == [pag \in Pages |-> IF pag \in DataPages \cup attached(p)
                                    THEN Unmapped ELSE pt[p][pag]]
left_ref(p) == [id \in Ids |-> ref[id] - Cardinality(attachments(p, id))]

\* The shared frames to clear; the page where each is looked for is there
\* if it is still attached, may be there if its translation is cached, and
\* is not there otherwise.
to_clear(p) == {id \in Ids : /\ attachments(p, id) # {} /\ delete[id]
                             /\ left_ref(p)[id] = 0}
last(p, id) == CHOOSE pag \in attachments(p, id) :
                   \A q \in attachments(p, id) : q <= pag
still_there(p, id)  == id_frame(id) \in attached(p) /\ id_frame(id) > last(p, id)
may_be_there(p, id) == id_frame(id) \in attached(p)

\* What is cleared is the frame attached at that page.
cleared_instead(p, I) == {find_shframe(get_frame(p, id_frame(id))) : id \in I}

SysExit(p) ==
    /\ Running(p)
    /\ \A id \in to_clear(p) : may_be_there(p, id)
    /\ live' = live \ {p}
    /\ phys_mem' = phys_mem \ left_data(p)
    /\ pt' = [pt EXCEPT ![p] = left_table(p)]
    /\ ref' = left_ref(p)
    /\ content' = [id \in Ids |-> IF id \in cleared_instead(p, to_clear(p))
                                  THEN "clear" ELSE content[id]]
    /\ UNCHANGED <<delete, halted>>

\* The clearing loop of exit meets a page that is not there.  Nothing can
\* observe what it had already done.
SysExitFaults(p) ==
    /\ Running(p)
    /\ \E id \in to_clear(p) : ~still_there(p, id)
    /\ halted' = TRUE
    /\ UNCHANGED <<live, phys_mem, pt, ref, delete, content>>

-----------------------------------------------------------------------------
\* Shared memory calls.

\* The page shmat uses for the address page: itself, unless it is NULL or
\* taken; then the first page from there on that is not present.
candidates(p, page) ==
    IF page # 0 /\ ~pt[p][page].present THEN {page}
    ELSE {pag \in page .. TOTAL_PAGES - 2 : ~pt[p][pag].present}

SysShmat(p, id, page) ==
    /\ Running(p)
    /\ ref[id] < MaxRef
    /\ \E at \in candidates(p, page) :
          /\ \A pag \in candidates(p, page) : at <= pag
          /\ pt' = [pt EXCEPT ![p][at] = MapTo(id_frame(id))]
    /\ ref' = [ref EXCEPT ![id] = @ + 1]
    /\ UNCHANGED <<live, phys_mem, delete, content, halted>>

Mut_SysShmdt_early(p, page) ==
    /\ Running(p)
    /\ page # 0
    /\ LET id == find_shframe(get_frame(p, page)) IN
        /\ ref' = [ref EXCEPT ![id] = @ - 1]
        /\ content' = IF delete[id] /\ ref[id] = 0
                      THEN [content EXCEPT ![id] = "clear"] ELSE content
    /\ pt' = [pt EXCEPT ![p][page] = Unmapped]
    /\ UNCHANGED <<live, phys_mem, delete, halted>>

SysShmdt(p, page) ==
    /\ Running(p)
    /\ page # 0
    /\ LET id == find_shframe(get_frame(p, page)) IN
        /\ ref' = [ref EXCEPT ![id] = @ - 1]
        /\ content' = IF delete[id] /\ ref'[id] = 0
                      THEN [content EXCEPT ![id] = "clear"] ELSE content
    /\ pt' = [pt EXCEPT ![p][page] = Unmapped]
    /\ UNCHANGED <<live, phys_mem, delete, halted>>

SysShmrm(p, id) ==
    /\ Running(p)
    /\ delete' = [delete EXCEPT ![id] = TRUE]
    /\ UNCHANGED <<live, phys_mem, pt, ref, content, halted>>

\* A process writes to a shared frame it has attached.
UserWrite(p, id) ==
    /\ Running(p)
    /\ \E pag \in Pages : pt[p][pag] = MapTo(id_frame(id))
    /\ content' = [content EXCEPT ![id] = "used"]
    /\ UNCHANGED <<live, phys_mem, pt, ref, delete, halted>>

-----------------------------------------------------------------------------
ProcNext(p) ==
    \/ \E c \in Procs : SysFork(p, c) \/ SysForkNoFrames(p, c)
    \/ SysExit(p)
    \/ SysExitFaults(p)
    \/ \E id \in Ids, page \in AttachPages : SysShmat(p, id, page)
    \/ \E page \in attached(p) : SysShmdt(p, page)
    \/ \E id \in Ids : SysShmrm(p, id) \/ UserWrite(p, id)

Next == \E p \in Procs : ProcNext(p)

Spec == Init /\ [][Next]_vars
=============================================================================
