---------------------------- MODULE MemoryProps -----------------------------
(***************************************************************************)
(* What must hold of the page tables, the frames and the shared memory of  *)
(* Memory.                                                                 *)
(***************************************************************************)
EXTENDS Memory, TLC

\* The slots of children are interchangeable.
Children == Permutations(Procs \ {FirstProc})

Entries == [frame : Frames, present : BOOLEAN]

\* Type invariant.
TypeOK ==
    /\ live \subseteq Procs
    /\ phys_mem \subseteq Frames
    /\ pt \in [Procs -> [Pages -> Entries]]
    /\ ref \in [Ids -> 0 .. MaxRef]
    /\ delete \in [Ids -> BOOLEAN]
    /\ content \in [Ids -> {"clear", "used"}]
    /\ halted \in BOOLEAN

CodeFrames == {CodeFrame(pag) : pag \in CodePages}
data_frames(p) == {get_frame(p, pag) : pag \in DataPages}
LiveData == UNION {data_frames(p) : p \in live}

\* Every page of a process's data has a frame that nothing else in the
\* system uses: not another process, nor another page of the same one, nor
\* the shared memory, nor the code; fork, exit and the attach calls of all
\* processes together keep it so.
DataIsPrivate ==
    \A p \in live, pag \in DataPages :
        /\ pt[p][pag].present
        /\ get_frame(p, pag) \notin CodeFrames \cup SharedFrames \cup KernelPages
        /\ \A q \in live, r \in Pages :
              pt[q][r] = pt[p][pag] => q = p /\ r = pag

\* The byte map is exact: a frame is marked used if and only if the kernel,
\* the code, the shared memory or a live process has it.  A fork that fails
\* half-way and an exit give back what they had.
NoFrameLeak ==
    phys_mem = KernelPages \cup CodeFrames \cup SharedFrames \cup LiveData

\* The pages, of all processes, where a shared frame is attached.
users(id) == {u \in live \X Pages : pt[u[1]][u[2]] = MapTo(id_frame(id))}

\* The reference count of a shared frame is the number of pages, in all
\* processes, where it is attached.
RefCounts ==
    \A id \in Ids : ref[id] = Cardinality(users(id))

\* The table of a free slot holds nothing that a process to come would find
\* above its data.
FreeSlotsClean == \A p \in Procs \ live : attached(p) = {}

\* A page of a process that stays alive is never moved to another frame
\* under it: shmat on a page in use goes elsewhere, and the copy window of
\* fork unmaps what it finds but leaves no frame of the child behind.
NeverRemapped ==
    [][\A p \in live \cap live', pag \in Pages :
          pt[p][pag].present => pt'[p][pag] \in {pt[p][pag], Unmapped}]_vars

\* "Copy shared memory if available": the child of a fork has every shared
\* frame its parent has, at the same pages, and the parent keeps its own.
ForkCopiesAttachments ==
    [][\A c \in live' \ live : \E p \in live :
          \A pag \in ShmPages :
             /\ pt'[p][pag] = pt[p][pag]
             /\ pt'[c][pag].frame = get_frame(p, pag)]_vars

\* A frame marked for deletion is cleared by the detach that leaves it in no
\* page of any process, however many processes shared it, by attaching or by
\* fork, and in whatever order they detached or ended.
LastDetachClears ==
    [][\A id \in Ids :
          /\ delete[id] /\ users(id) # {} /\ users(id)' = {}
          /\ live' = live
          => content'[id] = "clear"]_vars

\* The kernel faults, clearing a frame in exit, only where that frame was
\* marked for deletion and no other process has it: while one process still
\* uses a frame, nothing the others do to it stops the system.
FaultOnlyByLastUser ==
    [][halted' /\ ~halted =>
          \E p \in live, id \in Ids :
             /\ delete[id] /\ users(id) # {}
             /\ \A u \in users(id) : u[1] = p]_vars

\* "Leave the page inaccessible to comply with NULL convention".
NullPageInaccessible == \A p \in live : ~pt[p][0].present

\* "Leave the page inaccessible to comply with NULL convention": no shared
\* frame is attached there, by a process that did not fork either.
NullIsNoAttachment ==
    \A p \in live, id \in Ids : pt[p][0] # MapTo(id_frame(id))

\* "Protect the task array by using a couple of invalid pages before and
\* after the task array".
GuardPagesInvalid == \A p \in live, g \in GuardPages : ~pt[p][g].present

\* "clear": the last process that leaves a frame marked for deletion clears
\* it and the system goes on.
LastExitClears == ~halted
=============================================================================
