---------------------------- MODULE MemoryProofs ----------------------------
(***************************************************************************)
(* Theorems about Memory: private data, the byte map of frames, and free   *)
(* slots, for every layout, number of processes and shared frames.         *)
(***************************************************************************)
EXTENDS MemoryProps, FiniteSetTheorems, TLAPS

-----------------------------------------------------------------------------
\* The layout.

LEMMA Types ==
    /\ NUM_PAG_KERNEL \in Nat /\ NUM_PAG_KERNEL >= 2
    /\ TOTAL_PAGES \in Nat \ {0} /\ NUM_PAG_CODE \in Nat \ {0}
    /\ NUM_PAG_DATA \in Nat \ {0} /\ SHARED \in Nat \ {0} /\ MaxRef \in Nat \ {0}
    /\ NUM_PAG_KERNEL + NUM_PAG_CODE + NUM_PAG_DATA + NUM_PAG_DATA <= TOTAL_PAGES
    /\ NUM_PAG_KERNEL + (2 * (NUM_PAG_CODE + NUM_PAG_DATA + SHARED)) <= TOTAL_PAGES + 1
    /\ PAG_LOG_INIT_CODE = NUM_PAG_KERNEL
    /\ PAG_LOG_INIT_DATA = NUM_PAG_KERNEL + NUM_PAG_CODE
    /\ PAG_LOG_INIT_SHM = NUM_PAG_KERNEL + NUM_PAG_CODE + NUM_PAG_DATA
  BY MemoryAssumption DEF PAG_LOG_INIT_CODE, PAG_LOG_INIT_DATA, PAG_LOG_INIT_SHM

\* Every page is of the kernel, code, data or above, and of one of them.
LEMMA PageKinds ==
    /\ Pages = KernelPages \cup CodePages \cup DataPages \cup ShmPages
    /\ KernelPages \cap (CodePages \cup DataPages \cup ShmPages) = {}
    /\ CodePages \cap (DataPages \cup ShmPages) = {}
    /\ DataPages \cap ShmPages = {}
    /\ WindowPages \subseteq ShmPages
    /\ 0 \in KernelPages
  <1> USE Types DEF Pages, KernelPages, CodePages, DataPages, ShmPages
  <1>1. Pages = KernelPages \cup CodePages \cup DataPages \cup ShmPages
    OBVIOUS
  <1>2. /\ KernelPages \cap (CodePages \cup DataPages \cup ShmPages) = {}
        /\ CodePages \cap (DataPages \cup ShmPages) = {}
        /\ DataPages \cap ShmPages = {}
    OBVIOUS
  <1>3. WindowPages \subseteq ShmPages  BY DEF WindowPages
  <1> QED  BY <1>1, <1>2, <1>3

\* The frames of kernel, code and shared memory do not meet, and the frames
\* alloc_frame looks at are none of the kernel's.
LEMMA FrameKinds ==
    /\ \A pag \in CodePages \cup DataPages :
          CodeFrame(pag) \in Frames \ KernelPages
    /\ \A id \in Ids : id_frame(id) \in Frames \ KernelPages
    /\ \A pag, q \in CodePages \cup DataPages : CodeFrame(pag) = CodeFrame(q) => pag = q
    /\ \A pag \in CodePages \cup DataPages, id \in Ids : CodeFrame(pag) # id_frame(id)
    /\ \A id, jd \in Ids : id_frame(id) = id_frame(jd) => id = jd
    /\ AllocFrames \subseteq Frames \ KernelPages
    /\ NUM_PAG_KERNEL \in CodeFrames
    /\ KernelPages \subseteq Frames
  <1> USE Types DEF Frames, KernelPages, CodePages, DataPages, Ids, CodeFrame,
                    id_frame, boot_frame
  <1>1. \A pag \in CodePages \cup DataPages :
           CodeFrame(pag) \in Frames \ KernelPages
    OBVIOUS
  <1>2. \A id \in Ids : id_frame(id) \in Frames \ KernelPages
    OBVIOUS
  <1>3. \A pag, q \in CodePages \cup DataPages : CodeFrame(pag) = CodeFrame(q) => pag = q
    OBVIOUS
  <1>4. \A pag \in CodePages \cup DataPages, id \in Ids : CodeFrame(pag) # id_frame(id)
    OBVIOUS
  <1>5. \A id, jd \in Ids : id_frame(id) = id_frame(jd) => id = jd
    OBVIOUS
  <1>6. AllocFrames \subseteq Frames \ KernelPages  BY DEF AllocFrames
  <1>7. NUM_PAG_KERNEL \in CodeFrames
    <2>1. NUM_PAG_KERNEL \in CodePages /\ CodeFrame(NUM_PAG_KERNEL) = NUM_PAG_KERNEL
      OBVIOUS
    <2> QED  BY <2>1 DEF CodeFrames
  <1>8. KernelPages \subseteq Frames  OBVIOUS
  <1> QED  BY <1>1, <1>2, <1>3, <1>4, <1>5, <1>6, <1>7, <1>8

\* The same, of the sets.
LEMMA FrameSets ==
    /\ KernelPages \cap (CodeFrames \cup SharedFrames) = {}
    /\ CodeFrames \cap SharedFrames = {}
    /\ CodeFrames \cup SharedFrames \cup KernelPages \subseteq Frames
    /\ 0 \notin SharedFrames
  BY FrameKinds, PageKinds DEF CodeFrames, SharedFrames

-----------------------------------------------------------------------------
\* The inductive invariant.  A frame given to a new process is private only
\* because the byte map is exact, and that is so only because no page holds a
\* frame it should not: what each table maps, and the byte map, are proved
\* together.

TablesTyped == /\ live \subseteq Procs
               /\ phys_mem \subseteq Frames
               /\ pt \in [Procs -> [Pages -> Entries]]

\* Kernel pages hold kernel frames, or a shared one a program attached there.
KernelMapped == \A p \in live, pag \in KernelPages :
                   get_frame(p, pag) \in KernelPages \cup SharedFrames
CodeMapped == \A p \in live, pag \in CodePages : pt[p][pag] = MapTo(CodeFrame(pag))
DataMapped == \A p \in live, pag \in DataPages :
                 /\ pt[p][pag].present
                 /\ get_frame(p, pag) \notin CodeFrames \cup SharedFrames \cup KernelPages
DataDistinct == \A p, q \in live, pag, r \in DataPages :
                   get_frame(p, pag) = get_frame(q, r) => p = q /\ pag = r
Attachment == {Unmapped} \cup {MapTo(f) : f \in SharedFrames}
ShmMapped  == \A p \in live, pag \in ShmPages : pt[p][pag] \in Attachment
FreeTables == \A p \in Procs \ live, pag \in ShmPages : pt[p][pag] = Unmapped

Tables == /\ TablesTyped
          /\ KernelMapped
          /\ CodeMapped
          /\ DataMapped
          /\ DataDistinct
          /\ ShmMapped
          /\ FreeTables
          /\ NoFrameLeak

\* A page above the data holds an attachment exactly when it is mapped.
LEMMA AttachedIsMapped ==
    ASSUME NEW p \in Procs, NEW pag \in ShmPages, pt[p][pag] \in Attachment
    PROVE  /\ pag \in attached(p) <=> get_frame(p, pag) \in SharedFrames
           /\ pag \in attached(p) <=> pt[p][pag].present
           /\ pag \in attached(p) <=> pt[p][pag] # Unmapped
           /\ pag \in attached(p) => pt[p][pag] = MapTo(get_frame(p, pag))
  <1>1. CASE pt[p][pag] = Unmapped
    BY <1>1, FrameSets DEF attached, get_frame, Unmapped, MapTo
  <1>2. CASE \E f \in SharedFrames : pt[p][pag] = MapTo(f)
    BY <1>2, FrameSets DEF attached, get_frame, Unmapped, MapTo
  <1> QED  BY <1>1, <1>2 DEF Attachment

\* An entry made by set_ss_pag or del_ss_pag is an entry.
LEMMA EntryTypes ==
    /\ Unmapped \in Entries
    /\ \A f \in Frames : MapTo(f) \in Entries
    /\ \A e \in Entries : e.frame \in Frames /\ e.present \in BOOLEAN
    /\ \A e \in Entries : e.present => e = MapTo(e.frame)
    /\ \A f : MapTo(f).frame = f /\ MapTo(f).present = TRUE
    /\ Unmapped.frame = 0 /\ Unmapped.present = FALSE
  BY FrameKinds, PageKinds DEF Entries, Unmapped, MapTo

\* Boot leaves tables of the invariant.
LEMMA InitTables == Init => Tables
  <1> SUFFICES ASSUME Init PROVE Tables
    OBVIOUS
  <1> DEFINE N == NUM_PAG_CODE + NUM_PAG_DATA
  <1>0. FirstProc \in Procs /\ live = {FirstProc} /\ pt[FirstProc] = user_table
    BY MemoryAssumption DEF Init
  <1>1. \A pag \in Pages : init_table[pag] \in Entries /\ user_table[pag] \in Entries
    BY EntryTypes, FrameKinds, PageKinds
    DEF init_table, user_table, kernel_entry, Entries
  <1>2. TablesTyped
    <2>1. phys_mem \subseteq Frames
      BY Types DEF Init, Frames, KernelPages, boot_frame
    <2>2. init_table \in [Pages -> Entries] /\ user_table \in [Pages -> Entries]
      BY <1>1 DEF init_table, user_table
    <2> QED  BY <2>1, <2>2, <1>0 DEF TablesTyped, Init
  <1>3. /\ \A pag \in KernelPages : user_table[pag].frame \in KernelPages
        /\ \A pag \in CodePages \cup DataPages : user_table[pag] = MapTo(CodeFrame(pag))
        /\ \A pag \in ShmPages : user_table[pag] = Unmapped /\ init_table[pag] = Unmapped
    BY PageKinds DEF user_table, init_table, kernel_entry, Unmapped
  <1>4. KernelMapped /\ CodeMapped
    BY <1>0, <1>3 DEF KernelMapped, CodeMapped, get_frame
  <1>5. \A pag \in DataPages :
           CodeFrame(pag) \notin CodeFrames \cup SharedFrames \cup KernelPages
    BY FrameKinds, PageKinds DEF CodeFrames, SharedFrames
  <1>6. DataMapped
    BY <1>0, <1>3, <1>5, EntryTypes DEF DataMapped, get_frame
  <1>7. DataDistinct
    BY <1>0, <1>3, FrameKinds, EntryTypes DEF DataDistinct, get_frame
  <1>8. ShmMapped /\ FreeTables
    <2>1. \A p \in Procs \ live : pt[p] = init_table
      BY DEF Init
    <2> QED  BY <2>1, <1>0, <1>3 DEF ShmMapped, FreeTables, Attachment
  <1>9. NoFrameLeak
    <2>1. LiveData = {CodeFrame(pag) : pag \in DataPages}
      BY <1>0, <1>3, EntryTypes DEF LiveData, data_frames, get_frame
    <2>2. {boot_frame(n) : n \in 0 .. N + SHARED - 1}
             = CodeFrames \cup SharedFrames \cup {CodeFrame(pag) : pag \in DataPages}
      <3>1. ASSUME NEW n \in 0 .. N + SHARED - 1
            PROVE  boot_frame(n) \in CodeFrames \cup SharedFrames
                                       \cup {CodeFrame(pag) : pag \in DataPages}
        <4>1. CASE n < N
          <5>1. /\ n + NUM_PAG_KERNEL \in CodePages \cup DataPages
                /\ CodeFrame(n + NUM_PAG_KERNEL) = boot_frame(n)
            BY <4>1, Types DEF CodePages, DataPages, CodeFrame
          <5> QED  BY <5>1 DEF CodeFrames
        <4>2. CASE n >= N
          <5>1. n - N \in Ids /\ id_frame(n - N) = boot_frame(n)
            BY <4>2, Types DEF Ids, id_frame
          <5> QED  BY <5>1 DEF SharedFrames
        <4> QED  BY <4>1, <4>2, Types
      <3>2. \A pag \in CodePages \cup DataPages :
               \E n \in 0 .. N + SHARED - 1 : CodeFrame(pag) = boot_frame(n)
        BY Types DEF CodePages, DataPages, CodeFrame
      <3>3. \A id \in Ids : \E n \in 0 .. N + SHARED - 1 : id_frame(id) = boot_frame(n)
        BY Types DEF Ids, id_frame
      <3> QED  BY <3>1, <3>2, <3>3 DEF CodeFrames, SharedFrames
    <2> QED  BY <2>1, <2>2 DEF NoFrameLeak, Init
  <1> QED  BY <1>2, <1>4, <1>6, <1>7, <1>8, <1>9 DEF Tables

-----------------------------------------------------------------------------
\* Each call preserves the invariant.

\* What the table of a child holds, kind of page by kind of page.
LEMMA ChildTable ==
    ASSUME NEW p \in Procs, NEW c \in Procs, NEW alloc
    PROVE  /\ \A pag \in KernelPages \cup CodePages :
                 child_table(p, c, alloc)[pag] = MapTo(get_frame(p, pag))
           /\ \A pag \in DataPages : child_table(p, c, alloc)[pag] = MapTo(alloc[pag])
           /\ \A pag \in copied_attachments(p) :
                 child_table(p, c, alloc)[pag] = MapTo(get_frame(p, pag))
           /\ \A pag \in ShmPages \ copied_attachments(p) :
                 child_table(p, c, alloc)[pag] = pt[c][pag]
  <1>0. copied_attachments(p) \subseteq ShmPages
    BY DEF copied_attachments, attached
  <1>1. ASSUME NEW pag \in KernelPages \cup CodePages
        PROVE  child_table(p, c, alloc)[pag] = MapTo(get_frame(p, pag))
    <2>1. pag \in Pages /\ pag \notin DataPages /\ pag \notin copied_attachments(p)
      BY <1>0, PageKinds
    <2> QED  BY <2>1 DEF child_table
  <1>2. ASSUME NEW pag \in DataPages
        PROVE  child_table(p, c, alloc)[pag] = MapTo(alloc[pag])
    <2>1. /\ pag \in Pages /\ pag \notin KernelPages \cup CodePages
          /\ pag \notin copied_attachments(p)
      BY <1>0, PageKinds
    <2> QED  BY <2>1 DEF child_table
  <1>3. ASSUME NEW pag \in copied_attachments(p)
        PROVE  child_table(p, c, alloc)[pag] = MapTo(get_frame(p, pag))
    <2>1. pag \in Pages /\ pag \notin KernelPages \cup CodePages \cup DataPages
      BY <1>0, PageKinds
    <2> QED  BY <2>1 DEF child_table
  <1>4. ASSUME NEW pag \in ShmPages \ copied_attachments(p)
        PROVE  child_table(p, c, alloc)[pag] = pt[c][pag]
    <2>1. pag \in Pages /\ pag \notin KernelPages \cup CodePages \cup DataPages
      BY PageKinds
    <2> QED  BY <2>1 DEF child_table
  <1> QED  BY <1>1, <1>2, <1>3, <1>4

\* fork.  The frames of the child were free, so they are nobody's.
LEMMA ForkPreserves ==
    ASSUME Tables, NEW p \in Procs, NEW c \in Procs, SysFork(p, c)
    PROVE  Tables'
  <1> PICK alloc \in [DataPages -> FreeFrames] :
         /\ lowest_free(alloc)
         /\ phys_mem' = phys_mem \cup {alloc[pag] : pag \in DataPages}
         /\ pt' = [pt EXCEPT ![c] = child_table(p, c, alloc), ![p] = parent_table(p)]
    BY DEF SysFork
  <1>0. p \in live /\ c \notin live /\ c # p /\ live' = live \cup {c}
    BY DEF SysFork, Running
  <1>t. live \subseteq Procs /\ phys_mem \subseteq Frames
        /\ pt \in [Procs -> [Pages -> Entries]]
    BY DEF Tables, TablesTyped
  <1>1. /\ pt'[c] = child_table(p, c, alloc) /\ pt'[p] = parent_table(p)
        /\ \A q \in Procs \ {p, c} : pt'[q] = pt[q]
    BY <1>0, <1>t
  <1>2. /\ \A pag \in DataPages : /\ alloc[pag] \in Frames
                                  /\ alloc[pag] \notin phys_mem \cup KernelPages
        /\ \A pag, q \in DataPages : alloc[pag] = alloc[q] => pag = q
    <2>1. \A pag \in DataPages : alloc[pag] \in AllocFrames \ phys_mem
      BY DEF FreeFrames
    <2>2. \A pag, q \in DataPages : pag < q => alloc[pag] < alloc[q]
      BY DEF lowest_free
    <2>3. \A pag, q \in DataPages : alloc[pag] = alloc[q] => pag = q
      <3> SUFFICES ASSUME NEW pag \in DataPages, NEW q \in DataPages,
                          alloc[pag] = alloc[q], pag # q
                   PROVE  FALSE
        OBVIOUS
      <3>1. pag \in Int /\ q \in Int /\ alloc[pag] \in Int /\ alloc[q] \in Int
        <4>1. \A f \in AllocFrames : f \in Int
          BY FrameKinds, Types DEF Frames
        <4>2. \A n \in DataPages : n \in Int
          BY Types DEF DataPages
        <4> QED  BY <2>1, <4>1, <4>2
      <3>2. pag < q \/ q < pag
        BY <3>1
      <3> QED  BY <2>2, <3>1, <3>2
    <2> QED  BY <2>1, <2>3, FrameKinds
  <1>3. \A pag \in DataPages : alloc[pag] \notin CodeFrames \cup SharedFrames \cup LiveData
    BY <1>2 DEF Tables, NoFrameLeak
  \* The entries of parent and child.
  <1>4. /\ \A pag \in KernelPages \cup CodePages :
              /\ pt'[p][pag] = pt[p][pag]
              /\ pt'[c][pag] = MapTo(get_frame(p, pag))
        /\ \A pag \in DataPages : /\ pt'[p][pag] = pt[p][pag]
                                  /\ pt'[c][pag] = MapTo(alloc[pag])
        /\ \A pag \in ShmPages :
              /\ pt'[p][pag] \in {Unmapped, pt[p][pag]}
              /\ pt'[c][pag] = IF pag \in copied_attachments(p)
                               THEN MapTo(get_frame(p, pag)) ELSE pt[c][pag]
    <2>1. \A pag \in Pages : parent_table(p)[pag] = IF pag \in WindowPages
                                                  THEN Unmapped ELSE pt[p][pag]
      BY DEF parent_table
    <2>2. ASSUME NEW pag \in KernelPages \cup CodePages
          PROVE  pt'[p][pag] = pt[p][pag] /\ pt'[c][pag] = MapTo(get_frame(p, pag))
      <3>1. pag \in Pages /\ pag \notin WindowPages
        BY PageKinds
      <3>2. pt'[p][pag] = pt[p][pag]
        BY <1>1, <2>1, <3>1
      <3>3. pt'[c][pag] = child_table(p, c, alloc)[pag]
        BY <1>1
      <3> QED  BY <3>2, <3>3, ChildTable
    <2>3. ASSUME NEW pag \in DataPages
          PROVE  pt'[p][pag] = pt[p][pag] /\ pt'[c][pag] = MapTo(alloc[pag])
      <3>1. pag \in Pages /\ pag \notin WindowPages
        BY PageKinds
      <3>2. pt'[p][pag] = pt[p][pag]
        BY <1>1, <2>1, <3>1
      <3>3. pt'[c][pag] = child_table(p, c, alloc)[pag]
        BY <1>1
      <3> QED  BY <3>2, <3>3, ChildTable
    <2>4. ASSUME NEW pag \in ShmPages
          PROVE  /\ pt'[p][pag] \in {Unmapped, pt[p][pag]}
                 /\ pt'[c][pag] = IF pag \in copied_attachments(p)
                                  THEN MapTo(get_frame(p, pag)) ELSE pt[c][pag]
      <3>1. pt'[p][pag] \in {Unmapped, pt[p][pag]}
        BY <1>1, <2>1, PageKinds
      <3>2. pt'[c][pag] = child_table(p, c, alloc)[pag]
        BY <1>1
      <3> QED  BY <3>1, <3>2, ChildTable
    <2> QED  BY <2>2, <2>3, <2>4
  <1>5. /\ \A pag \in DataPages : pt'[c][pag] = MapTo(alloc[pag])
        /\ \A q \in live, pag \in DataPages : pt'[q][pag] = pt[q][pag]
    BY <1>0, <1>1, <1>4, <1>t
  <1>6. /\ \A pag \in DataPages : get_frame(c, pag)' = alloc[pag]
        /\ \A q \in live, pag \in DataPages : get_frame(q, pag)' = get_frame(q, pag)
    BY <1>5, EntryTypes DEF get_frame
  <1>7. TablesTyped'
    <2>1. child_table(p, c, alloc) \in [Pages -> Entries]
      BY <1>t, <1>2, EntryTypes, PageKinds DEF child_table, get_frame
    <2>2. parent_table(p) \in [Pages -> Entries]
      BY <1>t, EntryTypes DEF parent_table
    <2> QED  BY <1>0, <1>t, <1>2, <2>1, <2>2 DEF TablesTyped
  <1>8. KernelMapped' /\ CodeMapped'
    BY <1>0, <1>1, <1>4, <1>t, EntryTypes
    DEF Tables, KernelMapped, CodeMapped, get_frame
  <1>9. DataMapped'
    <2> SUFFICES ASSUME NEW q \in live', NEW pag \in DataPages
                 PROVE  /\ pt'[q][pag].present
                        /\ get_frame(q, pag)'
                              \notin CodeFrames \cup SharedFrames \cup KernelPages
      BY DEF DataMapped, CodeFrames, SharedFrames
    <2>1. CASE q = c
      <3>1. pt'[q][pag] = MapTo(alloc[pag]) /\ get_frame(q, pag)' = alloc[pag]
        BY <2>1, <1>5, <1>6
      <3> QED  BY <3>1, <1>2, <1>3, EntryTypes
    <2>2. CASE q # c
      <3>1. pt'[q][pag] = pt[q][pag] /\ get_frame(q, pag)' = get_frame(q, pag)
        BY <2>2, <1>0, <1>5, <1>6
      <3>2. q \in live
        BY <2>2, <1>0
      <3> QED  BY <3>1, <3>2 DEF Tables, DataMapped
    <2> QED  BY <2>1, <2>2
  <1>10. DataDistinct'
    <2> SUFFICES ASSUME NEW q \in live', NEW s \in live', NEW pag \in DataPages,
                        NEW r \in DataPages, get_frame(q, pag)' = get_frame(s, r)'
                 PROVE  q = s /\ pag = r
      BY DEF DataDistinct
    <2>1. CASE q # c /\ s # c
      BY <2>1, <1>0, <1>6 DEF Tables, DataDistinct
    <2>2. CASE q = c /\ s = c
      BY <2>2, <1>2, <1>6
    <2>3. ASSUME NEW t \in live, NEW a \in DataPages, NEW b \in DataPages
          PROVE  get_frame(t, a) # alloc[b]
      BY <1>3 DEF LiveData, data_frames
    <2> QED  BY <1>0, <1>6, <2>1, <2>2, <2>3
  <1>11. ShmMapped'
    <2> SUFFICES ASSUME NEW q \in live', NEW pag \in ShmPages
                 PROVE  pt'[q][pag] \in Attachment
      BY DEF ShmMapped, Attachment
    <2>1. CASE q \notin {p, c}
      BY <2>1, <1>0, <1>1, <1>t DEF Tables, ShmMapped
    <2>2. CASE q = p
      BY <2>2, <1>0, <1>4 DEF Tables, ShmMapped, Attachment
    <2>3. CASE q = c
      <3>1. CASE pag \in copied_attachments(p)
        <4>1. pag \in attached(p) /\ pt[p][pag] \in Attachment
          BY <3>1, <1>0 DEF copied_attachments, Tables, ShmMapped
        <4>2. pt[p][pag] = MapTo(get_frame(p, pag))
          BY <4>1, AttachedIsMapped
        <4> QED  BY <2>3, <3>1, <4>1, <4>2, <1>4
      <3>2. CASE pag \notin copied_attachments(p)
        BY <2>3, <3>2, <1>0, <1>4 DEF Tables, FreeTables, Attachment
      <3> QED  BY <3>1, <3>2
    <2> QED  BY <2>1, <2>2, <2>3
  <1>12. FreeTables'
    BY <1>0, <1>1 DEF Tables, FreeTables
  <1>13. NoFrameLeak'
    <2>1. LiveData' = LiveData \cup {alloc[pag] : pag \in DataPages}
      <3>1. \A q \in live : data_frames(q)' = data_frames(q)
        BY <1>0, <1>6 DEF data_frames
      <3>2. data_frames(c)' = {alloc[pag] : pag \in DataPages}
        BY <1>0, <1>6 DEF data_frames
      <3> QED  BY <1>0, <3>1, <3>2 DEF LiveData
    <2> QED  BY <2>1 DEF Tables, NoFrameLeak, CodeFrames, SharedFrames
  <1> QED  BY <1>7, <1>8, <1>9, <1>10, <1>11, <1>12, <1>13 DEF Tables

\* A fork that fails gives back every frame it took: none that is free is one
\* free_frame ignores.
LEMMA ForkNoFramesPreserves ==
    ASSUME Tables, NEW p \in Procs, NEW c \in Procs, SysForkNoFrames(p, c)
    PROVE  Tables'
  <1>0. c \notin live /\ live' = live
    BY DEF SysForkNoFrames
  <1>t. live \subseteq Procs /\ phys_mem \subseteq Frames
        /\ pt \in [Procs -> [Pages -> Entries]]
    BY DEF Tables, TablesTyped
  <1>1. /\ \A q \in Procs \ {c} : pt'[q] = pt[q]
        /\ \A pag \in ShmPages : pt'[c][pag] = pt[c][pag]
        /\ pt' \in [Procs -> [Pages -> Entries]]
    BY <1>t, EntryTypes, PageKinds DEF SysForkNoFrames
  <1>2. phys_mem' = phys_mem
    <2>1. FreeFrames \subseteq freeable(FreeFrames)
      <3> SUFFICES ASSUME NEW f \in FreeFrames
                   PROVE  f > NUM_PAG_KERNEL /\ f < TOTAL_PAGES
        BY DEF freeable
      <3>1. f \in Frames /\ f \notin KernelPages /\ f # NUM_PAG_KERNEL
        BY FrameKinds DEF FreeFrames, Tables, NoFrameLeak
      <3> QED  BY <3>1, Types DEF Frames, KernelPages
    <2> QED  BY <2>1 DEF SysForkNoFrames, FreeFrames, freeable
  <1>3. \A q \in live : pt'[q] = pt[q]
    BY <1>0, <1>1, <1>t
  <1>4. LiveData' = LiveData
    BY <1>0, <1>3 DEF LiveData, data_frames, get_frame
  <1>5. TablesTyped'
    BY <1>0, <1>1, <1>2, <1>t DEF TablesTyped
  <1>6. KernelMapped' /\ CodeMapped' /\ DataMapped' /\ DataDistinct' /\ ShmMapped'
    BY <1>0, <1>3 DEF Tables, KernelMapped, CodeMapped, DataMapped, DataDistinct,
                      ShmMapped, get_frame, Attachment
  <1>7. FreeTables'
    BY <1>0, <1>1 DEF Tables, FreeTables
  <1>8. NoFrameLeak'
    BY <1>2, <1>4 DEF Tables, NoFrameLeak, CodeFrames, SharedFrames
  <1> QED  BY <1>5, <1>6, <1>7, <1>8 DEF Tables

\* exit.  What it frees is what the process alone had.
LEMMA ExitPreserves ==
    ASSUME Tables, NEW p \in Procs, SysExit(p)
    PROVE  Tables'
  <1>0. p \in live /\ live' = live \ {p}
    BY DEF SysExit, Running
  <1>t. live \subseteq Procs /\ phys_mem \subseteq Frames
        /\ pt \in [Procs -> [Pages -> Entries]]
    BY DEF Tables, TablesTyped
  <1>1. /\ \A q \in Procs \ {p} : pt'[q] = pt[q]
        /\ pt'[p] = left_table(p)
        /\ phys_mem' = phys_mem \ left_data(p)
    BY <1>t DEF SysExit
  <1>2. \A pag \in ShmPages : left_table(p)[pag] = Unmapped
    <2> SUFFICES ASSUME NEW pag \in ShmPages PROVE left_table(p)[pag] = Unmapped
      OBVIOUS
    <2>1. pag \notin attached(p) => pt[p][pag] = Unmapped
      BY <1>0, AttachedIsMapped DEF Tables, ShmMapped
    <2> QED  BY <2>1, PageKinds DEF left_table
  <1>3. left_table(p) \in [Pages -> Entries]
    BY <1>t, EntryTypes DEF left_table
  <1>4. \A q \in live' : pt'[q] = pt[q]
    BY <1>0, <1>1, <1>t
  <1>5. TablesTyped'
    <2>1. phys_mem' \subseteq Frames
      BY <1>1, <1>t
    <2>2. pt' \in [Procs -> [Pages -> Entries]]
      BY <1>3, <1>t DEF SysExit
    <2> QED  BY <1>0, <1>t, <2>1, <2>2 DEF TablesTyped
  <1>6. KernelMapped' /\ CodeMapped' /\ DataMapped' /\ DataDistinct' /\ ShmMapped'
    BY <1>0, <1>4 DEF Tables, KernelMapped, CodeMapped, DataMapped, DataDistinct,
                      ShmMapped, get_frame, Attachment
  <1>7. FreeTables'
    BY <1>0, <1>1, <1>2 DEF Tables, FreeTables
  <1>8. NoFrameLeak'
    <2>1. left_data(p) = data_frames(p)
      <3>1. \A f \in data_frames(p) : f \in Frames /\ f \notin KernelPages /\ f # NUM_PAG_KERNEL
        BY <1>0, <1>t, FrameKinds, EntryTypes, PageKinds
        DEF data_frames, Tables, DataMapped, get_frame
      <3>2. \A f \in data_frames(p) : f > NUM_PAG_KERNEL /\ f < TOTAL_PAGES
        BY <3>1, Types DEF Frames, KernelPages
      <3> QED  BY <3>2 DEF left_data, freeable, data_frames
    <2>2. \A q \in live' : data_frames(q)' = data_frames(q)
      BY <1>4 DEF data_frames, get_frame
    <2>3. LiveData = LiveData' \cup data_frames(p)
      BY <1>0, <2>2 DEF LiveData
    <2>4. LiveData' \cap data_frames(p) = {}
      BY <1>0, <2>2 DEF LiveData, data_frames, Tables, DataDistinct
    <2>5. data_frames(p) \cap (KernelPages \cup CodeFrames \cup SharedFrames) = {}
      BY <1>0 DEF data_frames, Tables, DataMapped
    <2> QED  BY <1>1, <2>1, <2>3, <2>4, <2>5
             DEF Tables, NoFrameLeak, CodeFrames, SharedFrames
  <1> QED  BY <1>5, <1>6, <1>7, <1>8 DEF Tables

\* An entry of one page, not of code or data, set to an attachment or cleared.
LEMMA SetPagePreserves ==
    ASSUME Tables, NEW p \in live, NEW pag \in KernelPages \cup ShmPages,
           NEW e \in Attachment, pag \in KernelPages => e # Unmapped,
           pt' = [pt EXCEPT ![p][pag] = e],
           UNCHANGED <<live, phys_mem>>
    PROVE  Tables'
  <1>t. live \subseteq Procs /\ phys_mem \subseteq Frames
        /\ pt \in [Procs -> [Pages -> Entries]]
    BY DEF Tables, TablesTyped
  <1>0. pag \in Pages /\ pag \notin CodePages \cup DataPages /\ e \in Entries
        /\ (e # Unmapped => e.frame \in SharedFrames)
    BY PageKinds, EntryTypes, FrameSets DEF Attachment
  <1>1. /\ \A q \in Procs \ {p} : pt'[q] = pt[q]
        /\ \A r \in Pages \ {pag} : pt'[p][r] = pt[p][r]
        /\ pt'[p][pag] = e
        /\ pt' \in [Procs -> [Pages -> Entries]]
    BY <1>0, <1>t
  <1>2. \A q \in live, r \in CodePages \cup DataPages : pt'[q][r] = pt[q][r]
    BY <1>0, <1>1, <1>t, PageKinds
  <1>3. \A q \in live, r \in KernelPages \cup ShmPages :
           pt'[q][r] = pt[q][r] \/ (q = p /\ r = pag /\ pt'[q][r] = e)
    BY <1>1, <1>t, PageKinds
  <1>4. TablesTyped'
    BY <1>1, <1>t DEF TablesTyped
  <1>5. KernelMapped'
    <2> SUFFICES ASSUME NEW q \in live, NEW r \in KernelPages
                 PROVE  pt'[q][r].frame \in KernelPages \cup SharedFrames
      BY DEF KernelMapped, SharedFrames, get_frame
    <2>1. CASE pt'[q][r] = pt[q][r]
      BY <2>1 DEF Tables, KernelMapped, get_frame
    <2>2. CASE r = pag /\ pt'[q][r] = e
      BY <2>2, <1>0
    <2> QED  BY <2>1, <2>2, <1>3
  <1>6. CodeMapped' /\ DataMapped' /\ DataDistinct'
    BY <1>2 DEF Tables, CodeMapped, DataMapped, DataDistinct, get_frame, CodeFrames,
                SharedFrames
  <1>7. ShmMapped'
    BY <1>3 DEF Tables, ShmMapped, Attachment, SharedFrames
  <1>8. FreeTables'
    BY <1>1 DEF Tables, FreeTables
  <1>9. NoFrameLeak'
    <2>1. \A q \in live : data_frames(q)' = data_frames(q)
      BY <1>2 DEF data_frames, get_frame
    <2>2. LiveData' = LiveData
      BY <2>1 DEF LiveData
    <2> QED  BY <2>2 DEF Tables, NoFrameLeak, CodeFrames, SharedFrames
  <1> QED  BY <1>4, <1>5, <1>6, <1>7, <1>8, <1>9 DEF Tables

\* A page that shmat may take is of the kernel or above the data.
LEMMA Candidates ==
    ASSUME Tables, NEW p \in live, NEW page \in Pages, NEW at \in candidates(p, page)
    PROVE  at \in KernelPages \cup ShmPages /\ at >= page /\ ~pt[p][at].present
  <1>1. at \in Pages /\ at >= page /\ ~pt[p][at].present
    BY Types DEF candidates, Pages
  <1>2. \A pag \in CodePages \cup DataPages : pt[p][pag].present
    BY EntryTypes DEF Tables, CodeMapped, DataMapped
  <1> QED  BY <1>1, <1>2, PageKinds

\* shmat maps a shared frame at a page that was not there.
LEMMA ShmatPreserves ==
    ASSUME Tables, NEW p \in Procs, NEW id \in Ids, NEW page \in AttachPages,
           SysShmat(p, id, page)
    PROVE  Tables'
  <1>1. PICK at \in candidates(p, page) : pt' = [pt EXCEPT ![p][at] = MapTo(id_frame(id))]
    BY DEF SysShmat
  <1>2. at \in KernelPages \cup ShmPages /\ p \in live /\ page \in Pages
    BY Candidates, MemoryAssumption DEF SysShmat, Running
  <1>3. MapTo(id_frame(id)) \in Attachment /\ MapTo(id_frame(id)) # Unmapped
    BY EntryTypes DEF Attachment, SharedFrames
  <1>4. UNCHANGED <<live, phys_mem>>
    BY DEF SysShmat
  <1> QED  BY <1>1, <1>2, <1>3, <1>4, SetPagePreserves

\* shmdt unmaps a page above the data.
LEMMA ShmdtPreserves ==
    ASSUME Tables, NEW p \in Procs, NEW page \in attached(p), SysShmdt(p, page)
    PROVE  Tables'
  <1>1. pt' = [pt EXCEPT ![p][page] = Unmapped] /\ UNCHANGED <<live, phys_mem>>
    BY DEF SysShmdt
  <1>2. page \in ShmPages /\ page \notin KernelPages /\ p \in live
    BY PageKinds DEF attached, SysShmdt, Running
  <1> QED  BY <1>1, <1>2, SetPagePreserves DEF Attachment

\* A step that touches neither tables, nor frames, nor processes.
LEMMA UntouchedTables ==
    ASSUME Tables, UNCHANGED <<live, phys_mem, pt>>
    PROVE  Tables'
  BY DEF Tables, TablesTyped, KernelMapped, CodeMapped, DataMapped, DataDistinct,
         ShmMapped, FreeTables, NoFrameLeak, LiveData, data_frames, get_frame,
         CodeFrames, SharedFrames, Attachment

\* Every step keeps the tables sound.
LEMMA NextTables == Tables /\ [Next]_vars => Tables'
  <1> SUFFICES ASSUME Tables, [Next]_vars PROVE Tables'
    OBVIOUS
  <1>1. ASSUME NEW p \in Procs, NEW c \in Procs, SysFork(p, c) PROVE Tables'
    BY <1>1, ForkPreserves
  <1>2. ASSUME NEW p \in Procs, NEW c \in Procs, SysForkNoFrames(p, c) PROVE Tables'
    BY <1>2, ForkNoFramesPreserves
  <1>3. ASSUME NEW p \in Procs, SysExit(p) PROVE Tables'
    BY <1>3, ExitPreserves
  <1>4. ASSUME NEW p \in Procs, SysExitFaults(p) PROVE Tables'
    BY <1>4, UntouchedTables DEF SysExitFaults
  <1>5. ASSUME NEW p \in Procs, NEW id \in Ids, NEW page \in AttachPages,
               SysShmat(p, id, page)
        PROVE  Tables'
    BY <1>5, ShmatPreserves
  <1>6. ASSUME NEW p \in Procs, NEW page \in attached(p), SysShmdt(p, page)
        PROVE  Tables'
    BY <1>6, ShmdtPreserves
  <1>7. ASSUME NEW p \in Procs, NEW id \in Ids, SysShmrm(p, id) \/ UserWrite(p, id)
        PROVE  Tables'
    BY <1>7, UntouchedTables DEF SysShmrm, UserWrite
  <1>8. CASE UNCHANGED vars
    BY <1>8, UntouchedTables DEF vars
  <1> QED  BY <1>1, <1>2, <1>3, <1>4, <1>5, <1>6, <1>7, <1>8 DEF Next, ProcNext

\* Tables is an invariant.
LEMMA TablesInvariant == Spec => []Tables
  BY InitTables, NextTables, PTL DEF Spec

-----------------------------------------------------------------------------
\* Whatever the processes fork, attach, detach and end, a page of data is on a
\* frame that nothing else in the system uses.
THEOREM PrivateData == Spec => []DataIsPrivate
  <1>1. Tables => DataIsPrivate
    <2> SUFFICES ASSUME Tables, NEW p \in live, NEW pag \in DataPages
                 PROVE  /\ pt[p][pag].present
                        /\ get_frame(p, pag)
                              \notin CodeFrames \cup SharedFrames \cup KernelPages
                        /\ \A q \in live, r \in Pages :
                              pt[q][r] = pt[p][pag] => q = p /\ r = pag
      BY DEF DataIsPrivate
    <2>1. /\ pt[p][pag].present
          /\ get_frame(p, pag) \notin CodeFrames \cup SharedFrames \cup KernelPages
      BY DEF Tables, DataMapped
    <2>2. ASSUME NEW q \in live, NEW r \in Pages, pt[q][r] = pt[p][pag]
          PROVE  q = p /\ r = pag
      <3>1. get_frame(q, r) = get_frame(p, pag) /\ pt[q][r].present
        BY <2>1, <2>2 DEF get_frame
      <3>2. CASE r \in KernelPages
        BY <3>1, <3>2, <2>1 DEF Tables, KernelMapped
      <3>3. CASE r \in CodePages
        BY <3>1, <3>3, <2>1, EntryTypes DEF Tables, CodeMapped, CodeFrames, get_frame
      <3>4. CASE r \in DataPages
        BY <3>1, <3>4 DEF Tables, DataDistinct
      <3>5. CASE r \in ShmPages
        BY <3>1, <3>5, <2>1, EntryTypes DEF Tables, ShmMapped, Attachment, get_frame
      <3> QED  BY <3>2, <3>3, <3>4, <3>5, PageKinds
    <2> QED  BY <2>1, <2>2
  <1> QED  BY <1>1, TablesInvariant, PTL

\* The byte map is exact at all times: no frame is lost, or given out twice.
THEOREM FramesAccounted == Spec => []NoFrameLeak
  <1>1. Tables => NoFrameLeak
    BY DEF Tables
  <1> QED  BY <1>1, TablesInvariant, PTL

\* A process that forks into a slot finds nothing of the one that had it.
THEOREM CleanSlots == Spec => []FreeSlotsClean
  <1>1. Tables => FreeSlotsClean
    BY EntryTypes DEF Tables, FreeTables, FreeSlotsClean, attached, get_frame
  <1> QED  BY <1>1, TablesInvariant, PTL

\* What a step may do to a page of a process that stays.
LEMMA StepRemaps ==
    ASSUME Tables, [Next]_vars, NEW q \in live \cap live', NEW pag \in Pages,
           pt[q][pag].present
    PROVE  pt'[q][pag] \in {pt[q][pag], Unmapped}
  <1>t. live \subseteq Procs /\ pt \in [Procs -> [Pages -> Entries]] /\ q \in Procs
    BY DEF Tables, TablesTyped
  <1>1. ASSUME NEW p \in Procs, NEW c \in Procs, SysFork(p, c)
        PROVE  pt'[q][pag] \in {pt[q][pag], Unmapped}
    <2>1. q # c /\ (q # p => pt'[q] = pt[q]) /\ (q = p => pt'[q] = parent_table(p))
      BY <1>1, <1>t DEF SysFork, Running
    <2> QED  BY <2>1 DEF parent_table
  <1>2. ASSUME NEW p \in Procs, NEW c \in Procs, SysForkNoFrames(p, c)
        PROVE  pt'[q][pag] \in {pt[q][pag], Unmapped}
    BY <1>2, <1>t DEF SysForkNoFrames
  <1>3. ASSUME NEW p \in Procs, SysExit(p)
        PROVE  pt'[q][pag] \in {pt[q][pag], Unmapped}
    BY <1>3, <1>t DEF SysExit
  <1>4. ASSUME NEW p \in Procs, SysExitFaults(p)
        PROVE  pt'[q][pag] \in {pt[q][pag], Unmapped}
    BY <1>4 DEF SysExitFaults
  <1>5. ASSUME NEW p \in Procs, NEW id \in Ids, NEW page \in AttachPages,
               SysShmat(p, id, page)
        PROVE  pt'[q][pag] \in {pt[q][pag], Unmapped}
    <2>1. PICK at \in candidates(p, page) : pt' = [pt EXCEPT ![p][at] = MapTo(id_frame(id))]
      BY <1>5 DEF SysShmat
    <2>2. p \in live /\ page \in Pages
      BY <1>5, MemoryAssumption DEF SysShmat, Running
    <2>3. ~pt[p][at].present
      BY <2>2, Candidates
    <2>4. ~(q = p /\ pag = at)
      BY <2>3
    <2> QED  BY <2>1, <2>4, <1>t
  <1>6. ASSUME NEW p \in Procs, NEW page \in attached(p), SysShmdt(p, page)
        PROVE  pt'[q][pag] \in {pt[q][pag], Unmapped}
    BY <1>6, <1>t DEF SysShmdt
  <1>7. ASSUME NEW p \in Procs, NEW id \in Ids, SysShmrm(p, id) \/ UserWrite(p, id)
        PROVE  pt'[q][pag] \in {pt[q][pag], Unmapped}
    BY <1>7 DEF SysShmrm, UserWrite
  <1>8. CASE UNCHANGED vars
    BY <1>8 DEF vars
  <1> QED  BY <1>1, <1>2, <1>3, <1>4, <1>5, <1>6, <1>7, <1>8 DEF Next, ProcNext

\* The data of a process stays where it is.
LEMMA DataStays ==
    ASSUME Tables, [Next]_vars, NEW q \in live \cap live', NEW pag \in DataPages
    PROVE  pt'[q][pag] = pt[q][pag]
  <1>1. pt[q][pag].present /\ pt'[q][pag].present
    BY NextTables DEF Tables, DataMapped
  <1> QED  BY <1>1, StepRemaps, EntryTypes, PageKinds

\* A page of a living process keeps its frame until it is unmapped: no call of
\* any process moves it to another frame.
THEOREM FramesStay == Spec => NeverRemapped
  <1> DEFINE A == \A p \in live \cap live', pag \in Pages :
                     pt[p][pag].present => pt'[p][pag] \in {pt[p][pag], Unmapped}
  <1>1. ASSUME Tables, [Next]_vars, NEW q \in live \cap live', NEW pag \in Pages,
               pt[q][pag].present
        PROVE  pt'[q][pag] \in {pt[q][pag], Unmapped}
    BY <1>1, StepRemaps
  <1>2. Tables /\ [Next]_vars => [A]_vars
    BY <1>1 DEF A
  <1>3. Spec => [][A]_vars
    <2> HIDE DEF A
    <2> QED  BY <1>2, TablesInvariant, PTL DEF Spec
  <1> QED  BY <1>3 DEF NeverRemapped, A

-----------------------------------------------------------------------------
\* Reference counts.  They are exact for programs that attach above the pages
\* fork copies through; run window shows what happens below.

AttachAbove == AttachPages \subseteq ShmPages \ WindowPages

\* No shared frame is at a page of the kernel or of the copy window.
NoneBelow == \A p \in live, pag \in KernelPages \cup WindowPages :
                get_frame(p, pag) \notin SharedFrames

RefTyped == ref \in [Ids -> 0 .. MaxRef]

Counts == Tables /\ NoneBelow /\ RefTyped /\ RefCounts

\* Slots and pages are finitely many, and so are attachments.
LEMMA FiniteUsers ==
    ASSUME Tables, NEW id \in Ids, NEW p \in live
    PROVE  /\ IsFiniteSet(users(id))
           /\ IsFiniteSet(attachments(p, id)) /\ IsFiniteSet({p} \X attachments(p, id))
           /\ Cardinality({p} \X attachments(p, id)) = Cardinality(attachments(p, id))
           /\ Cardinality(attachments(p, id)) \in Nat /\ Cardinality(users(id)) \in Nat
  <1>1. IsFiniteSet(live)
    BY MemoryAssumption, FS_Subset DEF Tables, TablesTyped
  <1>2. IsFiniteSet(Pages)
    BY Types, FS_Interval DEF Pages
  <1>3. IsFiniteSet(live \X Pages)
    BY <1>1, <1>2, FS_Product
  <1>4. IsFiniteSet(users(id))
    <2>1. users(id) \in SUBSET (live \X Pages)
      BY DEF users
    <2> QED  BY <2>1, <1>3, FS_Subset
  <1>5. IsFiniteSet(attachments(p, id))
    <2>1. attachments(p, id) \in SUBSET Pages
      BY PageKinds DEF attachments, attached
    <2> QED  BY <2>1, <1>2, FS_Subset
  <1>6. IsFiniteSet({p}) /\ Cardinality({p}) = 1
    BY FS_Singleton
  <1>7. /\ IsFiniteSet({p} \X attachments(p, id))
        /\ Cardinality({p} \X attachments(p, id)) = 1 * Cardinality(attachments(p, id))
    BY <1>5, <1>6, FS_Product
  <1>8. Cardinality(attachments(p, id)) \in Nat /\ Cardinality(users(id)) \in Nat
    BY <1>4, <1>5, FS_CardinalityType
  <1> QED  BY <1>4, <1>5, <1>7, <1>8

\* A page holds a shared frame exactly when it is among the attachments of it.
LEMMA UsersByPage ==
    ASSUME Tables, NoneBelow, NEW p \in live, NEW pag \in Pages, NEW id \in Ids
    PROVE  pt[p][pag] = MapTo(id_frame(id)) <=> pag \in attachments(p, id)
  <1>0. id_frame(id) \in SharedFrames
    BY DEF SharedFrames
  <1>1. pag \in attachments(p, id) <=> pag \in attached(p) /\ get_frame(p, pag) = id_frame(id)
    BY DEF attachments
  <1>2. CASE pag \in ShmPages
    BY <1>0, <1>1, <1>2, AttachedIsMapped, EntryTypes
    DEF Tables, TablesTyped, ShmMapped, get_frame
  <1>3. CASE pag \notin ShmPages
    <2>1. get_frame(p, pag) \notin SharedFrames
      <3>1. CASE pag \in KernelPages
        BY <3>1 DEF NoneBelow
      <3>2. CASE pag \in CodePages
        BY <3>2, EntryTypes, FrameSets DEF Tables, CodeMapped, CodeFrames, get_frame
      <3>3. CASE pag \in DataPages
        BY <3>3 DEF Tables, DataMapped
      <3> QED  BY <1>3, <3>1, <3>2, <3>3, PageKinds
    <2>2. pt[p][pag] # MapTo(id_frame(id))
      BY <1>0, <2>1, EntryTypes DEF get_frame
    <2> QED  BY <1>3, <2>2 DEF attachments, attached
  <1> QED  BY <1>2, <1>3

\* Boot.
LEMMA InitCounts == Init => Counts
  <1> SUFFICES ASSUME Init PROVE Counts
    OBVIOUS
  <1>1. Tables
    BY InitTables
  <1>2. live = {FirstProc} /\ pt[FirstProc] = user_table
    BY MemoryAssumption DEF Init
  <1>3. /\ \A pag \in KernelPages : user_table[pag].frame \in KernelPages
        /\ \A pag \in ShmPages : user_table[pag] = Unmapped
    BY PageKinds DEF user_table, init_table, kernel_entry, Unmapped
  <1>4. NoneBelow
    BY <1>2, <1>3, PageKinds, FrameSets, EntryTypes DEF NoneBelow, get_frame
  <1>5. RefTyped
    BY Types DEF Init, RefTyped
  <1>6. RefCounts
    <2> SUFFICES ASSUME NEW id \in Ids PROVE Cardinality(users(id)) = 0
      BY DEF Init, RefCounts
    <2>1. ASSUME NEW pag \in Pages PROVE pt[FirstProc][pag] # MapTo(id_frame(id))
      <3>1. attachments(FirstProc, id) = {}
        BY <1>2, <1>3, EntryTypes DEF attachments, attached, get_frame
      <3> QED  BY <3>1, <1>1, <1>2, <1>4, UsersByPage
    <2>2. users(id) = {}
      BY <1>2, <2>1 DEF users
    <2> QED  BY <2>2, FS_EmptySet
  <1> QED  BY <1>1, <1>4, <1>5, <1>6 DEF Counts

\* fork: the child is counted at every page where its parent is.
LEMMA ForkCounts ==
    ASSUME Counts, NEW p \in Procs, NEW c \in Procs, SysFork(p, c)
    PROVE  Counts'
  <1> PICK alloc \in [DataPages -> FreeFrames] :
         pt' = [pt EXCEPT ![c] = child_table(p, c, alloc), ![p] = parent_table(p)]
    BY DEF SysFork
  <1>0. p \in live /\ c \notin live /\ c # p /\ live' = live \cup {c}
    BY DEF SysFork, Running
  <1>t. Tables /\ NoneBelow /\ live \subseteq Procs /\ pt \in [Procs -> [Pages -> Entries]]
    BY DEF Counts, Tables, TablesTyped
  <1>1. /\ pt'[c] = child_table(p, c, alloc) /\ pt'[p] = parent_table(p)
        /\ \A q \in live \ {p} : pt'[q] = pt[q]
    BY <1>0, <1>t
  <1>2. Tables'
    BY <1>t, ForkPreserves
  <1>3. \A pag \in Pages : pt'[p][pag] = IF pag \in WindowPages THEN Unmapped ELSE pt[p][pag]
    BY <1>1 DEF parent_table
  <1>4. \A pag \in KernelPages : pt'[c][pag] = MapTo(get_frame(p, pag))
    BY <1>1, ChildTable
  <1>5. \A pag \in WindowPages : pt'[c][pag] = Unmapped
    <2>1. \A pag \in WindowPages :
             pag \in ShmPages \ copied_attachments(p) /\ pt[c][pag] = Unmapped
      BY <1>0, PageKinds DEF copied_attachments, Tables, FreeTables, Counts
    <2> QED  BY <1>1, <2>1, ChildTable
  <1>6. NoneBelow'
    <2> SUFFICES ASSUME NEW q \in live', NEW pag \in KernelPages \cup WindowPages
                 PROVE  pt'[q][pag].frame \notin SharedFrames
      BY DEF NoneBelow, SharedFrames, get_frame
    <2>1. CASE q = c
      BY <2>1, <1>0, <1>4, <1>5, <1>t, FrameSets, EntryTypes DEF NoneBelow
    <2>2. CASE q = p
      BY <2>2, <1>0, <1>3, <1>t, FrameSets, EntryTypes, PageKinds DEF NoneBelow, get_frame
    <2>3. CASE q \notin {p, c}
      BY <2>3, <1>0, <1>1, <1>t DEF NoneBelow, get_frame
    <2> QED  BY <2>1, <2>2, <2>3
  \* Nothing is attached in the window, so the child gets every attachment.
  <1>7. ASSUME NEW id \in Ids
        PROVE  /\ attachments(p, id) \ WindowPages = attachments(p, id)
               /\ users(id)' = users(id) \cup ({c} \X attachments(p, id))
    <2>0. id_frame(id) \in SharedFrames
      BY DEF SharedFrames
    <2>1. \A pag \in attachments(p, id) : pag \notin WindowPages
      BY <1>0, <1>t, <2>0 DEF attachments, NoneBelow
    <2>2. \A pag \in Pages : pt'[c][pag] = MapTo(id_frame(id)) <=> pag \in attachments(p, id)
      <3> SUFFICES ASSUME NEW pag \in Pages
                   PROVE  pt'[c][pag] = MapTo(id_frame(id)) <=> pag \in attachments(p, id)
        OBVIOUS
      <3>1. CASE pag \in copied_attachments(p)
        <4>1. pt'[c][pag] = MapTo(get_frame(p, pag)) /\ pag \in attached(p)
          BY <3>1, <1>1, ChildTable DEF copied_attachments
        <4> QED  BY <4>1, EntryTypes DEF attachments
      <3>2. CASE pag \in ShmPages \ copied_attachments(p)
        <4>1. pt'[c][pag] = pt[c][pag] /\ pt[c][pag] = Unmapped
          BY <3>2, <1>0, <1>1, <1>t, ChildTable DEF Tables, FreeTables
        <4>2. pag \notin attachments(p, id)
          BY <3>2, <2>1 DEF attachments, copied_attachments
        <4> QED  BY <4>1, <4>2, EntryTypes
      <3>3. CASE pag \notin ShmPages
        <4>1. pag \notin attachments(p, id)
          BY <3>3 DEF attachments, attached
        <4>2. pt'[c][pag].frame \notin SharedFrames
          <5>1. CASE pag \in KernelPages
            BY <5>1, <1>6, <1>0 DEF NoneBelow, SharedFrames, get_frame
          <5>2. CASE pag \in CodePages
            <6>1. pt'[c][pag] = MapTo(CodeFrame(pag)) /\ CodeFrame(pag) \in CodeFrames
              BY <5>2, <1>2, <1>0 DEF Tables, CodeMapped, CodeFrames
            <6> QED  BY <6>1, EntryTypes, FrameSets
          <5>3. CASE pag \in DataPages
            BY <5>3, <1>2, <1>0 DEF Tables, DataMapped, SharedFrames, get_frame
          <5> QED  BY <3>3, <5>1, <5>2, <5>3, PageKinds
        <4> QED  BY <4>1, <4>2, <2>0, EntryTypes
      <3> QED  BY <3>1, <3>2, <3>3 DEF copied_attachments, attached
    <2>3. \A q \in live, pag \in Pages :
             pt'[q][pag] = MapTo(id_frame(id)) <=> pt[q][pag] = MapTo(id_frame(id))
      <3> SUFFICES ASSUME NEW q \in live, NEW pag \in Pages
                   PROVE  pt'[q][pag] = MapTo(id_frame(id)) <=> pt[q][pag] = MapTo(id_frame(id))
        OBVIOUS
      <3>1. CASE q = p /\ pag \in WindowPages
        <4>1. pt[q][pag] # MapTo(id_frame(id))
          BY <3>1, <2>0, <1>0, <1>t, EntryTypes DEF NoneBelow, get_frame
        <4>2. pt'[q][pag] = Unmapped
          BY <3>1, <1>3
        <4>3. Unmapped # MapTo(id_frame(id))
          BY EntryTypes
        <4> QED  BY <4>1, <4>2, <4>3
      <3>2. CASE ~(q = p /\ pag \in WindowPages)
        BY <3>2, <1>1, <1>3
      <3> QED  BY <3>1, <3>2
    <2>4. ASSUME NEW u PROVE u \in users(id)' <=> u \in users(id) \cup ({c} \X attachments(p, id))
      <3>1. u \in users(id)' <=> /\ u \in (live \cup {c}) \X Pages
                                 /\ pt'[u[1]][u[2]] = MapTo(id_frame(id))
        BY <1>0 DEF users, id_frame, boot_frame
      <3>2. u \in users(id) <=> /\ u \in live \X Pages
                                /\ pt[u[1]][u[2]] = MapTo(id_frame(id))
        BY DEF users
      <3>3. attachments(p, id) \subseteq Pages
        BY PageKinds DEF attachments, attached
      <3>4. CASE u \in {c} \X Pages
        BY <3>4, <3>1, <3>2, <3>3, <2>2, <1>0
      <3>5. CASE u \in live \X Pages
        BY <3>5, <3>1, <3>2, <3>3, <2>3, <1>0
      <3>6. CASE u \notin {c} \X Pages /\ u \notin live \X Pages
        BY <3>6, <3>1, <3>2, <3>3
      <3> QED  BY <3>4, <3>5, <3>6
    <2> QED  BY <2>1, <2>4
  <1>8. \A id \in Ids : /\ inherited(p, id) = Cardinality(attachments(p, id))
                        /\ ref'[id] = ref[id] + Cardinality(attachments(p, id))
                        /\ ref[id] + Cardinality(attachments(p, id)) <= MaxRef
    BY <1>7 DEF SysFork, inherited
  <1>9. RefTyped'
    <2>1. \A id \in Ids : Cardinality(attachments(p, id)) \in Nat /\ ref[id] \in 0 .. MaxRef
      BY <1>0, <1>t, FiniteUsers DEF Counts, RefTyped
    <2>2. \A id \in Ids : ref'[id] \in 0 .. MaxRef
      BY <1>8, <2>1, Types
    <2>3. ref' = [id \in Ids |-> ref'[id]]
      BY DEF SysFork
    <2> QED  BY <2>2, <2>3 DEF RefTyped, Ids
  <1>10. RefCounts'
    <2> SUFFICES ASSUME NEW id \in Ids PROVE ref'[id] = Cardinality(users(id)')
      BY DEF RefCounts, Ids
    <2> DEFINE T == {c} \X attachments(p, id)
    <2>1. users(id) \cap T = {}
      BY <1>0 DEF users
    <2>2. /\ IsFiniteSet(users(id)) /\ IsFiniteSet(T)
          /\ Cardinality(T) = Cardinality(attachments(p, id))
          /\ Cardinality(attachments(p, id)) \in Nat /\ Cardinality(users(id)) \in Nat
      <3>1. /\ IsFiniteSet(users(id)) /\ IsFiniteSet(attachments(p, id))
            /\ Cardinality(attachments(p, id)) \in Nat /\ Cardinality(users(id)) \in Nat
        BY <1>0, <1>t, FiniteUsers
      <3>2. IsFiniteSet({c}) /\ Cardinality({c}) = 1
        BY FS_Singleton
      <3>3. IsFiniteSet(T) /\ Cardinality(T) = 1 * Cardinality(attachments(p, id))
        BY <3>1, <3>2, FS_Product
      <3> QED  BY <3>1, <3>3
    <2> HIDE DEF T
    <2>3. Cardinality(users(id) \cup T)
             = Cardinality(users(id)) + Cardinality(T) - Cardinality(users(id) \cap T)
      BY <2>2, FS_Union
    <2>4. Cardinality(users(id) \cap T) = 0
      BY <2>1, FS_EmptySet
    <2>5. users(id)' = users(id) \cup T
      BY <1>7 DEF T
    <2> QED  BY <2>2, <2>3, <2>4, <2>5, <1>8 DEF Counts, RefCounts
  <1> QED  BY <1>2, <1>6, <1>9, <1>10 DEF Counts

\* exit: every attachment of the process is taken off the count.
LEMMA ExitCounts ==
    ASSUME Counts, NEW p \in Procs, SysExit(p)
    PROVE  Counts'
  <1>0. p \in live /\ live' = live \ {p}
    BY DEF SysExit, Running
  <1>t. Tables /\ NoneBelow /\ pt \in [Procs -> [Pages -> Entries]] /\ live \subseteq Procs
    BY DEF Counts, Tables, TablesTyped
  <1>1. \A q \in live' : q \in live /\ pt'[q] = pt[q]
    BY <1>0, <1>t DEF SysExit
  <1>2. Tables'
    BY <1>t, ExitPreserves
  <1>3. NoneBelow'
    BY <1>1, <1>t DEF NoneBelow, get_frame, SharedFrames
  <1>4. ASSUME NEW id \in Ids
        PROVE  /\ Cardinality(users(id)') = Cardinality(users(id)) - Cardinality(attachments(p, id))
               /\ Cardinality(users(id)') \in Nat
               /\ Cardinality(attachments(p, id)) \in Nat /\ Cardinality(users(id)) \in Nat
    <2> DEFINE T == {p} \X attachments(p, id)
    <2>1. /\ IsFiniteSet(users(id)) /\ IsFiniteSet(T)
          /\ Cardinality(T) = Cardinality(attachments(p, id))
          /\ Cardinality(attachments(p, id)) \in Nat /\ Cardinality(users(id)) \in Nat
      BY <1>0, <1>t, FiniteUsers
    <2>2. attachments(p, id) \subseteq Pages
      BY PageKinds DEF attachments, attached
    <2>3. \A pag \in Pages : pt[p][pag] = MapTo(id_frame(id)) <=> pag \in attachments(p, id)
      BY <1>0, <1>t, UsersByPage
    <2>4. users(id) \cap T = T
      BY <2>2, <2>3, <1>0 DEF users
    <2>5. users(id)' = users(id) \ T
      <3>1. users(id)' = {u \in live' \X Pages : pt[u[1]][u[2]] = MapTo(id_frame(id))}
        BY <1>1 DEF users, id_frame, boot_frame
      <3> QED  BY <3>1, <2>3, <1>0 DEF users
    <2> HIDE DEF T
    <2>6. /\ IsFiniteSet(users(id) \ T)
          /\ Cardinality(users(id) \ T) = Cardinality(users(id)) - Cardinality(users(id) \cap T)
      BY <2>1, FS_Difference
    <2>7. Cardinality(users(id) \ T) \in Nat
      BY <2>6, FS_CardinalityType
    <2> QED  BY <2>1, <2>4, <2>5, <2>6, <2>7
  <1>5. \A id \in Ids : /\ ref'[id] = ref[id] - Cardinality(attachments(p, id))
                        /\ ref[id] = Cardinality(users(id)) /\ ref[id] \in 0 .. MaxRef
    BY DEF SysExit, left_ref, Counts, RefCounts, RefTyped
  <1>6. RefTyped'
    <2>1. \A id \in Ids : ref'[id] \in 0 .. MaxRef
      BY <1>4, <1>5, Types
    <2>2. ref' = [id \in Ids |-> ref'[id]]
      BY DEF SysExit, left_ref
    <2> QED  BY <2>1, <2>2 DEF RefTyped, Ids
  <1>7. RefCounts'
    BY <1>4, <1>5 DEF RefCounts, Ids
  <1> QED  BY <1>2, <1>3, <1>6, <1>7 DEF Counts

\* One entry changes: the page joins the users of the frame it now holds, and
\* leaves those of any other.
LEMMA SetPageUsers ==
    ASSUME NEW p \in live, NEW pag \in Pages, NEW e, NEW id \in Ids,
           live \subseteq Procs, pt \in [Procs -> [Pages -> Entries]],
           pt' = [pt EXCEPT ![p][pag] = e], live' = live
    PROVE  users(id)' = IF e = MapTo(id_frame(id)) THEN users(id) \cup {<<p, pag>>}
                                                   ELSE users(id) \ {<<p, pag>>}
  <1>1. /\ \A q \in live \ {p} : pt'[q] = pt[q]
        /\ \A r \in Pages \ {pag} : pt'[p][r] = pt[p][r]
        /\ pt'[p][pag] = e
    OBVIOUS
  <1>2. users(id)' = {u \in live \X Pages : pt'[u[1]][u[2]] = MapTo(id_frame(id))}
    BY DEF users, id_frame, boot_frame
  <1>3. CASE e = MapTo(id_frame(id))
    BY <1>1, <1>2, <1>3 DEF users
  <1>4. CASE e # MapTo(id_frame(id))
    BY <1>1, <1>2, <1>4 DEF users
  <1> QED  BY <1>3, <1>4

\* shmat above the window: one page more for the frame.
LEMMA ShmatCounts ==
    ASSUME AttachAbove, Counts, NEW p \in Procs, NEW id \in Ids, NEW page \in AttachPages,
           SysShmat(p, id, page)
    PROVE  Counts'
  <1>1. PICK at \in candidates(p, page) : pt' = [pt EXCEPT ![p][at] = MapTo(id_frame(id))]
    BY DEF SysShmat
  <1>0. p \in live /\ live' = live /\ page \in Pages
    BY MemoryAssumption DEF SysShmat, Running
  <1>t. Tables /\ NoneBelow /\ live \subseteq Procs /\ pt \in [Procs -> [Pages -> Entries]]
    BY DEF Counts, Tables, TablesTyped
  <1>2. Tables'
    BY <1>t, ShmatPreserves
  <1>3. at \in Pages /\ at \notin KernelPages \cup WindowPages /\ ~pt[p][at].present
    <2>1. at \in KernelPages \cup ShmPages /\ at >= page /\ ~pt[p][at].present
      BY <1>0, <1>t, Candidates
    <2>2. page \in ShmPages \ WindowPages
      BY DEF AttachAbove
    <2>3. page >= PAG_LOG_INIT_SHM + NUM_PAG_DATA /\ page \in Nat
      <3>1. page \in Nat /\ page >= PAG_LOG_INIT_SHM
        BY <2>2, Types DEF ShmPages
      <3>2. CASE page < PAG_LOG_INIT_SHM + NUM_PAG_DATA
        <4>1. page - NUM_PAG_DATA \in DataPages /\ (page - NUM_PAG_DATA) + NUM_PAG_DATA = page
          BY <3>1, <3>2, Types DEF DataPages
        <4> QED  BY <4>1, <2>2 DEF WindowPages
      <3> QED  BY <3>1, <3>2, Types
    <2>4. at \in Pages /\ at \notin KernelPages
      BY <2>1, <2>3, PageKinds, Types DEF KernelPages
    <2>5. \A w \in WindowPages : w < PAG_LOG_INIT_SHM + NUM_PAG_DATA /\ w \in Nat
      BY Types DEF WindowPages, DataPages
    <2>6. at \in Nat
      BY <2>4, Types DEF Pages
    <2> QED  BY <2>1, <2>3, <2>4, <2>5, <2>6, Types
  <1>4. \A q \in live, r \in KernelPages \cup WindowPages : pt'[q][r] = pt[q][r]
    BY <1>1, <1>3, <1>t, PageKinds
  <1>5. NoneBelow'
    BY <1>0, <1>4, <1>t DEF NoneBelow, get_frame, SharedFrames
  <1>6. ASSUME NEW jd \in Ids
        PROVE  users(jd)' = IF jd = id THEN users(jd) \cup {<<p, at>>} ELSE users(jd)
    <2>1. <<p, at>> \notin users(jd)
      <3>1. pt[p][at] # MapTo(id_frame(jd))
        BY <1>3, EntryTypes
      <3> QED  BY <3>1 DEF users
    <2>2. MapTo(id_frame(id)) = MapTo(id_frame(jd)) <=> jd = id
      BY FrameKinds, EntryTypes
    <2>3. users(jd)' = IF MapTo(id_frame(id)) = MapTo(id_frame(jd))
                       THEN users(jd) \cup {<<p, at>>} ELSE users(jd) \ {<<p, at>>}
      BY <1>0, <1>1, <1>3, <1>t, SetPageUsers
    <2> QED  BY <2>1, <2>2, <2>3
  <1>7. RefTyped /\ ref' = [ref EXCEPT ![id] = @ + 1] /\ ref[id] < MaxRef
    BY DEF SysShmat, Counts
  <1>8. RefTyped'
    BY <1>7, Types DEF RefTyped, Ids
  <1>9. RefCounts'
    <2> SUFFICES ASSUME NEW jd \in Ids PROVE ref'[jd] = Cardinality(users(jd)')
      BY DEF RefCounts, Ids
    <2>1. ref[jd] = Cardinality(users(jd))
      BY DEF Counts, RefCounts
    <2>2. CASE jd # id
      BY <2>1, <2>2, <1>6, <1>7 DEF RefTyped
    <2>3. CASE jd = id
      <3>1. <<p, at>> \notin users(jd)
        <4>1. pt[p][at] # MapTo(id_frame(jd))
          BY <1>3, EntryTypes
        <4> QED  BY <4>1 DEF users
      <3>2. IsFiniteSet(users(jd))
        BY <1>0, <1>t, FiniteUsers
      <3>3. Cardinality(users(jd) \cup {<<p, at>>}) = Cardinality(users(jd)) + 1
        BY <3>1, <3>2, FS_AddElement
      <3> QED  BY <2>1, <2>3, <3>3, <1>6, <1>7 DEF RefTyped
    <2> QED  BY <2>2, <2>3
  <1> QED  BY <1>2, <1>5, <1>8, <1>9 DEF Counts

\* An attachment is of one of the shared frames, which find_shframe finds.
LEMMA AttachedFrame ==
    ASSUME Tables, NEW p \in live, NEW page \in attached(p)
    PROVE  LET id == find_shframe(get_frame(p, page))
           IN  id \in Ids /\ pt[p][page] = MapTo(id_frame(id))
  <1> DEFINE id == find_shframe(get_frame(p, page))
  <1>1. pt[p][page] = MapTo(get_frame(p, page)) /\ get_frame(p, page) \in SharedFrames
    BY AttachedIsMapped DEF attached, Tables, TablesTyped, ShmMapped
  <1>2. \E jd \in Ids : id_frame(jd) = get_frame(p, page)
    BY <1>1 DEF SharedFrames
  <1>3. id \in Ids /\ id_frame(id) = get_frame(p, page)
    BY <1>2 DEF find_shframe
  <1> QED  BY <1>1, <1>3

\* shmdt: one page less for the frame that was there, found by its number.
LEMMA ShmdtCounts ==
    ASSUME Counts, NEW p \in Procs, NEW page \in attached(p), SysShmdt(p, page)
    PROVE  Counts'
  <1> DEFINE id == find_shframe(get_frame(p, page))
  <1>0. p \in live /\ live' = live /\ page \in ShmPages /\ page \in Pages
        /\ pt' = [pt EXCEPT ![p][page] = Unmapped]
    BY PageKinds DEF SysShmdt, Running, attached
  <1>t. Tables /\ NoneBelow /\ live \subseteq Procs /\ pt \in [Procs -> [Pages -> Entries]]
    BY DEF Counts, Tables, TablesTyped
  <1>1. id \in Ids /\ pt[p][page] = MapTo(id_frame(id))
    BY <1>0, <1>t, AttachedFrame
  <1>r. RefTyped /\ ref' = [ref EXCEPT ![id] = @ - 1]
    BY DEF SysShmdt, Counts
  <1> HIDE DEF id
  <1>2. Tables'
    BY <1>t, ShmdtPreserves
  <1>3. NoneBelow'
    <2> SUFFICES ASSUME NEW q \in live, NEW r \in KernelPages \cup WindowPages
                 PROVE  pt'[q][r].frame \notin SharedFrames
      BY <1>0 DEF NoneBelow, SharedFrames, get_frame
    <2>1. pt'[q][r] = pt[q][r] \/ pt'[q][r] = Unmapped
      BY <1>0, <1>t, PageKinds
    <2> QED  BY <2>1, <1>t, EntryTypes, FrameSets DEF NoneBelow, get_frame
  <1>4. \A jd \in Ids : users(jd)' = users(jd) \ {<<p, page>>}
    <2> SUFFICES ASSUME NEW jd \in Ids PROVE users(jd)' = users(jd) \ {<<p, page>>}
      OBVIOUS
    <2>1. Unmapped # MapTo(id_frame(jd))
      BY EntryTypes
    <2>2. users(jd)' = IF Unmapped = MapTo(id_frame(jd)) THEN users(jd) \cup {<<p, page>>}
                                                         ELSE users(jd) \ {<<p, page>>}
      BY <1>0, <1>t, SetPageUsers
    <2> QED  BY <2>1, <2>2
  <1>5. \A jd \in Ids : <<p, page>> \in users(jd) <=> jd = id
    <2>1. \A jd \in Ids : MapTo(id_frame(jd)) = MapTo(id_frame(id)) <=> jd = id
      BY <1>1, FrameKinds, EntryTypes
    <2> QED  BY <2>1, <1>0, <1>1 DEF users
  <1>6. \A jd \in Ids : /\ ref[jd] = Cardinality(users(jd)) /\ ref[jd] \in 0 .. MaxRef
                        /\ IsFiniteSet(users(jd))
                        /\ Cardinality(users(jd)') \in Nat
                        /\ Cardinality(users(jd)') = IF jd = id THEN ref[jd] - 1 ELSE ref[jd]
    <2> SUFFICES ASSUME NEW jd \in Ids
                 PROVE  /\ ref[jd] = Cardinality(users(jd)) /\ ref[jd] \in 0 .. MaxRef
                        /\ IsFiniteSet(users(jd))
                        /\ Cardinality(users(jd)') \in Nat
                        /\ Cardinality(users(jd)') = IF jd = id THEN ref[jd] - 1 ELSE ref[jd]
      OBVIOUS
    <2>1. /\ ref[jd] = Cardinality(users(jd)) /\ ref[jd] \in 0 .. MaxRef
          /\ IsFiniteSet(users(jd))
      BY <1>0, <1>t, FiniteUsers DEF Counts, RefCounts, RefTyped
    <2>2. /\ IsFiniteSet(users(jd) \ {<<p, page>>})
          /\ Cardinality(users(jd) \ {<<p, page>>})
                = IF <<p, page>> \in users(jd) THEN Cardinality(users(jd)) - 1
                                               ELSE Cardinality(users(jd))
      BY <2>1, FS_RemoveElement
    <2>3. Cardinality(users(jd) \ {<<p, page>>}) \in Nat
      BY <2>2, FS_CardinalityType
    <2> QED  BY <2>1, <2>2, <2>3, <1>4, <1>5
  <1>7. \A jd \in Ids : ref'[jd] = Cardinality(users(jd)')
    BY <1>1, <1>6, <1>r DEF RefTyped
  <1>8. RefTyped'
    BY <1>1, <1>6, <1>r, Types DEF RefTyped, Ids
  <1>9. RefCounts'
    BY <1>7 DEF RefCounts, Ids
  <1> QED  BY <1>2, <1>3, <1>8, <1>9 DEF Counts

\* A step after which the same pages hold the same frames for every process.
LEMMA SameUsers ==
    ASSUME Counts, Tables', live' = live, \A p \in live : pt'[p] = pt[p], ref' = ref
    PROVE  Counts'
  <1>1. NoneBelow'
    BY DEF Counts, NoneBelow, get_frame, SharedFrames
  <1>2. \A id \in Ids : users(id)' = users(id)
    BY DEF users, id_frame, boot_frame
  <1> QED  BY <1>1, <1>2 DEF Counts, RefTyped, RefCounts, Ids

LEMMA NextCounts == AttachAbove /\ Counts /\ [Next]_vars => Counts'
  <1> SUFFICES ASSUME AttachAbove, Counts, [Next]_vars PROVE Counts'
    OBVIOUS
  <1>t. Tables' /\ live \subseteq Procs /\ pt \in [Procs -> [Pages -> Entries]]
    BY NextTables DEF Counts, Tables, TablesTyped
  <1>1. ASSUME NEW p \in Procs, NEW c \in Procs, SysFork(p, c) PROVE Counts'
    BY <1>1, ForkCounts
  <1>2. ASSUME NEW p \in Procs, NEW c \in Procs, SysForkNoFrames(p, c) PROVE Counts'
    <2>1. \A q \in live : pt'[q] = pt[q]
      BY <1>2, <1>t DEF SysForkNoFrames
    <2> QED  BY <2>1, <1>2, <1>t, SameUsers DEF SysForkNoFrames
  <1>3. ASSUME NEW p \in Procs, SysExit(p) PROVE Counts'
    BY <1>3, ExitCounts
  <1>4. ASSUME NEW p \in Procs, SysExitFaults(p) PROVE Counts'
    BY <1>4, <1>t, SameUsers DEF SysExitFaults
  <1>5. ASSUME NEW p \in Procs, NEW id \in Ids, NEW page \in AttachPages,
               SysShmat(p, id, page)
        PROVE  Counts'
    BY <1>5, ShmatCounts
  <1>6. ASSUME NEW p \in Procs, NEW page \in attached(p), SysShmdt(p, page)
        PROVE  Counts'
    BY <1>6, ShmdtCounts
  <1>7. ASSUME NEW p \in Procs, NEW id \in Ids, SysShmrm(p, id) \/ UserWrite(p, id)
        PROVE  Counts'
    BY <1>7, <1>t, SameUsers DEF SysShmrm, UserWrite
  <1>8. CASE UNCHANGED vars
    BY <1>8, <1>t, SameUsers DEF vars
  <1> QED  BY <1>1, <1>2, <1>3, <1>4, <1>5, <1>6, <1>7, <1>8 DEF Next, ProcNext

LEMMA CountsInvariant ==
    ASSUME AttachAbove
    PROVE  Spec => []Counts
  <1>1. Counts /\ [Next]_vars => Counts'
    BY NextCounts
  <1> QED  BY <1>1, InitCounts, PTL DEF Spec

\* For programs that attach above the copy window, the reference count of a
\* shared frame is at all times the number of pages that hold it, in any number
\* of processes and after any sequence of forks, attachments, detachments and
\* exits: an exit never clears a frame that another process still has.
THEOREM CountsExact ==
    ASSUME AttachAbove
    PROVE  Spec => []RefCounts
  <1>1. Counts => RefCounts
    BY DEF Counts
  <1> QED  BY <1>1, CountsInvariant, PTL

\* For such programs, all of the state stays what it should be: the counts,
\* too, stay in bounds.
THEOREM MemoryTypes ==
    ASSUME AttachAbove
    PROVE  Spec => []TypeOK
  <1> DEFINE Flags == /\ delete \in [Ids -> BOOLEAN]
                      /\ content \in [Ids -> {"clear", "used"}]
                      /\ halted \in BOOLEAN
  <1>1. Init => Flags
    BY DEF Init
  <1>2. Flags /\ [Next]_vars => Flags'
    <2> SUFFICES ASSUME Flags, [Next]_vars PROVE Flags'
      OBVIOUS
    <2>1. ASSUME NEW p \in Procs, NEW c \in Procs, SysFork(p, c) \/ SysForkNoFrames(p, c)
          PROVE  Flags'
      BY <2>1 DEF SysFork, SysForkNoFrames
    <2>2. ASSUME NEW p \in Procs, SysExit(p) \/ SysExitFaults(p) PROVE Flags'
      BY <2>2 DEF SysExit, SysExitFaults, Ids
    <2>3. ASSUME NEW p \in Procs, NEW id \in Ids, NEW page \in AttachPages,
                 SysShmat(p, id, page)
          PROVE  Flags'
      BY <2>3 DEF SysShmat
    <2>4. ASSUME NEW p \in Procs, NEW page \in attached(p), SysShmdt(p, page)
          PROVE  Flags'
      BY <2>4 DEF SysShmdt
    <2>5. ASSUME NEW p \in Procs, NEW id \in Ids, SysShmrm(p, id) \/ UserWrite(p, id)
          PROVE  Flags'
      BY <2>5 DEF SysShmrm, UserWrite
    <2>6. CASE UNCHANGED vars
      BY <2>6 DEF vars
    <2> QED  BY <2>1, <2>2, <2>3, <2>4, <2>5, <2>6 DEF Next, ProcNext
  <1>3. Counts /\ Flags => TypeOK
    BY DEF Counts, Tables, TablesTyped, RefTyped, TypeOK
  <1> HIDE DEF Flags
  <1> QED  BY <1>1, <1>2, <1>3, CountsInvariant, PTL DEF Spec

\* For such programs, the detach that leaves a frame marked for deletion in no
\* page at all clears it, whoever shared it and in whatever order they left.
THEOREM LastDetach ==
    ASSUME AttachAbove
    PROVE  Spec => LastDetachClears
  <1> DEFINE A == \A id \in Ids :
                     /\ delete[id] /\ users(id) # {} /\ users(id)' = {}
                     /\ live' = live
                     => content'[id] = "clear"
  <1>1. ASSUME Counts, Counts', TypeOK, [Next]_vars, NEW jd \in Ids,
               delete[jd], users(jd) # {}, users(jd)' = {}, live' = live
        PROVE  content'[jd] = "clear"
    <2>t. Tables /\ live \subseteq Procs /\ pt \in [Procs -> [Pages -> Entries]]
      BY <1>1 DEF Counts, Tables, TablesTyped
    <2>s. ~\A q \in live : pt'[q] = pt[q]
      BY <1>1 DEF users, id_frame, boot_frame
    <2>1. ASSUME NEW p \in Procs, NEW c \in Procs, SysFork(p, c) PROVE FALSE
      BY <2>1, <1>1 DEF SysFork
    <2>2. ASSUME NEW p \in Procs, NEW c \in Procs, SysForkNoFrames(p, c) PROVE FALSE
      BY <2>2, <2>s, <2>t DEF SysForkNoFrames
    <2>3. ASSUME NEW p \in Procs, SysExit(p) PROVE FALSE
      BY <2>3, <1>1 DEF SysExit, Running
    <2>4. ASSUME NEW p \in Procs, SysExitFaults(p) PROVE FALSE
      BY <2>4, <2>s DEF SysExitFaults
    <2>5. ASSUME NEW p \in Procs, NEW id \in Ids, NEW page \in AttachPages,
                 SysShmat(p, id, page)
          PROVE  FALSE
      <3>1. PICK at \in candidates(p, page) : pt' = [pt EXCEPT ![p][at] = MapTo(id_frame(id))]
        BY <2>5 DEF SysShmat
      <3>2. p \in live /\ page \in Pages
        BY <2>5, MemoryAssumption DEF SysShmat, Running
      <3>3. at \in Pages /\ ~pt[p][at].present
        BY <3>2, <2>t, Candidates, PageKinds
      <3>4. <<p, at>> \notin users(jd)
        <4>1. pt[p][at] # MapTo(id_frame(jd))
          BY <3>3, EntryTypes
        <4> QED  BY <4>1 DEF users
      <3>5. users(jd)' = IF MapTo(id_frame(id)) = MapTo(id_frame(jd))
                         THEN users(jd) \cup {<<p, at>>} ELSE users(jd) \ {<<p, at>>}
        BY <1>1, <2>t, <3>1, <3>2, <3>3, SetPageUsers
      <3> QED  BY <1>1, <3>4, <3>5
    <2>6. ASSUME NEW p \in Procs, NEW page \in attached(p), SysShmdt(p, page)
          PROVE  content'[jd] = "clear"
      <3> DEFINE id == find_shframe(get_frame(p, page))
      <3>1. /\ p \in live /\ page \in Pages /\ pt' = [pt EXCEPT ![p][page] = Unmapped]
            /\ content' = IF delete[id] /\ ref'[id] = 0
                          THEN [content EXCEPT ![id] = "clear"] ELSE content
        BY <2>6, PageKinds DEF SysShmdt, Running, attached
      <3>2. id \in Ids /\ pt[p][page] = MapTo(id_frame(id))
        BY <2>t, <3>1, AttachedFrame
      <3> HIDE DEF id
      <3>3. users(jd)' = users(jd) \ {<<p, page>>}
        <4>1. Unmapped # MapTo(id_frame(jd))
          BY EntryTypes
        <4>2. users(jd)' = IF Unmapped = MapTo(id_frame(jd))
                           THEN users(jd) \cup {<<p, page>>} ELSE users(jd) \ {<<p, page>>}
          BY <1>1, <2>t, <3>1, SetPageUsers
        <4> QED  BY <4>1, <4>2
      <3>4. jd = id
        <4>1. pt[p][page] = MapTo(id_frame(jd))
          BY <1>1, <3>3 DEF users
        <4>2. id_frame(jd) = id_frame(id)
          BY <4>1, <3>2 DEF MapTo
        <4> QED  BY <4>2, <3>2, FrameKinds
      <3>5. ref'[jd] = 0
        <4>1. ref'[jd] = Cardinality(users(jd)')
          BY <1>1 DEF Counts, RefCounts, Ids
        <4> QED  BY <4>1, <1>1, FS_EmptySet
      <3>6. content \in [Ids -> {"clear", "used"}]
        BY <1>1 DEF TypeOK
      <3> QED  BY <1>1, <3>1, <3>4, <3>5, <3>6
    <2>7. ASSUME NEW p \in Procs, NEW id \in Ids, SysShmrm(p, id) \/ UserWrite(p, id)
          PROVE  FALSE
      BY <2>7, <2>s DEF SysShmrm, UserWrite
    <2>8. CASE UNCHANGED vars
      BY <2>8, <2>s DEF vars
    <2> QED  BY <1>1, <2>1, <2>2, <2>3, <2>4, <2>5, <2>6, <2>7, <2>8 DEF Next, ProcNext
  <1>2. Counts /\ Counts' /\ TypeOK /\ [Next]_vars => [A]_vars
    BY <1>1 DEF A
  <1>3. Spec => [][A]_vars
    <2> HIDE DEF A
    <2> QED  BY <1>2, CountsInvariant, MemoryTypes, PTL DEF Spec
  <1> QED  BY <1>3 DEF LastDetachClears, A
\* For such programs, a child gets every shared frame its parent has, at the
\* same pages, and the parent keeps them: the copy window takes none of them
\* (the loop over the shared pages in sys_fork).
THEOREM ForkInherits ==
    ASSUME AttachAbove
    PROVE  Spec => ForkCopiesAttachments
  <1> DEFINE A == \A c \in live' \ live : \E p \in live :
                     \A pag \in ShmPages :
                        /\ pt'[p][pag] = pt[p][pag]
                        /\ pt'[c][pag].frame = get_frame(p, pag)
  <1>1. ASSUME Counts, [Next]_vars, NEW c \in live' \ live
        PROVE  \E p \in live : \A pag \in ShmPages :
                  /\ pt'[p][pag] = pt[p][pag]
                  /\ pt'[c][pag].frame = get_frame(p, pag)
    <2>t. /\ Tables /\ NoneBelow /\ live \subseteq Procs
          /\ pt \in [Procs -> [Pages -> Entries]]
      BY <1>1 DEF Counts, Tables, TablesTyped
    <2>1. PICK p \in Procs : SysFork(p, c)
      <3>1. ASSUME NEW q \in Procs, NEW d \in Procs, SysFork(q, d)
            PROVE  \E p \in Procs : SysFork(p, c)
        <4>1. c = d
          BY <1>1, <3>1 DEF SysFork
        <4> QED  BY <3>1, <4>1
      <3> QED  BY <1>1, <3>1 DEF Next, ProcNext, SysForkNoFrames, SysExit, SysExitFaults,
                                 SysShmat, SysShmdt, SysShmrm, UserWrite, vars
    <2>2. p \in live /\ c \in Procs \ live /\ c # p
      BY <2>1 DEF SysFork, Running
    <2>3. PICK alloc \in [DataPages -> FreeFrames] :
             pt' = [pt EXCEPT ![c] = child_table(p, c, alloc), ![p] = parent_table(p)]
      BY <2>1 DEF SysFork
    <2>4. pt'[c] = child_table(p, c, alloc) /\ pt'[p] = parent_table(p)
      BY <2>2, <2>3, <2>t
    <2>5. ASSUME NEW pag \in WindowPages  PROVE pt[p][pag] = Unmapped
      BY <2>2, <2>t, PageKinds, EntryTypes
      DEF Tables, ShmMapped, Attachment, NoneBelow, get_frame
    <2>6. ASSUME NEW pag \in ShmPages
          PROVE  pt'[p][pag] = pt[p][pag] /\ pt'[c][pag].frame = get_frame(p, pag)
      <3>1. pt'[p][pag] = pt[p][pag]
        BY <2>4, <2>5, PageKinds DEF parent_table
      <3>2. CASE pag \in copied_attachments(p)
        <4>1. pt'[c][pag] = MapTo(get_frame(p, pag))
          BY <2>2, <2>4, <3>2, ChildTable
        <4> QED  BY <3>1, <4>1 DEF MapTo
      <3>3. CASE pag \notin copied_attachments(p)
        <4>1. pt'[c][pag] = pt[c][pag] /\ pt[c][pag] = Unmapped
          <5>1. child_table(p, c, alloc)[pag] = pt[c][pag]
            BY <2>2, <3>3, ChildTable
          <5> QED  BY <2>2, <2>4, <2>t, <5>1 DEF Tables, FreeTables
        <4>2. get_frame(p, pag) = 0
          <5>1. CASE pag \in WindowPages
            BY <2>5, <5>1, EntryTypes DEF get_frame
          <5>2. CASE pag \notin attached(p)
            BY <5>2 DEF attached
          <5> QED  BY <3>3, <5>1, <5>2 DEF copied_attachments
        <4>3. pt'[c][pag].frame = Unmapped.frame
          BY <4>1
        <4> QED  BY <3>1, <4>2, <4>3 DEF Unmapped
      <3> QED  BY <3>1, <3>2, <3>3
    <2> QED  BY <2>2, <2>6
  <1>2. Counts /\ [Next]_vars => [A]_vars
    BY <1>1 DEF A
  <1>3. Spec => [][A]_vars
    <2> HIDE DEF A
    <2> QED  BY <1>2, CountsInvariant, PTL DEF Spec
  <1> QED  BY <1>3 DEF ForkCopiesAttachments, A

\* A process that has a frame at as many pages as its count says has it alone.
LEMMA OnlyUser ==
    ASSUME Counts, NEW p \in live, NEW id \in Ids,
           ref[id] = Cardinality(attachments(p, id))
    PROVE  users(id) = {p} \X attachments(p, id)
  <1> DEFINE T == {p} \X attachments(p, id)
  <1>t. Tables /\ NoneBelow /\ ref[id] = Cardinality(users(id))
    BY DEF Counts, RefCounts
  <1>1. /\ IsFiniteSet(users(id)) /\ Cardinality(T) = Cardinality(attachments(p, id))
        /\ Cardinality(users(id)) \in Nat
    BY <1>t, FiniteUsers
  <1>2. T \subseteq users(id)
    <2>1. attachments(p, id) \subseteq Pages
      BY PageKinds DEF attachments, attached
    <2>2. \A pag \in attachments(p, id) : pt[p][pag] = MapTo(id_frame(id))
      BY <1>t, <2>1, UsersByPage
    <2> QED  BY <2>1, <2>2 DEF users
  <1> HIDE DEF T
  <1>3. users(id) \cap T = T
    BY <1>2
  <1>4. /\ IsFiniteSet(users(id) \ T)
        /\ Cardinality(users(id) \ T) = Cardinality(users(id)) - Cardinality(users(id) \cap T)
    BY <1>1, FS_Difference
  <1>5. Cardinality(users(id) \ T) = 0
    BY <1>t, <1>1, <1>3, <1>4
  <1>6. users(id) \ T = {}
    BY <1>4, <1>5, FS_EmptySet
  <1> QED  BY <1>2, <1>6 DEF T

\* For such programs, the kernel faults in exit only for a frame that was
\* marked for deletion and that the process ending has alone.
THEOREM FaultByLastUser ==
    ASSUME AttachAbove
    PROVE  Spec => FaultOnlyByLastUser
  <1> DEFINE A == halted' /\ ~halted =>
                     \E p \in live, id \in Ids :
                        /\ delete[id] /\ users(id) # {}
                        /\ \A u \in users(id) : u[1] = p
  <1>1. ASSUME Counts, [Next]_vars, halted', ~halted
        PROVE  \E p \in live, id \in Ids :
                  /\ delete[id] /\ users(id) # {}
                  /\ \A u \in users(id) : u[1] = p
    <2>1. PICK p \in Procs : SysExitFaults(p)
      BY <1>1 DEF Next, ProcNext, SysFork, SysForkNoFrames, SysExit, SysShmat, SysShmdt,
                  SysShmrm, UserWrite, vars
    <2>2. PICK id \in to_clear(p) : ~still_there(p, id)
      BY <2>1 DEF SysExitFaults
    <2>3. /\ p \in live /\ id \in Ids /\ delete[id] /\ attachments(p, id) # {}
          /\ ref[id] - Cardinality(attachments(p, id)) = 0
      BY <2>1, <2>2 DEF SysExitFaults, Running, to_clear, left_ref
    <2>4. Cardinality(attachments(p, id)) \in Nat /\ ref[id] \in Nat
      <3>1. Tables /\ ref[id] \in 0 .. MaxRef
        BY <1>1, <2>3 DEF Counts, RefTyped
      <3>2. Cardinality(attachments(p, id)) \in Nat
        BY <2>3, <3>1, FiniteUsers
      <3> QED  BY <3>1, <3>2, Types
    <2>5. users(id) = {p} \X attachments(p, id)
      <3>1. ref[id] = Cardinality(attachments(p, id))
        BY <2>3, <2>4
      <3> QED  BY <1>1, <2>3, <3>1, OnlyUser
    <2>6. PICK pag : pag \in attachments(p, id)
      BY <2>3
    <2>7. <<p, pag>> \in users(id) /\ \A u \in users(id) : u[1] = p
      BY <2>5, <2>6
    <2> QED  BY <2>3, <2>7
  <1>2. Counts /\ [Next]_vars => [A]_vars
    BY <1>1 DEF A
  <1>3. Spec => [][A]_vars
    <2> HIDE DEF A
    <2> QED  BY <1>2, CountsInvariant, PTL DEF Spec
  <1> QED  BY <1>3 DEF FaultOnlyByLastUser, A
=============================================================================
