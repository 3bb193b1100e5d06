----------------------------- MODULE UserMemory -----------------------------
(***************************************************************************)
(* What stands between a pointer of a program and the kernel (utils.c):    *)
(* access_ok, the copies, and the order in which sys_write and sys_read    *)
(* test their arguments.  PROJECTE and E2 differ in the layout, in the     *)
(* shared pages and in that order; delivery tells them apart.              *)
(*                                                                         *)
(* Addresses are words, and a page has PAGE_SIZE of them.                  *)
(* access_ok of PROJECTE looks for the frame of a shared page in           *)
(* current(), not in the page table of current(): it reads the words of    *)
(* the descriptor and kernel stack of the process, of which the model      *)
(* keeps those that look like an entry with a frame, and lets them change  *)
(* as the stack does.                                                      *)
(***************************************************************************)
EXTENDS Integers

CONSTANTS
    Words,            \* values of a word (2^32)
    PAGE_SIZE, TOTAL_PAGES, USER_FIRST_PAGE,
    NUM_PAG_CODE, NUM_PAG_DATA,
    Attachable,       \* pages where shared memory is attached
    Sizes,            \* bound: block sizes a program passes, as integers
    BUFFER_SIZE       \* limit of sys_read

\* An int is half a word; the pages of a program end below the last one.
ASSUME PointersAssumption ==
    /\ {PAGE_SIZE, USER_FIRST_PAGE} \subseteq Nat \ {0}
    /\ {Words, TOTAL_PAGES, NUM_PAG_CODE, NUM_PAG_DATA} \subseteq Nat
    /\ 2 * PAGE_SIZE <= Words
    /\ (USER_FIRST_PAGE + NUM_PAG_CODE + NUM_PAG_DATA) * PAGE_SIZE < Words
    /\ \A n \in Sizes : n \in Int /\ -Words <= 2 * n /\ 2 * n < Words
    /\ BUFFER_SIZE \in Nat /\ 2 * BUFFER_SIZE <= Words
    /\ Attachable \subseteq 0 .. TOTAL_PAGES

VARIABLES
    delivery,         \* "PROJECTE" or "E2"
    pages_attached,   \* shared pages the process has
    framed,           \* words of current() with a frame number in them
    call              \* history: the call being answered, or NoCall
pointer_vars == <<delivery, pages_attached, framed, call>>

Shared == delivery = "PROJECTE"    \* whether there are shared pages
unsigned(n) == n % Words
page(addr) == addr \div PAGE_SIZE
EndPage == USER_FIRST_PAGE + NUM_PAG_CODE + NUM_PAG_DATA
\* Data after code in PROJECTE, before it in E2.
FirstData == IF Shared THEN USER_FIRST_PAGE + NUM_PAG_CODE ELSE USER_FIRST_PAGE
DataPages == FirstData .. FirstData + NUM_PAG_DATA - 1
CodePages == (USER_FIRST_PAGE .. EndPage - 1) \ DataPages

NoCall == [name |-> "none", addr |-> 0, size |-> 0, ok |-> FALSE]
PointersInit ==
    /\ delivery \in {"PROJECTE", "E2"}
    /\ framed \in SUBSET Attachable /\ (~Shared => framed = {})
    /\ pages_attached = {} /\ call = NoCall

-----------------------------------------------------------------------------
READ == "read"
WRITE == "write"

\* The shared branch, for both types.
shared_ok(ini, fin) == /\ ini >= EndPage /\ fin <= TOTAL_PAGES
                       /\ ini .. fin \subseteq framed

\* VERIFY_WRITE falls through to the default case.
Mut_access_ok(type, addr, size) ==
    LET ini == page(addr)
        fin == page(unsigned(addr + size))
    IN  \/ type = WRITE /\ ini >= FirstData /\ fin <= FirstData + NUM_PAG_DATA
        \/ ini >= USER_FIRST_PAGE /\ fin <= EndPage
        \/ shared_ok(ini, fin)
Mut_strict_ok(type, addr, size) ==
    LET ini == page(addr)
        fin == page(unsigned(addr + size))
    IN  /\ fin >= ini
        /\ \/ type = WRITE /\ ini >= FirstData /\ fin <= FirstData + NUM_PAG_DATA
           \/ ini >= USER_FIRST_PAGE /\ fin < EndPage
           \/ shared_ok(ini, fin)
access_ok(type, addr, size) ==
    LET ini == page(addr)
        fin == page(unsigned(addr + size))
    IN  /\ fin >= ini
        /\ \/ type = WRITE /\ ini >= FirstData /\ fin <= FirstData + NUM_PAG_DATA
           \/ ini >= USER_FIRST_PAGE /\ fin <= EndPage
           \/ shared_ok(ini, fin)

access_ok_E2(type, addr, size) ==
    LET ini == page(addr)
        fin == page(unsigned(addr + size))
    IN  /\ fin >= ini
        /\ \/ type = WRITE /\ ini >= USER_FIRST_PAGE /\ fin <= USER_FIRST_PAGE + NUM_PAG_DATA
           \/ ini >= USER_FIRST_PAGE /\ fin <= EndPage

accessible(type, addr, size) ==
    IF Shared THEN access_ok(type, addr, size) ELSE access_ok_E2(type, addr, size)

\* The addresses copy_from_user, copy_to_user and copy_data touch: words of
\* four while more than four bytes are left, then bytes.
copied(addr, size) ==
    LET words == IF size > 4 THEN (size - 1) \div 4 ELSE 0
        bytes == size - 4 * words
    IN  {unsigned(a) : a \in (addr .. addr + 4 * words - 1)
                             \cup (addr + 4 * words .. addr + 4 * words + bytes - 1)}

-----------------------------------------------------------------------------
answer(name, addr, n, ok) ==
    call' = [name |-> name, addr |-> addr, size |-> n, ok |-> ok]

\* E2 asks for a buffer it could write, and looks at the sign afterwards.
SysWrite(addr, n) ==
    /\ answer("write", addr, n,
              IF Shared THEN n >= 0 /\ accessible(READ, addr, unsigned(n))
              ELSE accessible(WRITE, addr, unsigned(n)) /\ n >= 0)
    /\ UNCHANGED <<delivery, pages_attached, framed>>

SysRead(addr, n) ==
    /\ Shared
    /\ answer("read", addr, n, n >= 0 /\ n < BUFFER_SIZE /\ accessible(WRITE, addr, n))
    /\ UNCHANGED <<delivery, pages_attached, framed>>

Answered == call # NoCall /\ call' = NoCall /\ UNCHANGED <<delivery, pages_attached, framed>>

\* shmat and shmdt (module Memory), and what runs on the kernel stack.
Attach(pag) ==
    /\ Shared /\ pag < TOTAL_PAGES
    /\ pages_attached' \in {pages_attached \cup {pag}, pages_attached \ {pag}}
    /\ UNCHANGED <<delivery, framed, call>>
StackChanges(F) ==
    /\ Shared /\ framed' = F
    /\ UNCHANGED <<delivery, pages_attached, call>>

\* One call is answered before the next begins.
PointersNext ==
    \/ Answered
    \/ /\ call = NoCall
       /\ \/ \E addr \in 0 .. Words - 1, n \in Sizes : SysWrite(addr, n) \/ SysRead(addr, n)
          \/ \E pag \in Attachable : Attach(pag)
          \/ \E F \in SUBSET Attachable : StackChanges(F)

PointersSpec == PointersInit /\ [][PointersNext]_pointer_vars

-----------------------------------------------------------------------------
\* The addresses of a block, and the pages the kernel touches for the call.
block(addr, n) == {unsigned(a) : a \in addr .. addr + n - 1}
touched == {page(a) : a \in copied(call.addr, call.size)}
Mapped == CodePages \cup DataPages \cup pages_attached

\* No pointer and no size, negative or wrapping around the end of the
\* address space, makes the kernel read or write its own memory for a
\* program.
NeverKernel == call.ok => \A p \in touched : p >= USER_FIRST_PAGE

\* A buffer in the data of the program is never refused.
DataAccepted ==
    /\ call # NoCall /\ call.size \in 1 .. BUFFER_SIZE - 1
    /\ {page(a) : a \in block(call.addr, call.size)} \subseteq DataPages
    => call.ok

\* The last three are what the comments promise and the code does not do.

\* "false (zero) if it is definitely invalid": the kernel touches no page
\* the process does not have.
InvalidRefused == call.ok => touched \subseteq Mapped

\* "true (nonzero) if the memory block may be valid": a buffer in attached
\* shared memory is accepted.
AttachedAccepted ==
    /\ call # NoCall /\ call.size \in 1 .. BUFFER_SIZE - 1
    /\ {page(a) : a \in block(call.addr, call.size)} \subseteq pages_attached
    => call.ok

\* "Should suppose no support for automodifyable code": no call writes to
\* the code of the program.
CodeNotWritten ==
    call.ok /\ call.name = "read" => touched \cap CodePages = {}
=============================================================================
