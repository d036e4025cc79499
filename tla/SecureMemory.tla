---------------------------- MODULE SecureMemory ----------------------------
(***************************************************************************)
(* Memory for key bytes: SecureBox and LockedMemory,                       *)
(* crates/kms-core/src/memory_protection.rs (Unix).                        *)
(*                                                                         *)
(* The backup manager keeps its master keys in SecureBoxes.  A box has     *)
(* pages of its own from mmap or, when mmap fails, a place on the heap,    *)
(* where pages are shared; a LockedMemory locks the page of a heap slice.  *)
(* The operating system locks whole pages and does not count: one munlock  *)
(* undoes every mlock of a page.                                           *)
(***************************************************************************)
EXTENDS Naturals, FiniteSets

CONSTANTS
    PAGE_SIZE,      \* bytes of a page (4096)
    BoxIds,         \* SecureBoxes that may be alive at once
    BoxSizes,       \* sizes asked of SecureBox::new
    Slices,         \* heap slices with key bytes, for a LockedMemory each
    HeapPage,       \* slice, or box on the heap -> its page
    LockLimit,      \* RLIMIT_MEMLOCK, in pages
    MaxMapFaults,   \* bound: mmaps that fail
    MaxAllocations  \* bound: calls of SecureBox::new

ASSUME SecureMemoryAssumption ==
    /\ PAGE_SIZE \in Nat \ {0} /\ BoxSizes \subseteq Nat
    /\ {LockLimit, MaxMapFaults, MaxAllocations} \subseteq Nat
    /\ Slices \cap BoxIds = {} /\ DOMAIN HeapPage = Slices \cup BoxIds
    /\ \A h \in DOMAIN HeapPage : HeapPage[h] \notin BoxIds \X Nat     \* no page of a map

VARIABLES
    boxes,          \* box -> [place, len, capacity, key, dropping]
    lockedPages,    \* the pages the operating system keeps in memory
    wrapped,        \* the slices whose LockedMemory is alive
    mlockFailures,  \* MLOCK_FAILURE_COUNTER
    mapFaults,
    allocations,
    unprotected,    \* what is on the heap and never was locked (history)
    undone,         \* what is on the heap and was unlocked by another (history)
    leaked          \* a page went back with key bytes on it (history)

memoryVars == <<boxes, lockedPages, wrapped, mlockFailures, mapFaults, allocations,
                unprotected, undone, leaked>>

NoBox == [place |-> "none", len |-> 0, capacity |-> 0, key |-> FALSE, dropping |-> FALSE]
NewBox(place, len, capacity) == [NoBox EXCEPT !.place = place, !.len = len, !.capacity = capacity]

MemoryInit ==
    /\ boxes = [b \in BoxIds |-> NoBox]
    /\ lockedPages = {} /\ wrapped = {}
    /\ mlockFailures = 0 /\ mapFaults = 0 /\ allocations = 0
    /\ unprotected = {} /\ undone = {} /\ leaked = FALSE

-----------------------------------------------------------------------------
(* The system calls.                                                       *)

\* mutant: rounds down
page_align_Down(size) == (size \div PAGE_SIZE) * PAGE_SIZE

page_align(size) == ((size + PAGE_SIZE - 1) \div PAGE_SIZE) * PAGE_SIZE

\* The pages of the map of box b that its first n bytes lie on.
Mapped(b, n) == {<<b, i>> : i \in 0..((n + PAGE_SIZE - 1) \div PAGE_SIZE - 1)}

CanLock(pages) == Cardinality(lockedPages \cup pages) <= LockLimit

OnHeap == wrapped \cup {b \in BoxIds : boxes[b].place = "heap"}

mlock(pages) ==
    /\ CanLock(pages)
    /\ lockedPages' = lockedPages \cup pages
    /\ undone' = {h \in undone : HeapPage[h] \notin pages}

\* A failure of munlock is only logged; none is expected for a page in use.
munlock(owner, pages) ==
    /\ lockedPages' = lockedPages \ pages
    /\ undone' = (undone \cup {h \in OnHeap : HeapPage[h] \in pages}) \ {owner}

-----------------------------------------------------------------------------
(* SecureBox.                                                              *)

\* mmap fails: a Vec, locked if it can be.
allocate_fallback(b, size) ==
    /\ boxes' = [boxes EXCEPT ![b] = NewBox("heap", size, size)]
    /\ \/ mlock({HeapPage[b]}) /\ UNCHANGED <<mlockFailures, unprotected>>
       \/ /\ ~CanLock({HeapPage[b]})
          /\ mlockFailures' = mlockFailures + 1
          /\ unprotected' = unprotected \cup {b}
          /\ UNCHANGED <<lockedPages, undone>>

\* mutant: goes on without the lock
refuse_Unprotected(b, capacity) ==
    /\ ~CanLock(Mapped(b, capacity))
    /\ mlockFailures' = mlockFailures + 1
    /\ boxes' = [boxes EXCEPT ![b] = NewBox("mmap", capacity, capacity)]
    /\ UNCHANGED <<lockedPages, undone, unprotected>>

\* An error of mlock gives the map back and is the caller's.
refuse(b, capacity) ==
    /\ ~CanLock(Mapped(b, capacity))
    /\ mlockFailures' = mlockFailures + 1
    /\ UNCHANGED <<boxes, lockedPages, undone, unprotected>>

allocate(b, size) ==
    /\ boxes[b] = NoBox /\ size > 0 /\ allocations < MaxAllocations
    /\ allocations' = allocations + 1
    /\ \/ /\ mapFaults < MaxMapFaults /\ mapFaults' = mapFaults + 1
          /\ allocate_fallback(b, size)
       \/ /\ UNCHANGED mapFaults
          /\ \/ /\ mlock(Mapped(b, page_align(size)))
                /\ boxes' = [boxes EXCEPT ![b] = NewBox("mmap", size, page_align(size))]
                /\ UNCHANGED <<mlockFailures, unprotected>>
             \/ refuse(b, page_align(size))
    /\ UNCHANGED <<wrapped, leaked>>

\* Key bytes are written, to the first len bytes at most.
copy_from_slice(b) ==
    /\ boxes[b].place # "none" /\ ~boxes[b].dropping
    /\ boxes' = [boxes EXCEPT ![b].key = TRUE]
    /\ UNCHANGED <<lockedPages, wrapped, mlockFailures, mapFaults, allocations,
                   unprotected, undone, leaked>>

\* mutant: unlocks before it zeroes
drop_box_Unlocked(b) ==
    /\ boxes[b].place # "none" /\ ~boxes[b].dropping
    /\ boxes' = [boxes EXCEPT ![b].dropping = TRUE]
    /\ munlock(b, IF boxes[b].place = "mmap" THEN Mapped(b, boxes[b].capacity) ELSE {})
    /\ UNCHANGED <<wrapped, mlockFailures, mapFaults, allocations, unprotected, leaked>>

\* Drop begins by zeroing.
drop_box(b) ==
    /\ boxes[b].place # "none" /\ ~boxes[b].dropping
    /\ boxes' = [boxes EXCEPT ![b].dropping = TRUE, ![b].key = FALSE]
    /\ UNCHANGED <<lockedPages, wrapped, mlockFailures, mapFaults, allocations,
                   unprotected, undone, leaked>>

\* Drop ends with munlock and munmap, or with the Vec given back, whose page
\* stays locked.
release_box(b) ==
    /\ boxes[b].dropping
    /\ boxes' = [boxes EXCEPT ![b] = NoBox]
    /\ leaked' = (leaked \/ boxes[b].key)
    /\ unprotected' = unprotected \ {b}
    /\ munlock(b, IF boxes[b].place = "mmap" THEN Mapped(b, boxes[b].capacity) ELSE {})
    /\ UNCHANGED <<wrapped, mlockFailures, mapFaults, allocations>>

-----------------------------------------------------------------------------
(* LockedMemory.                                                           *)

\* LockedMemory::new; its error is not counted.
lock_slice(s) ==
    /\ s \notin wrapped
    /\ mlock({HeapPage[s]})
    /\ wrapped' = wrapped \cup {s}
    /\ UNCHANGED <<boxes, mlockFailures, mapFaults, allocations, unprotected, leaked>>

\* Its drop.
drop_slice(s) ==
    /\ s \in wrapped
    /\ wrapped' = wrapped \ {s}
    /\ munlock(s, {HeapPage[s]})
    /\ UNCHANGED <<boxes, mlockFailures, mapFaults, allocations, unprotected, leaked>>

MemoryNext ==
    \/ \E b \in BoxIds :
         \/ \E size \in BoxSizes : allocate(b, size)
         \/ copy_from_slice(b) \/ drop_box(b) \/ release_box(b)
    \/ \E s \in Slices : lock_slice(s) \/ drop_slice(s)

-----------------------------------------------------------------------------
(* Properties.                                                             *)

\* The bytes of a mapped box lie on locked pages from the first key byte to the
\* last, whatever else is dropped, and no page goes back with key bytes on it.
BoxesProtected ==
    /\ \A b \in BoxIds : boxes[b].place = "mmap" /\ boxes[b].key => Mapped(b, boxes[b].len) \subseteq lockedPages
    /\ ~leaked

\* On the heap the lock of a page is lost only in two ways, both of which the
\* code has: it was refused and counted, or the drop of a LockedMemory on the
\* same page undid it.
HeapExplained ==
    /\ \A h \in OnHeap : HeapPage[h] \in lockedPages \/ h \in unprotected \cup undone
    /\ unprotected # {} => mlockFailures > 0

\* The limit is not eaten up: only living boxes hold pages of maps.
NoLockLeak ==
    \A p \in lockedPages : \/ p \in {HeapPage[h] : h \in DOMAIN HeapPage}
                           \/ \E b \in BoxIds : boxes[b].place = "mmap" /\ p \in Mapped(b, boxes[b].capacity)

\* Key bytes in a SecureBox never reach the swap, and a slice's lock is lost
\* only as the operating system's lack of nesting makes it.
MemorySound == BoxesProtected /\ HeapExplained /\ NoLockLeak

=============================================================================
