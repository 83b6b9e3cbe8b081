---------------------------- MODULE VirtualMemory ----------------------------
(***************************************************************************)
(* Page tables and virtual memory zones (kernel/src/mm/vm.c, vmzone.c,     *)
(* kernel/include/mm.h).                                                   *)
(*                                                                         *)
(* A table has Radix entries instead of 512; addresses, virtual and        *)
(* physical, are page numbers.  An entry is an address field and the set   *)
(* of its bits: P, W, U, NX, HUGE are the hardware's, the others are the   *)
(* kernel's own.  Each function of the code is an operator from memory to  *)
(* memory; m.stop says that it did something undefined on the way, which   *)
(* ends the behaviour.  The memory behind the tables comes from BootMemory *)
(* early, later from phys_alloc, of which PhysAlloc has the inside: here   *)
(* it takes the lowest free aligned run of pages at every call, or the     *)
(* highest at every call, and freeing what is not allocated is undefined.  *)
(* So is what follows when a page of the kernel's image is handed out.     *)
(*                                                                         *)
(* Operators named for what they get wrong are faulty variants of the      *)
(* definition after them.                                                  *)
(***************************************************************************)
EXTENDS BootMemory

CONSTANTS
    Radix,          \* entries of a page table
    Root,           \* page of the PML4T the bootstrap made
    Heap, Slab, Buddy, Shared,     \* first page of each zone
    BlockPages,     \* pages in a block of a block zone (2 in the code)
    ExtendSizes,    \* pages by which the heap is extended or shrunk
    ExtendFlags,    \* flags it is extended with
    DirectPages,    \* pages of the shared zone that are mapped directly
    DirectSizes,    \* numbers of pages mapped by one call
    DirectFlags,    \* flags they are mapped with
    MaxOps          \* bound: calls made after start-up

ASSUME VirtualMemoryAssumption ==
    /\ Radix \in Nat /\ Radix >= 4
    /\ Root \in Nat
    /\ BlockPages \in Nat \ {0} /\ Radix % BlockPages = 0
    /\ ExtendSizes \subseteq 1 .. (Radix - 1)
    /\ ExtendFlags \subseteq SUBSET {"W", "U", "X"}
    /\ DirectPages \subseteq Nat /\ DirectSizes \subseteq 1 .. Radix
    /\ DirectFlags \subseteq SUBSET {"W", "U", "X", "GUARD"}

NULL == 0
Slots == 0 .. (Radix - 1)
Zones == <<Heap, Shared, Slab, Buddy>>
BlockZones == {Slab, Buddy}

height_offset(v, h) == (v \div Radix^h) % Radix
pt_offset(v) == height_offset(v, 0)

(* The first page that the last two entries of the last PDPT map (KERNEL_VMA). *)
KernelVma == Radix^4 - 2 * Radix^2

EmptyEntry == [addr |-> 0, bits |-> {}]
EmptyTable == [i \in Slots |-> EmptyEntry]

(* Bits of an entry that __map_phys_page preserves (MASK_UNRESERVED_BITS). *)
SoftBits == {"pt_ahead", "pt_behind", "pt_early", "ahead", "behind", "early", "neg"}

VARIABLES
    mem,        \* the machine's memory: see InitialMemory
    cursor,     \* cursor_addr of each zone
    blocks,     \* blocks of VMZONE_KERNEL_SLAB the callers hold
    backing,    \* what each mapped virtual page was mapped to when it was handed out
    past,       \* how the heap was shrunk: see NothingYet
    ops,        \* calls made, only to bound them
    pc

vars == <<mem, cursor, blocks, backing, past, ops, pc>>

vm_pt_entry_create(p, flags) ==
    [addr |-> p,
     bits |-> {"P"} \cup (flags \cap {"W", "U", "HUGE"})
                    \cup (IF "X" \in flags THEN {} ELSE {"NX"})]

HugeDirectory(first) ==
    [i \in Slots |-> [addr |-> first + i * Radix, bits |-> {"P", "W", "HUGE"}]]

(***************************************************************************)
(* What init_pt.asm leaves: six tables that map low memory where it is and *)
(* the last two entries' worth of it at the top of the address space.      *)
(***************************************************************************)
BootTables ==
    LET Link(i, t) == i :> [addr |-> Root + t, bits |-> {"P", "W"}]
    IN  [p \in Root .. (Root + 5) |->
            CASE p = Root -> Link(0, 1) @@ Link(Radix - 1, 3) @@ EmptyTable
              [] p = Root + 1 -> Link(0, 2) @@ EmptyTable
              [] p = Root + 3 -> Link(Radix - 2, 4) @@ Link(Radix - 1, 5) @@ EmptyTable
              [] p \in {Root + 2, Root + 4} -> HugeDirectory(0)
              [] p = Root + 5 -> HugeDirectory(Radix^2)]

InitialMemory(map, pick) ==
    [tables |-> BootTables,         \* physical page -> page table
     map |-> map,                   \* what the firmware reported
     free |-> {},                   \* free pages of the physical allocator
     allocs |-> {},                 \* its allocations, [base, size]
     pick |-> pick,                 \* it takes the lowest free run (1) or the highest (-1)
     regions |-> load_physmem_regions(map),
     early |-> {},                  \* pages reserved before it was set up
     stop |-> "none"]

NothingYet ==
    [over |-> FALSE,        \* a shrink was asked for more pages than the heap had
     crossed |-> FALSE]     \* a shrink went on past the first entry of a page table

Stop(m, why) == [m EXCEPT !.stop = why]

-----------------------------------------------------------------------------
(***************************************************************************)
(* Physical pages: early ones from the regions, later ones from the        *)
(* physical allocator.  Both return [m, base].                             *)
(***************************************************************************)

Alignment(n) == Min({a \in {1, 2, 4, 8, 16, 32, 64, 128} : n <= a})

SamePage(base, i) == base

(* Page i of a run: the address advances by PAGE_SIZE in each loop. *)
PageAt(base, i) == base + i

Runs(m, n) ==
    {p \in m.free : p % Alignment(n) = 0 /\ p .. (p + n - 1) \subseteq m.free}

(* The kernel's image, the tables of the bootstrap included *)
Image == KernelStart .. (KernelEnd - 1)

(* What the physical allocator has given out *)
Taken(m) == UNION {a.base .. (a.base + a.size - 1) : a \in m.allocs}

phys_alloc(m, n) ==
    IF Runs(m, n) = {} THEN [m |-> Stop(m, "out_of_memory"), base |-> NULL]
    ELSE LET base == mem.pick * Min({mem.pick * p : p \in Runs(m, n)})
         IN  [m |-> [m EXCEPT !.free = @ \ (base .. (base + n - 1)),
                              !.allocs = @ \cup {[base |-> base, size |-> n]}],
              base |-> base]

phys_free(m, base, n) ==
    IF [base |-> base, size |-> n] \notin m.allocs THEN Stop(m, "bad_free")
    ELSE [m EXCEPT !.free = @ \cup (base .. (base + n - 1)),
                   !.allocs = @ \ {[base |-> base, size |-> n]}]

reserve_physmem_region(m, n) ==
    IF RegionsWithRoom(m.regions, n) = {}
    THEN [m |-> Stop(m, "out_of_memory"), base |-> NULL]
    ELSE LET base == ReservedBase(m.regions, n)
         IN  [m |-> [m EXCEPT !.regions = AfterReserve(@, n),
                              !.early = @ \cup (base .. (base + n - 1))],
              base |-> base]

alloc_phys_block(m, n, flags) ==
    IF "EARLY" \in flags THEN reserve_physmem_region(m, n) ELSE phys_alloc(m, n)

(* PT_DATA_ flags, or PT_ flags of a table, of page i of n allocated together. *)
AllocationBits(i, n, flags, early, behind, ahead) ==
    (IF "EARLY" \in flags THEN {early} ELSE {})
      \cup (IF i > 0 THEN {behind} ELSE {})
      \cup (IF i < n - 1 THEN {ahead} ELSE {})

data_alloc_flags(i, n, flags) == AllocationBits(i, n, flags, "early", "behind", "ahead")

(* n cleared tables; the first entry of each says how it was allocated. *)
alloc_page_tables(m, n, flags) ==
    LET r == alloc_phys_block(m, n, flags)
        new == [p \in r.base .. (r.base + n - 1) |->
                  [EmptyTable EXCEPT ![0].bits =
                     AllocationBits(p - r.base, n, flags, "pt_early", "pt_behind", "pt_ahead")]]
    IN  [m |-> [r.m EXCEPT !.tables = new @@ @], base |-> r.base]

-----------------------------------------------------------------------------
(***************************************************************************)
(* Page table entries and the walk down the tree.                          *)
(***************************************************************************)

pt_alloc_flags(entry) == entry.bits \cap {"pt_ahead", "pt_behind", "pt_early"}

vm_check_status(entry, flags) ==
    IF "P" \notin entry.bits THEN "unmapped"
    ELSE IF (flags \cap {"W", "U"}) \subseteq entry.bits THEN "ok" ELSE "privilege"

(* An index past the table writes into the page of physical memory after it. *)
map_phys_page(m, t, i, p, flags) ==
    LET new == vm_pt_entry_create(p, flags)
    IN  IF i \notin Slots THEN Stop(m, "past_table")
        ELSE [m EXCEPT !.tables[t][i] =
                [new EXCEPT !.bits = @ \cup (m.tables[t][i].bits \cap SoftBits)]]

(***************************************************************************)
(* __traverse_with_status: down from the PML4T at height 3 to the page     *)
(* table at height 0, or to the table whose entry has the wrong status.    *)
(***************************************************************************)
traverse_with_status(m, v, flags) ==
    LET Down(at, h) ==
          LET entry == m.tables[at.table][height_offset(v, h)]
              status == vm_check_status(entry, flags)
          IN  IF at.err # "ok" THEN at
              ELSE IF status # "ok" THEN [at EXCEPT !.err = status]
              ELSE [table |-> entry.addr, height |-> h - 1, err |-> "ok"]
    IN  FoldLeft(Down, [table |-> Root, height |-> 3, err |-> "ok"], <<3, 2, 1>>)

find_pt_or_null(m, v) ==
    LET w == traverse_with_status(m, v, {}) IN IF w.err = "ok" THEN w.table ELSE NULL

Heights(h) == [i \in 1 .. h |-> h + 1 - i]

(* The tables missing below the one at which a walk stopped, from the top. *)
GrowTables(m, w, v, flags) ==
    LET Grow(acc, h) ==
          LET new == alloc_page_tables(acc.m, 1, flags)
          IN  [m |-> map_phys_page(new.m, acc.pt, height_offset(v, h), new.base, flags),
               pt |-> new.base, fresh |-> TRUE]
    IN  FoldLeft(Grow, [m |-> m, pt |-> w.table, fresh |-> FALSE],
                 IF w.err = "ok" THEN <<>> ELSE Heights(w.height))

(***************************************************************************)
(* __find_or_allocate_pt: [m, pt, fresh].  The missing tables are made     *)
(* with the flags of the page that is to be mapped.                        *)
(***************************************************************************)
find_or_allocate_pt(m, v, flags) ==
    LET w == traverse_with_status(m, v, flags)
    IN  IF w.err = "privilege" THEN [m |-> Stop(m, "null_table"), pt |-> w.table, fresh |-> FALSE]
        ELSE GrowTables(m, w, v, flags)

(***************************************************************************)
(* The processor's translation of page v, from the table in cr3: NoPage    *)
(* where an entry is not present or leads to what is not a page table.     *)
(***************************************************************************)
NoPage == -1

Below(m, entry, v, h) ==
    IF "P" \in entry.bits /\ entry.addr \in DOMAIN m.tables
    THEN m.tables[entry.addr][height_offset(v, h)] ELSE EmptyEntry

LeafEntry(m, v) ==
    LET pdpt_entry == Below(m, m.tables[Root][height_offset(v, 3)], v, 2)
        pdt_entry == Below(m, pdpt_entry, v, 1)
    IN  IF "HUGE" \in pdt_entry.bits THEN pdt_entry ELSE Below(m, pdt_entry, v, 0)

Translation(m, v) ==
    LET leaf == LeafEntry(m, v)
    IN  IF "P" \notin leaf.bits THEN NoPage
        ELSE IF "HUGE" \in leaf.bits THEN leaf.addr + (v % Radix) ELSE leaf.addr

-----------------------------------------------------------------------------
(***************************************************************************)
(* Start-up: vm_init, then phys_alloc_init.                                *)
(***************************************************************************)

(* _prepare_block_pt: each free block points to the one after it. *)
prepare_block_pt(m, t) ==
    [m EXCEPT !.tables[t] = [i \in Slots |->
        IF i % BlockPages = 0 THEN [@[i] EXCEPT !.addr = BlockPages] ELSE @[i]]]

(* `|=` of an entry made for page p onto what the table has there *)
OrEntry(m, t, i, p, flags) ==
    LET new == vm_pt_entry_create(p, flags)
    IN  [m EXCEPT !.tables[t][i] = [addr |-> new.addr, bits |-> @.bits \cup new.bits]]

(* The PDPT of a zone's half of the kernel's memory, made if it is missing. *)
WithPdpt(m, v) ==
    IF "P" \in m.tables[Root][height_offset(v, 3)].bits THEN m
    ELSE LET new == alloc_page_tables(m, 1, {"EARLY"})
         IN  OrEntry(new.m, Root, height_offset(v, 3), new.base, {"X", "W"})

(* A page directory and its first page table for one zone, allocated together. *)
ZoneTables(m, zone) ==
    LET r == alloc_page_tables(m, 2, {"EARLY"})
        flags == IF zone = Shared THEN {"W", "X"} ELSE {"W"}
        linked == OrEntry(r.m, r.base, 0, r.base + 1, flags)
        ready == IF zone \in BlockZones THEN prepare_block_pt(linked, r.base + 1) ELSE linked
        pdpt == m.tables[Root][height_offset(zone, 3)].addr
    IN  OrEntry(ready, pdpt, height_offset(zone, 2), r.base, flags)

vmspace_init(m) ==
    FoldLeft(ZoneTables, WithPdpt(WithPdpt(m, Heap), Shared), Zones)

Init ==
    /\ \E map \in MemoryMaps, pick \in {1, -1} : mem = InitialMemory(map, pick)
    /\ cursor = [z \in Range(Zones) |-> z]
    /\ blocks = {}
    /\ backing = <<>>
    /\ past = NothingYet
    /\ ops = 0
    /\ pc = "vm_init"

(* The call ends with memory m, or the behaviour ends where it went wrong. *)
Finish(m, next) ==
    /\ mem' = m
    /\ pc' = IF mem'.stop # "none" THEN mem'.stop
             ELSE IF (Taken(mem') \cup mem'.early) \cap Image # {} THEN "image_given"
             ELSE next

vm_init ==
    /\ pc = "vm_init"
    /\ Finish(vmspace_init(mem), "phys_alloc_init")
    /\ UNCHANGED <<cursor, blocks, backing, past, ops>>

-----------------------------------------------------------------------------
(***************************************************************************)
(* Block zones.                                                            *)
(***************************************************************************)

next_free_entry(entry, v) == IF "neg" \in entry.bits THEN v - entry.addr ELSE v + entry.addr

MarksDropped(entry, i, base, flags) ==
    LET new == vm_pt_entry_create(PageAt(base, i), flags)
    IN  [new EXCEPT !.bits = @ \cup data_alloc_flags(i, BlockPages + 1, flags)]

(***************************************************************************)
(* Entry i of a block whose first entry was entry.  The size given to      *)
(* __data_alloc_flags is the block's address cut to 8 bits, always 0, so   *)
(* that each page, the last one too, is marked as having one ahead.        *)
(***************************************************************************)
BlockEntry(entry, i, base, flags) ==
    LET new == vm_pt_entry_create(PageAt(base, i), flags)
    IN  [new EXCEPT !.bits = @ \cup data_alloc_flags(i, BlockPages + 1, flags)
                               \cup pt_alloc_flags(entry)]

(* The block at v gets physical pages; the cursor moves to where its entry led. *)
FillBlock(m, pt, v, flags) ==
    LET entry == m.tables[pt][pt_offset(v)]
        r == alloc_phys_block(m, BlockPages, flags)
        Filled(i) == i \in pt_offset(v) .. (pt_offset(v) + BlockPages - 1)
    IN  [m |-> [r.m EXCEPT !.tables[pt] = [i \in Slots |->
                  IF Filled(i) THEN BlockEntry(entry, i - pt_offset(v), r.base, flags) ELSE @[i]]],
         next |-> next_free_entry(entry, v),
         base |-> r.base]

(* vm_alloc_block at cursor v: [m, next, base], next being the new cursor. *)
vm_alloc_block(m, v, flags) ==
    LET f == find_or_allocate_pt(m, v, flags)
    IN  FillBlock(IF f.fresh THEN prepare_block_pt(f.m, f.pt) ELSE f.m, f.pt, v, flags)

BlockOf(v) == v .. (v + BlockPages - 1)

(* Virtual page v + i is mapped to page p + i. *)
Mapped(v, p, n) == [w \in v .. (v + n - 1) |-> p + (w - v)]
Without(vs) == [w \in DOMAIN backing \ vs |-> backing[w]]

(* __prealloc_buddy_pool: pages for the bitmap, one slab; then buddy_init. *)
phys_alloc_init ==
    /\ pc = "phys_alloc_init"
    /\ LET bitmap == reserve_physmem_region(mem, 1)
           slab == vm_alloc_block(bitmap.m, cursor[Buddy], {"EARLY", "W"})
       IN  /\ Finish([slab.m EXCEPT !.free = AllocatablePages(slab.m.regions)], "idle")
           /\ cursor' = [cursor EXCEPT ![Buddy] = slab.next]
           /\ backing' = Mapped(cursor[Buddy], slab.base, BlockPages)
    /\ UNCHANGED <<blocks, past, ops>>

NewCall ==
    /\ pc = "idle"
    /\ ops < MaxOps
    /\ ops' = ops + 1

AllocBlock ==
    /\ NewCall
    /\ LET v == cursor[Slab]
           r == vm_alloc_block(mem, v, {"W"})
       IN  /\ Finish(r.m, "idle")
           /\ cursor' = [cursor EXCEPT ![Slab] = r.next]
           /\ blocks' = blocks \cup {v}
           /\ backing' = Mapped(v, r.base, BlockPages) @@ backing
    /\ UNCHANGED past

(* __free_phys_block; early pages are never given back. *)
free_phys_block(m, entry, n) ==
    IF "early" \in entry.bits THEN m ELSE phys_free(m, entry.addr, n)

Distance(a, b) == IF a > b THEN a - b ELSE b - a

SignedAddress(entry, v, next) == [addr |-> next - v, bits |-> entry.bits \ {"P", "neg"}]

SignForgotten(entry, v, next) ==
    [addr |-> Distance(next, v), bits |-> entry.bits \ {"P", "neg"}]

(* The entry of a freed block leads to the block that was at the cursor. *)
FreeEntry(entry, v, next) ==
    [addr |-> Distance(next, v),
     bits |-> (entry.bits \ {"P", "neg"}) \cup (IF next < v THEN {"neg"} ELSE {})]

(***************************************************************************)
(* vm_free_block, called with any address inside the block.  Only the      *)
(* first entry stops being present.                                        *)
(***************************************************************************)
FreeBlock(v, inside) ==
    /\ NewCall
    /\ LET addr == inside - (inside % BlockPages)
           pt == find_pt_or_null(mem, addr)
           entry == mem.tables[pt][pt_offset(addr)]
           m == free_phys_block(mem, entry, BlockPages)
       IN  /\ pt # NULL
           /\ Finish([m EXCEPT !.tables[pt][pt_offset(addr)] =
                        FreeEntry(entry, addr, cursor[Slab])], "idle")
           /\ cursor' = [cursor EXCEPT ![Slab] = addr]
    /\ blocks' = blocks \ {v}
    /\ backing' = Without(BlockOf(v))
    /\ UNCHANGED past

-----------------------------------------------------------------------------
(***************************************************************************)
(* The contiguous zone.                                                    *)
(***************************************************************************)

(* pt->entries[i] |= bits: what the entry had before stays. *)
OrBits(m, t, i, bits) == [m EXCEPT !.tables[t][i].bits = @ \cup bits]

(* The run's pages are mapped one by one, with a new table when one is full. *)
MapRun(m, pt, v, run, n, flags) ==
    LET MapOne(acc, i) ==
          LET off == pt_offset(v + i)
              m1 == OrBits(acc.m, acc.pt, off, data_alloc_flags(i, n, flags))
              m2 == map_phys_page(m1, acc.pt, off, PageAt(run, i), flags)
          IN  IF acc.m.stop # "none" THEN acc
              ELSE IF off + 1 < Radix THEN [acc EXCEPT !.m = m2]
              ELSE find_or_allocate_pt(m2, v + i + 1, flags)
    IN  FoldLeft(MapOne, [m |-> m, pt |-> pt, fresh |-> FALSE], [i \in 1 .. n |-> i - 1]).m

vmzone_extend(m, v, n, flags) ==
    LET f == find_or_allocate_pt(m, v, flags)
        r == alloc_phys_block(f.m, n, flags)
    IN  [m |-> MapRun(r.m, f.pt, v, r.base, n, flags), base |-> r.base]

Extend(n, flags) ==
    /\ NewCall
    /\ LET v == cursor[Heap]
           r == vmzone_extend(mem, v, n, flags)
       IN  /\ Finish(r.m, "idle")
           /\ cursor' = [cursor EXCEPT ![Heap] = v + n]
           /\ backing' = Mapped(v, r.base, n) @@ backing
    /\ UNCHANGED <<blocks, past>>

StaysPresent(acc, pt, lost) ==
    LET entry == acc.m.tables[pt][acc.off]
        whole == "behind" \notin entry.bits
        m2 == IF whole THEN free_phys_block(acc.m, entry, acc.count + 1) ELSE acc.m
    IN  [m |-> IF lost /\ m2.stop = "none" THEN Stop(m2, "half_shrunk") ELSE m2,
         off |-> IF acc.off = 0 THEN Radix - 1 ELSE acc.off - 1,
         count |-> IF whole THEN 0 ELSE acc.count + 1,
         edge |-> acc.edge \/ acc.off = 0,
         crossed |-> acc.edge]

(* The page at acc.off of table pt goes; with the first of a block, the block. *)
DropPage(acc, pt, lost) ==
    LET entry == acc.m.tables[pt][acc.off]
        whole == "behind" \notin entry.bits
        m1 == [acc.m EXCEPT !.tables[pt][acc.off].bits = @ \ {"P"}]
        m2 == IF whole THEN free_phys_block(m1, entry, acc.count + 1) ELSE m1
    IN  [m |-> IF lost /\ m2.stop = "none" THEN Stop(m2, "half_shrunk") ELSE m2,
         off |-> IF acc.off = 0 THEN Radix - 1 ELSE acc.off - 1,
         count |-> IF whole THEN 0 ELSE acc.count + 1,
         edge |-> acc.edge \/ acc.off = 0,
         crossed |-> acc.edge]

(***************************************************************************)
(* vmzone_shrink, page by page from the top, in the table of the last      *)
(* page: the pt found when the loop crosses into another table is a new    *)
(* variable, and the loop goes on at the end of the old table.  If there   *)
(* is no table below, the call fails with the pages already freed and the  *)
(* cursor where it was: half_shrunk.  Pages left over of a partly freed    *)
(* block are passed to phys_block_shrink as an entry instead of an         *)
(* address.                                                                *)
(***************************************************************************)
vmzone_shrink(m, v, n) ==
    LET pt == find_pt_or_null(m, v - 1)
        DropOne(acc, i) ==
          IF acc.m.stop # "none" THEN acc
          ELSE DropPage(acc, pt, acc.off = 0 /\ find_pt_or_null(m, v - 1 - i) = NULL)
        end == FoldLeft(DropOne, [m |-> m, off |-> pt_offset(v - 1), count |-> 0,
                                  edge |-> FALSE, crossed |-> FALSE],
                        [i \in 1 .. n |-> i])
    IN  [m |-> IF end.count > 0 /\ end.m.stop = "none" THEN Stop(end.m, "bad_free") ELSE end.m,
         crossed |-> end.crossed]

(* The zone's base is not looked at, only whether there is a table below the cursor. *)
Shrink(n) ==
    /\ NewCall
    /\ find_pt_or_null(mem, cursor[Heap] - 1) # NULL
    /\ LET r == vmzone_shrink(mem, cursor[Heap], n)
       IN  /\ Finish(r.m, "idle")
           /\ cursor' = IF mem'.stop = "half_shrunk" THEN cursor ELSE [cursor EXCEPT ![Heap] = @ - n]
           /\ past' = [over |-> past.over \/ cursor[Heap] - n < Heap,
                       crossed |-> past.crossed \/ r.crossed]
    /\ backing' = Without((cursor[Heap] - n) .. (cursor[Heap] - 1))
    /\ UNCHANGED blocks

(* ERR_VM_UNMAPPED at once: the heap has no page left. *)
ShrinkEmpty ==
    /\ NewCall
    /\ find_pt_or_null(mem, cursor[Heap] - 1) = NULL
    /\ UNCHANGED <<mem, cursor, blocks, backing, past, pc>>

-----------------------------------------------------------------------------
(***************************************************************************)
(* Direct mapping.                                                         *)
(***************************************************************************)

(***************************************************************************)
(* vm_space_pt_init on the current tables: the caller's page becomes the   *)
(* missing table, at whatever height it is missing.  Any error counts as   *)
(* missing: with a privilege error the table that is there is replaced.    *)
(***************************************************************************)
vm_space_pt_init(m, pt, v, flags) ==
    LET w == traverse_with_status(m, v, flags)
        linked == map_phys_page(m, w.table, height_offset(v, w.height), pt, flags)
    IN  IF w.err = "privilege" THEN Stop(m, "table_lost")
        ELSE [linked EXCEPT !.tables = (pt :> EmptyTable) @@ @]

PtInit(v, flags) ==
    /\ NewCall
    /\ traverse_with_status(mem, v, flags).err # "ok"
    /\ LET r == phys_alloc(mem, 1)
       IN  Finish(IF r.m.stop # "none" THEN r.m
                  ELSE vm_space_pt_init(r.m, r.base, v, flags), "idle")
    /\ UNCHANGED <<cursor, blocks, backing, past>>

GuardNotCounted(v, n, flags) == n <= Radix /\ v \div Radix = (v + n - 1) \div Radix

(* __check_vm_region_boundary: with the guard page, first and end in one table. *)
check_vm_region_boundary(v, n, flags) ==
    LET pages == IF "GUARD" \in flags THEN n + 1 ELSE n
    IN  pages <= Radix /\ v \div Radix = (v + pages) \div Radix

(***************************************************************************)
(* vm_map_pages for pages the caller allocated, where nothing of another   *)
(* caller is mapped; outside one table's range it is refused and changes   *)
(* nothing.  The error of the walk is not looked at: without a table the   *)
(* entries are written in the parent at which the walk stopped, and the    *)
(* call returns 0.  The tree is not one any more and the model ends there, *)
(* after the writes.                                                       *)
(***************************************************************************)
MapPages(v, n, flags) ==
    /\ NewCall
    /\ (v .. (v + n)) \cap DOMAIN backing = {}
    /\ check_vm_region_boundary(v, n, flags)
    /\ LET w == traverse_with_status(mem, v, flags)
           r == phys_alloc(mem, n)
           MapOne(m, i) == map_phys_page(m, w.table, pt_offset(v) + i, PageAt(r.base, i),
                                         IF i = n THEN flags \ {"W"} ELSE flags)
           end == IF "GUARD" \in flags THEN n + 1 ELSE n
           m == FoldLeft(MapOne, r.m, [i \in 1 .. end |-> i - 1])
       IN  /\ Finish(m, IF w.err = "ok" THEN "idle" ELSE "parent_written")
           /\ backing' = Mapped(v, r.base, n) @@ backing
    /\ UNCHANGED <<cursor, blocks, past>>

Next ==
    \/ vm_init
    \/ phys_alloc_init
    \/ AllocBlock
    \/ \E v \in blocks : \E inside \in BlockOf(v) : FreeBlock(v, inside)
    \/ \E n \in ExtendSizes, flags \in ExtendFlags : Extend(n, flags)
    \/ \E n \in ExtendSizes : Shrink(n)
    \/ ShrinkEmpty
    \/ \E v \in DirectPages, flags \in DirectFlags : PtInit(v, flags \ {"GUARD"})
    \/ \E v \in DirectPages, n \in DirectSizes, flags \in DirectFlags : MapPages(v, n, flags)

Spec == Init /\ [][Next]_vars

-----------------------------------------------------------------------------

Stops == {"out_of_memory", "image_given", "bad_free", "half_shrunk", "null_table", "table_lost",
          "parent_written", "past_table"}

Bits == SoftBits \cup {"P", "W", "U", "NX", "HUGE"}

(* Type correctness: tables are tables, and addresses are page numbers. *)
TypeOK ==
    /\ \A t \in DOMAIN mem.tables : mem.tables[t] \in [Slots -> [addr : Nat, bits : SUBSET Bits]]
    /\ mem.free \subseteq Nat
    /\ mem.allocs \subseteq [base : Nat, size : 1 .. Radix]
    /\ cursor \in [Range(Zones) -> Nat]
    /\ blocks \subseteq Nat
    /\ \A v \in DOMAIN backing : backing[v] \in Nat
    /\ pc \in {"vm_init", "phys_alloc_init", "idle"} \cup Stops

(***************************************************************************)
(* Between calls, as long as no call has gone wrong in a way that Stops    *)
(* names and no shrink has gone on past the first entry of a page table:   *)
(* one that has clears entries of other pages, and may free a page table   *)
(* or somebody's page through an entry that is out of date.                *)
(***************************************************************************)
InOrder == pc = "idle" /\ ~past.crossed

(***************************************************************************)
(* While blocks are allocated and freed, the heap extended and shrunk and  *)
(* pages mapped around it, through tables made on the way, the processor   *)
(* translates a page in use to the physical page it was given, and the top *)
(* of the address space one to one.  Excepted is what follows a call that  *)
(* Stops names, such as vm_map_pages without its table, and a shrink past  *)
(* a table's start (InOrder).                                              *)
(***************************************************************************)
MappingsKept ==
    InOrder =>
        /\ \A v \in DOMAIN backing : Translation(mem, v) = backing[v]
        /\ \A i \in 1 .. (2 * Radix) : Translation(mem, KernelVma + i * Radix - 1) = i * Radix - 1

Usable(p) == \E i \in DOMAIN mem.map : mem.map[i].start <= p /\ p < mem.map[i].end

(***************************************************************************)
(* A physical page is a page table, or behind one virtual page, or free:   *)
(* never two of these.  Pages reserved early are never free or allocated   *)
(* again, what the physical allocator gave out is a table or in use, and   *)
(* the holes of the firmware's map are never handed out.  The kernel's     *)
(* image is excepted: where the map has it in a usable region the physical *)
(* allocator counts it as free, the bootstrap's tables included, and the   *)
(* first to get a page of it ends the behaviour (image_given).             *)
(***************************************************************************)
PagesApart ==
    InOrder =>
        LET used == {backing[v] : v \in DOMAIN backing}
            taken == Taken(mem)
        IN  /\ Cardinality(used) = Cardinality(DOMAIN backing)
            /\ used \cap DOMAIN mem.tables = {}
            /\ (used \cup DOMAIN mem.tables \cup mem.early \cup taken) \cap mem.free \subseteq Image
            /\ mem.early \cap taken = {}
            /\ taken \subseteq used \cup DOMAIN mem.tables
            /\ \A p \in (mem.free \cup taken \cup mem.early) \ Image : Usable(p)

(* Pages of the zones, below the kernel's map of physical memory *)
Zoned == Min(Range(Zones)) .. (KernelVma - 1)

(* The page after a direct mapping that the processor may read and not write *)
GuardPage(v) == v - 1 \in DOMAIN backing /\ "W" \notin LeafEntry(mem, v).bits

(* vm_free_block leaves every page of a block but the first one mapped. *)
LeftByFree(v) == v \in Slab .. (Slab + Radix^2 - 1) /\ v % BlockPages # 0

(***************************************************************************)
(* The processor can reach, in the zones, only what somebody holds: a      *)
(* block that is freed, heap that is shrunk and tables made on the way     *)
(* leave nothing mapped, but for guard pages and for the pages of a freed  *)
(* block after its first.                                                  *)
(***************************************************************************)
OnlyHeldIsMapped ==
    InOrder =>
        \A v \in Zoned :
            Translation(mem, v) # NoPage =>
                v \in DOMAIN backing \/ GuardPage(v) \/ LeftByFree(v)

(***************************************************************************)
(* The first entry of a page table says, for as long as the table exists,  *)
(* how it was allocated (comment on PT_PAGE_AHEAD in mm.h), whatever is    *)
(* mapped and unmapped through that entry.                                 *)
(***************************************************************************)
TablesMarked ==
    InOrder =>
        \A t \in DOMAIN mem.tables :
            LET marks == pt_alloc_flags(mem.tables[t][0])
            IN  /\ "pt_early" \in marks <=> t \in mem.early
                /\ "pt_ahead" \in marks =>
                      "pt_behind" \in pt_alloc_flags(mem.tables[t + 1][0])
                /\ "pt_behind" \in marks =>
                      "pt_ahead" \in pt_alloc_flags(mem.tables[t - 1][0])

(* The block after v on the zone's free chain; without a table, v is the end. *)
NextBlock(v) ==
    LET pt == find_pt_or_null(mem, v)
    IN  IF pt = NULL THEN v ELSE next_free_entry(mem.tables[pt][pt_offset(v)], v)

FreeChain ==
    LET Hop(chain, k) == Append(chain, NextBlock(Last(chain)))
    IN  Range(FoldLeft(Hop, <<cursor[Slab]>>, [k \in 1 .. (ops + 4) |-> k]))

MappedBlocks ==
    {v \in Slab .. (Slab + Radix^2 - 1) : v % BlockPages = 0 /\ find_pt_or_null(mem, v) # NULL}

(***************************************************************************)
(* The chain of signed offsets from the cursor through the freed blocks,   *)
(* in whatever order they were freed and across page tables, reaches every *)
(* block that is not in use and none that is.                              *)
(***************************************************************************)
ChainExact == InOrder => FreeChain \cap MappedBlocks = MappedBlocks \ blocks

(***************************************************************************)
(* The range check of vm_map_pages keeps every entry it writes, the guard  *)
(* page's too, inside one page table.                                      *)
(***************************************************************************)
MapsInsideTable == pc # "past_table"

(***************************************************************************)
(* vm.h: "Shrink is the opposite of extend, it will free the provided      *)
(* number of pages from the contiguous zone".  A shrink that asks for no   *)
(* more than the heap has succeeds and frees what was allocated.           *)
(***************************************************************************)
ShrinkUndoesExtend == pc \in {"half_shrunk", "bad_free"} => past.over

(***************************************************************************)
(* vm.c, of vm_map_pages: it "will assume that the page tables are mapped  *)
(* and exist down to the PT level.  If not it will return an error code,   *)
(* else it will return 0."  After a return of 0 the pages are mapped.      *)
(***************************************************************************)
MapsOrFails ==
    pc \in {"idle", "parent_written"} =>
        \A v \in DOMAIN backing \cap DirectPages : Translation(mem, v) = backing[v]

=============================================================================
