# LearningOS: TLA+ models of the kernel

LearningOS is a small x86-64 kernel.  Its core is the management of physical and
virtual memory: a buddy allocator for blocks of pages, a lock-free list of single
pages, slab caches for objects, page tables and zones of virtual memory on top of
them; around it are interrupt dispatch and a text console with formatted output.
This directory holds TLA+ models of these parts, TLC configurations that check them
on small instances, and TLAPS proofs.

## The system

| component | state | operations | used by |
|---|---|---|---|
| buddy allocator (`mm/buddy_alloc.c`) | a free list per order, one bit per pair of buddies, two byte counters | init, alloc, free, shrink | physical allocator |
| bitmap (`mm/bitmap.c`) | bits | get, set, toggle | buddy allocator |
| slab cache (`mm/slab.c`) | three lists of slabs, chain of free cells per slab, counters | init, reserve, prealloc, alloc, free | buddy allocator (list entries), kmalloc |
| general page allocator (`mm/page_alloc.c`) | head of a list threaded through the page map | alloc, free, lock free | nobody yet |
| page map (`mm/page.c`) | flags and reference count per page | init, reference, drop, set and unset flags | general page allocator |
| boot memory map (`mm/boot_mmap.c`) | regions and how much of each is reserved | load, reserve, is_block_usable | buddy allocator, early allocation |
| physical allocator (`mm/phys_alloc.c`) | the one buddy allocator | alloc, free, shrink of any page count, expansion of the entry pool | page tables |
| kmalloc (`mm/kmalloc.c`) | slab caches by size, size map | kmalloc, kfree | printk |
| page tables and zones (`mm/vm.c`, `mm/vmzone.c`, `mm.c`) | page tables, a cursor per zone | map, extend, shrink, block alloc and free, translate | slab cache, physical allocator |
| interrupts (`cpu/isr.c`, `cpu/idt.c`, `driver/pic.c`) | handler table, masks of the two controllers | install, register, dispatch, acknowledge | drivers |
| console (`driver/vga.c`) | text memory, two cursor registers behind one port | put, move, scroll | everything that prints, interrupts too |
| formatted output (`log.c`, `utility/strings.c`) | a buffer per conversion | parse, convert, justify | everything that prints |

The components call each other directly.  Two cycles matter: the buddy allocator
takes its list entries from a slab cache, a slab cache that runs out takes a block
of virtual memory, and that takes pages from the buddy allocator; and the general
pages and the buddy region are two owners of one physical memory.

What is hard here:

- *long histories*: the buddy bitmap is only right if every split, merge and
  shrink before kept it right; a wrong bit shows many calls later;
- *interleavings*: the general page list is changed by compare-and-swap from any
  processor;
- *edges*: the end of memory and holes in it, `MAX_ORDER`, block sizes that are
  not powers of two, empty lists, counters below zero;
- *re-entry*: an allocator called from inside itself to grow its own pool;
- *meaning packed into bits*: a page table entry is a mapping, a link of a free
  chain, a mark of the table it is in and a mark of the page behind it, at once;
- *interrupts at any instruction*: between unmasking a line and returning, inside a
  handler (exceptions), between the two halves of the cursor.

`PROJECT.json` lists the hazards with the lines where they bite.

## Modules

| module | what it is |
|---|---|
| `BuddyAllocator` | the buddy allocator, its bitmap and the usability test of the boot memory map |
| `PagePool` | what a page allocator promises: pages are free or in use, never both |
| `ListLemmas` | lemmas on lists without repetition, as sequences and followed pointer by pointer; the least-number principle |
| `BuddyProofs` | inductive invariant of `BuddyAllocator`, its type, ownership of blocks |
| `BuddyRefinement` | `BuddyAllocator` implements `PagePool`; alignment and usability of blocks; its counters |
| `PageAllocProofs`, `SlabProofs`, `PhysProofs`, `InterruptsProofs` | inductive invariants and theorems about the module of that name |
| `TextProofs` | the same for `Console` and `Printk` together |
| `PageAlloc` | the lock-free page list and the reference counts |
| `SlabCache` | one slab cache |
| `PhysAlloc` | allocations of any size over buddy blocks, and the growth of the entry pool |
| `BootMemory` | the firmware's regions, early reservations, the range of the buddy allocator |
| `VirtualMemory` | page tables and zones, on top of `BootMemory` |
| `Interrupts` | set-up, registration and dispatch, with the two controllers |
| `Console` | the cursor and the window |
| `Kmalloc` | which cache serves a size |
| `Printk` | number conversions in a buffer of `Kmalloc` |
| `MCBuddy`, `MCPageAlloc`, `MCPools`, `MCPhysAlloc`, `MCVm`, `MCInterrupts`, `MCText` | instances for TLC; `MCPools` is `PageAlloc` and `SlabCache` side by side |

Each module takes the ones below it at the level its caller sees.  `BuddyAllocator`
has lists and bits; `PhysAlloc` has the same allocator as sets of blocks, so that
the recursion above it can be explored; `VirtualMemory` has the physical allocator
as a set of free pages.  What the lower module can do wrong is not repeated in the
upper one: there it is a call that ends the behaviour.

Operators whose name says what they get wrong (`UnlinkForgotten`, `MaxOf`,
`SwapUnconditional`, ...) are faulty variants of the definition that follows
them.  They are not part of any specification; `PROJECT.json` says which property
notices which of them.

### BuddyAllocator

A block is a page offset and an order.  `freelists` holds a sequence of offsets
per order, in the order of the linked lists; `bitmap` holds the pair bits;
`freeSpace` and `allocated` are the byte counters in pages, wrapping like `size_t`
(at `AccountMod`, so that a small modulus keeps the state space finite);
`entries` is `freelist_cache.allocated_objects`.  `held` are the blocks the
callers own, which the code does not record.

The loops of the code are one step per iteration, with `pc` naming the loop:
`populate` (`__populate_initial_freelists`), `split` (`__find_or_split_block`),
`merge` (the coalescing loop of `buddy_free_block`), `shrink`
(`buddy_shrink_block`).  `cur` is the block the loop has in hand, `arg` its target
order or page count, `order` the order the call was given, `bmpIndex` the local
variable that the last toggle of `buddy_free_block` reads.  A call starts in
`idle`; the code takes no lock and does not nest calls, so there is one `pc`.

Three outcomes of the code are undefined afterwards and end the behaviour:
`out_of_bounds_address` (nothing left to allocate), `null_entry` (a merge with a
block that is not on a list) and `base_addr_overwritten` (a merge of two blocks
of `MAX_ORDER`).  Deadlock is therefore not checked.

Callers free and shrink only blocks they own, with a page count between 1 and the
block's size, as `phys_alloc.c` does.

### PageAlloc

One step per access to shared memory: reading the head, reading or writing a
`next_free` pointer, a `lock cmpxchg`.  `seen`, `link` and `page` are the local
variables of a processor.  `Init` is the list that `__init_general_pages` builds,
for any position of the DMA zone and the kernel.  `refs` records which processor
has a reference on which page; a processor that has one may take another and hand
it over (`reference_page`), and drops only its own.

`_pfa_free_page` has no caller in the repository; its header says that dropping the
last reference calls it.  `role.frees = FALSE` is the code as it is wired: a page whose
last reference is dropped is lost, which is what the run `page_alloc_leak` shows.  With
`role.frees = TRUE` the one who dropped it goes on to `_pfa_free_page`, so that this
function is checked too.  `role.allocators` are the processors that allocate.  A
processor that dereferences a NULL head stops in `null_head`.  The `PAGE_BUDDY` branch of
`drop_page_reference` is left out: nothing sets that flag.

### SlabCache

The cache and its slabs are one record; `unlink_slab`, `link_slab`, `slab_init`
and so on are operators from such a record to the next, composed in the order of
the code, with the doubly linked lists kept as `prev` and `next` pointers because
an unlink through the wrong head is what could go wrong.  A call is one step.
`objs_per_slab` is at least 2: with 1 `__slab_init` writes through an
uninitialized pointer, and no cache of the kernel is like that.  `vm_alloc_block`
is a supply of `MaxSlabs` new slabs: the cache that `__slab_create` re-enters through the
buddy allocator is `freelist_cache` alone, and `PhysAlloc` ends the behaviour there.

### PhysAlloc

`free` are the free blocks, one freelist entry each; `supply` is the number of
objects of `freelist_cache`, so `supply - Cardinality(free)` is
`total_free_objects`.  `phys_block_shrink` is one step per order (`work` holds its
local variables); `buddy_alloc_block`, `buddy_shrink_block` and
`buddy_free_block` are operators on sets of blocks, and a freed block merges to any
order its free buddies allow, since `buddy_null` shows that the bitmap does not
always say the truth.  A request for more than a block of `MAX_ORDER` gets NULL and
changes nothing; it is not among the calls.

`__freespace_check` is the point of the module.  It runs at the end of every call;
when the reserve is low it calls `vm_alloc_block`, which calls `phys_alloc`, which
checks again.  `stack` holds the `vm_alloc_block` calls that wait, each for its two
pages or for the page of a missing page table.  The cursor moves before the pages
are asked for but after a table was, as in `vm.c`, so that a nested expansion can
link the table the outer one is about to link: `table_replaced`.

### BootMemory and VirtualMemory

`BootMemory` is operators only: the list of regions and what a reservation makes of
it.  `VirtualMemory` starts with the tables `init_pt.asm` builds and runs
`vm_init` and `phys_alloc_init` before any other call.

The whole of memory is one record: page tables by physical page, free pages,
allocations, regions.  The memory map is one of `MemoryMaps`, with the kernel's image in
a hole or, as `kernel.ld` links it, inside a usable region.  `phys_alloc` takes the
lowest free run at every call or the highest at every call (`pick`).  Each function of `vm.c` is an operator from such a record to
the next, so that a call is composed in the order of the code: `find_or_allocate_pt`
makes tables from the top, `map_phys_page` keeps the kernel's own bits,
`vmzone_shrink` goes down page by page in the table it found first, as the code does
by shadowing `pt`.  An entry is an address field and a set of bits, and the address
field of a free block is the distance to the next one.  `backing` remembers to which
physical page each virtual page was mapped when it was handed out.  `Translation` is
the processor's own walk from the table in cr3, which the properties use.

What the code does next is undefined in these cases, which end the behaviour:
`bad_free` (a free or a shrink of something that was not allocated),
`half_shrunk` (an error return in the middle of a shrink), `null_table` (a privilege
error makes `__find_or_allocate_pt` return NULL), `table_lost` and
`parent_written` (the ignored errors of `vm_space_pt_init` and `vm_map_pages`, the
latter after its writes), `image_given` (a page of the kernel's image was handed out),
`past_table`, `out_of_memory`.

`VMZONE_KERNEL_STACK` is left out: it is set up like the other block zones and has no
user.  So is the branch of `vmspace_init` that maps the last 2GB when nobody has.
`virt_to_phys` has no caller and is left out.  So is the processor's cache of
translations: `vm_map_pages` flushes what it writes in the same call and nothing else
flushes at all, so a model of it would only restate these calls.

### Interrupts

`isr_install` is six steps in the code's order, `register_irq_handler` three: the
entry in the table, the read of the mask and its write.  `stack` holds the frames of
interrupts and exceptions, each with the step of `root_isr_handler` it is at and the
interrupt flag it will restore.  The 8259 pair is external: requests, masks, fixed
priorities, the cascade, an end of interrupt that clears the bit of highest priority,
and spurious interrupts of the last line.  `Eoi` passes on the number as
`root_isr_handler` computes it, so the second controller never gets one.

An exception's handler is looked up and never called (`isr.c:179` to `185`); that is
what `DispatchException` does.  Lines the controllers do not have and NULL handlers,
which `register_irq_handler` would accept, are not among the calls.

### Console, Kmalloc, Printk

A `kputchar` is a list of accesses: select a register, read or write it, write a
cell, scroll.  An interrupt that prints may come between any two.  `terminal` is what
a terminal would show of the kernel's characters, and `followed` says that nothing
has happened yet after which the console is known to differ: a character printed by
an interrupt inside a call, or a character other than a newline after the last cell
was filled.  Before a tab the code reads the cursor into a variable it does not use;
those accesses are left out.

A conversion is its flags, width, precision, length and letter as written; a value is
its sign and number of digits; the text is a sequence of signs, zeros, spaces and
digits.  `format` keeps what was written, which is what `Formatted` and
`ThreeDigitsKept` compare the text with; `parse_specifier` is what the code makes of it.
After a number of three digits the code skips a character: the dot, so that a digit of
the precision is taken for the letter and nothing is printed; the first character of the
length; or the letter, so that the next character of the format, any letter or none, is
the conversion (`LettersRead`).  A following `s` or length is not told apart from other
text.  `h` is read as `l`.  `step = "wild"` is a write through an
uninitialized pointer or with a negative length.  `Numbers` are the widths and
precisions tried, below 1000.  `Kmalloc` gives the size of the buffer's cell; index 255
of its map, one past the array, is taken to be padding.

## Runs

| run | states | what it shows |
|---|---|---|
| `buddy` | 535,680 | `TypeOK`, `Exclusive`, `WellPlaced`, `EntriesLinked`, `AccountsFollowBlocks`, `ImplementsPool`, `CallsEnd` hold |
| `buddy_null` | - | `CoalesceFindsEntry` fails: a merge finds no entry |
| `pools` | 453,443 | `TypeOK`, `OneOwner`, `CountsReferences`, `LeavesByLastDropOnly`, `AllocEnds` hold of the page list in the safe roles; `SlabTypeOK`, `ListsSound`, `ChainsExact`, `PartialFirst` of the slab cache |
| `page_alloc_aba` | - | `OneOwner` fails when two processors allocate and free |
| `page_alloc_leak` | - | `NothingLost` fails: the last reference to a page is dropped |
| `phys_alloc` | 211,888 | `TypeOK`, `Partition`, `ReserveSuffices`, `SlabsCounted`, `CallEnds` hold |
| `virtual_memory` | 113,590 | `TypeOK`, `MappingsKept`, `PagesApart`, `OnlyHeldIsMapped`, `TablesMarked`, `ChainExact`, `MapsInsideTable` hold |
| `heap_shrink` | - | `ShrinkUndoesExtend` fails: the heap is extended and shrunk by one page |
| `map_unmapped` | - | `MapsOrFails` fails: pages are mapped where there is no page table |
| `interrupts` | 755,156 | `TypeOK`, `TakenWhenReady`, `HandlerFound`, `ServiceMatchesStack`, `OneIrqAtATime`, `RaisedIsServed` hold |
| `text` | 2,455,517 | `TypeOK`, `ShowsText`, `BufferFits`, `Formatted`, `NewlineRecovers` hold |
| `printk_digits` | - | `ThreeDigitsKept` fails: a width or a precision of three digits |

Some properties name the cases in which the code is known to fail, and show that
there are no others: `AccountsFollowBlocks` (a shrink), `ReserveSuffices` (a shrink to a
positive size may need more entries than the reserve), `PagesApart` (pages of the kernel's
image, which are free to the physical allocator where the image is inside a usable
region), `OnlyHeldIsMapped` (guard pages, and the pages of a freed block after its
first), `BufferFits` (`%#llo` of 22 digits, `%#01x`, `%#u` with zeros), `Formatted`
(numbers of three digits, a signed 0 with a precision and no sign, the length `h`),
`RaisedIsServed` (lines of the second controller), `ShowsText` (see `followed` above).
Each of these cases is reached in its run.

The invariants of `VirtualMemory` are claimed while no shrink has gone on past the first entry of a page table (`InOrder`): after one has, an entry that
is out of date may be passed to `phys_free`.  Such a shrink is reached in the run; a
page in use that becomes free by it takes many more calls than the run makes.

Bounds.  *buddy*: `MAX_ORDER = 2` and 8 pages are two neighbouring blocks of the
largest order, so that a split and a merge go over two levels, the upper end of
the orders is met, and two largest blocks can be merged by mistake; the memory
maps are a whole region, one with a one-page hole (blocks of every order at
start-up, buddies that are not usable) and two touching regions (a block may not
straddle them).  `AccountMod = 4` hides from TLC a change by a whole block of
`MAX_ORDER`; the theorem `AccountsKept` is for every width.
*pools*: three pages (one below the DMA zone, one after the kernel, the
first of the buddy region) and two processors; an ABA needs two pages and two
processors, a race for the last page needs two; and three slabs, so that a
slab in the middle of a list is unlinked, and two cells each.  The two share no state
and are explored one with the other at rest.
*phys_alloc*: `MAX_ORDER = 4`, because a shrink needs more entries than the reserve
only from there on; sizes of one page, of two blocks and of all orders; a reserve
that starts three above the threshold, slabs of four entries and one block per page
table, so that expansions nest and need tables within four calls.
*virtual_memory*: tables of four entries, so that blocks, heap and direct mappings
reach the end of a table and need new ones in a few calls; three regions with two
holes, the kernel's image in a hole or in the middle region; one, two or four pages
mapped directly, the last a whole table; five calls are enough to fill two tables and to
free blocks out of order.  *interrupts*: three lines per
controller (one above and one below the cascade), two sets of masks left by the
firmware, three raised lines, one exception.  *text*: a window of two rows and three
columns with registers of two bits, so that the position needs both; five characters
fill it, tabs wrap it; one interrupting character.  The widths and precisions are at
the edges of the size classes of kmalloc, of the longest numbers, of 100 and of 256;
values have one digit, the most there can be, or a number of them in `DigitCounts`.
The console and the conversions share no state (`vprintk` prints through any `putc`)
and are explored one with the other at rest.

Fairness.  `BuddyAllocator` assumes that a call that has started keeps running
(weak fairness of the running loop): nothing else has the processor.  `PageAlloc`
assumes weak fairness of each processor's running call; callers may stop calling.
`AllocEnds` is claimed only while pages do not come back: with frees a processor
can lose every race.  `PhysAlloc` assumes the same of the call on the processor,
through all its nested ones.  `Interrupts` assumes that the processor runs on: it
takes an interrupt it is not keeping off, finishes handlers, the installation and a
registration it has begun.  No device has to raise a line and nobody has to make a
call.  The others need none.

## Proofs

TLAPS checks all of them.  Every invariant and action property that a passing run
checks of `BuddyAllocator`, `PageAlloc`, `SlabCache`, `PhysAlloc`, `Interrupts`, `Console` and
`Printk` is proved:

| module | theorem | states |
|---|---|---|
| `BuddyProofs` | `TypeCorrect`, `ExclusiveOwnership` | `TypeOK`, `Exclusive` |
| `BuddyRefinement` | `PoolImplemented`, `BlocksWellPlaced`, `NoEntryLeaks`, `AccountsKept` | `ImplementsPool`, `WellPlaced`, `EntriesLinked`, `AccountsFollowBlocks` |
| `PageAllocProofs` | `TypeCorrect`, `PagesHaveOneOwner`, `CountsAreExact`, `PagesLeaveByLastDrop` | `TypeOK`, `OneOwner`, `CountsReferences`, `LeavesByLastDropOnly` |
| `SlabProofs` | `TypeCorrect`, `SlabsStayListed`, `CellsStayChained`, `PartialSlabsFirst` | `SlabTypeOK`, `ListsSound`, `ChainsExact`, `PartialFirst` |
| `PhysProofs` | `TypeCorrect`, `PagesPartitioned`, `SlabsAddedOnce`, `ReserveCovers` | `TypeOK`, `Partition`, `SlabsCounted`, `ReserveSuffices` |
| `InterruptsProofs` | `TypeCorrect`, `InterruptsTakenWhenReady`, `InterruptsHandled`, `EoiClearsItsOwn`, `HandlersNotReentered` | `TypeOK`, `TakenWhenReady`, `HandlerFound`, `ServiceMatchesStack`, `OneIrqAtATime` |
| `TextProofs` | `TextTypes`, `TextIsShown`, `NewlinesRecover`, `ConversionsFit`, `ConversionsFormatted` | `TypeOK`, `ShowsText`, `NewlineRecovers`, `BufferFits`, `Formatted` |

Where an argument needs induction (along a chain of pointers, over the orders of a
block) it takes the least counterexample instead: `LeastElement` of `ListLemmas`.

**BuddyAllocator**, for every `MAX_ORDER`, number of pages, memory map and counter
width.  `Exclusive` holds in spite of the findings: what the wrong bits cause is a
merge that finds no entry, never a page with two owners.  It is not inductive:
`IndInv` adds `Progress`.  While the lists are filled the callers have nothing and
every listed block lies below the cursor, whose distance into its block of
`MAX_ORDER` leaves room for the orders still to try; a split has not reached its
target order; a shrink keeps between one page and the block in hand.  Without the
first part a block could be listed over another at start-up; without the last the
shrink would go below order 0.  The argument is about sets of blocks.  `PopHead`,
`PopEntry` and `PushEntry` lift the lemmas on lists to the set of free blocks;
`Moved`, `Cut` and `Joined` are the three things a step does to the owners: hand a
block over, cut the block in hand in two, join it with a free one.  The refinement
and the counters follow from the same moves: as no two blocks overlap, a block that
changes hands takes exactly its own pages along and counts for its size.
`WellPlaced` needs that the filling cursor is aligned for the order it tries and
that buddies are the two halves of an aligned block.

**PageAlloc**, for any number of processors, pages and roles.  `TypeOK` holds
without a condition.  The others are proved of `Spec /\ SafeRole`: no page comes
back, which is how the code is wired, or one processor allocates.  In the other
roles they are false (`page_alloc_aba`).  `IInv` adds what the loops rely on between
two steps: no page is on the list twice; the successor an allocation has read is still
the successor of the page it has seen, and where pages come back that page is still on
the list; who counts the first reference of a page or frees it is
alone with it.

**SlabCache**, for any number of slabs and of objects in a slab.  A call goes through
states that break the invariant: a slab is taken off one list and put on the next,
and a free slab sits on the partial list before its first object is taken.  So
`SInv` is stated of a cache value, its parts are followed through the helpers of the
code (`unlink_slab`, `link_slab`, `slab_init`, `TakeCell`), and `PlacedBut` says
where the slab in transit is.

**PhysAlloc**, for every `MAX_ORDER`, amount of memory, set of sizes and depth of the
nested expansions.  `CountInv`: the pool has every slab of the zone except those of
frames that wait for their pages, and a frame that waits for a table has the block
at the cursor unless the table is there already, which is why the two ways of moving
the cursor agree.  `PageInv`: the free blocks tile the free pages and are aligned,
every allocation starts at a multiple of the block it was cut from, and in the
middle of `phys_block_shrink` the pages from the target to the end of the remaining
orders (`Transit`) belong to nobody else.  `Partition` alone says nothing of those
states.  The blocks that a cut frees are shown to be the steps of the function that
maps `i` to `cut % 2^i`; those a merge takes up are followed from each ancestor to
the next.  `ReserveInv` is why `MAX_ORDER + 1` entries suffice although one allocation
may use up `MAX_ORDER` of them and the check that follows allocates again, without a
bound on the depth: what stays at or above the threshold in the middle of a call is the
number of free entries *plus the number of orders that have a free block*.  An
allocation that splits uses an entry for each order that had no block and has one
afterwards; a nested one, which asks for a whole block, therefore never lowers the sum;
a free that merges gives back an entry for each order it empties.  A shrink to a
positive size leaves pieces of an order twice, and is excepted.

**Interrupts**, for any number of lines and exceptions and any masks left by the
firmware.  `IInv` says what the installation has done by each of its steps, that
interrupts are enabled exactly in the kernel's own code, that an interrupt of the
controllers is the outermost frame, and that every line that is open, in the
register or in the value a registration is about to write, has a handler.

**Console**, for every size of the window and of the cursor registers, every printing
interrupt and any number of them between two accesses.  `ConsoleInv` says what each
access of the call under way has still to do: which half of the cursor has been read or
written, and that the window and the cursor are those of the terminal up to the
accesses that are left (`TextInv`); `NewlineInv` follows a newline from any cursor to a
cursor inside the window.  The proof found the assumption that the register of a half
must hold more than the height of the window (`VGA_HEIGHT + 1 < Byte`, 26 < 256 in the
code): with less, a newline after the last cell would wrap to the first row.

**Printk**, for every width, precision, number of digits and size class of kmalloc.
`PrintkInv` says what the buffer holds after each stage of a conversion and how many
cells it takes (`Staged`), so that each case in which the text does not fit is one of
those that `BufferFits` names.  That the layout is the one the *format* asks for, and not
only the one of the specification that was parsed, is proved for numbers of at most two
digits, which parsing leaves as they are.

Assumptions.  Constants are naturals of the obvious ranges.  `BuddyAssumption` and
`PhysAllocAssumption` have `Size(0) = 1` and `Size(k+1) = 2 * Size(k)` for the orders
in use, facts of arithmetic about `2^k` that the provers do not know and TLC evaluates
on the instances.  `RefcountAssumption`: twice the number of processors is less than
the range of the 16-bit count, which a processor with one reference and one drop under
way cannot exceed.  `SlabAssumption`: at least two objects in a slab (see above).

Only model-checked:

- liveness (`CallsEnd`, `AllocEnds`, `CallEnds`, `RaisedIsServed`), which these provers
  do not do;
- `VirtualMemory`: its invariants hang together.  That a cursor is a page number needs
  the chain of free blocks, that the chain is not written over needs that every table
  has one parent, that no table is freed needs the runs of the heap, and all of it that
  no zone runs into the next, for which the code has no check.  Its calls are composed
  with folds over sequences of pages, which take an operator as their parameter and
  which the provers cannot unfold.

## Findings

1. `buddy_alloc.c:242`: freeing a right buddy next to a hole or the end of memory
   leaves a wrong bit; a later free merges with an allocated block's missing
   entry and writes through NULL (`buddy_null`).
2. `page_alloc.c:71`: ABA on the list head (`page_alloc_aba`).
3. `page.c:107`: a general page whose last reference is dropped is returned to nobody,
   although `page_alloc.h:23` says that it is freed there (`page_alloc_leak`).
4. `vm.c:446`: one extension of the heap by a page and one shrink by a page at the start
   of a page table: the page is freed, the call fails and the cursor stays, although
   `vm.h:63` calls shrink "the opposite of extend" (`heap_shrink`).
5. `vm.c:254`: `vm_map_pages` without a page table overwrites the parent's entries and
   returns 0, where the comment above it promises an error code (`map_unmapped`).
6. `log.c:49`: a number of three digits swallows the next character and is cut to a byte,
   where the comment says that only digits after the third are chopped off
   (`printk_digits`).

## Also seen while modelling

These have no run of their own, most of them because no document of the repository says
otherwise, but a reader of the code should know of them; the models contain them unless
it says not.

- `buddy_alloc.c:330`: a shrink over-counts the freed bytes: of 4 pages to 3 it adds
  three pages to `free_space_bytes`.  `test_buddy.c:72` asserts the counter, but the test
  of the shrink does not call that check.
- `page_alloc.c:39`: the page list runs one page into the buddy region, against the
  description at `page.h:33`.
- `slab.c:167`: the slab counters drift from the lists when a slab becomes empty, and when
  one is preallocated; `test_slab.c:78` compares them.
- `vm.c:406`: a zone that is used up goes on into the next one.
- `vm.c:348`: the rest of a block is shrunk at an address with flags in it.
- `vm.c:574`: only the first page of a freed block is unmapped; neither this nor a shrink
  flushes the processor's cache of translations (not modelled).
- `vm.c:297`: a privilege error is taken for a missing table.
- `vm.c:529`: the last page of a block is marked as having one ahead.
- `mm.c:38`: `virt_to_phys` starts at physical address 0x1000; `mm.c:74`: for a page
  that is not huge it returns a kernel address.  Nobody calls it (not modelled).
- `boot_mmap.c:94`: a region that starts inside the kernel image is moved to the start
  of the image, and one that contains it, as with the address in `kernel.ld`, is not
  changed: the allocators hand out the kernel (`image_given`).
- `isr.c:178`: the second controller never gets an end of interrupt.  `isr.c:179`:
  handlers of exceptions are not called.
- `vga.c:115`: after the last cell is filled the cursor stays past the window.
- `log.c:110`: `h` is read as `l`; `log.c:141`: 0 with a precision gets a zero too many;
  `log.c:168`, `log.c:173`, `log.c:195`: see `BufferFits`.
- `kmalloc.c:29`: the last index of the size map is past the array.

## Not modelled, and what is left

What is left are the proofs about `VirtualMemory`.

No module uses RECURSIVE.

Left out: `init_global_page_map`, whose marks nothing acts on, and the two functions on
page flags, which have no caller; `%s`, colours, `show_cursor` and `hide_cursor`, which
nothing else depends on; copying and comparing of bytes in `strings.c`; the search of
the boot tags (`bootinfo.c`), which changes nothing; `msr.asm`; the assembly of the
bootloader other than its page tables; the registers `isr_defs.asm` saves; the size
estimate of the buddy pools, which only decides how much memory `buddy_init` is
given; the routing of `kfree`, which reads back the cache id that `__slab_init` wrote.
