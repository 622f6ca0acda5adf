# TLA+ models of the chinos kernel

chinos (`src/os`) is a small single-core ARM64 kernel: a priority scheduler
driven by a timer interrupt and by system calls, a granule allocator for
physical memory, three-level page tables, one user address space per task with
ASIDs, an ELF loader for the root task, and `brk`, `mmap` and `nanosleep`.
User programs link a vendored musl 1.2.3 (`src/app`), whose allocator, thread
synchronisation and some algorithms are modelled too.

This directory holds TLA+ modules translated from that source, TLC
configurations that check them on small instances, and TLAPS proofs.
`PROJECT.json` maps every definition to the lines it models.

## The system

| part | state | operations | what is hard about it |
|---|---|---|---|
| scheduler (`core/sched/scheduler.c`) | ready queue per priority, pending queue, two-level priority bitmap, current task, task states | attach, sleep, wake, pending check, schedule (block, unblock, detach have no caller) | the running task sits on the *pending* queue; the bitmap is stale while the last task of a queue runs |
| time (`core/sched/timer.c`, `dev/timer`) | hardware counter, `readytime` | timer interrupt, nanosleep | wrap-around, integer division, the counter moves inside a handler |
| granule allocator (`core/mm/mm_gran.c`) | allocation table, one bit per page | initialize, alloc, mark, free | search across word boundaries, heap end inside a word, uninitialised memory |
| heap report (`core/mm/mm_graninfo.c`) | none | dump | runs assembled from nibbles, bytes, half-words |
| ASIDs (`core/sched/task.c`, `core/mm/addrspace.c`) | per-task ASID, generation, bitmap, TTBR0, TLB | task switch | reuse of ASIDs while the TLB is warm; which bits of them the hardware reads |
| task ids, TCBs (`core/sched/task.c`) | id bitmap, last id | assign, release, create | exhaustion, search without wrap |
| exceptions (`arch/arm64`) | saved context, current task | IRQ, SVC, abort, return | the first interrupt comes before any context was restored; some registers are not part of it |
| interrupts (`core/irq`, `dev/interrupt`) | vector table, GIC registers | attach, enable, dispatch, end of interrupt | a handler that switches tasks |
| page tables (`arch/arm64/pagetable.c`) | three levels of tables | map | tables allocated on the way down |
| user memory (`core/mm/mmap.c`) | area list, heap bounds | brk, mmap, munmap | placement of areas, regrowing the heap |
| ELF loader (`lib/libelf`) | segment list | load, map, copy | unaligned segments, failure half-way |
| bitmaps (`lib/libutils`) | none | find, set, clear | word edges |
| boot (`arch/arm64/entry.S`, `setup.c`) | early tables | MMU set-up | order of register writes |
| musl's allocator (`malloc/mallocng`) | groups of slots, their metas, rings of active groups | malloc, free | free reads two masks and changes one without the lock that malloc holds |
| musl's synchronisation (`thread`) | one or a few words per object | lock, unlock, wait, post, signal, broadcast, once, barrier | every step is a compare-and-swap on a word others change; waiters live on stacks |
| musl's algorithms (`qsort.c`, `memmem.c`, `tsearch.c`, `tdelete.c`) | none; a tree | sort, search, insert, delete | heaps of Leonardo sizes, two-way search, stored heights |

The parts meet in a few places. An exception saves the user's context and calls
a handler; every handler that returns to user mode goes through `schedule()`,
which may call `task_switch()` and so the ASID allocator. All kernel data comes
from the granule allocator. The kernel runs with interrupts masked from the
exception to the `eret`, on one core: handlers do not interleave with each
other, only with the hardware (the counter, the MMU's table walks).

The properties that make the system correct: no task is lost or on two queues;
the highest ready priority runs; sleepers sleep long enough and wake; no memory
is handed out twice; no task sees another's translations; a task finds its
registers and its memory as it left them. The code has the last two only in part,
which the sections below say.

## Modules

**Lists, Ticks.** Queues as sequences (`uapi/list.h`); the timespec conversion
and the signed comparison of a wrapping counter.

**ListLinks** is `list.h` itself: the assignments to `next` and `prev`, one
action per operation. Guards are what its comments ask of the caller.
**ListSpec** is the same with sequences and the operators of `Lists`;
`ListsAreSequences` maps the one to the other by walking each ring. It justifies
the sequences in `Scheduler`, `UserMem` and `Elf`. The `hlist_` operations have no
user and are left out. `stale` holds nodes whose
links are left dangling (`list_splice`, `list_replace`) until they are
initialised again.

**Scheduler.** Variables have the source's names. `Init` is the state after
`sched_init`; `RootTaskCreate` attaches a user task during boot (the shipped
kernel creates one, the model any number); `EnableIrq` ends the boot.
`TimerIrq`, `Svc`, `SvcNanosleep` and `HeapFault` are the exceptions that call
`schedule()`, `FatalTrap` those that end in `PANIC()`. A pass of `schedule()` is
several steps, since the counter is read once per element of the pending queue:
`PendingCheck` is one iteration of `sched_pending_check`, `Schedule` the
selection and the switch. `Tick` advances the counter between any two steps.
`dump_queue`, names and debug output are left out. The bound check on the bitmap
index in each operation cannot fire, since `task_create` asserts the priority.

**Gran** is what the allocator promises: first fit on a set of granules.
**GranAlloc** is `mm_gran.c`: the table as words of `W` bits, `gran_alloc` as
one action per iteration of its loops, masks that cross words. It reads two
things the code never wrote, and the model leaves both open: the table at boot
(`Tables`) and the word after the table (`JunkWords`). The code's strides
16, 8, 4, 2 are the constant `Shifts`. Sizes are in granules; addresses are
granule numbers. `FirstFit` instantiates `Gran` with
`used <- marked`, the set of granules whose bit is set.

**GranInfo.** `gran_dump` as operators, at the real width of 32 bits.
`gran_byte_info` and `gran_hword_info` have one shape, `piece_info`.

**Asid.** `task_switch` in two steps, up to the write of TTBR0 and after it, so
that the MMU may fill the TLB in between. The three ways
`check_and_switch_context` finds an ASID, and the start of a new generation, are
one action each. Every task has its own thread group, as the creation code
leaves it, so the test on `tgid` always succeeds. The TLB is external: it caches
translations of the table in TTBR0 at any time, also while
the idle task runs on the previous task's TTBR0. `MSR TTBR0` and the flush are
taken to be effective where they stand.

`task_switch` shifts the ASID to the top of TTBR0 (`ttbr_tag`): an 8-bit one to
bits [63:56], a 16-bit one to [63:48]. `boot_setup_mmu` writes `TCR_EL1` without
`TCR_ASID16`, so the hardware compares bits [55:48] only (`hw_asid`). On a CPU
with 8-bit ASIDs all tasks therefore have hardware ASID 0, and nothing keeps one
from hitting another's translations (`NoForeignHit`, below); on one with 16 bits
the low 8 count. `NUM_USER_ASIDS` is a variable that `Init` sets to either.
`HW_ASIDS` stands for 2^8 and its square for 2^16. `TagsUnshared` is about the
value the code writes: no two tasks are ever cached under one. `IsolationBelow256`
is about what the hardware makes of it: with 16 bits no foreign translation is hit
while the ASIDs in use are below 256.

**PageTable** is `pt_map` with the build's three levels, in units of pages. One
turn of `pmd_map`'s loop is one action (`map_section` or `map_pages`), after one
for each table it allocates. A new table holds old data until `pt_calloc` clears
it. `pte_map` asks only whether the PMD entry is zero; writing through a section
is the flag `wild`. **PageMap** is what it promises, a function from pages to
frames; `MapsAsAsked` maps the tables to it by the MMU's walk (`translate`).

**UserMem.** One task's heap and areas: `sys_brk` split by whether it maps,
`sys_mmap` down to `as_map`, page faults, and a TLB that fills and drops entries
at any time. The page table is the abstract map, the allocator a counter, since
nothing here frees. What ends in an assertion, a NULL block or `PANIC` sets
`stop`. Lengths and hints near 2^64, where `PAGE_ALIGN` wraps, are left out.
`as_map` sets the same bits for no protection at all as for reading and writing, so
an entry records whether a page is writable and executable; every page is readable.

**Trap.** From the vector to the `eret`: `store_context`, the GIC's acknowledge
and end of interrupt, `irq_dispatch`, `svc_handler`, `restore_current_context`,
and the order of set-up in `init_kernel`. `want` is what each task is entitled
to find in the registers of its context. The kernel saves no others:
V0-V31, FPCR and FPSR, which `CONFIG_ARCH_FPU` lets programs use, and `TPIDR_EL0`, musl's
thread pointer, are in no context; `unsaved` says which task last wrote them. The frames of `init_kernel`, over
which the first interrupt stores a context, are left out: `idle`, called last, never
returns to them. The scheduler's choice is left open. After reset the
GIC and the timer hold anything. Devices may withdraw an interrupt at any time.

**Elf.** `elf_initialize`. Byte `k` of a file is the number `k + 1`, so that
`mem` tells which byte the program sees at each address. The header checks are
one verdict. A file has a data segment above its code, as the application's
linker script makes it; without one the code leaves `start_brk` 0.

**Bitmap.** The loops of `bitmap_set`, `bitmap_clear` and the searches, a word
being the set of its one bits.

**Library** makes one call of a sequential function per behaviour and compares
its result with a definition of what it should be: the tick arithmetic
(`Ticks`), `Bitmap`, `GranInfo`, and three algorithms of musl. **Smoothsort** is
`qsort.c` with two words of heap orders, of `WORD_BITS` bits each, **Memmem** is
`memmem.c` with the words that needles of two to four bytes are compared in and
two-way search for longer ones, **Tsearch** is `tsearch.c` and `tdelete.c` on trees that
store heights. A tree is the result of all the calls made on it so far, so there
the order of calls is explored.

**Malloc** is mallocng under several threads. A group is a meta with two sets of
slots, available and freed; rings are sequences. `malloc` and the slow path of
`free` hold the lock; the fast path of `free` adds to the freed set by a
compare-and-swap without it, after it has read both sets one after the other. So the
locked code is split at each of its reads of the freed set and each of its stores to
either: `activate_group` takes slots out of the one in one step and puts them
into the other in the next, and `try_avail` takes the first in a third. Groups may live in a slot of a larger class or in pages of their own;
metas and mappings may run out at every level. Sizes, usage counts and bounces
only influence which choice is made; the model makes every choice.

**MuslHeap** composes the two: the `brk` and `mmap` calls of `alloc_meta` and
`alloc_group`, answered by the actions of `UserMem`.

**Futex** is what musl's synchronisation is built from: threads with a label and
locals, words of memory, `__wait` and `__timedwait`. One step is one access
to shared memory or one system call. The system call is external: it sleeps only
if the word has the given value, it may return at any time, and a wait with a
deadline may time out. `EINTR` ends `sem_timedwait` with an error; the other
callers wait again. On it stand **LockWord** (`__lock.c`), **Sem**, **RwLock**,
**Once** (with cancellation in `init`), **Barrier** and **CondVar** (normal mutexes and
private condition variables, with deadlines). Nodes and instances on a thread's
stack are words named after the thread, so that a use after return shows.
**Threads** lets threads call them: a scenario gives the object and each thread's
calls.

## Runs

| run | what it checks | instance |
|---|---|---|
| `scheduler` | queues, bitmap, preemption, no early resume; every sleeper wakes, round robin | three tasks, two of equal priority, one below them in another row of the bitmap |
| `gran_first_fit` | table matches blocks, search exact, no assertion fails, refinement of `Gran` with termination | 18 granules, words of 8 bits, strides 4 and 2 |
| `asid_isolation` | no TTBR0 value under which another task's translations are cached; isolation with 16-bit ASIDs below 256 | five tasks, `HW_ASIDS` 4, so ASIDs 1 to 3 or 1 to 15; four generations |
| `page_tables` | refinement of `PageMap`, no shared table, no write into a section | seven kernel areas in any order, or overlapping user areas shorter than a section; tables of four entries |
| `user_memory` | heap and areas mapped and apart, no granule mapped twice, no page in use mapped anew, stale TLB entries harmless | aligned break that rises and falls, areas without hints, three protections, among them none |
| `traps` | registers kept, interrupts attached and ended, the timer interrupts for ever | two user tasks and idle |
| `elf_loader` | image visible, break behind it, descriptors freed | files of one to three headers, sizes around a page |
| `list_links` | rings closed, queue order, refinement of `ListSpec` | two heads, three entries, every order of calls |
| `malloc` | every slot in one place, no assertion fails, free slots reachable | two threads, two classes, up to three groups |
| `threads` | mutual exclusion, counts, once, barrier rounds, no dead stack word used, every call returns | three threads on one object; one to four scenarios per kind of object |
| `library` | results equal their definitions; trees balanced and ordered | counter of 32 values; all maps of three words of three bits; two-word heaps; arrays up to 19; words of four bits for the heaps' orders; needles up to 6 in haystacks up to 11 over two bytes; trees of up to nine keys |
| `musl_heap` | *violation:* an area the kernel places is free | the first allocations of mallocng |

Bounds. Two rows of priorities use both levels of the bitmap, two tasks on one
priority keep and empty a queue, and the clock bound leaves room for sleeps that
overlap. For the allocator, three words with two granules in the last give runs
inside a word, across words and at the heap's end, and a request above the limit.
Five tasks on three ASIDs exhaust a generation
and leave stale tasks whose index is free and whose index is taken. On fifteen they use
two that the hardware takes for others, but never begin a new generation; that
case is left to the proof. The page
table's areas start and end inside sections, contain whole ones and cross PMD and
PGD entries, and there are fewer granules than tables needed. Seven granules let
the heap shrink and grow over old pages and then run out. Words of three bits
have bits beyond the size that differ from the size itself. The words of the heap
report have runs that end at and next to each nibble, byte and half-word
boundary. Arrays of 16 and 19 elements have heaps of 15 and several trailing ones, with
orders in both words of four bits;
needles of five and six bytes take the two-way search, periodic and not.

`malloc` has two bounds: three metas, where a nested group of three slots is freed
into without the lock while its ring is used, and two metas, where a mapped group
is active only in part. Both run out. In `threads`, `SPINS` is 1 and numbers such as
`INT_MIN` and the writer's count are small but still beyond the number of
threads. The scenarios are: three threads on a `__lock`; a semaphore of 0 or 2
with waiters, posts and a deadline; readers and writers, with a deadline on
either; a once control with and without a cancelled thread; two rounds of a
barrier; two consumers of a condition variable with a broadcast under the mutex, or
with two signals after it and a deadline.

Fairness. `scheduler` assumes that the counter advances, that handlers run to
their end (nothing can preempt them), and that a timer interrupt comes again
after each (`timer_handler` rearms the timer before it calls `schedule()`).
Nothing is assumed of system calls. `gran_first_fit` and `page_tables`
assume that a call goes on executing. `traps` assumes that kernel code runs on,
that an armed timer fires, and that the processor takes a pending
interrupt in the end although a program makes one system call after another
(strong fairness: each call ends with interrupts enabled). `threads` assumes that
each thread that can take a step does so in the end, and that a deadline passes;
early returns of futex waits are possible but not assumed, so a lost wake-up
would show as a call that never returns.

Runs without a deadlock check describe calls that end: a loader, a library call,
a system that has stopped on an assertion or has made all its mappings.

## Where the code disagrees with itself

`musl_heap` is a run of its own. mallocng's first allocation maps a guard page with
`MAP_FIXED` at the start of the heap. The kernel's `find_free_vma` places the next
area directly below the most recent one (`mmap.c:95`), which is now the guard
page: the new area lies below `start_brk`, over the program's own pages. The
comment at the call (`mmap.c:167`) says that a suitable area is looked for.

The other disagreements are stated as properties that no run lists; each fails
when it is added to the configuration named.

| property | configuration | what the code does |
|---|---|---|
| `RunningTaskIsMarked` | `MCScheduler.cfg` | `task.h:20` says READYTORUN is "But not running"; a current task that is alone on its queue keeps running in that state |
| `RequestIsCovered` | `MCLibrary.cfg` | `TICKS_PER_NS` is 0 at 62.5 MHz, so `tv_nsec` is ignored |
| `LastEntryShiftsInOnes` | `MCGranAlloc.cfg` | what `mm_gran.c:217` calls all ones is read one word past the table; `gran_first_fit` shows that this word decides nothing |
| `AsidKeptInGeneration` | `MCAsid.cfg` | an index carried over into a new generation is not stored (`task.c:96`), so the task takes a second ASID at its next switch; `TagsUnshared` holds nevertheless |
| `NoForeignHit` | `MCAsid.cfg` | TTBR0 gets the ASID where the hardware does not read it (`task.c:205`, `setup.c:173`): a task may hit another's translations with 8-bit ASIDs always, with 16-bit ones from the 256th on |
| `MappingsAligned` | `UserMem.cfg`, `Breaks = {2, 3, 4}` | `sys_brk` keeps an unaligned break and passes it to `pt_map` at the next growth (`mmap.c:55`), whose assertion then fails (`pagetable.c:447`) |
| `AreaAccessAsAsked` | `UserMem.cfg` | `as_map` makes a mapping without `PROT_READ` writable (`addrspace.c:154`), that of mallocng's guard page (`malloc.c:72`) too; `sys_dumpvma` lists it without access |
| `MemoryKept` | `UserMem.cfg`, `INT_MAX_1 = 8`, `Breaks = {2, 4, 14}` | the growth of the heap is an `int` (`mmap.c:50`) |
| `SpIsTcbContext` | `Trap.cfg` | the first interrupt is taken on the stack of `init_kernel` (`vector.S:21`) and stored over its frames; nothing returns to them, which the model takes for granted |
| `AllRegistersKept` | `Trap.cfg` | V0-V31, FPCR, FPSR and `TPIDR_EL0` are not saved: with a second user task each finds the other's. `init_kernel` creates one user task |
| `ImageInPlace` | `MCElf.cfg`, `Files <- MCUnalignedFiles` | `copy_segment` ignores the segment's offset in its block (`elf_loader.c:267`); the application is linked so that it is 0 |

Three more have no line of the repository to hold them against. A heap that shrinks
and grows replaces live page-table entries without a TLB flush, so the TLB may be
out of date; `StaleTlbIsPrivate` says what that can reach. `as_map` makes the stack
executable (`init.c:237` passes `PF_R|PF_W`, and `PF_R` is `PROT_EXEC`). And `pntz`
(`qsort.c:37`) returns the number of bits of a word for a low word of 1, whatever
the high word is, since `a_ctz_64(0)` is 64: heaps whose orders are more than that apart
are not found. At 64 bits that takes an array of over 10^13 elements; with
`WORD_BITS = 3` in `MCLibrary.cfg` the sort leaves its tables.

## Proofs

`SchedulerProofs` proves, for every set of tasks, assignment of priorities, set
of requests and clock bound, the invariants of `scheduler`:
`TypeCorrect`, `QueuesSafe`, `BitmapSafe`, `PriorityPreemption`, `OneRunner`,
`SleepRespected`. All follow from one inductive invariant, `IInv`
(`Invariance`). The properties alone are not inductive. `StateMatchesQueue` and
`AwakeIsDue` say why the loop of `sched_pending_check` re-attaches a running task
and leaves a sleeper: the readytime of a task that is not asleep has passed.
`PassedOverIsAsleep` carries that through the loop, so at the selection the
pending queue holds sleepers only and every other task is on a ready queue.
Hence a priority bit without a task can only be that of the task just chosen,
and the bitmap's lowest bit is the best ready priority. `IdleNeverSleeps` makes
that queue non-empty. The steps are one lemma per action; facts about sequences
(append, delete), the bitmap's rows and columns and the tick comparison are
lemmas of their own. `TypeCorrect` and `OneRunner` are proved only; the run leaves
them out.

`SleepEndsOnTime` is `DueIsElapsed` of the run `library` for any counter, request and
elapsed time: the signed difference is right across any number of wraps as long as the
two times are less than half the counter's range apart.

Assumptions: `SchedulerAssumption` (the number of priorities is a multiple of 8
up to 64, the idle task is not a user task, the clock stays in half the range of
the counter) and `TicksAssumption`.

`ListLinksProofs` proves `RingsClosed` for any number of heads and entries
(`RingsStayClosed`). The invariant `WellLinked(L, S)` says that the links outside
a set `S` are inverse and never enter `S`. Each operation takes a node out of the
well-linked part (`DelTakesOut`, `AloneIsOut`, `SpliceTakesOut`) and puts one in
(`AddKeeps`, `InitKeeps`, `PoisonKeeps`, `ReplaceSwaps`), which makes the
intermediate states of compound operations provable. It assumes that heads,
entries and the poison value differ. The guard of `list_splice` says that the two
heads are not neighbours on one ring; that they never are is not proved.

`GranAllocProofs` proves for any heap, width of the table's entries, strides,
requests, table contents at boot and word after the table what `gran_first_fit`
checks on one: `HeapPartitioned`, `SearchIsExact`, `NoAssertFails`, and
`ImplementsGran`, the refinement of `Gran` without its fairness. `base(i)` is the
granule of bit 0 of entry `i`; `Place` and `EntriesCover` say that granules and
(entry, bit) pairs correspond, `MaskIsRun` that the masks of `gran_mark_allocated` and
`gran_free` are the run they stand for, across an entry's end too. `SearchExact` is
not inductive: a shift brings bits of `next` into `curr`. `UpcomingExact` says that
those that will be shifted in are the following entry's, and the proof that junk
past the table never matters is that they stand for no granule of the heap.
`Passed` carries the runs already ruled out from entry to entry.
Assumption: `GranAssumption` (positive width and heap, strides below the width).

`AsidProofs` proves `TagsUnshared` (`TagsStayUnshared`) and `IsolationBelow256`
(`IsolatedBelow256`) for any number of tasks, ASIDs and generations, on CPUs with 8 and
with 16 bits. `HeldSafe` says that two tasks with an ASID of the current
generation have different ones, marked in the bitmap; `SeenSafe` that what the TLB
holds under the tag of an ASID belongs to the one task that holds it, if any does.
While a flush is pending (`seen`) only the table in TTBR0 counts, since the old entries
go before the incoming task runs. `TagsDiffer` says that different ASIDs have different
tags, so the second theorem follows from the first where the tag is all the hardware
reads. `AsidAssumption` asks for at least two values of the hardware's field,
of which 0 is reserved.

`UserMemProofs` proves that no granule is mapped at two pages and that a
translation left in the TLB leads to a granule that nothing else maps
(`GranulesPrivate`), for any arguments of `brk` and `mmap`, aligned or not, with any
hints below the stack: the disagreements above do not reach that far. The step is that everything
mapped or cached was handed out before (`HandedOut`) and new mappings use granules
that were not.

`LockWordProofs`, `RwLockProofs` and `OnceProofs` prove `Excludes`, `LockCongestion` and
`OnceRunsOnce` for any number of threads that call the object over and over, with early
returns of futex waits, deadlines for the read-write lock and cancellation for once. Each relates the word to the threads by a count
(`CountOK`: the threads inside; the readers, or the writer's mark) or by the place
each thread is at (`ThreadOK`), and says what a thread may remember of an older value
of the word, since its compare-and-swap succeeds when the word has come back to
it. `LockWordAssumption` and `RwLockAssumption` say that the flag and the writer's
mark are beyond any count of threads, as 2^31 is.

Only model-checked: liveness and fairness, the refinements of `PageMap` and
`ListSpec`, page tables, the placement of areas and that they are kept, traps, the loader,
mallocng, semaphores, barriers, condition variables, and the functions of
`Library`. Liveness is outside the prover's reach, as is induction over data such
as what `gran_dump` or `qsort` computes for any input.

## Not modelled

- Kernel: `sched_block`, `sched_unblock` and `sched_detach`, which have no caller;
  task ids, of which two are ever assigned; the address arithmetic of
  `gran_initialize`; the identity map and the early page tables; console, UART and
  board set-up, formatting and `libc`'s memory and string functions; the one-time
  register programming of the boot. Generations of ASIDs wrap at
  2^(32 - asid_bits) in the code; the model stops before that.
- Composition: `Scheduler` leaves `task_switch` to `Asid`, which takes the tasks in
  any order and so covers every order the scheduler chooses. `UserMem` has one task;
  tasks share nothing but the granule allocator, and `Gran` never hands out a granule
  twice.
- mallocng: `realloc`, `aligned_alloc`, `donate`, the offsets and checks inside a
  slot.
- Threads: process-shared objects, recursive, error-checking, robust and
  priority-inheriting mutexes, cancellation other than in `pthread_once`,
  initialisation and destruction, thread creation and exit. The kernel has no
  `clone` and answers `futex` with `-ENOSYS`; the models show what the library does
  where the call works, and where it returns at once.
- The rest of musl, nearly nine tenths of the lines under `src/`: formatting, mathematics, locales,
  character sets, time zones, networking, regular expressions, dynamic linking,
  wrappers of system calls. It is sequential code over bytes and floating-point
  numbers, or code behind services this kernel does not have; there is no state
  machine in it to model, and a restatement of a function by itself would show
  nothing. The models therefore cover a few per cent of the lines of `src/`, but half
  of the lines of the kernel's files they treat.
