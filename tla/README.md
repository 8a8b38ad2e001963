# SydOS in TLA+

SydOS is a small kernel for i386 and x86_64 PCs: spin locks, a heap, page
tables, a round-robin scheduler, interrupt handlers, SMP start-up and a set of
drivers, in C and NASM. This directory models the parts of it where the order
of steps matters, checks the models with TLC on small instances and proves with
TLAPS, for instances of any size, the safety properties that the runs check: of
the locks, the heap, the scheduler, the start of the processors, page frames
and the device window, the receive path of the network, the floppy driver and
the file system on it, and the UHCI driver with the enumeration of its devices.
Paths below are relative to `src/src/`. Every definition that stands for code is listed with its lines in
`PROJECT.json` ("map").

## 1. The system

`kernel_main` (main.c) starts everything on one processor, in a fixed order:
console, GDT, frames, page tables, heap, ACPI and interrupts, timer, PS/2, the
other processors, tasking. `tasking_init` turns that processor into the first
thread, which waits for the other processors and goes on in `kernel_late`: ACPI
handlers, floppy, PCI (whose drivers are the network cards, AHCI/ATA and USB
controllers), clock and network. From then on the actors are

* the threads of processor 0 (main thread, a worker per network device, ACPI
  workers, the clock's thread), which the timer switches between,
* the interrupt handlers of processor 0, which interrupt any of them while the
  interrupt flag is on,
* the other processors, each with an idle thread and the timer's interrupt,
* the devices.

They share memory directly. Two mechanisms protect it: spin locks (heap, frame
stacks, device window, thread lists, packet queues), and the flag
`TaskingEnabled`, which only stops the timer from switching threads.

| component | state | operations | talks to | what makes it correct |
|---|---|---|---|---|
| spin locks, interrupt flag (arch/*/kernel/lock.asm, kernel/interrupts/interrupts.c) | lock bit, saved flag, EFLAGS.IF | lock, release, enable, disable | everything | exclusion; a holder is not interrupted; the caller's interrupt flag comes back |
| heap (kernel/memory/kheap.c) | headers, footers, 9 bins, heap size | alloc, free, realloc, init | page tables; all callers | chunks tile the heap; blocks are disjoint; each hole is on the list of its size |
| frames (kernel/memory/pmm.c) | two stacks, their counts, DMA bitmap | pop, pop below 4 GB, push, DMA | page tables, threads | a frame has one owner |
| page tables (kernel/memory/paging.c, arch/*/kernel/memory) | mappings, device window | map, unmap, device_alloc, device_free | frames; drivers, ACPI | ranges handed out are disjoint and stay mapped |
| tasking (kernel/multitasking/tasking.c) | ring of threads per processor, process lists | create, schedule, kill, tick | heap, frames, timer | ring intact; no thread lost; only live threads run; each runs again |
| interrupt dispatch (kernel/interrupts/irqs.c, idt.c, irqs.asm) | handler list per IRQ | install, remove, dispatch | drivers | every installed handler is called |
| SMP start-up (kernel/interrupts/smp.c, ap_boot.asm) | processor list, stacks, Started | INIT, STARTUP, wait | LAPIC, tasking | one processor on the boot stack; the barrier holds |
| network receive path (kernel/networking/networking.c, driver/nics/realtek/rtl8139.c) | card's ring, read pointer, packet queue | receive interrupt, queue, process | PCI, tasking, heap | whole packets, in order, each freed once |
| ACPI OS layer (kernel/acpi/acpcia_os.c) | SCI handler, mappings, worker threads | map, unmap, execute, locks (stubs) | tasking, page tables, ACPICA | as those two, from handlers too |
| floppy, FAT (driver/storage/floppy, driver/fs/fat) | IRQ flag, DMA buffer, motor; cluster chain | seek, read, retry; read file | DMA, IRQ6, heap | an interrupt answers its own command; the bytes returned were read |
| UHCI, OHCI, USB devices (driver/usb) | descriptor pools, queues, addresses | control/interrupt transfers, reset, enumerate | PCI, frames, tasking | a transfer ends with its own status; descriptors and addresses come back |
| PS/2 (driver/ps2, libs/keyboard.c) | last key, response byte, modifiers | command, IRQ1, IRQ12 | main loop | responses and keys are not confused |
| ATA, AHCI, storage, GPT | device list | polled commands | PCI, page tables | sequential |
| timers, PCI, LAPIC, IOAPIC, PIC, GDT, exceptions, system calls, console, boot | registers, tables | | | sequential start-up |
| ACPICA (`src/acpica`) | | | | third-party code |

What is hard to test in it is listed, line by line, under "hazards" in
`PROJECT.json`: handlers that touch what they interrupted, lists edited under a
flag, values saved in a place that is shared again too early, counters and
bins that go stale, start-up orders that only time enforces.

## 2. Modules

| module | models | how state and actions correspond |
|---|---|---|
| `Interrupts` | processors, interrupt flag, handlers; the instructions both lock builds are made of | `intr` is EFLAGS.IF, `bit` and `istate` are the two words of a `lock_t`, `reg` the register with the saved flag, `held` what each context has locked; `EnterIrq`/`LeaveIrq` are gate and `iret` |
| `SpinLock_i386`, `SpinLock_x86_64` | the two `lock.asm` | one action per instruction that touches the lock or the flag, in each file's order |
| `KHeap` | `kheap.c` on i386 | `heap` holds headers and footers at byte offsets and the nine lists; one action per call, since each holds `kheap_lock` throughout |
| `Tasking`, `TaskingHandlers` | processor 0's ring | one action per assignment of `tasking_thread_schedule_proc` and `tasking_kill_thread`; `Tick` is the timer. `taken` is memory of freed `thread_t` objects that handlers have been given (`HandlerAllocates`, `WorkerFrees`), `wild` that a tick has followed a link that was written over. The second module adds the SCI handler |
| `DeviceWindow` | `pmm_pop_frame`, `paging_device_alloc/free` | one action per lock, page test, page mapping; the two stacks as indices, the window as a function from pages to frames |
| `NetReceive` | RTL8139 receive, queue, worker | card, handler and worker steps; memory in units of the ring's alignment |
| `Allocator` | what a memory manager promises: disjoint ranges inside an extent that may grow | implemented by `KHeap` and `DeviceWindow` |
| `RoundRobin` | what a scheduler promises: a queue of turns, entered at the front, left at one's own turn | implemented by `Tasking` |
| `Fifo` | what a queue promises: each item once, in order | implemented by `NetReceive` |
| `SmpBoot` | `smp_init`, `smp_ap_main`, `ap_boot.asm`, `tasking_init`, `tasking_init_ap`, `kernel_main_thread`, `kernel_idle_thread` | `bsp` and `ap` are where each processor is; `Started`, `TaskingEnabled`, `taskingEnabled` as in the code; `kernelProcess` and `CurrentThread` say whether the pointers are set |
| `Floppy` | `floppy.c` and the 82077AA | `pc` is where the driver's thread is, `cmd` the command it sent last; each command is three actions: it is sent, waited for (`Wait`) and answered (`...Done`). `Interrupt` is the controller with `floppy_callback`; `dma` says which track the one DMA buffer holds, `head` where the drive's head is. `lost` remembers that a wait has timed out: nobody looks at that, and from then on every answer may be anything |
| `Fat12` | `fat_init`, `fat_entry_read_fat12`, on top of `Floppy` | `fs` is the read that `fat_init` waits for, `table` the part of the FAT it knows; one action per read, each beginning the next |
| `UsbUhci` | `usb_uhci.c` and the controller | the three pool maps, frame list and queue heads as in the code, the descriptors of a queue as a sequence with `element` a position in it; `Control` builds a queue, then one action per access to what the controller shares (`Add` to `Return`). `Execute` and `Advance` are the controller's two steps on a descriptor |
| `UsbDevice` | `usb_device.c`, `usb_hub.c`, `usb_keyboard.c`, the root ports of `usb_uhci_init`, on top of `UsbUhci` | `stack` holds the nested calls of `usb_device_create`, each at a stage, a port and an attempt; `answers` is the address a device really listens at, `Address` the one the driver takes it to have |
| `SpinLock_proofs`, `KHeap_proofs`, `Tasking_proofs`, `SmpBoot_proofs`, `DeviceWindow_proofs`, `NetReceive_proofs`, `Floppy_proofs`, `UsbDevice_proofs` | the theorems about the module they are named for; `SpinLock_proofs` is about both locks, `Floppy_proofs` also about `Fat12`, and `UsbDevice_proofs` about `UsbUhci` | |

`Fat12` EXTENDS `Floppy`, whose requests it makes, and `UsbDevice` EXTENDS
`UsbUhci`, whose control transfers carry its requests. Otherwise the modules
build on each other by assumption rather than by INSTANCE: the
exclusion checked and proved for the lock is why a call of the heap, a critical
section of the packet queue or of the window is one action; the fairness of
`Tasking` (`EveryThreadRuns`) is why `NetReceive` gives its worker weak
fairness, as long as no tick has gone astray after a thread's death (run tasking).

## 3. Runs

Passing runs:

* **lock_i386** - two processors, a thread and a handler on each, `kheap_lock`
  with `pagingLock` inside it, interrupts turned on and off between calls.
  Two processors give every race on a lock, two locks the nesting the kernel
  has (none is deeper). Liveness (`LeafLockReleased`) assumes that a context
  inside the lock functions or a critical section goes on and that a handler
  returns; nothing is assumed about who wins a `lock bts`.
* **kheap** - calls of 12, 300 and 4000 bytes (below the smallest bin's limit,
  in the middle, and what the self-test of `kheap_init` asks for), 4 blocks, 7
  calls. Splits, all three merges, reallocation and growth of the wilderness
  occur. `Init` is the heap after the self-test, computed from the same
  operators.
* **tasking** - the main thread and three thread objects, so a thread with two
  neighbours is linked and unlinked and memory is used again after a death; main
  schedules workers and a worker one more (`MaxDepth`), which is what the code
  does. Fairness: the timer keeps interrupting, and the thread that has
  begun an edit goes on when it runs. No thread is assumed ever to return.

  A thread that returns frees its own object (tasking.c:130), turns tasking on
  (134) and loops; the next tick saves its stack pointer in that object and follows its
  `SchedNext` (358-359). Line 129 says that "The scheduler will move away from
  it at the next cycle". Interrupts are on until then, and the receive handler of a network card
  allocates on the same processor (rtl8139.c:80, networking.c:72): it may be
  given the object and write a packet over the link. The code does nothing
  against it, so the model lets it happen: a freed object may become `taken`
  at any time, and a tick from a thread whose object is taken either still finds
  the link or goes astray (`wild`), after which nothing more is said and the
  model ends. That is why deadlock is not checked. What the properties show is
  that this is the only exposure. `SwitchesToLiveThreads`: every other tick goes
  to a thread whose object is alive, a tick goes astray only from a dead thread
  whose object was taken, and no edit writes to an object that is free.
  `EveryThreadRuns` holds unless a tick went astray. The contents of the
  handler's packet, into which such a tick writes the stack pointer, are not
  modelled.
* **device_window** - two contexts, one frame on each stack, two devices and a
  window of three pages, requests of one page: frames and window both run out.
  Deadlock is allowed, as the panic stops the system.
* **net_receive** - a ring of seven units, packets of two or three, five of
  them: the ring wraps at its end and inside a packet, and is full when packets
  arrive. Fairness: the interrupt is delivered while the card asserts it,
  handler and worker go on. Deadlock is allowed, as the five packets end.

* **smp_boot** - a boot processor and three others, so that one is being started
  while one sets itself up and one waits in `tasking_init_ap`. Fairness: every
  processor executes its code and a STARTUP reaches its processor. The code
  has no order between a processor's `tasking_init_ap` and the boot
  processor's `tasking_init` but the two seconds the former takes to calibrate
  its timer; the model has no clock, and takes a processor that comes too early
  out of the system (`UseNullProcess`), as it works on a process at NULL.
  `BootCompletes` is therefore conditional on that, the two invariants are not.
  The lists of interrupt handlers, to which processors append here without a
  lock, are left out. Deadlock is allowed, as the model ends in `kernel_late`.
* **fat_floppy** - disks of two tracks, so that seeks go both ways, and two
  tries of each command, so that a retry and its end both occur. Three disks:
  a file over both tracks and both heads, a chain that leaves the first sector
  of the FAT, a chain that ends before its file. `MCGarbage` is what an
  uninitialized block number may be: a sector of the disk and one beyond it.
  Fairness is assumed of the driver alone, whose waits time out by themselves;
  the controller may never answer. `FileInOrder` says nothing of clusters
  beyond the first sector of the FAT (above 340), since `floppy_storage_read`
  reads one sector whatever it is asked for and the rest of the table is never
  read. Its premise, no timed-out wait and no failed track, is the most that
  can be said of this driver: after a timeout it takes the answer to one
  command for that to another, and a track that failed is copied from all the
  same. Deadlock is allowed: a machine without the drive or after a fault rests.
* **usb** - a hub with a keyboard behind it and a second keyboard on the other
  root port: three addresses, a nested creation and one that follows. The pools
  hold exactly what these need (five descriptors, three queues, four blocks), so
  any that were not given back would be missed at once. Any packet may stall,
  twice in a row too (`PortTries`, `StatusTries` 2), and four frames with an
  interval of 2 tell the frames of a keyboard from the others. Fairness: the
  processor goes on, the controller follows its schedule, and a packet of the
  transfer that is waited for is at some time done or fails - the code has no
  timeout, so a device that is never ready would hold the boot up for ever.
  `Interval` is taken to be 2 at least (`DeviceAssumption`): with 1 the
  keyboard's queue replaces the main queue in every frame, and with 0 the loop
  over the frames does not end; nothing in the code excludes either. A transfer
  that stalls clears the pointer to its status and not the status, so the
  caller goes on with what it had; where that leads to a descriptor that was
  never read the model stops (`"undefined"`), as it does when a pool is empty
  (`"panic"`). The part of `AddressesAgree` about who listens where holds only
  until the first failure: after it two devices may share address 0, and the
  address of a device that was given up is never free again (`AddressPool` may
  hold more than the devices have, which the property allows). Deadlock is
  allowed, as enumeration ends; the threads that poll the keyboards afterwards
  are not modelled.

Runs that show where the code differs from what it says of itself (each has an
entry under "findings"):

* **lock_x86_64** - `spinlock_release` clears the lock before it reads the
  saved flag: another processor's flag is restored. The i386 build reads first,
  and passes the same property. Deadlock is not checked here: this lock also
  stops a processor whose handler wants a lock that was taken just before the
  `cli`.
* **kheap_fat** - blocks of 7168 bytes (the FAT12 root directory) let the
  wilderness grow past its bin; `kheap_free` then looks for it on the wrong
  list and leaves on it a chunk that is not a hole. The passing run stays below
  a page per request, where the top-up of one page keeps pace
  (`WildernessReserve`).
* **tasking_sci** - `AcpiOsExecute` in the SCI handler links a thread while the
  interrupted thread does: one of them is lost. The passing run has no such
  handler.
* **device_ranges** - a request for two pages counts one free page twice. The
  passing run asks for one page at a time, which is also what most drivers do.

Bounds, by name: `MaxLive`, `MaxCalls` (KHeap), `Threads`, `MaxDepth` (Tasking),
`Contexts`, `Window`, `Counts` (DeviceWindow), `Ring`, `Lengths`, `MaxPackets`
(NetReceive), `CPUs`, `Locks` (locks),
`procCount` (SmpBoot), `NumTracks`, `RetryCount`, `Disks`, `Garbage` (Floppy,
Fat12), `TDCount`, `QHCount`, `BlockCount`, `FrameCount`, `HubPorts`,
`MaxDevices`, `MaxPackets`, `StringRequests`, `PortTries`, `StatusTries` (USB). Every property of a passing run has a
mutant in its module, a plausible bug of the code that breaks it.

## 4. Proofs

Each module of proofs is laid out alike: lemmas about the operators, the parts of
an inductive invariant, a lemma per action (or per action and part) that the
invariant is kept, and the theorems that follow from it. Every safety property of
a passing run is stated by one of them, with its type invariant, and so are all
four refinements.

`SpinLock_proofs` proves of the i386 lock, for any set of processors and locks and any
nesting order (`RankAssumption`): `TypeCorrect`, `Exclusion`, `NotInterrupted`,
`FlagRestored`.

None of the three safety properties is inductive. Exclusion needs that a held
lock's bit is set (`HeldBits`); that a thread in a critical section is never
interrupted needs to know when the flag is on, and that depends on what the
release loads from the lock, so on every earlier store to it. `IInv` says what
the saved word of each held lock (`SavedFlags`), the register (`Registers`),
the flag (`Flags`) and an interrupted thread (`Interrupted`) are at each
instruction: only the outermost release of a thread that had interrupts on
turns them on. The step proof takes the actions one by one and, below each,
the conjuncts it can disturb. The x86_64 lock fails exactly at `SavedFlags`:
its release reads the word after the bit is clear. Exclusion does not depend on
the flag, so `HeldBits` carries it for that lock too (`ExclusionX64`); the other
two properties are false of it.

`KHeap_proofs` proves all that kheap checks, for any number of calls, any number
of blocks and any set of sizes that fit a page together with their overhead
(`SmallRequests`): `TypeCorrect`, `ChunksTile`, `NoneLostNoneTwice`,
`HolesListed`, `ReserveHolds`, `OnlyHolesListed` (that nothing but holes is on
a list, which is also part of `HolesInTheirBins`, and is what kheap_fat refutes
for larger requests) and the refinement `IsAllocator`. The assumption is what the code needs: `kheap_alloc` tops the last chunk up by one page after each
call, and the run kheap_fat shows what larger requests lead to. `Tiled` and the
rest speak of all chunks at once, of which a call changes three; the invariant
`Kept` has the same content in a form that each of `kheap.c`'s helpers keeps or
breaks in one known place. `Tiles` says, without a walk, that each chunk ends
where the next header or the end of the heap is, that its footer leads back to
it, and that nothing starts inside it. `Lists` says that the nine lists hold the holes,
each once and on the list of its size; inside `kheap_free` that is true of all
holes but the one that is growing. The last chunk of the heap, the wilderness,
changes its size where it is; that it stays on the list of its size follows from
`Reserve`, by which its list is always the last one. `Reserve` is also why
`kheap_alloc` always finds a chunk. `Held` relates chunks in use and
callers' pointers. The lemmas are one per helper (`kheap_add_node`, `kheap_remove_node`,
the split, the two merges, the top-up), and what a call keeps is put together
from them.

`Tasking_proofs` proves, for any finite set of threads and any depth of
scheduling (`ThreadsAssumption`), `TypeCorrect`, `OnlyLiveThreads`, `NoneLost`,
`ListStaysIntact` and the refinement `TakesTurns`. `ListIntact` and `NoThreadLost` speak of the walk along
`SchedNext`, which an edit changes everywhere at once, so the invariant does not
walk: `Circle` says that `SchedNext` keeps within the threads of the ring and
that no part of the ring but the whole is closed under it. Linking a thread adds
it to every closed part that reaches it, unlinking one takes it out, and a
thread whose successor is itself would be a closed part without the main
thread, which is why `tasking_kill_thread` never unlinks a thread from itself.
While an edit is under way one `SchedPrev` is wrong; `Edits` says which.
None of this speaks of the dead thread's object but for the link that the
current thread follows, so handlers that take such objects keep the invariant
(`Still`). That a tick goes astray only after a death is read off it: a thread
whose object is taken is not allocated, so not on the ring, and it is current
with ticks enabled only at the end of `tasking_kill_thread`. `WritesLive` takes
the edits one by one: what each writes to is on the ring or about to be. Last,
`RingWalked` shows that the walk meets the whole ring: of as many steps as there
are threads, two come to the same one, and what lies before is closed. The
induction it needs is the lemma `Induction`, where a set of numbers takes the
place of the predicate that the library's theorems have; the proofs about other
recursive functions use the same lemma. For `TakesTurns`, the order of turns is
the sequence that `SchedNext` gives from the current thread on. A sequence that
follows the links until they come back is the only one (`OneOrder`), so that what
an edit does to it is seen by naming the new sequence and showing that it follows
the new links: linking puts a thread in front, unlinking the current one leaves
the turns behind it as they are, and a tick moves the current thread to their
end.

`SmpBoot_proofs` proves, for any number of processors (at least two,
`ProcCountAssumption`), `TypeCorrect`, `OneOnBootStack` and `BarrierHolds`.
`BootCodeUsedByOne` needs to know that a processor in the boot code is the one
the boot processor waits for; `StartedInTurn` says so by the order of the
list: those before `currentProc` have been started and have left, those behind
it are off. `TicksFindTheirThread` needs `EnabledOnThread`: a processor raises
its flag only when it runs its thread, and the loop of `kernel_main_thread` has
seen the flags of all it has counted. The three step lemmas have one step per
action.

`Floppy_proofs` proves, for any number of tracks and of tries and any list of
sectors (`FloppyAssumption`), `TypeCorrect` and `ReadsTheSectors` of `Floppy`'s
own specification, in which a caller asks for whatever it likes. That a read
returned what it was asked for depends on everything before it: `Copied` (the
copies so far are right) needs `Buffered` (the buffer holds the track that
`lastTrack` says), which needs that the answer the driver reads is the answer to
its own command (`Pairing`: without a timeout, the controller is idle and no
interrupt is noted except in a wait) and that the track read is that of the next
sector (`Requested`). `SectorPlace` is the arithmetic: a sector's offset in the
buffer of its track is its offset on the disk.

The same module goes on to the file system, for any disks and any garbage
(`FatAssumption`). `UsesTheDriver` shows that `FSpec` implies `Spec`: each step
of `Fat12` is one of the driver, a request for sectors, or none of the driver's
business. For that every block number made from a chain must be one of a sector,
whatever the table holds (`BlockNumbers`). What is proved of `Floppy` then holds of
the composition, and `FatTypeCorrect` and `ReadsTheFile` follow with one more
invariant (`Reading`: a file is read by the block list of its chain in the table
that `fat_init` knows). The chain is followed by a recursive function; that it is
defined, and that two tables that agree on the clusters it meets give the same
chain (`WholeChain`), is shown by induction on its length.

`DeviceWindow_proofs` proves `TypeCorrect`, `FramesOnce`, `PagesStay` and the
refinement `IsAllocator` for any
set of contexts, any stacks of frames (each frame pushed once, no device among
them: `FramesAssumption`) and a window of any size. A frame leaves its stack in
two steps, the address first and the stack pointer next; `Popping` says that the
one who is between them holds `pagingLock`, `Owners` that a frame is on a stack,
or with one context, or in one range. `PagesStay` assumes that every request is
for one page (`Counts = {1}`); the run device_ranges shows that it is false
without. Its argument is that a page that a search has found stays free until it
is mapped: pages are mapped under the lock that the search holds, and
`paging_device_free`, which takes no lock, only makes pages free. `IsAllocator`,
under the same assumption, maps the ranges that have been handed out to the
blocks of `Allocator`: the step that maps a range's last page hands it out, and
it is disjoint from the others because each of its pages was free.

`UsbDevice_proofs` proves `TypeCorrect`, `PoolsSafe` and `AddressesSafe` for
pools of any size (with at least one descriptor and one queue), any tree of devices with one device
in a port, and any failures on the bus (the assumptions of `UsbUhci` and
`UsbDevice`). There are two invariants.

The first is about pools and schedule. `usb_uhci_control_transfer` gives
descriptors and queue back before it unlinks the queue, so the controller may
come to a queue that is free. `Links` says which queues it can come to: the main
one, those of interrupt transfers, and the one in progress, a set that is closed
under the links. `Progress` says that a queue that was given back and is still
linked has nothing left to execute, and `Pools` that no two queues share a
descriptor or a block, without which the controller could finish one queue by
executing another.

The second (`JInv`) is about the enumeration. The calls on the stack are for
devices plugged into each other, each at the port that its caller is at
(`Calls`), and what has been created is in a port that its hub is past
(`Children`), so no device is created twice and no address given out twice
(`Addressing`). Who
listens where is the harder part: SET_ADDRESS changes the device when its last
packet has been executed, and the driver learns of it some steps later, so in
between device and driver disagree. `Asking` and `Transfers` say what the request
in progress is and how far the controller is with it, `Hearing` that, as long as
nothing has gone wrong, only the device that was reset last answers at address 0,
and every other one that listens does so at the address the driver has for it; `Locals` is about
the status on the caller's stack. What has gone wrong includes that no address
was left (`troubled`): a device that is given up then keeps answering at 0.

`NetReceive_proofs` proves all that net_receive checks but the two liveness
properties, for a ring of any size, packets of any lengths that are shorter than
the ring, and any number of them (`RingAssumption`): `TypeCorrect`,
`WholePackets`, `QueueOwns` and the refinement `DeliversInOrder`. `Queue` says
that the packets `taken + 1` to `copied` are on the list, each linked to the
next; `Layout`, that the packets behind them lie one after the other from
`CurrentRxPointer` to CBR without reaching a whole ring further, and that the
limit of the handler is where one of them begins. Where a packet begins is a
function of its number whose existence is the invariant, so that the positions
need not be computed; they are counted on beyond the end of the ring, which turns
the wrap of the pointer into a shift of the function (`AdvanceStep`) and the
card's test for room into an inequality (`Fits`). `QueueIs` and `UnqueuedIs`
show by induction what the recursive functions of the properties are: the
numbers `taken + 1` to `copied`, and `copied + 1` to `accepted`. What the
refinement maps to the items of `Fifo` is therefore the sequence of the numbers
from `taken + 1` to `accepted`, to which `Arrive` appends, from which `Take`
takes the first, and which no other step changes.

Only model-checked: the liveness properties (`LeafLockReleased`,
`EveryThreadRuns`, `SearchEnds`, `QueuedIsFreed`, `InterruptEmptiesRing`,
`BootCompletes`, `CommandEnds`, `EnumerationEnds`), as liveness under fairness is
out of TLAPS's reach; and the four runs that end in a violation, about the
x86_64 lock, large requests to the heap, the SCI handler and ranges of several
pages.

## 5. Not modelled

Contents of memory, formatting and logging; page-table levels, PAE and
translation buffers; user processes and system calls; transmission of packets
beyond the test packet; and the components marked `not_modelled` in
`PROJECT.json`, each with its reason. Processors are named by their index, and
the firmware is taken to list the boot processor first, with APIC id 0.

Nearly nine tenths of the lines of the repository are ACPICA, Intel's reference
implementation of ACPI, which SydOS calls at boot and from the SCI; it is
third-party code with a specification of its own and is not modelled. Of
SydOS's own code most is straight-line: tables filled once at boot, registers
written, text printed. What is left out although it has state:

* ATA, AHCI, storage and GPT poll one device from one thread; a model would
  repeat the code.
* OHCI carries the same requests of the same clients as UHCI over other
  descriptors; its transfers are polled without a timeout in the same way. The
  allocation of its pools is the code of UHCI's.
* PS/2: response and key are read from one port by thread and handler, with
  nothing between them. This is a hazard without a mechanism: there is no
  property that the code makes an effort to keep.
* The lists of interrupt handlers are filled without a lock during start-up,
  by several processors; the same holds.
* `pmm_pop_frame_nonlong` (page tables, AHCI) tests that a frame is left before
  it takes the lock. With one frame left and a `pmm_pop_frame` in between, it
  reads below the stack and its count wraps. The DMA bitmap has no lock, and is
  used by the boot thread only.
* What runs when a keyboard is polled.
* In `floppy_read_blocks` the rest of the last sector that is copied beyond the
  caller's block: the model has no heap under it.

## 6. Plan

Left, in this order:

1. Proofs: what remains true of the heap when requests are larger than a page
   (run kheap_fat), and of ranges of several pages in the device window.
2. Extensions: `pmm_pop_frame_nonlong` and page tables in `DeviceWindow`; the
   lost acknowledgement as a property of `NetReceive`.
