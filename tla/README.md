# CLAOS: models, checks and proofs

CLAOS is a 32-bit hobby operating system in one address space: a kernel task that runs the shell, the Lua desktop and
the Claude client, up to three background tasks, a file system on an ATA drive, and a network stack that exists to
carry HTTPS requests to one server. This directory holds TLA+ models of its parts, TLC configurations that check them
on small instances, and TLAPS proofs about them for every instance. Every definition is translated from the code;
`PROJECT.json` maps it to the lines it stands for.

    tlc -config SchedulerGui.cfg MCScheduler.tla      # one run
    tlapm SchedulerProofs.tla                         # one set of proofs

## The system

| component | state | operations | talks to |
|---|---|---|---|
| scheduler (`kernel/scheduler.c`, `scheduler_asm.asm`) | task table, `current_task`, `task_count` | `task_create`, `task_exit`, `schedule`, `task_sleep` | called by the timer interrupt and by tasks |
| interrupts, timer (`kernel/idt.c`, `irq.asm`, `drivers/timer.c`) | `ticks`, the PIC's in-service bit, the CPU's interrupt flag | IRQ stubs, `timer_handler`, EOI | calls `schedule` before it sends the EOI |
| heap (`kernel/heap.c`) | slab pages and their table, block list, next-fit hint | `kmalloc`, `kfree`, `kmalloc_aligned` | takes slab pages from the page allocator |
| physical pages (`kernel/pmm.c`) | bitmap, counters, hint | init from E820, alloc, free, reserve | heap, page tables |
| page tables (`kernel/vmm.c`) | directory and tables | map, unmap, split 4 MB pages, framebuffer | physical pages |
| file system (`fs/chaosfs.c`) | superblock and file table in RAM, the same on the drive, data blocks | mount, read, write, delete, stat, mkdir, list | ATA driver |
| ATA (`drivers/ata.c`) | the drive | read and write of sectors by polling | file system |
| NIC (`drivers/e1000.c`) | receive and transmit rings, one transmit buffer | send (waits), receive (polls) | ethernet |
| ethernet, ARP, IPv4, UDP (`net/`) | one buffer per layer, ARP cache, UDP bindings | send path (may wait in `arp_resolve`), `net_poll` | NIC, TCP, DNS |
| DNS (`net/dns.c`) | query id, answer, flag | `dns_resolve` (waits), UDP handler | UDP |
| TCP (`net/tcp.c`) | four connections with a receive ring each | connect, send, recv, close by the kernel task; `tcp_receive` by net_poll | IPv4, TLS client |
| TLS client, HTTPS (`net/tls_client.c`, `https.c`) | one connection, request and response buffers | connect, send, recv, close, `https_post` | BearSSL (vendored), TCP |
| Claude client (`claude/`) | message array, request body | `claude_ask`, the tool loop, tools | HTTPS, file system, scheduler, audio |
| keyboard, mouse, input queue (`drivers/`, `gui/input.c`) | rings between interrupt and reader, packet assembly | IRQ handlers, getchar, `input_poll` | shell, desktop |
| audio (`drivers/ac97.c`) | ring of buffers shared with the device | play, stop, IRQ handler | tools, Lua |
| panic (`kernel/panic.c`) | none | prints, asks Claude, reboots | the network, with interrupts disabled |
| desktop, shell, console, 3D engine | windows, pixels, maps | drawing, commands, traversal | everything above |

What makes it hard:

* **Preemption without saved flags.** `task_switch` saves four registers and nothing else. The timer interrupt switches
  tasks before its EOI is sent, so a background task that is switched to runs with interrupts disabled and IRQ0 in
  service, and the clock stands still until the rotation comes back to the task that was interrupted. Whether that
  ever fails depends on which task sleeps for how long.
* **Two tasks on one connection.** The kernel task waits in hlt loops inside connect, send, read and close, and net_poll
  changes the same connection between any two of its steps, with whatever the network delivers.
* **A cache in RAM and a table on a drive**, written in separate sectors, with errors and power losses in between, by
  operations that change the cache first and never undo.
* **One buffer per layer.** Both tasks send through the same IPv4, Ethernet and NIC buffers and the same descriptor index, without
  a lock, and the way out may wait for an address in the middle.
* **Things that fill up**: the event queue while a question holds the desktop's loop, the message array and the result buffer of
  the agent, its request, the table of slab pages, the ARP cache, TCP's ring. What happens then is mostly decided by an early return.

What has to be true of the parts: the scheduler never mixes two stacks, never loses the clock and starves no task; the
heap and the page allocator hand nothing out twice; the file system never lets two files overlap and keeps what it has
confirmed; TCP delivers a prefix of the stream and gives every slot back; the send path transmits what its caller gave
it; the resolver answers the question asked; the queues between interrupts and readers keep order, and the desktop lets go of
what it holds; the agent loop answers every tool call, tells Claude of every tool it has executed and returns, if its tools do
and the set-up dialogue is answered. `PROJECT.json` lists, at their lines, the hazards behind each and the properties that watch over them.

## The modules

### Scheduler

`Scheduler.tla` has the task table (`state`, `remaining` for `sleep_until`, `esp`), the two globals, and what the C code
cannot see: whose stack the CPU is on (`cpu`), the interrupt flag (`intr`), the EOI owed to the PIC (`in_service`) and
which tasks were switched out inside the interrupt (`irq_frame`). `at` is the program counter of each task's own code.

A `schedule()` a task calls itself is three steps, `Scan`, `Commit` and `TaskSwitch`, because with interrupts enabled the
timer can come between them; `task_create` is two, `CreateTask` and `FinishCreate`, because it publishes the slot before it
is finished. `TimerInterrupt` is one step: it runs with interrupts disabled. `SwitchStacks` is the heart: a task resumed in
its interrupt frame sends the EOI and gets its flag back by iret, any other task goes on with what it finds.

Sleeping tasks are stored as ticks still to go, so `now >= sleep_until` is `remaining = 0`; the 32-bit wrap is outside.
The CPU usage counters are left out. The work a task does between two calls is the place `code`.

* `OwnStack`: no interleaving of the timer with a `schedule()` or a `task_create` saves a stack pointer in the wrong slot.
* `EoiWillCome`, `ClockGoesOn`: while the EOI is owed, the task that owes it can be scheduled; the clock never stops.
* `OneRotation`: from an IRQ0 to its EOI every step of the CPU brings the EOI nearer (`Left`, which counts slots and the places within
  one), `task_exit` does not spin, and no ready background task is passed over.
* `HaltCanEnd`: hlt is executed only with interrupts enabled and the clock running.
* `NoStarvation`: whoever is ready or asleep runs again.

`SchedulerGui.cfg` takes the sleeps of the shipped system: 16 ms in the desktop's loop (`init.lua:981`) and another of
less than a tick, 10 ms for net_poll and two ticks standing for the 250 and 1000 ms of the other two. Four slots hold the kernel
task and all the background tasks `kernel_main` creates, in any number from none to three. One slot's entry may return,
which none does today. Two ticks are enough for the long sleeps: what matters is whether a sleeper
wakes at the next tick, at a later one, or at the same one as another. `FairSpec` assumes that the CPU executes the next
instruction, that the background bodies, loops of a bounded computation and `task_sleep`, reach their sleep, and that the
PIT keeps raising IRQ0. It assumes nothing of the kernel task, which may wait for a key for ever.

`SchedulerLongSleep.cfg` lets the kernel task sleep for two ticks, as `claos.sleep(20)` does. TLC finds the state in which
all tasks are asleep while the last background task still runs in the interrupt: `schedule` returns to it, its sleep has
no effect, and the first time it finds nobody ready the clock has stopped for good. Both runs confine hlt to the kernel
task (`Halting = {0}`); the one way net_poll comes to a hlt is in `SendPath`.

### FileStore and ChaosFS

`FileStore.tla` is what a caller may rely on: one request at a time, a reply of success means it is on the drive, nothing but
a request for a file changes it. A path whose request failed or was cut by a power loss is `unsure` until a later request
for it succeeds; `torn` remembers the power losses, since a delete does not clear those.

`ChaosFS.tla` is the code: cache, drive, and an operation in progress (`phase`, `offset`, `idx`, `request`). A call changes
the cache in one step and then writes the data, a block at a time, the superblock, and the table, a sector at a time,
in the order of `chaosfs_write` and `chaosfs_sync`. `DriveError` and `Crash` may come instead of any write. `unsure` and `torn`
are history variables. A file's data is a sequence of chunks of a block; a partly written block belongs to a path that
is unsure anyway, so it is written in one step. A deleted entry is the same as one never used: nothing reads it again.
Only the kernel task uses the file system, so calls do not overlap. `file_count` is left out, nothing reads it.

* `ExtentsDisjoint`, `NextIsFree`: in the cache and in the table a restart would find between any two sector writes, no two
  files share a block and allocation starts behind all of them.
* `CacheAgrees`: for every path whose last request succeeded the cache says what the drive says.
* `KeepsFiles`: `ChaosFS` implements `FileStore`, with `files` what `chaosfs_read` would find after a restart now.

`ChaosFS.cfg`: two paths (interchangeable, hence the symmetry), two entries in two table sectors, so that a table write
can be cut between a mark and the entry that replaces it; an empty file, one of a block and one of two blocks, so that
files fit, outgrow their blocks and shrink; errors and power losses at every write; a drive of two blocks and a bound of
three on `next_free_block`, so that allocation runs past the end of the drive. One entry to a sector is the finest tearing
there is; the real four to a sector allow a subset of it. Deadlock is not checked: the bound on blocks stops the model.
`ChaosFSDelete.cfg` shows a promise of `chaosfs.h` that does not hold: see the findings.

The fault "lost" of the model, a write that reports success and has not happened, stays outside the runs. It can occur:
`ata.c:207` looks at the status of every sector but the last, and at none after the flush.

### Stream and Tcp

`Stream.tla` is what the TLS client may rely on of a connection: it opens or does not; what is read are the bytes the server sent on it, from
the first and in order; behind the end nothing is read; it can be given up at any time, and nothing of it is left for the next.

`Tcp.tla` has the connections, the kernel task's place in `tcp_connect`, `tcp_send`, `tls_low_read` or `tcp_close` (`pc`), and a
server and network that are external. `tcp_receive` is one step, because net_poll runs with interrupts disabled; it is split by
connection state into the disjuncts of `Receive`. The network may repeat, lose and reorder: whatever has been sent may
arrive at any time, also on a later connection. Sequence numbers count from the initial one, which is taken to be the
same for every connection; every wait may end at any moment, which covers all time-outs. Each byte of the server is a
pair of its connection and its position, so that a byte in the wrong place or of an old connection is seen.
Left out: checksums, addresses, the port wrap, `remote_window` (written and never read), the blocking mode of `tcp_recv`
(never used), and CLOSE_WAIT (entered and left inside one step).

* `ReadsStream`: `Tcp` implements `Stream`. `SeenAs` maps the kernel task's place to the client's view of its connection; only a read, the end,
  the opening and the closing are seen, every segment and acknowledgment is not.
* `AckNotAhead`: nothing is acknowledged that was not sent. `AckedIsKept`: what is acknowledged is kept.
* `NoSlotLeaked`: between two uses all slots are closed, whatever raced with a time-out, a reset or a close.

`Tcp.cfg`: two connections in turn on two slots, two bytes from the server in segments of one or two, one byte of ours, since
those only move `seq` (the proofs have no such bound).
It has one assumption to be aware of: the response is smaller than the ring (2 < 3), so the ring never fills.
`ReadsStream` and `AckedIsKept` hold only if the server does not overrun the ring, which `TcpProofs` states and proves for streams
of any length; see the known limits below. Deadlock is not checked: the
connections run out.

### Pages and Heap

`Pages.tla` is the page allocator: the bitmap `pmm_init` fills from the E820 map, with the cut to 32 bits and the rounding, the
reserved pages, the hint and its search by bytes. `Heap.tla` puts `kmalloc`, `kfree` and `kmalloc_usable_size` on it, and the
`realloc` of `lua_shim.c` on them. Addresses are numbers, in units of the 16 bytes `kmalloc` rounds to, so that an overlap is
an overlap: a block header takes one unit, a slab page's header is its first unit. `blocks` is the linked list by
address, `Visit` the next-fit walk, `Split`, `Absorb` and `HintAfter` what `kmalloc` and `kfree` do to it. `held` is what callers were
given, `moving` the old block between the `kmalloc` and the `kfree` of a `realloc`, `failed` a request that got NULL.

* `NothingShared`: no two holders, no holder and a header, no slab page and the kernel's or the list's pages.
* `Tiled`: the list covers the heap, its links agree, and the hint points to a block that exists.
* `NothingLost`: every block in use has a holder, free neighbours are merged, a slab page's free blocks are those nobody holds.
* `FailsOnlyWhenFull`: NULL means that no block, no slab and no page would have done.
* `CountsAgree`: the two counters that stand for a set, `used_pages` and `free_count`.

`Heap.cfg`: ten pages of four units, four for the list and one for the kernel behind the first megabyte; two size classes, so
that a page holds three small blocks or one large; requests that are served by a slab, by the list, or by the list because there is
no page left; at most four blocks held, which fills both allocators. One memory map has a hole, an end inside a page and an entry
above 4 GB, the other no page for slabs. `MAX_SLAB_PAGES` is out of reach. `HeapLimit.cfg` is the same with one entry in the
table of slab pages: see the findings. `kmalloc_aligned` and `pmm_free_page` have no callers.

### SendPath

`SendPath.tla` walks `dns_resolve`, `udp_send`, `ipv4_send`, `arp_resolve`, `eth_send` and `e1000_send` with the kernel task, one store that
others can see to a step, and lets net_poll in between any two: it learns from ARP and answers it, acknowledges segments,
takes DNS answers. net_poll is one step, since it runs with interrupts disabled. A buffer is a header and what
follows it, each naming the packet it came from, so that a mixture is seen. The NIC is external, as QEMU's: a write of the
tail register sends everything up to it from the one transmit buffer. Every wait may end at any moment. That net_poll is a step of
its own, from interrupt to iret, is the rule `Scheduler` establishes (`EoiWillCome`, `OneRotation`).

* `SentUnlessOverwritten`: what the kernel task sends goes out whole and is seen done, however net_poll moves `tx_cur` and the tail
  between its own steps, unless net_poll *filled* one of its buffers while it was in use. That exclusion, the history
  `disturbed`, is a real limit of the code: `ipv4_tx_buf` and the frame buffers are shared and not guarded.
* `PollSends`: what net_poll sends always goes out whole.
* `CacheIsCurrent`: one entry per host, with the address announced last, through eviction and return.
* `NoWaitInPoll`: net_poll comes to the hlt of `arp_resolve`, which nothing ends, only if more hosts have been heard than the
  cache has entries, that is only if the gateway's entry was overwritten.
* `AnswerBelongs`: `dns_resolve` returns the answer to its own question, or none. Left out (`stale`) is an answer to the
  previous question that arrives between `dns.c:178` and `:180`, before the id changes: it is taken for this one's.

`SendPath.cfg`: the gateway and two interchangeable hosts on a cache of two, so that eviction happens; four descriptors, so that the
ring wraps; two questions, so that an old answer can meet a new one; one packet of net_poll between the store of `tx_cur` and
the write of the tail, a window of a few instructions against a tick of 10 ms. Deadlock is not checked, since net_poll
may halt.

### EventQueue, Input and Desktop

`EventQueue.tla` is the promise of a ring between an interrupt and its reader: what goes in comes out once and in order, and what does
not fit is dropped from the end. `Input.tla` has the ring of `gui/input.c`, the keyboard's and the mouse's handlers that fill it, and
the two button states of `mouse.c`, one from the packets and one from the events. `Desktop.tla` is the loop of `init.lua` that
reads it: the windows in their order, what is dragged or resized, the menu, the handlers in their order of precedence, and the
question of the chat window that holds the loop until Claude has answered. `input_poll` is two steps, the copy and
the move of the tail, because an interrupt may come between them. Leaving is two as well, `LeaveLoop` and `EndGui`: the last frame
is drawn, with events still coming, before the shell takes the keyboard back.

Whether Claude has a key is the variable `configured`, which the shell's config command sets. With a key the question comes back
(`Answered`). Without one `claude_ask_with_tools` starts the set-up dialogue of the text shell (`claude.c:263`), which reads the
characters of the text mode, and while the desktop runs every key goes to the event queue instead (`keyboard.c:148`). The dialogue comes to its
end (`SetUp`) only with lines typed ahead, before the desktop was started; nothing makes it, so the desktop may stay there for ever.

* `QueueInOrder`: `Desktop` with the ring implements `EventQueue`, under the interrupts and the reader's two steps.
* `GripEnds`: the desktop holds a window only as long as the button is down or its release is on its way; except (`unheard`) when
  the last release met a full queue. Then the window follows the mouse until the next click.
* `DragIsOpen`, `MenuOnTop`: what is dragged is visible, and the window the menu would close is the one in front.
* `ChatAnswered`: once there is a key, a question in a visible chat window is answered, whatever else is open or happens. Without
  a key it need not be, see the limits below.

`Gui.cfg`: a queue of four, which one question fills; two buttons; Escape and another key; two windows, one of them chat's;
one interrupt to a frame and another while a question is out. `Spec` assumes `WF_vars(Loop)`: the loop is a program of
the kernel task, which `Scheduler`'s `NoStarvation` keeps going, its question returns if there is a key and its tools return (`Agent`'s
`AskReturns`), and a frame is over when the queue is empty, which needs the bound on interrupts: at a human's speed they are rarer than
frames. `SetUp` is not part of `Loop`: no fairness makes the dialogue end. Deadlock is not checked: the desktop may stop in the dialogue, and with the
desktop closed and the frame's interrupts spent nothing has to happen.

### Agent

`Agent.tla` is a question to Claude from `claude_ask_with_tools` down to the TLS connection: the rounds, the static message array,
the calls of a reply, the buffer of results, `https_post` with what fits into its request, and every way `tls_connect`, the
handshake, the sending and the receiving may fail. The crash report of a panic takes the same way, from a tool or the shell
(`Panic`) or from a CPU exception (`Fault`), which leaves interrupts disabled: no step that waits for the network is then
enabled. `executed` and `told` are histories: the tools run for this question, and those whose results have reached Claude.

Without a key (`configured`) a question first waits in the set-up dialogue (`SetUp`), one step of the user's, which ends with a key and
the question, or with "No API key configured"; the config command is the same dialogue, and a crash is then not reported (`Reporting`).

A tool is executed first and its result written after. The kernel has its own `snprintf` (`lua_shim.c:183`), which returns what it
has stored, not what there was to store: a result that is too large is cut in the middle, without its closing quote, and counted as
written (`Stored`). The buffer is then full, not even the closing bracket fits (`Legible`), and the next call, executed like the others, finds less than
128 bytes and ends the calls: its result is left out, and those behind it are not executed.

* `Answered`: in each request that goes out whole, every tool call is answered, uncut, in the message that follows, and every answer has its
  call. Left out are the calls of a reply beyond `MAX_TOOL_CALLS`, which are stored in the message and never answered.
* `NothingUntold`: when Claude's answer is shown, it knew the result of every tool that was executed. This holds for a reason no line of
  the code states: whether a result was cut or left out, the message has less than `SAFETY` to spare, and no request with such a message is
  small enough to be sent (6 KB, of which 4.3 KB are always used). `ReqIsTightest` states this relation between the sizes. With a C99
  `snprintf` (`LeftOut`) a large result would be dropped, the next ones would follow it, and Claude would answer without it.
* `TlsIsFree`: outside a request the one connection and its TCP slot are free, whichever way the last one ended.
* `AskReturns`: a question comes back, and so does a crash report that no CPU exception caused, if the tools do (`ToolsReturn`) and the set-up
  dialogue is answered (`DialogueEnds`): it waits for the keyboard without a time-out (`keyboard.c:212`).

`Agent.cfg` has units of some 300 bytes: a request of 6 KB (20 units), a message of 4 (13), a largest result of a little over 2 (7), of which
two do not fit in a message and the second is cut. What is not to scale keeps its order: the body of 16 KB (27) is larger than a request, the
fixed part of a body about half of one (10; 4.3 KB in the source), and `SAFETY` (2) the smallest of all but the headers. A result of 1, 5 or 7
units fits, fits or is cut depending on those before it, and may fill a message exactly. The machine starts without a key, and the dialogue
gives it one or not. Six rounds and eight messages stand for 10 and 12: as in the source, the messages are full before the rounds are, at one
and two a round, and the request is then repeated until the rounds are over. Four calls meet a limit of three.
`WF_vars(Proceed)` is justified by the waits: each counts ticks (5 s in `dns_resolve`, 10 s in `tcp_connect`, 30 s in
`tls_low_read`); `Execute` and `SetUp`, which depend on a tool and on the user, are not fair. Deadlock is not checked: the machine may stop in a hlt.
`AgentBody.cfg` and `AgentPanic.cfg` show the two findings.

## Findings

| run | what the code does |
|---|---|
| `sched_long_sleep` | `task_sleep` of two ticks or more from the kernel task can stop the clock for good |
| `chaosfs_delete` | after a power loss during a replacement a path can be in two entries, and delete removes one |
| `heap_limit` | beyond 128 slab pages `realloc` may keep a block that is too small for what is written to it |
| `agent_body` | a body that does not fit 6 KB is announced with its length and not sent; the server waits for it |
| `agent_panic` | after a CPU exception the report to Claude waits in a hlt with interrupts disabled |

The models also have behaviours that the properties leave out, each because the code does not do better. They are limits to know of:

* TCP's ring holds one byte less than the window announces, and bytes it cannot hold are acknowledged and dropped (`tcp.c:92`).
* net_poll can send a FIN between a data segment and the advance of `seq` (`tcp.c:289`), with a number already used.
* The end of a connection can be reported with unread bytes in the ring (`tls_client.c:183`).
* net_poll's acknowledgment can overwrite what `ipv4_send` has prepared while `arp_resolve` waits (`ipv4.c:110`).
* A host too many in the ARP cache overwrites the first entry, the gateway's (`arp.c:68`); the next acknowledgment stops the machine.
* A tool call that finds the message array full is neither executed nor recorded (`claude.c:376`): ten rounds are announced, the
  messages last for five.
* Without an API key the first question from the desktop's chat window starts a dialogue in text mode (`claude.c:263`), which waits for
  characters the keyboard no longer delivers (`keyboard.c:148`): the desktop hangs for good, unless lines typed ahead answer it.
* A tool's result that is larger than what is left of the message is cut without its closing quote (`claude.c:429`, `lua_shim.c:183`). The
  message is then not JSON, and every later request of the question is too large to be sent (`BodyIsSent` in `AgentBody.cfg`): it fails.
* `wm_close` and `wm_minimize` let go of a window that is dragged, not of one that is resized (`init.lua:276`).

## What is proved

Every property of the passing runs but the four of liveness, so every invariant, the action property and the three refinements, is a theorem
for all values of the constants. Seven modules hold them, one to a component; each establishes an inductive invariant whose parts TLC has checked on the run's instance
first. The theorems that need more than the assumptions of the model say what, here and in their statements.

**SchedulerProofs**: `TypeOK`, `OwnStack`, `EoiWillCome`, `HaltCanEnd` and `OneRunning`, that no two tasks are marked as running, for every size of the table and every
set of sleeps, from `ShortSleeps`: kernel sleeps under 20 ms, background sleeps of at least 10 ms, hlt in the
kernel task only. `SchedulerLongSleep.cfg` shows that the first part is needed, and `SendPath`'s `halted` why the last is an assumption. None of the five is inductive. `IInv` splits the
states in two: in `KernelMode` interrupts are enabled, no EOI is owed and, wherever the kernel task can call `schedule` itself, no background
task is ready; in `BackgroundMode` the only interrupt frame is the kernel task's, it is ready, and the ready background tasks
all lie behind the running one in the rotation, so each switch comes nearer to it. A tick is what leads from the first
to the second, and it finds the kernel task awake again because of its short sleep.

`TasksAreCounted` (`task_count` is the number of live tasks, but for the one being created) and `RotationEnds` (`OneRotation`, with `Left` at most
`4 * MAX_TASKS`) need `FirstTwoStay` as well: the tasks of the first two slots do not return, as the two that `kernel_main` creates first do not. Without it
`task_exit` could spin behind the timer interrupt with the clock stopped: `schedule` does nothing when one task is counted
(`scheduler.c:129`), and `task_exit` calls it for ever. `PInv` adds to `IInv` the count of the slots (`Census`) and that a switch
on the way to the EOI goes to a later slot or to the kernel task (`Onward`).

**ChaosFSProofs**: `TypeOK`, `ExtentsDisjoint`, `NextIsFree`, `CacheAgrees` and the refinement `KeepsFiles`, for every number of files,
blocks and paths, from `NothingLost`: the drive reports the errors it has. The first invariant has to speak of mixtures: every entry of
the cache is apart from every other entry of the *drive's* table, since a torn write puts the two side by side, and the superblock stored
before the table is what bounds a mixed table after a restart. On it rests `KInv`, which relates cache and drive in the middle of
an operation: they differ only in the entries of paths that are unsure and in the part of the table the operation has still to
write (`Settled`, `Serving`), and a path that has not been torn is in one entry at most (`Once`). The step that needs all of it is the
end of a write: the reply of success is an action of `FileStore`, whose effect the drive must already have.

**HeapProofs**: `TypeOK`, `Tiled`, `NothingLost` and `FailsOnlyWhenFull` without a condition; `NothingShared` in the form `[](FewSlabs =>
NothingShared)`, where `FewSlabs` says that no page was taken beyond `MAX_SLAB_PAGES`, which `HeapLimit.cfg` shows to be
needed; `CountsAgree` if no page is described by two entries of the memory map. `HeapInv` says that the blocks of the
list cover the heap's pages as one chain, each beginning where the last one ends, through splitting and merging and with the hint
always at the beginning of one of them, and that what the slabs' free lists do not contain is held by exactly one caller.

**TcpProofs**: `TypeOK`, `AckNotAhead` and `NoSlotLeaked` without a condition; `AckedIsKept`, `ReadIsPrefix` (what has been read with what waits in
the ring is what the server sent) and the refinement `ReadsStream` as long as `NotOverrun`
holds, that is as long as what the server has sent and the reader has not taken fits in the ring. `ShortStreams` and `ShortAnswers` give
the case of the run, a stream smaller than the ring, without a condition. `ConnInv` says that only the slot of the kernel task
is in use and that its port is newer than that of any segment of an earlier connection; `StreamInv` that read bytes, ring and `ack` continue each other;
`SentInv` and `Fresh` that neither is ahead of the server, nor has a server sent on a connection that is still to be made.

**SendPathProofs**: `TypeOK`, `CacheIsCurrent`, `NoWaitInPoll`, `SentUnlessOverwritten` and `AnswerBelongs`, for every set of hosts and every
size of the cache and of the descriptor ring; `PollSends` from `MAX_IN_WINDOW <= 2`, the packets net_poll sends between the store
of `tx_cur` and the write of the tail. The bound is sharp, at three TLC finds a loss, and one tick is far longer than the window. `NoWaitInPoll`
needs a chain of facts that are spread over the path: whoever has been heard is in the cache unless it is full
(`CacheInv`); a segment reaches the wire only out of buffers that were filled after the gateway was resolved, so that an acknowledgment
is due only once the gateway has been heard (`GatewayInv`); when net_poll then waits, the gateway is not in the cache (`HaltInv`), so the cache
is full of other hosts, and counting them gives the bound. What is sent is followed through the layers, by what `RingInv`, `FrameInv`
and `IpInv` say of the descriptors, the frame and the packet at each place of the kernel task; `DnsInv` does the same for the question.

**AgentProofs**: `TypeOK`, `TlsIsFree`, `Answered` and `NothingUntold`, for every size and limit of `claude.c` and `https.c` that keeps
`ReqIsTightest`. `TlsIsFree` is inductive: the proof goes through the ways out of the three places where the connection is in use.
`AskInv` ties the message array to the rounds that filled it: answers follow their calls, and a message in which a result was cut, or behind which one was
left out, has less than `SAFETY` to spare (`TooLarge`), so that no request with it is small enough to be sent. `QuestionsEnd` gives a measure, `Work`: the set-up dialogue, the rounds left, the calls
left in this one and the legs of its request. It is at most `6 + (MAX_TOOL_ROUNDS + 1) * (MAX_TOOL_CALLS + 7)` and every step of a question or of a crash
report that does not end it lowers it.

**DesktopProofs**: `TypeOK`, `GripEnds`, `DragIsOpen`, `MenuOnTop` and the refinement `QueueInOrder`, for every set of windows, every size of the
queue and any number of interrupts. `WinInv`, `MenuInv` and `PlaceInv` say what holds of windows, menu and the loop's place, from the shell's command to the way out; `GripInv`
looks into the queue: whatever the events left in it will do, a press in it is followed by its release, unless by the
events told so far the button is still down, or its release was lost. The refinement rests on the arithmetic of the ring's two indices.
`QuestionsAreServed` gives the measure `Delay` of a question in a visible chat window: the interrupts the frame may still bring, the events in the ring and
the one in hand, at most `(MAX_BURST + 1) * (3 * EVENT_QUEUE_SIZE + 1)`; every interrupt and every step of the loop lowers it.

**Iteration** has the induction the others need over data, done through sets, since no prover here takes an operator as a parameter: a set of
naturals that is not empty has a least element, hence a function defined by iteration exists and what its step
preserves holds of all its values. The sum of the message sizes, a fold in `Agent`, is known through it.

Only model-checked are the four liveness properties, `NoStarvation`, `ClockGoesOn`, `ChatAnswered` and `AskReturns`: fairness and ENABLED are beyond the
prover. What they need beside fairness is proved: `RotationEnds`, `QuestionsAreServed` and `QuestionsEnd` bound the steps that the CPU, the loop
or the agent can make before the EOI or the answer. That such a step is always possible, and is taken, is TLC's part. No module declares a RECURSIVE operator, so that all can be proved about.

Each module keeps a few wrong variants of its definitions next to them (a dropped guard, an order exchanged, an
off-by-one). No action uses them: replacing the right one by the wrong one makes TLC find each property violated.

## The plan

1. Done: the models of scheduler, file system, TCP, heap and pages, send path and resolver, input and desktop, agent, and the proofs
   of all their safety properties and refinements.
2. Proofs still worth having: an abstract specification of the heap (a set of disjoint allocations), with `Heap` shown to implement it.
3. `Audio`: the ring of buffers between `ac97_play`, its interrupt and the device's position.
4. The command line of the text shell, which reads the keyboard through a ring of its own.

## Compositions

`Input` is part of `Desktop`, `Pages` of `Heap`. Elsewhere a module states what another one relies on: `Scheduler` shows that net_poll runs
from interrupt to iret without being interrupted, which `Tcp` and `SendPath` take as the size of its step, and that hlt in the kernel task ends, which
makes the waits of `Agent` end; `Agent` shows that a question returns, if there is a key or
the set-up dialogue is answered, which is why `Desktop` has the two cases apart; `Tcp`'s connection is `Agent`'s `tls.tcp`.

## Not modelled

The boot loader, GDT, PCI, VGA, serial and entropy code is straight-line access to registers. BearSSL and Lua are
vendored and make up most of the repository's lines. The page tables are written once, by `vmm_init`; the functions that map, split and
unmap have no caller. Pixels (framebuffer, fonts, console), the applications and the 3D engine are sequential on one task and no other
part relies on their state; the engine's traversals could be checked as algorithms. A question asked by a Lua program that runs as a
tool (`claude.c:288`) overwrites the message array of the outer question and is outside `Agent`. The sound driver is in the plan.
