# TLA+ models of the CS153 xv6 kernels

The repository holds four copies of xv6, one per lab, each with that lab's
additions. `xv6_lab4` is taken as the base kernel (its `proc.c`, `log.c`, `bio.c`,
`ide.c`, `fs.c`, `pipe.c` agree with the other copies except for the labs' additions);
the additions of labs 1, 2 and 3 are modelled from `xv6_lab1`, `xv6_lab2` and
`xv6_lab3`. Paths below without a directory are of `xv6_lab4`.

## 1. The system: parts, state, operations, hazards

| component | state | operations | what is hard, and what makes it correct |
|---|---|---|---|
| processes (`proc.c`, `sysproc.c`, `trap.c`, `init.c`) | `ptable`: per slot state, pid, parent, wait channel, killed, kernel stack; per CPU the current process | `scheduler`, `sched`, `yield`, `forkret`, `fork`, `exit`, `wait`, `sleep`, `wakeup`, `kill`, timer interrupt | `ptable.lock` is acquired by one thread and released by another across `swtch`; lost wakeups; failures halfway through `fork`; orphans. One CPU per process, no use of freed stacks, no missed wakeup, somebody always there to reap |
| lab 1 (`proc.c`) | `prior_val`, exit status | `waitpid`, `set_prior`, scheduler | reaping strangers' children while parents wait for them |
| lab 2 (`proc.c`) | `prior_val`, `selected_To_Run` | scheduler with aging, `set_prior`, `get_prior` | highest priority first, aging, starvation |
| redo log (`log.c`) | `struct log`, the log region on disk | `begin_op`, `end_op`, `log_write`, `commit`, recovery | crashes between any two writes; group commit; space reservation; sleepers. All of a group of calls or nothing of it, after any crash |
| buffer cache, disk (`bio.c`, `ide.c`, `sleeplock.c`) | LRU list of buffers, request queue, the controller | `bread`, `bwrite`, `brelse`, `iderw`, `ideintr` | the count is taken under one lock, the buffer locked under another; completion interrupts name no request; buffers pinned by B_DIRTY. One buffer per block, one owner at a time, what may be forgotten is on the disk |
| inodes, directories (`fs.c`, `sysfile.c`) | inode cache, inodes and names on disk | `iget`, `iput`, `ilock`, `open`, `create`, `unlink`, `link` | reference counts against `unlink`; the order of locks; names and link counts that differ while a call is halfway. No lost and no dangling inode |
| files (`file.c`, `sysfile.c`) | table of open files, descriptors | `filealloc`, `filedup`, `fileclose`, `dup`, `pipe`, `open`, `close` | shared references, tables that run out halfway. Every reference counted once, the last close and no other closes |
| pipes (`pipe.c`) | ring of bytes, two open flags | `pipewrite`, `piperead`, `pipeclose` | two sets of sleepers, close and kill while they sleep. Bytes in order and once, nobody asleep for ever |
| console (`console.c`) | input ring with three indices | `consoleintr`, `consoleread` | the interrupt against readers; a full ring. Lines delivered as finished, once |
| memory (`vm.c`, `kalloc.c`, `exec.c`, `proc.c`) | page tables, list of free frames, `sz` | `fork`, `exec`, `sbrk`, `exit`, `wait` | ownership of frames, failures halfway. A frame has one owner, `sz` says what is mapped |
| lab 3 (`trap.c`, `vm.c`, `exec.c`) | `stack_pages`, `my_sp`, stack pages at the top of user space | page-fault handler, `copyuvm` | what is mapped after faults and a fork |
| lab 4 (`shm.c`) | table of shared pages | `shm_open`, `shm_close` | reference counts, frames freed by several page tables |
| user programs | | `sh`, `usertests`, ... | clients; a nondeterministic choice of system calls in the models |
| boot, devices | | | hardware set-up, not modelled |

Interactions: a system call or interrupt enters through `trap()`; every blocking
operation is `sleep(chan, lock)`/`wakeup(chan)` of `proc.c`, and `kill` wakes a sleeper on
any channel, who must test again; file-system calls run between `begin_op` and `end_op`
and change blocks through buffers handed to `log_write`; the log writes through
`bwrite`, which sleeps until the disk interrupt; descriptors lead through `file.c` to a pipe, an
inode or the console; `fork` copies descriptors and memory, `exit` closes the former and
leaves the latter to the parent's `wait`. `PROJECT.json` lists the hazards at their
lines, with the properties that cover each.

## 2. Modules

| module | models |
|---|---|
| `Proc` | the process component of lab 4 |
| `ProcProofs` | theorems about `Proc`, checked by TLAPS |
| `Lab1Proc` | extends `Proc`: `waitpid`, lab 1's scheduler |
| `Lab2Proc` | extends `Proc`: lab 2's scheduler |
| `Lab1Proofs`, `Lab2Proofs` | theorems about `Lab1Proc` and `Lab2Proc`, on those about `Proc` |
| `AtomicDisk` | what the log promises: atomic groups of updates |
| `Log` | `log.c` over buffers and a disk that crashes; implements `AtomicDisk` |
| `LogProofs` | theorems about `Log`: its invariants; that it implements `AtomicDisk` |
| `SleepLock` | `sleeplock.c` |
| `Ide` | `ide.c` and the controller |
| `BlockStore` | what buffer cache and driver promise: blocks with one owner each |
| `BufferCache` | `bio.c`, composed with `Ide` and `SleepLock`; implements `BlockStore` |
| `BufferProofs` | theorems about `BufferCache`: its invariants; that it implements `BlockStore` |
| `Call` | where each process is in its system call, shared by the next six |
| `Channel` | what a pipe promises: a bounded queue with two ends |
| `Pipe`, `Inode`, `Console` | `pipe.c`; `fs.c` with the path calls of `sysfile.c`; input of `console.c` |
| `Contents` | extends `Inode`: blocks, sizes and offsets of plain files; `filewrite` and `fileread` |
| `Files` | `file.c` and the calls on descriptors, composed with the four; implements `Channel` |
| `FilesProofs`, `ContentProofs` | theorems about `Files`: where calls are and which locks they hold; what refers to what; names and links; blocks and sizes, what pipes and the console hold and deliver, who sleeps on them; that pipes implement `Channel` |
| `Memory` | frames and address spaces: `kalloc.c`, `vm.c`, `fork`, `exec`, `sbrk`, `wait` |
| `Shm`, `Stack` | lab 4's shared pages, lab 3's page-fault handler, both over `Memory` |
| `Kernels` | the memory of both kernels composed |
| `KernelsProofs` | theorems about `Kernels` |
| `MC...` | the module a run's configuration instantiates |

### Proc

*State.* One function on slots per field of `struct proc` that matters (`state`,
`pid`, `parent`, `chan`, `killed`, `kstack`). `cpuProc` is `c->proc`. `lock` and
`tlock` are the CPUs that hold `ptable.lock` and `tickslock`. Three kinds of program
counter: `cpu` (where a CPU is: idle loop, scanning the table, just switched to a
process, running it, about to switch back, in the timer handler, in `panic`), `pc`
(where the code of a process is, in user mode or between two steps of a call) and
`resume` (where a process that was switched away continues: `forkret`, the end of
`yield`, the loop of `wait`, `sleep` on ticks). `initChild` is the variable `pid` of
`init.c`.

*Steps.* A critical section of `ptable.lock` is one step unless the lock is carried
across `swtch`. Then the release is a step of the other thread, as in the code:
`SchedAcquire`, `SchedSwitch`, (`Forkret` | `YieldReturn` | `WaitReturn` | `SleepReturn`), ...,
(`Yield` | `Exit` | `WaitSleeps` | `SleepOnTicks`), `Sched`, `SchedDone`. `fork` is
`ForkAlloc` (slot and pid under the lock), `ForkStack`, `ForkCopy` (without it, each can
fail) and `ForkRun`. `sys_sleep` is a test under `tickslock` and a step that takes
`ptable.lock` and lets go of `tickslock`. The timer interrupt of CPU 0 is `TimerTick`,
`TimerWakeup` and `Yield`; it is taken only where interrupts are on, so never by a CPU
that holds a spin lock.

*Abstractions.* `ticks` is replaced by what sleepers compare, the unsigned difference
`ticks - ticks0` (`elapsed`, which wraps at `TickWrap` as `ticks` does) with their argument
(`want`). Pids are drawn from a finite set, never one another slot holds: the code only compares
them for equality. That `nextpid` may wrap around and give a pid twice is not modelled. Files, directories and memory images that `fork` and
`exit` hand around belong to other components: the sleeps inside `exit`'s
`fileclose` and `end_op` are not seen here. Programs other than init choose their calls freely.

### Lab1Proc, Lab2Proc

Both replace `SchedSwitch` and `SchedDone` by the lab's loop (pick one process, run it,
release the lock), add the priorities to `fork`, and add the lab's calls; all else is
the action of `Proc` with the new variables unchanged. Both loops are folds (`Pass`) of one round of the
code's loop (`Consider`) over the table: in lab 1 with the candidate `temp` and `first_runnable`, in lab 2 with
the flags `selected_To_Run`, which are a variable of their own (`selected`) because the code keeps them
in the table from one pass to the next. That the outcome is the best process is a property, not the definition.
Lab 1's `waitpid` takes any pid, 0 included, which every free slot has; `NoPid` marks a process
that is not in it. `set_prior` and `get_prior` are one step although they take `ptable.lock` twice: only a tick can
come in between on one CPU, and it makes the process yield as well.

When nothing is RUNNABLE both schedulers switch to slot 0, whatever it is doing. On
one CPU it is init asleep in `wait()`, which looks again and goes back to sleep: the
runs show that no invariant suffers. With more CPUs it can be running elsewhere, or not
yet exist; the runs of labs 1 and 2 therefore use one CPU, as the Makefile of lab 2
does. The Makefile of lab 1 uses two: a hazard no run covers; section 4 says under
which condition the properties of lab 1 hold there.

### Log and AtomicDisk

*State.* On disk: `head`, the entries of the header block, and `disk`, all other blocks, the
log's first. In memory: `lh`, `outstanding` and `committing` of `struct log`; `cache`, the
buffers of home blocks, and `dirty`, those with B_DIRTY; for each caller its program
counter, the buffer it has locked, the blocks it has written. `phase` and `tail` are the
program counter of `commit` and of recovery.

*Steps.* `Begin`/`BeginWaits` are one turn of the loop of `begin_op`. A caller changes
a block and passes it to `log_write` in two steps, `Modify` (which ends with the two
tests `log_write` makes before it takes `log.lock`) and `LogWrite`. `End` and `EndLast` are the
critical section of `end_op`. `WriteLog`, `WriteHead`, `Install` and `Clear` are one
`bwrite` each, and `Crash` can come between any two of them: it forgets everything but
`head` and `disk`. `ReadHead`, `Install` and `Clear` are also the recovery. `Fill` and
`Recycle` are the buffer cache taking and giving up buffers.

*Assumed of the surroundings.* A block write is atomic and complete when `bwrite` returns
(the driver sleeps until the interrupt; a block is one sector). A call writes at most
MAXOPBLOCKS blocks, as `param.h:10` says (`filewrite` does not keep to it, see the
hazards). A caller locks one buffer at a time. A panic stops its own process, and the
rest may go on: this includes the case that the machine stops.

*AtomicDisk* says what the calls may rely on: the disk holds whole groups of calls; a
group is written when the last of its calls ends and before that one returns; a crash
loses exactly what was not written. `Log!AtomicGroups` maps `stable` to what recovery
would make of the disk (`Recovered`) and `current` to what a reader sees in the cache.

### SleepLock, Ide, BufferCache and BlockStore

*State.* `struct buf` is `blockno`, `data`, `refcnt` and the flags as sets of buffers, `valid` and
`dirty`; `lru` is the list from `bcache.head.next`; `queue` is `idequeue`; `command` is what
the controller was told last, the only thing it knows when it interrupts; `holder` and
`sleepers` are the buffers' sleep locks. `hand` lists the buffers a process has a reference to,
the last of them being the one its call is about.

*Steps.* One critical section of `bcache.lock`, of `idelock` or of a sleep lock each.
`bget` is `BgetHit`, `BgetMiss` or `BgetPanics`, and then `LockBuffer` or `SleepOnBuffer`, once
per turn of the loop of `acquiresleep`: between counting the buffer and locking it everything
may happen. `iderw` is `Iderw` and, after each wakeup, `IderwReturns` or `IderwSleeps`. `Ideintr`
completes the buffer at the head of the queue with the block the controller
was told, and starts the next. `Brelse` unlocks, `BrelsePut` is the second half. A process that holds a
buffer changes it (`Modify`), pins it (`LogWrite`: all that `log_write` does here) or
writes it. `KillWakes` makes any sleeper test again, as `kill` does. After the panic of `bget` the
cache stays locked: its lock is not released.

*Assumed.* The disk answers and makes no errors (`ide.c` has no way to tell its caller of one).
A process takes the buffers it holds at one time in the order of their block numbers; the file system
nests a log block outside a home block and an indirect block outside a bitmap block. The log pins no
more than `MaxDirty` buffers.

*BlockStore* is what `Log` takes for granted: a block in the hands of one process at
a time, who sees its latest contents, and that reaches the disk when its owner
asks, at no other time. `BufferCache!BlockStoreSpec` maps a block's content to its valid buffer or
else to the disk.

### Call, Pipe, Inode, Contents, Console and Files

*State.* `ftable` and `ofile` are the file table and the descriptors. A pipe is its ring with the two
unsigned counters, which wrap around, and its two flags. An inode is on disk (`dinode`:
allocated, link count; `dir`: names) and in the inode cache (`inum`, `iref`, `copy`, `locked`). A file's
blocks are `addrs`, in order and wherever their numbers are stored, and `indirect`; its length is `size`;
`used` is the bitmap, `off` is `f->off`, and `writing` holds the local variables of `filewrite` and `writei`. The
console's ring has `r`, `w`, `e`. `pc` says where a process is in its call; `ip`, `other`, `name`, `pfile`,
`request` and `reading` are its local variables. Three histories tell apart what the properties except:
`raced` (inodes whose last references were put at the same time), `unannounced` (pipes that a
writer left full of bytes without a wakeup) and, as a bound, `workload`.

*Steps.* In `Pipe` and `Console` one critical section of the lock: a reader or a writer
goes on until it returns or sleeps. `CreatePipe`, `Pipeclose` and the wakeups of both ends are separate
steps from the `fileclose` that leads to them, as in the code. In `Inode` a call is cut wherever it waits
for a lock: `create` is `CreateIalloc` (the directory locked), `CreateLink` (the inode too; the directory
unlocked), `CreatePutDir` (its `iput`, which locks it again); `unlink` and `link` likewise; `iput` is the
decision (`IputFrees`, `IputKeeps`), `IputTruncates`, and the reference, which goes last
(`IputDrops`). In `Contents`, `write` is a loop of transactions: `WriteiBegins` locks the inode for a piece,
`WriteiIndirect` and `WriteiBlock` take a block from the bitmap each, `WriteiEnds` records the length and
unlocks; another process can come between two pieces, and `WriteiFails` keeps what earlier pieces have
written. `Fileread` is one step, since the inode is locked from end to end. `Itrunc` is part of
`IputTruncates`. In `Files`, `pipe` is `PipeFirstFile` and then `PipeMade`, or where
something runs out `PipeNoFile`, or `PipeNoPage` or `PipeNoFds` and two steps `PipeCloses`, the `fileclose` of
the first and of the second file, each of which goes on to close the pipe's end if it has one; `pfile`
holds the two files meanwhile. `exit` closes one descriptor after the other, each with the steps of `Fileclose`.

*Abstractions.* Plain files have blocks and a length but no bytes: a block that belongs to one file holds
what was written to it. One directory, which is never freed. A write waits where the disk is full (the
code panics).
A process that waits for a sleep lock simply has no step (that such a sleeper is woken is
`BufferCache!ServedInOrder`). Where the code panics for want of inodes, cache entries or
directory space, a call has no step. The test and the sleep of `piperead` and `pipewrite` are one step, as
`p->lock` makes them, `kill` apart: it takes only `ptable.lock`, and on several CPUs
could fall between the test of `killed` and the sleep (see the hazard at `sysproc.c:92`).

### Memory, Shm, Stack and Kernels

*State.* `free` is the free list, `pages` and `pgdir` say which frame a process has at which
page, `guard` which pages lack PTE_U, `sz` is `p->sz` in pages; `shm_pages` is lab 4's table;
`stack_pages` and `my_sp` are lab 3's fields. `kernel` says which of the two kernels runs. `shared`,
`lost`, `misfreed` and `misused` are histories: frames that `shm_open` handed out, frames nothing refers to,
frames freed while in use, and what has gone wrong in calls of `shm_open`.

*Steps.* A system call or a page fault each: `Fork` (with `copyuvm` and its failures), `Exec`, `Grow`,
`GrowFails` (memory runs out at some page of several, and `allocuvm` deallocates all that were asked for),
`Shrink`, `Exit`, `Wait`, `OpenExisting`, `OpenNew`, `OpenFull`, `Close`, `FaultGrows`, `FaultShrinks` and the
panics of each. As in the code, no `shm_open` compares `sz` with KERNBASE: at KERNBASE
`OpenPanics` ("remap"), past it, where `OpenFull` leads, `ForkPanics` and `ShrinkPanics`. They are one step because a call touches its own address space, a table under
one lock, and the free list; that others allocate meanwhile shows as `kalloc` failing
whenever it likes.

*Abstractions.* Frames are named by the use they are first put to, so that
states do not differ by the order of the free list. Page tables go with their directory. The models
follow the kernel up to a panic or to a frame freed while in use, after which anything may
happen.

## 3. Runs

| run | shows |
|---|---|
| `proc_safety` | safety of `Proc`: 3 slots, 2 CPUs, `sleep` up to 2 ticks, a tick counter that wraps at 3 |
| `proc_liveness` | liveness of `Proc` under fairness: 3 slots, 1 CPU |
| `proc_born_killed` | violation: `kill(0)` marks a free slot and the next child is born killed |
| `lab1_waitpid` | safety of `Lab1Proc`: 3 slots, 1 CPU |
| `lab1_waitpid_any` | violation: a non-parent in `waitpid` is not woken |
| `lab2_priority` | safety and scheduling of `Lab2Proc`: priorities 0 to 2 |
| `lab2_starvation` | violation: starvation at priority 0, in spite of aging and of fairness |
| `log_atomic` | `Log` implements `AtomicDisk`; 3 callers, 3 blocks, a log of 2 |
| `log_reservation` | violation: a region of LOGSIZE blocks, header included, is one too small |
| `bio_store` | `BufferCache` implements `BlockStore`, its safety, and that the disk answers; 2 processes, 2 buffers, 3 blocks |
| `files` | `Files`: references, names, blocks and sizes, pipes as channels, sleepers, the console; 2 processes |
| `memory` | `Kernels`: frames and address spaces of both kernels; 2 processes, 5 pages |

*Processes.* Three slots are init, a parent and a child, with a slot that is reused, failed
forks and a full table. Two CPUs are enough for every conflict over `ptable.lock`
and a stack; one of them is the one that counts ticks. `TickWrap` (2^32 in the code) is 3 with calls of
`sleep(1)` and `sleep(2)`: a process kept from its test for another tick or two finds the difference gone round; lab 1 and the violating runs have no
`sleep` but of 0 ticks. `MaxPid` is the number of slots
(`Proc` and `Lab2Proc`), enough for every slot to have its own; lab 1 adds two, for the
pid that init and a `waitpid` remember after its process is gone. A zombie inherited by
init from a process that is not init's child needs a fourth slot; that case
is covered by the proof, which is for every number of slots.

*Log.* `log_atomic` scales the constants down: one block a call, a log of two, so that two calls
fill it and a third waits; three home blocks, so that there is one more than the log
can hold. There `NLOG = LOGSIZE + 1`, a region as big as `begin_op` takes it to be;
`log_reservation` has `NLOG = LOGSIZE`, as `mkfs.c:25` makes it, with three callers and
MAXOPBLOCKS : LOGSIZE = 1 : 3 as in `param.h`.

*Buffers.* Two processes hold up to two of two buffers for three blocks, one of them
pinned: a hit and a miss on the same block, two requests queued, a buffer recycled while another is
waited for, and `bget` finding nothing unused all happen.

*Files.* Four workloads, told apart by `workload`, since what they use is
disjoint: pipes (one pipe of 2 bytes with counters that wrap at 4, writes of 3 bytes, reads of 1), names
(2 names, 2 inodes, 2 cache entries: `open`, `create`, `unlink`, `link`), contents (two new files open, one
by both processes with a common offset, one by a single process; blocks of 2 bytes, 1 direct and 2 through the
indirect block, reads and writes of 3 bytes, which a write does in pieces of one block; 5 blocks on the disk, so that it can
be full; `unlink`, `read`, `write`, `close`), the console (a ring of 3, indices that wrap at 6, reads of 2). 3 open files of which init holds
the console's, 2 descriptors each: `pipe` and `open` fail for want of either. With names there is no
`fork`, `dup` or `kill`, which treat all files alike and are left to the pipes; `dup` is called by a
process that is alone, before it forks; `kill` hits reads and writes, elsewhere it is an
`exit`; and no new path call begins once an inode's last references have raced.

*Memory.* Five pages of user space, programs of one page: in lab 4 program, guard, stack and two pages to
grow into; in lab 3 program, two pages of stack at the top, and two between which
the heap and the stack can run into each other. One entry in the table of shared pages, so that it
can be full, ids 0 and 1, counts up to 2. `sz` goes at most one page past KERNBASE (`MaxSize`), where every panic
that lies there has been met. The two processes are interchangeable (symmetry).

*Fairness.* `Proc!Fairness` (one CPU): weak fairness for the steps taken with `ptable.lock`
held or inside the timer handler: nothing else can run on that CPU. Strong fairness for
the tick: the interrupt stays pending while interrupts are off and is taken
when they come back on. Strong fairness for the scheduler's idle loop, for a process
in the middle of a system call, and for init's own calls: a tick may interrupt them
any number of times, but is long enough for the interrupted code to get on. Nothing is
assumed of other programs: they may run in user mode for ever. All liveness properties
except `InitReaps` hold "or the kernel has panicked", since init exits when its `fork` fails. `SleepsEnd` also
excepts `RoundTheClock`: a process that is woken but kept from the CPU until `ticks` has gone all the way round
finds no time elapsed, and sleeps again.
`BufferCache!Fairness`: the disk answers, and a process that is runnable in the kernel runs
(which is what `proc_liveness` shows of the scheduler); nothing is assumed of who gets a
sleep lock, nor that a process gives a buffer back. `Files!FairSpec`: the same for processes in pipe and
console calls.

*Crashes and files.* `OrderAtRest` says when the disk may be left to a crash: whenever no call of the file
system is in the middle of a transaction, bitmap, block lists, sizes, link counts and names agree. By the
refinement `LogIsAtomic` proves, those are the only states a crash can leave behind: a group of calls is
on disk as a whole or not at all. The exception it names, an inode with no link that is still open,
is freed by the last `iput`; after a crash nobody calls it.

Liveness is deliberately weak in one place. `wait()` takes the first zombie in table
order, so a zombie in a high slot can be passed over for ever by new ones in lower
slots. `InitReaps` says only that init goes on reaping.

## 4. Proofs

`ProcProofs` proves, for every number of slots, CPUs, pids and ticks (with the named
assumptions of `Proc`: at least one of each, and as many pids as slots), that `Spec` implies
`[]` of `TypeOK`, `OneCpuPerProc`, `StackSafe`, `SchedEntry`, `NoLostTick`, `NoMissedChild`,
`ParentsLive`: every safety property of `proc_safety`. The inductive invariant is `IInv`.
What it adds to the properties: `Locking` (which
stage of a CPU means that it holds which lock: a CPU in `sched`, `scan` or `switch` holds
`ptable.lock`, so what it is about to do cannot be disturbed), `Current` (a process in
the middle of `sleep` holds `tickslock`, so no tick can pass), `Forking` (a `fork` in
progress owns its slot and nobody else's), `Alive` (what may run has a stack, init is
always there, no process is its own parent). Without `Locking` the steps of
`sched` would start from states in which two CPUs leave the same process; without
`Forking` two forks could share a slot, and `ForkRun` revive a zombie. There is one lemma
per action, that it preserves `Table`, which is `IInv` without `NoMissedChild`. `NoMissedChild` itself
follows from `Undisturbed`: a step that does not put a process to sleep in `wait` makes no zombie of a child of
one that sleeps there, marks none of those killed and takes no living child away without waking them up.
`Invariance` puts this together.

`Lab1Proofs` and `Lab2Proofs` reuse these lemmas: what the labs take over from `Proc` preserves `Table` as it
does there, and what is new is brought into a form the same lemmas cover (`Switches`, `Yields`, `Frees`, `GivesUp`, `Sleeps`).
For lab 1 `LabInv` adds who is in `waitpid` (`WaitingFor`: from the first sleep to the return it is off its CPU or back at the
loop, which rests on `Onward`, that nobody goes on with its own code in the middle of a sleep) and what a sleeper
relies on (`SeesAll`). `OwnChildSeen` is `WaitpidOwnChild`, `LabStacksSafe` that a `waitpid` that reaps somebody else's child
frees no stack in use. Both hold for any number of CPUs as long as `IdleAlone` does: an idle
CPU that finds nothing RUNNABLE takes slot 0, and must not take it from another CPU. On one CPU that is always so, which
is proved; with the two CPUs of lab 1's Makefile it is not.

In both labs the loop over the table is a recursive function. What it computes (`PassFinds`: the earliest of the best; in lab 2
also that everybody else who can run is one step older) is proved by induction over its rounds (`RoundsGoOn`), in the form that a
set of natural numbers has a least element (from the well-foundedness of < in the library): `LoopRounds`,
that the function exists, `LoopSteps`, what one round keeps true of the slots seen so far, and `LoopFinds`. For lab 1 this gives
`BestIsChosen` (`BestChosen`), for any number of CPUs, whatever values the priorities have.

In lab 2 the induction needs that between two passes no flag `selected_To_Run` is set, which is an invariant: the scheduler clears
the one it has chosen, `allocproc` that of a new slot. Within a pass the flags then mark the candidate and nothing else, and each
slot is aged at most once, because the candidate's own priority is untouched until it is displaced. `WaitersAge` is `Aging`;
`HighestRuns` is `HighestFirst`, on one CPU, where with nothing RUNNABLE slot 0 is init, asleep in `wait`.

`LogProofs` proves every safety invariant of `log_atomic`, for every size of log, region and
reservation and any finite set of callers. The assumptions are `Log`'s: a reservation is no larger
than the log (`param.h:11`), the log is smaller than the disk (`mkfs`), a call writes at most MAXOPBLOCKS
blocks (in the model). Nothing is assumed of the size of the region: `mkfs.c:25` makes it LOGSIZE blocks, the header
included, one less than `begin_op` takes it to be. `LogFits`, that what is logged fits beside the header, is therefore proved
twice. `LogStaysInRegion` holds for every region and rests on the test in `log_write` alone: since that test is made
without `log.lock`, it has the hypothesis `CheckedAlone`, that no two callers are between the test and the append at once.
`LargerRegionSuffices` needs no such hypothesis, but a region with a block for every entry (`LOGSIZE <= NLOG - 1`), and
rests on the reservation. Neither says that no caller panics: in a full log `log_write` panics for a block that is
logged already as well (`log.c:218`), and in mkfs's region a caller whom `begin_op` has admitted meets a full log
(`log_reservation`). For the second the inductive invariant has to say why
the reservation of `begin_op` is enough although nothing counts how much of it a call has used.
`Used` is that count: the blocks callers have written and that are in the log, once
for each caller that wrote them. `Reserved` says that what is in the log and what callers may still add
fits: a call that adds an entry adds to `Used` as well, and at the end of a call at most
MAXOPBLOCKS pairs of `Used` go with its reservation. `PartnersBound` (a relation in which each of k
elements has at most n partners has at most k * n pairs) turns that into the panic's test.

`LogIsAtomic` says that `Log` implements `AtomicDisk` as long as `LogFits`, hence (`CheckedAloneIsAtomic`) in mkfs's region too
as long as callers are `CheckedAlone`: every step, the crash and each write of commit and recovery included, is a step of `AtomicDisk` or changes
nothing there. `CopyInv` is what that needs: the header on disk is that of memory while the
log is copied home and empty before; a buffer that is neither pinned nor locked is as its block
on disk; what has been copied is the same on both sides. It follows that writing the
header is the commit: until then `Recovered` ignores the log, from then on it equals what
callers see, however far the copying has got.

`BufferProofs` proves every safety invariant of `bio_store`, for any finite set of buffers and
of processes, any set of block numbers, any number of buffers held or pinned. The difficulty is that a
buffer has two locks that are never held together, and that kill() can wake anybody anywhere. `Hands` says
that a process has buffers just while it is in a call, and in increasing order of their blocks: a
process that asks for another block cannot meet one it has (it would wait for itself). `Flags` says what the
flags of its buffers are at each place; in particular that a process that is awake in `iderw` has been served
or is still in the queue, so that going back to sleep is safe. `Counted` and `Owned` are the two halves of
`NoTwoCopies`: the count keeps a buffer from being recycled between `bget` and `acquiresleep`, the lock
keeps others from its contents. `QueuedAsked` finds the owner of each queued buffer, hence that owners in other
places have theirs not queued and may change flags and contents without the controller noticing.

`CacheIsStore` says that `BufferCache` implements `BlockStore`. `LockBuffer` takes a block, `Brelse` gives
it up, `Modify` changes it, `Bwrite` asks for it to be stored, and the interrupt that ends a write stores it;
everything else changes nothing there. The step that needs the invariant most is `BgetMiss`: the recycled
buffer is clean, nobody has it, so by `CleanIsStored` the disk holds what the buffer held. `Log` is modelled over
these promises; no module composes the two, so that
the log keeps its promises on the driver's queue and the recycling of buffers is an argument made here
from the two theorems, not a third theorem.

`KernelsProofs` proves every invariant of `memory`, for any finite set of processes, any layout of pages
and any table of shared pages. Its inductive invariant says what refers to each frame: the page of one process,
the free list, or the table, and how often. It is stated for as long as no frame has been freed while in
use (`misfreed`), which is as far as `FramesAccounted` claims anything, and only lab 4 gets past that point.
What the proofs assume of the constants is in `MemoryAssumption`: there are finitely many processes, and the
value that stands for "nothing" is none of the frames and pages.

`FilesProofs` proves for `Files`, for any finite set of processes and any tables, that the place a
call has reached determines its local variables and the locks it holds (`CallInv`), and from that `NoOtherDeadlock`:
who holds an inode's lock wants no other lock but the directory's, and that only in `create` and `unlink`,
who holds the directory's wants an inode's; so a set of processes each waiting for another of the set
contains one of those two. `CallInv` is inductive together with `RefInv` (`CallsAndRefs`): where the two `fileclose` of a
failed `pipe` lead depends on the counts of its files.

Its second part proves `RefCounts`. `RefInv` splits it into files, icache entries and pipe ends, and adds
that the files `pipe` has taken and not yet published (`HeldFiles`) are as `filealloc` left them or the ends of its
new pipe, each with one reference. Each count is the cardinality of a
set, so that a step that takes a reference adds one element to one of these sets and one to
the count; what has to be shown is that the element was not there before (a free file is in nobody's
descriptors, which follows from its count being 0) and that the step touches no other set. `fork` adds a whole row of
descriptors at once. That the number of references is never less than the number of those who rely on
the object is what makes the last `fileclose` and the last `iput` the last.

Its third part proves `NamesAndLinks` and `OnlyRacingPutsLeak`, on `CallInv` and `RefInv`. `NameInv` adds what each call has
found out on its way and still relies on (`Progress`): `create` that nobody but droppers has its new inode and that
the name is still free, `unlink` that the name still leads to its inode, `iput` on its way to free that its
reference is the last and no name is left, `link` that the name it collided with is still there. What makes these stable
is the directory's lock for the names, and the inode's link count for everything else: an inode with
a name or with somebody who relies on its entry has links or a reference, so no `iput` frees it. `Links`
counts the names and, as one more function, the processes that owe a link or its removal; each step changes each
in one place. `Kept` says why every allocated inode is allocated, which is `OnlyRacingPutsLeak` and more.

`ContentProofs` proves `OrderAtRest`, for any number of blocks and any split of an inode into direct and indirect
ones. `OrderAtRest` speaks of moments without a call in the file system; `BlockInv` says what holds between them.
`Owned`: a block marked in use is in one place of one inode, always, since `balloc` and the pointer to the block, `bfree`
and its removal are under one lock. `Laid`: an inode has the blocks its size needs (`Settled`), and while somebody writes
to it also those of the piece that is being written (`Partial`): `writei` takes blocks first and sets the size when it is
done, so in between an inode has more blocks than its size says, and only in between. The steps that need most are
`writei`'s, whose pieces stay in one block (`BlockOf`: the first new byte is in the first block the file lacks,
so no hole appears), and the last `iput`'s, which frees every block: by `RefInv` its reference is the last, so no open file
has the inode, nobody is in the middle of a write to it, and no offset is left beyond the new size 0 (`Sized`). With no call in
progress nobody owes a name, so `Links` says that link counts are numbers of names, and only files rely on entries, so
`Kept` says that an inode without a name is open.

`SleepersAreWoken` (same module) is `NoStrandedSleeper`, for any size of pipes and of the console's ring and any
multiple of it at which the counters wrap. `StreamInv` says that a pipe never holds more than it has room for and
what a call on it has asked for (`Asked`: who is in `piperead` or `pipewrite` has a pipe, and a number of bytes to
read or bytes to write), and of the console that `r`, `w` and `e` follow each other within one ring's length. Distances
between wrapping counters are added and subtracted by a handful of lemmas (`FirstMoves`, `SecondMoves`,
`SecondBack`), on which everything else rests. A writer sleeps only when it has filled the pipe, after a wakeup; if it
gives up without one it marks the pipe `unannounced`. A reader of the console sleeps only when it has
taken all that was delivered, so `r = w`; and a ring that is full has its last line delivered (`Type`
ends the line when the ring fills), so that it never waits for a reader who waits for it.

`LinesDelivered` and `PipesDeliver` (same module) say what pipes and the console deliver. Both keep their bytes in a ring
under counters that wrap around at `W`; the place of a counter in the ring is its remainder by the ring's size `N`, and
because `N` divides `W` (the assumptions `PipeAssumption` and `ConsoleAssumption`, 512 or 128 against 2^32 in the code) no place changes where a
counter wraps. With that a ring between two counters is a sequence (`InRing`), taking from the front
drops its head (`HeldFront`), two neighbouring stretches are one (`HeldJoins`), writing at the end
appends if there is room (`RingAppends`), and a write beyond the end changes none of it (`Beyond`). The console has two such
stretches, what is delivered and what is edited; `LinesDelivered` is `ConsoleDelivers`. `PipesDeliver` is that `Files`
implements `Channel`; what it needs besides is `ChannelInv`: a process in a call on a pipe has a descriptor of that end of it
(`PipeUsers`), for as long as the call lasts, so that by `RefInv` the end is open when its bytes move; and a page that is
no pipe is empty. Each step is then one of `Channel`'s or none. `Channel` leaves open which bytes a writer adds;
`WritersAreHeard` says it.

`TypeCorrect` (same module) is `Files!TypeOK`. Most of it the invariants above need anyway; the rest are the entries
of the table of inodes, those in nobody's use included, and the flags of `kill`. A place in a
call is one of the finitely many of `Label`, which `TypeOK` names.

Every safety property of the passing runs is a theorem, and so are the refinements. Only model-checked: liveness
(neither fairness nor ENABLED can be handled by the prover in use), and what the violating runs refute. There is no
recursive operator.

## 5. Findings and known defects

Four runs show a disagreement between the code and what the repository says of it:

- `kill` does not look at the state of a slot (`proc.c:486`): `proc_born_killed`.
- lab 1's `waitpid` waits for any pid but is woken for children only: `lab1_waitpid_any`.
- lab 2's aging stops at 0 and ties go to the lower slot: `lab2_starvation`.
- the log region is one block shorter than `begin_op` assumes, and a full log
  refuses blocks it already holds: `log_reservation`.

The properties of the other runs name the cases in which the code does not do what one would
hope, so that everything else is checked:

- `OnlyRacingPutsLeak`: `iput` looks at `ref` before it drops its own reference (`fs.c:342`); the last
  two references, put at the same time, each see the other, and the inode is never freed.
- `OnlyDirectoryPutsDeadlock`: `unlink` puts the directory, which locks it, while it holds the
  inode's lock (`sysfile.c:225`), and so does `create` (`sysfile.c:281`); another call that holds the directory and
  waits for that inode completes the circle.
- `NoStrandedSleeper`: a writer that fills the pipe and is then killed, or finds no reader,
  returns without a wakeup (`pipe.c:86`); a reader may sleep on with bytes in the pipe.
- `FramesAccounted`: lab 4 frees frames that other page tables or the table of shared pages
  still use, when a process that has one exits, shrinks or calls `exec`; `copyuvm` loses a frame when
  `mappages` fails (`vm.c:335`).
- `WriteiFails` (no property): a `write` that meets the end of what a file can hold returns -1 after earlier
  pieces have been written, and two writers of a file may interleave piece by piece (`file.c:140`).
- `SizeIsMapped`, `PanicsExplained`: `shm_open` makes the process a page longer though the table is full or
  a mapping failed, `shm_open(0)` takes an unused entry for a page, and `fork`, `exit` or `sbrk` panics over
  the hole later. It makes the process a page longer at every call, for the same id again too, and never looks
  at KERNBASE: when `sz` gets there the next mapping panics ("remap"); with the table full it goes beyond, and
  `fork` ("remap") and `sbrk` ("kfree") come to pages of the kernel. In lab 3 `exec` maps two stack pages but counts one, `copyuvm` takes PTE_U from a page of the
  parent, `my_sp` is not copied by `fork`: stack pages used in another order than downwards end in the
  panics "remap" or "clearpteu".

## 6. Plan

1. `filewrite`'s split of a write against the reservation of the log (`file.c:133`): `Contents` counts blocks
   taken, not yet the blocks a piece hands to `log_write`.
2. Directories of more than one level: the order in which `namex`, `mkdir` and `unlink` lock them.
3. `Log` over `BlockStore` in one module: its disk and buffers replaced by the store the buffer cache implements, so
   that the step from the two theorems to the log on the driver's queue is a theorem too.

## 7. Not modelled

Boot and device set-up, user programs other than init, path names of several elements and
the shape of directories, page-table arithmetic, the bytes of files, statistics and printing (turnaround
times, burst counts, exit status values), console output: sequential code, I/O or data no property
tells apart. Disk errors: the driver reports none. A crash while an unlinked file is open
leaves its inode allocated for good: recovery is the log's alone and knows nothing of
inodes. More than one CPU in the modules of the file system: their locks are spin locks and sleep
locks, whose sections are steps whatever the number of CPUs. Labs 1 to 3 repeat
most of the base kernel's files; each is modelled once, from `xv6_lab4`.
