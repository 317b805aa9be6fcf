# A verification project for the xv6-public kernel of Operating-System-Assignments

The repository is an xv6 kernel for x86 multiprocessors with its user programs, extended
by an operating systems course: three more schedulers (`FCFS`, `MLQ`, `DMLQ`, chosen with
`SCHEDFLAG` when the kernel is built), process statistics (`waitnstats`, `csinfo`), and the
system calls `chpr`, `ps`, `memtop` and `yield`. All paths below are relative to
`src/Assignment1/xv6-public/` of the repository.

Everything here is TLA+: the modules say what the kernel and the programs do, TLC checks
them on small instances, and TLAPS proves for every instance what matters most of the
process table and its schedulers, the log, the buffer cache, names and contents of files,
pipes, the console, memory, `malloc()` and the kernel's locks.

    tlc -workers 2 -config MCSchedFCFS.cfg MCSchedFCFS.tla     # a run (see section 4)
    tlapm FileSystemProofs.tla                                  # proofs (see section 5)

## 1. Inventory

### Components, their state and their operations

| component | state | operations | correct if |
|---|---|---|---|
| process table (`proc.c`, `sysproc.c`, `trap.c`) | `ptable.proc[NPROC]` (state, pid, parent, chan, killed), `nextpid`, `cpu.proc`, who holds `ptable.lock` | fork/allocproc, exit, wait, waitnstats, sleep, wakeup, kill, yield, sched, scheduler, forkret | a process is on one CPU at most; no exit is lost, nor a kill of who waits for a child or for the clock; every process has a parent alive to reap it; the lock survives `swtch()` |
| DEFAULT scheduler | each CPU's scan position | table scan | every RUNNABLE process gets a CPU |
| FCFS scheduler | `pqueue`, a heap keyed by `timecreated` | insert, remove, shiftup, shiftdown | the heap holds exactly the RUNNABLE processes; the earliest created runs |
| MLQ and DMLQ schedulers | `multiqueue`, a ring of `NPROC + 1` cells per level; `priority` | enque, deque, isempty, swapque, chpr; priority changes of wake up, quantum and exec | every RUNNABLE process is in the ring of its priority once; levels are served highest first, each first in first out |
| clock and time accounting (`trap.c`, `sysproc.c`) | `ticks`, times per process | tick, sys_sleep, uptime, updateprocesstimes | sleepers are woken; times add up |
| spin locks (`spinlock.c`) | locked, cpu; `ncli`, `intena` per CPU | acquire, release, holding, pushcli, popcli | mutual exclusion; no deadlock with interrupts or another lock order |
| sleep locks (`sleeplock.c`) | locked, pid | acquiresleep, releasesleep, holdingsleep | exclusion; no waiter is forgotten |
| log (`log.c`) | log and header on disk, `lh`, `outstanding`, `committing` | begin_op, end_op, log_write, commit, recovery | a file system call is on the disk as a whole or not at all, whenever the machine stops; a call never runs out of log |
| buffer cache (`bio.c`) | buffers with block number, references, flags, LRU list | bget, bread, bwrite, brelse | one copy per block, changed by its owner only; a pinned buffer stays |
| IDE driver (`ide.c`) | `idequeue`, the drive | iderw, idestart, ideintr | every request is served once and its process woken |
| inodes, directories (`fs.c`) | inode cache, inodes and directories on disk | ialloc, iget, ilock, iput, dirlookup, dirlink, namex | references and links are counted right; nothing named or in use is freed |
| contents of files (`fs.c`, `file.c`) | bitmap, addresses of an inode, the indirect block | balloc, bfree, bmap, writei, readi, itrunc, filewrite's chunks | a block belongs to one file; what is read is what was written; a chunk fits the log |
| open files, file system calls (`file.c`, `sysfile.c`) | `ftable`, `ofile[]` | filealloc, filedup, fileclose, fileread, filewrite; open, dup, pipe, link, unlink, mkdir, mknod, chdir, exec | references; no two calls see half of a third |
| pipes (`pipe.c`) | ring of bytes, `nread`, `nwrite`, open ends | pipealloc, piperead, pipewrite, pipeclose | bytes come out in order, once; nobody sleeps beside what it waits for |
| memory (`kalloc.c`, `vm.c`, `exec.c`) | free list, page tables | kalloc, kfree, allocuvm, deallocuvm, copyuvm, freevm, setupkvm, exec, sbrk | a page has one owner; failure half way gives everything back |
| console (`console.c`, `kbd.c`, `uart.c`) | input ring `r`, `w`, `e`; `cons.lock` | consoleintr, consoleread, consolewrite, cprintf | lines are read as edited; the ring does not overflow |
| argument fetching and libraries (`syscall.c`, `string.c`, `ulib.c`, `printf.c`) | - | fetchint, fetchstr, argptr, memmove, strncpy, safestrcpy, printint, atoi | edges: overlap, bounds, the least integer, sums that wrap |
| `umalloc.c` | free list of `malloc` | malloc, free, morecore | blocks do not overlap; neighbours are joined |
| shell (`sh.c`) | its descriptors and children | parsecmd and its parts, runcmd, fork1, main | the tree is the one the line means; pipelines end; the prompt comes back when the command is over |
| programs and tests (`init.c`, `echo.c`, `cat.c`, ..., `usertests.c`, `stressfs.c`, `grep.c`, `wc.c`) | - | sequences of system calls | the tests pass whatever order their processes run in |
| `mkfs.c` | the image being built | ialloc, iappend, balloc, main | the kernel finds each file in the image; the bitmap has the blocks in use |
| boot code, interrupt controllers, `kernelModule/`, printing of the sources | - | - | not modelled, see section 8 |

### How they interact

* Every blocking operation ends in `sleep(chan, lk)`, which takes `ptable.lock`, lets
  `lk` go and calls `sched()`; every `wakeup(chan)` makes sleepers RUNNABLE under
  `ptable.lock` and, in the FCFS, MLQ and DMLQ builds, queues them. `kill()` does the same
  to one process without knowing `lk`.
* `sched()` switches to the CPU's scheduler with `ptable.lock` held, and the scheduler
  switches to a process that releases it.
* The timer interrupt of CPU 0 advances `ticks` and wakes sleepers; on every CPU it takes a
  process that has used up its quantum (5 ticks; not in the FCFS build) off the CPU.
* File system calls run between `begin_op()` and `end_op()`; they lock inodes, one below
  the other, and buffers, one inside an inode; `log_write()` pins these until the last
  `end_op()` commits them.
* The buffer cache queues requests at the IDE driver and sleeps until `ideintr()`.
* `iput()` frees an inode and its blocks when the last reference and the last name go,
  which may be in `exit()`, `close()`, `chdir()` or `unlink()`.
* init runs the shell, the shell forks a child per command, and the ends of a pipe are
  open descriptors that every `fork()` copies: who has closed which decides when a reader
  sees the end.

### What is hard

Interleavings of CPUs between critical sections (fork fills a slot without the lock); the
hand-over of a lock between contexts; wake ups and kills against a process on its way to
sleep; six places that keep the ready structure in step with the table; the arithmetic of
heap and rings at their edges; crashes between disk writes; calls on names that another
process takes away in between; locks taken in two orders; resources (log, buffers, pages,
blocks) that several users share and that run out half way; counts that wrap; long
sequences of legal calls. `PROJECT.json` lists each at its line (`hazards`), with the
properties that watch it.

## 2. Modules

| module | models | refines |
|---|---|---|
| `ProcTable` | the process table and the switch between processes and schedulers; which RUNNABLE process runs next is left open | |
| `SchedDefault` | `ProcTable` with the table scan of `SCHEDFLAG=DEFAULT`, and fairness | |
| `RoundSched` | what the queueing builds share: a scheduler round, and whom each wake up queues in which order | |
| `FcfsHeap`, `SchedFCFS` | the heap as operators; `ProcTable` with the heap | `FcfsPolicy`: first come, first served, without a data structure |
| `MultiQueue`, `SchedMLQ` | the rings as operators; `ProcTable` with rings and priorities, for `MLQ` and `DMLQ` | `MlqPolicy`: levels that are FIFO queues |
| `MCQueues` | heap and rings on their own, larger (beside a pipe and the console) | `FifoLevels` |
| `KernelLocks` | spin locks, the order in which each path takes them, interrupts and `ncli` | |
| `Log` | the log over buffers and a disk that can stop at any time | `AtomicDisk` |
| `BufCache` | buffer cache, sleep locks, IDE queue and interrupt | `BlockStore` |
| `FileSystem` | inode cache, directories, the calls on names, crashes | `NameSpace`: a tree whose names change one at a time |
| `FileBlocks` | bitmap, direct and indirect blocks, reading, writing and truncation | |
| `Pipe` | one pipe with its readers and writers | `Channel`: a bounded FIFO of bytes |
| `Console` | the input ring | `Terminal`: a line being edited and a queue of lines |
| `Memory` | pages, page tables, `fork`, `exec`, `sbrk`, `wait` | |
| `Umalloc` | `malloc` and `free` | |
| `SysCalls` | the system calls as programs see them, one step each unless they block | |
| `UserPrograms` | the programs, and each test of `usertests.c`, as instructions for `SysCalls` | |
| `Shell` | the shell: from characters to tokens to a tree; how the tree is run | |
| `Programs` | all of them together: init, the shell and what is typed | `Means` of `Shell` (what a line means) |
| `Texts`, `MkFs` | algorithms: `grep` and `wc`; the C library and the fetching of arguments; the image that `mkfs` makes | definitions of what they should find |
| `SchedulerProofs` | theorems about `ProcTable`, `SchedDefault`, `FcfsPolicy`, `SchedMLQ` and the operators of `MultiQueue` | |
| `FcfsProofs` | theorems about `SchedFCFS` and the operators of `FcfsHeap` | |
| `LockAndLogProofs` | theorems about `KernelLocks` and `Log` | |
| `FileCallProofs`, `FileSystemProofs` | theorems about `FileSystem`: references and locks of calls in the first, which the second extends by disk and names | |
| `RingProofs` | theorems about `Pipe`, `Console` and `Umalloc` | |
| `BuffersAndPagesProofs` | theorems about `BufCache` and `Memory` | |
| `FileBlocksProofs` | theorems about `FileBlocks` | |
| `MC*` | the instances TLC checks; `MCQueues`, `MCFileSystem`, `MCStructures` and `MCPrograms` hold several modules that share no state, of which one moves in a behaviour | |

Definitions carry the names of the C functions where there is one. A definition whose
comment begins with *Mutant* is the definition after it with a plausible bug; no behaviour
uses it. It is there to show that a property notices that bug: in `PROJECT.json` every
property of a passing run has one.

## 3. How state and actions correspond to the code

### The process table

State: the fields of `struct proc` as functions of the slot (`state`, `pid`, `parent`,
`chan`, `killed`), `nextpid`, `cpuproc` (`c->proc`), `ptlock` (the CPU that holds
`ptable.lock`), `kpc` (where a process is in its system call), `ctx` (what its saved
context resumes: `forkret`, `yield`, `sleep`, or "live" when it has the CPU) and `child`
(fork's local `np`).

A critical section of `ptable.lock` is one action when it does not switch context:
`AllocProc`, `ForkRun`, `Reap`, `WaitFail`, `Kill`, `Tick`. `wakeup1()` loops inside its
caller's section, so `Woken` is part of the caller's action. A section that ends in
`sched()` (`Exit`, `WaitSleep`, `TickSleep`, `Yield`) leaves the lock with the CPU;
`SchedAcquire`, `Dispatch`, `SchedRelease` are the scheduler's loop, and `Resume` is the
process that comes out of `swtch()`: it releases the lock, except in `wait()`, which goes
on scanning with it. `ForkNoMemory` and `ForkCopy` run without the lock, as in the code.

Left open on purpose: a timer interrupt may find the quantum used up at any time outside
`tickslock` (ticks are not counted); `sys_sleep()` may find its time up whenever it looks;
a process does not return from a call with a result, since nothing here depends on it.
Sleep channels other than a process (`wait`) and `&ticks` belong to the modules of their
users, which rely on the behaviour of `sleep`/`wakeup` that is modelled here: what
`WaitSeesKill` and `KillSeen` say of kills is about sleeps in `wait()` and `sys_sleep()`, and
cannot be said of those in a pipe or at the console (section 6). Nobody kills
init, and init does not exit: the kernel panics then.

### The schedulers

`SchedDefault` replaces `Dispatch` by a scan that goes on where it left off. `SchedFCFS`
and `SchedMLQ` conjoin to each action of `ProcTable` what the code does to the ready
structure at that place: `insert()`/`enque()` in fork, yield, wake up, exit's wake ups (the
parent first, then init) and kill, `remove()`/`deque()` in `scheduler()`, which then does
not look at the state. In `SchedMLQ` the rigid variable `build` chooses between MLQ
(`chpr`) and DMLQ (wake up raises to `HIPR`, a used up quantum lowers by one, `exec` sets
`MDPR`); the change of priority at the end of a quantum, made just before `yield()`, is
part of the yield (nothing but that process reads its priority while it is RUNNING: `chpr`
is not part of DMLQ). Cells that `deque()` gives up are cleared, so that stale contents do
not multiply states; `enque()` writes a cell before it is read again. Cell -1 is the word
in front of a ring, where `swapque()` writes.

### Locks and interrupts

`KernelLocks` writes each path of the kernel as the sequence of what it does to spin locks
(`acquire`, `release`, `sched`), and lets processes, interrupts and CPUs interleave it.
`ncli`, `intena` and the interrupt flag are those of `spinlock.c`; a process that left its
CPU may go on on another one, where `sched()` restores its own `intena`. Locks that are
taken under the same conditions are one lock (`SleepLocks`, `PlainLocks`).

### Log and buffer cache

`Log`: on disk the blocks (`home`), the log (`logged`) and the numbers in its header
(`header`); in memory the buffers, `lh`, `outstanding`, `committing`. A block reaches the
disk whole (BSIZE is one sector), so one disk write is one action: `WriteLog` and
`InstallOne` per block, `WriteHead`, `Erase`, and `Recover` and `Clear` for recovery.
`LogCrash` is enabled between any two. Log blocks beyond the header are forgotten once it is
erased, as nothing reads them. A call's budget `MAXOPBLOCKS` counts its `log_write()`s.

`BufCache`: sections of `bcache.lock`, of a sleep lock and of `idelock` are actions; `Pin`
and `Write` stand for what the log does with a buffer it has (mark it dirty; write it). A
recycled buffer's old contents are normalised, as `bread()` overwrites them before use.

### Files

`FileSystem` has two layers of state: `dinode` and `entry` are what the disk has, `inode`
and `ref` the inode cache, `lock` the sleep locks of inodes, `call` where each process is in
its system call and `todo` the locks and references it still has to give back. What happens
between `ilock()` and `iunlock()` is one action unless the process takes another inode's
lock meanwhile: `create()` and `unlink()` hold the directory while they wait for the inode,
which is where circles come from. `dirlink()` of a name that is there takes a reference and
puts it under the directory's lock, as the code does. A crash takes the disk back to the
last moment without a call, which `Log` establishes. `TreeSpec` says that all this changes
names one at a time and frees nothing that is named or used.

`FileBlocks`: each round of a loop (`balloc`'s search, `bmap`, `writei`'s `bread`, a `bfree`
of `itrunc`) is an action, so that files compete for blocks. A word says which file and
place it belongs to, so that a misplaced one shows. `op[p].log` is the set of blocks that a
transaction has logged, the bitmap's included.

### Memory and malloc

`Memory`: every `kalloc()` and `kfree()` is an action, in the order of the loops of `vm.c`;
an image (directory, tables, pages) is built beside the old one by `exec()` and `fork()`,
and taken down by `freevm()`. `Umalloc`: one round of each loop is an action; addresses are
counted in headers; `sbrk()` by the program itself leaves gaps.

### Pipe and console

A critical section of `p->lock` or `cons.lock` is an action up to the decision to sleep;
between this and the sleep (`dozing`) the lock is held, and `kill()`, which does not need
it, can come. Counts are modulo a small number, so that they wrap.

### System calls and programs

In `SysCalls` a program is a sequence of instructions. Each is a system call with its
arguments, the variable that gets the result, the results with which the program goes on
(`want`), what it does instead after an error that it handles (`other`), and a body for
`while((n = read(...)) > 0)`. `exit()` is the end of the sequence, or being killed. A call
is one action here, unless it blocks: `wait()`, a read of an empty pipe, and each part of a
write that does not fit at once are steps of their own; the modules above are about what
happens inside. The table of processes, descriptors, open files, pipes, memory and inodes
is finite, and the calls fail when it is full, as in the code (`open()` with `O_CREATE`
leaves the file behind even then).

Of the tests, `UserPrograms` has one definition each, in the order of the calls in
`usertests.c`, with shorter loops. `verdict` becomes FALSE when a result is not one the
test takes for right. Each test is typed at the shell of a fresh system, as a line of its
own; `main()` runs them one after the other, which the small tables do not need to repeat.

`Shell` builds the instructions of a tree of commands as `runcmd()` would run it, and
`GetCmd` is the shell's loop. `Means` says what a line means without processes: the
contents of files, and what is printed.

`Texts` and `MkFs` have no steps: they are functions, and `MCPrograms` evaluates
them on all small inputs, one group of inputs for each initial state.

## 4. Runs

Passing runs:

| run | instance | what it shows |
|---|---|---|
| `sched_fcfs` | 3 slots, 2 CPUs, pids up to 4, clock up to 1 | `PolicySpec` (refinement of `FcfsPolicy`, which implies that the heap holds the RUNNABLE processes); of the process table below it, `TypeOK`, `OneCPUPerProc`, `LockHandoff`, `NoMissedExit`, `ParentsLive`, `PidsUnique`, `WaitSeesKill`, `EmbryoOwned` |
| `sched_default` | 3 slots, 1 CPU, pids up to 3 | `EveryProcessRuns`, `KillSeen` (of who computes, waits for a child or for the clock), `OrphansReaped` |
| `sched_mlq` | MLQ and DMLQ, 2 slots, 2 CPUs, 2 levels | `MultilevelFifo` (refinement of `MlqPolicy`) |
| `buf_cache` | 2 processes, 3 buffers, 4 blocks, 1 pinned | `OneCopy` (refinement of `BlockStore`), `BufferKept`, `NoLostWakeup`, `BuffersReturned` |
| `queues` | a heap of 5 with 3 creation times and rings for 3 at 3 levels; a pipe of 2 with 1 reader and 2 writers; a console of 2 cells with 2 readers | `ReadyInOrder` (the earliest first; `FifoLevels`), `BytesInOrder` (`Channel`), `SleepersWoken`, `TerminalSpec` (`Terminal`) |
| `file_system` | 2 processes, 3 inodes, 2 names, 1 open file, within `Small`; 2 calls of 2 writes, 3 blocks, a log of 4 with its header | `CountsHold`, `CirclesPutUpwards`, `TreeSpec` (refinement of `NameSpace`); `CrashAtomic` (refinement of `AtomicDisk`), `DurableWhenQuiet`, `SpaceReserved`, `SleepsForCause` |
| `structures` | 12 pages for 3 processes; a heap of 9 headers; 2 files of 3 blocks on a disk of 4, with 2 writers; 2 CPUs with 2 nested traps | `MemoryKept`, `ArenaTiled`, `BlocksKept`, `WritesFit`, `CirclesThroughPs`, `InterruptsKept` |
| `programs` | 7 processes that run 33 tests and 11 sets of lines; all inputs of the algorithms up to a size | `AsExpected`, `OutputAsMeant`, `EveryLineEnds` (but for `Contended`); `ParsedRight`, `TextsRight`, `ImageRight` |

Runs that end in a violation, each a finding (section 6): `chpr_wrapped`, `fs_deadlock`,
`log_full`, `ps_deadlock`.

### Bounds, and why they are enough

* `sched_fcfs`. With three slots a parent can leave a running child or a zombie to init;
  two CPUs interleave any two critical sections. `MaxPid = 4` uses a slot twice. The
  invariants of the process table are checked under this scheduler, whose steps are steps
  of `ProcTable` (proved, section 5).
* `sched_fcfs`, `sched_mlq`. The clock of the one stops at 1 (`MaxTicks`): two creation
  times, ties included. Two levels of the other are enough to go up and down, and two slots
  for the agreement of ring, priority and state at each place that queues. The order inside
  heap and rings, where it takes more processes, is checked by `queues`: a heap of five has
  three levels, a node with one child and one with two, and rings of four cells wrap
  around. `sched_mlq` and `queues` set `AnyRing = FALSE`: `chpr()` is called only where the
  ring has not wrapped, as otherwise the finding of `chpr_wrapped` breaks everything.
* `buf_cache`. Three buffers for 2 processes and 1 pinned block recycle at every other
  read, and a fourth block forces recycling. That `bget()` always finds a buffer is not
  claimed: a process of the kernel holds two at times, and there are 30 for 64 processes
  and a log of 30 (section 6). `BuffersReturned` is what the cache itself owes: references
  are those of the processes that have the buffer.
* `queues`. Writes of 3 bytes do not fit a pipe of 2; counts modulo 4 wrap after two
  rounds. Deadlock is not checked: the system stops when every end of the pipe is closed.
* `file_system`. Three inodes make a directory in a directory, two links to a file, and a
  directory that is removed while a process is in it. `Small` keeps one of the two
  processes, whichever, in the root directory, and while a file is open the tree has at
  most one name and everybody is in the root: an open file matters to the inode it holds
  and to the name that may be unlinked, not to others. Walks go down, by names; `..` is
  counted as a link, and `.` and `..` may be the last element of a path, which
  `nameiparent()` hands on to `create()`, `link()` and `unlink()`. `MaxLinks` is a bound of
  the model: `create()` and `link()` in a directory that has been removed add links that
  nothing takes away. Deadlock is not checked, for calls do wait for each other
  (`fs_deadlock`); `CirclesPutUpwards` says what every such circle needs.
  The log: two calls that begin together, a third when one of them begins again, so that
  the log fills up, absorbs writes and makes calls wait. It has `NLog = LOGSIZE` blocks, as
  mkfs makes it. `log_write()` then panics now and then, which ends a behaviour until the
  machine stops and starts again; `log_full` is about that.
* `structures`. Pages: three processes on 12 pages, where two can grow beside an `exec()`
  and not all. Blocks: direct, indirect and the indirect block itself; a file can be as
  large as the disk. `MAXOPBLOCKS = 6` is what `filewrite()` divides for a chunk of one
  block. A bitmap block holds one bit, the worst case for `WritesFit`. Locks: two traps at
  a time on two CPUs are what a circle of two needs. Deadlock is not checked: `balloc()`
  panics without blocks, and `ps()` can stop both CPUs.
* `sched_default`. One CPU: with two it does not finish in reasonable time, and starvation
  by the scan is a matter of one CPU's scan.
* `programs`. Tables are as large as the largest test needs and smaller than the sum
  (`NFILE` 8, `NPIPES` 2, memory for 10 processes and 7 slots), so that `forktest` runs out
  of slots, `mem` and `sbrktest` out of memory. A pipe of 2 units makes every writer of a
  test wait. The shell's parser sees every line of up to five tokens, `grep` every pattern
  of three characters on every text of four, and texts of five in reads of one to five
  characters with a buffer of four; an `int` has 256 values, all of them tried; `mkfs` gets
  up to three files of every size through the indirect block. Deadlock is not checked: when
  everything typed has been done, the shell waits for input. A call on names is one step
  here, which cannot wait for an inode: so `EveryLineEnds` says nothing of a line once two
  of its processes are in such calls and one of these is `unlink()` or `link()`
  (`Contended`). Of the tests `concreate`, `createdelete`, `fourfiles` and `linkunlink`
  come to that; `fs_deadlock` shows that they may indeed not end.

### Fairness

* `SchedDefault`: strong fairness of actions that must win a spin lock (`acquire()` spins
  on an atomic exchange; the hardware is assumed not to starve a CPU for ever): the start of
  a scheduler's round, a yield, the kernel steps of a process, the tick. Weak fairness of
  the scheduler's own steps while it holds the lock. The timer takes every process off its
  CPU (`trap.c:104-114`), whatever it does. A process in the kernel goes on when it has the
  CPU; one in user mode need not, unless it has been killed (`trap.c:101`). init calls
  `wait()` for ever (`init.c:34`) and never `sleep()`. No fairness is assumed of user
  programs, forks or kills.
* `Programs`: weak fairness of the whole step relation: as long as some process can run,
  some process does, which the scheduler gives. No more is needed: no program here goes
  round for ever (the children of `preempt` and `sbrktest` that loop are processes with no
  step of their own until they are killed), so every behaviour is finite.

The other modules state no fairness, and their properties are about safety.

## 5. What is proved

Every theorem is proved for all values of the constants that satisfy the assumption named
in the module (`ConstantsAssumption`, `LogAssumption`, ...). The assumptions say that
`NULL`, nobody and the like are not one of the things they stand beside, that sizes are
natural numbers and, where the code needs it, how they compare; each comparison is named
below. A theorem that needs more than that has it as a hypothesis, for the reader to see.

| module | theorem | says |
|---|---|---|
| `SchedulerProofs` | `TypeCorrect`, `OneCPU`, `LockHandedOver`, `NoExitMissed`, `ParentsAlive`, `WaitMissesNoKill`, `PidsDiffer`, `EmbryosOwned` | the invariants of the process table |
| | `DefaultImplementsTable`, `FcfsImplementsTable`, `InvariantsOfBuilds` | so they hold in the DEFAULT and FCFS builds |
| | `RingsAreMultilevelFifo` | `SchedMLQ` implements `MlqPolicy`: the rings are FIFO queues, served highest level first |
| | `MlqImplementsTable`, `RingsHoldTheRunnable` | so the invariants hold in the MLQ and DMLQ builds; a RUNNABLE process is in one cell of the ring of its priority, and nobody else is in any |
| `FcfsProofs` | `HeapIsFirstComeFirstServed` | `SchedFCFS` implements `FcfsPolicy`: whom the heap gives is RUNNABLE and was created no later than any other that is |
| | `HeapHoldsTheRunnable` | the heap holds the RUNNABLE processes, each once, and the invariants of the table hold in the FCFS build |
| `LockAndLogProofs` | `SleepersHaveCause`, `QuietIsDurable`, `RoomReserved` | nobody sleeps in `begin_op()` beside room; without a call all is on the disk; `LOGSIZE` has room for all that the calls in progress may still log |
| | `CallsAtomic` | `Log` implements `AtomicDisk`: calls are on the disk as a whole or not at all, with a stop between any two disk writes, those of a recovery included |
| | `InterruptsPutBack` | `ncli` counts the locks held, interrupts come back on, `sched()` finds what it asserts |
| | `CirclesOnlyThroughPs` | CPUs wait for each other in a circle only if one of them is in `ps()` |
| `BuffersAndPagesProofs` | `BuffersKept`, `WakeupsKept`, `ReferencesReturned` | buffers that are used or dirty are not recycled; no wake up is lost; `refcnt` counts the processes that have the buffer |
| | `CacheIsStore` | `BufCache` implements `BlockStore` |
| `FileSystemProofs` | `FileSystemInvariant` | what a call refers to and has locked at each place of its work, and how disk, in-core inodes and names belong together |
| | `CountsAlwaysHold` | `ref` of an inode or an open file is the number of those that refer to it; `nlink` is no less than the number of names |
| | `OnlyUpwardPutsDeadlock` | calls wait for each other in a circle, or one for itself, only if one of them puts an inode that is not below those it has locked: `create()` or `unlink()` the directory, `link()` a `.` or `..` |
| | `TreeKept` | `FileSystem` implements `NameSpace`, as long as no path goes up by `..` |
| `RingProofs` | `PipeWakes` | nobody sleeps beside what it waits for, unless killed |
| | `PipeIsChannel` | `Pipe` implements `Channel`: bytes come out in order, once |
| | `ConsoleIsTerminal` | `Console` implements `Terminal`: what is typed is read once and in order, but for what is erased of the line being edited |
| | `ArenaStaysTiled` | free and lent blocks tile the heap; the ring goes through the free ones by address, and no two of them touch |
| `FileBlocksProofs` | `BlocksStayKept`, `WritesStayFit` | a block has one owner and files read back as written; a `writei()` logs no more than `MAXOPBLOCKS` blocks |
| `BuffersAndPagesProofs` | `MemoryStaysKept` | a page has one owner, none is lost, a size is mapped, wherever memory runs out |

### Along which argument

None of these invariants is inductive alone. Each proof defines an inductive invariant
(`Inductive`, or a name with the module in it), proves that
`Init` implies it and that every step keeps it (one lemma per action, or per conjunct), and
derives the theorems from `Spec => []Inductive` by temporal logic. An abstract
specification is implemented when the initial states map to initial states and, under
`Inductive`, each step to a step or a stutter.

* **Process table.** `Placement` says where a process can be: a live context is RUNNING, a
  process inside a call is alive, it sleeps only in `wait()` on itself or in `sys_sleep()`
  on `&ticks`, and holds a new slot exactly in the middle of `fork()`. Without it
  `WaitSleep` could put to sleep a process that another CPU runs, and `Exit` could leave an
  `EMBRYO` without a maker. `FamilyInv` adds `CopiedChild` (fork has written `parent`
  before the child can run, and nobody is its own parent), `InitLives` and `PidsBelowNext`.
  `NoMissedExit` needs the parent's liveness: an exit wakes its parent and, for the zombies
  it leaves, init.
* **Schedulers.** A step of `SchedDefault`, and one of `FcfsPolicy`, is a step of
  `ProcTable`: who is served is RUNNABLE, and all else is conjoined to the actions of the
  table. In `SchedMLQ` the scheduler does not look at the state of what it takes from a
  ring, so that this is already a theorem about the rings. The first part of the proof is a
  lemma for each ring operator in terms of the sequence that the ring holds (`Held`):
  `Enqued` appends, `Dequed` takes the head, `SwappedOut` takes out of the middle. The
  inductive invariant, `MlqInductive`, adds to that of the table `Queued` (the ring of a
  level holds the RUNNABLE processes of that priority, each once) and `Rankings` (a process
  has a priority, one that `fork()` makes from the moment it is copied). Room is never
  short, because a ring has a cell more than there are processes and holds none twice
  (`RoomLeft`, by counting). Each step that makes processes RUNNABLE is shown to queue
  exactly those, in the order of the code (`Queueing`: `exit()` tells the parent and then
  init, a tick tells the sleepers in slot order). The hypothesis `AnyRing = FALSE` keeps
  `chpr()` from rings that have wrapped around: without it the theorems are false (run
  `chpr_wrapped`).
* **The heap.** The scheduler of the FCFS build runs what `remove()` gives it without a
  look at its state, and `insert()` comes after the change of state that it is for: so
  `FcfsInductive` adds to the invariant of the table that `pqueue` is a heap by creation
  time of exactly the RUNNABLE processes, each once. The loops of `shiftup()` and
  `shiftdown()` are functions of the number of turns made. A turn keeps everything in order
  but for the element that moves: what is below it and what is above it are in order with
  each other (`OrderedAbove`, `OrderedBelow`, `Bridged`; lemmas `UpStep`, `DownStep`), and
  each turn that is not the last takes it one level on, so that the loop has ended within
  the turns it is given (`LoopEnds`). That such a function exists, and what holds of each
  of its values, is proved by well-founded induction on the set of turns (`UpTo`). Then the
  root is the earliest (`EarliestAtRoot`), and `insert()` and `remove()` add and take one
  process (`Inserted`, `Taken`). There is always room, by counting, because a process that
  is to be inserted is not yet in the heap. The key is a field of the process:
  `allocproc()` may overwrite it because the process it takes is UNUSED, and so not in the
  heap (`Restamped`).
* **Log.** `SpaceReserved` says that `LOGSIZE` has room for every block that the calls
  under way may still write, counted as pairs of a call and a `log_write()` it has not made
  (`Unwritten`): that is what `begin_op()` reserves, and what an absorbed write gives back.
  It is inductive together with `Calls`: `outstanding` is the number of calls. That the
  log on disk has `LOGSIZE` blocks beside its header does not follow, and is not so
  (`log_full`). `Stages` relates disk, log and buffers at each stage of a commit and of a
  recovery: which blocks of the log are written, which are in place, and that the header
  counts none that is not in the log. The assumption `MAXOPBLOCKS <= LOGSIZE` lets a call
  begin at all.
* **Buffer cache.** `Counted` makes references and users the same number, `Locks` the
  sleep lock and the process between `acquiresleep()` and `releasesleep()` the same thing,
  `Flags` says what `valid` and `dirty` promise, and `Queue` that the drive's queue has
  exactly the buffers somebody sleeps for, each once. `Pins` bounds the dirty buffers that
  nobody writes. That references are exactly the processes with the buffer follows from
  `Counted` and from `Asked`: a process that has gone through `brelse()` has no buffer.
  Processes and buffers are finite sets.
* **Pipe and console.** Both proofs are about counts that wrap, and share the lemmas on
  them. The range of the counts is a multiple of the size of the ring, as in the code, so
  that a wrapped count and the unwrapped one have the same cell (`WrappedCell`), and the
  cells of a full ring are different (`RowDiffers`). For the pipe `Bounded` (`nwrite` never
  gets more than `PIPESIZE` ahead of `nread`) is what both rest on; for the console it is
  that the gaps from `r` to `w` and from `w` to `e` are together no more than `INPUT_BUF`
  (`InputTypes`). A lemma for each kind of change then says what becomes of the two texts:
  `PutText`, `BackText`, `TakeText`. Of the readers the proof needs that one that has been
  called wants a byte at least, and that one on its way into `sleep()` has `cons.lock`
  (`ReaderTypes`): without it a character could come between its last look and its sleep.
* **malloc.** `ArenaTiled` speaks of the time between calls. Inside a call the block that
  is about to go into the ring belongs to nobody, so that `IsBlock` counts it too:
  `BlocksApart` and `BlocksCover` tile the heap with blocks so understood, `RingRises` and
  `RingJoined` say how the ring goes through its blocks, and `CallsKnow` what a search
  still holds of it. `Seek` stops at the one place where a block may be put in because the
  ring rises but once; both joins then keep the tiling.
* **Names.** `FSInv` has five parts. `CallInv` says of each call what it refers to at each
  place of its work (`Placed`) and that `ref` counts exactly those references: they are
  counted process by process (`Count`), so that a step of a call need only balance what it
  takes and what it gives (`HoldersAt`). `FileInv` is the same for open files. `LocksKept`
  makes the inodes a process has locked those that the rest of its call unlocks, which
  orders the locks: a circle then needs a lock asked for with another held, and where that
  lock is for an inode further down the tree (`WantsBelow`) it leads away from the root and
  never back. Two puts do not ask downwards: that of the directory in `create()` and
  `unlink()`, and that of the `.` or `..` that `link()` finds. `DiskInv` says that the
  entries lead to inodes in use, that `nlink` is no less than the links and that
  directories form no circle; `LockedValid` that who has an inode locked has read it.
  `TreeKept` adds `UsedAllocated`: an inode that is open, a current directory or worked on
  is not given back. Its hypothesis `".." \notin Elements` excludes a path through the
  `..` of a removed directory, which can lead to an inode that has been given back (section
  6): the theorem is false without it, and `MCFileSystem` excludes the same. Processes and
  names are finite sets.
* **Contents of files.** `Disk` gives each place that can hold a block number (`At`) a
  block of its own and each block in use a place, and says what of the contents has been
  written, the middle of a `writei()` included. `Locking` says who may be in the middle of
  what: without it two writers could allocate one block of a file, or a file could be
  removed under a reader. `Logging` is why a chunk of `(MAXOPBLOCKS - 1 - 1 - 2) / 2`
  blocks fits: a chunk that begins inside a block finds that block allocated (`Fresh`), so
  that with `q` blocks per chunk at most `q + 1` data blocks, `q` bitmap blocks, the
  indirect block, its bitmap block and the inode are logged: `2q + 4 <= MAXOPBLOCKS`. The
  assumption `MAXOPBLOCKS >= 6` leaves a chunk of one block; `param.h` has 10.
* **Memory.** `Kept` says for each call in the middle of its work how far the image it
  works on has been built or taken down (`Progress`), and that no two work on one image
  (`Apart`): `fork()` and `exec()` may then fail at any page. `Owners` is the one owner of
  each page, without counting; `PagesOwnedOnce` follows by a bijection. `PageUp` and
  `PageDown` at sizes that are no multiples of `PGSIZE` are lemmas. Proving this found two
  arms of `Unmapped` in `Memory` that overlapped, of which TLC had taken the first.
* **Locks.** `Code` says which remainders of a path go with which locks held: nothing, one
  lock, `ptable.lock`, or both in an order. That each system call and handler consists of
  such remainders is the longest part (`CallsFree`, `HandlersFree`). A circle then needs
  `ptable.lock` held while an outer lock is waited for; only `ps()` does that.

### Only model-checked

* Liveness (`EveryProcessRuns`, `KillSeen`, `OrphansReaped`, `EveryLineEnds`): the
  prover has no rule for fairness and `ENABLED`.
* `ReadyInOrder` of `MCQueues`, which runs heap and rings on their own, larger than in the
  schedulers: what it says of the operators is proved in the lemmas of `FcfsProofs` and
  `SchedulerProofs`, not as a theorem of that module.
* What is recursive or evaluated over data: the parser, the shell, the programs, `grep`,
  the C library and `mkfs` (`AsExpected`, `OutputAsMeant`, `ParsedRight`, `TextsRight`,
  `ImageRight`).

## 6. Findings

Each with a run that ends in the violation:

* `chpr_wrapped`: `swapque()` takes `(end - 1) % (NPROC + 1)`, which is -1 for `end = 0`
  (`proc.c:223`), and writes cell `j - 1` for `j = 0` (`proc.c:213`): a RUNNABLE process is
  lost and another one doubled.
* `fs_deadlock`: `create()` of a name puts the directory with the inode locked, and
  `iput()` locks what it puts; `unlink()` of that name holds the directory and waits for
  the inode. Both wait for ever, and soon everybody in `begin_op()`.
* `log_full`: `begin_op()` hands out `LOGSIZE` blocks, the "max data blocks in on-disk log"
  of `param.h:11` (`log.c:132`); mkfs makes the log of `LOGSIZE` blocks with its header
  (`mkfs.c:25`), and `log_write()` panics at `log.size - 1` (`log.c:218`). Calls that log
  `MAXOPBLOCKS` blocks each stop the machine when together they fill the log.
* `ps_deadlock`: `ps()` prints with `ptable.lock` held, so it takes `cons.lock` inside
  `ptable.lock`; `consoleintr()` and `consoleread()` nest them the other way.

Seen while modelling, and not stated by a run:

* Processes. `kill()` marks the first slot with the pid, free or not (`proc.c:811-813`),
  and `allocproc()` does not clear `killed` (`proc.c:297`): after `kill(0)`, or with the pid
  that a failed `fork()` leaves in a slot, the next process made there exits at once.
  `forkret()` may run with interrupts off until user mode. `chpr()` of a pid that does not
  exist uses the memory behind the table (`proc.c:896-907`). `growproc()` to a size of 0
  (`proc.c:394`) takes the new size that `deallocuvm()` returns for a failure: it returns
  -1 and leaves `sz` as it was, although the pages are gone.
* Buffers. `NBUF` equals `LOGSIZE`: a log that is almost full leaves few buffers for
  readers, who hold two at a time in `bmap()`, as do `write_log()` and `install_trans()`;
  `bget()` panics when there is none. `ideintr()` marks a buffer valid when the
  drive reported an error (`ide.c:118-122`).
* Pipes. A killed writer returns from a full pipe without waking the reader
  (`pipe.c:86-89`), which sleeps on beside the bytes. `kill()` can fall between the test of
  `killed` and the sleep (`pipe.c:107-111`, also `pipe.c:86-89` and `console.c:246-251`); the
  process then sleeps until the pipe changes or a line is typed. No document of the
  repository excludes it, and `KillSeen` and `WaitSeesKill` are about the other sleeps.
* Files. Two `unlink()`s of two links to one inode in a directory can deadlock as `create()`
  does. Two `iput()`s of the last two references to an unlinked inode can both find
  `ref = 2` (`fs.c:337`), and then neither frees it. `create()` and `link()` in a directory
  that has been removed succeed, and leave `nlink` larger than the number of names. The `..`
  of a removed directory may lead to an inode that has been given back: `ilock()` panics.
  `dirlink()` puts what it finds under a name that is there, with the directory locked (`fs.c:560`):
  `link(f, ".")` waits for itself for ever, and `link(f, "d/..")` can wait in a circle with
  who goes down to `d` from its parent. `CirclesPutUpwards` allows for both.
* Shell. `>>` opens the file as `>` does, and both overwrite from its start without
  cutting it. Of two redirections of one descriptor the first in the line is the inner one:
  it is opened last and wins, and the file of the other is made all the same. `a & b` is a
  syntax error, `a & ; b` is not. When the second `fork()` of a pipeline fails, `panic()`
  returns to the prompt with the first process left.
* Programs. `grep` forgets the start of a line when a read does not end one
  (`if(p == buf) m = 0`, `grep.c:29`). The last loop of `createdelete` unlinks names that
  begin with `'p' + i` where those made begin with `'p' + pi`, and leaves files behind.
* `mkfs` rounds the size of the root directory up to the next block even when its entries
  fill blocks exactly, so that it has a block that was not allocated; the kernel reads it
  as an error of `bmap()`, which allocates it. It does not compare what it writes with
  `FSSIZE`.

## 7. Plan

Done: `ProcTable`, the three schedulers, `Log`, `Pipe`, `BufCache`; then
`FileSystem`, `FileBlocks`, `KernelLocks`, `Memory`, `Umalloc`, `Console`; then user space:
`SysCalls`, the programs, the tests, the shell, and the algorithms of `grep`, the libraries
and `mkfs`. Left to model: time accounting (`updateprocesstimes`, `waitnstats`,
`sys_sleep`'s unsigned comparison), `BufCache` with two buffers per process, calls on names
that wait for each other in `SysCalls`, `ls` and `gets()`.

Proved: each safety property that a run checks, but for those that section 5 leaves to TLC.
Of the abstract specifications only `FifoLevels`, which belongs to `MCQueues`, is among
these; that the rings are FIFO queues is proved as part of `MlqPolicy`.

## 8. Not modelled

* Time accounting: counters that nothing else reads. `procdump()`, `ps()` and `print()`
  print; the locks that `ps()` takes are in `KernelLocks`.
* Boot code, interrupt controllers, descriptor tables, segments and the entry of traps:
  straight-line code over device registers, whose result is `Init` of the modules.
* Screen, serial port and keyboard: the bytes of a device. The shell's console here takes
  everything that is written.
* `memide.c`: an alternative to `ide.c` without waiting, not in the default build.
* The format of programs in `exec.c`, and the arguments on the stack: a program is its
  name, and too many arguments are a failure.
* `ls`, `kill`, `mtop`, `process_list`, `contextswitch`: programs that print what one call
  returns. `bsstest` reads memory; `fsfull` of `usertests.c` is not called, because
  `balloc()` panics. The formats of `printf()` and `cprintf()`.
* `kernelModule/`: two Linux modules that print a line, and the system calls that load
  them.
* `fmt/`: an older copy of the sources, made for printing (some 8,650 lines), `runoff` and
  the scripts around it. The modules are about the sources that are built.
