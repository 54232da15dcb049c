# TLA+ models of the Sistemas Operativos assignments

This directory models the programs of the repository: a JOS kernel with two
schedulers and a copy-on-write fork (`src/sched`), a `malloc` library (`src/malloc`),
a FUSE file system (`src/fisopfs`), a shell (`src/shell`) and four programs built on
fork and pipes (`src/fork`). The modules are translated from the C sources; TLC checks
them on small instances and TLAPS proves the properties that matter most for every
value of the constants. `PROJECT.json` lists the components, the runs, the source
lines behind each definition, the hazards of the code and the theorems.

The programs do not share state with each other. They are five systems, and each is
modelled on its own; within a system, modules compose.

## 1. Inventory

### 1.1 sched: environments, processors, the kernel lock (`Kernel`)

State: `envs[]` (`env_status`, `env_id`, `env_parent_id`, `env_pgdir`,
`env_ipc_recving`, `env_cpunum`), `env_free_list`, `cpus[].cpu_env`,
`cpus[].cpu_status`, `kernel_lock`.

Operations: `trap()` and everything it dispatches; `sched_yield()`, `env_run()`,
`sched_halt()`; `env_alloc()`, `env_free()`, `env_destroy()`; the system calls
`sys_exofork`, `sys_env_set_status`, `sys_env_destroy`, `sys_ipc_recv`,
`sys_ipc_try_send`, `sys_yield`.

Interaction: processors meet only in `envs[]` and in one big lock. A user program
enters through a trap, spins for the lock, and leaves in `env_run()`, which gives the
lock up *before* its last statements. A processor with nothing to do halts, and the
timer wakes it.

Hard: a kill of an environment that another processor runs (`ENV_DYING`, freed when it
traps); statements after `unlock_kernel()`; `sched_halt()` deciding that nothing can
run again; `env_id` reuse.

Correct when: no environment is on two processors; a processor in a user program has
an environment that says so; the free list is exactly the FREE slots; an environment is
freed only when nobody uses it; a kill is final and is carried out; the lock is neither
lost nor held twice.

### 1.2 sched: round robin (`RoundRobin`)

State: none of its own; the scan starts at `curenv`. Hard: several processors scan the
same array from different places. Correct when: the choice is one the kernel allows,
and no RUNNABLE environment is passed over for ever.

### 1.3 sched: proportional share (`Lottery`)

State: `tickets` of each environment, `total_tickets`, `timer_int_counter`,
`prev_random`. Six handlers keep `total_tickets`, a second copy of a sum. Correct when:
every environment that exists has a ticket, the choice is one the kernel allows, and the
copy departs from the sum in known places only. How far it does decides who can win a draw.

### 1.4 sched: pages and copy-on-write fork (`Memory`, `CowFork`)

State: `pages[]` (`pp_ref`), `page_free_list`, page directories and tables; in user space
`_pgfault_handler`, `env_pgfault_upcall` and the place of `fork()` or `pgfault()` a program
is at. Operations: `sys_page_alloc/map/unmap`, `sys_ipc_recv` and `sys_ipc_try_send` with a
page, `env_setup_vm`, `env_free`; `set_pgfault_handler`, `pgfault`, `duppage`,
`dup_or_share`, `fork`, `fork_v0`. Hard: the order of counting and removing in
`page_insert()`, error paths that have already unmapped something, memory that runs out
between two allocations of one call, and two environments writing to one page while `fork()`
is in the middle. Correct when: `pp_ref` is the number of mappings, a free page is mapped
nowhere, and after `fork()` no write of one environment is seen by the other.

### 1.5 malloc (`Heap`)

State: up to `MAX_BLOCKS` mapped blocks of three sizes in three lists; in each block a
doubly linked list of regions that tile it. Operations: `malloc`, `calloc`, `free`,
`realloc`; below them `split`, `merge`, `coalesce`, `grow_heap`, `unmap`. Hard: long
sequences of legal calls, and the four ways `realloc()` tries to grow in place. Correct
when: regions tile blocks, what is in use is what programs hold, free neighbours are
joined, empty blocks are unmapped, and `blocks_mapped` is the number of mappings.

### 1.6 fisopfs (`FileSystem`)

State: inode and data bitmaps, inode table, data blocks, and the image on disk.
Operations: `create`, `mkdir`, `write`, `truncate`, `read`, `readdir`, `unlink`, `rmdir`,
`init` (load or format), `flush` and `destroy` (save). Hard: a full disk in the middle of
`write_file()`, the removal of an entry in a directory of several blocks (`unlink_inode()`),
block counts at a block boundary, the image truncated before it is written. Correct when:
the bitmaps are exactly the inodes and blocks reachable from the root, no block belongs to two
inodes, sizes and block counts agree, and what was saved is what is loaded.

### 1.7 shell (`Shell`, `History`, `PipeTree`)

State: `status`, `back_process_count`, the children and their states; the line buffer; the
history array with `last_line_pos`, `alloc_size`, `history_print_pos`; in a pipeline the
descriptors of each process. Hard: children end at any time and are reaped with WNOHANG into
the same `status`; the descriptors of a pipe tree; the history array at its limit; a buffer that
keeps the tail of an earlier line. Correct when: no child is left unreaped, streams go where the
redirections say, the history holds every command, a pipeline ends when its commands do and,
unless a `fork()` failed on the way, succeeds exactly when all of them do.

### 1.8 fork (`Primes`, `ForkTools`, `Find`)

`primes` (a chain of filters), `xargs` (packs of `NARGS`), `find` (a walk over directories) and
`pingpong`. Hard: who closes which end of which pipe, and who waits for whom, and what happens when
`pipe()` or `fork()` fails. Correct when: they end, and their output is right whatever order their
processes run in.

### 1.9 Left out

See section 6.

## 2. Modules

| module | what it is |
|---|---|
| `EnvOwnership` | abstract: an environment is on one processor at most; one that runs is condemned before it disappears |
| `Kernel` | 1.1, one action per handler; the scheduler's choice is left open |
| `RoundRobin` | extends `Kernel` with the circular scan |
| `Lottery` | extends `Kernel` with tickets and the draw |
| `Memory` | physical pages, address spaces and the system calls that change them |
| `Private` | abstract: address spaces that nobody else writes, copied by fork |
| `CowFork` | extends `Memory` with programs that fork, write, fault and exit |
| `Allocator` | abstract: pieces of memory that never overlap |
| `Heap` | 1.5, one action per call and per way of `realloc()` |
| `FileTree` | abstract: a tree of files, and an image that brings back the last save |
| `FileSystem` | 1.6, one action per handler, save, crash and mount |
| `History` | the line editor and the history array |
| `Shell` | extends `History` with `run_cmd()`, children, builtins, redirections |
| `Pipes` | external: processes, descriptors and pipes as the system gives them |
| `Primes`, `PipeTree`, `ForkTools`, `Find` | the programs that use them |
| `Pipelines` | one of those programs at a time, with what each must produce |
| `KernelProofs`, `RoundRobinProofs`, `LotteryProofs`, `MemoryProofs`, `CowForkProofs`, `HeapProofs`, `FileSystemProofs`, `ShellProofs` | theorems |
| `MC...` | instances for TLC: constants, views, symmetry |

Definitions marked "Seeded fault" are not part of any specification. Each is a wrong version
of the definition below it, and shows that a property notices such a fault.

### 2.1 Kernel

`pc[c]` says where processor `c` is. Kernel code runs under one lock, so everything between
`lock_kernel()` and `unlock_kernel()` of one handler is one action, except that entering
`sched_yield()` is a place of its own (`"sched"`), reached from several handlers. What runs
without the lock is a separate step: the trap (`TrapFromUser`, `TrapFromHalt`), the `xchg`
that takes the lock (`Acquire`), and the end of `env_run()` (`Leave`), which writes
`env_cpunum` after another processor may have taken the lock.

`trap()` looks for a zombie (`Zombie`), dispatches (`Timer`, `SysYield`, `SysExofork`,
`SysEnvSetStatus`, `SysEnvDestroy`, `Fault`, `SysIpcRecv`, `SysIpcRecvBad`,
`SysIpcTrySend`; `Harmless` stands for every call that changes none of the state;
`Breakpoint` is T_BRKPT, which enters the monitor with the lock held and stays there, in
`"debug"`; `Overflow` is the panic of `page_fault_handler()` on a full exception stack) and goes
back to `curenv` if it is still RUNNING, to the scheduler otherwise (`Return`). `env_id` is a
slot and a generation; the generation wraps at `MaxGen` as the code's does.

`LibUsers` separates two questions. With `LibUsers = TRUE` programs call the kernel the way
`lib/` and `user/` do: `sys_env_set_status` only starts a child `fork()` has just made,
nobody destroys the same child twice, `dstva` is aligned, `sys_reduce_priority` gets a percentage
from 1 to 99, and no handler faults in itself until its stack is full. A breakpoint is possible under
both: `lib/panic.c` and `user/breakpoint.c` execute one. With `LibUsers = FALSE` programs make
any call with any argument.

### 2.2 RoundRobin and Lottery

Both replace `SchedRun`, the open choice, with the code of one build, and are shown to
implement `Kernel` (`ImplementsKernel`): whatever holds of every `Kernel` behaviour holds in
both builds. `Lottery` adds the tickets to each handler that touches them. The draw is
`((r * total) % 2^32) / m` with any remainder `r`; which `r` follows which (a linear
congruential generator with a fixed seed) is left out. `sys_reduce_priority()` of 100 or more
leaves a program no ticket, or a negative number of them; `LibUsers` excludes it, as the only program
of the repository that calls it does.

### 2.3 Memory and CowFork

`mem` is one record: the free list, `pp_ref`, which page is behind each entry of each address
space (its directory `"dir"`, its page tables, its virtual pages), the permission bits and the
contents of pages. The helpers `PageAlloc`, `PageDecref`, `PageRemove`, `PgdirWalk`,
`PageInsert` are functions from memories to memories, composed in the order of the code; the
order matters in `page_insert()`, which counts before it removes. Allocation can fail at any
call, because any number of pages is a possible `Page`. The error paths are modelled as they
are: `env_page_alloc()` loses its page when `page_insert()` fails, and `sys_ipc_try_send()`
of an address that no page table covers reads an uninitialised `srcpte`, so that its checks
come out either way and the receiver's page may already be gone.

A system call is one action. `CowFork` is made of those actions: `fork()` is a program counter
in user space with one system call, one look at `uvpt` or one `memmove()` a step, and the stack
may be written, and so may fault, between any two of them. `plan` says which fork the calls of
a behaviour are (`fork` or `fork_v0`); the call itself needs a writable stack, where it puts its
return address. Four virtual pages stand for the address space: the one for `PFTEMP` and
`UTEMP`, one that is not written during a fork, the stack, and the exception stack.

`Private` is what users of `fork()` rely on. `ImplementsPrivate` maps each address space to the
contents of its pages; an entry that the loop of `fork()` has not finished is seen as not there
yet, so that the moment at which the child gets its copy is the second mapping of `duppage()`, or
the first write of the parent in between.

### 2.4 Heap

A region is named by the offset of its header in its block, and `heap.reg[p]` maps the offsets
of the block at `p` to region headers (`size`, `free`, `next`, `prev`). `Split`, `Merge`,
`Coalesce` are functions from the regions of a block to its regions, with the pointer updates of
the code and no more: `merge()` does not touch `free`, `split()` does not coalesce. `Malloc`,
`Free`, `Shrink`, `Grow`, `Move` are the calls; `held` records the pointers programs have and the
bytes they asked for. The contents of memory, the counters of `get_stats()` and a failing
`munmap()` are left out. `calloc()` is `malloc()` of the product, which is the request the model
sees.

`Grow` has the four ways of `realloc()` with the comparisons they really make (the first one reads
`curr->prev` where it means `curr->next`). A step that dereferences NULL, or that gives the caller
a region that is free, too small or somebody else's, sets `crashed`, after which nothing is
modelled. With `Careful = TRUE` programs do not meet such a step, do not shrink a region that a
free one follows (`split()` then leaves two free neighbours that no later `free()` joins), and do
not ask for more than `SIZE_MAX - 3` bytes (`ALIGN4` would wrap to 0).

### 2.5 FileSystem

`fs` is what `save_file_system()` writes: inodes, the used bits, the blocks. A directory is an
inode whose cells are entries, so `unlink_inode()` moves cells exactly as it moves bytes. A block
holds `BlockLen` cells. `WriteFile` and its relatives keep the arithmetic of the code, the block
too many on a boundary included (`BlocksFit` bounds it by one). `status` follows the process:
`"saving"` and `"leaving"` are the interval between the `fopen()` that truncates the image and the
end of the write; `Crash` may come at any time and leaves the image torn there, and the mount of a
torn image leads to `"broken"`. A handler is atomic: the code has no lock, and what is modelled is
one FUSE thread.

`FileTree` is what a user sees: each path names nothing, a directory or a sequence of bytes; a
call changes what its path names; a restart shows the last completed save.

### 2.6 Shell and History

A line is a sequence of words, and `buffer` is the static array with what earlier lines left
behind. `EditLine` is typing, the two arrows and backspace; `Enter` ends the line and saves it.
`run_cmd()` is then: the builtins, the reaping loop one `waitpid()` at a time (`ReapOne`,
`ReapEnds`), the parse, `fork()` that may fail, and `waitpid()` of the foreground child, while every
child may redirect, run and end in between. `Raw` values stand for what `waitpid()` stores. What the
code does with memory it should not touch (past the history array, behind a null pointer) is
modelled as far as it goes: it reads `Junk`, sets `smashed`, or ends the shell as `"dead"`.

### 2.7 Pipes and the programs on it

`Pipes` has processes with descriptors that are shared by `fork()`, bounded pipes that block, end of file
when no writer is left, `SIGPIPE` when no reader is, exit and `waitpid()`. It is external to `src/` and has
only what the programs use. `Primes` is the sieve, one `read`, `write`, `close`, `fork` or `wait` a step,
with the stdio buffer of each process (`held`): on a terminal (`tty`) a line is out when `printf()` returns,
anywhere else it waits for `exit()`, and `fork()` copies it; `PipeTree` is `exec_cmd()` of a PIPE, which
forks a left and a right side for every `|`; `ForkTools` is `pingpong` and `xargs`; `Find` the walk, which
gives up on directories it cannot open. `Pipelines` runs one of them and states what it must produce.
`Fails` is a call of `pipe()` or `fork()` that fails, up to `MaxFails` of them in a run: in the programs
that use `util.c` the process ends (`PrimesFails`, `PingFails`), `xargs` goes on without the batch
(`XargsFails`), and `exec_cmd()` comes back to an `_exit()` after `pipe()` (`NoPipe`) and goes on after
`fork()` with a status that nobody sets, which is either value (`NoLeft`, `NoRight`).

## 3. What TLC checks

| run | instance | what it shows |
|---|---|---|
| `kernel_safety` | 2 CPUs, 3 slots, `LibUsers` | `TypeOK`, `OneCpu`, `FreeListExact`, `LockDiscipline`, `MonitorStrandsNobody`, `ReclaimedOffCpu`, `DyingIsFinal`, the inductive invariant `OwnInv`, and `ImplementsOwnership` |
| `kernel_live` | 2 CPUs, 2 slots, fairness | `DyingIsFreed`, `LockGranted` |
| `any_one_cpu` | 2 CPUs, any program | **violated**: `OneCpu` |
| `round_robin` | 2 CPUs, 3 slots, any program, fairness | `ImplementsKernel`, `EveryoneRuns` |
| `lottery` | 2 CPUs, 2 slots | `TicketsInRange`, `WhoCanWin`, `TotalFollows`, `ImplementsKernel` |
| `heap` | 3 places, 2 blocks, both fit policies | `TypeOK`, `BlocksTiled`, `HeldInUse`, `FreeCoalesced`, `BlocksCounted`, `ImplementsAllocator` |
| `memory` | 2 environments, 6 pages | `PagesCounted`, `NoEscalation`, `LostWhenFull` |
| `cowfork` | 3 environments, 13 pages, 2 or 3 forks | `OwnPages`, `FaultsAreHandled`, `ImplementsPrivate` |
| `fisopfs` | 4 inodes, 4 blocks, paths of 2 names | `InodesExact`, `BlocksExact`, `BlocksFit`, `ImplementsTree` |
| `shell` | 3 children, 3 commands | `BackgroundCounted`, `Streams`, `HistoryHeld`, `ZombiesReaped` |
| `shell_stale` | the same | **violated**: `SplitsAtPipes` |
| `pipelines` | 8 processes, 5 pipes | `Results`, `SievePrints`, `EveryoneEnds` |

Every property of a passing run is violated when one definition of the model is replaced by its
seeded fault; `PROJECT.json` lists the pairs under "mutants".

### 3.1 Bounds

*Kernel.* Every conflict in this code is between the processor that holds the lock and one that
does not, so two processors show it. Two slots are needed for a parent and a child; the third lets
one be freed and taken again while the first two run. `MaxGen` 1 or 2 makes generations wrap and
`env_id`s repeat, which is harder on the code than the real counter. `kernel_live` has two slots
because of the cost of fairness.

*Round robin.* Three environments on two processors leave one waiting while both processors scan,
each from its own place. Programs make any call, so that what the scan meets is not limited to what
`lib/` does.

*Lottery.* `InitTickets` 4, `Decay` 2, a boost every 2 ticks and `RandM` 16 keep the proportions of
100, 10, 10 and 1664525 that matter: a price that does not divide what is left, a boost that comes
before and after an environment is poor, more remainders than tickets. `Word` 256 is large enough
that the product does not wrap with these totals, as 2^32 is for up to 2580 tickets; `MaxTotal`
stops forks above 12 tickets, because the end of a zombie makes the total grow without bound.
`WhoCanWin` quantifies over every set of slots that might be RUNNABLE, so it does not need the
run to reach each of them.

*Heap.* Blocks of 28, 36 and 40 bytes with headers of 4 hold up to three regions; requests of 3, 9
and 21 bytes need rounding, make regions that split and that do not, and make a request that only
the larger sizes fit; 0 is `free()` through `realloc()`. Two blocks of the three places reach the
limit of `MAX_BLOCKS` and let a block be unmapped while the other is used. The places are symmetric:
nothing in the code depends on what `mmap()` returns.

*Memory.* Two environments with a directory, a table and a page each use all six pages, so every
allocation of every call can be the one that fails, and pages can be shared, sent and dropped. One
virtual page is loaded and one starts unmapped. `View` drops the names of pages: no definition
compares pages but for equality and the free list is a set, so states that differ by a permutation
of pages behave alike, and no property names a page.

*CowFork.* A first program, and two children of one program or a child and a grandchild; each of fork and
fork_v0 after each, and a third call after fork and fork_v0. With 13 pages a second fork can end, and can
also run out of memory at every one of its allocations. `Value` has two contents, enough to tell a write
from its absence.

*FileSystem.* A root, and three inodes: a directory with two files, or a file beside a directory
with a file, and so on; blocks of two cells make directories of two blocks, a file of 4 cells is at
its size limit of 2 blocks, and 4 blocks are fewer than the inodes want. A write of two bytes at
offset 1 crosses a block boundary and ends inside, at the end of, or beyond what is there. A save, a
crash or a mount is never more than one change away (`MaxSince`): the image matters only relative to
what is in memory. Names are symmetric; `View` drops the contents of inodes and cells that are not in
use, which no handler reads before writing.

*Shell.* Three children let a background child be reaped while another runs and a third is in the
foreground. Three commands fill a history array that starts with two places and make it grow; a file
with one line or none makes the array start at different fillings. `Wild` 2 lets the arrow down be
pressed twice past the end of the array, so that both a first and a further press are followed by
every other key. `Typed` has one line for each kind
of command and redirection order.

*Pipelines.* 10 numbers make a sieve with all of 2, 3, 5, 7 and composites that pass the first
filters; pipes of capacity 2 are full and empty all the time. `MaxFails` 2 lets both forks of one pipe
fail, or one each of two processes. The lines that `primes` prints are taken to fit in its stdio
buffer, as they do by far. Pipelines of up to three programs, with
producers that never stop and consumers that leave early. Five lines for packs of two leave one over.
The trees of `find` are all trees of three entries, with at most two directories open (`Limit`).

### 3.2 Fairness

`Kernel!Fairness` and `RRFairness` assume what the machine gives. The timer interrupts a user program
and a halted processor, again and again (weak fairness of the traps; strong fairness of `Timer`,
because a program that makes system calls all the time disables it between two ticks and still takes
the tick whenever it is back in user mode). Kernel code runs to its end once it has the lock (weak
fairness). A processor that spins on `xchg` gets the lock if it is free again and again (strong
fairness of `Acquire`): `spin_lock()` is not a fair lock, but the bus serves every `xchg` and the other
processors spend time in user mode between two traps. No fairness is assumed of what programs do.
`EveryoneRuns` is stated for programs that have stopped forking and exiting (`SettledSpec`): an exit
makes the scan start at slot 0 again, so a stream of exits in low slots can keep a high slot waiting.
`DyingIsFreed`, `LockGranted` and `EveryoneRuns` make one exception: a processor that has stopped the
kernel for good. A breakpoint enters the monitor with the lock, so from then on nobody else enters the
kernel; `LockGranted` also allows for the monitor of `sched_halt()`, and `EveryoneRuns`, whose programs
make any call, for a panic.

`Shell!Fairness`: the shell's own steps and the start of its children go on (weak fairness), a program
in the foreground ends, and somebody goes on pressing Enter (strong fairness, as the user may edit in
between). Background programs need not end. `Pipelines!Spec` has weak fairness of every process: the
system runs what can run, and what blocks is not enabled.

### 3.3 Where the code and its documents disagree

The two violation runs are differences with comments or documents of the repository.

- `any_one_cpu`: `sys_env_set_status()` (`kern/syscall.c:211`) overwrites the status of a child that
  another processor is running; the scheduler then runs it a second time.
- `shell_stale`: `split_line()` (`shell/utils.c:14`) steps over the end of a line without a splitter, and
  a recalled line that is shorter than what the buffer held is run as a pipeline with the rest.

Others were met while modelling and have no run of their own. In most of them the step is in the model
and a property is stated for programs, or for places, that do not meet it.

sched, kernel:

- The second `sys_env_destroy()` of a DYING child (`kern/env.c:473`) frees it, page directory included,
  under the processor that runs it. `ReclaimedOffCpu` does not hold with `LibUsers = FALSE`.
- `SYS_reduce_priority` (`kern/syscall.c:477`) lacks a return and falls into `sys_env_destroy(a1)`, so a
  percentage of 0 destroys the caller.
- `sys_ipc_recv()` leaves `env_ipc_recving` set when it fails with -E_INVAL (`SysIpcRecvBad`), after
  which a send makes a RUNNING environment RUNNABLE; `sys_ipc_try_send()` and `sys_env_set_status()`
  also revive a DYING one, so that `DyingIsFreed` and `TotalFollows` need `LibUsers`.
- A breakpoint (`kern/trap.c:204`) enters `monitor()` with the kernel lock held. No command of the monitor
  returns -1, so it does not come back; `lib/panic.c` executes breakpoints in a loop, so one program that
  panics stops every processor.
- `page_fault_handler()` writes its frame below the exception stack before it looks whether there was
  room (`kern/trap.c:382`), and panics instead of destroying the environment, as its comment says.
- After an exit the round-robin scan restarts at slot 0, because `curenv` is NULL.
- `total_tickets` drifts: freeing a zombie forgets its tickets, and a boost counts only the RUNNABLE and
  RUNNING environments but leaves the others their tickets. `TotalFollows` says by how much
  in each of these two steps, and that no other step departs from the sum. A blocked environment is not boosted.
- The draw is at most `total_tickets - 1` and wins by `counter >= winner` (`kern/sched.c:81`), so an
  environment that is not the first of the scan and has `total_tickets - 1` tickets or more before it never
  wins: a last one with a single ticket, when the total is exactly what is held, and whoever lies beyond a
  total that a boost has set too low. `WhoCanWin` is the exact condition.
- `SYS_reduce_priority` of 100 or more takes away all the tickets of the caller, or more than it has.

sched, memory:

- `pgfault()` tests `(err & FEC_WR) & !(pte & PTE_COW)`, which is always 0 because `FEC_WR` is 2: a fault
  on a page that is not copy-on-write is treated as one that is, so a program that writes to a read-only
  page gets a writable copy of it where the message says it should panic.
- `env_page_alloc()` (`kern/env.c:54`) loses its page when `page_insert()` fails, although
  `kern/syscall.c:262` says to remember to free it. `LostWhenFull` bounds this.
- `sys_ipc_try_send()` reads `*srcpte` uninitialised when no page table covers `srcva`
  (`kern/syscall.c:406`), and has replaced the receiver's page when its mapping fails (`:416`). An
  environment whose `sys_ipc_recv()` failed is still marked as receiving and can send to itself.
- `env_page_map()` (`kern/syscall.c:63`) never calls `check_perm()`: `sys_page_map()` installs permission
  bits that its comment says are refused with -E_INVAL. It does refuse PTE_W on a read-only source, which
  is what `NoEscalation` needs.
- `set_pgfault_handler()` returns without a word when it has no page, and `fork()` goes on: it passes
  the parent's upcall 0 on to the child, `user_mem_assert()` destroys the child, and the parent panics.
- `fork_v0()` shares the copy-on-write pages of its caller as plain read-only ones and gives the child no
  upcall: a write of that child destroys it. The child does inherit `_pgfault_handler`, so that
  `set_pgfault_handler()` (`lib/pgfault.c:29`) has nothing to do when the child calls `fork()` itself: that
  call makes the child's pages copy-on-write with no upcall to handle the faults, and the child's next
  write to its stack destroys it. `FaultsAreHandled` names this case (`ForksHalfArmed`) and does not hold
  without the exception.

malloc:

- `realloc()` into the previous region (`malloc.c:264`) leaves it marked free, and a later `malloc()`
  hands it out again; `realloc()` dereferences `curr->prev` when it is NULL and the next region is free
  (`malloc.c:255`), may take a next region that is too small (same line), and may merge into a previous
  region that is in use (`malloc.c:273`). `HeldInUse` does not hold with `Careful = FALSE`.
- `malloc()` of the last three sizes below `SIZE_MAX` rounds to 0 and returns `MIN_SIZE` bytes;
  `nmemb * size` in `calloc()` wraps as well.

fisopfs:

- A write that ends on a block boundary takes one block more than it needs, and a file at its size limit
  takes a 33rd one, whose number `data_blocks[32]` is written in the padding that precedes `atim`.
- `truncate` returns 0 when the disk was full before the file had its new length.
- A path with one more name than `MAX_LEVEL` is written past `tokens[]` in `find_inode()`.
- A crash during a save leaves an image that the next mount cannot read: it stops at an assertion or
  starts with whatever was written.
- `n_files` and `n_dirs` of the superblock only grow, and the bitmap never covers the last 29 data
  blocks (`N_DATA_BLOCKS / 32` is rounded down).
- Nothing is locked, so with several FUSE threads two handlers may take the same free bit.

shell and fork:

- The NULL that ends `history_arr` is written one past it when the array has just been filled
  (`history.c:128`), which is what `smashed` records; `HistoryHeld` is about the commands.
- The arrow down at a fresh prompt steps over that NULL (`history.c:98`) and reads what is behind it; the
  arrow up then reads the NULL and the shell ends. Each further press goes one place further (`DownJunk`)
  and the arrow up comes back over what they passed (`UpJunk`).
- `2>&1` copies stdout over descriptor 0 first, so the program's stdin is lost.
- `cmd 2>&1 &` runs in the foreground with `&` as an argument; environment variables are ignored on a
  line with redirections.
- A line with an empty half of a pipe ends the shell on a null pointer.
- A failing `cd` or `pwd` is tried again as an external program.
- `$?` holds the raw status of whatever was reaped last: a background process, or a pipeline, for which
  `print_status_info()` returns before it decodes it; after a failed `fork()` it is decoded twice.
- A failed `fork()` returns -1 as pid: a background command is counted without a child, and a
  foreground one waits for any child. `BackgroundCounted` keeps the part that still holds.
- In a pipe a failed `fork()` is reported and nothing else: `exec_cmd()` (`exec.c:265-274`) tests a status
  that it has not initialised, so a pipeline may succeed without one of its commands. `Results` says what is
  left: it never succeeds when a command that ran has failed.
- After a failed `fork()` `xargs` frees the lines of the batch and goes on (`xargs.c:41`, `:58`): no program
  gets them, and it exits with 0.
- `primes` prints with `printf()` and then forks (`primes.c:39`, `:41`): when stdout is not a terminal each
  filter inherits the lines of those before it and writes them again at `exit()`. `SievePrints` says how often.
- Nothing stops `read_line()` at the end of its buffer; the bound is on what is typed.
- The child of `xargs` goes on with its parent's loop when `execvp()` fails. `find` builds paths in 128
  bytes without a check and skips a directory it cannot open.

## 4. What TLAPS proves

All theorems hold for any number of processors, slots, tickets, pages, inodes, places and for any sizes
that satisfy the named assumptions of the modules. Hypotheses beyond those are stated in the theorems:
`LibUsers` (programs call the kernel as `lib/` and `user/` do) and `Careful` (2.4), and for the total of the
lottery `Ints2Boost # 1`.

**Kernel** (`KernelProofs`). `TypeCorrect` and `LockCorrect` hold for any programs. The rest is under
`LibUsers`. No single property of the kernel is inductive. That an environment is on one processor depends
on RUNNING environments being somebody's `curenv`, that depends on what `curenv` may be at each place of the
code (`CurenvByPlace`: after a trap it is RUNNING or DYING, in the scheduler RUNNING or blocked, in `hlt`
NULL), on receivers being blocked (`RecvingBlocked`: or a send would make a running environment RUNNABLE),
and on the free list being exact (or `env_alloc()` would reuse a slot in use). `OwnInv` is the conjunction,
with the lock and `env_cpunum`; `OwnCorrect` proves it, action by action, and `OneCpuCorrect`,
`FreeListCorrect`, `PgdirCorrect`, `MonitorCorrect` and `OwnershipImplemented` follow from it.
`PgdirCorrect` is what they are for: a processor in a program has the page directory of an environment that
exists, and no handler panics for want of one. `MonitorCorrect` is about `sched_halt()`; a breakpoint stops
the kernel whatever the other processors do. In the last, each action is matched with one of `EnvOwnership`
or leaves the mapped state alone. `DyingIsFinalCorrect` and `ReclaimedOffCpuCorrect` are action properties:
each action is looked at from a state in `OwnInv`. `ReclaimedOffCpu` needs `LibUsers`: a second
`sys_env_destroy()` frees a DYING child that another processor runs (3.3). `OwnershipExclusive` proves what
`EnvOwnership` gives to whoever relies on it, in any variables.

**Schedulers.** `RoundRobinImplements` and `LotteryImplements`: each build's choice is one `Kernel` allows,
for any programs, tickets, totals (the negative and overflowed ones too) and draws. So all of the above
holds in both builds. `TicketsCorrect`: decay, boost and `sys_reduce_priority()` leave every existing
environment at least one ticket and at most what it was given. `TotalFollowsCorrect` and `WhoCanWinCorrect`
are about sums of tickets, which the model takes with a fold. What they need of it is that a sum over a set
is the ticket of one element and the sum over the rest (`SumAny`), and that a sum of equal tickets is a
product (`SumConst`), for the boost; both are shown by the smallest set for which they fail, in place of
induction. `TotalFollowsCorrect` does not say that `total_tickets` is the sum of the tickets, because it is
not: it says how far each step moves one from the other. The steps are nothing, the tickets of a zombie that
is freed (`ZombieTotal`), or a boost, after which the total is what the RUNNABLE and RUNNING environments
hold. Its invariant (`TotalInv`) only bounds the tickets and the total. `WhoCanWinCorrect` characterises the
winners. `Scan` stops at the first environment whose tickets, together with those before it, reach the
number drawn (`ScanStops`), the draws are the numbers below the total (`DrawBelow`), and each of them is
drawn while the total is no more than the modulus (`DrawReaches`), so a place of the scan can be reached
exactly when fewer than `total - 1` tickets lie before it, or when it is the first. Two hypotheses state
where the code stops keeping this: `DrawFits`, inside the property, as the product overflows beyond 2580
tickets; and `Ints2Boost # 1` of `TotalFollowsCorrect`, as with 1 a boost is not told from a tick by the
counter that `Boosted` reads.

**Memory** (`MemoryProofs`). Each function of `pmap.c` has a lemma that says what it does to references,
the free list and the entries (`AllocFields`, `ReferFields` and those after them), so that the actions are
proved from the calls they are made of, as the code composes them. `PagesCountedCorrect` needs the three
parts of `PagesCounted` together: a page that goes back to the free list has no entry only because the
count was exact, and a freed environment leaves nothing behind only because every entry lies in one of its
tables. Counting is done with the cardinality of the set of entries that refer to a page, which a step
changes by one entry at a time. `NoEscalationCorrect` and `LostWhenFullCorrect` are action properties, over
the steps that reach the end of a call, the failing ones included.

**CowFork** (`CowForkProofs`). `CowImplementsMemory`: every step of `fork()`, `fork_v0()` and `pgfault()` is a
call of `Memory` with arguments it allows, a write that the hardware allows, or leaves memory alone. So
`PagesCounted`, `NoEscalation` and `LostWhenFull` hold of the programs too. `OwnPagesCorrect` rests on an
invariant with one part per place of the loops: which entry of the child is the parent's page and with
which bits while a page is being duplicated, that a page written through `UTEMP` or `PFTEMP` is in no other
address space, that a child belongs to one parent from `sys_exofork()` to `sys_env_set_status()`, and that
a page that two programs share is writable to neither (`SharingOK`).
`SharingOK` needs its exceptions, each tied to one place of one program (`Making`): between the two
`sys_page_map()` of `duppage()` the child holds the page copy-on-write and the parent still writes it, and
`pgfault()` and `duppage_v0()` hold a page at `PFTEMP` or `UTEMP` as well. That nothing faults inside those
windows is itself proved: the stack stays writable until the loop has passed it (`SteadyOK`), and from then
on a fault may come at every step of the loop. `FaultsAreHandledCorrect` has an invariant of its own
(`HandInv`), on top of that one: a program has no copy-on-write page or is `Ready`, it is `Ready` from
`set_pgfault_handler()` to the end of `fork()`, a child of `fork_v0()` has no copy-on-write page, and a
program with the handler and without the upcall exists only when no call of `fork()` is left (`LastFork`),
which is where the exception `ForksHalfArmed` was found: the invariant was not inductive without it.
`PrivateImplemented` is the refinement of `Private`: what each program sees follows from the contents of
pages, of which the other invariants say nothing. Its own (`DataInv`) says what the copies under way contain.
What a loop has not come to is not mapped in the child; before the second call of `duppage()` the child has the
parent's page; `UTEMP` is the child's page while `fork_v0()` fills it; and the copy of `pgfault()` equals the
page that faulted, from the `memmove()` to the mapping. With them, what is seen in any state
has a closed form (`Views`, by `StageViews`), and the step of each action is found from it (`Promise`): a page becomes
the child's at the second call of `duppage()`, at the write of the parent before it, or at the `memmove()` of
`fork_v0()`, and until then it is hidden. That a write changes nobody else's page is `SharingOK`
again (`WriteAlone`); that an allocation does not is that a page in somebody's entry is never free
(`KeptData`). `LayoutAssumption` fixes the pages that hold data at the two of section 2.3, and says that the
mark for nothing is not a value.

**Heap** (`HeapProofs`), under `Careful`. The lemmas come in two layers. On the regions of one block:
`split()` and `merge()` keep it tiled (`SplitLemma`, `MergeLemma`), and from them what taking, trimming,
enlarging and releasing a region does (`UseLemma`, `TrimLemma`, `EnlargeLemma`, `ReleaseLemma`), each saying
which regions are in use afterwards. On the heap: `HeapInv` says that every mapped block is tiled, has no
two free neighbours and has a region in use, and that the regions in use are those of the pointers held, one
each. The parts need each other: `free()` unmaps a block when the joined region has no neighbour, which
means that nothing in it is in use only because free neighbours were joined before (`LastLemma`), and it
joins the right regions only because the one it is given is in use. `SoundLemma` shows that of the ways
`realloc()` grows in place only the first can come out right. `TilingCorrect`, `HoldingCorrect`,
`CoalescingCorrect` and `AllocatorImplemented` follow. `BlocksCountedCorrect` adds the lists of blocks to
the invariant (`ListInv`): `unmap()` takes a block out of the list of its size and finds it there once
(`UnlinkLemma`, `LinkedOnce`), so that the counter and the lists stay what is mapped.

**FileSystem** (`FileSystemProofs`). The invariant (`FsInv`) is that the disk of a mounted file system, and the
image when it was written to its end, are `InOrder`: every block in use is at one place of one inode in use
(`Owned`), every inode has the blocks its size needs (`Fits`) and holds cells of its kind (`Whole`), and
the entries name the inodes in use but the root, each of them once (`NamedAs`). None is inductive alone:
that `unlink_inode()` gives the right blocks back needs `Owned`, that the cells it moves are the directory's
needs that no two positions are one cell (`SpotsApart`), which is `Owned` and `Fits` again, and that the
inode it frees is no longer named needs `NamedAs`. Each helper of the handlers has a lemma
(`StoreLemma`, `GrowLemma`, `DroppedLemma`, `WriteLemma`, `ShrinkLemma`, `InsertLemma`, `RemoveLemma`), the
arithmetic of sizes and blocks has its own (`WriteFits`, `ShrinkFits`, `InsertFits`, `RemoveFits`), and the
handlers are put together from them. `Fits` of a file allows the block too many of `write_file()` on a boundary, and
of an empty file none: `write_file()` of nothing is refused before it. Walks of `find_inode()` along paths
of any length are handled without induction: a walk that goes wrong has a first place where it does
(`LeastLemma`), and there it does not. `TypeCorrect`, `InodesExactCorrect`, `BlocksExactCorrect` and
`BlocksFitCorrect` follow, through every handler, save, crash and mount. `TreeImplemented` is the refinement of
`FileTree`, whose tree is what `find_inode()` finds along each path and the bytes it reads there. Its invariant
(`TreeInv`) adds to `FsInv` that no directory has two entries with one name (`NamesApart`), or unlinking the
first would uncover the second. Two facts carry it. A path that is found is the only path to its inode
(`OnePath`): of two, the shortest pair would end in one entry of one directory under two names, or in two
entries for one inode. And a handler that changes one inode, or one entry of one directory, changes what no
other path finds (`FoundElsewhere`, `TreeElsewhere`), again by the shortest path for which it would. On
these rest `AddTree`, `UnlinkTree`, `WriteTree` and `TruncateTree`, one for each kind of handler; in the last two the
contents are put together block by block (`JoinedThree`, `Spliced`), so that a write that finds no block
leaves a prefix of the buffer. `ValueAssumption` of `FileSystem` says that the values that stand for no inode, for
nothing and for a directory are neither inodes nor contents.

**Shell** (`ShellProofs`), for any lines, statuses, history file and number of children. `BackgroundCounted`
is inductive with three facts about the child that the shell waits for (`WaitedOK`): outside `waitpid()` there
is none, in it the child exists, and only after a failed `fork()` is there none to name. Each round of
`wait_back_processes()` then takes one from what is owed or moves one to `updated_count`. `StreamsCorrect`
follows a child from `fork()`, where it has the shell's streams, to the end of `exec_cmd()`
(`RedirectLemma`). `HistoryHeldCorrect` needs that the array of `load_history()` is longer than what it has
read; the array that `_save_command_in_memory()` grows is never empty, so that doubling it makes room.

## 5. Only model-checked, and what is left to prove

Liveness and everything with fairness is beyond the prover and stays with TLC: `DyingIsFreed`,
`LockGranted`, `EveryoneRuns`, `ZombiesReaped` and `EveryoneEnds`. The only other properties that are not
proved are `Results` and `SievePrints` of `Pipelines`, whose parts are five different programs: the paths of
`Find` are recursive in their tree, and that the sieve prints every prime needs an induction over the
filters.

Next: the parts of `Results` that are safety of one program each, the end of the first process after the others
(`EndsLast`) and the sieve among them.

## 6. Not modelled

- Console, boot assembly, LAPIC, PIC, MP tables, kernel debugger, `printfmt`, `string`: device access,
  firmware parsing and formatting, mostly supplied with JOS. The models take from them only the timer
  interrupt and the fact that the kernel monitor, entered by `sched_halt()` or by a breakpoint, does not
  come back.
- `mem_init()`, the kernel's own mappings, `mmio_map_region()` and the `check_*()` functions of `pmap.c`:
  they run once, before there is a second processor or a program. The TLB: `env_run()` loads `%cr3` on
  every return to a program.
- Reads and jumps of a program to an address it has not mapped: the fault would be handled by `pgfault()`,
  which reads that address again.
- User test programs and grading scripts of `sched`: read for what they assume (`LibUsers`).
- Times, owners and modes of files, `getattr`, and the superblock's counters: nothing depends on them.
- Environment variables of a command line, the text of what the shell prints, `freecmd.c`.
- The stdio buffers of `pingpong` and of the commands of a pipeline, which depend on nothing that is modelled,
  and a buffer of `primes` that fills up. Errors of `read()` and `write()` in `src/fork` other than `SIGPIPE`.
- What a breakpoint or a panic does to the other programs of `CowFork`: they go on, which is more than the
  machine would let them do.
- The bytes of memory that `malloc()` hands out, and `get_stats()`.
