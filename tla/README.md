# Verification of c_projects

`c_projects` is a collection of independent C programs: a simulated memory
management unit, a parallel `make`, a user-level thread scheduler, a file
server, a Minix-like file system and a few small tools. This directory holds
TLA+ models of the programs whose state is worth model checking, the TLC
configurations that check them, and TLAPS proofs about six of them: the MMU,
parmake, the green threads, the file server, its client and the file system.

    cd tla
    tlc -workers 2 -config MMU_structure.cfg MC_MMU.tla
    tlapm MMUProofs.tla          # and the other *Proofs modules

## 1. Inventory

| Part | State it keeps | Operations | Interacts with | What makes it hard |
|---|---|---|---|---|
| **MMU** `ideal_indirection/mmu.c` | a page directory and seven segments per pid, the TLB, `curr_pid` | `mmu_read/write`, `mmu_add_process`, `mmu_remove_process`, `mmu_delete` | asks the kernel for frames in the middle of a fault, caches PTE addresses in the TLB | eviction while a fault is half done, stale TLB nodes, stale swap files |
| **kernel** `kernel.c` | `entry_mapping` (frame to PTE), physical memory, swap files | `ask_kernel_for_frame`, `return_frame_to_kernel`, `read/write_page_*_disk`, `remove_swap_file` | changes the present bit of *another* process's entry | two copies of one fact (frame table and page tables), exhaustion |
| **TLB** `tlb.c`, **segments** `segments.c` | an LRU list; ranges with permissions | `tlb_get_pte`, `tlb_add_pte`, `tlb_flush`; `find_segment`, `grow/shrink_segment` | | list bounds; inclusive ends |
| **parmake** `Parallel_Make/parmake.c` | `rule->state`, `rule->data`, queue, `pending_targets`, goal mutexes | `hasCycle`, main's accept/wait/stop, `thread_func` | the main thread and the workers through unlocked shared memory | data races, lost wake-ups, failing rules, duplicated work |
| **scheduler library** `savvy_scheduler/libscheduler.c`, `libpriqueue` | the priority queue, `currenttime` | `scheduler_new_job`, `scheduler_quantum_expired`, `scheduler_job_finished` | called from the signal handler | six comparers, ties, times cut to seconds |
| **green threads** `gthreads/gthreads.c` | `currjob`, `suspended`, `counter`, `job_count`, one context per job | `gtgo`, `gtstart`, `gtsleep`, `gtyield`, `gtstop`, `gtret` | SIGALRM switches stacks anywhere | an alarm between any two steps, a switch that resumes in the middle of `gtyield` |
| **file server** `nonstop_networking/server.c` | a session per descriptor, the file list, files | GET, PUT, LIST, DELETE | epoll, non-blocking sockets | partial reads, overlapping uploads of one name, stale sessions |
| **file client** `client.c` | one request, a buffer over the socket | the four verbs, sending a file, reading the answer | the server | answers cut anywhere, servers that die, files that change size |
| **Minix FS** `finding_filesystems/minixfs.c` and its utilities | inodes, data map, blocks, directories as entries in blocks | create, mkdir, read, write, unlink, chmod, chown, `min_blockcount`, mkfs, the virtual files | the fakefs shell | a full disk in mid-write, the indirect block, sizes set before blocks, directories longer than a block |
| **fakefs** `fakefs_src/` | descriptor table, one open directory, the path of its root | the calls of libc it interposes, `dup`, `cp`, path resolution | Minix FS | reference counts of duplicated descriptors, `..` written over the array it is read from |
| **parser** `Parallel_Make/parser.c`, `parmake_main.c` | the dependency graph, line numbers in `rule->state` | command line, target and recipe lines, comments | gives parmake its graph | recipes that override one another, quotes and comments |
| **par_reduce** `teaching_threads/` | the list and the partial results | partition, reduce, reduce | | the partition at its edges, threads that end in any order |
| **env, time** `utilities_unleashed/` | none | one fork, exec, wait | | system calls and formatting only |
| course libraries | | vector, queue, dictionary, graph | used by parmake and the server | headers and prebuilt archives only |

What each part must get right:

* *MMU*: a process reads zeros or what it stored, paging is invisible, frame
  table, page tables and TLB agree, no frame leaks.
* *parmake*: a rule runs after what it depends on, at most once, never over a
  failed dependency; exactly the goals that reach a cycle are refused; parmake
  returns, and only when the goals are decided.
* *threads*: no job is lost, duplicated or run after its stack is freed; the
  scheme is obeyed; main leaves after the last job.
* *server*: the list and the directory agree, a file is what one client
  uploaded; a reset in the middle of a request harms one name and one client at most.
* *file system*: no block belongs to two files and none leaks, a file reads back
  what was written, a directory names its files and only those, a command dies
  only where the code gives up a check.
* *client*: it says what happened. *parser*: the makefile it builds is the one
  that was written. *par_reduce*: every element counts once. *fakefs paths*: a
  path in normal form, whatever `.`, `..` and slashes it is spelt with.

The hazards (lines where one of these could break and a unit test would hardly
see it) are listed in `PROJECT.json`, each with the properties that watch it.

## 2. Modules

| Module | Stands for |
|---|---|
| `VirtualMemory` | abstract specification: one private array of pages per process, what every call answers |
| `MMU` | `mmu.c`, `kernel.c`, `tlb.c`, `segments.c`, one action per API call |
| `MMUProperties` | invariants, the refinement mapping to `VirtualMemory` |
| `MMUProofs`, `MMUMemoryProofs` | TLAPS proofs: who owns frames and translations, and what runs out; that paging is invisible |
| `ParMake`, `ParMakeProperties` | `parmake.c`: main thread, workers, every unlocked access a step |
| `ParMakeProofs` | TLAPS proofs |
| `Scheduler` | `libscheduler.c` and `libpriqueue.c` as operators on a record |
| `GThreads`, `GThreadsProperties` | `gthreads.c` with its alarm, composed with `Scheduler` |
| `GThreadsProofs` | TLAPS: lemmas about the queue and the clock of the library, then proofs about the threads |
| `FileStore` | abstract specification: a store of whole files, each request answered at one instant |
| `FileServer` | `server.c` and its table of sessions, what `client.c` and the network do to it |
| `FileServerProperties` | invariants, liveness, the refinement mapping to `FileStore` |
| `FileServerProofs` | TLAPS proofs |
| `MinixFS` | `minixfs.c`, `minixfs_utils.c`, `minixfs_provided.c` as operators on a disk |
| `FakeFS`, `FakeFSProperties` | a command run by fakefs, or a program linked with `minixfs.c`, on that disk |
| `MinixFSProofs`, `FakeFSProofs` | TLAPS: what each operation keeps of a disk; proofs about the disk and the descriptor table |
| `Makefile`, `MakefileProperties` | `parser.c` and the command line; extends `ParMake` with the goal loop |
| `FileClient`, `FileClientProperties` | `client.c` on one connection |
| `FileClientProofs` | TLAPS proofs |
| `ParReduce`, `ParReduceProperties` | `teaching_threads` |
| `RealPath`, `RealPathProperties` | `fakefs_realpath` |
| `MC_*` | the constants TLC is given; `MC_Tools` puts the programs that run once side by side |

Definitions named `X_Something` with the comment *Mutation* are plausible bugs
of the definition `X` that follows. They are never used by a specification;
`PROJECT.json` pairs each with the property that catches it.

### 2.1 The MMU

A frame is a number; physical memory is seen in the two ways the code casts it,
as a table (`entries`) and as a page (`data`). A page table entry is named by
its address, `<<frame, index>>`, because the code's hard cases all come from
addresses: `entry_mapping` and the TLB hold pointers to entries, and a swap
file is named `%p` of the entry. The kernel is passed through a call as a
record `K`, so that a handler is the composition of the calls in the order the
code makes them: `Translate` is TLB lookup, `NewTable` (which may evict),
`NewPage` (which may evict), `ReadFromDisk`. Each API call is one action since
the simulator is sequential.

`ask_kernel_for_frame` takes the first free frame, else evicts the first page
after the caller's own entry is excluded, else returns 0, which every caller
uses as an address; that is `Crash`, an end of the run.

Abstracted: an access covers a whole page at offset 0 (page-crossing accesses
are loops over this one); a page holds one value tagged with who stored it;
statistics and flags nobody reads are left out; only the entries a touched page
can reach are represented; segments are in page numbers, with the constants of
`segments.c`.

| Run | Instance | Shows |
|---|---|---|
| `mmu_structure` | 2 pids, 2 pages in different page tables, 6 frames, TLB of 2, no values | type, `TablesAreReserved`, `OwnersAgree`, `NoFrameLeak`, `TLBCoherent`, `TLBIsACache`, `CrashOnlyWhenExhausted` |
| `mmu_memory` | 2 pids, an edge page of TESTING and of TEXT, 1 value, 7 frames, TLB of 2, TESTING shrinks by a page and grows back; no single removal (`KeepSpec`) | `DirtyCoversWrites`, and that the MMU implements `VirtualMemory` |
| `mmu_swapleak` | 5 frames, removal allowed | **violation**: see section 5 |

Bounds: a process needs a directory, a table and two pages before it does
anything, so 6 or 7 frames with two processes make every access able to evict
and let frames run out; a TLB of 2 nodes is full at once. Two pages are
enough for a second table (an eviction between the table and the page of one
fault). `MaxShrink` bounds the segment. The views drop what a freed frame held,
which `Give` overwrites before it can be read.

`CHECK_DEADLOCK FALSE` where frames can run out: the program dies there.

### 2.2 parmake

`rule->state` is read and written with no lock. `Look`, `Test`, `Claim`,
`Result` are the tests of `parmake.c:68-94`, each a step. `Reloads` chooses the
build: at `-O0` each test loads the field again, at `-O2` the compiler keeps the
first load (both are outcomes of the same data race). `pending_targets` is
appended without the mutex that its drain holds: `PutAside` reads the size,
`PushBack` writes slot and size, so two appends may overlap and leave a slot
that nobody wrote (`Garbage`; pulling it is `crashed`). The queue locks itself
and is atomic. `Drain` moves one target at a time under the mutex.

`hasCycle` returns without popping its path when it finds a cycle, so the next
goal's search starts from what was left: `Leftovers` computes every content it
can leave, for every neighbour order.

The parser is section 2.6. The text of commands is left out: a rule's recipe
writes the rule's file or does not, and ends well or fails. The commands run in
order, so one that fails may come behind one that has written the file (`torn`).
A file gets the second it is written in (`clock`, which may stand still or go on
with each write): two files may have equal times, as `st_mtime` in whole seconds
has them.

| Run | Instance | Shows |
|---|---|---|
| `tools` | 1 worker, debug build, 4 rules (two goals over shared dependencies), phony and failing rules, several file ages | `RunsOnce`, `FreshWhenDone`, `Terminates` |
| `parmake_two` | 2 workers, release build, three rules whose recipes write files, a goal that is a dependency of the other, old files or none | `DependenciesFirst`, `FailureStops`, `ExitMeansDone` |
| `parmake_reload` | 2 workers, debug build | **violation** of `FailureStops` |
| `parmake_hang` | 2 workers, `a: b` | **violation** of `Terminates` |

Bounds: `MaxPending` slots of the vector and `MaxQueue` entries a drain may
leave in the queue. With one worker neither is ever reached. With two a
target can be put aside and drained over and over while its dependency runs,
so the queue length is cut at `MaxQueue`; cuts only drop interleavings that
repeat the same target. Workers are interchangeable, and `parmake_two` (safety
only) uses that symmetry; its view keeps the order of the file times, which
files have the current second, and of a worker at the queue only where it is.

`FailureStops` excepts the one way there is round a failure (section 5): a failed
rule whose recipe wrote the file first is found up to date when it is queued again.

Fairness (`FairSpec`): weak fairness of the main thread and of every worker,
the operating system keeps scheduling runnable threads, and commands end. A
blocked `pthread_mutex_lock` or `queue_pull` is disabled, so nothing is assumed
of it. `CHECK_DEADLOCK FALSE`: after `Join` parmake returns.

### 2.3 Scheduler and green threads

`Scheduler` is functional: the globals of `libscheduler.c` are a record and a
call returns a new one. `Ahead` is the single pass of `priqueue_offer`, which
compares with the head, with each gap, and falls to the tail; times are ticks
and `currenttime`, an `int`, keeps whole seconds (`Truncated`).

`GThreads` has one processor, `currjob`. A step of the running thread and an
`Alarm` interleave freely, also inside `gtgo`, which does not block SIGALRM and is
four actions: `GtGo` increments `job_count`, `NewJobMade` is `scheduler_new_job` up
to its call of `priqueue_offer`, `NewJobQueued` that insertion, `StackReady` the
stack. Between the second and the third main is inside `priqueue_offer`
(`Linking`). If an alarm that comes there leaves the queue as it is, the insertion
goes on as if nothing had happened. If it changes the queue (`moved`), main goes on
with pointers to entries that are freed: `NewJobQueued` then has any outcome of
`Torn`, the new job lost, or linked anywhere in front of any rest of the queue, so
that others are lost or found twice, or the process is dead. `cut` records that this has
happened; what the properties promise of the queue they promise until then. The
malloc in front of the insertion is part of `NewJobMade`.
Every other time the alarm expires main gets a quantum (`ToMain`), and the
thread that comes back goes on *inside* `gtyield` with the scheduler main left
behind: `ctx = "expire"` and `FallThrough`. `gtyield` itself is one step: the
handler blocks the alarm, and the voluntary callers have just armed a 100 ms
timer. `print_stats` is the record of the three averages. Stack memory and the log
are left out.

| Run | Instance | Shows |
|---|---|---|
| `gthreads_jobs` | 3 jobs, 6 schemes, the two calling patterns of `main.c`, two job data sets with ties | type, `OnePlace`, `Preemptible`, `ExitMeansFinished`, `StatisticsMakeSense`, `SchemeObeyed`, `Finishes` |
| `gthreads_gtgo` | `gtstart` before `gtgo` | **violation** of `StartsAfterGtgo` |

Bounds: `Work` steps per job and `MaxTime` alarms: three alarms are enough for a
visit of main, the return, and an expiry after it; `Second = 2` lets the
truncation matter. In `gthreads_jobs` the script that starts the timer first
also reaches the crash of the second run and the insertion into a changed queue.
`TypeOK` and `Preemptible` are required there
too; the others end at `cut`, and `Finishes` accepts it and a crash. Fairness: weak fairness of the process
(it keeps running); alarms are never required.

### 2.4 File server

One thread and an epoll loop, so what interleaves is the *network*: every step
of the server (accept, an event taken from epoll, a `recv` with all that
`Session_processNext` does, EAGAIN, the end of a connection) is an action, and
clients connect, send, shut down, are killed or reset between any two.

A request is a number of pieces: the verb in two halves, the rest of the
header, the size of a PUT, and its blocks. These are the cuts of the byte
stream the code tells apart. `sent` and `taken` count the pieces that have
arrived and been received; a `recv` takes all that is there. `ready` is
epoll's ready list: being edge-triggered, it gets a descriptor when something
arrives and loses it when the event is reported. Handling one event at a time
instead of a batch of 64 loses nothing: a reset after `epoll_wait` is a reset a
little later. `session` is the hash table by descriptor, and a descriptor that
is closed is reused. `fwrite` is buffered, so any number of the blocks written
may be in the file (`flushed`); files are inodes, which outlive their names.
`before` is history: the old content of a file that is being replaced.

`Overlaps` says whether requests for one file may be open at the same time
(unless both only read); the server promises less with overlaps (section 5).

A reset (`Reset`) may come at any moment of an open connection of the clients in
`Resets`. When it is reported by epoll, `server.c:837-843` closes the descriptor and
leaves the session where it was, and the next connection on that descriptor goes
on with it. `input` is the client whose bytes are at the beginning of the session's
buffer: as long as that is another client than the one connected (`~Own`), what
arrives is joined to a header or a size (`JoinedRequest`, `JoinedSize`), written to the
file that is still open (`PutData`), or ignored. `data` records the blocks
`fwrite` was given with the client they came from, so a file that mixes two
clients' data is one in the model, too. `spoilt` is history: the names whose upload was
left behind; `Misled` are the clients that got such a session.

An answer with a body may find the socket's buffer full (`Delivers`, for the clients in
`Deaf`): then `sending` is set, and no other action of the server is enabled until
the client reads (`Drains`), is reset (`SendFails`), or a signal ends the process. A short answer
fits in any buffer. What is in the answer is fixed when it begins: the file cannot change
while the only thread is sending it.

| Run | Instance | Shows |
|---|---|---|
| `server_store` | 3 clients, 2 descriptors, 2 names; uploads with the announced blocks, one too few, one too many, and of an empty file; an unknown verb and one that is too short; one client reset at any moment, two that may not read; a signal that ends the server | type, `ListMatchesDisk`, `FilesAreWhole`, `ImplementsStore` (`FileStore`), `Served` |
| `server_overlap` | 2 uploads of one name at the same time | **violation** of `ListMatchesDisk` |

Bounds: with three clients on two descriptors one is always reused, after a good
end, a bad one or a reset; one client that is reset leaves one session
behind, in every state it can have. `Cuts` lists where the requests are cut: the first
anywhere but between a size and the first block, the second after its size, the
third nowhere but where its client is killed. Two blocks are enough for too few and too
many. Fairness (`FairSpec`): weak fairness of the server as a whole, whose loop
never stops; no client is required to do anything, not even to read. `Served` has
the premise `[]<>(sending = NULL)`: `send_all` always ends, which is up to the
clients and not to the server (a client that never reads stops it for ever). Under it
a client that has sent all is answered, whatever others have stopped or were reset
in the middle of, unless a signal stops the server, its own connection is reset, it
got the session of one that was, or its request ends before the verb does. `CHECK_DEADLOCK FALSE`: all clients may be done.

`Stop` is a signal that `sig_usr_un` does not ignore (SIGINT, SIGTERM, SIGHUP): the
directory of files is removed and nothing moves after it.
Left out: failing system calls (an `fopen` that fails among them), a request that begins
with the end of a verb, the order of a list.

### 2.5 Minix file system and fakefs

`MinixFS` is functional: an operator takes a disk (inodes, data map, blocks) and
returns the disk after it, the value and the new offset. The unit of size is a
*cell* of 256 bytes, one directory entry, since everything the code cuts at is a
block or an entry; a block is seen, as the code casts it, as cells or as a table
of block numbers. A mode is the set of its bits, so that shifting permissions
over the type is seen. What the code leaves to chance is part of the mounted
disk (`open_fs`): the order in which `rand()` comes upon the blocks (`order`, one
of the constant `Orders`) and whether a pointer nobody has set happens to be
harmless (`luck`). An entry is written with 257 bytes, so the last of a block
puts a zero into the next block (`ZeroByte`). The loops of the code (`WriteLoop`,
`DirectLoop`, `TableLoop`, the walk down a path in `Reached`) are recursive
functions of the turn, so that they can be reasoned about.

A mounted disk also says what a call did to the promise made of it. `status` is
`down` when a signal killed the process, and `ruined` when something nobody
should do was done to the disk: a directory written as a file, an entry put into a
file, a zero written over another file, the root removed. `untidy` are the
inodes that were used as a directory past their first block, or whose type
`chmod` changed; the history variable of that name collects them.

`FakeFS` has the process's side: `tab` is `fd_map`, the fakefiles in memory and
the descriptors the kernel holds for them. `driver` is a program that calls the
library directly or a command under fakefs; `cp` is one action, as nothing runs
beside it, and between two commands `Restart` ends the process and keeps the
disk. A command that a signal kills is `down`, and its disk stays as it is: the
next command starts from it. `InputsAssumption` says what programs pass: paths,
cells, and positions that are not negative (a negative `lseek` is not modelled).

The other history variables say where the code keeps what it seems to promise:
`whole` are the inodes written without a gap or a failure, `shared` the
fakefiles that were duplicated. A target of `cp` stays whole if its source was
whole and is no directory: creating the target can add an entry to that one
before it is read. `Sound` is a disk that is not ruined and has no
untidy directory. Outside them the program does go wrong (section 5).

| Run | Instance | Shows |
|---|---|---|
| `minixfs` | 5 blocks of 2 cells, 3 inodes, 2 direct numbers and a table of 3, 2 files and a directory | type, `BlocksAccountedFor`, `ReadsBack`, `EntriesExact`, `DanglesOnlyWhenShared`, `KilledForAReason` |

Bounds: with five blocks a file of three cells, a root of two blocks and a table
fill the disk, and three inodes are full with two files; `MaxCalls` is the number of
calls in a behaviour (6 of a program, 5 of a command): enough to fill the disk,
remove, and reuse what was freed. `MaxFd = 4` leaves two descriptors, one of which
can be a duplicate. `Orders` offers the free blocks downwards or upwards. With three
inodes no directory outgrows its first block; the runs with four show what
happens then, and the proofs (section 3.6) hold for any number of inodes.
`CHECK_DEADLOCK FALSE`: behaviours end after `MaxCalls`.

### 2.6 The programs that run once

Each of these is a program with one task and no neighbour. `MC_Tools` runs them
as a disjoint sum: `tool` says which one a behaviour is, the others stay at
their start, and the fairness of each is guarded by `tool`.

* `Makefile`: one action per kind of line (`Blank`, `RecipeLine`, `TargetLine`,
  and `StopAtLine` for a line that ends the program), and the command line.
  Tokens stand for words, with the characters the parser looks for (tab, colon,
  hash, quote, backslash) as tokens of their own. The line numbers kept in
  `rule->state` are in `state`. `MakefileUnderstood` compares with a definition
  of what the text means that reads the file as a whole. After the parser come the goals and
  the goal loop of `ParMake`, for `RejectsExactlyCycles`.
* `FileClient`: the request piece by piece, the shutdown, and a reader that gets
  what each `read` returns. A status line and a size are two cells so that a
  `read` can end inside; blocks are one cell. The server answers as `FileServer`
  does, or dies with any part of its answer sent.
* `ParReduce`: `main`, the threads of `par_reduce` in any order, the reducers on
  ints that wrap at `Width` bits.
* `RealPath`: the loop of `fakefs_realpath` over an array of characters that it
  reads and writes at once, compared with the path resolved name by name.

| Run | Instance | Shows |
|---|---|---|
| `tools` | makefiles of 3 to 5 lines over 3 targets; 1 parmake worker; uploads of 0 to 3 blocks with a buffer of 2, files that grew or shrank; lists of up to 5 elements on up to 3 threads; every path of up to 6 characters | `MakefileUnderstood`, `RejectsExactlyCycles`, `RunsOnce`, `FreshWhenDone`, `Terminates`, `TellsTheTruth`, `StoredIsReported`, `ClientEnds`, `ReducesEverything`, `RealPathIsNormal` |

Bounds: three target lines give every graph on a, b and c that lines of at most two
dependencies spell, and goals may be repeated there; five short lines let a recipe be overridden twice with
comments between. A path of six characters holds `/a/../` and `a/..//`. A length
of 5 on 3 threads leaves a remainder of 2. Fairness: `ClientEnds` assumes that
the client and the server keep running (`WF` of each), not that the connection holds.

## 3. What is proved

The theorems hold for every value of the constants their modules assume
something of: any number of processes, pages, frames, rules, workers, jobs,
clients and files. The other side of each is a run of section 2, where TLC
finds the same property true of a small instance and false of its mutants.

### 3.1 The MMU

Assumed: `SizeAssumption` (there is a frame, a TLB has two nodes, page numbers
fit two levels, and page 0 is not touched) and `NullAssumption` (NULL, RESERVED
and NoFile are not frames, entries or contents, and NULL is not an array of
pages).

| Theorem | Statement |
|---|---|
| `TypeCorrect` | `Spec => []TypeOK` |
| `StructuresAreSafe` | `Spec => []TablesAreReserved` |
| `OwnersAlwaysAgree` | `Spec => []OwnersAgree` |
| `NothingLeaks` | `Spec => []NoFrameLeak` |
| `TranslationsAgree` | `Spec => []TLBCoherent` |
| `TLBStaysACache` | `Spec => []TLBIsACache` |
| `DiesOnlyWhenExhausted` | `Spec => []CrashOnlyWhenExhausted` |
| `DirtyBitsCover` | `KeepSpec => []DirtyCoversWrites` |
| `MemoryIsImplemented` | `KeepSpec => ImplementsMemory`, if `Value # {}` |

*Ownership* (`MMUProofs`). None of the first five is inductive alone: evicting a
page is harmless only if its frame is not a table (`TablesAreReserved`), which
needs to know that the frame table names a present entry of a real table
(`OwnersAgree`), and the TLB stays right only if no table moves. The inductive
invariant `IInv` is the conjunction of `KInv` (types and ownership of the kernel
record, stated on an arbitrary `K` so that it can be carried through the calls
*inside* an action), `CInv` (the TLB and the current process) and `SInv`
(segments). The lemmas follow the code: `AskSpec` says what
`ask_kernel_for_frame` returns and leaves alone, `AskKeepsDirectories` that it
moves no paging structure, `NewDirectoryOwns`, `NewTableOwns`, `NewPageOwns` that
each link step keeps ownership though it may have evicted in between,
`TranslateSpec` and `BuiltSpec` compose them into an access and into
`mmu_add_process`, `ReleasedOwns` is removal. `NextIInv` has one step per
action, `SpecIInv` closes the induction.

*Limits* (the end of `MMUProofs`). `Cache` says of a list what `TLBIsACache` says of
the TLB; it is inductive because `tlb_add_pte` is reached only after
`tlb_get_pte` missed. For the crash, `Spare(k)` are the frames no structure holds.
`ask_kernel_for_frame` answers 0 only when nothing is spare (`AskFails`): it never
evicts the page of the entry it was asked for, but that entry is not present and
has none. Of the frames a call asks for, only a directory and a table leave
`Spare`, so a call that dies started with at most two.

*Contents* (`MMUMemoryProofs`). `View` is what a process sees of a page: the frame,
else the swap file, else zero. `Memory` is the second half of the inductive
invariant: only entries of live page tables have swap files (`FilesOwned`), so a
frame that becomes a table, whose entries' addresses name the files, finds none
that is left over; and a page that is not dirty is its copy on disk
(`CleanSaved`). This is what single removals destroy (section 5), and why the
theorem is about `KeepSpec`. `AskMemory`, `NewTableMemory`, `LoadMemory` and
`StoreMemory` carry `View` through the calls of a handler: an eviction in the
middle of a fault, of the page just mapped too, changes the view of nobody.
`...Implements` is then one lemma per action: a read is a `Load`, a write a
`Store`, `mmu_add_process` a `Create`, a crash a stutter. `Value # {}`, since a
write that faults must be a `Store` of something; callers have something to store.

### 3.2 parmake

Assumed: `ShapeAssumption`, `BoundAssumption` and `NullAssumption` (types),
`FiniteAssumption` (a makefile has finitely many rules: the newest dependency is the
maximum of finitely many times). `OneLoad` is `~Reloads \/ \E w : Worker = {w}`: the tests of one pass see one
load of `rule->state`, as the build keeps it or nobody else writes it (which is the
invariant `SeenNow`).

| Theorem | Statement |
|---|---|
| `GoalsAreDecided` | `Spec => []ExitMeansDone` |
| `MadeInOrder` | `Spec => []DependenciesFirst`, if `OneLoad` |
| `FailuresStop` | `Older /\ Spec => []FailureStops`, if `OneLoad` |
| `RejectsCycles` | `Spec => []RejectsExactlyCycles` |
| `RulesRunOnce` | `Spec /\ GoalsApart => []RunsOnce`, with one worker |
| `FilesFreshWhenDone` | `Spec /\ GoalsApart => []FreshWhenDone`, with one worker |

`GoalsAreDecided` is about the goal mutexes, in both builds: `MutexesHeld` says
that the mutex of an undecided goal is locked, is nobody else's, and is not yet
behind the main thread; `StatesTell` that a worker which unlocks has just
decided. For the order, `ScansTell` follows one scan of the dependencies: a worker
whose flags are still clear has seen every dependency it passed made. The hard
one is `FailuresStop`: a worker may pass a rule as made which another worker
ran again and saw fail, unless a rule never both succeeds and fails (`Apart`).
That holds of the rules that are `Clean`: none at or below them has written its file
and then failed. It needs the files: `FilesTell(m0)` relates them to the times `m0`
before the first command (what was written is newer than everything there was,
a clean rule without a new file is still as fresh as when it was made, a clean rule
fails for a reason that stays). The theorem is proved for a fixed `m0`, which is
then the `mtime` of the initial state. "Newer" needs the premise `Older`: parmake
starts in a later second than the last file was written in. Without it two workers
may run a rule that is old only by a dependency written in the same second, once
with success and once not: TLC finds that on `a: b c`, `b: c` when `b` fails and its
file has the second parmake starts in. With two workers and `Reloads` both theorems
are false, which `parmake_reload` shows.

`RejectsCycles` is about `hasCycle`, for every graph, whatever the neighbour order.
Its recursion has a solution (`LeftoversExist`: after as many turns as there are rules
nothing changes), and `PathInduction` goes from longer paths to shorter ones.
`NothingLeft` says that the answer is 0 exactly for what reaches neither a cycle nor
something in `visited`; `CyclicLeft` that what a search leaves in `visited` is cyclic,
so that what it hides from the next goal had to be refused anyway.

`GoalsApart` says that the goals of the command line are different and that no rule
depends on one; both are needed, since a goal is queued with its state at 0. Under it
a single worker has each undecided target in one place (`Placed`): the queue, the slots
of `pending_targets`, or its hand. What it claims was nowhere (`Waiting`), and what it
decides is nowhere afterwards. No rule runs twice, so that a file that was written is
not written again behind the back of those made from it: `FilesFresh` is inductive
only with that. Cycles need not be excluded. With more workers two of them may claim
one dependency, and both theorems are false.

### 3.3 Scheduler and green threads

Assumed: `JobAssumption` (finitely many jobs: `job_count` counts them),
`SecondAssumption`, `NoJobAssumption`, `MainAssumption`, `BoundAssumption`,
`ScriptAssumption` (the main program calls `gtgo` once for a job),
`InfoAssumption` (the job data are ints).

| Theorem | Statement |
|---|---|
| `TypesHold` | `Spec => [](~cut => TypeOK)` |
| `EveryJobInOnePlace` | `Spec => []OnePlace` |
| `JobsArePreempted` | `Spec => []Preemptible` |
| `MainWaitsForAll` | `Spec => []ExitMeansFinished` |
| `AveragesMakeSense` | `Spec => []StatisticsMakeSense` |
| `SchemesAreObeyed` | `Spec => SchemeObeyed` |
| `NeverCut` | `StartsLast /\ Spec => []~cut` |

`OnePlace`, `ExitMeansFinished`, `StatisticsMakeSense` and `SchemeObeyed` have
`~cut` as a premise, and so has what is proved of them: the code really loses jobs
when an alarm changes the queue inside the `priqueue_offer` of `gtgo`.
`NeverCut` names the programs that never get there: those that call `gtstart` and
`gtsleep` after their last `gtgo` (`StartsLast`), as `rr_fcfs_sjf_test` does.

The first part of `GThreadsProofs` says what the library does to its queue: that `priqueue_offer`
puts a job behind everything that goes before it and in front of the rest, so an
ordered queue stays ordered (`InOrder`) whatever the scheme, and that the keys
compared when a job was queued are still its keys. The second part has one
inductive invariant `Inv`, which holds until `cut` (`SpecInv`): `InOrder`, then `ScriptInv` (what main has yet to start
has not arrived), `CountInv` (`job_count` against the jobs between `gtgo`'s
increment and their return), `PlaceInv` (where a job is; one may be on its way into the queue, `Arriving`), `SwitchInv` (main is in
the middle of `gtyield` only when it was suspended for itself, and the alarm is on
under a job) and `TimeInv` (a job that did not run waits with all its time). `JobsArePreempted`
needs none of it, and `NeverCut` an invariant of its own, `Quiet`: while
an insertion is left in the script the alarm is off. Each conjunct of `Inv`
needs the others: an alarm inside `gtgo` splits the count from the queue, and a
return into the middle of `gtyield` (`FallThrough`) uses a scheduler state older
than the call. The action property `SchemeObeyed` follows from `Inv` and the
head of an ordered queue.

### 3.4 The file server

Assumed: `RequestAssumption`, `CutsAssumption`, `NullAssumption`,
`NothingAssumption` (NULL is not a session and not a file).

| Theorem | Statement |
|---|---|
| `TypesHold` | `Spec => []TypeOK` |
| `ListIsTrue` | `Spec => []ListMatchesDisk`, if `~Overlaps` |
| `FilesStayWhole` | `Spec => []FilesAreWhole`, if `~Overlaps` |
| `StoreIsImplemented` | `Spec => ImplementsStore`, if `~Overlaps` |

`TypeInv` is more than types: `Told` says what the session of a descriptor knows
of the client behind it if the session is that client's own, and
that what it counted as written is what it has received; of a session that was left
behind it only says whose request it began with. `FileInv` adds the
files, for the names that are not in `spoilt`: `FileOK(n)` says that a file being written holds exactly the blocks
flushed of its one writer, and any other is listed and whole. `Disjoint` is what
`~Overlaps` gives, and the server does not hold without it (section 5). Every
handler is then either quiet (`QuietSteps`) or one step of `FileStore`:
`GetAnswers`, `ListAnswers`, `DeleteAnswers`, the end of an upload in
`FinishServes`.

### 3.5 The file client

Assumed: `BufferAssumption` (a read can return something), `CommandAssumption`
and `StoreAssumption` (what a command line and a stored file are; the file on
the client's disk need not have the size that `stat` gave).

| Theorem | Statement |
|---|---|
| `TheClientIsRight` | `ClientSpec => []TellsTheTruth` |
| `StoredFilesAreReported` | `ClientSpec => []StoredIsReported` |
| `ServerNeverSendsTooMuch` | `ClientSpec => []NeverTooMuch` |

`UploadInv` says that what has been sent of a PUT is its size and the first
blocks of its file. Once the server has answered, there is an answer `ans` that
nothing changes any more (`Given`) and a position `p` in it: what is held in the
buffer and what is on its way are the cells of `ans` after `p` (`Streams`), all
of them unless the server was killed. `ReaderAt` ties every reader to its
position and to what it has written: a reader of a list or of data that has
counted `count` cells stands at `4 + count`. `read` only moves the border between
the buffer and the network (`BufferIsFilled`), so no cut can disturb it.
`ServerNeverSendsTooMuch` is why `ReadExtra` and the failing branch of `GetData`
are in the model and in none of its behaviours: the code has these checks, and
this server gives them nothing to find.

### 3.6 The file system

Assumed: `DiskAssumption` (fewer than 256 blocks, at least one inode, one direct
number and one cell in a block, and a table at least as long as the direct
numbers), `OrdersAssumption` (an order in which `rand()` comes upon the blocks
names each of them once), `MaxFdAssumption`, `InputsAssumption`. Not assumed: how
many calls are made, by whom, or that they succeed.

| Theorem | Statement |
|---|---|
| `NeverDangles` | `Spec => []DanglesOnlyWhenShared` |
| `TypesKept` | `Spec => []TypeOK`, if `WithinReach` |
| `NoBlockLost` | `Spec => []BlocksAccountedFor`, if `WithinReach` |
| `DirectoriesExact` | `Spec => []EntriesExact`, if `WithinReach` |
| `FilesReadBack` | `Spec => []ReadsBack`, if `WithinReach` |

`WithinReach` says that nobody asks `min_blockcount` for more than twice
NUM_DIRECT_BLOCKS blocks, the most that a write can use. It is needed: beyond it
`free_inode` leaves blocks behind (section 5), and beyond the table the loop
of `min_blockcount` reads and writes past its block.

Neither block ownership nor the directories are inductive alone. That a new block
has no other owner needs the map to be exact; that `free_inode` gives back all
blocks needs the numbers of a table past the part it walks to be unassigned; that a
removed file takes its blocks from nobody needs it to be in one directory only,
since an entry left behind would lead to whichever file gets the inode next; and
that the entry put into a directory changes no file needs the directory's block
to have one owner. `Sane(F)` is all of that: `OwnsOnce`, `Marked`, `TablesOK`,
`DirsOK`, and a live root. `Keeps(F, G)` is what `MinixFSProofs` shows of every
operation: the disk after it has the types, and is sane if the one before was
and the operation did not declare it ruined or untidy. Operations are chains of
calls, and `KeepsTwice` composes them; `StepOn` is the finer relation
between two turns of a loop that allocates for one inode. The hard cases are those
that rewrite a directory's block (`CreateSane`, `UnlinkSane`) and the loops: the
recursive functions exist and stay in their range by `Recursion` and `AllTurns`,
an induction on the number of turns for a fixed bound.

That files read back needs more than sanity, and is relative to what a file was told
to hold. `HoldsJust(F, i, c)`: inode `i` has the size of `c`, and the place for each
cell of `c` names a block that has it there. A call that writes to the inodes of a set
spares the others (`Bystanders`: where a file named a block, it names the same one,
with the same cells), which is where one owner for each block is used, and so leaves
what they hold (`HeldStill`). What the write loop puts into its own inode is in
`Standing`, its invariant: the cells up to `*off` are those of the buffer, the others
those that were there (`HoldsOver`), and a new block can only be taken for the place
it goes to because no earlier place is empty. `cp` is a loop of calls that looks its
files up again each turn: `Enlarged` says that a call which removes nothing keeps the
entries, so that a path goes on leading to its inode (`PathsKept`), and that the
other files keep their sizes; `Filled` says how far the copy is (`Part`). A file
copied over itself is the case in which source and target are the same.

`FakeFSProofs` then has two halves. `Table_` says of `fd_map` that what is mapped is
held by the kernel, and that a fakefile nobody duplicated is mapped by the
descriptor it was opened as, by no other, and with a count of one: that is why a
close frees it for nobody else. `Kept` adds to it what a call takes for granted of
the fakefiles (`Named_`: a path and a position) and of the image (`Saved`: sane,
unless it was ruined or is untidy, and with inodes that hold what they were told if
they are whole: `Recalls`). `KeptStep` has one step per action.

### 3.7 What is only model-checked

* Liveness (`Terminates`, `Finishes`, `Served`, `ClientEnds`): out of the
  prover's reach.
* What a recursive definition computes for every input: `MakefileUnderstood`, `ReducesEverything` and `RealPathIsNormal`
  would all need an induction over data.
* `KilledForAReason`: it names every place where a lookup may die, and says of the
  inodes it blames that they are whole, which is the history `ReadsBack` is about.

## 4. Plan

Done: the MMU with its abstract memory and proofs; parmake with its parser and
the proofs about its workers; the threads with their scheduler and proofs; the
file server with its abstract store and the proof that it implements it; its
client and the proof that it tells the truth; the file system under fakefs, with
the proofs about its blocks, directories, contents and descriptors; par_reduce; the path
walk.

Left, in this order:

1. An abstract file system that the disk implements while it is not full and no
   directory outgrows its first block.
2. `gtyield` interrupted by a second alarm.
3. The rest of `fakefs_realpath`: which prefix of a path is the disk image.

## 5. Where the code and what is said of it differ

* `mmu_swapleak`: swap files are written and read as `<entry>.bin`
  (`kernel.c:91,105`) but removed as `<entry>` (`kernel.c:59`). A later process
  whose page table lands in the same frame reads the removed process's page.
* `parmake_reload`: a dependency that another worker claims between two tests
  of `rule->state` is taken as made in the unoptimised build.
* `parmake_hang`: a target put aside after the last drain is never queued
  again, and parmake waits for its goal for ever.
* `gthreads_gtgo`: a job can be switched to before `gtgo` set its context.
* `server_overlap`: an upload that comes short unlinks, by name, the file
  another client is uploading; that one is then answered OK and listed, and
  there is no file.

Seen while modelling, kept as the code has it: the STACK segment is set up with
its end above its start, so that it covers no address (`mmu.c:185-189`); TESTING covers
three pages because ends are inclusive; frame exhaustion is answered with 0;
`PSRTF` is charged in whole seconds; a goal named twice hangs parmake;
a recipe that writes its file before its last command fails leaves that file behind
(`parmake.c:34`), so that a failed rule which is queued again is found up to date and
the rules above it run, against `samples/test5:2`: with one worker, `a: b`, the goals
`a` and `b` and such a recipe for `b` TLC finds `FailureStops` false without its
exception, which is why the property has it;
a request whose header comes in two segments is refused (`server.c:265-270`); one that
ends before its verb does, as `G`, is closed without an answer (`server.c:308-326`,
against `NotesOnNonStopNetworking.txt:28-30`, "In all cases if there is an error in the
command the response will be ERROR"), which is why `Served` excepts it; after
an epoll error the session stays (`server.c:837-843`), and the next client on that
descriptor gets no answer, or its request is written into the upload that was left
behind, and the upload's answer is sent to it: if the sum is as long as was announced, a file
that mixes two clients' data is listed. Without the exception for `spoilt` names TLC
finds `FilesAreWhole` and `ListMatchesDisk` false in `server_store`.

In the scheduler: an alarm that comes while `gtgo` is inside `priqueue_offer` may
take entries out of the queue that main goes on to link to
(`libpriqueue.c:22-50`, `gthreads.c:274`), so that jobs are lost and main exits
before they have run, or the process dies; `psrtf_test` and `ppri_pri_test` start
the alarm before their jobs. Without the premise `~cut` TLC finds `OnePlace` and
`ExitMeansFinished` false in `gthreads_jobs`. A job's start time is set again whenever it is polled before it
was charged (`libscheduler.c:169`), and the clock adds nanoseconds divided by
1e10.

In the file system, also kept as the code has it:

* `minixfs_chmod` shifts the permissions over the type (`minixfs.c:45`, against
  `minixfs.h:176-177`), so that a file may become a directory, or neither.
* `minixfs_write` raises the size before it has the blocks (`minixfs.h:129-130`
  relates the blocks to the size), and cuts files at twice NUM_DIRECT_BLOCKS blocks though
  the indirect block has room for more.
* in a directory of more than one block `minixfs_unlink` closes the gap in one block
  only (`minixfs_provided.c:210-230`): the last file of that block appears twice, and
  goes on appearing after it was removed (against `minixfs.h:99-101`), while another
  file is lost. This is why `EntriesExact` and `BlocksAccountedFor` have the premise
  `untidy = {}`: without it TLC finds them false on a disk of 7 blocks and 4 inodes
  with three files in a root that was given two blocks.
* `free_inode` walks only the first NUM_DIRECT_BLOCKS numbers of the indirect block
  (`minixfs_utils.c:66`); a file that `min_blockcount` gave more leaves them in use
  for ever (against `minixfs.h:314-315`). This is why the theorems assume
  `WithinReach`: on the same disk TLC finds `BlocksAccountedFor` false once a file
  that was given 5 blocks, more than 2 * NumDirect, is removed.
* `minixfs_unlink` looks neither at the link count nor at whether a directory is
  empty.
* directories made by `mkdir` or `mkfs` have no block until a file is created in
  them, so that a lookup in one reads in front of the data.
* an entry takes 257 bytes (`minixfs_utils.h:11` draws 248 and 8).
* `get_used_datablock_count` counts over the number of inodes.
* `dup` does not raise the reference count and `dup2` answers 1; `close` does not
  close the `/dev/null` behind a file; reading a virtual file ignores the count.
* creating a file whose directory is missing, or with the inode table full, is
  a signal for the command.

In the tools: the upload of an empty file is reported as a failure and stored; a
GET that gets too little data says so and exits with 0, and does not check the
first piece of data against the size; `par_reduce`'s `main` exits with 1 when it passed, and its
base case counts once per thread and once more, right only for an identity; a
`..` above the root of the disk shortens the path of the disk image while the
rest stays a virtual path.

## 6. Not modelled

* `utilities_unleashed` (`env.c`, `time.c`): one fork, one exec, one wait, no
  state beyond the process.
* The course libraries: headers of prebuilt archives. The queue's own locking,
  the vector's lack of it and the dictionaries are modelled where they are used;
  their headers make up a good part of the lines no definition stands for.
* In fakefs: the preloading, calls that pass through to the system, the
  experimental `chdir`, and the regular expressions that pick the disk image out of a path.
* In all programs: usage texts, formatting, printing, the host look-up of the
  client, failing allocations.
* `gtswtch.s` beyond the switch of contexts it makes, an alarm inside
  `gtyield` itself, which needs a handler that runs longer than its quantum, and
  one inside a `malloc` of `gtgo`, which the handler's own `malloc` and `free` may
  not interrupt.
* How much of an answer the socket's buffer takes: an answer with a body fits or it does not.
