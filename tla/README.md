# A TLA+ model of the System Programming & Parallel Computing collection

The repository is a collection of independent C programs: an MLFQ scheduler
simulator built on pthreads, a FAT32 reader, six MPI programs and three OpenMP
programs. This directory holds TLA+ modules translated from their source, TLC
configurations that check them on small instances, and TLAPS proofs of what
holds for every instance. Paths below are relative to the repository's root.

## 1. Inventory

### MLFQ scheduler simulator (`MLFQ/MLFQ.c`)

Three kinds of threads share four ready queues `A`..`D`, the queue `Done`, a
condition variable and the counters `createTask` and `doneTask`.

| part | state | operations | talks to |
|---|---|---|---|
| main | `createTask`, `doneTask`, `Terminate`, the totals of the report | read the file (`isTask`, `readTask`), start the boost thread at the first DELAY line, signal `canRun` until all tasks are done, drain `Done`, report, destroy the mutexes, free the queues | CPU threads (signals, `Done`), all (queues, `Terminate`) |
| CPU thread, `cpu_num` times | the task it holds, `cpuLock` | wait for `canRun`, take a task (`deMLFQ`), run it with or without I/O, demote it, put it back (`enMLFQ`) or into `Done` (`enterDone`) | main, boost thread, one another |
| boost thread | the level and task it works on | sleep, then move all of B, C and D to A (`resetMLFQ`) | CPU threads |
| ready queue | `head`, `tail`, the `next` field of the tasks | `enqueue`, `dequeue`, `emptyQueue` | everyone, partly without the mutex |
| time | `arriveTime`, `response`, `completionTime`, `msleep` | `diff`, totals and averages | main |

What is hard about it: `deMLFQ` tests a queue before it locks it;
`pthread_cond_wait` is called without owning `cpuLock`, in no loop and with no
predicate, and the lock it returns with is kept until the next wait; the boost
locks one level after the other and takes `Alock` under the lock of another
level; the dispatch loop reads `doneTask` without its mutex; the threads are
never joined. What makes it correct: no task is lost, duplicated or reported
before it is finished; a task in a level belongs there; a task runs on one CPU
at a time; boosts and the simulation end.

### FAT32 reader (`fat32_filesystem_reader/`)

Boot sector and FSInfo, a FAT whose entries chain the clusters of a file, and
directories of 32-byte entries. Operations: `info` (prints the header), `list`
(recursive) and `get` (path walk, then copy to `output.txt`). Hard: directories of
several clusters or sectors, cluster numbers 0 and 1, results of a recursion that
are dropped, components of a path that are not found, names that become equal when
they are converted. Correct when `list` prints the entries of the tree and each
below its directory, `get` fetches the file the path names and no other, and both
end.

### MPI programs (`parallel computing/mpi*`)

Processes with private memory. *Relay race*: point-to-point batons of two teams.
*Vector search* and *second maximum*: scatter, local loop, reduction.
*Matrix-vector multiplication*: a distribution of rows, and the sequential
program it is compared with. *A2Q2*: `Scatterv`, `Gatherv`, `Reduce_scatter`.
Hard: arrival order under `MPI_ANY_SOURCE`, sends that may block, parts that do
not divide evenly, sentinels inside a reduction, index arithmetic on counts and
displacements. Correct when the result is the sequential one.

### OpenMP programs (`parallel computing/openmp/`)

Threads over shared arrays: *Floyd-Warshall* (the whole algorithm in every thread of
a region, on one matrix), *matrix multiplication* (rows, or `collapse(3)`), *sieve*
(strikes and tests concurrently). Hard: which loads and stores may race and what
the races do to the result, barriers between loops, rounds that start with what the
last one left, `int` that overflows. Correct when the result is the one of the
sequential program.

## 2. Modules

| module | models | role |
|---|---|---|
| `MLFQ` | all of `MLFQ.c` but the time arithmetic | the simulator: one action per pthread call, unlocked read or critical section |
| `MLFQProps` | | the properties, and the refinement to `TaskLife` |
| `TaskLife` | | abstract: what a task is promised |
| `MCMLFQ` | | instances for TLC |
| `MLFQProofs` | | proofs: types, permits, where the tasks are, the refinement, locks, the count of done tasks, scans |
| `TaskQueue` | `enqueue`, `dequeue`, `emptyQueue` word by word | the linked list under its mutex |
| `TaskFifo` | | abstract: an atomic FIFO, which is what `MLFQ` uses for `q[i]` |
| `MCTaskQueue` | | instance for TLC |
| `TaskQueueProofs` | | proofs: the list is sound and implements `TaskFifo` |
| `Fat32Reader` | `list` and `get` of `fat32Reader.c` | one action per directory entry that is printed, cluster that is searched, component of the path |
| `Fat32Props` | | the directory tree of a volume, and the properties |
| `MCFat32` | | the volumes and paths for TLC |
| `Fat32Proofs` | | proofs: types, what `list` prints, and which files `get` fetches |
| `RelayRace` | `replay_race.c` | all processes of the race |
| `Spmd` | collective calls of MPI (external) | processes that make the same calls in the same order |
| `SecondMax` | `econd_max_finder.c` | instance of `Spmd` |
| `VectorSearch` | `parallel_search.c` | instance of `Spmd` |
| `MatVec` | `parallel_matrix_mult.c` | instance of `Spmd` |
| `Collectives` | `A2Q2.c` | instance of `Spmd` |
| `SpmdProofs` | | proofs about any program of collective calls |
| `Mpi` | | the MPI programs, one of which is run, and their properties |
| `MpiProofs` | | proofs about each of them |
| `FloydWarshall` | `floyd_warshall_omp_dynamic.c`, `floyd_warshall_omp_static.c`, `reference.c` | loads and stores of all threads |
| `FloydProofs` | | proofs about it, for any graph and threads |
| `MatMul` | `matrix_multiply_omp.c`, `matrix_multiply_omp_collapse.c` | loops, static schedule, barriers |
| `Sieve` | `sieve_eratosthenes_omp.c`, `sieve_eratosthenes_omp_dynamic.c` | chunks, tests and strikes of all threads |
| `SieveProofs` | | proofs about it, for any size and threads |
| `Omp` | | the OpenMP programs, one of which is run, and their properties |
| `MCOmp` | | the graphs, sizes and teams for TLC |
| `OmpProofs` | | proofs: the product; the others by `FloydProofs` and `SieveProofs` |

The programs of `Mpi` and of `Omp` are independent of one another; a variable
`program` says which one a behaviour is of, and the variables of the others stay 0.
Numbers of processes and threads, lengths, values and graphs are constants of these
two modules, under `MpiAssumption` and `OmpAssumption`; TLC and the proofs use the
same definitions of the properties.

### MLFQ: how state and actions correspond to the code

`mainPc`, `pc[c]` and `rpc` are the program points of main, the CPU threads and
the boost thread. `q[0..4]` are the contents of `A`, `B`, `C`, `D`, `Done` and
`lock[0..4]` the owners of their mutexes; `priority`, `length`, `timeSpend` and
`response` are the fields of a task; task `t` exists once `t <= createTask`.
`hand[c]` is the local `t` of `cpuThread` and `rhand` that of `resetMLFQ`; `lv`
and `rlv` stand for the position in the unrolled cascades of `deMLFQ` and
`resetMLFQ`. `reported` are the tasks main has taken from `Done`, counted and
freed. `inside` and `leaks` are history: the threads past a wait, and the first
waits that released somebody else's `cpuLock`.

- `Load*`: the loop over the lines of the file (577-617); every sequence of
  task and DELAY lines up to `MaxTasks` tasks is a behaviour. A line with too few
  fields ends the program (`LoadBadLine`). A file that cannot be opened is an
  empty one. The length of a task is what `atoi` returns (line 204): any integer, 0 and
  negative ones included, which nothing in the code rejects.
- `DispatchSignal`, `DispatchEnd`: the loop of 620-624. `Signal` wakes some
  waiter or is lost.
- `Drain*`, `Report`, `DestroyMutexes`, `FreeQueues`, `Return`: 638-700. Between
  `DestroyMutexes` and `FreeQueues` lies `sleep(1)`, which orders nothing.
- `CpuWait`, `CpuWoken`: `pthread_cond_wait`, the release and the reacquisition.
- `CpuPeek`, `CpuLock`, `CpuTake`: `deMLFQ`. The read of `head` without the mutex
  is a step of its own.
- `CpuRun`, `CpuRunIO`, `CpuTrap`: the turn; random numbers are choices. `Turns` are the
  times I/O may leave the CPU after, `rand() % t->length + 1` (line 475). For length 0 this
  divides by zero: the signal ends the process (`CpuTrap`), or the division yields a number.
- `CpuEnq*`, `CpuDone*`: `enMLFQ`, `enterDone`.
- `Reset*`: one action per lock, dequeue, nested lock, enqueue and unlock.

`termLock` is taken by main alone and left out. The printed texts, names and
clock values are left out; `response` is kept as "zero", "junk" or "first",
because the code decides by whether its nanoseconds are zero whether to stamp
it (a first stamp is taken to have some nanoseconds). An argument count other
than 4 is not modelled.

Undefined behaviour is a choice. Releasing a `cpuLock` that the thread does not
own (every first wait) frees it or leaves it alone; a wait on a destroyed mutex
returns with or without the mutex; a division by zero, in the report or in `rand() % 0`,
traps or yields some number; a thread that looks at a freed queue finds it empty as it
was, or brings the process down (`UseAfterFree`). `response` starts as whatever
`malloc` returned (`HeapNsec`).

### TaskQueue

A step is one write of the list. `Peek` is `emptyQueue` outside the mutex. A
thread that holds a task enqueues it, one that holds none dequeues. That the
list implements `TaskFifo` justifies that `MLFQ` treats `enqueue`, `dequeue` and
`emptyQueue` as single steps on a sequence. What `TaskQueue` assumes in turn, that
everybody who changes a list owns its mutex, is `OwnsLocks` of `MLFQProps`.

### RelayRace

A process is a rank, a baton a message with sender, receiver and tag. `MPI_Send`
returns at once or waits until its message is received; the library may do
either for each message. Receives take any message for the process. The vector
that is passed is always the same and is not distinguished. The clock goes on or stands
still between two readings (`Finish`), so the two teams may come in at the same time.

### Spmd and the programs built on it

A collective is two steps of a process, entering and returning. `MPI_Allreduce`,
`MPI_Allgather` and `MPI_Reduce_scatter` return after everybody has entered, a
scatter after the root has, the root of a gather or a reduction after everybody has
and the others at once, so processes run ahead of one another as far as MPI lets
them. `stage[p]` is the call a process is at, `given[k]` what was given for call `k`.
A program says with `Give` what a process gives and with `Take` what its memory is
after the call; the computation between two calls, over private memory, is part of
the next entry. A buffer, or the part of one, that no
message fills keeps what `malloc` left in it.

- `SecondMax`: the memory is `local_data` and then `global_second_max`.
- `VectorSearch` keeps what `MPI_DOUBLE` does to an `int` vector: process `p` gets
  the elements from `2 * chunk_size * p` on and anything beyond the end, and the
  overrun of its buffer may end the program (`aborted`). An element is 0 or 1
  because the code only tests for zero.
- `MatVec`: an element is its index and a sum of products the set of the pairs that
  are multiplied. A place that no message fills has a symbol of its own; the properties
  claim nothing of a sum it is part of.
- `Collectives`: counts and displacements as the code computes them. The heap is
  left out, and with it that process 0 frees `displs` twice (lines 134, 182).

### Fat32Reader

A volume is its sectors per cluster, its table and the entries at the places of its
data region. `stack` holds the calls of `listDir`. The recursive call for the next
cluster is the last thing its caller does, so the entry of the caller is replaced; but the
caller is still open, and `calls` counts the calls open at each entry of `stack`, in
`findFile` those of the present search. One more than `MaxCalls`, the calls the call stack
has room for, ends the program (`crash`). A free entry of the table, 0, is a link to the
code (0 < 0xffffff7) and is followed to cluster 0. Clusters are below 65536
(`LastCluster`), so the low half the code takes of a first cluster is all of it. `shown` is
what is printed. `input` is the rest of the path, `currentCluster` the local of main and
`probe` the cluster the current recursion of `findFile` searches. `findFile` reports
only a match in the cluster it was called for (`Found`); a match of the recursive
call is dropped (`NotFound`), and main goes on with the next component in the same
directory. Both loops run `eps` entries from each of the `spc` sectors, with `eps`
the entries of a cluster, so with two sectors the cluster behind is read too; the
first three places of each are passed over. `fetchFile` copies to the end of the
image, or as far as no call fails.

Names are short sequences; `removeSpaces` joins stem and extension and `appendDot` puts
a dot before the last three characters. Names are compared without regard to case
and no two names of the model differ by case only.

### FloydWarshall, MatMul, Sieve

A step of a thread is a load or a store of one shared element; loops over private
variables cost no step. `pos[t]` numbers the iterations of all loops together and
`regs[t]` is what the thread has loaded in the present one. Loads and stores of an
`int` are atomic and take effect in some order, which is what the build produces on
the machines these programs are for; the C standard calls the races undefined.

- `FloydWarshall`: the region of line 64 makes every thread run `floyd`. The loop inside
  it is parallel too, but nested parallelism is off by default, so it is run by the
  thread that meets it, alone. The matrix is not initialised again between rounds.
  With one thread the module is the two sequential programs. The addition is `Wrap`:
  in `Omp` an `int` that wraps around at `Half`, its `INT_MAX + 1`, or one that is wide
  enough for the sums.
- `MatMul`: the shares of the threads are those of a static schedule, over rows or over
  all iterations (`collapse`, which of the two programs it is, is chosen at the start);
  `C[i][j] +=` is a load and a store.
- `Sieve`: `schedule(dynamic, Chunk)`. The write at a negative index ends the program or goes
  unnoticed, and the loop goes on from there (`wild` is "fatal" or "yes").
  `sieve_eratosthenes_omp.c` has a loop condition OpenMP does not accept and is modelled as it
  compiles without, with one thread.

## 3. Runs

Every property is paired in `PROJECT.json` with a mutant, an operator marked
"Mutant" beside the definition it changes the way a slip in the code would (a
dropped reset, an unlock left out, an off-by-one in a rank). With the mutant in
place TLC finds the property violated under the same configuration.

| run | checks | shows |
|---|---|---|
| `mlfq_tasks` | `TypeOK` `OnePlace` `OwnsLocks` `AllReported` `PermitBound` `ScanStable` `LifeSpec` | two CPU threads, boost thread and main over up to two tasks, some of length 0, with spurious wakeups and undefined unlocks (2.4 million states) |
| `mlfq_end` | `ReadyHasWork` `BoostEnds` `DispatchEnds` | a task of any kind of length that sinks and is boosted: a waiting task fits its level; a boost pass and the simulation end |
| `task_queue` | `TypeOK` `ListSound` `FifoSpec` | the list implements the FIFO |
| `fat32` | `TypeOK` `ListExact` `GetInTree` `GetFinds` `Ends` | what `list` prints; that `get` fetches a file the path leads to, and which files it does fetch; that both end |
| `mpi` | `TypeOK` `BatonKept` `BothTimed` `SecondRight` `IndexRight` `ProductRight` `Delivered` `Ends` | the five MPI programs: race, second maximum, search, product, tour of collectives |
| `omp` | `TypeOK` `NeverBelow` `Settled` `ExactAlone` `ProductRight` `NoPrimeStruck` `PrimesRight` `Ends` | shortest paths, product and sieve under every interleaving of loads and stores |

Six runs show where the code does not do what it or its documentation says, each with a
counterexample. Where a property has several parts, TLC shows the one it meets first; each
part is violated alone as well, which is seen by checking it in place of the whole.

| run | claim | what happens |
|---|---|---|
| `mlfq_response` | "get response time for every first-encounter task" (MLFQ.c:434) | `readTask` never sets `response`, so a non-zero field is never stamped |
| `mlfq_free` | "Thread-safe implementation with mutex protection" (README.md:59) | main frees the queues with the boost thread still to wake up |
| `fat32_results` | "Output all files and directories on the drive." (fat32Reader.c:137) | the entries at the first three places of a cluster are not printed |
| | "Extract files from disk images" (README.md:72) | `get` copies up to the end of the image whatever the length of the file, and an empty file, whose first cluster is 0, from a place before the data |
| `mpi_results` | "Handles "not found" case with sentinel value (-1)" (README.md:147) | the -1 of one process hides the zeros of the others |
| | "Two-pass parallel algorithm to find second-largest element" (README.md:153) | the last `N % num_procs` elements are not scattered; the second largest may be one of them |
| | "Scalability testing with 2-64 processes" (README.md:134) | if the processes do not divide the order the last rows are not multiplied and part of `fb` is not initialised |
| `omp_race` | "All-pairs shortest path algorithm with OpenMP parallelization" (README.md:187) | a thread stores a sum of loads that are no longer true over a better one, after the other has finished with that element |
| | "Shortest distance matrix", "INF" for `INT_MAX` (reference.c:30-34) | `INT_MAX` takes part in sums, which overflow, and a negative sum is stored as a shorter way |
| `omp_primes` | "Find all primes up to n" (README.md:206) | `n` is printed as a prime if it is the square of one |
| | "Scales to large n values (80M+ tested)" (README.md:210) | squares from 46341 on do not fit an `int`; a negative one is an index before the array, and what is struck from there may be primes |

The passing properties state what is true beside these: `SecondRight` speaks of arrays that
the processes divide; `ProductRight` of `MatVec` asks for the whole product if they divide
the order, and otherwise that what an element is summed from is right as far as it was
distributed; `GetFinds` asks for entries in the first cluster of a directory, past its
first three places, with an extension of three letters, and that a copy is begun, not what
it holds; `ExactAlone` speaks of weights whose sums fit; `PrimesRight` leaves out squares of
primes and numbers that do not fit.

Four more disagreements are plain from the text and need no run. The documentation
speaks of three levels (README.md:56), the code has four (564-567). "Lock whole mlfq except
the first" (MLFQ.c:349) is not what `resetMLFQ` does, which locks one level after the other;
`OnePlace` and `ReadyHasWork` hold all the same. "Before the start of the simulation ( all
the tasks that appear before the first DELAY line)" (MLFQ.c:602-603) has the simulation start
at the first DELAY line, but main gives one signal there (608) and the next after the last
line of the file, so that, spurious wakeups aside, at most one turn is taken meanwhile: the
wait of line 425 has no predicate, and a signal nobody waits for is lost. And "Support for
large filesystems (>2GB)" (README.md:74) meets a reader that takes the low half of the number
of a first cluster (fat32Reader.c:172, 413), hence the wrong cluster from 65536 on.

### Bounds and why they are enough

- `Quantum = 2`, `Allot = 1` for 50 and 200: a turn may use one unit or two, so
  it may or may not exceed the allotment, and a task may or may not end within
  the quantum. In the code four full quanta reach 200 and the fifth demotes; in
  the model one turn or two do.
- `Lengths`: a task of length 3 needs two or three turns, which includes being demoted
  once, boosted while it waits, and finished by a full turn as well as by I/O; one of
  length 0 is finished by its first turn or traps. In `mlfq_end` -1, 0, and 5, which takes
  a task down two levels with work left.
- One task in `mlfq_end`: with two CPU threads it is enough for them to compete for a
  signal, and the boost thread and main are the other writers of its fields. One CPU thread
  and no spurious wakeups in `mlfq_response` and `mlfq_free`, whose counterexamples need no
  more.
- Two CPU threads are enough for each race of 306-330: one thread to see the
  queue, one to empty it. Two tasks make a queue with a rest.
- `MaxTasks` bounds the file. `doneTask` and `leaks` are bounded by the tasks
  and the CPU threads (only a first wait can leak), so no bound is needed.
- CPU threads are interchangeable: symmetry is used in the runs without fairness.
- `task_queue`: four tasks make a list with two inner nodes, four threads let
  one find the list emptied twice after its `Peek`.
- `fat32`: five entries per sector are the three that are passed over, one that is not and a
  last one. One or two sectors per cluster. The root, two directories, a file and one cluster
  that continues the root, a directory or nothing; entries at every kind of place (passed
  over, first that is not, last, in a second sector, in a second cluster); a file that is
  there, empty, deleted, or without an extension and printed like another. The paths name a
  file in the root, in a directory, below two, and a directory. Some volumes are no tree: two
  entries lead to one directory, which is then printed twice, or without end if it lies in
  that directory; others have a deleted directory whose cluster is free, a link to cluster 0.
  `MaxCalls = 5`: two levels of directories and a further cluster need four calls, and a
  directory below itself fills any number. `LastCluster` is the last cluster these volumes
  use, with two clusters to one.
- `mpi`, race: with seven processes the teams have three runners each, first,
  inner and last. The last of the even team is the last rank and that of the
  odd team the one before: both sides of the comparison in line 135.
- `mpi`, others: three processes make a root, an inner and a last one. The array has six
  elements, which three processes divide, and in `mpi_results` seven, which leave one over;
  the vector that is searched has seven, the matrices have the orders six and seven. All
  arrays over three values, which give every order of maximum, second and rest, and all
  vectors of zeros and ones. Four processes for the tour, whose displacements are a running
  sum.
- `omp`, shortest paths: a graph of five vertices with four ways from one vertex to
  another, the best found in the middle, is the smallest we found where a race shows
  (two threads on three vertices always end with the distances); the liveness and
  the bound are checked on it too. Two rounds on a graph of distances. The graph of
  `floyd_warshall_omp_static.c` with an `int` of eight bits (`Half = 128`), and one that
  needs no sum of missing edges, for one thread. `MissingOK` says of the first that its
  weights fit and that some sum over vertex 0 does not.
- `omp`, product: 3 by 3 with two and four threads in successive rounds, by rows and by
  iterations: shares that end in the middle of a sum and shares that do not, threads
  without a share, a team that grows.
- `omp`, sieve: two threads with chunks of two and `n` a square of a prime (4, 9, 25), a
  square of another number, neither; three with chunks of one; the plain program for the
  same kinds of `n`. In an `int` of eight bits (`Half = 128`) the squares from 12 on, 144,
  do not fit: `n` of 14 and 20 have the loop come to one and to several of them.

### Fairness

`FairSpec` of `MLFQ` assumes strong fairness of main, of the boost thread and of
each CPU thread (not while it sleeps on `canRun`). The operating system runs
every thread (weak fairness); strong fairness is needed because a thread that
waits for a mutex is enabled only now and then, and a mutex that is released
again and again is obtained in the end. No thread holds a queue mutex while it
sleeps. Spurious wakeups are switched off in `mlfq_end`, so that progress
never rests on them. In `mpi`, `omp` and `fat32` every step brings its program nearer to its
end, so it is enough that as long as some process or thread can go on, one does
(weak fairness of `Step`).

## 4. Proofs

Eight modules. TLC checks each property on a small instance, under the definition that
the theorem names.

Three arguments come back in several modules. *Closed forms*: the chains, walks, trees and
running sums of the model are recursive functions `f[k \in S] == ...`. That such a function
exists and satisfies its equation, and what follows from it for each argument, is shown
by looking at the least number for which it fails (`LeastNumber`), the library's
induction rules being out of the provers' reach. *Counting*: sums and cardinalities are
awkward to carry through steps; the invariants use quantified facts about who is where, and
only the last step counts. *Linking*: what is proved of a module for any constants
is taken over by a program of `Omp` or `Mpi` through an instance of the proof module,
after the definitions are shown to be the same.

**`MLFQProofs`**: for every finite set of CPU threads and any number of tasks, any
lengths, quantum and allotment, under `MLFQAssumption`.

- `TypeCorrect`: `Spec => []TypeOK`. `TypeOK` says more than types: `priority` is a
  level, hence `enMLFQ` never drops a task by matching none of its branches. It
  is not inductive: a thread at `enq` must hold a task for `priority[hand[c]]` to
  mean anything, and main at `take` must find `Done` non-empty. `TypeInv` adds
  `MainHolds`, `CpuHolds`, `ResetHolds`. `MainHolds` is kept by all other threads
  because they only append to `Done`.
- `Serialised`: `Spec => []PermitBound`. The free `cpuLock` and the threads inside
  are permits; a turn costs one, a wait returns one, and only a first wait while
  another thread owns the lock creates one, which `leaks` counts.
- `TasksKept`: `Spec => []OnePlace`. `PlaceInv` is `Apart`, no task is at two
  positions, in two hands, or in two kinds of places, and `Somewhere`, every task read
  is in one. `EmptyHands` says at which program points a thread holds nothing, without
  which a thread could overwrite the task it holds.
- `WaitingFits`: `Spec => []ReadyHasWork`, for any integers as lengths: a task that had a turn
  and waits again has work left, so the division by zero of line 475 can only be met by a
  task whose line gave it none, in its first turn. `Fits` says what the priority, the remaining
  length and the used allotment of a task are at every place it can be in, hands
  included. It needs `PlaceInv`: a boost or a CPU thread writes the fields of the task it
  holds, and these must not be fields of a task that waits.
- `SchedulerKeepsPromise`: `Spec => LifeSpec`, the refinement of `TaskLife`. Every action
  maps to a step of `TaskLife` or to a stutter; that the task a thread starts is neither
  finished nor run by another is `Fits` and `Apart`. `accounted` of `TaskLife` are the tasks
  main has counted: only a finished one enters, and none twice.
- `QueuesGuarded`: `Spec => []OwnsLocks`. It is inductive only together with `WorkInv`
  (`LockInv`): `enMLFQ` finds the mutex to release by the priority of the task it holds,
  and `Apart` says that no other thread holds that task and could write it.
- `ReportComplete`: `Spec => []AllReported`. `Counted`: the tasks in `Done` or reported are
  at least `doneTask`, with one to spare while a thread is between the two lines of
  `enterDone`; by `OwnsLocks` there is at most one such thread. When `doneTask` reaches
  `createTask` every task is therefore in `Done` or reported, hence by `Apart` in nobody's
  hands and no other queue, and stays so (`Dispatched`, `AllTaken`).
- `ScansStay`: `Spec => []ScanStable`. By `PermitBound` a scanning thread is alone inside
  (`Alone`) unless a first wait leaked; the boost thread only empties the levels that
  were passed over, and nobody else but the scanner takes from A.

**`TaskQueueProofs`**: for every finite set of tasks and any threads, under the
assumptions of `TaskQueue`.

- `PointersCorrect`, `ListStaysSound`: `Spec => []TypeOK` and `Spec => []ListSound`. The
  properties evaluate the list by following `next` from `head`, which no step of the
  program does. `IsList(L, head, next)` says instead which sequence without repetitions
  the pointers make up, and the invariant `QueueInv` has such an `L` at every point of
  `enqueue` and `dequeue`: `TailRight` says where `tail` is in the middle of an operation,
  `Loose` that the tasks in the hands of threads are in no list and linked to nothing.
  `ListIsChain` shows that following `next` yields `L`.
- `ListIsFifo`: `Spec => FifoSpec`. One write of each operation is the step of `TaskFifo`
  and the others are stutters, because the list the abstract queue is read from changes
  only there.

**`Fat32Proofs`**: for any volumes and paths, any number of entries per sector and of
clusters, under the assumptions of `Fat32Reader`.

- `TypeCorrect`: `Spec => []TypeOK`. `SlotFacts` bounds the places a call reads, the ones
  beyond the cluster included.
- `ListedExactly`: `Spec => []ListExact`, where the clusters read by mistake behind a
  directory hold no entries (`NoNeighbours`), as the property says. The tree is defined by
  recursion over its depth, which `list` knows nothing of; a chain of strictly growing
  sets of clusters has at most `LastCluster` members, so the recursion has come to rest when
  it ends, and the clusters of the directories are the least set that links and entries
  do not lead out of. The invariant keeps, as history, the set of clusters `list` is
  through with. `Covers`: what these lead to is in the set too or still to be visited by a
  call on the stack, and their entries are printed; with an empty stack the set is therefore
  closed. `InTree`: nothing else is in it, nor on the stack. `Nested`: the last entry
  printed one level higher is the directory of the call that prints, which is how
  the property finds the directory from the indentation. `Once`: on a tree no cluster is
  in the set, on the stack, or ahead of a call, twice; without it a directory with two
  entries is printed twice.
- `FetchedInTree`: `Spec => []GetInTree`, again under `NoNeighbours`. `LedInv`: after main has
  taken some names off the path, it is in a directory that these names lead to, some of them
  passed over perhaps; `LedToGrows` is that passing over a name leads nowhere else, and
  `FoundNamed` that a match of `findFile` is an entry of that name, in spite of the
  conversions of `removeSpaces` and `appendDot` (`MatchNamed`).
- `PlainFetched`: `Spec => []GetFinds`. `FindInv`: as long as the names are plain main is
  where they lead, and a search that goes on to a further cluster has left nothing behind.
  `PlainNamed` and `NamedMatches` say that a plain name is matched, and by one entry only.
  It says which file main arrives at and that it begins to copy; what the copy holds is the
  finding of `fat32_results`.

**`SpmdProofs`**: for any number of processes and calls, and any `Give` and `Take`.

- `DataKept`: `Spec => []DataOK`. A program is annotated: `Ready(k, p, d, m)` says what is
  true of the memory `m` of process `p` before call `k`, `Gave(k, p, d, g)` what it
  gives, if the input is `d`. `Annotated` asks of each call alone, as of a
  sequential program, that it gives what it should and leaves what is true of the next;
  then the annotation holds in every interleaving. Processes that run ahead are no
  concern of a program any more.

**`MpiProofs`**: the run's properties for any number of processes (three at least in the
race), any lengths and any values, under `MpiAssumption`; `MpiInvariant` is one invariant per
program.

- `BatonStays`, `TimesComplete`: `BatonKept`, `BothTimed`. The sum of
  `BatonKept` is replaced by four places a baton can be in: not yet sent, on its way,
  with a runner, back (`AtStart`, `OnItsWay`, `WithRunner`, `Back`), each of which says
  exactly which runners have had it. A baton back therefore has been with all of its team,
  and the two tags of `MPI_ANY_TAG` are those of two different batons.
- `TypeCorrect`: the types of all programs.
- `SecondFound`: `SecondRight`. The annotation says that the maximum of the local
  maxima is the one of the scattered elements, which are all if the processes divide the
  length, then that every process has struck out
  all elements equal to it; the second reduction is of the rest.
- `IndexFound`: `IndexRight`. Process 0 alone looks at the part it should and gives -1 or the
  first zero of the vector. The others look at shifted parts, or behind the vector, but
  give indices behind the part of process 0; a minimum other than -1 is therefore its.
- `ProductFound`: `ProductRight`, by one annotation for each of the two orders: every gathered
  element is in its place, and every sum runs over the whole row and that memory. If the
  processes divide the order, gathering fills it all; if they do not, nothing is said of
  what the sums make of the rest.
- `TourDelivers`: `Delivered`. The displacements, running sums of the counts, are triangular
  numbers (`TriangleStep`), so the parts lie behind one another without overlap
  (`WhoseElement`).

**`FloydProofs`**: for every `n`, any number of rounds and of threads per round, and every
interleaving. The assumptions (`Graph`) are that `n` is natural, the weights are integers,
`Dist` is a matrix below the weights that satisfies the triangle inequality, and `Wrap`
is exact on integers.

- `DistancesBound`: `Spec => []NeverBelow`. The matrix alone is not inductive: a store
  writes a sum of loads that may be long out of date. `Bounded` says that every
  register, too, is at least the distance of the element it was loaded from, which
  no later store can undo because distances do not change. `DetourLoads` is the triangle
  inequality for the elements an iteration reads.
- `DistancesStay`: `Spec => []Settled`, if the weights are the distances. `Final` says that
  every register is exactly the element it was loaded from; then no test succeeds
  and no thread reaches a store.
- `DistancesAlone`: `Spec => [](ShortestPaths /\ ExactAlone)` if there is one thread and
  `Dist` is the greatest matrix of its kind (`Greatest`), which is what distances are. The
  textbook argument takes a copy of the matrix per `k`; the code works in place, and in
  the middle of the iterations of `k` an entry may have been made smaller so that a
  detour by some `m < k` through it is shorter than an entry not yet visited. What holds
  throughout is `Nearly`: the smaller of an entry and its detour by `k` is at most every
  detour by an `m < k`. `StoreReached` shows that a store keeps it (row and column `k` do
  not change, since the diagonal is never negative), `NextReached` that after the last
  element of `k` it holds for `k + 1`; the rest is the order of the iterations
  (`EveryPair`, `PlacesInOrder`). `Greatest` and `DistancesBound` then leave one matrix.
  For several threads the same statement is false: `omp_race`.
- `MissingWrong`: if there is one thread and the sum of the weights from some `x` to vertex
  0 and back turns negative (`Spoils`), where no distance is, no matrix that is printed
  holds the distances (`Spec => [](RoundDone => A # Dist)`). It is no property of a run: it
  says how far the second violation of `omp_race` goes. `Current` and `Spoilt`:
  until the thread comes to the detour of `x` over 0, the elements of that detour are the
  weights, because every detour over 0 before it leaves row and column 0 alone; from
  then on `A[x, x]` is negative, since one thread stores only what is smaller.

**`SieveProofs`**: for every `n`, number of threads and chunk size, provided the numbers of the
loops fit into an int (`Fits`).

- `PrimesSurvive`: `Spec => []NoPrimeStruck`. `StrikesMultiples` says that a
  striking thread is at `a * j` with `a >= 2`, whether or not `j` is a prime; then it does not
  matter that another thread has not struck `j` yet.
- `PrimesPrinted`: `Spec => []PrimesRight`. `AllFinished`: every number that was
  taken is in some thread's chunk, or struck, or has all its multiples from its square on
  struck. A composite has a least divisor (`LeastDivisor`), which is a prime, is therefore
  not struck, and has its square below the composite; Euclid's lemma (`PrimeDivides`)
  is needed for the square of a prime, which `j * j < n` leaves over.
- `SquareStays`: the square of a prime that is `n` is never struck, in any interleaving: the
  threads only strike for numbers below its root, none of which divides it (`SquareLeft`,
  `SquareOfPrime`). It says how far the first violation of `omp_primes` goes.

**`OmpProofs`**: the run's properties for any graphs without a negative cycle, any order of the
matrices, any sizes, chunks and numbers of threads, under `OmpAssumption`.

- `DistancesBound`, `DistancesStay`, `DistancesAlone`: `NeverBelow`, `Settled`, `ExactAlone`
  are those of `FloydProofs`. There the distances were any matrix with the right
  inequalities; here they are the shortest of the walks with at most as many edges as
  vertices. `WalksNotShorter` shows that no matrix of the kind is above them, which makes
  them the `Greatest`.
- `MissingEdgesSpoil`: `MissingWrong` for a graph with `INT_MAX` for missing edges at vertex
  0, again as the extent of a violation. The sum of two numbers below `Half`
  that is not below it wraps around to a negative one (`NarrowOf`).
- `PrimesSurvive`, `PrimesPrinted`: `NoPrimeStruck`, `PrimesRight`, by `SieveProofs`.
- `ProductFound`: `ProductRight`. The shares of a team cut the iterations into intervals, of
  which each iteration is in exactly one (`Starts`, `OneOwner`, `SomeOwner`). `Barrier`:
  nobody is past a barrier that another has not reached, without which a thread could
  read an element another has yet to initialise (`Filled`), or one could be set to 0 after
  the first addition. `Sums` and `Loads`: an element, and what a thread has loaded of it,
  is the sum of at most as many additions as are done, of exactly as many if nobody
  shares it, and not 0 once one is done. The last part is why additions may be lost but
  never all: the load of 0 may be stored over, but whoever stores adds.
- `TypeCorrect`: the types of all programs; the bound on an element of the product is `Sums`.

**Model-checked only.**

- Liveness (`BoostEnds`, `DispatchEnds`, the three `Ends`): it rests on fairness and
  `ENABLED`, which the prover does not handle.
- The properties of the six runs that end in a counterexample.

## 5. Not modelled

- `info`, wrong arguments and unreadable headers of the FAT32 reader; lengths of
  files (`fetchFile` looks at none); clusters from 65536 on, where the low half of a number
  is another number.
- The heap: the double free of `A2Q2.c`, the byte `appendDot` may write behind a name,
  the second and third element of the one-element `n_iter` of
  `floyd_warshall_omp_dynamic.c`.
- Other outcomes of undefined behaviour than those named above: a signed overflow wraps
  around, a write before an array ends the program or changes nothing the model has, a
  division by zero traps or yields a number.
- MLFQ: `msleep`, `diff`, the totals and averages. They are sums of clock readings that
  no condition depends on; the model is untimed. An argument count other than 4.
- The sequential matrix-vector program, a double loop in one process.
- Build files, sample outputs, debug symbols.

Every invariant of the passing runs and every property that is not liveness has a theorem.
