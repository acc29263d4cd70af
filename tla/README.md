# A verification of cpu-benchmark in TLA+

cpu-benchmark measures a CPU with three families of tests: memory-bound stencil kernels on a 3-D
grid, a compute-bound test (FMA chains on a single thread and on all of them) and a precision test
(the same chains in many data types). What makes such a program right is first of all its threads: that
every part of a loop is executed exactly once, that the parts start together, that nothing else runs while
something is measured, that the clock is read after the last worker has stopped, that the program ends,
and that the machine is left as it was found. Around the threads stands the program: which settings a
run is measured with, which kernels it takes, and what becomes of its result on the way to the server.
Inside them run the kernels: which cells a thread touches, whether the operations that are reported were
executed, and whether the numbers in small formats are the right ones. The modules here model these parts of
the code; TLC checks them on small instances, and TLAPS proves the central properties for every number of
threads, every size of the grids and arrays, and every machine.

All paths below are relative to the repository; the code is in `src/src`.

## 1. Inventory

| Component | State | Operations | Hard behaviour | What makes it correct |
|---|---|---|---|---|
| **Persistent thread pool** `persistent_thread_pool.*` | a work queue with a mutex per worker; `pending_tasks_`, `running_`, `spin_wait_`, `has_work_`, `next_queue_`, `num_threads_`; two condition variables | constructor, `submit`, `submit_batch`, `parallel_for_z`, `wait_all`, `set_spin_wait`, destructor; `worker_loop` with pop, steal, spin and sleep | stealing against popping and pushing; lost wake-ups; mode switch while workers sleep; workers that cannot be created; bodies that throw; closures that refer to the caller's frame | tasks are run once; the count is exact; a join is complete; no closure outlives its call; calls return; no task is forgotten |
| **Simple thread pool** `threading.*` | `threads_`, `core_ids_`, `num_threads_` | constructors, `parallel_for_z`, destructor | a thread that cannot be created; a second loop after a failed one; bodies that wait for each other | same promise as the pool above; no thread outlives the pool |
| **Range partition** `compute_ranges`, `partition_z` | the locals of a loop | one | fewer planes than threads, remainders | the ranges tile the total, and evenly |
| **Timed kernels** `precision_dispatcher.hpp` | a barrier (`ready`, `start`), a deadline, a result per plane | `run_parallel_for_duration`, `measure_timed_kernel` | a barrier inside tasks of a work-stealing pool | ranges start together; all results are there when they are summed up; a round ends |
| **Precision dispatcher** `precision_dispatcher.hpp` | chunk size, arrays, counts | `run_fp64`, `run_fp32`, `run_fp16`, `run_int8`, `run_fp4`; probe, calibration, chunks, count | a coarse clock, a thread held up during the calibration, sums in 32 bits, arrays that a loop's steps do not divide | a chunk is short; the operations reported are those executed; no sum overflows |
| **Compute benchmark** `compute_benchmark.hpp` | configuration, per-stage team of threads with `ready`, `start_flag`, `stop_flag`, the affinity of the main thread, `best_st_core_` | `run()`: warm-ups, calibration, single- and multi-threaded tests, SIMD tests | start and stop of a team; threads inherit masks; a failure at any thread creation | a test measures its own team only, on cores of its own, all its work is counted, `run()` ends and leaves nothing behind |
| **Frequency sampler** `platform.hpp` | `running_`, a thread | `start_background`, `stop_background`, destructor | the join against the sampling loop; exceptions | its thread ends before `run()` does |
| **Server performance guard** `server_performance.*` | five settings with their old values and flags | constructor, destructor | each setting can fail on its own; another part of the code changes two of them | what was changed is restored |
| **Thread affinity** `thread_affinity.*` | masks of threads and process, a switch | `pin_current_thread_to_core`, `set_process_affinity_...`, `get_cores_for_socket` | containers, hybrid machines, several sockets | see compute benchmark |
| **Command line** `cli.hpp`, `types.hpp` | `ExtendedConfig`, `only_neutral_flags` | parse, validate, `is_submission_eligible` | sequences and combinations of options | only standard runs reach the server |
| **Main flow** `main.cpp` | configuration, results, exit code | checks, warm-up, tests, submissions | partial success of a sequence; options that one path heeds and the other ignores | what is submitted was measured with the standard settings; the program ends |
| **Memory validator, auto size** `memory_validator.*`, `auto_size.*` | none | required size, limit, choice of a size | overflow of products | a size that is accepted fits |
| **Warm-up manager** `warmup.*` | durations and throughputs | `run` | termination on a noisy machine | it ends |
| **Result submission** `result_submission.*` | one socket, one request | connect, send, receive, parse | lost, cut and late answers; two submissions of one session | a result that is reported as stored is stored |
| **Progress reporter** `progress_reporter.*` | percentage, callback, mutex | `set_progress`, `report_*` | nothing in the program creates one | - |
| **Kernel dispatch** `runtime_dispatcher.*`, `kernel_dispatcher.hpp` | chosen SIMD level, kernel pointers, a forced flag in the other dispatcher | `initialize`, `select_kernels`, getters, `set_force_scalar` | two dispatchers, one forced level; files compiled for more than is detected | a kernel that the CPU and the operating system support is chosen, and the forced one |
| **CPU capabilities** `cpu_capabilities*` | none | `detect`, `get_simd_level` | registers that the CPU has and the system does not save | see kernel dispatch |
| **Memory-bound and cache benchmarks** `benchmark_core.*`, `cache_benchmark.hpp`, `cache_level_sizes.hpp` | grids or arrays, repeats | a kernel over the ranges of a pool | all threads write one array | every cell computed once, by one thread |
| **Compute kernels** `kernels/*`, `simd_kernels.hpp`, `math_kernels*.hpp` | loop counters, buffers | about 85 memory and stencil kernels, 9 matrix multiplications, 12 chains of FMAs | vector body and remainder, borders, ranges without inner planes, packed bytes, saturation | every cell is processed once and nothing outside the arrays is touched |
| **Half and FP4 numbers** `half.hpp`, `fp4.hpp` | a byte shared by two FP4 values | conversions, `get`, `set`, `fill` | rounding, ties, denormals, overflow, the other half of a byte | nearest value, round trip |
| **Platform queries** `platform.*` | none | read the machine | - | I/O: their results are constants of the models |
| **Scores, comparison, output** `score_calculator.*`, `comparison_output.*`, ... | none | arithmetic and formatting | - | not a subject of these models |

How they interact:

- `main` parses the command line, restricts the process (or, on Linux, the main thread) to a socket
  if asked, creates the benchmark objects and calls `run()` on one of them after the other. There is
  one main thread; it alone calls the pools.
- The memory-bound, cache and precision benchmarks hand closures to a pool and share state with them
  by reference: the closures live in the queues of the pool, the data in the caller's frame. The
  timed kernels add a barrier among the closures of one loop.
- The kernels that these closures call share arrays: all threads write one array C and read A and B, and only
  the ranges of the partition keep them apart. Two FP4 cells share a byte.
- The precision test takes its kernels from `RuntimeDispatcher`, the memory-bound benchmarks from
  `KernelDispatcher`; each has its own idea of the level, and `--force-scalar` reaches the second one only.
- `ComputeBenchmark` creates its threads itself and shares atomics and vectors with them. The
  frequency sampler runs beside it. The server guard is a local of `run()`, hence its destructor runs
  whenever `run()` is left by return or by exception, and does not if the process is terminated.
- Affinity is shared state that nobody passes along: on Linux, a thread inherits the mask its creator
  has at that moment, and the single-threaded test pins the main thread.

The hazards this code is exposed to, each at its line with the properties that cover it, are listed
in `PROJECT.json` under `hazards`; those without a property say why.

## 2. Modules

| Module | Models | Based on |
|---|---|---|
| `ForkJoin` | abstract: what any of the pools promises | - |
| `ZPartition` | the partition in closed form | - |
| `ZPartitionLoop` | the partition as the code computes it, a loop | `ZPartition` |
| `PersistentPool` | the work-stealing pool | `ZPartition`, refines `ForkJoin` |
| `TimedKernel` | the timed kernels on the work-stealing pool | extends `PersistentPool` |
| `ThreadPool` | the simple pool, also under the timed kernels' barrier | `ZPartition`, refines `ForkJoin` |
| `ServerPerformance` | the guard's operations, as operators | - |
| `ComputeBenchmark` | `run()` with team, sampler, affinity and guard | extends `ServerPerformance` |
| `Sizes` | the arithmetic on grid sizes: overflow tests, memory check, automatic size | - |
| `CommandLine` | the parser, the validation, the eligibility | extends `Sizes` |
| `AtMostOnce` | abstract: what a client without retries promises about its submissions | - |
| `Submission` | `http_post`, the network and the server | - |
| `MainFlow` | `main` from the arguments to the exit code | extends `CommandLine` and `Submission`, refines `AtMostOnce` |
| `KernelTable` | the memory and stencil kernels as data: instruction set, border, steps, cells read | - |
| `GridKernels` | one parallel sweep of such a kernel over a grid | extends `KernelTable`, `ZPartition` |
| `MatmulKernels` | the matrix multiplications | extends `KernelTable`, `ZPartition` |
| `Int8Lanes` | the vector loop of the int8 memory kernels in 16-bit lanes | - |
| `HalfNumbers`, `FP4Numbers` | the conversions and, for FP4, the packed byte | - |
| `PrecisionRun` | one precision: detection, dispatch, calibration, chunks, count | - |
| `DotProduct` | the int8 dot products of the precision test | - |
| `PersistentPoolProofs`, `TimedKernelProofs`, `ThreadPoolProofs`, `MainFlowProofs`, `ComputeBenchmarkProofs` | theorems with proofs | the modules they are named after; `TimedKernelProofs` also on `PersistentPoolProofs` |
| `KernelsProofs` | theorems with proofs | `ZPartitionLoop`, `GridKernels`, `MatmulKernels` |
| `PrecisionProofs` | theorems with proofs | `PrecisionRun`, `DotProduct`, `Int8Lanes`, `FP4Numbers`, `HalfNumbers` |
| `Arithmetic` | lemmas that several proofs cite: division with remainder, the ranges in closed form, least elements, finite sums, the order of a finite set of naturals | `ZPartition` |
| `MC*` | small instances for TLC | |

A definition whose name ends in an underscore and a word (`WaitTest_OneLeft`) stands before the
definition it varies and is a plausible fault in it. `PROJECT.json` pairs every property with one
fault that it must detect; no specification uses these definitions.

### PersistentPool

One action is one atomic access or one critical section. Variables carry the names of the members
(`numThreads`, `queues`, `pending`, `running`, `spinWait`, `hasWork`, `nextQueue`); `pc` and `wpc` say
where the caller and each worker are; `issued` and `ended` are history variables.

| Code | Actions |
|---|---|
| constructor | `CreateWorker`, `CreateWorkerFails` (a prefix of the workers exists; none: the constructor throws) |
| `parallel_for_z` | `CallLoop`, then per range `SubmitCount`, `SubmitPush`, `Signal`; `LoopBodyReturns` or `LoopBodyThrows` for the caller's own range; then `wait_all` |
| `submit`, `submit_batch` | `CallSubmit` / `CallSubmitBatch` (which counts the whole batch first), `SubmitCount`, `SubmitPush`, `Signal` |
| `wait_all` | `CallWaitAll`, `WaitLock`, `WaitTest`, `WaitBlock`, `WaitSpuriousWake` |
| `set_spin_wait` | `SetSpinWait` |
| destructor | `Destroy`, `DestroySignal`, `DestroyNotify`, `DestroyJoin` |
| `worker_loop` | `TestRunning`, `PopOwn`, `OwnQueueEmpty`, `Steal`, `VictimEmpty`, `StealFails`, `TaskEnds`, `Retire`, `NotifyWaiter`, `IdleWorker`, `WakeUp`, `FallAsleep`, `SleepTimeout` |

The caller's critical section of `wait_mutex_` is cut into a test and a block so that a notification
can be tried in between: `NotifyWaiter` is disabled there (`CallerHoldsWaitMutex`), which is exactly
what the lock in `worker_loop` is for. A condition variable may wake spuriously. An exception of a
task is caught by the worker, so returning and throwing are one action there.

Left out: the `stats_` counters, which nothing reads back into control; logging; `WorkItem` and
`WorkQueue::clear`/`empty`, which have no caller. `num_threads_` is a plain `unsigned` which the
constructor lowers while workers read it. The model reads it atomically: a worker that reads an old
value probes a queue that exists and stays empty.

### TimedKernel

Extends the pool with the body of a loop: a range arrives at the barrier (`Arrive`), plane 0 waits for
all others and opens it (`Lead`), the others follow (`Follow`), all run until the deadline (`Deadline`,
one event) and store their result (`StopLoop`); a range with more than one plane would go on to the next.
A round is a loop of the pool over as many planes as the pool has threads (`StartRound`, which calls `LoopOver` of
`PersistentPool`). A task of the pool ends only when its body has returned (`PoolStep`).

### ThreadPool

Members `threads_`, `core_ids_` (its size), `num_threads_`. `Call`, `ClearThreads` (which terminates
the process if a joinable thread is left over), `Spawn` or `SpawnFails`, `OwnRange`, `JoinThreads`,
`Destroy` and `DestroyJoin`; ranges `Arrive` at a barrier if the bodies have one, and end
(`RangeEnds`). `CatchException` is the caller that catches what the loop threw and destroys the pool.

### ComputeBenchmark and ServerPerformance

`conf` describes a machine, a command line and an environment: cores, P-cores, sockets, the cores the
system lets a thread be pinned to, Windows or Linux, which settings cannot be read or raised. The stages
follow `run()`. The list of a socket is the one of the system and names no core twice; the performance cores are a set, as
`get_performance_cores` lists them in ascending order. A team stage is spawn, pin, await, open, sleep, stop, join, sum on the main thread, and
arrive, wait, batches, exit on each worker. Pinning follows the core lists of the constructor, and a
new thread gets the mask of the process (Windows) or of its creator (Linux). A failure to create a
thread unwinds `run()` if no joinable thread is in the vector being unwound, and terminates the
process otherwise. The guard is acquired first and released last.

A batch of a kernel is one step and one unit of work; the floating point results, the reports and the
statistics of the sampler are left out. There is one process.

### CommandLine and Sizes

One action reads one argument, as one turn of the loop of `parse_args_extended` does: `ParseMode`,
`ParseSize`, `ParseThreads` and so on change `config` (the members of `ExtendedConfig` and of its base
`Config`) and say whether the option is neutral (`onlyNeutral`); `ParseHelpOrVersion` and
`ParseRejected` end the program; `EndOfArgs` selects the full test and validates. Nothing is known in
advance of the arguments: each action chooses one, so that every sequence and combination within the
bound is tried, an option given twice included.

`Sizes` holds the integers of the code to their width. `TotalOverflows`, `BytesOverflow` and
`RequiredOverflows` are the tests by division, `Total`, `TotalBytes` and `RequiredBytes` the products
reduced to `SizeMax + 1`, `AutoSize` the automatic cube. FP4 has half a byte per element, hence `HalfBytes`.
`std::stoul` is cut to `UnsignedMod` as the cast to `unsigned` does.

Left out: `--no-color` and `--quiet` as state, times that are not finite numbers (`--time=nan` passes the
test `min_time <= 0`), `extended_config_to_args`.

### Submission and MainFlow

`http_post` is a sequence of system calls, one action each (`Startup` on Windows only, `Resolve`, `OpenSocket`,
`Connect`, `Send`, `Receive`, `ParseAnswer`); `held` are the resources that the early returns must release. The
server and the network are external, and modelled from what `http_post` can observe: a request arrives
whole or not, the server stores it at any later time, also after the client has given up, answers or not,
and an answer may be lost or cut. A status line without a number makes `std::stoi` throw. On POSIX systems, a
connection closed by the server can end the process by SIGPIPE, which no handler catches.

`MainFlow` has an action per phase of `main`:

| Code | Actions |
|---|---|
| arguments | `Parse`, `Begin` |
| full test | `FullConfirm`, `FullSetUp`, `FullCompute`, `FullPrecision` |
| one test | `SetUp` (automatic size, socket, forced kernels), `WarmUp`, `CheckMemory`, `RunTest` |
| exceptions of a test | `TestFails` |
| submission | `Consent`, `SubmitNext`, `HttpPost`, `SubmitReturns`, `SubmitEnds` |
| server | `ServerStep` |

A test is one step that records the settings it was run with; `ComputeBenchmark`, `TimedKernel` and
`PersistentPool` show what goes on inside. The free memory is read twice, for the automatic size and for the
check, and may differ. Left out: the texts, nickname, session id and integrity token, the process mask,
and the tests for an empty result table, which always has rows.

### KernelTable and GridKernels

All memory and stencil kernels of the program, whatever the instruction set, have one shape: for each plane
`z` of the range and each row `y`, a sequence of loops over `x`, the last of them a cell at a time. A kernel is
therefore a record of `KernelTable`: the border it leaves out, the widths of its loops, the cells it reads
around the one it writes. The body of a loop, the arithmetic, is left out; what remains is the control that
can go wrong. `GridKernels` gives every thread its range of planes and runs the kernel on it: `Plane`, `Row`,
`Cells` (one iteration of one of the loops) and `NextLoop`. `written` is what a thread has written so far. The
range is clamped at the border, as in the code, by `ZStart` and `ZStop`. A kernel with `partial` takes a shorter last
step instead of a loop of single cells: the FP4 stencil.

`kernel_mem_fp4` is not in the table: it divides a flat index into chunks of packed bytes and not a grid into
planes. The sweep of the cache benchmark is in it, as arrays without rows.

### MatmulKernels

A slice is an N x N product. What a cell of C holds is the set of the `k` whose product has been added to it,
with a mark for what was there before the kernel and one for a product that was added twice. In-place kernels
clear the slice (`Slice`) and add to the cells (`Terms`, `Update`); buffered ones sum up a block (`Block`, `Sum`) and
store it (`StoreCell`, `NextBlock`). The FP4 kernel stores into half a byte, in two steps (`ReadByte`, `WriteByte`),
between which another thread may store into the other half. That happens when a range has an odd number of
cells: the matrices of an odd N. `ProductsExact` excepts the cells of such a byte and nothing else.

### Int8Lanes, HalfNumbers, FP4Numbers

`Int8Lanes` is one iteration of the vector loop of the int8 memory kernels: widened to 16 bits and multiplied
(`Multiply`), added with saturation (`Add`), packed with saturation and permuted (`Pack`). `HalfNumbers` has the two
conversions of `half.hpp`, the normalisation of a denormal being a loop (`Normalize`); a float is a record of its
three fields. `FP4Numbers` is the byte that two FP4 values share: `SetHalf` and `Fill`. Floats are integers in units of
`1 / (4 * Unit)`, so that every finite float is one for some `Unit`. Left out: the comparisons of `half`, a NaN stored
as FP4, and the variants of the batch conversion.

### PrecisionRun and DotProduct

`PrecisionRun` follows one precision from `main`'s `SetForceScalar` over `Initialize` (the level that CPUID and XCR0
give, and the pointers selected for it) and `ChooseKernel` to `Probe` (the operations of one iteration, as the kernel
returns it or as the size of the arrays tells), `Calibrate` (up to six attempts, each reads a clock with the
resolution `tick` and may be held up), `Chunk` and `Count`. `build` is an
architecture and the extensions that all files are compiled for (`base`); `main.cpp`, which has the int8, half and FP4 kernels, gets no
others. `CompiledFor` adds the flags that `CMakeLists.txt:187-206` gives to a kernel's file. All compute kernels but those for AVX-512,
the scalar ones included, share `kernel_compute.cpp`, which on x86 is compiled for AVX2 and FMA. A run begins on a machine that executes
`base`; elsewhere the program does not get as far as `main`. The stubs that stand for the kernels of another architecture are left
out, since the level that is detected selects none of them. Each FMA kernel is four numbers (`Compute`): chains, lanes,
iterations per turn of its main loop, and what it returns.

`DotProduct` is `compute_bound_int8` with its AVX2 and NEON variants: blocks of `kBlockSize` cells, lanes of 32 bits
that start anew with each block (`OpenBlock`), steps of one product or two neighbours per lane (`VectorStep`), the sum of
the lanes (`SumLanes`), the remaining cells where the kernel has a loop for them (`TailStep`), and the sum in 64 bits
(`CloseBlock`).

Left out: the statistics over the repeats and the result tables; `compute_bound_fp64` and `compute_bound_fp32`, which the
dispatcher does not use for a measurement; what the kernels compute.

## 3. Runs

| Run | Question | Instance | Result |
|---|---|---|---|
| `pool_loop` | Is every range run once, is a loop complete, does a closure outlive its call, does the pool implement `ForkJoin`, is the invariant of the proofs kept? | 3 workers asked for, 1-3 created; 2 calls, each a loop or a batch | holds |
| `pool_modes` | Does every call return and every task get run, in fair runs? | 2 workers (1 may be missing), 3 calls, loops and mode switches in any order, bodies that may throw | holds |
| `timed_kernel` | Does the barrier inside the pool's tasks open, and are the results complete? | 3 workers asked for, 1-3 created, 2 rounds | holds |
| `compute_run` | Does a test measure only its own team, on its own cores, count all its work; does `run()` end and clean up? | 8 machines with 3 cores, up to 4 workers, 2 batches | holds |
| `simple_pool` | Does the simple pool implement `ForkJoin`, do its calls return, does its destructor join? | 3 threads, core lists of 0, 2, 3, with and without pinning and barrier, 3 loops | holds |
| `simple_pool_failure` | Does a loop that is left leave no thread? | as above, 1 loop | violated, finding 1 |
| `server_restore` | Is everything restored by the guard? | a Windows server that refuses the first request for priority | violated, finding 2 |
| `main_flow` | Whatever the options: is what is submitted standard and which test is it, does an accepted size fit, is a result stored at most once, is everything released, does the program end? | up to 3 arguments, both builds, 4 readings of the memory, 2 sockets, any behaviour of user, network and server | holds |
| `offer_eligibility` | Is submission offered only after a clean run? | as above, up to 2 arguments | violated, finding 3 |
| `kernels` | What the threads compute with: do the ranges tile the planes, does a sweep touch every cell of its region once, only these, and end; are products exact and lanes in range; are stored numbers the nearest; are the kernels supported (the compute kernels: on processors of the README's minimum), the chunks short and the operations counted? | see below; 354 000 states | holds |
| `half_denormal` | Is a half that is loaded and stored the same half? | all denormals, the ends of all exponents | violated, finding 4 |
| `force_scalar` | Does the precision test run scalar kernels after `--force-scalar`? | the portable build on a processor with AVX2 and FMA | violated, finding 5 |

The modules that `kernels` checks have no state in common. `MCKernels` puts them side by side: `job` says which one has
something to do, and the others stand still in a state of theirs.

Why these bounds are enough to be interesting:

- Two workers and the caller suffice for every race between two parties over one queue entry; three
  workers add a thief with two victims, and a count that can be wrong by more than one. Five planes on three
  threads give ranges of unequal size, one plane runs on the caller alone, and an empty batch is an early
  return. `simple_pool` also has loops of 0 and 2 planes, `timed_kernel` those of 1 to 3.
- The second call meets the state the first one left: a sleeping worker, a stale `has_work_`, a
  `next_queue_` that has moved. Three calls in `pool_modes` allow a loop before and after a switch.
- `NextQueueMod` is 4 where the code has 2^32: the counter wraps within the bound. It must not be a
  multiple of every number of threads, and it is not one of 3.
- `MaxBatches` = 2 lets a worker be between two batches, in its first and in its last when the stop
  flag is set. Three cores and four threads give more workers than cores.
- `MaxCalls` only limits how often the caller calls.
- `MaxArgs` = 3: one argument that changes the run, one that undoes or masks it (a second `--precision`,
  `--auto-size` after `--size`), and one that selects the test.
- Sizes have 14 bits and unsigned numbers 4. `SizeArgsValue` has a size for each outcome of the tests: no
  element, too small for the stencil, not square, in range, and one each whose volume, bytes, and bytes of
  three arrays overflow. The threads 16 and the repeats 16 are cut to 0. `MaxDim` (500 in the code) is 7 and
  `MinElements` (512) is 125, so that the automatic size meets both limits within the readings of the memory.
- The full test sends two requests, the others one; `Requests` is not a bound.
- Sweeps: kernels that differ only in the instruction set are one (`MCKernelSet`); for each, a row of one cell, one of 3
  (shorter than most vectors), and one with a step of each loop and a remainder. Grids of height and depth 1 have no
  inner cells; depth 4 gives two threads ranges of which a border cuts both.
- Products: the vectors are scaled to 4 and 2 cells, so that N = 3 has blocks, remainders and bytes shared by rows, slices
  and threads. N = 7 on one slice has a block, a vector and a remainder. The scaled kernels run the same code: the widths are data.
- Dot products: lanes and blocks are scaled too, `MaxProduct` to 3 and `Int32Max` to exactly a block of it. Counts of 0, 7,
  16, 19 and 50 end before, at and behind a block and inside a vector.
- Halves: all denormals; of the others those at both ends and in the middle of every exponent, with both signs. Floats:
  the exponents around every limit of the code, with the 13 bits behind the mantissa on both sides of a tie. FP4: all
  multiples of an eighth up to 6.875.
- Precision: x86 CPUs from SSE2 to AVX-512, also with AVX2 and no FMA and with AVX-512F and no AVX-512DQ, under systems that save the
  registers of SSE, AVX or AVX-512; ARM with and without FP16, and another one. Builds: the portable, the default and an AVX-512 native
  one of x86, two of ARM, one for another processor; each is run where it starts. An iteration costs 1, 3, 7,
  or more than a chunk may take; the clock is finer than the target of a chunk (20) or coarser; a chunk may be held up by a quarter of the target.

### Fairness

Every thread is scheduled again and again (weak fairness of each worker and of the caller inside an
operation); the bodies of tasks and the batches of kernels end; timed waits and sleeps end. The code's
threads are OS threads with no priorities among them, and its only unbounded waits are on conditions that
the properties are about. The caller is not obliged to make a call. One strong fairness is assumed: a
worker that wants `wait_mutex_` gets it if it becomes free again and again. Without it, a caller that
wakes spuriously for ever could keep the worker out, which is a property of the mutex, not of this code.

In `MainFlow` only `main` is fair: the user answers or closes the input, tests end (`RunEnds`,
`RoundsEnd`, `CallsReturn`), and a system call of `http_post` returns, which the timeouts of 10 seconds set before the
connection guarantee as long as the server does not send a byte now and then for ever. The server is
not fair: it may never store and never answer. In the sweeps some thread that has not returned goes on (`WF` of
`SweepStep`): threads with a range run it to its end, and none waits for another.

Deadlock is checked in every run: the modules stutter explicitly when the pool is destroyed, the
benchmark has been left, or the program has ended. Only `kernels`, `half_denormal` and `force_scalar` turn the check off: a loop that
has returned is the end of these models, and `SweepEnds` and the properties of returned loops say that the end is the right one.

### Findings

1. `simple_pool_failure`. If a `std::thread` of `ThreadPool::parallel_for_z` cannot be created after others have been,
   `emplace_back` throws; those created before it go on calling `func`, a reference to an object in
   a frame that is being unwound. The joins, commented "wait for all threads to complete"
   (`threading.hpp:105`), are skipped. The destructor joins later (`DestructorJoins` holds), which is too
   late for `func`. `PersistentThreadPool` handles the same failure by going on with fewer workers.
2. `server_restore`. `ScopedServerPerformance` notes a thread's priority as changed only when its own
   attempt succeeds. The calibration later calls `configure_current_thread_for_performance` on the same
   thread. If the first attempt was refused and the second one is not, the priority stays raised after
   `run()`, against "Everything is restored by the guard before run() returns"
   (`compute_benchmark.hpp:148-149`). `LeftClean` states what does hold: only such settings, and those
   whose old value could not be read, can differ.
3. `offer_eligibility`. `--force-scalar` and `--no-warmup` do not clear `only_neutral_flags`, so a run with one of
   them and nothing else is the full test, and the full test asks for submission (`main.cpp:479`) without
   `is_submission_eligible()`, which is false. `README.md:174-175` promises the question only after a run without
   these options. What is sent is standard nevertheless, because the full test ignores both options:
   it always warms up and never forces the scalar kernels. That is what `SubmittedIsStandard` of `main_flow` states.

4. `half_denormal`. `float_to_half_bits` shifts the mantissa of a denormal one place too far (`half.hpp:151` and `156`): loading
   and storing a denormal half halves it (TLC shows one whose highest mantissa bit is set, such as 512, which comes back as
   256), against "IEEE 754-2008 half-precision" (`half.hpp:9`). For all other halves the
   round trip is exact (`NormalKept`), and every float in the range of the normal halves is rounded to nearest, ties to
   even (`NearestHalf`); both are proved.
5. `force_scalar`. `main` tells `KernelDispatcher` of `--force-scalar` and nobody tells `RuntimeDispatcher`, which the precision
   test asks. `README.md:157` and the help text (`cli.hpp:338`) promise scalar kernels. The run is the portable build on a
   processor that meets the README's minimum: the flag is set, and the compute kernel for AVX2 runs.

Three more divergences came up for which there is no run:

- `--mode=mem`, `stencil` and `matmul3d` all run the compute-bound test of FP32 (`main.cpp:848`), which is submitted under the name of the
  mode (`main.cpp:864-869`), while `README.md:121-134` describes a test of its own for each. `SubmittedIsStandard` says exactly this
  of such a result, and that everything else is submitted under the name of its test.
- The files for AVX-512 are compiled with `-mavx512dq` (`CMakeLists.txt:203` and `205`), the ones for AVX2 with `-mfma`, and all of an ARM
  build with FP16; none of these is asked for when a kernel is selected. A processor with AVX-512F alone (Knights Landing) meets
  `README.md:20-21` and may die of an illegal instruction. `KernelsSupported` has the condition `Companions` for that reason, and
  `RInit` the one that the machine executes the base.
- `CMakeLists.txt:59`, `61` and `63` write `elif`, which CMake does not have: on x86 it stops there, on other machines it skips the detection of the
  architecture. The models take the flags as they are meant.

## 4. Theorems

All safety invariants of the passing runs, the two refinements of `ForkJoin` and the one of `AtMostOnce` are proved, for every number
of workers, every number of calls and all sizes. Most assumptions (`PoolAssumption`,
`ThreadPoolAssumption`, `PartitionAssumption`, `GridAssumption`, `HalfAssumption`, `FP4Assumption`, `Int8Assumption`, `RunAssumption`,
`SizesAssumption`, `CommandLineAssumption`, `SubmissionAssumption`) only give
the constants their types and ranges. Seven say something of the code or the machine:

- `KernelAssumption`: a kernel's last loop takes single cells or its last step is cut short, and only kernels with a border read
  neighbours. TLC evaluates it for every kernel of the table.
- `MachineAssumption`: each vector extension of x86 comes with the earlier ones. That FMA comes with AVX2 and AVX-512DQ with
  AVX-512F is not assumed; it is a condition of the property (`Companions`).
- `DotAssumption`: a block of the largest products fits into a lane (in the code 65536 * 128 * 128 = 2^30 < 2^31), and the kernel
  without a loop for the remainder divides a block (65536 by 8).
- `LanesAssumption`: a RISC-V vector has at least one lane.
- `MainFlowAssumption`: a run makes two requests at most, one for the compute test and one for the precision test
  (`main.cpp`, the full test).
- `ComputeAssumption`: `MaxThreads` bounds the team of every configuration, so that the vectors of workers are long enough, and
  no socket lists a core twice (`get_cores_for_socket` looks at each core once).
- `TimedKernelAssumption`: the bodies of the timed kernels do not throw. They call a kernel and store a number in a vector that is
  long enough.

**PersistentPoolProofs.** The properties are not inductive by themselves: that a join is complete follows
from a count of zero only if the count is exact, it is exact only if no task is in two places, and that
holds only if a task that is pushed is new. `IInv` conjoins

- `TypeOK`, where `numThreads > 0` outside a failed constructor matters, as the code divides by it;
- `ControlInv`, what the caller's program counter says about its operation;
- `FreshInv`, a task about to be pushed has not been issued before;
- `PlaceInv`, no task is in two places: two queues, two entries, or two workers;
- `EndedInv`, the place says whether the task has ended, and one that has not is in a place;
- `CountInv`, `pending` is the cardinality of the tasks that are in a place.

The lemmas about places come first: adding an entry to a queue and removing one from either end, then one
lemma for each kind of step that moves a task, one for the steps that move none. From
`InvariantHolds` follow `TypesHold`, `PendingIsExact`, `TasksRunAtMostOnce`; `JoinsAreComplete` and
`FramesStayAlive` add one step of their own each. `FramesStayAlive` assumes `~ BodyMayThrow`: a
body that throws on the caller leaves `parallel_for_z` without `wait_all`, and the property is false
then (the hazard at `persistent_thread_pool.hpp:186`). `PoolImplementsForkJoin` is the refinement: each
step of the pool forks, finishes, begins or ends a join, closes, or stutters.

**TimedKernelProofs.** `RoundsUseThePool` is a refinement: a step of `TimedKernel` is one of the pool or leaves it alone, hence
all that `PersistentPoolProofs` shows holds during a round. `KInv` adds to the pool's invariant that a round has one plane per
thread (`RoundInv`), that `ready` is the number of ranges that have arrived and `start` is set only when it is all of them
(`BarrierInv`), and what ties a result to the pool: a task of the round that has ended is one whose body has returned, a body that
has returned has written its plane, and when the loop is left all tasks of the round have been issued and have ended
(`ResultInv`). `BarrierOpensForAll` and `ResultsAreComplete` follow; for the second one a count of zero
means that every task has ended, which is the pool's `CountInv`.

**ThreadPoolProofs.** `TInv` ties the threads of the pool to the ranges that have been issued and not ended; when the
destructor has joined, none is left (`NoThreadLeft`). The same invariant gives the refinement: creating a thread
forks a range, its end finishes it, and the loop over the joins ends only when all have ended. A creation that fails leaves
ranges unissued, and the exception closes the abstract service (`SimplePoolImplementsForkJoin`).

**KernelsProofs.** The partition: `LoopInvariant` says that the ranges found so far are those of the closed form;
`PartitionTiles` and `PartitionIsBalanced` follow when the loop returns, and `LoopHasClosedForm` justifies the closed
forms that the two pools use.

The sweeps: none of the three properties is inductive. The invariant says more: a thread has written
exactly the cells of its region that lie behind its loop counters (`Frontier`), the counters are inside the range
(`Counters`), and types. `Frontier` is kept by a vector step because the step fits into the row, by the change of loops because
the last loop leaves no cell, and by the end of a row and a plane because nothing is ahead in it. `SweepRaceFree` follows from the disjoint
ranges of the partition, `SweepCoversRegion` from the fact that these cover all planes (`RangeCovers` of `Arithmetic`), and
`SweepInsideArrays` from the counters.

The products: `MInv` has a part for each thread. `CountersInv` gives the ranges of the counters and the terms that a sum has so far;
`ProductInv` says that the cells a thread has behind it (`Reached`) hold all terms, and those of the current slice the ones that the
loops have come to (`TermsSoFar`); both except the cells of a shared byte. `HalfInv` is for the two steps in which the FP4 kernel
stores: the half that is written back is the one in memory, unless another thread owns it. That the slices of two threads do not
overlap is `RangeOrder` of `Arithmetic`.

**PrecisionProofs.** `SelectsSupported`: the machine executes what the files of the detected level are compiled for (`LevelExecuted`), hence
those of all that `select_kernels` takes for it (`TableExecuted`), and the base, since the program has started (`Started`); for the compute
kernels the README's minimum adds AVX2 and FMA (`ExecutedRuns`). Without the minimum it is false, as `README.md:26-27` says. `ChunksAreBounded`: one step of the calibration cannot answer with a chunk of twice its
target, whatever it read, unless the clock is coarser (`NextIsShort`), so no induction over the attempts is needed. `OperationsAreCounted`:
a call of n iterations executes n times the operations of one, for every kernel (`WorkPerIteration`: the remainder of
an unrolled loop, arrays of a multiple of 16 cells). `LanesStayInRange`: a lane holds at most the products of the block so far
(`DotInv`), and the assumption bounds those of a block. `DotsAreExact` adds where the blocks and vectors begin (`BlockInv`) and what has
been summed up (`ResultInv`): the lanes together are the sum of the cells from `base` to `pos`, because a step adds to them the sum
of the cells it goes past (`StepSum`, by the least lane for which that fails), and `sum_total` is that of the iterations that have
ended and of the blocks before `base`. That a block without a loop for the remainder ends at its end is divisibility
(`BlockEndsWhole`).

The narrow numbers: `Int8LoopIsScalar`: a product of two int8 fits into 16 bits; a sum may not, but what saturates there
saturates in 8 bits too; and the permutation undoes what packing did. `StoresNearestFP4`: each limit of `float_to_fp4` is the middle between two
neighbours, and a store leaves the other half of the byte. `NormalHalvesKept` and `StoresNearestHalf`: the fields of a half
(`HalfFields`, `Split`) and one case per branch of the conversion.

**MainFlowProofs.** `SubmitInv` holds together what main, `http_post` and the server know of a request. `FlowInv` says which results
there are at each place in `main`; `PostInv` that nothing is held in a phase after a return; `StoreInv` that a request which has not been sent
has not arrived, one that has arrived has not been stored yet, and the answer "created" is an answer to a stored one;
`ReportInv` that the user has been told about earlier requests only. `NothingIsHeld` is a part of it, and with it every step of
`MainFlow` is a step of `AtMostOnce` or a stutter (`SubmitsOnce`): a late store is the store of the abstract service whatever
`http_post` has reported meanwhile. `ResultsAreStandard` needs another invariant: which members of the configuration are
untouched as long as `onlyNeutral` or `run_full_test` says so, that the precision is FP32 unless an option has set it (`ConfigInv`), what each stage has done to the clock, the
socket and the kernels (`StageInv`), and which settings a result was measured with (`ResultInv`). `AcceptedSizesFit` is
arithmetic: a test by division that passes makes the product below it exact (`QuotientBound`, `VolumeIsExact`, `BytesAreExact`),
and the automatic cube is one of the cubes it may take (`AutoSizeIsCube`); that there is a largest one follows from well-founded
induction over the naturals, stated for a set and not for a predicate (`LargestExists`).

**ComputeBenchmarkProofs.** `PhaseInv` ties the place in `run()` to the number of workers that exist, `WorkerInv` ties `ready` to
the set of workers that have arrived (a cardinality, so that a full count means all) and the flags to the current team:
a flag left over from the last team would let a worker start early. `TeamsStartTogether` and `NothingElseRuns` follow. `RunLeavesClean`
adds `SamplerInv`, which needs the order of the stages (`StageAfter`: a sampler that was started is stopped, because the stop is skipped only
when the start is), and `SettingsInv`: a setting that differs from its old value is one the guard restores or could not read or raise.

`TotalsAreComplete` rests on `WorkInv`: what has been executed is the sum of what the workers have counted, a worker that
has exited has stored its count, and all have exited when the main thread adds up. `WorkersHaveOwnCores` rests on
`MaskInv`, that a worker is pinned once the main thread has gone on to the next one, and on the lists: the core list that a
configuration leads to names no core twice (`ListIsDistinct`), whichever branch of the constructor has made it.

**Arithmetic.** A fold computes a sum with a recursive function over subsets, whose value no induction theorem of the library can
be asked for. The sum is unique nevertheless: a function on the subsets that satisfies the equations of the recursion (`AddsUp`)
agrees with the fold, or there would be a smallest set on which it does not (`SumIsUnique`). That one exists follows by adding
one element (`SumExtends`) and the least number of elements for which it fails (`SumExists`). From these come the laws that the proofs use:
changing one term (`SumChanges`), adding two functions (`SumPlus`), and splitting an interval (`IntervalJoin`). `Enumeration` puts a
finite set of naturals in order in the same way; the core lists need it.

Model-checked only: everything about liveness and fairness (`CallsReturn`, `TasksGetRun`, `RoundsEnd`,
`RunEnds`, `ProgramEnds`, `SweepEnds`), which is out of the reach of the prover. The calls of `HalfNumbers` end (there is
no property for it, the loop is bounded by the width of the mantissa). The runs list the properties and not the inductive
invariants behind them, except `IInv` of the pool, which `pool_loop` checks.
What a recursive definition computes for every input cannot be proved with the library's induction theorems; this is
why the partition is a loop with an invariant, and why sums go by the least counterexample.

## 5. Not modelled, and what is left

Code that nothing calls has no model: `RuntimeDispatcher::force_level` and `reset_to_auto`, the execute functions of
`KernelDispatcher`, `extended_config_to_args`, `get_size_for_cache_level`, `ProgressReporter`, the memory-bound variants of the precision
test, the submission of a full benchmark. `Benchmark` is a class that `main` never instantiates; its kernels are modelled all the same, as the
classes of the other tests run kernels of the same shape.

I/O and arithmetic on doubles: platform queries, the RISC-V probes, warm-up throughputs, statistics, scores, comparison
and output, payload texts, the integrity token. Rounding inside the kernels. Of the kernels themselves, `kernel_mem_fp4`, the row buffers of the FP4 kernels,
and the selection of an inline kernel when the program is compiled.

Hazards that no module states:

- The power scheme belongs to the system: a second process that starts meanwhile takes the raised scheme for the old
  one. There is one process in `ComputeBenchmark`.
- The sampler thread, and the precision test that follows the compute test, inherit a main thread that is still pinned to
  a core. Neither is counted on to have a core of its own.
- The ten seconds of `result_submission.cpp:477` hold for each `recv`. A server that sends a byte now and then keeps the program waiting;
  `ProgramEnds` excludes it.
- An exception in the caller's own range of `parallel_for_z`, `wait_all` called from a task, a second loop on a pool after a failed one: no
  caller in the program does any of them. The first is an action of the model (`LoopBodyThrows`), and `FrameAlive` is stated without it.
- A worker of the compute test that cannot be created when others run ends the process (`SpawnFails`), and the power scheme stays
  raised. `LeftClean` speaks of a `run()` that is left.
- `num_threads_` is a plain `unsigned` that the constructor lowers while workers read it; see PersistentPool.

Worth doing next: the safety part of the liveness properties, as invariants that name what each waiting thread waits for (a
worker that sleeps although a queue has an entry is woken, a blocked caller has a running task).
