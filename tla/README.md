# Sarek in TLA+

Sarek is an OCaml DSL for GPU kernels with its own runtime: a PPX compiles the
kernels to an IR, a JIT turns the IR into CUDA, OpenCL, Vulkan, Metal or PTX
source, and a CPU runtime runs the same kernels on OCaml 5 domains. Around it the
repository keeps the tools of its development (Node scripts that gate reviews,
probe other runtimes, check the tests' registration and drive the formal
verification) and its site (benchmark pages, GPU lessons, notebooks).

This directory specifies the parts where several domains, fibers, processes,
requests or copies of the same data have to agree. TLC checks each on a small
instance, and the TLA+ proof system proves the central results for every instance.

All paths below are relative to `src/`.

## Inventory

### The runtime (OCaml)

| component | state | operations | what is hard |
|---|---|---|---|
| Guarded cache (`spoc/framework/Guarded_cache.ml`) | table, keys per device, device epochs, generation | `find_or_build`, `evict_device`, `clear` | the build and every `destroy` run with the lock released |
| Kernel caches and teardown (`sarek/core/Runtime.ml`, `Kernel.ml`, `sarek-cuda/Cuda_api.ml`, `Cache_hooks.ml`) | a memo of closures over a backend cache of handles; contexts | `compile_kernel`, `clear_cache`, `Device.destroy` | the memo must be dropped before and after the handles it borrows; a compile can hold a device that is destroyed |
| Domain pool (`Sarek_cpu_runtime_pools.ml`, twin in `Sarek_ir_interp.ml`) | task queue, count of active tasks, first error | `submit`, `wait_all`, worker loop | several launchers on one global pool |
| Barrier blocks (`Sarek_cpu_runtime_exec.ml`, `Sarek_ir_interp_eval.ml`) | suspended continuations, counters | start, resume, handler | fibers that end or raise between barriers; the lack-of-progress test |
| Thread pool (`module ThreadPool`) | slot per worker, generation, workers pending | `run_kernel`, worker loop | slots are read and cleared outside of the mutex |
| Parallel pool (`module ParallelPool`) | atomics (work, range, next chunk), generation | `parallel_for`, worker loop | atomics published before the mutex is taken; a worker that raises |
| Launch queues (`module LaunchQueue`, `Sarek_cpu_runtime.ml`) | queue, pending count | `enqueue`, `flush`, dispatcher | a kernel that raises in the dispatcher; queues share the pools |
| Vectors (`sarek/core/Vector.ml`, `Transfer.ml`, `Execute.ml`) | location, host storage, device buffers | element access, transfers, frees, launches | many copies; every operation trusts `location` |
| Device memory accounting (`Gpu_memory.ml`) | counters, finalizers | track, retry, finalise | runs inside the garbage collector |
| On-disk cache (`Framework_cache.ml`) | files | load, store | two processes, one file |
| Registries, launch front end, plugins, backends, WebGPU runtime | tables filled at start; driver bindings | | mostly sequential or external |
| PPX compiler, code generation, fusion, IR layout and analysis, interpreter evaluation, software floats | none across calls | | recursive data; parts have Rocq proofs under `formal/` |

### The tools (Node)

| component | state | operations | what is hard |
|---|---|---|---|
| Review verdict and gate (`scripts/review-*.js`, `check-review-convergence.js`, `lib/review*`) | verdict, draft, ledger of findings, audit of rounds, trace, gate report | normalise, assemble, gate, write the strike, persist | each is a process; a crash between two, a draft of an earlier round, a finding that comes back |
| Cross-runtime helper (`scripts/xruntime-review.js`, `lib/xruntime/`) | a journal of lines, the verdict's claims | probe, refuse, journal | concurrent invocations, killed half way, appends cut short |
| Mandated-step ledger (`scripts/check-mandated-steps.js`) | a file of records | record, check | torn lines, repeated records, records of others |
| Alcotest registration (`scripts/check-alcotest-registration.js`) | bindings, live names, queue | walk, collect, fixed point | names defined in several files, commented and unterminated text |
| Autopilot (`formal/convergence-safety/formal-verif-autopilot.workflow.js`) | phase, verdicts, a proposed text | the phases of a tick | agents that fail at any point leave their edits behind |

### The site (browser)

| component | state | operations | what is hard |
|---|---|---|---|
| Benchmark viewer and dashboard (`gh-pages/javascripts/benchmark-*.js`) | data, controls, charts | load, select, filter, draw | charts left from another view; fetches answered late |
| Lesson page and WebGPU runner (`sarek_lesson.js`, `sarek_webgpu_runner.js`) | status, output, button, GPU buffers | a run over its awaits | an older run ending after a newer one; an exception that skips the release |
| Notebook (`static/notebook/js/notebook.js`, cells, menus, toolbar) and slideshow (`iocamlsaver.js`) | cells, selection, undelete, dirty flag, current slide | edits, load, restore, slides | remembered positions that shift; a load that replaces what is edited |
| Code cell and outputs (`outputarea.js`, `codecell.js`) | outputs as data and as elements, a clear that waits | execute, print, clear, toggle | outputs, replies and timers in any order |
| Popups (`tooltip.js`, `completer.js`, `pager.js`) | one tooltip, lists, timers | keys, answers, clicks | the kernel's answers come after the reader has moved on |
| Messages (`notificationwidget.js`, `notificationarea.js`, `savewidget.js`) | timers, title, checkpoints | set a message, load, list, restore | the timer of an earlier message |
| List of notebooks and clusters (`static/tree/js/`) | rows, files being read, requests in flight, the refresh interval | drop, upload, delete, shut down, start, stop, refresh | answers in any order, for rows that are no longer on the page |

How they interact. A launch (`Execute.run_vectors`) moves its vectors to the
device, compiles the kernel through the memo and the backend's cache, and runs
it; a direct kernel runs on the CPU runtime: `run_threadpool` dispatches on the
thread pool (kernels with barriers, whose blocks are scheduled by the barrier
scheduler) or on the parallel pool, called by the client or by the dispatcher of
a launch queue; `run_parallel_with_barriers` and the parallel interpreter use the
domain pool. A device's destruction calls back into both caches (`Cache_hooks`).
The review tools share files under `briefs/`: the helper reads the verdict to
decide whether to probe, the gate reads the helper's journal to believe a verdict's
claims. The notebook's parts talk through the page's events and the kernel.

What makes them correct, in one line each: a cache never serves a released
value and never leaks one; a launch runs every block and thread of its grid
exactly once before it returns; an error surfaces; a flush returns, after
everything enqueued has run; a block is bulk-synchronous; a vector's location
never names a copy that is out of date; a review does not pass while a serious
finding is unfixed or after two bad rounds in a row; a degraded runtime is not asked
again and nobody claims an answer that was not given; what is committed was
checked; a page shows what its state says, and its state is what the user did.

`PROJECT.json` lists every component with its status, and the hazards of the
code line by line with the properties that cover each.

## Modules

| module | models |
|---|---|
| `GuardedCache` | `Guarded_cache.ml`. One action per critical section; the build and each `destroy` are actions of their own. A caller is a domain with at most one call in progress. |
| `KernelCaches` | two instances of `GuardedCache`, the memo's build being a `find_or_build` of the backend's, with `Cache_hooks.around_clear` and the CUDA `Device.destroy` between them. |
| `DomainPool` | the domain pool and its launchers; a thread that waits on a condition variable is `parked`. |
| `BspBarrier` | the abstract promise of a block with barriers. |
| `BspBlock` | the superstep scheduler, in both variants of the code: shallow handlers (a status per thread, `run_block_bsp`) and deep ones (continuations only, `run_block_sequential_bsp`, the interpreter's `run_block`). It implements `BspBarrier`. |
| `ThreadPool`, `ParallelPool`, `LaunchQueue` | one module each; slots and atomics are accessed outside of the mutex, one action per access. |
| `LaunchService` | the abstract promise to those who launch: queues whose kernels are called in order, calls that run each item of their grid at most once and return when all have run or raise when one has, flushes that wait. No dispatcher, pool, worker or lock. |
| `FissionRuntime` | composes the three: clients launch directly or through queues, dispatchers launch on the same global pools. It implements `LaunchService`. |
| `VectorLocation` | one vector; every function of `Transfer.ml` is an operator from vector to vector, so that a handler that calls others (a launch: transfer, run, mark) is one action. A copy is the set of its cells that hold the value last written, which is all that the properties can tell apart and keeps the model finite without a bound on the writes. |
| `ReviewCycle` | the bounds, the verdict on disk and what the next draft inherits from it; shared by the loop and the helper. |
| `ReviewVerdict` | the rules a verdict goes through (normalisation against the ledger, assembly, the gate's causes and exit code, the red-green outcome of a check) as operators on verdicts. |
| `ReviewLoop` | the tools as actions on the files under `briefs/`, called by a skill that may crash, persist, drop a draft and skip events; the defects in the tree are its environment. |
| `XRuntime` | the helper's invocations as two halves around the other runtime's run, the journal with its torn last line, the circuit breaker, and the gate's check that a claim is journaled. |
| `MandatedSteps`, `AlcotestRegistration` | the ledger script, and the registration check with a file as a sequence of bindings. |
| `Autopilot` | a tick's phases; every agent may answer anything its schema allows, or nothing. |
| `Filter`, `BenchmarkCharts`, `BenchmarkViewer`, `BenchmarkDashboard` | the charts as operators on results, and the two pages: an event handler is an action that redraws what the handler redraws. |
| `LessonPage` | a run of a lesson, one action between two awaits. |
| `Notebook`, `OutputArea`, `Popups`, `StatusArea` | the notebook client in four parts with no state in common: the list of cells and the slideshow, one cell's outputs, the tooltip, completions and pager, the messages, title and checkpoints. |
| `TreePage` | the list of notebooks and that of clusters, with the server they ask (external); a row is known by its key, and a request by the key of the row it will change, if that is still on the page; the order of the rows is left out. |
| `GuardedCacheProofs`, `KernelCachesProofs`, `BspBlockProofs`, `VectorLocationProofs`, `DomainPoolProofs`, `FissionRuntimeProofs`, `ReviewToolsProofs`, `SitePagesProofs` | the theorems. |
| `MC...` | the instances for TLC. `MCSitePages` and `MCWorkflows` put together components that do not interact: a behaviour visits one page, or uses one tool, chosen at the start. |

The definitions keep the names of the source where they can, and `PROJECT.json`
maps each to its lines. Definitions marked as mutants or mutations are plausible
bugs: they are used by no specification, and each property is known to fail when
one of them takes the place of the definition it follows the name of.

### Choices worth knowing

- *Mutexes.* What runs under a mutex is one action. `Condition.wait` releases it
  and is two: the waiter is parked, and tests its condition again when woken. The
  launchers of both persistent pools may wake for no reason.
- *Exceptions.* A build, a kernel and a `destroy` may raise whenever they run; an
  agent, a fetch and a GPU promise may reject.
- *Shutdown* functions of pools and queues are never called in the repository
  and are not modelled.
- *Barrier fibers* are cooperative: a fiber's run between two barriers is one
  step.
- *Vectors.* The number of elements, their values and streams are left out. A
  `GPU` location exists in the type; no operation produces it, and the invariant
  says so, because element reads would not synchronise it.
- *Scripts* are processes: one that reads files, computes and writes a file at its
  end is one action, the helper that waits minutes for its runtime is two. A crash
  keeps the files. An append may be cut short; the next append joins its line.
- *Pages.* JavaScript runs an event handler to its end: one action. Timers, fetches,
  promises and the kernel's messages are events that may come at any time after
  they were asked for.
- *Text* is a few tokens; regular expressions, markup and drawing are left out. A
  file of tests is cut into bindings by the environment, with what each names.

## Runs

| run | question | bounds | states |
|---|---|---|---|
| `guarded_cache` | is every value released once and never leaked, is no entry stale, do callers share the retained value? | 3 callers, 3 keys, 3 values, 2 epochs, a clear | 410 000 |
| `kernel_caches` | does either cache ever keep an entry whose handle is released? | 3 callers, 2 handles, 2 closures, 2 contexts, a clear; callers let go of a device before it is destroyed | 1 million |
| `domain_pool` | are launches complete, are errors fresh and not lost, does every launch end? | 2 workers, 2 launchers, 2 blocks, 2 launches each | 130 000 |
| `fission` | the launch service is implemented: exactly-once coverage, order, flush, over both pools | 2 workers per pool, a client and a queue, 2 launches, grids 0 to 3, chunks of 2, one kernel at a time | 430 000 |
| `fission_two_queues` | can kernels of two queues overlap? | 2 queues, grids of 2 blocks | violated |
| `bsp_block` | does the scheduler implement the barrier, and end? | 4 fibers, 3 barriers each, both variants | 29 000 |
| `vector_location` | is the copy that the location names up to date? | 2 cells, 5 devices of every sort, no other bound | 15 000 |
| `vector_lost_write` | also when the program writes to a stale host copy? | 2 cells, 4 devices | violated |
| `review_loop` | can a streak of bad rounds, or an unfixed finding, pass? | 1 finding, 3 rounds, 2 cycles (the second up to its first verdict), a streak of 2, one kind of disturbance at a time | 600 000 |
| `xruntime` | are refusals justified, does a breaker stay armed, is every claim journaled? | 1 runtime, 1 version, 2 invocations (overlapping before the first claim), 2 journal lines, 2 rounds, 2 cycles; the invocations interchangeable | 1 million |
| `workflows` | what the autopilot commits and applies, whether its ticks end; what a pass of the ledger means; what the registration check answers | 3 ticks, 4 edits, 3 reviews of a skill update; 3 ledger lines; trees of 2 and 3 files over 2 cases | 1.5 million |
| `site_pages` | charts, grades and buffers, the notebook's cells, outputs, popups and messages, the list of notebooks | 28 result files, 2 fetches; 3 runs of a lesson, 2 buffers; 4 cells, 4 commands; 2 executions, 3 outputs, a clear; 5 inputs over 2 cells; 6 messages, one name; 3 events in the list, up to 2 files at once | 1.5 million |

Why the bounds are enough. The races of the caches are between one build and one
eviction or clear, or between two builds and a third call that looks: three
callers give all of them, and the bounds on values and epochs let each happen
twice. Two workers and two launchers are the smallest pool in which a task can be
stolen, an error taken by the wrong launch and a signal go to the wrong waiter;
two launches each let one launch's leftovers reach the next. Grids of 0 to 3
blocks over 2 workers are smaller than, equal to and not a multiple of the number
of workers, and chunks of 2 end inside, at and past the range. Four fibers with
three barriers have fibers that end in the first, second and third superstep
while the others go on. Two cells are one that an operation writes and one that it
does not. Three rounds are a bad one, a second that strikes with it and one after,
with a finding that is found, fixed and back; the second cycle is there for what
the first leaves behind. Two journal lines are the degradation and the line that may hide it.
Three ticks are an abandoned one, the next that finds its tree, and one after.
A slower and a newer run of a lesson need two clicks, the third sees what both
left. Four commands on a notebook are enough to delete, insert, move and undelete,
or to load between two edits; a cell's clear, two executions and three outputs
give every order of a clear with outputs before, at and after it; five inputs
open, dismiss and reopen a popup over an answer still due. Six messages are the load's, the two
at its end, a restore's, that of its failure, which stays, and one more on either widget; the result
files hold runs of two variants on one device and on two, alike and not, on a test host,
at several sizes, and without a throughput. Three events drop two files,
upload one and do one thing more: upload it again, delete it, or load the list under it.

`CHECK_DEADLOCK FALSE` is said where the system may stop: when the launches, the
rounds, the lines or the inputs of the bound are used up, or the dispatcher has
died. `review_loop` and `xruntime` have a state constraint, `Small`: it keeps two
independent disturbances from happening in one behaviour and cuts the second cycle
short; it is stated, with its reasons, in the MC module.

### Fairness

`domain_pool`, `fission` and `bsp_block` assume weak fairness of every thread's own
next step: OCaml domains are system threads, a mutex is held for a bounded time,
and a kernel's run is assumed to end. `workflows` assumes that an agent returns or
is given up on, which is what the script's driver does. Nothing is assumed of what
the program or the user chooses: that a client launches, that a kernel raises, that
a build fails. A waiter that has not been signalled is not assumed to wake, so a
lost wakeup is found. `fission`'s liveness excepts a queue whose dispatcher was
ended by a kernel's exception: its flush never returns (below).

### What the violated runs show

1. `fission_two_queues`: `run_kernel` does not wait for a launch in flight on the
   global thread pool, though two queues are documented to run in parallel; it
   overwrites its slots, and a launch returns with none of its blocks run.
2. `vector_lost_write`: `set` and `fill` on a vector that a device is ahead of
   write the host storage and leave the location as it is; the next read copies
   the device's buffer over the write.

## Behaviours met while modelling

The models contain each of these; the properties are stated so as to hold beside
them, and say where they make room.

*Runtime.* An exception of a kernel ends its dispatcher with the launch pending, and
`flush` waits for ever. `wait_all` waits for everyone's tasks and re-raises the
pool's first error in whichever launch gets there first, so the launch that raised
can return normally (`ErrorSurfaces` is about launches alone in the pool).
`Device.destroy` evicts a device's kernels and then destroys its context: a compile
that resolved the device before and misses after the eviction installs a module of
the dead context; `Guarded_cache.mli` asks that nothing else use the device, and
`kernel_caches` checks under that rule. `run_parallel_simple` leaves domains running
when an earlier one raised.

*Review tools.* A journaled entry for a blocked runtime or a malformed journal
blocks its runtime and digest in every later cycle, even when a person asks for a
retry; a blocked entry masks an older degraded one, so that the runtime is probed
again. A check that was flagged without a finding's identity stays pending. The
gate recomputes the strike of a round that was persisted without one from the
ledger as it is by then. `no_go_round` may be held, which the cap does not see. A
line of the trace that cannot be parsed, of whatever cycle, degrades the gate until
it is repaired. A mirror across runtimes is accepted whatever its status.

*Ledger.* `record` does not look at who may record a step, at the reason of a failure,
nor at what the ledger holds, and can append a record that makes the ledger
invalid from then on; an append cut short joins the next line and has the same
effect. One `preflight` serves the implement, qa and ship phases alike.

*Registration.* Functions of one name in several files count as one, which the
script documents. From an unterminated comment on, the raw text is kept, so that a
registration inside a comment can count.

*Autopilot.* A revision is committed after the review alone, without a second check,
and the bug fixes of the last phase without a review. A text that is empty and yet
approved is applied, and the loop goes round again. The verdict says committed even
if the push failed.

*Benchmark pages.* Descriptions fetched in a row may arrive in the other order, and
the older stays. The metric menu first shows time while throughput is drawn. The
"show CPU" box has no effect. The comparison chart adds a bar per result and a label per
device, so that a bar stands over its own device only where the variants were run
once each on the same devices in the same order; elsewhere it is printed against another
one's name, or past the last. The speedup chart divides the first results of the two variants at a
size, whatever their devices and hosts. `ChartsAreMeasured` claims no more than that of the two.
The dashboard looks only at the first device of each run.

*Lesson.* An exception in the transpiler, the inputs or the reference leaves the panel and
the status of the run before; one before the runner's `try` leaks its buffers.

*Notebook.* Deleting a cell by index backs up the selected one. Conversions shift the place
undelete remembers, and after a load undelete brings back a cell of the old
notebook. Merging a raw or heading cell loses its neighbour's text. Setting a
heading's level marks nothing dirty. Edits between a restore and its answer are
lost. The slideshow's current slide outlives the cells it counted. A partial clear
takes results off the page and leaves them in the data; a stream that begins with
a blank chunk hides what follows; executing again while the kernel waits for input
removes the box, and the kernel waits for ever.

*Popups and messages.* A second TAB before the answer inserts a single completion
twice; a late list replaces the result an open list picks from; an older request's
answer may show for a newer one. A click on a message that stays keeps it, and its handler
outlives it: a click on a later message forgets that one's timer before it
is cleared. The busy marks accumulate in the title, and a message set while another
fades is blanked. The save widget shows the first checkpoint of the list where the
notebook keeps the last.

*List of notebooks.* The name typed for an upload is not read: `attr('value')` gives the one
the box was made with. A list that was asked for before a file was dropped takes the
upload away when it comes, and older answers replace newer ones. A second click on
Upload before the answer makes a second notebook.

## Proofs

Everything a proof module states holds for all values of the constants.

- **`GuardedCacheProofs`**: types, freshness, evictability, single release, no
  leak, that an entry is never replaced, and that a call returns the value that is
  the entry when it does (`ServesTheEntry`). The invariants of the runs are not
  inductive alone: a caller that has yet to install must carry an epoch that is
  not ahead of the device's, and what it holds must be nobody else's. The
  inductive invariant adds who holds each value.
- **`KernelCachesProofs`**: the links of the two caches are typed and nothing handed
  out dangles, for any number of clears and destroyed contexts. The theorems on
  `GuardedCache` are used twice, for the backend's cache and for the memo. The
  invariant says that the two caches are at corresponding steps of one call, that a
  live device's entries are of its present context, that a handle in use is
  loaded in the context it was loaded in, and that a caller holding what a clear made
  old carries an epoch that shows it: that is what makes it release, not install. The
  theorems assume `ResolversQuiesced`, the contract of `Device.destroy` that
  nobody resolves on the device being destroyed.
- **`DomainPoolProofs`**: no block is dropped, no error is stale, and a launch alone
  in the pool raises exactly when one of its blocks did, for any finite set of
  workers and any launchers, blocks and launches. The inductive invariant says that
  the count of active tasks is the number of busy workers (a cardinality, hence the
  assumption that the workers are finitely many), that every task queued or held
  is of a launch in progress, that every submitted block is queued, held or
  finished, and that the error kept was raised by a launch still in progress.
  `NoBlockDropped` needs all of it: `wait_all` sees only an empty queue and a zero.
- **`BspBlockProofs`**: the abstract barrier keeps its threads in step. The
  inductive invariant of the scheduler relates each
  fiber's status to where the loop over the fibers stands, to the fiber's count of
  barriers and to the two counters, in both variants; from it, that the
  lack-of-progress test is never true, that every step is a step of `BspBarrier` or
  leaves it unchanged, and (through the abstract theorem) that the fibers stay
  together.
- **`VectorLocationProofs`**: each operator on vectors takes sound vectors to
  sound vectors, sound meaning well formed, honest location and buffer held; every
  action is such an operator. Reads and kernel inputs are then up to date. The
  theorems assume `Disciplined`: the program does not write while the host copy is
  stale, and does not force a copy back from a native device that keeps its own
  buffer.
- **`FissionRuntimeProofs`**, on the queues and the two pools together:
  - every behaviour of the runtime is one of the launch queues, one of the thread pool
    and one of the parallel pool (`ImplementsItsParts`), concurrent launches
    included: the composition gives no part a step it does not have;
  - launches of one queue run in order and a flush that
    returned left none of what was enqueued before it, for any clients, queues, launches
    and pool sizes. The invariant says that the launches done with are complete, the
    dispatcher is at the next one, the queue holds the rest in order, and what a
    flush still owes is complete or belongs to a queue it has yet to flush;
  - under `OneAtATime`, a launch that returned without an error ran each block and
    each thread of its grid exactly once (`RunsItsGridOnce`), and one that raised had
    a cause, for any grid, number of workers and size of chunk. No run checks it apart:
    `ImplementsService`, which the run checks, says it of every call. On the
    thread pool: the workers that owe are those with an item or at work on one, `pending`
    is their number, the shares `k * n / w .. (k + 1) * n / w - 1` of the workers
    cover the grid and do not meet (arithmetic on the division, proved), and a block
    that did not run is left to a worker that owes, unless one raised. On the
    parallel pool: the stages are stored before the generation that publishes them, a
    worker is in step with what is stored, the claimed chunks do not meet and are
    below the counter, a thread that did not run is beyond the counter or claimed,
    unless one raised, and a worker reports only when the range is used up or one
    raised. Without `OneAtATime` it is false: run `fission_two_queues`;
  - under `OneAtATime`, the runtime implements `LaunchService` (`ServiceImplemented`).
    The mapping: a caller is `free`, `running`, `raising`, `flushing` or `dead` by its
    own state and by whether an item of its call has raised; what a queue has called
    is what it has enqueued less what it still holds and what is popped and not yet
    called; what ran of a call's grid is what ran in the pool it went to. The
    invariant needed besides the queues' and the pools' (`CallsInv`): a caller is in one pool at most,
    what ran for it is forgotten in a pool that it is not in, who is in a
    pool is in a call, and who is in a call is in no flush. Then a worker's step is
    items of one call that had not run (the pools' counts are 0 or 1 before and after
    it), the end of a pool's run is the return or the raise of the call, and all other
    steps of the pools are not seen. That a launch is complete under its own name comes from the queues'
    invariant, and so does a returning flush that is owed nothing.
- **`ReviewToolsProofs`**, on the review tools and the two checks:
  - *the loop*: a quiet streak escalates and a GO is given only on what was fixed or
    accepted, for any findings, rounds and cycles. What makes it inductive is about the
    files: what a round found is in the verdict's ledger, stamped or accepted; a
    quiet audit entry says that nothing unaccepted was found; the report
    on disk is about the draft that is there;
  - *the helper*: a refusal follows a fault of the runtime reported in this cycle, an
    invocation that knows its cycle does not ask a runtime whose breaker is armed unless
    a human says so, and a gate passes only claims that were journaled. The invariant says that the journal's lines of this cycle were printed in
    it, a torn last line apart, and that an armed breaker has its fault in the journal;
  - *the autopilot*: what is committed was checked and approved and what is applied
    was endorsed, for any number of ticks, edits and attempts. Both are action
    properties; the invariant ties the phase to the version the gate has seen and the
    loop's text to the one endorsed;
  - *the ledger*: a check that passes has counted every acknowledged record, for any
    calls and tears. A torn line is glued to the next, so the invariant cannot say that
    the records are the ledger: it is that, unless some line does not parse, the acknowledged
    records have lines of their own (an injection), none of them the torn one;
  - *the registration check*: the verdict is reachability, for any files with finitely
    many names. Reachability is stated as membership in every set that holds the roots and is
    closed under bodies, which needs no recursion; the worklist's invariant is that what is
    live is in each such set, and that a live name with bodies is still in the queue. When
    the queue is empty, what is live is closed.
- **`SitePagesProofs`**, on six pages of the site:
  - *the lesson*: the grade on screen is the newest run's and a dispatched run
    releases its buffers, for any buffers and any number of runs. The invariant is
    that at most one run is in flight, it is the newest, and the button is disabled
    meanwhile: that is what keeps a slower run from overwriting the grade;
  - *the popups*: a dismissed tooltip is not back unasked, for any cells, inputs and
    order of the answers. A tooltip that an
    answer may still show was asked for, hidden or not; the count of repeated requests is
    past two only on a line with nothing to ask about, which is why it stays in its table;
  - *the messages*: a message is taken away by no timer but its own, and one that stays,
    as a failed restore's, is on the page, for any number of messages and any
    answers of the server. The timer that runs is the one on record, which the next message
    clears (`BoxHolds`), until a click forgets it: of such a timer nothing is claimed. What
    set_message does to a widget is one lemma (`MessageHolds`), used for one message, for
    the two at the end of the first load and for the page's start;
  - *the list of notebooks*: what is uploaded under a name is the file of that name and
    what is deleted is what was confirmed, for any files, notebooks and other pages
    and any order of the answers. Two facts carry it: the rows made for files have numbers
    that are not used twice, so a late reader finds its own row or none; and an id of the server
    goes with one name for ever, so an old list, a dialog or a request still names its notebook;
  - *the notebook*: one that is not marked holds the file it was loaded with, a
    slideshow shows one cell, undelete puts the cell back beside a neighbour it had, and no
    line of text is lost or repeated by moving, splitting, converting, running and merging, for
    any files, any number of cells and any commands. Each command of the code calls others,
    so each operator has a lemma on what it does to a notebook whose cells have different ids
    and of which one is selected (`Good`): without that, a conversion or a paste writes to
    the wrong cell. A command either marks the notebook or leaves its texts, and leaves what
    the slideshow shows unless a cell comes, goes or moves (`Follows`). The invariant for
    undelete is that the remembered index is the place of the neighbour, after the cell or
    before it (`Linked`), and that insertions move both alike. The two loops of `fromJSON` are
    recursive functions on their rounds: what every round hands on, the last one has
    (`EachRound`, from the well-founded order on finite sets of numbers, since the
    library's induction takes an operator), and it is that the first k cells are the file's.
    For the lines, the places of one notebook are mapped into those of the other, each to a
    place of its own with the same line, in both directions (`Within`): so no line occurs
    less often. A move swaps two cells, a conversion leaves the texts in their order, a blank
    cell adds no place, and a split is a merge read backwards (`PartsWithin`);
  - *the outputs of a cell*: a clear takes nothing that was printed after it was asked for,
    and the page shows stored outputs only, each under its own kind and in the stored order,
    for any number of executions, messages, clears and raw inputs. What is shown is
    no function of what is stored: chunks of a stream are joined on the page, a blank first chunk
    is stored and not shown, and a partial clear takes errors and results off the page
    only. The invariant (`Faithful`) is therefore about the streams without a blank chunk:
    they are shown in full, so the last element of the stream that printed last is where
    the next chunk goes and nothing in order comes after it (`NothingAfterLast`). A filter
    by kinds keeps it (`Thinned`), the filter itself being a loop on the prefixes of the
    sequence (`KeptIs`). A clear that waits has nothing behind it, since every output flushes it first;
  - *the benchmark viewer*: the single chart is there exactly in the single view and shows every
    measurement that the benchmark, system, metric and backend controls select and nothing else,
    for any data file, benchmarks and hosts. That the chart is the one last computed from the
    controls as they are now (`ChartIsDrawn`) is the invariant, with one fact for all handlers
    (`ViewIsDrawn`). What the chart holds is then a fact about the operators: the filters, the
    loop over results and their devices, and the sort of each line by size, as sets of what
    they return (`KeptHolds`, `RowsHold`, `SortHolds`, `LinesHold`). The sort puts a row at the
    number of rows up to it, and different rows have different numbers, so none is lost.

The type invariants are proved there, and no run spends its time on them, but for the older
dashboard's (`DTypeOK`), which the run of the pages checks with its charts. Each page or
tool that a run composes with others has a specification of its own (`LSpec`, `PopupsSpec`,
`StatusSpec`, `TreeSpec`, `NotebookSpec`, `OutputsSpec`, `ViewerSpec`; `XSpec`, `PSpec`, `LedgerSpec`,
`RegistrationSpec`), and its theorems are about that one: in `MCSitePages` and `MCWorkflows`, where one part runs in each
behaviour, these are the behaviours of that part.

Assumptions on constants are named in the modules that declare them: that the
"none" values are not members of the sets they mark the absence of, that an empty
slot of a pool is no item and no function, that the sorts
of devices are disjoint, that bounds are naturals, that of messages positive, that workers and identifiers are finitely
many, that a binding without a name is marked by none of the names, that the server
numbers its notebooks, each once, that what is dropped on a page is a sequence of files, that a notebook's file holds cells of the types the page knows, no more than the bound,
and that a benchmark has variants, a measurement a size, and no CPU backend a checkbox.

Only model-checked: all liveness (under fairness, which the prover does not reach), and the
overview charts of the benchmark pages (`ChartsAreMeasured`), whose rankings and bars are
sorted sets and folds over the results. It has a clause for each chart: lines, matrix cells, backend
bars and rankings against the measurements of what they name; the comparison's bars against the runs
at the size in its title, as often as each was measured; the speedup's points against
runs of the two variants at one size.

## Not modelled

The front end, the transformations and the emitters are sequential functions over
recursive data, where the repository has Rocq developments and golden tests; the
backends and the browser are external; CodeMirror, RequireJS, marked and
highlight.js are copies of other projects' libraries. The scripts that validate one
document against a schema keep no state.

Of the parts worth modelling the following are left: subvectors that share their
parent's storage, structure-of-arrays launches, streams, memory accounting and
finalizers, the on-disk cache, the creation of a device context by two domains at
once, the WebGPU runtime and `run_parallel_simple`. Of the notebook client, the
kernel's channels, the login page and the editor's own behaviour are
left. Of the review tools, inputs in older formats and a verdict deleted by hand.

## Plan

Done, in the order of importance: the caches, the pools and queues, the barrier
scheduler, the vectors; the review tools, the helper, the autopilot and the two
checks; the site's pages; proofs for the guarded cache, the kernel caches, the domain pool,
the barrier, the vectors, the launch queues with their pools, the review tools, the two checks
and the site's pages but for the overview charts.

What a next step would take:

1. Proofs about the overview charts, from the same lemmas on filters, rows and sorting.
2. The launch service for the domain pool, as far as concurrent launchers leave it.
3. Subvectors: several vectors on one storage, with `partition` and `gather`,
   extending `VectorLocation`.
4. `Device.get` with two creators, extending `KernelCaches`; the memory accounting
   with finalizers, against the table of buffers.
5. Pure algorithms on bounded inputs: the record layout of `Sarek_ir_layout.ml`, the
   access-pattern conditions of `Sarek_fusion.ml`.
