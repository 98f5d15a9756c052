# TLA+ models of the DECS assignments

The repository holds four small C systems: threads that add to shared counters
(`1_hello`), a reusable thread barrier (`2_barrier`), a race of threads that
take turns by condition variables (`3_race`), all three under
`src/assignment-2`; a shell (`src/assignment 1`); and a malloc package with a
driver that checks and measures it (`src/assignment-3`). This directory models
them in TLA+, checks the models with TLC and proves theorems about them with
TLAPS. This file lists the parts of the system, says what is modelled and what
the checks and proofs show, and names what is left out and why.

In the following, `2_barrier`, `3_race` and `1_hello` are the directories under
`src/assignment-2/PA2_2020/assignment-2-Final/PA2_2020/`, the versions handed
in. The files one level up (`src/assignment-2/PA2_2020/2_barrier`, ...) are
working copies: the same algorithms with debugging output. They are not
modelled separately.

## Inventory

### Hello threads (`1_hello/threads.c`, `1_hello/nlocks.c`)

- State: an `int counter` with one mutex; an array of ten cells with a mutex
  each.
- Operations: create, locked increment, join, print. Threads of `threads.c` add
  one each; thread *i* of `nlocks.c` adds a thousand to cell *i* while main adds
  a thousand to every cell in turn.
- Hard: `counter++` is a load and a store; main is one of the writers; the
  print must come after the joins.
- Correct when no increment is lost and the totals are what is printed.

### Barrier (`2_barrier/barrier.c`, `barrier.h`)

- State of a `barrier_t`: `count`, `thread_count_initial`, a mutex, a condition.
- Operations: `barrier_init`, `barrier_wait`.
- Hard: the barrier is reused while slow threads are still leaving the previous
  round; the broadcast must find all others blocked; `pthread_cond_wait` sits
  under an `if`, so a spurious wakeup is not noticed.
- Correct when nobody leaves a round before all have entered it, everybody then
  leaves, and this goes on round after round.

### Barrier clients (`2_barrier/barrier-testcase1.c` to `5.c`)

- State: an array, partial sums, loop counters, one to three barriers.
- They rely on the barriers in place of locks: unlocked reads of other threads'
  cells (1, 2 and 4), crossing order (3), alternating output with three threads
  on barriers for two (5).
- Correct when no unlocked read meets a write, the sums come out, output
  alternates, and all programs end.

### Race (`3_race/hare_tortoise.c`, `cs_thread.h`, `hare_tortoise_runner.c`)

- State: the race (speeds, distances, repositionings), `clock_tick`, the two
  distances, the Hare's sleep counter, the Randomizer's index, the winner; nine
  locks and nine conditions.
- Operations: `init` (main) creates the workers with a handshake each, then the
  Reporter; `Report` increments the clock and calls `Randomizer`, `Turtle` and
  `Hare` once per tick, each by a signal and a wait for the answer; at the end
  it signals each worker to exit. `cs_thread.h` wraps the pthread calls with
  assertions. The runner parses a file, calls `init` and compares the winner.
- Hard: a signal to a worker that is not in `cond_wait` is lost; workers test
  `no_winner` outside any lock; the Randomizer writes distances without their
  locks; ties, exact finishes, sleep period, repositionings out of order.
- Correct when the workers act in order once per tick, there is one winner, at
  the finish, each repositioning is applied at its time, and the program ends.

### Memory system simulator (`src/assignment-3/PA_3_handout/memlib.c`)

- State: heap start, break, limit. Operations: `mem_init`, `mem_deinit`,
  `mem_reset_brk`, `mem_sbrk`, `mem_heap_lo`, `mem_heap_hi`, `mem_heapsize`.
- Hard: the limit, the wrap of an addition of pointers and sizes.
- Correct when the break stays within the heap and blocks do not overlap.

### Allocator (`mm.c`; `mm1.c` and `mm2.c` are the same text)

- No state of its own: every `mm_malloc` moves the break. `mm_free` does
  nothing, `mm_realloc` allocates anew.
- Hard: the size, a `size_t`, is rounded up and handed to `mem_sbrk` as an `int`; the failure of `mem_sbrk` is not
  told from a pointer; `mm_realloc` copies nothing.
- Correct when blocks are aligned, disjoint, inside the heap, and keep data.

### Malloc driver (`mdriver.c`, `config.h`)

- State: the trace, the memory of the heap, the list of ranges of live blocks, per-id block pointers and
  sizes, statistics. Operations: `add_range`, `remove_range`, `clear_ranges`,
  `read_trace`, `eval_mm_valid`, `eval_mm_util`, `eval_mm_speed`, the libc
  counterparts.
- Hard: what an overlap test sees and what it misses; a failing operation in the
  middle of a trace; the high-water mark.
- Correct when an allocator that breaks the rules is rejected and one that keeps
  them is accepted.

### Timing package (`fcyc.c`, `fsecs.c`, `ftimer.c`, `clock.c`)

- State: the k smallest samples, the sample count. Operations: `init_sampler`,
  `add_sample`, `has_converged`, `fcyc`.
- `config.h` sets `USE_GETTOD`, so the program never samples: `fsecs` calls
  `ftimer_gettod`, which calls `eval_mm_speed` ten times between two readings of
  the clock. Only that is part of the running program.

### Shell (`src/assignment 1/myshell.c`)

- State: the processes, their descriptors, the pipe, the children started for a
  `;`, the handling of SIGINT and SIGTERM. Operations: tokenizing, redirection,
  `executeCommand` (with and without a pipe), `commaChecker`, the main loop with
  `executeCommands <file>`.
- Hard: the first command of a pipe is waited for before the second exists;
  descriptors that stay open; two children reaped in any order by waits that take
  any child; signals while children run; two redirections in either order, split
  by nested calls of `strtok`.
- Correct when the prompt comes back after every line, with its children reaped,
  each command connected as the line says, and no descriptor left open. The last
  does not hold, and the first not for every line: see "What the shell's run
  shows".

### CPU usage tool (`src/assignment 1/checkcpupercentage.c`)

Reads `/proc` and prints a ratio. It keeps no state and is not modelled.

## Modules

| Module | Models | Extends / uses |
| --- | --- | --- |
| `AbstractBarrier` | what `barrier_wait` promises: enter and leave, round by round | |
| `Barrier` | `barrier.c`, statement by statement, to be conjoined with a client | |
| `BarrierRounds` | a group that calls one barrier a number of times; properties, `IInv` | `Barrier`; `AbstractBarrier` by INSTANCE |
| `BarrierRounds_proofs` | theorems on `BarrierRounds` | |
| `BarrierPrograms` | `barrier-testcase2.c` (and 1, its first part), `barrier-testcase4.c` and `barrier-testcase5.c` | four INSTANCEs of `Barrier` |
| `BarrierPrograms_proofs` | theorems on `BarrierPrograms` | |
| `RaceRules` | what the workers do with the shared data, one after the other | |
| `RaceNaps` | `RaceRules` with a history variable, the tick in which the Hare last fell asleep | `RaceRules` |
| `RaceRules_proofs` | theorems on `RaceRules` and `RaceNaps` | |
| `CsThread` | `cs_thread.h` | |
| `Race` | main, workers and Reporter with their locks and conditions | `RaceRules`; `CsThread` by INSTANCE |
| `Race_proofs` | theorems on `Race` | `RaceRules_proofs` |
| `Hello` | `threads.c` and `nlocks.c` | |
| `Hello_proofs` | theorems on `Hello` | |
| `MemLib` | `memlib.c`: the break of the simulated heap | |
| `Allocator` | `mm.c` | `MemLib` |
| `Driver` | `mdriver.c`: main, `eval_mm_valid`, `eval_mm_util`, `eval_mm_speed` as `fsecs` repeats it, the range list, and the package under test | `Allocator` |
| `Driver_proofs` | theorems on the range list and on the break of `mm.c` | |
| `DriverData_proofs` | theorems on what blocks hold, on verdicts, utilization and types | `Driver_proofs` |
| `CommandLine` | the parser of `myshell.c`: `;`, `\|`, redirections, quotes | |
| `Shell` | `myshell.c`: main, `commaChecker`, `executeCommand`, the handlers, over processes, descriptors and pipes | `CommandLine` |
| `Shell_proofs` | theorems on the processes of `Shell`: their children, types, descriptors and pipes | |
| `MCBarrierRounds`, `MCBarrierPrograms`, `MCRaceRules`, `MCRace`, `MCHello`, `MCDriver`, `MCShell` | values for TLC | |

Operators whose comment begins with "Mutation:" are not part of the model: each
is a definition of the module changed the way a plausible bug would change it.
`PROJECT.json` names, for every property of every passing run, the mutation that
makes TLC refute it.

### Correspondence with the code

*Barrier.* One action per statement of `barrier_wait`: `Lock`, `Decrement`, the
test with its two branches `Wait` and `Broadcast`, `Reset`, the return of
`pthread_cond_wait` (`Reacquire`), `Unlock`. `stage[t]` is the statement thread
*t* is at, `m_lock` the holder of the mutex. The blocked threads are those at
stage "waiting", those that a broadcast has woken and that want the mutex back
are "signalled". With `SpuriousWakeups` a blocked thread may be woken at any
time, as POSIX allows. In `BarrierRounds`, `entered[t]` and `left[t]` count the
calls begun and returned; a call begins with its lock. What a client does
between calls is left out there and modelled in `BarrierPrograms`; sleeping and
wording of output are left out. The threads of `BarrierPrograms` run lists of
statements, one list per thread and program; the loop of `barrier-testcase5.c` is
written out by `Repeated`. `ReadCell` is one turn of the loop in which thread 0 of
`barrier-testcase2.c` reads the cells, and `Clear` what comes before the loop. What
the elements of a quarter of the array of `barrier-testcase4.c` come to is the
constant `Quarter`; the numbers of threads and of turns are the constants `NTHREADS`
and `Loops`.

*Race.* `RaceRules` has the code between `cond_wait` and `cond_signal` of each
worker as one step, in the order in which the Reporter calls them. `Place` is
the clamp to start and finish with the announcement of the winner that all three
workers contain. `RaceNaps` remembers when the Hare fell asleep, which the program
does not, to say how long it sleeps; no action reads it. `Race` has every call of `cs_thread.h` as a step, in the order
of the source; `pc[t]` is the thread's statement. The sections of `reporter_lock`
and of the two distance locks are one step each: they contain no wait, and
`SerialActors` shows that no two workers are in one at the same time while the
race goes on. The variables `turn` and `lost` record history and are not in the
code: no guard of `Race` reads them. Printing, and with it `printing_delay`, is
left out. Distances and clock are unbounded integers: a `long int` does not
overflow in a race whose finish and repositionings are far from its limits.

Wakeups of `pthread_cond_wait` that nobody has signalled are modelled for the
barrier only: in the race, whose turns rest on each wakeup being a signal, they
are left out.

*Malloc lab.* Addresses and sizes are numbers below `Word` (2^32 in the program,
which is built with `-m32`), so that the sums in `mm_malloc`, `mem_sbrk` and
`add_range` wrap as they do there. One step of `Driver` is one request of a trace:
the call of the package, `remove_range`, `add_range`, the comparison of the bytes
and the `memset` of `eval_mm_valid`, the call and the sums of `eval_mm_util`, or
the bare call of `eval_mm_speed`.
`message` tells the outcome of the checks, `held` the blocks the package has given
out and not got back, which no guard of the driver reads. The bytes of the heap
are part of the state and survive `mem_reset_brk`, as in the program. Three kinds
of package are under test: `mm.c` as it is; "good", any package that moves the
break as it likes, gives out aligned disjoint blocks of the heap or NULL and
copies the data on a reallocation; and "any", which answers any address and
copies or does not. The last two stand for the students' packages the driver is
made for and are not in the repository. A trace is well-formed, as those of
`traces/` are: an id is allocated before it is reallocated or freed, and sizes
are positive. `InitFails` is the branch of the three `eval` functions for an
`mm_init` that answers -1: a rejected trace in `eval_mm_valid`, the end of the driver
in the others. `mm_init` of `mm.c` never does.

*Shell.* `CommandLine` has the parser as operators on a text that is a sequence
of tokens (the signs, blanks, runs of other characters); `strtok` and `strsep` are
what they are documented to do, so that leading signs are skipped, and the empty
string, which they never return, stands for NULL. In `Shell` a process is a record
of where it is in the code (`at`), what it was given and has parsed, its
descriptors 0 and 1 and the pipe ends it holds besides, its directory, and the
questions of the SIGINT handler it has yet to answer. `fork` copies the record,
with the descriptors; `exec` is the step to "program"; `exit` leaves a zombie,
gives the children to init and thereby closes descriptors; `wait` takes any dead
child, and fails at once where there is none. A step of a process is what it does
between two calls that may block or that another process can observe: in
`executeCommand` these are `fork` and `wait`, in a child the reading of a word and
`exec`. Programs are described by whether they read their input to the end and how
much they write. What is typed at the prompt is a script. The SIGINT handler reads
its answer from descriptor 0. That is the terminal for most processes, and what is
typed there is any answer and goes to any of those that ask; in a child after `dup2`
it is a file or the pipe, from which the handler takes any part, or finds its end, and
no user answers. A word read before `exec` takes any part of the pipe too, as a
buffered `scanf` does. What the handler prints, descriptor 1 of such a child being a
pipe, is not counted in the pipe's contents.
`CommandsOf` and `PiecesOf` are tables of the parser's results for every text of the
scripts. Left out are arguments after the first, the text that is printed,
directories other than as names, the end of the terminal's input and the reuse of
the number of a shell that has ended. A NULL that `strcmp` reads (a redirection to
blanks) ends the process, and the descriptor whose number `myshell.c:829` never set
is any of those the process has. Reads of the unterminated line (`myshell.c:1000`)
are undefined behaviour that depends on the heap and are left out.

*Hello.* `visits[t]` lists the cells thread *t* adds to, in order, so that one
module has both programs; `Lock`, `Load`, `Store` and `Unlock` are one addition.

## Runs

| Run | Question | Answer |
| --- | --- | --- |
| `barrier_rounds` | Does the reused barrier keep a group in step, lose no wakeup, let everybody through, and implement the abstract barrier? | Yes (4 threads, 4 rounds) |
| `barrier_spurious` | What survives spurious wakeups? | The counter: its value is exactly what the calls made give it, so no decrement and no reset is lost (3 threads, 3 rounds) |
| `barrier_early_crossing` | Does the claim of `barrier-testcase3.c:32` survive them? | No: a thread crosses alone |
| `barrier_programs` | Are the unlocked reads of `barrier-testcase2.c` and `4.c` safe and their sums right; do the three threads of `barrier-testcase5.c` alternate, pair up; do all end? | Yes (four threads for `2.c`, otherwise the programs' own threads, barriers and iterations) |
| `race_rules` | Is there one winner, at the finish; which repositionings are applied; how long are the naps; does the race end? | Yes; those in order of time, in their tick, and none behind the first that is not; exactly `hare_sleep_time` ticks; yes |
| `race_sample` | Does the winner an input file names win (`Testcases/test_format.txt:21`)? | No: in the sample race the Turtle does |
| `race_threads` | Do the threads use their locks, take turns and follow the rules, and when does the program end? | They do; it ends exactly when no signal is lost |
| `race_turtle` | Does the Turtle perform in every tick (`hare_tortoise.c:308`)? | No: a lost signal stops it and the Reporter |
| `hello` | Is any increment lost, are the totals printed, does main print? | None is, they are, it does |
| `driver` | Does the range list follow the trace whatever the package answers; which overlaps are found; does a correct package keep its data and pass; what does `mm.c` fail at; is utilization at most one? | Yes; every overlap but that of a block around an earlier one; yes; only at data lost by `mm_realloc` and at requests the heap has no room for; yes |
| `driver_signed_byte` | Is a correct reallocation always accepted (`mdriver.c:649`)? | No: not for ids whose low byte is 128 or more |
| `shell` | Is every child reaped before the next line; is a command connected as its line says; which descriptors stay open; which lines end, and which hang? | Yes; yes, but for a second `checkresidentmemory`, which may have lost one of the two; the reading end of each pipe whose first command writes a file; all but those whose first command writes more than the pipe holds |

### Findings

- `barrier_early_crossing`. The wait is under an `if` (`barrier.c:24`), so a
  wakeup without a broadcast is taken for one, and a thread leaves the barrier
  before others have called: the error message of `barrier-testcase3.c:32`.
- `race_turtle`. The Reporter signals a worker that may not yet be back in
  `cond_wait`, and then waits for its answer: both wait for ever. `race_threads`
  shows that lost signals, in a tick or at the end of the race, are the only way
  for the program not to end.
- `race_sample`. The sample race of `Testcases/test_format.txt` (lines 11 to 21)
  names the Hare; by the code the Turtle wins it in tick 69, 990 to 990 before its last
  step. `hare_tortoise.c:182` resets the sleep counter behind the `if` that looks at the
  lead, so that the Hare sleeps after each look, also when it has moved and has no lead;
  by the comments of lines 20 to 22 it sleeps when its lead is too large. With the reset
  in an `else` the Hare wins the sample in tick 68, and the three test files still give
  the winner they name, as they do now: none of them tells the two apart.
- `driver_signed_byte`. `newp[j]`, a signed `char`, is compared with
  `index & 0xFF`, an `int` (`mdriver.c:656`). No trace of `traces/` reallocates an
  id whose low byte is in the upper half, so the rejection does not show there.

Two more are met by the properties that hold, which say how far the code goes:

- `add_range` looks for the two ends of the new block in the live ranges
  (`mdriver.c:409`) and never for a live range in the new block: a block around a live
  one passes, although the comment at `mdriver.c:407` says that payloads must not
  overlap. `NoPartialOverlap` therefore allows it, and nothing else.
- `Randomizer` looks at one entry of the array in a tick and asks for the exact time
  (`hare_tortoise.c:236`). Of two entries with one time only the first is applied, and
  nothing behind it ever; so it is with an entry out of order. `AppliedInOrder` says
  exactly which entries are applied, for every array.

And one is left outside of the bounds. `mem_sbrk` (`memlib.c:62`) compares the break
with the limit after an addition that wraps. A request that takes the break exactly to
the end of the addresses makes it zero, which passes; `mem_heap_hi` is then the last
address, so the driver accepts a block that lies outside of the heap, against
`mdriver.c:398`, and fills it. What the program does when it writes there is not
modelled, and the traces ask for less or for more: `Wraps` takes the break to an
address behind zero, which is noticed. A positive `int` can be that large when the
heap lies in the upper half of the addresses.

### What the shell's run shows

Two of its properties say exactly how far the code's promise goes. `LineEnds`: the
prompt comes back after every line, whatever is forked, fails or is interrupted,
as long as no first command of a pipe writes more than the pipe holds.
`HangsForGood`: a runner whose first command waits for room in the pipe stays there
until a signal comes, for the command that would read is forked only after the wait
at `myshell.c:674`. `DescriptorsKept` does the same for descriptors: after a line
`a > file | b` (and after no other) one reading end stays open, because the branch
at line 685 that would fork `b` and close it is not taken.

`ConnectedAsWritten` compares what parser, `dup2` and `open` make of a line with a
reading of the line that knows nothing of `strtok`. It also fixes what is easily
taken for granted: a file that cannot be opened leaves the command on the terminal,
even behind a pipe.

### Bounds

Every bound is a CONSTANT, an input set of an MC module or a CONSTRAINT.

- Barriers: four threads and four rounds let a thread be a whole round behind
  (signalled, but without the mutex) while others finish the next round and a
  third group is blocked in it; the proofs cover every group and every number of
  rounds. Three threads suffice for the spurious run: one sleeps, one wakes, one
  is late. `BarrierPrograms` has the sizes of its programs;
  only `barrier-testcase2.c` has four threads in place of a thousand, three of which
  are alike, and the proofs cover every number of them. The quarters are 1, 10, 100
  and 1000, so that a sum tells what it is made of.
- `RaceRules`: all arrays of at most two repositionings over times {0, 1, 3} and
  distances {-9, 2, 9}, on a course of length 5: a move within the course, one
  to each end, in order, out of order, at one time, and after the race; hare
  speeds 0 to 3, sleep times 0 to 2, leads 0 and 2. The input files run with their
  own numbers: the three test files in `race_rules`, with the sample race in
  `race_sample`.
- `Race`: six races, so that each of the three workers makes the winning move in
  the first or a later tick.
- `Hello`: three threads, two rounds of `nlocks.c` in place of a thousand.
- `Driver`: a heap of eight bytes at address 40 of 64, alignment 2: room for two
  or three blocks, so that the heap gets full, freed addresses are used again and
  blocks meet at their ends; a request larger than the heap, one that is negative
  as an `int` and one that wraps the break. Traces of three to six requests are run
  in twos and threes, so that a trace meets the memory the last one has left.
  `Answers` (what "any" answers) holds NULL, -1, every heap address and one on
  either side; `Increments` (how far a package other than `mm.c` moves the break
  in a call) is 0 or half the heap. `ByteSize` 8 keeps the ids of `driver` below
  half of it, where the comparison of `char` and `int` is right; with `ByteSize` 4
  `driver_signed_byte` has an id above. `Repeats` is 2 in place of 10: the second
  call of `eval_mm_speed` starts from what the first has left, as all later ones do.
- `Shell`: a pipe holds 2 and programs write 1 or 3, so that they fit or do not.
  Five process numbers let both halves of a `;` line fork a pipe's command each, and
  run out when orphans of an earlier line are left, so that `fork` fails. Two ^C reach
  a process twice, and a process and its child. Four pipes are more than are open at a
  time. The scripts have every combination of no, good and bad files for `<` and `>` in
  both orders, with and without quotes and blanks, for every kind of command, alone and
  on either side of a pipe; and sessions of one to seven lines with `;`, builtins in a
  sub-shell, descriptors lost several times, a file of commands, and empty, unfinished
  and illegal lines.

### Fairness

Liveness is checked under weak fairness of each thread (each of its steps, or
its steps together): the operating system schedules a thread that can run. A
mutex may be handed to others first, but not for ever: in the barrier programs
and in `Hello` every thread makes finitely many calls, so a thread that wants
the mutex can in the end get it in every state from then on; in `Race` the
Reporter waits for each worker before it goes on, so no lock is contended
without end. A spurious wakeup is owed to nobody. `RaceRules` needs only that
the next part of a tick comes. `BarrierRounds` implements the abstract barrier
with its fairness: all of a group's calls are begun and returned.

In `Shell` every process is scheduled, main's part of the shell and each command
alike, and the user answers the handler's questions; no line is owed by the user,
and no signal. In particular `LineEnds` does not count on interrupts to end a
command.

`CHECK_DEADLOCK FALSE` is given for `Shell`, which stops when the shell is left or
has read all of its script, and for `Race`, where the program may stop: after
main has returned, and when a signal was lost. The programs elsewhere stutter
in an action of their own (`Exit`) once they have ended, so that TLC's deadlock check
remains meaningful.

## Proofs

| Theorem | States |
| --- | --- |
| `BarrierRounds_proofs!Invariance` | `IInv`, without spurious wakeups |
| `BarrierRounds_proofs!TypeCorrect` | `TypeOK`: the counter stays between 0 and the group's size, also with spurious wakeups |
| `BarrierRounds_proofs!CountTellsCallsHolds` | the counter is exactly what the calls made leave of it, also with spurious wakeups: no decrement and no reset is lost |
| `BarrierRounds_proofs!LockstepHolds` | `Lockstep` |
| `BarrierRounds_proofs!NoStrandedWaiterHolds` | `NoStrandedWaiter` |
| `BarrierRounds_proofs!Refinement` | `SafeSpec` implements `AbstractBarrier!SafeSpec` |
| `BarrierPrograms_proofs!Invariance` | `IInv` of that module |
| `BarrierPrograms_proofs!TypeCorrect` | types; no sum exceeds what there is to add |
| `BarrierPrograms_proofs!ReadsSettledHolds` | no unlocked read of `barrier-testcase2.c` and `4.c` meets a write, and what is passed on is complete |
| `BarrierPrograms_proofs!TotalExactHolds` | the sums come out |
| `BarrierPrograms_proofs!AlternationHolds` | the players of `barrier-testcase5.c` print in turn |
| `BarrierPrograms_proofs!MainOpensOnlyHolds` | main's call of `b1` meets the first call of thread 1 |
| `RaceRules_proofs!RulesTypeCorrect`, `WinnerAtFinishHolds` | nobody leaves the course; one winner, at the finish |
| `RaceRules_proofs!AppliedInOrderHolds` | repositionings are applied in their tick as far as the array is in order, and no others |
| `RaceRules_proofs!NapLengthHolds` | every nap takes exactly `hare_sleep_time` ticks |
| `Race_proofs!TypeCorrect` | types of the threads' data, locks and conditions |
| `Race_proofs!LocksOwnedHolds` | who holds which lock at which statement; no assertion of `cs_thread.h` fails |
| `Race_proofs!SerialActorsHolds` | two workers are never in their sections at once while the race goes on |
| `Race_proofs!FirstCallHeardHolds` | no worker misses its first call |
| `Race_proofs!FollowsRulesHolds` | every step of the threads is one of `RaceRules` or a stutter |
| `Race_proofs!ThreadsKeepRules` | hence the theorems of `RaceRules_proofs` hold of the threads |
| `Hello_proofs!NoUpdateLostHolds` | every cell holds the number of additions stored |
| `Hello_proofs!TotalsPrintedHolds` | main prints the totals |
| `Driver_proofs!NoPartialOverlapHolds` | of two ranges the younger is clear of the older or around it |
| `Driver_proofs!RangesAreLiveHolds` | the range list has the ranges of the live blocks, each once, and no others |
| `Driver_proofs!MmBlocksDisjointHolds` | blocks of `mm.c` are aligned, disjoint, below the break, in the check and in all later runs |
| `DriverData_proofs!DataKeptHolds` | live blocks of `mm.c` and of every correct package keep their bytes |
| `DriverData_proofs!AcceptsCorrectHolds` | a correct package is found at fault for nothing but a failure of its own |
| `DriverData_proofs!MmServesWhatFitsHolds` | what `mm.c` is rejected for |
| `DriverData_proofs!UtilizationAtMostOneHolds` | the high-water mark is at most the heap's size |
| `DriverData_proofs!TypeCorrect` | types of the driver's data |
| `Shell_proofs!ChildrenCounted` | no process has more children than calls of `wait` to come |
| `Shell_proofs!NoChildLeftHolds` | at the prompt, all children of earlier lines are reaped |
| `Shell_proofs!TypeCorrect` | types of the shell's processes, descriptors and pipes |
| `Shell_proofs!HangsForGoodHolds` | a runner whose first command waits for room in the pipe stays there until a signal comes |
| `Shell_proofs!PipesSuffice` | with unbounded pipes there is always one left, the hypothesis of the two before |

**Assumptions.** `GroupAssumption`: a finite, non-empty group, and `nthreads`
its size. `Invariance`, `LockstepHolds`, `NoStrandedWaiterHolds` and `Refinement`
assume `~SpuriousWakeups` besides; the run `barrier_early_crossing` shows that the
second is false without it. `ProgramsAssumption`: threads are numbers and "nobody" is
none of them, there is at least one thread in the array test and one turn in the game,
and quarters come to natural numbers; its programs run without spurious wakeups.
`RacesAssumption`:
speeds and sleep time are natural numbers, and the finish is ahead of the start
(the code does not check its input). `RaceAssumption`: "nobody" is not a thread.
`HelloAssumption`: a number of threads, and for each a finite list of cells.
`ShellAssumption`: init is not one of the processes, the pipe has room, files and
pipes have different names, a script is a sequence of lines of tokens, a program
writes a number of times; scripts, programs, pipes and process numbers are any.
`TypeCorrect` and `HangsForGoodHolds` of `Shell_proofs` assume `PipeLeft`
throughout the run: some pipe has no open end. `myshell.c` does not look at whether
`pipe` has failed, and what it does then is not modelled. `PipesSuffice` derives it
from `~IsFiniteSet(Pipes)`: it is a matter of the bound alone, of which a line
`a > file | b` uses up one.
`MemLibAssumption`: the heap begins aligned, not at address 0, and ends before the
addresses do, which `malloc` sees to in `mem_init`. `DriverAssumption`: requests are
for at least one byte and positive as an `int`, the type they are read with.

The theorems on the driver are about every list of traces, and say what they need of
it. `WellFormed`: an id is allocated when it is not live, and freed or reallocated
when it is; so are all of `traces/`. `SmallRequests`: no request is larger than the
address of the heap, so that the upper end of a range, an address computed at
`mdriver.c:384` before it is tested, does not wrap around to below its lower end.
`Unwrapped`, of requests to `mm.c` only: the end of the heap and one rounded request
lie below 2^32. Without it `mem_sbrk` can set the break to a small address; a request
that takes it to exactly 2^32 even passes the driver, for `mem_heap_hi` is then the
last address. `NoWrap` is the same of the moves of the break other packages make.
`LowIds`: the ids a correct package is made to reallocate are ones a signed `char`
can tell, as in all of `traces/`; `driver_signed_byte` shows that `AcceptsCorrect`
is false without it. The traces of the run `driver` satisfy all of these, but for
`Negative` and `Wraps`, which are there to break `Unwrapped`: for those the
properties are only model-checked.

**Barrier.** `Lockstep` is not inductive: it does not say why the counter can
only reach zero when everybody has called. `IInv` does. `MutexHeld`: a thread is
between lock and unlock exactly while it holds the mutex. `CountMissing`: the
counter is the size of the group less the threads that have decremented it in
this round (a cardinality; its lemmas come from `FiniteSetTheorems`).
`ResetAlone`: from the broadcast to the reset everybody else is on the way out.
`RoundsAgree`: there is a number *g* of complete rounds, and each thread's stage
tells where it is relative to *g*. The broadcast moves everybody from one round
to the next at once, which is the witness *g + 1*; the refinement follows since
a thread that returns from round *g* sees everybody entered *g* times. With spurious
wakeups none of this is left but the counter: `SpuriousIInv` says that it is zero only
between a decrement and a reset made under one hold of the mutex (`ZeroHeld`), that
the calls begun and not returned are those of the threads inside (`CallsAgree`), and
that the counter is exactly what the set of calls that have decremented it leaves of
the group that is filling, zero only until the call that fills it has restored it
(`CountTellsCalls`). One call more changes the remainder as it changes the counter
(`CallMore`).

**Barrier clients.** The invariant has two layers. `Books` is about one `barrier_t`
and says nothing of who calls it or how often: the mutex is held exactly between lock
and unlock, the counter is what is missing of the group, and it is zero only while
the last caller has yet to wake the others or to restore it. It is kept by every step
of a call (`BeginsBooks` to `EndsBooks`), whatever the client does, and it is all that
is used of the code of `barrier_wait`: to its client a step of a call
`Enters`, `Stays`, `Completes` a round, or `Leaves`, and a round that completes has
as many arrived threads as the barrier was made for (`WithinEffect`). The second
layer is per program: where a thread may be inside which barrier (`ArrayPlaces`,
`SumsPlaces`, `GamePlaces`), how many rounds each has seen complete, from its
statement and whether it is on its way out (`ArrayRounds`, ...), and what cells and
sums hold at each statement. The round of a barrier for *n* is complete only with
*n* arrived threads, and there are no others whose place allows it
(`CompletesAll`, `PairCompletes`), so all that use it see it complete at once. In the
array test the readers follow: when thread 0 reads it has seen round 1, or 3, so
everybody has, and is before its next write (`ArrayReading`). In the game three
threads share `b1`, a barrier for two. `GameRounds` says that thread 1 has seen one
round more of it than thread 2, which is the one main has seen; until thread 1 has
seen that one, thread 2 cannot be at `b1`, since it comes there through `b2`, where it
needs thread 1 (`GameFirst`). Lines are counted by `EveryThird`, a bijection between
the turns and the statements that print.

**Race rules.** `WinnerCorrect` proves types and `WinnerAtFinish` together:
before there is a winner both distances are below the finish, and `Place` is the
only way to change them. `AppliedInOrder` needs `AppliedSoFar`, which says the same
in every part of a tick: the entries applied are exactly those that have none out of
order up to them and a time up to the last tick the Randomizer has seen. `NapLength`
needs `NapSoFar`: the counter is the number of ticks in which the Hare has had its
turn since it fell asleep.

**Hello.** `IInv` adds to the types that a thread within its section holds its
cell's mutex and nobody else does (`MutexHeld`), that the value it is about to
store is based on the current one (`ValuesCurrent`), and that the cell is the
cardinality of the set of additions stored (`NoUpdateLost`): a store adds exactly
one element to that set.

**Race.** The threads share data that `hare_tortoise.c` reads and writes outside its
locks; that this does not matter is what is proved. `IInv` of `Race_proofs` says, of
each lock, who holds it and at which statement that thread is (`Owned`); of each
condition, who can wait there (`WaitSets`); what main knows of a worker between
creating it and letting it go (`Handshake`): once main has its condition's lock, the
worker has called `cond_wait` or holds the lock on its way there (`Ready`); that the
workers the Reporter has yet to call in the first tick are still ready (`FirstTick`);
and that a worker is between its wakeup and its answer only if the Reporter has
called it and waits for the answer (`Calls`), until the Reporter has seen the end of
the race. From the last follow `SerialActors` and, since what a worker has read
cannot change before it acts (`TimeRead`, `TurnAgrees`), the refinement: a worker's
action is the step of `RaceRules` whose turn it is, everything else a stutter.
After somebody has won, workers woken late change nothing (`no_winner` is 0).

**Range list.** `Kept` says of any two ranges, the younger nearer the head, that they
are disjoint or the younger is around the older: `add_range` tests no more. `Lists`
adds that the list and the live ids correspond one to one. The uniqueness needs
`Kept`: two ranges with one lower end cannot both be in the list, so that
`remove_range`, which takes the first with that end, takes the right one.

**Allocator.** That the blocks of `mm.c` are disjoint (`Tidy`) holds in
`eval_mm_valid` because a failing `mem_sbrk` is found out at once, the pointer -1
lying outside of the heap. `eval_mm_util` and `eval_mm_speed` look at no pointer; but
they make the same calls from the same break. So the invariant is that the break
follows the course it took in the check (`Course`, a sequence of breaks that exists
for the whole trace once it has been checked to the end). The same course gives what
was asked for up to a request, hence `MmServesWhatFits`.

**Data and utilization.** `Filled`: the live ids have disjoint blocks of the heap,
which are among those the package has given out and not got back, and each has its
byte everywhere. `total_size` is the cardinality of a set with one element per live
byte (`Units`), in place of a sum; it is at most the size of the heap below the break
as there is an injection into those addresses.

**Shell.** `NoChildLeft` is about one process at one place. Its inductive form,
`Table`, is about all of them at every place: a process has at most as many children
as there are calls of `wait` on its way (`MayHave`), every parent is in the table or
init, and the shell itself is nobody's child. `wait` takes any child, so no more than
the number is known. `Fork` takes any number that is free.

**Pipes.** `HangsForGood` is about two steps, but that nobody gets the first command
out of its wait rests on who may be at the other end of the pipe, in all reachable
states. `Fine` says it of any two processes. `Good`: only a second command reads from
a pipe, only a first one writes to one, and it is the pipe of its line; who has yet to
use the reading end still holds it, so that `NewPipe` does not give that pipe again.
`Apart`: while a runner waits for its first command no other runner's pipe is the
same, and no process reads from it or is about to. `Paired`: the child it waits for is
the one that writes to it. From these, `Stuck` has what a step could disturb: `Waited`
has no outcome for the runner, whose only child (by `Table`) lives; the child has no
question of the handler open, so it can only write, and there is no room; the content
is changed by nobody else. What ends, forks or waits elsewhere does not change the two
(`BlockedEnded`, `BlockedForked`, `BlockedWaited`, `BlockedReturned`).

**Only model-checked.** Liveness (that every call returns, that somebody wins, that
programs end, that the prompt comes back). Of the shell, what the parser makes of a
text (`ConnectedAsWritten`, `DescriptorsKept`): that parser is a cascade of folds over
sequences, and what a fold computes for every sequence needs induction over data.

## Not modelled

Not modelled at all: parsing of input files and of program options, the layout of
output, `checkcpupercentage.c`, the clocks, cycle counters and interval timers of
the timing package, its k-best sampler (`fcyc.c`), which this configuration never
calls, the libc counterparts of the `eval` functions, which nothing but the option `-l`
calls, failures of `pthread_create`, which end the program, and of `pipe`, which
`myshell.c` does not look at. The working copies of assignment 2 are earlier
versions of the programs that are modelled.
