# mikuOS, specified

mikuOS is a small Unix-like system in TypeScript. *Thistle* is its kernel: processes,
descriptors, signals, a virtual file system, a terminal, a shell and a persistent root, all on
one JavaScript thread. *Teto* is a second kernel, compiled to WebAssembly, that executes RV64
programs for Thistle: several workers may share its memory and run its table of harts.

This directory holds TLA+ models of those parts, the TLC configurations that check them and
proofs about them. Paths below are relative to the repository (`src/src/...`).

## The system's parts

| Component | State | Operations | What is hard | Must hold |
|---|---|---|---|---|
| **Teto hart scheduler** `teto/kernel.ts` | lock words, hart status and event, program counter, cursor, `C_ACTIVE_WORKERS` | scheduler batch, direct batch, resume of a system call or a host write, exit of a hart | workers interleave at every shared word; locks are tried, never waited for; the status is read before the lock | one worker per hart, no instruction lost or repeated, one owner per request, exits final, nobody starves while a worker goes on |
| **Teto guest memory** `teto/kernel.ts` | frames, page tables, anonymous mappings, break, image arena | first touch, mmap, munmap, mprotect, mremap, brk, image reserve and release | frames run out or their lock is taken in the middle of an operation; two owners (Teto and the RV64 bridge) of one address space | regions apart, fresh memory reads zero, failed operations leave no trace |
| **Teto image loading** `teto/loader.ts`, `thx.ts`, `start.ts`, `provider.ts` | image arena, segments, initial stack | parse, copy, start | a lock kept over host calls | sections apart, entry executable |
| **Teto file mirror** `teto/vfs.ts`, `vfs-host.ts` | append-only inodes and entries | load once, resolve, open, read | capacity | resolution equals Thistle's |
| **Streams and descriptors** `io/stream.ts`, `core/sys.ts`, `core/kernel.ts`, `vm/rv64.ts` | hold counts of pipes, descriptor tables, queued chunks, waiting reads | pipe, dup, open, close, start, vfork, execve, exit, read, write | a pipe does not know its descriptors: every path must hold and release alike | counts exact, pipes end, no lost wakeup, order |
| **Processes, signals, jobs** `core/proc.ts`, `sched.ts`, `kernel.ts`, `sys.ts`, `sh/shell.ts` | process table, state, code, signal, mask, groups, jobs | start, exit, sleep, yield, wait, reap, kill, mask, setuid, fg, ^C | an entry ends while its body runs on; a signal can come before the file is loaded | statuses final and truthful, nothing forgotten, the prompt returns |
| **RV64, THX machines and WASI** `vm/*.ts`, `wasm/wasi.ts` | registers, mappings, vfork table, read buffers | decode, system calls | buffers by descriptor number; vfork played by one process | as the kernel calls they make |
| **Shell** `sh/shell.ts`, `lex.ts`, `history.ts`, `prefs.ts` | variables, jobs, foreground group, gates | parse, expand, units, pipelines, jobs | background commands and ^C at the same time | see processes |
| **Line editor** `sh/editor.ts`, `keys.ts` | line, cursor, search, kill ring | key bindings | keys while a command runs, a second editor inside a program | who gets a key; text editing |
| **Terminal** `io/tty.ts` | termios, line, queue, waiting reads | input, read, ioctl, interrupt, reset | ^C while a program waits or does not; modes left by a program; readers in the background | keys in order, modes restored, ^C wakes, ends are typed |
| **Virtual file system** `fs/vfs.ts`, `tree.ts` | nodes, names, links, bytes used, lazy sources | open, write, link, rename, remove, chmod, materialise | capacity rollback by hand; lazy files read across awaits | tree shaped, accounted, rolled back |
| **Credentials** `core/cap.ts`, `identity.ts` | real, effective, saved ids, groups | setuid family, access checks | set-ID images | no gain without set-ID |
| **Persistence** `main/boot.ts`, `dir.ts`, `webtree.ts`, `fs/tree.ts` | saved tree, manifest, blobs, chained flushes | dump, load, save, flush | crash between two files; saves that overlap | what a whole save wrote is what the next start shows; an unfinished one leaves only what some save wrote |
| **Sessions and boot** `main/boot.ts`, `session.ts`, `websession.ts`, `web.ts`, `cli.ts`, `server.ts`, `image.ts` | chain of commands, login supervisor, live image | boot, command, save, login, migrate | commands typed ahead of a save, a shell in the shell | what is entered is run; one session per terminal |
| **Network** `net/net.ts`, `apps/net.ts` | a request's timer and abort | request, redirect | timer, signal and answer race; a signal before the request | a request ends; allowed URLs only |
| **Formats and tools** `elf/`, `teto/thx.ts`, `tool/`, `apps/asm.ts` | none | translate | none | byte formats |
| **Applications, configuration, packages** `apps/`, `core/config.ts`, `main/pkg.ts` | none of their own | system calls of the kernel | none | (their kernel calls) |

How they interact: the shell starts processes through `Sys`; `Kern.start` puts a microtask in
`Sched`; the process runs an application, a shell, or a virtual machine (`Rv64`, `Vm64`, `Vm`,
`Wasi`) which calls `Sys` for each of its system calls. `Rv64.runTetoCore` drives Teto: it calls
batches, and answers the requests the harts make. The terminal feeds the shell's editor and the
reads of programs, and turns ^C into `Shell.interrupt`. `Os.flush` saves the file tree.

## Modules, and how they correspond to the code

| Module | Models | State and steps |
|---|---|---|
| `TetoScheduler` | the hart scheduler of `teto/kernel.ts` and its driver loop in `vm/rv64.ts` | One variable per shared word (`hartLock` is `H_LOCK`, `schedLock` is `C_SCHED_LOCK`, ...), and for each worker where it is in its call. A step is one access to a word another worker can see. `StartScan`, `LookAt`, `Claim`, `LeaveScheduler` are `tetoRunSchedulerBatch`; `RunDirect` is `tetoRunRv64Batch`; `Enter` ... `Leave` are `runHartLocked` and `step`; `BeginResume`, `Resume`, `EndResume`, `RefuseResume`, `EndRefused` are `tetoResumeSyscall` and `tetoResumeHost`; `GiveUp` is what the driver makes of a resume that is refused (EPROTO) or of a request it does not serve, and `Stop` the end of a worker's loop; `BeginReap`, `Reap`, `EndReap` are `tetoExitHart`. |
| `HartContract` | nothing: the abstract specification of one table of harts | A hart is free, taken by one worker, waiting for one answer or over. `TetoScheduler` implements it (`ImplementsContract`). |
| `MCTetoScheduler` | instances | Programs as sequences of kinds of instructions. |
| `TetoSchedulerProofs`, `ThistleProcProofs`, `TetoMapsProofs`, `ThistleDescriptorsProofs`, `ThistleHoldsProofs`, `TerminalProofs`, `VfsProofs`, `PersistenceProofs` | proofs about the module of that name, with the abstract specification it implements where there is one; `ThistleHoldsProofs` about the holds of `ThistleDescriptors` | see [Proofs](#proofs) |
| `ThistleDescriptors`, `MCThistleDescriptors` | `io/stream.ts` and everything in `core/kernel.ts`, `core/sys.ts`, `vm/rv64.ts`, `sh/shell.ts` that makes, copies or drops a pipe descriptor | The tables `Proc.fds`, the table a vfork puts aside, the counts and the queue of each pipe, the reads that wait. The thread is one, so a step is what runs between two awaits. |
| `ThistleProc` | `core/proc.ts`, `core/sched.ts`, the process half of `core/kernel.ts` and `core/sys.ts`, units and jobs of `sh/shell.ts` | An entry (`state`, `code`, `sig`, `mask`, `pending`) and the asynchronous function that runs the program (`body`), which end at different times. `SleepStart` and `RequestStart` (`net/net.ts`) wait for a timer, an answer or a signal that they may not hear; `ReadStart` waits for input and hears no signal. A body ends as `Kern.run` ends it: with what the program returns (`Exit`), because it notices a signal (`Chk`), with 141 for a broken pipe (`BreaksPipe`), or with another error, whose message is written before the status is set (`Throws`, `Complained`). |
| `TetoMaps` | anonymous memory of `teto/kernel.ts` | The table of mappings, the break, the frames that exist and which of them hold something (`mmap`, `munmap`, `mprotect`, `mremap`, `brk`, first touch). |
| `AddressSpace` | nothing: the abstract address space | Owned pages with their contents; fresh ones read zero, moved ones keep what they held. `TetoMaps` implements it (`ImplementsSpace`). |
| `TreeFs` | the classes of nodes in `fs/vfs.ts`, `fs/tree.ts`, and the merge of `main/webtree.ts` | Operators without state: dump, load, the merge of a saved list with the static root. |
| `Vfs`, `MCVfs` | `fs/vfs.ts`, `Sys.fdw`, a restart from the saved tree | `node` is every node with its entries, links, payload, source and fetches under way; `answer` tells whether the last call found room. An action per call; `Fetch`, `FetchDone`, `FetchFails` are the two halves of `Reg.materialise`. |
| `FileTree` | nothing: the abstract file tree | What each path shows and which paths name one thing. `Vfs` implements it (`ImplementsFileTree`). |
| `WebTree`, `MCWebTree` | `main/webtree.ts`, `Os.flush` and `Os.restore` of `main/boot.ts` | The tree programs see, the saves that wait, the save under way with what it still has to write and remove, the browser's storage, the manifest. A file has a text and a sum, which a start takes from the manifest and a save compares. What is still to do is a set, gone through in the order of the walk (`First`). `Begin`, `Create`, `Close`, `RemoveStale`, `Finish` are the awaits of one `push`; `Fail` and `Crash` can come between any two. |
| `DirTree` | `main/dir.ts`, with the same saves | The same over a directory of the host: names and inodes, files cut off, links that the host cannot make, links to the guest's root that are relative ones on the host (`Target`), what `DirTree.old` remembers. A save removes what is gone (`job.rm`, the deepest first), makes directories (`job.mkdir`), then writes and links entry by entry (`job.put`), and replaces the manifest last. |
| `Persistence`, `MCPersistence` | the file system of one host | The host has one tree or the other (`Host.tree`); programs, failures and restarts are the same, and both owe the two promises that the module states. |
| `Terminal` | `io/tty.ts`, the routing of keys in `sh/editor.ts`, the commands of `main/websession.ts` and `Os.run`, the inner shell of `apps/sys.ts` | `modes`, `line`, `q` and `wait` are the terminal; `todo`, `edit` and `fg` belong to the outer and the inner shell; `cmd` holds the programs, which read lines, single keys or nothing. `Type` is one key, wherever it goes; `Run`, `Exit`, `Saved` are `Os.run`; the others are the calls of programs. |

Composition: `HartContract`, `AddressSpace` and `FileTree` are instantiated with refinement
mappings by the modules that implement them; `Vfs` builds on `TreeFs`, so that its `Restart` is
the code's dump and load; `ThistleDescriptors` and `ThistleProc` share the operations `start`,
`run` and `kill` of `core/kernel.ts`, each with the part of their effect it is about; `Persistence`
instantiates `WebTree` and `DirTree` over one storage; `Terminal` composes the keyboard, the
terminal, the session's chain of commands and a second shell that runs as one of its programs.

A definition under the comment "Faulty variant" (and `SameContent` of `WebTree`, which forgets that
modes differ) takes the place of no action: it is a plausible mistake in the operation beside it,
and with it in that operation's place the property named for it in `PROJECT.json` is violated.
Every property of a passing run has one.

## Runs

| Run | Question | Answer |
|---|---|---|
| `TetoScheduler` | two workers, two harts, every kind of instruction, one worker that also runs harts directly, one that also ends them | locks exclude, nothing executes on a hart that is not runnable, requests have one owner, instructions are neither lost nor repeated, the count of active workers is exact, exits are final, the contract holds |
| `TetoSchedulerFair` | two workers, one of which answers requests, three harts, programs without end, under fairness; both workers may stop between two calls | as long as a worker goes on no hart starves and finite programs end, by their own exit unless they fault; a request is answered or its worker has ended with it |
| `ThistleDescriptors` | a shell and two processes, tidy and careless programs | hold counts are exact and pipes end, as long as nobody shows a habit that the code counts wrongly; reads are not lost and chunks stay in order whatever programs do |
| `ThistleNestedStdin` | can a nested program shut its shell's input? | **yes**: it opens `/dev/tty`, whose streams are not held, and closes it |
| `ThistleProc` | units in front and behind, sleep, requests, signals, under fairness; with masks, set-ID images, missing commands, files that cannot be fetched, errors, reads that wait or endless loops | what a process reports at its end never changes; without the habit that the code cannot cope with, the status of a process that did not choose one names its signal, nothing is forgotten, ^C reaches the unit, the prompt comes back, and the body of an ended process stops unless it waits for input or for another process |
| `TetoMaps` | mappings, break and frames in an address space where everything runs out | regions stay apart; the abstract address space is implemented |
| `Vfs` | every call on two names in two levels, a full file system, late and failed fetches, restarts | links are counted, directories form a tree, the abstract file tree is implemented |
| `VfsOverlay` | does a browser restart show what was saved? | **no**: the numbers of saved entries collide with those of the static root |
| `Persistence` | chained saves, to the browser or to a directory, that fail or are cut off anywhere | a save that ends is what the next start shows, but for a file whose kept sum is not that of its bytes (see below); an unfinished one leaves only what some save wrote, as the directory has it |
| `WebTreeUnmounted` | is a tree that could not be mounted ever saved over the user's? | **yes**: `flush` asks for a host tree, not whether it was mounted |
| `Terminal` | keys at the prompt, ahead of it, into six kinds of programs, one of which is a shell | keys keep their order, every program finds the session's modes, ^C ends a program that waits, what is entered is run |
| `TerminalEof` | does a program see an end of its input that nobody typed? | **yes**: ^C on a program that does not read leaves its empty chunk for the next one |

### Bounds, and why they are enough

- *Scheduler.* Two workers are enough for every race on one word (each word has one winner and
  its losers leave at once); two harts let the scan pass one that is taken, three let a cursor
  that does not move starve one; batches of two instructions end in the middle of a program and
  at its end. No bound on steps: the state space is finite.
- *Descriptors.* Shell, parent and child; one pipe; five numbers, three of them the standard
  streams, so that a pipe fills the table; `MaxOps` and `MaxChunks` bound the operations and the
  chunks of a run, not the starts and ends. Processes other than the shell are interchangeable
  (symmetry). `Habits` is what programs may do wrong; `did` remembers what some program has done,
  and `HoldsExact` and `PipeEnds` are stated for runs in which nobody has done what breaks them.
- *Processes.* `MaxPid = 4`: the shell and two others, which are one pipeline, or two units, or
  a command and its child. Process numbers only grow in the code; the bound and `MaxOps` are the
  only reasons why a run stops. The initial state chooses one set of `HabitSets`, and each
  property names the habit under which the code does not keep it.
- *Memory.* A table of three mappings, two frames of four units, break and stack at both ends:
  splitting needs places that are missing, copies need frames that are missing. `MaxDirty`
  bounds the writes that a state can show.
- *Files.* Two names, two levels, four nodes, room for one more than the image: every call that
  can be refused for room is. Three links are followed (33 in the code), enough for a chain and a
  loop. Two fetches of one payload can overlap.
- *Saves.* Browser: a file, a directory with a lazy file, one text to write; an earlier life has removed the
  file, or put a copy of it in the place of the lazy one, so that a kept sum can be that of another
  path of the root. Directory: three paths, one of them inside another, two texts; the host is empty, has
  a file with two names, or a link to a path of the guest's root. Two changes, two saves in the chain, one
  crash: overlap needs two saves, and a crash after a crash starts from a state that the storage
  alone describes, which `Init` and the first life reach too; the proofs have no bounds.
- *Terminal.* Five keys and three commands: ahead of a command, into it, ^C, and one for the
  command after it; a command, an inner shell and its command. The invariants were also checked
  once with six keys. Beyond the bound on commands a line is blank. `TerminalEof` needs two
  commands and three keys.

`CHECK_DEADLOCK FALSE` stands where the bounds, workers that have stopped, or programs that have
all ended, stop a run.

### Fairness

`TetoScheduler!FairSpec` assumes of each worker that what it has begun it finishes, and that it
calls the scheduler again or stops. It may stop between any two calls (`Stop`: the loop of
`test/teto-worker.ts:36` is bounded in calls and idle rounds), stops after a fault, and stops
with a request that it does not serve or whose resume is refused (`GiveUp`, `RefuseResume`:
`vm/rv64.ts:501`, `518`, `test/teto-worker.ts:55`). The liveness properties therefore say what
holds as long as a worker goes on: `Abandoned` is a hart that nobody is left to run or to answer.
Nothing is assumed of locks: a worker may lose each of them whenever another one holds it. Lost
atomic and credential locks only delay an instruction; a lost memory lock makes it fault
(`guestPage`, `teto/kernel.ts:1004`), so that `FiniteProgramsEnd` promises an exit only to programs
that touch no new page, and an end to the others. Direct batches and ended harts are requests from outside and not
fair; the fair run has none.
`ThistleProc!FairSpec` assumes that the event loop runs each timer, answer and microtask
(`Continue`), that the message of an error gets written (`Complained`), that a program that goes on
asks for signals between two batches of instructions or lines (`Chk`), and that one without the
habit "endless" returns (`Returns`); `MaxOps` bounds the calls. Nothing is assumed of reads: a program
may wait for input for ever, ended or not, so that `EndedStops` excepts what waits for input or for another process
and rests on `Chk` and `Resume`, not on programs that return. A request to the network ends because it has a
timer of its own (`net/net.ts:110`). Users, signals and files that cannot be fetched are not fair;
`ForegroundReturns` is stated for behaviours in which every file can be fetched, programs return and
wait for no input that does not come, and nobody has root's effective identity, which could wait for the
shell that waits for it; `EndedStops` for those in which files can be fetched and nobody masks signals.
`Terminal!FairSpec` assumes that the host runs promises and timers, and that programs go on;
nobody has to type, so that a program may wait for ever for a key.
The file and save modules state no liveness: the code tries no save again, so there is none to state.

## Proofs

Each proof module EXTENDS the module it is about and argues from that module's assumptions about
its constants alone: any number of workers, harts, processes, descriptors, pages, keys or
commands, where the runs have two or three. The assumptions the proofs added are that the
workers (`TetoScheduler`) and the processes (`ThistleDescriptors`) are finite sets, since both
modules count them, and that what a host starts with is sound (`Vfs`, `Persistence`; see there). The argument has one shape throughout: an inductive invariant that TLC has
checked on the run's instance, one lemma per action, and the property from the invariant.

- **`TetoSchedulerProofs`.** `TypeOK` is not inductive, because a worker about to look at a hart
  or to execute must be below the bound of its counter; `TypeInv` adds `BelowLimit`. `LockInv`
  adds to exclusion (`MutualExclusion`) that the lock word is taken at each place from which a
  worker owns a hart; each step takes, keeps or gives a lock (`StepKinds`), and each kind
  preserves the invariant (`LockKinds`). `SafeInv` joins to it that workers run only runnable
  harts (`RunnableOnly`) and that the program counter is what was retired plus the instruction
  that has moved on (`InOrder`); `StepEffect` reduces every step to one that leaves harts alone
  or changes the one whose lock it owns. `ExitIsFinal` is an action property from `SafeInv`.
  For the contract, `DebtInv` adds who owes which hart an answer, which ties a hart's
  status to the one worker that has taken its request (`RequestsOwed`) and the number of active
  workers to those that execute (`ActiveCounts`). With it every step is a step of `HartContract`
  under the refinement mapping, or changes nothing that it sees (`ContractImplemented`).
- **`ThistleProcProofs`.** `TypeCorrect`; what an ended process reports never changes
  (`EndsAreFinal`); `StatusInv`, how the status of a process that did not choose it comes to name its signal
  at each place where the body, the entry and the signal can meet (`StatusesNameSignals`); `JobsInv`, every child of the
  shell is in the unit in front, in a job, or reaped (`NothingIsForgotten`); `UnitInv`, the group
  that ^C signals has every process of the unit (`InterruptReachesAll`).
- **`TetoMapsProofs`.** The table of mappings never overflows
  (`TypeCorrect`), because each operation counts the places it will need before it changes
  anything: the lemmas count the mappings that a range splits. Regions never overlap
  (`RegionsKeepApart`). `Good` adds that a page that holds something has a frame and
  that pages outside of every region hold nothing (`FreeReadsZero`), which is what makes each
  call a step of `AddressSpace` (`SpaceImplemented`): `mremap` that fails in the middle of its copy
  maps to no step at all.
- **`ThistleDescriptorsProofs`.** `ReadInv`: a read waits only where no chunk is queued and no
  end has come (`ReadsWake`), chunks that were read and chunks that wait are what was written, in
  order (`ChunksKeepOrder`).
- **`ThistleHoldsProofs`.** `HoldInv` says that every table that a descriptor can be reached by is
  accounted for (`TablesKept`: the table of each process, and the one a vfork has put aside),
  and that each side of a pipe is held as often as these tables name it (`Counted`). A table is changed one
  entry at a time, and each change moves the count by what the code holds or releases; the count
  of a sum of tables is proved from finite sets alone. `HoldsAreExact` and `PipesEnd` follow,
  the latter with the fact that a side that nobody holds is shut.
- **`TerminalProofs`.** `TermInv` has six parts: the types, who waits (`Waits`), what was entered
  and not run (`Entered`), what each shell waits for (`Foremost`), the modes at rest (`Moded`) and
  the keys (`Ordered`). `KeysInOrder` is inductive once keys have numbers that were typed and the
  unfinished line has only keys typed into it, so that single keys can pass it (`KeysKeepOrder`).
  `ModesFollow` needs `Foremost`: a program that may change the modes is the one in front, never the
  shell that will give them back (`ModesAreFollowed`).
- **`VfsProofs`.** `Sound` joins the three invariants: each node is of its kind (`TypedTree`), the
  count of links is the count of names (`CountedTree`), and the nodes form a tree
  (`ShapedTree`). A call changes entries first and then forgets what cannot be reached any more
  (`Collected`); in between holds `Good`, which is `Sound` for the reachable nodes, with nothing
  in the others. What can be reached is the least set that has the root and is closed under
  entries, so that facts about it need no walk. Every call is made of a few elementary changes,
  and each has one lemma: a name is cut off (`GoodCut`), a new node or a further name is put
  below a directory (`GoodGrown`, `GoodLinked`), a name moves (`GoodMoved`), a payload changes
  (`NodeKept`), the rest is forgotten (`SoundCollected`). A rename is the removal of what has the
  new name and then a move to a place that is not below what moves: this is where `Careful`
  is needed, and without it `TreeShaped` is false (see below). Two assumptions are added: the
  first image is sound (`ImageAssumption`), and a restart gives a sound tree back for a sound one
  (`StartsSound`, a hypothesis of each theorem). The latter is about a dump and a load, which are recursive walks;
  TLC checks the three invariants over restarts too, and has checked this hypothesis and the
  inductive invariant on the run's instance.
- **`PersistenceProofs`.** All three invariants of `Persistence`, for both trees, with any paths,
  texts and number of changes, failures and crashes. Assumed is (`PathAssumption`,
  `WebAssumption`, `DirAssumption`) that the walk has directories before what is in them, that the
  root, the image and the saved trees are trees, that texts are not mistaken for the absence of a
  file, that the text of a link's substitute tells its target, and that the way from a path to where
  a link leads is the way to itself (`Target`).
  In the browser (`WebInv`) every text that the manifest needs was written by the last whole save or
  by one that was tried since, and where it is missing one of the latter had no use for it (`Explained`):
  this is what the removal of stale files before the manifest is replaced leaves true. A save
  under way has written what is no longer on its list (`JobKept`), and what the page remembers is the
  manifest (`Remembered`), so that the list of stale files is the right one.
  A stored file shows its bytes and not what its sum names; where they differ, a whole save may have
  left it out as the root's own (`FileShown`), which is the exception that both theorems name.
  In the directory, `DirInv` says besides the types what a save has before it (`JobShaped`) and
  behind it (`JobDone`), how far the memory of the program (`known`) agrees with the host (`Remembers`),
  that what no save has changed is as it was (`UntouchedKept`), and where everything else comes
  from (`Sourced`). A save skips what `known` already has, so that `JobDone` needs
  `Remembers`, and `Remembers` is weaker once a save of the same life has failed: it then speaks only of the
  paths that all tried trees agree on (`Quiet`). Every action of a save changes one path and what is
  below it (`SaveStep`); what it owes there is named `DoneAt`, `RememberedAt` and `SourcedAt`,
  and `StepKeeps` gives the invariant for all other paths, so that each action has only to pay
  its own debt. The hard part is names: to replace one of two names of a file renumbers the
  other, so that facts about other paths are stated up to the numbers of files (`Alike`); and what the
  directory has for a link is that link, the file that stands for it, or its relative form (`StandsFor`). The
  theorems are `PersistenceTyped`, `SavesArePulled` and `NothingIsForeign`.

Not proved:

- *Liveness* (`NoHartStarves`, `EveryRequestSettled`, `FiniteProgramsEnd`, `ForegroundReturns`,
  `EndedStops`, `InterruptedEnds`, `CommandsRun`): fairness and ENABLED are outside the prover's
  reach.
- *Restarts of `Vfs`* (`RestartKeeps`, and that a restart gives a sound tree) and
  *`ImplementsFileTree`*: trees are dumped, loaded and renumbered by recursive functions and folds,
  paths are followed name by name, and what those return for every tree and every path needs
  induction over data, which the provers cannot do.

## Abstractions

Instructions are the ways they can leave a batch. Payloads are marks that tell where they come
from. Paths are sequences of names and always absolute. Owners, modes, times and devices of
files are left out of `Vfs` (its calls are root's); `WebTree` keeps one bit of mode, because a
save treats a file of which only the mode changed in its own way. A checksum is represented by the
text it is the sum of. In `WebTree` each file has one name; the numbers entries carry are the subject of `TreeFs`
and `VfsOverlay`. Calls that fail without an effect are no steps; nor is a
start of `Vfs` on a list that does not fit (`TreeFs.load` throws, `fs/tree.ts:81`).
`DirTree` leaves out modes and owners, changes by the host between two lives, hosts without
symbolic links, and links that lead to directories of the tree. In `Terminal` an event of the keyboard is one key
and a command is one program; erase keys, history, completion, here-documents, masked signals,
kill -9 of a reader and modes changed from the background are left out.

Assumptions about callers, each a constant so that it can be lifted:
`Habits` and `HabitSets` (what programs do) and `Careful` (nobody renames an entry to itself
through a symbolic link or below itself, and descriptors write only to loaded files).

## Where code and words disagree

Checked by the four violation runs above. Also met, and not given a run:

- A resume that finds the hart's lock taken, if only for the instant in which another worker looks at
  the hart, returns BUSY; the driver does not try again but ends the program with EPROTO, and the
  request is never answered (`vm/rv64.ts:501`, `518`).
- The first touch of a page while another hart has the memory lock is reported as a fault and ends the
  hart, where an atomic instruction would be tried again (`teto/kernel.ts:1004`).
- A signal that arrives before `sleep` has begun to listen does not shorten it and the program
  reports 0 (`core/sys.ts:308`; the test at `test/all.ts:2601` expects 143 of the usual order).
- kill of a sleeping process whose mask holds the signal ends it (`core/kernel.ts:401`), and its body,
  which is not told, runs on.
- A program that returns by itself after it was signalled ends with what it returns, which `wait` reports, while
  `wait4` reports the signal (`core/kernel.ts:314`, `vm/rv64.ts:1235`).
- A pipeline with a command that cannot be started leaves the earlier commands running and
  never reaps them (`sh/shell.ts:432`).
- A process started without a table of its own releases only descriptors 0 to 2 at its end
  (`core/kernel.ts:367`).
- A signal to a group stops at the first process it is not allowed to reach, so that ^C spares a
  set-ID command and those after it (`core/kernel.ts:398`, `sh/shell.ts:552`).
- `Vfs.rename` sets the new entry and then deletes the old one: a directory renamed below itself,
  or an entry renamed to itself through a linked directory, is lost (`fs/vfs.ts:366`).
- A refused write through a symbolic link that leads nowhere loses the link (`fs/vfs.ts:291`).
- mkdir, symlink and the loading of a lazy file ask for no room, so that a write that makes a
  file shorter can be refused afterwards (`fs/vfs.ts:288`).
- A write through a descriptor to a file that is not loaded drops the rest of it (`core/sys.ts:264`).
- A file of the static root that was renamed and never loaded, or a path that was saved as a
  directory and is now a file, makes every later save fail (`main/webtree.ts:208`).
- The terminal restores its modes on ^C only when the interruption was handled, and what the
  shell answers is always taken for "not handled" (`main/boot.ts:48`, `io/tty.ts:426`), so that ^C
  is not echoed either. `ModesFollow` shows that the modes come back all the same, from whoever started the
  program.
- ^C in a shell within the shell signals the group that the outer shell waits for, which is the
  inner shell, not its command (`main/boot.ts:48`, `sh/shell.ts:552`): the command goes on, and
  the empty chunk that should wake it ends the inner session if the command does not read it.
- A reader in the background takes lines, and the wakening of ^C, from the program in front;
  `TCSETSF` can throw the wakening away. The interrupted program then waits on (`io/tty.ts:124`).
- A read that waits stays in the queue when its process has been killed, and swallows a later
  line (`io/tty.ts:120`); the body waits on until then.
- A line that was not finished when a program turned to single keys stays behind them.
- A save to a directory that failed leaves `old` as it was before it, although some of its files
  were written: a later save that gives a file its former text back does not write it
  (`main/dir.ts`). `SavedIsPulled` is therefore stated for lives in which no save has failed.
- For the same reason a link that is changed and, after a save that failed, changed back is taken
  for one that the host has replaced, and becomes the file that stands for a link
  (`main/dir.ts:112-118`); a crash at this point leaves nothing, and later the
  text. A file's text can reach another path through names that several failed saves
  link in turn. `NothingForeign` allows both (`Meant`, `Sources`), because the code does both.
- Two names of one file that become two files with the same text stay one file on the host; a
  file or a link that becomes a directory makes every later save fail in mkdir (`main/dir.ts:100`), and
  a directory of the host where the tree has had a link all along fails in `linkState`
  (`main/dir.ts:169`); a first
  seeding that is cut off leaves a part of the image as the whole root.
- A link to a path of the guest's root is a relative one on the host, and only the manifest tells it
  from other relative links: when the process ends between the link and the manifest, the next start
  shows a relative link (`main/dir.ts:143-155`). `NothingForeign` allows this (`StandsFor`).
- In the browser a start keeps the sum that the manifest has for a stored file (`main/webtree.ts:177`). After a
  save that was cut off between a file and the manifest, the file has new bytes under the old sum;
  moved to the path of the root's file with that sum and size, it is taken for that file, and a save
  that comes to its end drops its bytes (`main/webtree.ts:85-106`, `fs/tree.ts:46`). `SavedIsPulled` and
  `NothingForeign` except exactly this file and say that nothing else than the root's text can take its place.
- A request to the network that is made after the signal does not hear it, like a late sleep
  (`net/net.ts:109`).
- Bytes that are left from a read belong to a number, not to a stream (`vm/rv64.ts:1174`): after
  close, dup or execve another stream starts with them, or nobody gets them.
- Teto does not know the file mappings of the RV64 bridge and can map memory over one; a later
  flush of a shared mapping then writes that memory into the file (`vm/rv64.ts:589`).
- Two windows of one browser save to the same storage without a lock, each against the overlay it
  remembers: the later save undoes the other's, and overlapping ones mix (`main/webtree.ts:126`).
- A program with root's effective identity may wait for the shell that waits for it
  (`core/kernel.ts`, `Kern.wait`).

## Plan

Done, in this order: the scheduler and its contract, its proofs, descriptors, processes, memory,
the file system, browser persistence; then directories of the host and both trees under one
promise, the terminal with its session and inner shell, requests to the network, and one run each
for descriptors and processes, in which programs may show every habit. Next:

1. Proofs: the step from `Vfs` to `FileTree` for calls that change one name.
2. The file mappings and read buffers of `vm/rv64.ts`, composed with `TetoMaps` and
   `ThistleDescriptors`.
3. Access checks and saved identities (`core/cap.ts`, `core/identity.ts`) over the nodes of `Vfs`.

## Not modelled

- *Creation of harts while workers run*, reservations of LR/SC between harts of one process, and
  process slots that are used up: the code makes one hart per memory before it runs
  (`vm/rv64.ts:408`), and its tests make all of them before the workers start.
- *Image loading and start, the Teto file mirror*: sequential, before the program runs, and no
  system call asks the mirror yet (`vm/rv64.ts:419`).
- *The semantics of instructions, assembler, linker and image formats*: pure functions of bytes,
  too large for TLC's data and without state that steps could disturb.
- *Editing of a line, history, completion, the applications*: sequential text, and kernel calls
  that are modelled where the kernel makes them.
- *Access checks and identities* beyond those that decide about signals; *allowed URLs*;
  *configuration and packages*: decisions of one call each.
- *Several windows of one browser, image migration, reboot*: windows share only the browser's
  storage, and nothing coordinates them (see above); migration rewrites data.

The models cover the TypeScript of `src/src`; the C headers under `src/.thistle.base` belong to
the guest's development image and to no part of the system that runs.
