# Verification of Psirver

Psirver (`src/README.md`) is a C++/POSIX server that receives HTTP requests, stores Python
scripts and runs them as monitored jobs. This directory holds TLA+ models of it, the TLC
configurations that check them, and TLAPS proofs. The models are translated from the code,
not from its comments; where the two differ, a run or a property says how far.

## 1. The system

| Part | State | Operations | Talks to |
|---|---|---|---|
| **Job** (`Jobs.cc`, `Jobs.hh`) | pid, pipe ends, `stdout_data`, `stderr_data`, `output_limit_exceeded`, `timed_out`, `finished`, `status`, `result`; three joinable threads and a detached one | `launch`, `start_monitors`, `read_all` (twice), `timer_fn`, `monitor_fn`, `terminate`, getters, destructor | the child by pipes, signals and `waitpid`; its threads among themselves by `finished`/`state_cv` under `state_mutex`, and two atomic flags |
| **Job table** (`Job::jobs`, `Job::mutex`) | a map from pid to Job | insertion by `launch`; lookup by five tasks; erasure by `PurgeJobTask` | every Job points to its Script |
| **Script table** (`Script::scripts`, `Script::mutex`) | a vector of Script, each with `n_jobs` | `UploadTask` (and its `cleanup`), `DeleteTask`, `ScriptListTask`, `RunTask` | the directory `scripts/<id>/` |
| **Script files** (`Tasks.cc`) | `scripts/<id>/` and `scripts/<id>/<name>`, with their permissions; they outlive the server | the system calls of upload, `cleanup`, delete, `format`, `terminate_all` | the script table, by the id alone |
| **Main loop and tasks** (`psirver.cc`, `Tasks.hh`) | the server socket, one descriptor for each connection | accept, read head and body, make a Task, run it inline (`RunTask`) or in a detached thread (all others), `reply`, `~Task` | the client; descriptors are shared with uploads' files and jobs' pipes, and are inherited by children |
| **Request parsing** (`TaskFactory.cc`, `psirver.cc`) | the head and the body of one request | chunks, limits, path, id, boundary and arguments taken from text | main loop |
| **Start-up and shutdown** (`utils.cc`, `psirver.cc`) | listening socket, pid file, signal handler | `select_port`, `init_socket`, `init_pid_file`, `graceful_shutdown`, `exit` | other servers on the host, by port and pid file; everything, from a signal handler |

What is hard in it:

* *Threads of one job.* The monitor reaps the child, decides and joins; the readers and the
  timer kill the child on their own account. Each reads what another may be about to write.
* *Two tables, two locks, one counter.* `n_jobs` must count the pointers to a Script although
  it is raised under `Script::mutex`, lowered under no lock, and the pointer moves from the
  main thread to the job table to a purge in between. `launch` inserts without a lock, and
  `cleanup` removes without a lock.
* *Numbers that outlive what they name.* A pid is signalled after it was reaped; a
  descriptor is closed twice; a script id, and the directory it stands for, are used after
  the slot was given away; a pid file is unlinked by name after its owner's port is free.
* *State that outlives the server.* Files with half-changed permissions, a pid file, children
  that hold the listening socket until they execute their script.
* *Text that comes in pieces.* The end of a head, or a boundary, is cut in two by a read.
* *Progress.* The main thread reads requests itself and waits for both locks; the monitor
  waits for the end of both pipes; a script may ignore SIGTERM.

Correctness of each part: a job's output is what the script wrote, cut at the limit; its
verdict is justified and final; it is settled and released at last. The tables hold live
objects, at most `MAX_JOBS` jobs, and exact counters. A stored script has its file with its
own data, whatever was on the disk. Descriptors come back, clients are answered. A request
becomes what its client means by it. The pid file leads to the server that serves, and the
port is free when it has ended.

## 2. Modules

| Module | Models |
|---|---|
| `JobSpec` | what a job is to its clients: a status that settles once, outputs that grow up to the limit, a purge |
| `Job` | one job from fork to destruction: child and kernel, two readers, timer, monitor, the main thread at the end of `launch`, one terminate, one output and one purge task; implements `JobSpec` |
| `Registry` | both tables, both mutexes and `n_jobs`: `RunTask` with `launch` in the main thread, uploads, deletes, listings, purges in task threads |
| `ScriptStore` | `Registry` with the files: each system call of an upload, a `cleanup` and a delete, the SIGINT walk, and servers started again on what is left |
| `Server` | the main loop, connections and descriptors: accept, reading, `reply`, `~Task`, uploads' files, jobs' pipes, inheritance by `fork` |
| `Requests` | one request: the loop over its chunks, its limits, and the task factory on its text |
| `Lifecycle` | several servers on one port and one home: start-up, pid file, SIGINT, exit, and death anywhere |
| `MCJob`, `MCScriptStore`, `MCServer`, `MCRequests` | constants and symmetry for TLC; `MCRequests` also says what each request means |
| `JobProofs`, `RegistryProofs`, `ScriptStoreProofs`, `ServerProofs`, `RequestsProofs`, `LifecycleProofs` | the theorems |

How they meet: `ScriptStore` extends `Registry`, whose actions are the locked parts of its
tasks. `Job` implements `JobSpec` by a refinement mapping. What `Registry` treats as one job
is `Job`; what `Server` treats as a task that runs and then answers is a task of `Registry`
or `Job`, and its choice of what a request becomes is `Requests`. `Lifecycle` leaves
`terminate_all` to `ScriptStore`.

### Job and JobSpec

`pc` gives each thread its place; one action is what the thread does under one lock or with
one system call. `Write`, `ChildExits`, `ChildDies`, `ChildIgnoresTerm`, `DaemonExits` and
`PidReused` are the environment: a script that writes, exits with any code, dies of a signal
or ignores SIGTERM, may leave a process behind that holds its pipes (`daemon`), and a pid that
the kernel gives to a `"stranger"` once it is reaped. `SendTerm` and `SendKill` are
`Job::terminate`, in whichever of the five threads calls it. `ReadChunk`, `ReadEnds` and
`LimitHit` are `read_all`; `TimerWoken` and `TimerFires` are the two outcomes of `wait_for`;
`WaitPid`, `Decide`, `JoinNext` and `CloseFds` are `monitor_fn`. `StartMonitors` and
`LauncherReplies` are the main thread, which uses the Job after it is in the table. Data is
counted: one unit is a block of bytes, `written` is what the script has written, `data` what
was stored. Undefined behaviour is a choice between carrying on and `server = "undefined"`
(an append beside a copy, an access to a destroyed Job); `server = "aborted"` is
`std::terminate`. `PurgeDrops` is the destructor, which aborts when a thread is joinable.
`SigchldIgnored` is a server started with SIGCHLD ignored: the kernel reaps the child
and `waitpid` fails.

`JobSpec` has three variables, which `StatusSeen`, `ResultSeen` and `OutputSeen` compute from
`Job` as the three tasks that answer do. A status leaves `RUNNING` once, to one verdict;
`OUTPUT_LIMITED` comes only with a full output; the outputs only grow, also after the
verdict, which the code allows since the monitor decides before it joins the readers.

Not in it: the order of the bytes; failure of `dup2` or `execvp` other than as exit code 127;
two terminates of the same job at once, which `Job::mutex` excludes; a script that dies of a
signal of its own, which ends as `TERMINATED` like the exit with 127 that `ChildExits` has; and
one that closes its stdout or stderr while it lives on, whose reader then ends early and has
nothing more to do. `StartMonitors` starts the four threads in one step: none of them looks at
another one's handle before the monitor joins, and the monitor starts last.

### Registry

A Script is an object with a `fate` (unused, partial, stored, then deleted by `/delete` or
cleaned by a failed upload) and a slot of the vector, whose length is `size`. `Users(s)` are the
pointers to it that are counted: jobs in the table, the `RunTask` under way (`mscript`), purges
that have saved one (`dropped`).

`cleanup` takes no lock, so a section under `Script::mutex` is not one step, although the other
sections wait for its end (`ScriptsMutexFree`). It takes a step for each access to the table or
to a Script: `RunFinds` and `RunCounts`; `UploadLocks`, `UploadPasses` for each slot that is
taken, `UploadPlaces`; `DeleteFinds`, then `DeleteRefused` or `DeleteTakes`; `ScriptsLock`,
`ListNext`, `ScriptsUnlock`. The reset of `cleanup` has a beginning, `CleanupBegins`, and an end,
`UploadFails`; in between its slot is `Torn` and the script in it `Unsafe`. A step that uses such
a slot or script, or moves the slot with the vector (`emplace_back`), may or may not be undefined
(`Outcome`), and when it is not, what was found before the reset is used after it.

`CheckLimit`, `LaunchFails`, `Fork`, `Emplace`, `EmplaceTaken` and `RunRefused` are the rest of
`RunTask` and `launch`; `EmplaceTaken` is the case where the kernel reuses the pid of a job that
was never purged, so that `emplace` inserts nothing. `JobsLock`/`JobsUnlock` are the tasks that
read the job table; `Emplace`, which takes no lock, looks at `JobsMutexFree` only for its
`Outcome`. Not in it: the job's own life, replies.

### ScriptStore

`dir[i]` and `file[i][n]` are the disk: a directory that is absent, `"open"` (rwx) or
`"locked"` (r-x), or `"blocked"` by something else, and in it files with an inode, the
uploads whose data they hold, and permissions. A system call that fails changes nothing
(`Opens`, `Removes`, `Rmdirs` say when one succeeds; the server is not root). `Search`, `Pass`,
`Claim`, `Stored`, `CleanupStarts`, `CleanupResets`, `Look`, `Refused`, `Take` and `Deleted`
conjoin an action of `Registry`; the steps between them are the calls in the order of the code,
`Try` giving the next one and the one after a failure.
`WriteFile` writes to the inode that was opened, wherever it is by then, or loses the data when
the disk is full, noticed or not (a write that is lost when the file is closed is not
noticed by the code either, and `UndisturbedStored` allows for it). `Sigint`, `WalkVisits` and
`Exit` are the handler, which walks the table while tasks go on. `Restart` stands for any end of the process and a new start: the
table is empty, the disk stays. `Leftovers` are what servers before the first one may have left.
`due` and `shared` are history: who was at rest at a SIGINT, and whose tasks have met
another on the same id.

Not in it: runs (`Pids = {}` in the configurations; they do not touch the files), times in
listings, a missing `scripts/`. The four calls of the walk on one entry are one step.

### Server

A descriptor refers to a connection, to what a task has opened (`Private(c)`: an upload's
file or a job's pipe, one descriptor for both pipes) or to nothing; the lowest free number is
given out. `job[c]` is the child of a run: at work, ended with a process left behind
(`"left"`, as `DaemonExits` of `Job` may never come), or over. A child and what it leaves behind
hold the connections they have inherited (`held`); the monitor closes the pipes (`ClosePipes`)
when the readers have ended, which such a process may put off for ever. There are at most
`MaxJobs` jobs with pipes, a limit that the code takes from the job table. `Answer` and `Reject` are `reply`, which closes the number; `Delete` is `~Task`,
which closes it again. `PostArrives` computes `remaining` modulo `Wrap` (the width of
`size_t`); `ReadBody` takes what is still to come, and a read that returns nothing changes
nothing, which is the loop of `read_body`. A read only yields data while the number is still
the connection's (`Readable`). `Launch` gives the child every open connection. What a request
says is a choice. A read that is already blocked when its number is closed is taken to
return before the close.

### Requests

A text is a sequence of tokens; a token stands for a run of characters that no search of the
code cuts in two (a line end, a header's name, a separator, a numeral). `ReadHead` reads a
chunk and looks for the end of the head; `Dispatch` is what `request2task` does of it, in the
order of the code: `Refused`, `Get`, `Post` or `PostRefused`, `NoMethod`. `ReadBody` is the
loop of `read_body`, with a `remaining` that wraps around (`Remaining`) when more than was
announced has come with the head; a client may send more or less than it announces, and fewer
than `Wrap` tokens. `AnswerTo` is what there is to make of a text without any loop. `GetTask` and `PostTask` are the two `Task::construct`: they find, cut and
compare as the code does, `Find` being `std::string::find`. `stoi` takes the number at the start
and ignores what follows. A negative length is converted to `size_t` (`TooLarge`).

`MCRequests` puts texts together from the client's side, each with its meaning, and never takes
one apart. The meaning is not taken from the code: where the code answers otherwise, the request
is marked `departs`, and `AnsweredAsAsked` says that a request gets another answer than it means
exactly when it is marked. These are the cases:

* an id that is followed by junk, as in `/jobs/7x`: `TaskFactory.cc:44` says that no task is made
  "if the id is not a valid integer", which means 400, but `stoi` reads 7 and job 7 is answered;
* a `Content-Length` that comes as the last header: the code looks for a line end behind it within
  the head, which has been cut off, and answers 400 to a request that is in order;
* a negative `Content-Length`, a bad request, is answered with 413.

A body that ends before its announced length is due no answer.

Not in it: percent-encoding, which the code does not decode; forms with several fields; white
space, signs and case that `stoi` and `find` treat by the letter.

### Lifecycle

`pc[p]` follows `main` and the handler; `port[p]` says which processes have p's listening
socket open. `Bind` and `Listen` are refused while a socket listens, and with `SO_REUSEADDR`
not by connections in TIME_WAIT (`lingering`). `pid_file` has an inode and a content, since
`init_pid_file` truncates a file that is there, and `UnlinkPidFile` takes whatever file has the
name. `Fork` gives the socket to a child until `Exec`, which closes it (`FD_CLOEXEC`). `Exit`
aborts when a Job in the table has a joinable thread. `Dies` is a signal, `std::terminate` or
the SIGPIPE of `reply`; `StartFails` is `usage` and the failures of `init_pid_file`. Not in it:
the parsing of the port number, a failing `fcntl` (the code only logs it), a second job at the
same time, a server that goes on after a failed `close`.

## 3. Runs

Each run answers one question; `PROJECT.json` lists the properties and mutants.

| Run | Shows | Bounds | States |
|---|---|---|---|
| `job` | safety and progress of one job; it implements `JobSpec` | limit 1, buffer 2, pipe 2; stdout up to 2 units, stderr 1; a left-behind process | 131,534 |
| `registry` | tables and counters; a run request is answered; races are of the known kinds | 2 scripts, 2 pids, 2 task threads, `MAX_JOBS` 2 | 707,931 |
| `store` | files and table through failures, deaths and SIGINT | 2 scripts, 2 names, 2 task threads, 1 restart, leftovers under id 1, symmetry | 1,085,876 |
| `server` | no leak, every client served and hung up | 3 connections, 2 descriptors, 1 job with pipes, bodies up to 2 units, modulus 8; clients may send less or more than they announce | 65,597 |
| `requests` | every request becomes what it means | heads up to 22 tokens, chunks up to 4, ids of one digit or too large; bodies that are longer or shorter than announced; modulus 1000 | 253,959 |
| `lifecycle` | port and pid file | 3 servers | 223,970 |

`job`: `OutputExact` (nothing lost or added at the boundary or at end of file),
`LimitJustified` (`OUTPUT_LIMITED` only beyond the limit), `SettledIsDead` (no verdict before
the child is gone; `FINISHED` reports its own exit code), `TimerSilent` (timer and monitor
agree on who was first), `QuietWhenReleased` (pipes closed only after all threads are
gone), `EventuallySettled` (even a script that ignores SIGTERM), `EventuallyReleased` (only a
process that the script left behind can hold up the release), `Implements` (the refinement).

Registry: `NJobsExact`, `DeletedIsUnused`, `JobsBounded` (check and insertion are apart; the
bound rests on there being one main thread), `OneOwner` (each live Script is in one slot or in
the hands of one delete, a dead one in none), `RunAnswered` (no task keeps a lock that a run
request waits for), `OnlyKnownRaces`: the tables are corrupted, or a freed Script is used, only
when (1) `launch` inserts without `Job::mutex` while a task reads the table, (2) it inserts under
a pid that was never purged, (3) a step of a run, an upload, a delete, a listing or another
`cleanup` uses a slot that a `cleanup` is emptying without `Script::mutex`, or moves it with the
vector, (4) a script that a `cleanup` frees, or has freed, is still pointed to by a job, a
purge, a run or a section under the lock that has found it. These are defects of the code. The
property is about the two tables and the Scripts, in the accesses that the steps above stand
for; the Job objects are `Job`'s, and the SIGINT walk over the table is `ScriptStore`'s.

`store`: `UndisturbedStored` (a stored script has its file, locked, and in it its own data
or, after a loss at the closing that `ofstream` does not report, none), `UploadWorks` (no
leftover makes an upload fail), `DeleteFailsForCause` (when a delete answers,
the file is gone, and the directory too unless a file of another name is in it),
`ShutdownCleans` (after SIGINT the files of scripts at rest are gone). All are about scripts
whose tasks met no other on their id; `store_files` shows what happens to the rest,
and `store_delete` what the answer of a delete is worth.

`server`: `NoLeak` (an open descriptor always belongs to a thread that will close it,
although numbers are closed twice), `Served` (if the main thread does not stay in `read_body`,
every connection is accepted and done with, also when processes left behind keep the pipes of
`MaxJobs` jobs for ever: one descriptor must be left then), `HungUp` (a connection is closed for
the client at last, also when a child has inherited it; only a process that a script has left
behind may keep it open longer, and it may for ever), `BodyEnds`: the main thread leaves `read_body`
unless the client stops short, `remaining` has wrapped around because more came with the head
than was announced, or the number is no longer the client's. In these three cases the loop
really never ends, since it ignores what `read` returns. `OnlySecondClose`: whoever is to read
from or write to a connection, or to close a file, keeps its descriptor through every step of
anyone but a second close.

`requests`: `AnsweredAsAsked` (whatever the chunks, a request with a head that fits becomes the
task its client means, with the very content of its file, or the error that is due, except for
the marked cases of section 2, which do not), `ChunksDoNotMatter` (a head that fits, and the
body behind it, are answered with what `AnswerTo` makes of the text, or not at all), `LongHeadRefused`, `AlwaysAnswered` (who sends
just what it announces is answered); the type invariant bounds what is read and waited for.

`lifecycle`: `PidFileNotOther` (`kill -INT` by the pid file never reaches another server while
one serves), `NoStalePid`, `NameLostToUnlink` (a server may lose its name to an old one that
has closed its socket and unlinks the file after the new one has written it, and to nothing
else), `RefusedByHolder`, `PortReleased`.

Why the bounds are enough: with a limit of 1 the outputs reach below, at and above it, a
chunk crosses it, and the pipes fill up; two task threads and the main thread give every pair of
tasks, and two scripts and pids let an id and a pid be reused while the old user is still
there; two scripts of one name, leftovers of that or another name, two threads and one restart
give an upload and a delete every overlap with another task on the id; three connections over two
descriptors are what it takes for a second close to hit a third party while accept waits for a
descriptor; 22 tokens leave room for every route, and long heads run up to, through and past
the limit by more than a buffer; three servers are one on its way out, one that serves and one
that starts. The code has `MAX_JOBS` jobs with two pipe ends each under the
limit on open files of the host; the run has one of each, and one descriptor more. `MaxOutput`, `MaxFd`, `MaxBody`, `Used`, `MaxRestarts` and the sizes of the sets
are the only bounds. Symmetry is used only in runs without liveness properties.

Runs that find the code in disagreement with its tests or documents (`findings` in
`PROJECT.json` quotes them):

| Run | What happens |
|---|---|
| `job_overflow` | `copious.py`'s kind of script is `FINISHED`, not `OUTPUT_LIMITED`, if it exits before a reader passes the limit |
| `job_signals` | a signal for the job reaches a process that has been given its pid |
| `job_purge` | a purge destroys joinable threads: `std::terminate` ends the server |
| `server_reply` | the second close of `~Task` takes another client's connection |
| `store_files` | a stored script has no file: a failed upload or a delete removes what the next owner of the id has written |
| `store_delete` | a delete whose `rmdir` fails, on a directory that holds a file of an earlier server, is answered with 200 and not with 500 |

### Fairness

`Job`: threads are scheduled; sleeps and deadlines pass; a thread that waits for
`state_mutex`, taken and released again and again, gets it (strong fairness of timer and
monitor); SIGKILL is delivered. Nothing makes the script exit, the left-behind process exit
or a client act. `Registry`: a task that has started goes on, and the main thread gets a lock
that is released again and again; nothing makes a client start a task. `Server`: clients send
or close (the weakest assumption under which a server that reads in its main loop can work at
all), the backlog is a queue, task threads are scheduled, and a child ends, which is what
`EventuallySettled` says of `Job`; then its pipes are closed if nothing else has them
(`EventuallyReleased`). A process that it leaves behind need not end, nor give up a pipe or a
connection: the timer kills the child alone. `Requests`: the client sends all of its text and the main
thread goes on. `Lifecycle`: start-up, handler and a forked child go on; nothing starts or
interrupts a server or ends a script; that the handler goes on takes its calls for safe in a
signal handler, which they are not. `ScriptStore` has safety properties only, and needs none.

## 4. Proofs

`JobProofs` proves, for every output limit, buffer size, pipe capacity, amount of output, set
of exit codes, and with or without left-behind processes and an ignored SIGCHLD, all six
invariants of run `job` and the refinement. They rest on `LimitAssumption` and `EnvAssumption`
of `Job` only. None of the properties but the types is inductive alone. `Inv` adds what the
threads know of one another:

* `ReaderInv`: while a reader reads, what it stored and what is in the pipe add up to what
  was written, so a chunk beyond the limit proves that the script wrote beyond it; a reader
  that met the end of file knows that nobody can write any more (the child and the
  process it left behind are gone, and neither comes back);
* `LimitInv`: the flag is raised from that point only, and the verdict is drawn from the flag;
* `MonitorInv`: past `waitpid` the child is gone for ever, so `wstatus` is final; `finished`,
  the status and the monitor's place change together, which is why the timer's test of
  `finished` under `state_mutex` keeps it silent after the verdict;
* `StartInv`: no thread exists before `start_monitors`; it runs once;
* `JoinInv`: what the monitor has joined stays over.

`InvStep` has one lemma for each part, and each lemma a step for each group of actions.
`JobImplementsSpec` maps each step to a step of `JobSpec` or a stutter (`StepSeen`); it needs
`FullInv` besides, that a raised flag means a full output, since only that makes
`OUTPUT_LIMITED` a step of `JobSpec`.

`RegistryProofs` proves, for every finite set of scripts, pids and task threads and every
`MAX_JOBS`, the five invariants of run `registry` and `RacesAreKnown`, from
`RegistryAssumption` alone. They need one another, which is why there is one `Inv`:

* a release does not take `n_jobs` below 0 because who releases is one of the pointers
  counted, so even `TypeOK` needs `NJobsExact`;
* `NJobsExact` needs that a new Script starts with nobody pointing to it (`FreshInv`);
* a search ends at a free slot or at the first that does not exist yet, and all slots from `size`
  on are free (`SizeInv`), so nothing is overwritten;
* one section under `Script::mutex` is open at a time (`MutexInv`), so what it has found in a
  slot stays there through its next steps, unless a `cleanup` frees it (`HandInv`);
* `DeletedIsUnused` needs the exact count, since `n_jobs == 0` is all that `DeleteTask`
  tests, `HandInv`, since it tests the Script that it has found and takes what the slot holds
  later, and `SlotInv`, since a deleted Script must not be found again;
* `OneOwner` is `SlotInv` (at most one owner, and a live one) with `OwnedInv` (at least one);
* `RoomInv` keeps the room that `launch` has found until it inserts; it needs the types only.

The lemmas on `Users` say how each step changes the pointers to a script (one more, one
less, one for another) and turn that into its cardinality. What `Inv` says of a job holds up
to the first undefined step, and the model stops there; `RacesAreKnown` says which steps
those are: whatever a step uses, a slot or a Script, `SlotInv` and `HandInv` leave only
`cleanup` to have freed it (`DeadIsCleaned`).

`ScriptStoreProofs` proves all five properties of run `store`, for every number of ids, task
threads, names and restarts, any leftovers and any failures of the calls. It extends
`RegistryProofs`, whose `InvStep` covers the steps that are steps of `Registry`, and adds in
`StoreInv`:

* `PlaceInv`: a task's next system call agrees with its place in `Registry` and with the id and
  the script it was given, and only a directory holds files;
* `ClaimInv`: a script is in the slot its upload was given or in none, and an upload that has not
  been answered is still at work. So `/delete` and `cleanup` name one id at a time;
* `AloneInv`: `shared`, which is history, really records every meeting: a script that is not in
  it has no other task on its id. Without it nothing can be said of the disk;
* `DiskInv`: for such a task, what each call finds (`OnTrack`, a table of steps against the
  directory and the file), and for such a script at rest, its sealed file (`Sealed`). This is
  where "the file's mode is restored before the next upload opens it" and its like are used, and
  why an upload over leftovers is refused only by a `"blocked"` directory or a failed write.
  After its `rmdir` a delete has left no directory, or one with another name's file in it (`Left`);
* `WalkInv`: an id that is `due` has no task, and no file once the walk has passed it;
* `NoRuns`: `ScriptStore` takes no run steps, so a server that ends leaves no pointers.

`Calls` is what all system calls have in common; `CallIs` reduces each of them to its effect on
one id, and one lemma per call gives the line of `OnTrack` it leads to.

`ServerProofs` proves `TypeOK`, `NoLeak` and `OnlySecondClose` for any number of connections and
descriptors, any lengths and any modulus above them. A second close may hit anything, so
`NoLeak` is kept not by knowing whose number it is but because what a close takes is one less to
leak; `Accepted` and `Opened` say when a connection has a number and when it has a file or a job.
`OnlySecondClose` then follows action by action: an `open` takes a number that is free
(`OpenTakesFromNone`), and a first close its own. `HonestBodiesEnd` shows that where clients send
what they announce, `remaining` is at any time what is still to come.

`RequestsProofs` is about texts, chunkings, buffers and limits of any size. What was read is a
prefix of the text, and the first end of a head that is found in a prefix is the first in the
text (`HeadInPrefix`, from `FindFirst` and `AtInPrefix`); this gives `LongHeadRefused`.
`TextInv` goes on: a head that fits is found before the loop stops, so it is `HeadOf` the text;
from there on the body is the part of the text that follows it, as far as it was read; and
`remaining` is a function of how much that is (`Left`), which is 0 only when just the announced
length has come, also after it has wrapped around. `TypeOK` and `ChunksDoNotMatter` follow, for
clients that announce and send what they like (no more than `Wrap` tokens, 2^64 in the build).
`RightInPieces` reduces `AnsweredAsAsked`, a property of all ways to cut a request and of all
that is read of it, to its texts in one piece: if `AnswerTo` makes of each text that fits what it
means, or something else if it is marked, then so does the server. That premise is the parsing
itself, which only TLC can show, for the texts it is given.
`NeverWaitsInVain` and `EveryStepGoesOn` are the part of `AlwaysAnswered` that needs no
fairness: for a client that sends what it announces, each step reads something or moves on.

`LifecycleProofs` proves the three invariants and both action properties of run `lifecycle` for
any number of servers. The key is `OnePort`: two listening sockets never coexist, so only one
server at a time is where the pid file is written; `ChildHolds` (a child holds the socket only
before it executes) and `Writing` (an open pid file is the one that has the name, or has been
unlinked) complete the induction.

### The causes of the findings

For five of the six runs that end in a violation, for one of the known races and for the lost
name of run `lifecycle`, a theorem names the step that does the harm: if the program never took
it in the state that the theorem names, the property would hold in every interleaving. Each condition is put beside the specification,
`Spec /\ [][Condition]_vars`; it restricts one action (in `AloneKeepsFiles` two), and the behaviours that meet it include
whole lives of a job, a connection or a script.

| Theorem | If ... | then ... |
|---|---|---|
| `LateVerdictIsRight` | the monitor decided only after both readers have ended | `OverflowReported` (run `job_overflow`) |
| `SignalsThatKnow` | signals were sent only before the monitor's `waitpid` has returned | `SignalsOwnChild` (run `job_signals`), where SIGCHLD is not ignored; `PidIsKept` is the invariant behind it |
| `WaitingPurgeIsSafe` | a purge destroyed the Job only after the monitor has closed the pipes and the main thread has answered | `PurgeKeepsServer` (run `job_purge`), and no thread or task is left with a destroyed Job |
| `RepliesReachTheirOwn` | no second close met a number in use | `ReplyToOwn` (run `server_reply`) |
| `AloneKeepsFiles` | no upload or delete began while another task was at work on its id | `StoredHasFile` (run `store_files`), through any failed calls and deaths of the server |
| `UnlinkAloneKeepsNames` | no server had opened the pid file between another's close of its socket and its unlink | the pid file would name every server that serves, not only no other (`NameLostToUnlink` says who takes the name away) |
| `OnlyCleanupDangles` | `cleanup` spared scripts that are pointed to, or that a run, a delete or a listing has found | no pointer to a Script would dangle, the fourth race of `OnlyKnownRaces` |

The sixth, `store_delete`, needs none: `DeletesWork` says when an undisturbed delete leaves the
directory behind, and the code answers 200 then as always.

`TasksKeepTheirJob` belongs to them: a terminate or an output copy needs no such condition, since
`Job::mutex` keeps every purge away while it runs.

Model-checked only: the liveness properties, since liveness under fairness is out of the
prover's reach (`EventuallySettled`, `EventuallyReleased`, `RunAnswered`, `Served`, `HungUp`,
`BodyEnds`, `PortReleased`, `AlwaysAnswered`); and the premise of `RightInPieces`, since what a
search and a split make of a text is induction over data. The one assumption about clients is
`Honest` in `HonestBodiesEnd`, a hypothesis of that theorem alone.

## 5. Not modelled

* Jobs whose server has gone: nobody times them out or reads their pipes. The abort of `exit`
  and the death of a server are in `Lifecycle`; what a script does after that is its own affair.
* A client that sends nothing holds up the main thread: `Server` and `Requests` assume that
  clients send or close.
* The parsing of the port number, the wording of replies and listings, times, syslog: no
  state, no interleaving of their own.
* The contents of an output while it is copied beside an append, and the outcomes of
  undefined behaviour in general, end the model (`server # "up"`).
* A process that runs as root, a disk that other programs change, `fork` in a thread that
  holds a lock of the C library.
* Tests, sample scripts, Makefile.

## 6. Plan

Done: the seven models with their runs, the refinement of `JobSpec`, six modules of proofs; every
safety property that a passing run checks is a theorem (`AnsweredAsAsked` under the premise
named above). Left: conditions on the first three known races; theorems
on single routes of `GetTask` in `Requests`; forms with several fields; and properties
for what the models allow for and none excludes (the hazards of `PROJECT.json` that have only a
note): `/terminate` answers before the job has ended, the script table changes under the SIGINT
walk, a write is lost when the file is closed.
