--------------------------------- MODULE Job ---------------------------------
(***************************************************************************)
(* One job, from the moment Job::launch has forked the child and put the   *)
(* Job object in the table: the child process and its two pipes, the two   *)
(* reader threads, the timer and the monitor of Jobs.cc, the main thread   *)
(* that is still inside launch, and the task threads that terminate, read  *)
(* or purge the job.  Every thread moves in steps as long as the code      *)
(* holds one lock or makes one system call.  Data is counted, not stored:  *)
(* one unit stands for a block of bytes.                                   *)
(***************************************************************************)
EXTENDS Naturals

CONSTANTS
  OutputLimit,      \* Job::OUTPUT_LIMIT
  BufSize,          \* sizeof(buffer) in read_all
  PipeCapacity,     \* what the kernel buffers before a writer blocks
  MaxOutput,        \* bound: how much the script writes on each stream
  ExitCodes,        \* the codes the script may exit with
  Daemons,          \* may the script leave a process that keeps the pipes open?
  SigchldIgnored    \* was the server started with SIGCHLD ignored?

Streams == {"stdout", "stderr"}
Workers == Streams \cup {"timer"}          \* the std::thread members of Job
NotRunnable == 127                         \* Job::COMMAND_NOT_RUNNABLE
Signaled == 256                            \* no exit code: killed by a signal,
Alive == 257                               \* or not ended yet

ASSUME LimitAssumption ==
  /\ OutputLimit \in Nat /\ BufSize \in Nat \ {0} /\ PipeCapacity \in Nat \ {0}
  /\ MaxOutput \in [Streams -> Nat]
ASSUME EnvAssumption ==
  /\ ExitCodes \subseteq 0..255
  /\ Daemons \in BOOLEAN /\ SigchldIgnored \in BOOLEAN

VARIABLES
  pid,          \* who owns the pid: the "child", its "zombie", nobody ("free")
                \* or a "stranger" the kernel gave the number to later
  pending,      \* the strongest signal not yet acted upon by the child
  wstatus,      \* how the child ended: an exit code, Signaled, or Alive
  daemon,       \* a descendant of the child still holds the write ends
  pipe,         \* units in each pipe
  written,      \* units ever written on each stream
  data,         \* units in stdout_data and stderr_data
  output_limit_exceeded, timed_out, finished, status, result,
  obj,          \* the Job object: in the "table", "held" by purge, "destroyed"
  pc,           \* where each thread is
  server        \* "up", "aborted" (std::terminate) or "undefined" (memory
                \* used after it was freed, or corrupted)

kernelVars == <<pid, pending, wstatus, daemon>>
pipeVars   == <<pipe, written>>
flagVars   == <<output_limit_exceeded, timed_out, finished>>
vars == <<kernelVars, pipeVars, data, flagVars, status, result, obj, pc, server>>

Tasks   == {"terminate", "getter", "purge"}
Threads == Workers \cup Tasks \cup {"launcher", "monitor"}

Go(t, from, to) == pc[t] = from /\ pc' = [pc EXCEPT ![t] = to]

(* Job::mutex is held across a whole terminate or output task, and           *)
(* state_mutex while get_stdout or get_stderr copies.                        *)
JobsMutexFree  == pc["terminate"] = "idle" /\ pc["getter"] = "idle"
StateMutexFree == pc["getter"] = "idle"

Init ==
  /\ pid = "child" /\ pending = "none" /\ wstatus = Alive /\ daemon = FALSE
  /\ pipe = [s \in Streams |-> 0] /\ written = pipe /\ data = pipe
  /\ output_limit_exceeded = FALSE /\ timed_out = FALSE /\ finished = FALSE
  /\ status = "RUNNING" /\ result = 0 /\ obj = "table"
  /\ pc = [t \in Threads |-> IF t = "launcher" THEN "start"
                             ELSE IF t \in Tasks THEN "idle" ELSE "unstarted"]
  /\ server = "up"
-----------------------------------------------------------------------------
(* The child and the kernel.                                                 *)

(* The script, or a process it left behind, writes one unit.                 *)
Write(s) ==
  /\ pid = "child" \/ daemon
  /\ pc["monitor"] # "done"                \* the read end is still open
  /\ pipe[s] < PipeCapacity /\ written[s] < MaxOutput[s]
  /\ pipe' = [pipe EXCEPT ![s] = @ + 1]
  /\ written' = [written EXCEPT ![s] = @ + 1]
  /\ UNCHANGED <<kernelVars, data, flagVars, status, result, obj, pc, server>>

(* With SIGCHLD ignored the kernel reaps the child itself.                   *)
ChildEnds(how) ==
  /\ pid = "child"
  /\ pid' = IF SigchldIgnored THEN "free" ELSE "zombie"
  /\ wstatus' = how /\ pending' = "none"
  /\ daemon' \in IF Daemons THEN BOOLEAN ELSE {FALSE}
  /\ UNCHANGED <<pipeVars, data, flagVars, status, result, obj, pc, server>>

(* exec_child: the script runs and exits with a code of its own, or python3  *)
(* cannot be run and the child exits with 127.                               *)
ChildExits == \E code \in ExitCodes \cup {NotRunnable} : ChildEnds(code)
ChildDies  == pending # "none" /\ ChildEnds(Signaled)

ChildIgnoresTerm ==
  /\ pid = "child" /\ pending = "term" /\ pending' = "none"
  /\ UNCHANGED <<pid, wstatus, daemon, pipeVars, data, flagVars, status, result,
                 obj, pc, server>>

DaemonExits ==
  /\ daemon /\ daemon' = FALSE
  /\ UNCHANGED <<pid, pending, wstatus, pipeVars, data, flagVars, status, result,
                 obj, pc, server>>

PidReused ==
  /\ pid = "free" /\ pid' = "stranger"
  /\ UNCHANGED <<pending, wstatus, daemon, pipeVars, data, flagVars, status,
                 result, obj, pc, server>>
-----------------------------------------------------------------------------
(* Job::terminate, the same three statements in every thread that calls it.  *)

LastSignalMut == "term"
LastSignal == "kill"

(* ::kill(pid, sig): a pid number, not a process, is what it is given.       *)
Kill(sig) ==
  /\ pending' = IF pid = "child" /\ pending # "kill" THEN sig ELSE pending
  /\ UNCHANGED <<pid, wstatus, daemon, pipeVars, data, flagVars, status, result,
                 obj, server>>

AfterTerminate(t) ==
  IF t = "terminate" THEN "idle" ELSE IF t = "purge" THEN "drop" ELSE "exit"
Killers == Workers \cup {"terminate", "purge"}

SendTerm(t) == Go(t, "term", "grace") /\ Kill("term")
SendKill(t) == Go(t, "grace", AfterTerminate(t)) /\ Kill(LastSignal)
-----------------------------------------------------------------------------
(* The main thread: the end of Job::launch, then the reply of RunTask.       *)

StartMonitors ==
  /\ pc["launcher"] = "start"
  /\ server' = IF obj = "destroyed" THEN "undefined" ELSE server
  /\ pc' = [pc EXCEPT !["stdout"] = "read", !["stderr"] = "read", !["timer"] = "wait",
                      !["monitor"] = "waitpid", !["launcher"] = "reply"]
  /\ UNCHANGED <<kernelVars, pipeVars, data, flagVars, status, result, obj>>

(* An access to the object that may come after its destruction.              *)
Touch == server' \in IF obj = "destroyed" THEN {"up", "undefined"} ELSE {"up"}

LauncherReplies ==
  /\ Go("launcher", "reply", "done") /\ Touch      \* job->get_pid()
  /\ UNCHANGED <<kernelVars, pipeVars, data, flagVars, status, result, obj>>
-----------------------------------------------------------------------------
(* The reader threads: Job::read_all.                                        *)

Smaller(a, b) == IF a <= b THEN a ELSE b

OverLimitMut(have, n) == have > OutputLimit \/ n >= OutputLimit - have
OverLimit(have, n) == have > OutputLimit \/ n > OutputLimit - have
KeptMut(have, n) == IF OverLimit(have, n) THEN 0 ELSE n
Kept(have, n) == IF have > OutputLimit THEN 0 ELSE Smaller(OutputLimit - have, n)

(* A read and the append to the string, which no lock protects.              *)
ReadChunk(s) ==
  /\ pc[s] = "read" /\ pipe[s] > 0
  /\ \E n \in 1..Smaller(pipe[s], BufSize) :
       /\ pipe' = [pipe EXCEPT ![s] = @ - n]
       /\ data' = [data EXCEPT ![s] = @ + Kept(@, n)]
       /\ pc' = [pc EXCEPT ![s] = IF OverLimit(data[s], n) THEN "limit" ELSE @]
  /\ server' \in IF pc["getter"] = s THEN {"up", "undefined"} ELSE {"up"}
  /\ UNCHANGED <<kernelVars, written, flagVars, status, result, obj>>

EndOfFileMut(s) == FALSE                   \* launch keeps its own write ends
EndOfFile(s) == pipe[s] = 0 /\ pid # "child" /\ ~daemon

ReadEnds(s) ==
  /\ EndOfFile(s) /\ Go(s, "read", "exit")
  /\ UNCHANGED <<kernelVars, pipeVars, data, flagVars, status, result, obj, server>>

LimitHit(s) ==
  /\ Go(s, "limit", "term")
  /\ output_limit_exceeded' = TRUE
  /\ UNCHANGED <<kernelVars, pipeVars, data, timed_out, finished, status, result,
                 obj, server>>
-----------------------------------------------------------------------------
(* The timer thread: Job::timer_fn.                                          *)

TimerWoken ==
  /\ StateMutexFree /\ finished /\ Go("timer", "wait", "exit")
  /\ UNCHANGED <<kernelVars, pipeVars, data, flagVars, status, result, obj, server>>

MayTimeOutMut == TRUE                      \* wait_for without its predicate
MayTimeOut == ~finished

TimerFires ==
  /\ StateMutexFree /\ MayTimeOut /\ Go("timer", "wait", "term")
  /\ timed_out' = TRUE
  /\ UNCHANGED <<kernelVars, pipeVars, data, output_limit_exceeded, finished,
                 status, result, obj, server>>
-----------------------------------------------------------------------------
(* The monitor thread: Job::monitor_fn.                                      *)

WaitableMut == TRUE                        \* waitpid with WNOHANG
Waitable == pid # "child"

WaitPid ==
  /\ Waitable /\ Go("monitor", "waitpid", "decide")
  /\ pid' = IF pid = "zombie" THEN "free" ELSE pid
  /\ UNCHANGED <<pending, wstatus, daemon, pipeVars, data, flagVars, status,
                 result, obj, server>>

ExitedMut == wstatus # NotRunnable         \* WIFEXITED is not asked
Exited == wstatus \in ExitCodes \ {NotRunnable}

Verdict ==
  IF SigchldIgnored THEN "FAILED"          \* waitpid: ECHILD
  ELSE IF timed_out THEN "TIMED_OUT"
  ELSE IF output_limit_exceeded THEN "OUTPUT_LIMITED"
  ELSE IF Exited THEN "FINISHED" ELSE "TERMINATED"

Decide ==
  /\ StateMutexFree /\ Go("monitor", "decide", "join_stdout")
  /\ finished' = TRUE
  /\ status' = Verdict
  /\ result' = IF Verdict = "FINISHED" THEN wstatus ELSE result
  /\ UNCHANGED <<kernelVars, pipeVars, data, output_limit_exceeded, timed_out, obj,
                 server>>

JoinsMut(t) == t = "timer" \/ pc[t] = "exit"   \* the timer is left to itself
Joins(t) == pc[t] = "exit"

JoinNext(t, from, to) ==
  /\ Joins(t) /\ Go("monitor", from, to)
  /\ UNCHANGED <<kernelVars, pipeVars, data, flagVars, status, result, obj, server>>

CloseFds ==
  /\ Go("monitor", "close", "done") /\ Touch       \* stdout_fd, stderr_fd
  /\ UNCHANGED <<kernelVars, pipeVars, data, flagVars, status, result, obj>>

Joinable(t) ==
  /\ pc[t] # "unstarted"
  /\ pc["monitor"] \notin {"close", "done"}
  /\ t = "stdout" => pc["monitor"] \notin {"join_stderr", "join_timer"}
  /\ t = "stderr" => pc["monitor"] # "join_timer"
-----------------------------------------------------------------------------
(* The task threads: TerminateTask, StdoutTask and StderrTask, PurgeJobTask. *)

Terminate ==
  /\ JobsMutexFree /\ obj = "table" /\ Go("terminate", "idle", "term")
  /\ UNCHANGED <<kernelVars, pipeVars, data, flagVars, status, result, obj, server>>

CopyBegins(s) ==
  /\ JobsMutexFree /\ obj = "table" /\ Go("getter", "idle", s)
  /\ UNCHANGED <<kernelVars, pipeVars, data, flagVars, status, result, obj, server>>

CopyEnds(s) ==
  /\ Go("getter", s, "idle")
  /\ UNCHANGED <<kernelVars, pipeVars, data, flagVars, status, result, obj, server>>

PurgeTakes ==
  /\ JobsMutexFree /\ obj = "table"
  /\ Go("purge", "idle", IF status = "RUNNING" THEN "term" ELSE "drop")
  /\ obj' = "held"
  /\ UNCHANGED <<kernelVars, pipeVars, data, flagVars, status, result, server>>

(* ~Job: destroying a joinable std::thread calls std::terminate.             *)
PurgeDrops ==
  /\ Go("purge", "drop", "done")
  /\ obj' = "destroyed"
  /\ server' = IF \E t \in Workers : Joinable(t) THEN "aborted" ELSE "up"
  /\ UNCHANGED <<kernelVars, pipeVars, data, flagVars, status, result>>
-----------------------------------------------------------------------------
(* What JobStatusTask, StdoutTask and StderrTask answer.                     *)

Visible == server = "up" /\ obj = "table"
StatusSeen == IF Visible THEN status ELSE IF server = "up" THEN "PURGED" ELSE "DOWN"
ResultSeen == IF Visible THEN result ELSE 0
OutputSeen == [s \in Streams |-> IF Visible THEN data[s] ELSE 0]
-----------------------------------------------------------------------------
Child    == (\E s \in Streams : Write(s)) \/ ChildExits \/ ChildDies
              \/ ChildIgnoresTerm \/ DaemonExits \/ PidReused
Launcher == StartMonitors \/ LauncherReplies
Reader(s) == ReadChunk(s) \/ ReadEnds(s) \/ LimitHit(s)
Timer    == TimerWoken \/ TimerFires
Monitor  == \/ WaitPid \/ Decide \/ CloseFds
            \/ JoinNext("stdout", "join_stdout", "join_stderr")
            \/ JoinNext("stderr", "join_stderr", "join_timer")
            \/ JoinNext("timer", "join_timer", "close")
Clients  == Terminate \/ (\E s \in Streams : CopyBegins(s) \/ CopyEnds(s))
              \/ PurgeTakes \/ PurgeDrops

Step ==
  /\ server = "up"
  /\ \/ Child \/ Launcher \/ Timer \/ Monitor \/ Clients
     \/ \E s \in Streams : Reader(s)
     \/ \E t \in Killers : SendTerm(t) \/ SendKill(t)

(* The job is over: nothing is left to run on its behalf.                    *)
Over ==
  /\ \/ server # "up"
     \/ /\ pc["purge"] = "done" /\ pc["monitor"] = "done" /\ pc["launcher"] = "done"
  /\ UNCHANGED vars

Next == Step \/ Over

(* Threads are scheduled, sleeps and deadlines pass, SIGKILL is delivered,   *)
(* and a thread that waits for a lock released again and again gets it.      *)
(* Nothing makes the script exit, its descendants exit, or a client act.     *)
Up(A) == server = "up" /\ A
Fairness ==
  /\ WF_vars(Up(Launcher))
  /\ \A s \in Streams : WF_vars(Up(Reader(s))) /\ WF_vars(Up(CopyEnds(s)))
  /\ \A t \in Killers : WF_vars(Up(SendTerm(t))) /\ WF_vars(Up(SendKill(t)))
  /\ SF_vars(Up(Timer))
  /\ SF_vars(Up(Monitor))
  /\ WF_vars(Up(PurgeDrops))
  /\ WF_vars(Up(pending = "kill" /\ ChildDies))

Spec     == Init /\ [][Next]_vars
FairSpec == Spec /\ Fairness
-----------------------------------------------------------------------------
(* Properties.                                                               *)

ReaderPlaces  == {"unstarted", "read", "limit", "term", "grace", "exit"}
TimerPlaces   == {"unstarted", "wait", "term", "grace", "exit"}
MonitorPlaces == {"unstarted", "waitpid", "decide", "join_stdout", "join_stderr",
                  "join_timer", "close", "done"}
PurgePlaces   == {"idle", "term", "grace", "drop", "done"}
Places == ReaderPlaces \cup TimerPlaces \cup MonitorPlaces \cup PurgePlaces
            \cup {"start", "reply"} \cup Streams

DataType ==
  /\ pid \in {"child", "zombie", "free", "stranger"}
  /\ pending \in {"none", "term", "kill"}
  /\ wstatus \in ExitCodes \cup {NotRunnable, Signaled, Alive}
  /\ pipe \in [Streams -> Nat] /\ written \in [Streams -> Nat]
  /\ data \in [Streams -> Nat]
  /\ status \in {"RUNNING", "FINISHED", "FAILED", "TERMINATED", "TIMED_OUT",
                 "OUTPUT_LIMITED"}
  /\ result \in ExitCodes \cup {0}
  /\ obj \in {"table", "held", "destroyed"}
  /\ server \in {"up", "aborted", "undefined"}
FlagType ==
  /\ output_limit_exceeded \in BOOLEAN /\ timed_out \in BOOLEAN
  /\ finished \in BOOLEAN /\ daemon \in BOOLEAN
ThreadType ==
  /\ pc \in [Threads -> Places]
  /\ \A s \in Streams : pc[s] \in ReaderPlaces
  /\ pc["timer"] \in TimerPlaces
  /\ pc["monitor"] \in MonitorPlaces
  /\ pc["launcher"] \in {"start", "reply", "done"}
  /\ pc["terminate"] \in {"idle", "term", "grace"}
  /\ pc["getter"] \in {"idle"} \cup Streams
  /\ pc["purge"] \in PurgePlaces

(* Every variable has its type, and a thread is at a point of its own code.  *)
TypeOK == DataType /\ FlagType /\ ThreadType

(* A reader thread that is over has stored exactly what the script wrote,    *)
(* cut at OUTPUT_LIMIT: no chunk is lost at the boundary or at end of file.  *)
OutputExact ==
  \A s \in Streams : pc[s] = "exit" => data[s] = Smaller(written[s], OutputLimit)

(* The limit flag, and with it OUTPUT_LIMITED, is raised only when a stream  *)
(* really carried more than the limit: filling it exactly is legal.          *)
LimitJustified ==
  output_limit_exceeded \/ status = "OUTPUT_LIMITED" =>
    \E s \in Streams : written[s] > OutputLimit

(* A job that is reported as settled has no child left, and a FINISHED one   *)
(* reports the child's own exit code.                                        *)
SettledIsDead ==
  status # "RUNNING" =>
    /\ pid # "child"
    /\ status = "FINISHED" => result = wstatus

(* Once the monitor has recorded another reason, the timer never fires: the  *)
(* two threads agree on who was first, whatever order they run in.           *)
TimerSilent == status \in {"FINISHED", "TERMINATED", "OUTPUT_LIMITED"} => ~timed_out

(* The monitor closes the pipes, and so lets the job be purged safely, only  *)
(* when no thread of the job will touch them or the Job object again.        *)
QuietWhenReleased ==
  pc["monitor"] \in {"close", "done"} => \A t \in Workers : pc[t] = "exit"

(* The job is what JobSpec promises to its clients: a verdict is final, is    *)
(* OUTPUT_LIMITED only with an output that is full, and outputs only grow,    *)
(* with the reader threads, the timer and the monitor racing and a purge or   *)
(* the end of the server coming at any moment.                                *)
Abs == INSTANCE JobSpec WITH status <- StatusSeen, result <- ResultSeen,
                             output <- OutputSeen
Implements == Abs!Spec

(* A script that never exits, and ignores SIGTERM, is settled all the same:  *)
(* the timer sees to it.                                                     *)
EventuallySettled ==
  pc["monitor"] = "waitpid" ~> (status # "RUNNING" \/ server # "up")

(* A settled job's threads all end and its pipes are closed, unless a process *)
(* that the script has left behind keeps them open: nothing else can.         *)
EventuallyReleased ==
  status # "RUNNING" ~> (pc["monitor"] = "done" \/ daemon \/ server # "up")
-----------------------------------------------------------------------------
(* What the tests and the documents say and the code does not keep.          *)

(* test.sh:384 expects a script that writes too much to be OUTPUT_LIMITED.   *)
OverflowReported == status = "FINISHED" => \A s \in Streams : written[s] <= OutputLimit

(* README.md:33 and Tasks.cc:595: what is terminated is a running process,   *)
(* so no signal of this job reaches a process that is not its child.         *)
SignalsOwnChild ==
  [][\A t \in Killers : pc[t] \in {"term", "grace"} /\ pc'[t] # pc[t] => pid # "stranger"]_vars

(* README.md:16: purging a job releases its resources; it does not end the   *)
(* server.                                                                   *)
PurgeKeepsServer == server # "aborted"
=============================================================================
