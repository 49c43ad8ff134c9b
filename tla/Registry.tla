------------------------------ MODULE Registry -------------------------------
(***************************************************************************)
(* The two shared tables of the server, Script::scripts and Job::jobs, the *)
(* two mutexes that guard them, and the count n_jobs that ties them: a     *)
(* Script object is pointed to by every job run from it.  The main thread  *)
(* executes RunTask inline; every other task runs in a thread of its own.  *)
(* What a job does between its launch and its end is module Job's; the     *)
(* files behind a script are reduced to an upload that succeeds or fails.  *)
(* A section under Script::mutex takes a step for each access to the table *)
(* or to a Script, since UploadTask::cleanup, which takes no lock, may be  *)
(* at work on the same slot in between; its reset has a beginning and an   *)
(* end.  A lookup that answers 404 changes nothing and has no action.      *)
(***************************************************************************)
EXTENDS Naturals, FiniteSets

CONSTANTS
  Scripts,      \* bound: the Script objects the server ever allocates
  Pids,         \* the process ids of the kernel: the keys of Job::jobs
  Workers,      \* the task threads that run at the same time
  MaxJobs,      \* Job::MAX_JOBS
  Null,         \* the null pointer
  Main          \* the main thread

ASSUME RegistryAssumption ==
  /\ IsFiniteSet(Scripts) /\ IsFiniteSet(Pids) /\ IsFiniteSet(Workers)
  /\ Null \notin Scripts \cup Pids
  /\ Main \notin Pids \cup Workers /\ Pids \cap Workers = {}
  /\ MaxJobs \in Nat

VARIABLES
  scripts,      \* Script::scripts, by id; slot 0 is never used
  size,         \* Script::scripts.size(); the slots from there on do not exist yet
  fate,         \* of each Script object: "unused", then "partial" until its upload
                \* is answered with 200 and it is "stored", and freed at last: it
                \* is "deleted" by /delete or "cleaned" by a failed upload
  n_jobs,       \* of each Script object
  jobs,         \* Job::jobs: for each pid the script of its job, or Null
  mpc, mscript, mpid,   \* RunTask: where it is, its script, the forked pid
  pc,           \* where each task thread is
  id,           \* the slot that an upload, a delete or a listing is at, or 0
  mine,         \* the object an upload has created, a delete has found and then
                \* removed, or a listing is formatting
  dropped,      \* the script pointer a purge has saved
  server        \* "up" or "undefined" (freed or corrupted memory was used)

scriptVars == <<scripts, size, fate>>
jobVars    == <<jobs>>
mainVars   == <<mpc, mscript, mpid>>
taskVars   == <<pc, id, mine, dropped>>
vars == <<scriptVars, n_jobs, jobVars, mainVars, taskVars, server>>

Ids == 0..Cardinality(Scripts)

Sections == {"scan", "dlock", "slist"}      \* of task threads, under Script::mutex
ScriptsMutexFree == mpc # "find" /\ \A w \in Workers : pc[w] \notin Sections
JobsMutexFree    == \A w \in Workers : pc[w] \notin {"jlist", "purge"}

(* Who points to a script: the jobs in the table, a purge that has removed    *)
(* one, and the RunTask that has counted a job and not yet inserted it.       *)
Users(s) == {p \in Pids : jobs[p] = s} \cup {w \in Workers : dropped[w] = s}
              \cup {t \in {Main} : mscript = s /\ mpc # "find"}

Live(s) == fate[s] \in {"partial", "stored"}

JobCount == Cardinality({p \in Pids : jobs[p] # Null})

(* What cleanup is at work on, with no lock: a slot whose reset has begun, and *)
(* a script that is freed or may be so at any moment.                         *)
Torn(i)   == \E w \in Workers : pc[w] = "reset" /\ id[w] = i
Unsafe(s) == ~Live(s) \/ \E i \in Ids : scripts[i] = s /\ Torn(i)

Init ==
  /\ scripts = [i \in Ids |-> Null] /\ size = 1
  /\ fate = [s \in Scripts |-> "unused"] /\ n_jobs = [s \in Scripts |-> 0]
  /\ jobs = [p \in Pids |-> Null]
  /\ mpc = "idle" /\ mscript = Null /\ mpid = Null
  /\ pc = [w \in Workers |-> "idle"] /\ id = [w \in Workers |-> 0]
  /\ mine = [w \in Workers |-> Null] /\ dropped = mine
  /\ server = "up"

Go(w, from, to) == pc[w] = from /\ pc' = [pc EXCEPT ![w] = to]

(* The outcome of an access that may be to freed or torn memory.              *)
Outcome(bad) == IF bad THEN {"up", "undefined"} ELSE {"up"}

(* --script->n_jobs, through a pointer that may dangle.                       *)
Release(s) ==
  /\ n_jobs' = IF Live(s) THEN [n_jobs EXCEPT ![s] = @ - 1] ELSE n_jobs
  /\ server' \in Outcome(Unsafe(s))
-----------------------------------------------------------------------------
(* RunTask::execute and Job::launch, in the main thread.                      *)

RunFinds(i) ==
  /\ mpc = "idle" /\ ScriptsMutexFree /\ i < size /\ scripts[i] # Null
  /\ mscript' = scripts[i] /\ mpc' = "find"
  /\ server' \in Outcome(Torn(i))
  /\ UNCHANGED <<scriptVars, n_jobs, jobVars, mpid, taskVars>>

PinMut(s) == n_jobs
Pin(s) == IF Live(s) THEN [n_jobs EXCEPT ![s] = @ + 1] ELSE n_jobs

(* ++script->n_jobs, and the end of the section.                              *)
RunCounts ==
  /\ mpc = "find" /\ mpc' = "check"
  /\ n_jobs' = Pin(mscript)
  /\ server' \in Outcome(Unsafe(mscript))
  /\ UNCHANGED <<scriptVars, jobVars, mscript, mpid, taskVars>>

FullMut == JobCount > MaxJobs
Full == JobCount >= MaxJobs

CheckLimit ==
  /\ mpc = "check" /\ JobsMutexFree
  /\ mpc' = IF Full THEN "refuse" ELSE "fork"
  /\ UNCHANGED <<scriptVars, n_jobs, jobVars, mscript, mpid, taskVars, server>>

(* No pipe, no second pipe or no process: what was opened is closed again.    *)
LaunchFails ==
  /\ mpc = "fork" /\ mpc' = "refuse"
  /\ UNCHANGED <<scriptVars, n_jobs, jobVars, mscript, mpid, taskVars, server>>

(* The kernel gives any pid whose process has been reaped; the monitor that    *)
(* reaps it, module Job's, may have done so at any time since its launch.      *)
Fork(p) ==
  /\ mpc = "fork"
  /\ mpid' = p /\ mpc' = "emplace"
  /\ UNCHANGED <<scriptVars, n_jobs, jobs, mscript, taskVars, server>>

(* The insertion takes no lock.                                               *)
Emplace ==
  /\ mpc = "emplace" /\ jobs[mpid] = Null
  /\ jobs' = [jobs EXCEPT ![mpid] = mscript]
  /\ mscript' = Null /\ mpid' = Null /\ mpc' = "idle"
  /\ server' \in Outcome(~JobsMutexFree)
  /\ UNCHANGED <<scriptVars, n_jobs, taskVars>>

(* The key is that of a finished job that was never purged: emplace inserts   *)
(* nothing, the new Job is destroyed, and start_monitors runs on it.          *)
EmplaceTaken ==
  /\ mpc = "emplace" /\ jobs[mpid] # Null
  /\ server' = "undefined"
  /\ UNCHANGED <<scriptVars, n_jobs, jobVars, mainVars, taskVars>>

RunRefused ==
  /\ mpc = "refuse" /\ Release(mscript)
  /\ mscript' = Null /\ mpc' = "idle"
  /\ UNCHANGED <<scriptVars, jobVars, mpid, taskVars>>

-----------------------------------------------------------------------------
(* UploadTask::execute and cleanup.                                           *)

(* The search for the first free slot, a slot a step.                         *)
UploadLocks(w) ==
  /\ ScriptsMutexFree /\ \E s \in Scripts : fate[s] = "unused"
  /\ Go(w, "idle", "scan") /\ id' = [id EXCEPT ![w] = 1]
  /\ UNCHANGED <<scriptVars, n_jobs, jobVars, mainVars, mine, dropped, server>>

TakenMut(i) == i + 1 < size /\ scripts[i] # Null     \* stops a slot too early
Taken(i) == i < size /\ scripts[i] # Null

UploadPasses(w) ==
  /\ pc[w] = "scan" /\ Taken(id[w])
  /\ id' = [id EXCEPT ![w] = @ + 1]
  /\ server' \in Outcome(Torn(id[w]))
  /\ UNCHANGED <<scriptVars, n_jobs, jobVars, mainVars, pc, mine, dropped>>

(* Into the free slot, or by emplace_back, which may move the whole vector.   *)
UploadPlaces(w, s) ==
  /\ Go(w, "scan", "store") /\ id[w] \in Ids /\ ~Taken(id[w])
  /\ fate[s] = "unused" /\ fate' = [fate EXCEPT ![s] = "partial"]
  /\ scripts' = [scripts EXCEPT ![id[w]] = s]
  /\ size' = IF id[w] = size THEN size + 1 ELSE size
  /\ mine' = [mine EXCEPT ![w] = s]
  /\ server' \in Outcome(\E i \in Ids : Torn(i) /\ id[w] \in {i, size})
  /\ UNCHANGED <<n_jobs, jobVars, mainVars, id, dropped>>

UploadStored(w) ==
  /\ Go(w, "store", "idle")
  /\ fate' = IF Live(mine[w]) THEN [fate EXCEPT ![mine[w]] = "stored"] ELSE fate
  /\ mine' = [mine EXCEPT ![w] = Null] /\ id' = [id EXCEPT ![w] = 0]
  /\ UNCHANGED <<scripts, size, n_jobs, jobVars, mainVars, dropped, server>>

(* scripts[which].reset(), by index and without the lock: it destroys what    *)
(* the slot holds by now.                                                     *)
CleanupBegins(w) ==
  /\ Go(w, "store", "reset")
  /\ server' \in Outcome(Torn(id[w]))
  /\ UNCHANGED <<scriptVars, n_jobs, jobVars, mainVars, id, mine, dropped>>

UploadFails(w) ==
  /\ Go(w, "reset", "idle")
  /\ scripts' = [scripts EXCEPT ![id[w]] = Null]
  /\ fate' = [s \in Scripts |-> IF s = scripts[id[w]] THEN "cleaned" ELSE fate[s]]
  /\ mine' = [mine EXCEPT ![w] = Null] /\ id' = [id EXCEPT ![w] = 0]
  /\ UNCHANGED <<size, n_jobs, jobVars, mainVars, dropped, server>>
-----------------------------------------------------------------------------
(* DeleteTask::execute: the slot is emptied under the lock, the files are     *)
(* removed and the object is freed after it.                                  *)

DeleteFinds(w, i) ==
  /\ ScriptsMutexFree /\ i < size /\ scripts[i] # Null
  /\ Go(w, "idle", "dlock")
  /\ id' = [id EXCEPT ![w] = i] /\ mine' = [mine EXCEPT ![w] = scripts[i]]
  /\ server' \in Outcome(Torn(i))
  /\ UNCHANGED <<scriptVars, n_jobs, jobVars, mainVars, dropped>>

InUseMut(s) == n_jobs[s] > 1
InUse(s) == n_jobs[s] > 0

(* The count of a script that has been freed may be anything.                 *)
DeleteRefused(w) ==
  /\ Go(w, "dlock", "idle") /\ (InUse(mine[w]) \/ ~Live(mine[w]))
  /\ id' = [id EXCEPT ![w] = 0] /\ mine' = [mine EXCEPT ![w] = Null]
  /\ server' \in Outcome(Unsafe(mine[w]))
  /\ UNCHANGED <<scriptVars, n_jobs, jobVars, mainVars, dropped>>

(* What is moved out is what the slot holds by now: nothing, when cleanup has *)
(* emptied it since.                                                          *)
DeleteTakes(w) ==
  /\ Go(w, "dlock", "unlink") /\ (~InUse(mine[w]) \/ ~Live(mine[w]))
  /\ mine' = [mine EXCEPT ![w] = scripts[id[w]]]
  /\ scripts' = [scripts EXCEPT ![id[w]] = Null]
  /\ id' = [id EXCEPT ![w] = 0]
  /\ server' \in Outcome(Unsafe(mine[w]) \/ Torn(id[w]))
  /\ UNCHANGED <<size, fate, n_jobs, jobVars, mainVars, dropped>>

DeleteFrees(w) ==
  /\ Go(w, "unlink", "idle")
  /\ fate' = [s \in Scripts |-> IF s = mine[w] THEN "deleted" ELSE fate[s]]
  /\ mine' = [mine EXCEPT ![w] = Null]
  /\ UNCHANGED <<scripts, size, n_jobs, jobVars, mainVars, id, dropped, server>>
-----------------------------------------------------------------------------
(* ScriptListTask formats the entries in turn, under Script::mutex.           *)

Entry(i) == IF i < size THEN scripts[i] ELSE Null

ScriptsLock(w) ==
  /\ ScriptsMutexFree /\ Go(w, "idle", "slist")
  /\ id' = [id EXCEPT ![w] = 1] /\ mine' = [mine EXCEPT ![w] = Entry(1)]
  /\ UNCHANGED <<scriptVars, n_jobs, jobVars, mainVars, dropped, server>>

ListNext(w) ==
  /\ pc[w] = "slist" /\ id[w] < size
  /\ id' = [id EXCEPT ![w] = @ + 1] /\ mine' = [mine EXCEPT ![w] = Entry(id[w] + 1)]
  /\ server' \in Outcome(Torn(id[w]) \/ (mine[w] # Null /\ Unsafe(mine[w])))
  /\ UNCHANGED <<scriptVars, n_jobs, jobVars, mainVars, pc, dropped>>

ScriptsUnlock(w) ==
  /\ Go(w, "slist", "idle") /\ id[w] = size
  /\ id' = [id EXCEPT ![w] = 0] /\ mine' = [mine EXCEPT ![w] = Null]
  /\ UNCHANGED <<scriptVars, n_jobs, jobVars, mainVars, dropped, server>>
-----------------------------------------------------------------------------
(* JobListTask and JobStatusTask hold Job::mutex while they read the jobs and  *)
(* the scripts they point to; TerminateTask, StdoutTask and StderrTask hold it *)
(* as long and read less.                                                      *)

JobsLock(w) ==
  /\ JobsMutexFree /\ Go(w, "idle", "jlist")
  /\ UNCHANGED <<scriptVars, n_jobs, jobVars, mainVars, id, mine, dropped, server>>

JobsUnlock(w) ==
  /\ Go(w, "jlist", "idle")
  /\ server' \in Outcome(\E p \in Pids : jobs[p] # Null /\ Unsafe(jobs[p]))
  /\ UNCHANGED <<scriptVars, n_jobs, jobVars, mainVars, id, mine, dropped>>

(* PurgeJobTask::execute.                                                      *)
PurgeLocks(w) ==
  /\ JobsMutexFree /\ Go(w, "idle", "purge")
  /\ UNCHANGED <<scriptVars, n_jobs, jobVars, mainVars, id, mine, dropped, server>>

AfterMissingMut == "purge"                 \* an early return that keeps the lock
NoReturnMut == "drop"                      \* no early return
AfterMissing == "idle"

PurgeMisses(w, p) ==
  /\ jobs[p] = Null /\ Go(w, "purge", AfterMissing)
  /\ UNCHANGED <<scriptVars, n_jobs, jobVars, mainVars, id, mine, dropped, server>>

PurgeTakes(w, p) ==
  /\ jobs[p] # Null /\ Go(w, "purge", "drop")
  /\ dropped' = [dropped EXCEPT ![w] = jobs[p]]
  /\ jobs' = [jobs EXCEPT ![p] = Null]
  /\ UNCHANGED <<scriptVars, n_jobs, mainVars, id, mine, server>>

PurgeDrops(w) ==
  /\ Go(w, "drop", "idle") /\ Release(dropped[w])
  /\ dropped' = [dropped EXCEPT ![w] = Null]
  /\ UNCHANGED <<scriptVars, jobVars, mainVars, id, mine>>
-----------------------------------------------------------------------------
RunTask == \/ \E i \in Ids : RunFinds(i)
           \/ RunCounts \/ CheckLimit \/ LaunchFails \/ Emplace \/ EmplaceTaken \/ RunRefused
           \/ \E p \in Pids : Fork(p)
Upload(w) == \/ UploadLocks(w) \/ UploadPasses(w) \/ UploadStored(w)
             \/ CleanupBegins(w) \/ UploadFails(w)
             \/ \E s \in Scripts : UploadPlaces(w, s)
Delete(w) == \/ DeleteRefused(w) \/ DeleteTakes(w) \/ DeleteFrees(w)
             \/ \E i \in Ids : DeleteFinds(w, i)
List(w)   == \/ ScriptsLock(w) \/ ListNext(w) \/ ScriptsUnlock(w)
             \/ JobsLock(w) \/ JobsUnlock(w)
Purge(w)  == \/ PurgeLocks(w) \/ PurgeDrops(w)
             \/ \E p \in Pids : PurgeTakes(w, p) \/ PurgeMisses(w, p)

Step ==
  /\ server = "up"
  /\ \/ RunTask
     \/ \E w \in Workers : Upload(w) \/ Delete(w) \/ List(w) \/ Purge(w)

Over == server # "up" /\ UNCHANGED vars      \* nothing more can be said
Next == Step \/ Over

(* A thread that started a task goes on with it, and a lock that is released   *)
(* again and again is eventually obtained.                                     *)
Started(w) == pc[w] # "idle" /\ (Upload(w) \/ Delete(w) \/ List(w) \/ Purge(w))
Fairness ==
  /\ SF_vars(server = "up" /\ mpc # "idle" /\ RunTask)
  /\ \A w \in Workers : WF_vars(server = "up" /\ Started(w))

Spec     == Init /\ [][Next]_vars
FairSpec == Spec /\ Fairness
-----------------------------------------------------------------------------
(* Properties.                                                                 *)

(* Types, and what a thread has in hand at each point of its task.             *)
TableType ==
  /\ scripts \in [Ids -> Scripts \cup {Null}]
  /\ size \in 1..(Cardinality(Scripts) + 1)
  /\ fate \in [Scripts -> {"unused", "partial", "stored", "deleted", "cleaned"}]
  /\ n_jobs \in [Scripts -> Nat]
  /\ jobs \in [Pids -> Scripts \cup {Null}]
MainType ==
  /\ mpc \in {"idle", "find", "check", "fork", "emplace", "refuse"}
  /\ mscript \in Scripts \cup {Null} /\ mpid \in Pids \cup {Null}
  /\ mpid # Null <=> mpc = "emplace"
  /\ mscript # Null <=> mpc # "idle"
TaskType ==
  /\ pc \in [Workers -> Sections \cup {"idle", "store", "reset", "unlink", "jlist", "purge",
                                       "drop"}]
  /\ id \in [Workers -> Ids \cup {size}]
  /\ mine \in [Workers -> Scripts \cup {Null}]
  /\ \A w \in Workers :
       /\ pc[w] \in {"store", "reset", "dlock"} => mine[w] # Null /\ id[w] \in Ids
       /\ mine[w] # Null => pc[w] \in {"store", "reset", "dlock", "unlink", "slist"}
  /\ dropped \in [Workers -> Scripts \cup {Null}]
  /\ \A w \in Workers : dropped[w] # Null <=> pc[w] = "drop"
TypeOK == TableType /\ MainType /\ TaskType /\ server \in {"up", "undefined"}

(* n_jobs is the number of pointers to the script, at every moment of a run,    *)
(* a refusal or a purge: nothing is counted twice and nothing is left counted.  *)
NJobsExact == \A s \in Scripts : Live(s) => n_jobs[s] = Cardinality(Users(s))

(* A script that /delete has taken is pointed to by nobody, from the moment it  *)
(* leaves the table: no job can reach freed memory through a delete.            *)
Removed(s) == fate[s] = "deleted" \/ \E w \in Workers : pc[w] = "unlink" /\ mine[w] = s
DeletedIsUnused == \A s \in Scripts : Removed(s) => Users(s) = {}

(* At most MAX_JOBS jobs, the one that is being launched included, although the *)
(* check and the insertion are apart: who passes the check finds its room when  *)
(* it inserts, since only the main thread does.                                 *)
JobsBounded ==
  JobCount + (IF mpc \in {"fork", "emplace"} THEN 1 ELSE 0) <= MaxJobs

(* Every Script object has one owner, its slot or the delete that took it out,  *)
(* from its upload to its end, whichever uploads, deletes and failed uploads    *)
(* overlap: no slot holds a dead script and no script is lost.                  *)
OneOwner ==
  \A s \in Scripts :
    LET slots   == {i \in Ids : scripts[i] = s}
        deletes == {w \in Workers : pc[w] = "unlink" /\ mine[w] = s}
    IN  Cardinality(slots) + Cardinality(deletes) = IF Live(s) THEN 1 ELSE 0

(* A run request is answered: no task keeps a lock it waits for.                *)
RunAnswered == mpc # "idle" ~> (mpc = "idle" \/ server # "up")

(* The tables are corrupted, or a freed Script is used, in four ways only:     *)
(* RunTask inserts a job while a task reads the table, or under a pid that was *)
(* never purged; a step uses a slot that a failed upload is emptying, or moves *)
(* it with the vector; a script that such an upload frees, or has freed, is    *)
(* still pointed to, by a job, a purge, a run or a section.  No delete, purge, *)
(* listing or refused run leads there by itself, in whatever order they come.  *)
(* The Job objects in the table are module Job's.                              *)
InHand(s) ==
  \/ mpc = "find" /\ mscript = s
  \/ \E w \in Workers : pc[w] \in {"dlock", "slist"} /\ mine[w] = s
Dangling(s) ==
  /\ fate[s] = "cleaned" \/ \E i \in Ids : scripts[i] = s /\ Torn(i)
  /\ Users(s) # {} \/ InHand(s)

UsesSlot(i) ==
  \/ mpc' # mpc /\ mpc' = "find" /\ mscript' = scripts[i]
  \/ \E w \in Workers :
       /\ pc'[w] # pc[w] \/ id'[w] # id[w]
       /\ \/ pc[w] = "scan" /\ id[w] \in {i, size}
          \/ pc[w] \in {"dlock", "slist"} /\ id[w] = i
          \/ pc'[w] \in {"dlock", "reset"} /\ id'[w] = i
KnownRace ==
  \/ mpc = "emplace" /\ mpc' = "idle" /\ ~JobsMutexFree
  \/ mpc = "emplace" /\ jobs[mpid] # Null
  \/ \E i \in Ids : Torn(i) /\ UsesSlot(i)
  \/ \E s \in Scripts : Dangling(s)
OnlyKnownRaces == [][server' # server => KnownRace]_vars
=============================================================================
