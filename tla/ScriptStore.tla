----------------------------- MODULE ScriptStore -----------------------------
(***************************************************************************)
(* The files behind Script::scripts: what UploadTask, DeleteTask and       *)
(* Script::terminate_all do to scripts/<id>/ and scripts/<id>/<name>, one  *)
(* system call a step, on top of the table of module Registry, whose       *)
(* actions are the locked parts of these tasks.  The server is not root,   *)
(* so permissions bind it.  It may end at any point and be started again:  *)
(* the table is lost and the files stay.  Runs are left to Registry.       *)
(***************************************************************************)
EXTENDS Registry

CONSTANTS
  Names,        \* file names
  NameOf,       \* the one each script is uploaded under
  Earlier,      \* stands for the scripts of earlier servers
  Used,         \* bound: the ids under which those have left something on the disk
  MaxRestarts   \* bound: how often the server is started again

Inodes == [ino : Scripts \cup {Earlier}, data : SUBSET (Scripts \cup {Earlier}),
           mode : {"rw", "w", "r"}]

ASSUME StoreAssumption ==
  /\ NameOf \in [Scripts -> Names]
  /\ Earlier \notin Scripts \cup {Null} /\ Null \notin Inodes
  /\ Used \subseteq Ids /\ MaxRestarts \in Nat

VARIABLES
  dir,          \* scripts/<id>: "absent", "open" (rwx), "locked" (r-x), or
                \* "blocked": something that is not a directory
  file,         \* scripts/<id>/<name>: Null, or the inode (the script that created
                \* it), the uploads whose data it has, and its permissions
  task,         \* of each task thread: its system call, id, script and open inode
  walk,         \* terminate_all: where it is, and whether the table has changed
                \* under it
  due,          \* history: the ids terminate_all finds at rest
  shared,       \* history: the scripts one of whose tasks has overlapped another
                \* task on the same id
  restarts

diskVars  == <<dir, file>>
storeVars == <<vars, diskVars, task, walk, due, shared, restarts>>

Slots == Ids \ {0}
NoTask == [step |-> "idle", i |-> 0, s |-> Null, ino |-> Null]
NoWalk == [step |-> "no", i |-> 0, raced |-> FALSE]

(* An earlier server may have ended in the middle of anything, so a directory *)
(* that it has left has any permissions, and a file in it or none.            *)
Leftovers == {Null} \cup [ino : {Earlier}, data : {{Earlier}}, mode : {"rw", "w", "r"}]

StoreInit ==
  /\ Init
  /\ \E d \in [Used \cap Slots -> {"absent", "open", "locked", "blocked"}] :
       dir = [i \in Slots |-> IF i \in Used THEN d[i] ELSE "absent"]
  /\ \E f \in Leftovers, m \in Names :
       file = [i \in Slots |-> [n \in Names |->
                 IF n = m /\ dir[i] \in {"open", "locked"} THEN f ELSE Null]]
  /\ task = [w \in Workers |-> NoTask]
  /\ walk = NoWalk /\ due = {} /\ shared = {} /\ restarts = 0
-----------------------------------------------------------------------------
(* The system calls.  One that fails changes nothing.                        *)

IsDir(i)     == dir[i] \in {"open", "locked"}
Exists(i, n) == file[i][n] # Null
Opens(i, n)  == IF Exists(i, n) THEN file[i][n].mode # "r" ELSE dir[i] = "open"
Removes(i, n) == Exists(i, n) /\ dir[i] = "open"
Rmdirs(i)    == IsDir(i) /\ \A n \in Names : ~Exists(i, n)

SetDir(i, ok, d) == dir' = IF ok THEN [dir EXCEPT ![i] = d] ELSE dir
SetFile(i, n, ok, f) == file' = IF ok THEN [file EXCEPT ![i][n] = f] ELSE file
Chmod(i, n, mode) ==
  file' = IF Exists(i, n) THEN [file EXCEPT ![i][n].mode = mode] ELSE file

(* The next system call of a task, and the one after a failure.              *)
Try(w, from, ok, to, otherwise) ==
  /\ task[w].step = from
  /\ task' = [task EXCEPT ![w].step = IF ok THEN to ELSE otherwise]

Id(w)   == task[w].i
Name(w) == NameOf[task[w].s]

(* A task begins on id i: tasks on the same id disturb each other.           *)
Begin(w, step, i, s) ==
  LET others == {v \in Workers \ {w} : task[v].i = i}
  IN  /\ task[w] = NoTask
      /\ task' = [task EXCEPT ![w] = [step |-> step, i |-> i, s |-> s, ino |-> Null]]
      /\ shared' = IF others = {} THEN shared
                   ELSE shared \cup {s} \cup {task[v].s : v \in others}
      /\ due' = due \ {i}

(* terminate_all holds no lock: a change of the table under it is a race.    *)
TableChanges == walk' = [walk EXCEPT !.raced = walk.step # "no"]
-----------------------------------------------------------------------------
(* UploadTask::execute.                                                      *)

OnTable == UNCHANGED <<diskVars, task, walk, due, shared, restarts>>

Search(w) == task[w] = NoTask /\ UploadLocks(w) /\ OnTable
Pass(w)   == UploadPasses(w) /\ OnTable

Claim(w, s) ==
  /\ UploadPlaces(w, s) /\ Begin(w, "stat", id[w], s) /\ TableChanges
  /\ UNCHANGED <<diskVars, restarts>>

OnDisk(w) == UNCHANGED <<vars, walk, due, shared, restarts>>

StatDir(w) ==
  /\ task[w].step = "stat"
  /\ task' = [task EXCEPT ![w].step = CASE dir[Id(w)] = "absent" -> "mkdir"
                                        [] dir[Id(w)] = "blocked" -> "cleanup"
                                        [] OTHER -> "chmod"]
  /\ OnDisk(w) /\ UNCHANGED diskVars

ChmodDir(w) ==
  /\ Try(w, "chmod", IsDir(Id(w)), "open", "cleanup")
  /\ SetDir(Id(w), IsDir(Id(w)), "open")
  /\ OnDisk(w) /\ UNCHANGED file

MkDir(w) ==
  /\ Try(w, "mkdir", dir[Id(w)] = "absent", "open", "cleanup")
  /\ SetDir(Id(w), dir[Id(w)] = "absent", "open")
  /\ OnDisk(w) /\ UNCHANGED file

(* Created, or truncated whoever has created it.                             *)
OpenedMut(i, n, s) ==                      \* appends to what is there
  IF Exists(i, n) THEN file[i][n] ELSE [ino |-> s, data |-> {}, mode |-> "rw"]
Opened(i, n, s) ==
  IF Exists(i, n) THEN [file[i][n] EXCEPT !.data = {}]
                  ELSE [ino |-> s, data |-> {}, mode |-> "rw"]

OpenFile(w, from, otherwise) ==
  LET ok == Opens(Id(w), Name(w))
      f  == Opened(Id(w), Name(w), task[w].s)
  IN  /\ task[w].step = from
      /\ task' = [task EXCEPT ![w].step = IF ok THEN "write" ELSE otherwise,
                              ![w].ino  = IF ok THEN f.ino ELSE Null]
      /\ SetFile(Id(w), Name(w), ok, f)
      /\ OnDisk(w) /\ UNCHANGED dir

AfterRefusalMut == "cleanup"               \* no second attempt
AfterRefusal == "unlock"

NoCleanupMut == "idle"                     \* a return without cleanup
AfterSecondRefusal == "cleanup"

(* The file may be there and read-only: chmod, and open again.               *)
ChmodFile(w) ==
  /\ Try(w, "unlock", TRUE, "reopen", "reopen")
  /\ Chmod(Id(w), Name(w), "w")
  /\ OnDisk(w) /\ UNCHANGED dir

(* out << script and the closing of out: the data is written to the inode,   *)
(* wherever it is by now, or lost with a disk that is full; a loss that shows *)
(* before the closing is noticed.                                            *)
WriteFile(w) ==
  /\ \/ /\ task[w].step = "write"
        /\ task' = [task EXCEPT ![w].step = "lock", ![w].ino = Null]
        /\ \/ /\ Exists(Id(w), Name(w)) /\ file[Id(w)][Name(w)].ino = task[w].ino
              /\ file' = [file EXCEPT ![Id(w)][Name(w)].data = @ \cup {task[w].s}]
           \/ UNCHANGED file
     \/ /\ task[w].step = "write" /\ UNCHANGED file
        /\ task' = [task EXCEPT ![w].step = "cleanup", ![w].ino = Null]
  /\ OnDisk(w) /\ UNCHANGED dir

LockFile(w) ==
  /\ Try(w, "lock", Exists(Id(w), Name(w)), "lockdir", "cleanup")
  /\ Chmod(Id(w), Name(w), "r")
  /\ OnDisk(w) /\ UNCHANGED dir

LockDir(w) ==
  /\ Try(w, "lockdir", IsDir(Id(w)), "answer", "cleanup")
  /\ SetDir(Id(w), IsDir(Id(w)), "locked")
  /\ OnDisk(w) /\ UNCHANGED file

Ends(w) == task' = [task EXCEPT ![w] = NoTask]
Forgets(w) ==
  /\ Ends(w)
  /\ shared' = IF \E v \in Workers \ {w} : task[v].s = task[w].s THEN shared
               ELSE shared \ {task[w].s}

Stored(w) ==
  /\ task[w].step = "answer" /\ UploadStored(w) /\ Ends(w)
  /\ UNCHANGED <<diskVars, walk, due, shared, restarts>>

(* cleanup: the slot is given up first, and the file is removed after that.  *)
CleanupStarts(w) ==
  /\ Try(w, "cleanup", TRUE, "reset", "reset") /\ CleanupBegins(w)
  /\ UNCHANGED <<diskVars, walk, due, shared, restarts>>

CleanupResets(w) ==
  /\ Try(w, "reset", TRUE, "remove", "remove") /\ UploadFails(w) /\ TableChanges
  /\ UNCHANGED <<diskVars, due, shared, restarts>>

CleanupRemoves(w) ==
  /\ task[w].step = "remove" /\ Forgets(w)
  /\ SetFile(Id(w), Name(w), Removes(Id(w), Name(w)), Null)
  /\ UNCHANGED <<vars, dir, walk, due, restarts>>
-----------------------------------------------------------------------------
(* DeleteTask::execute: the first call that fails ends the sequence.         *)

Look(w, i) ==
  /\ DeleteFinds(w, i) /\ Begin(w, "look", i, scripts[i])
  /\ UNCHANGED <<diskVars, walk, restarts>>

Refused(w) ==
  /\ task[w].step = "look" /\ DeleteRefused(w) /\ Forgets(w)
  /\ UNCHANGED <<diskVars, walk, due, restarts>>

Take(w) ==
  /\ Try(w, "look", TRUE, "undir", "undir") /\ DeleteTakes(w) /\ TableChanges
  /\ UNCHANGED <<diskVars, due, shared, restarts>>

UnlockedMut(i) == IF dir[i] = "locked" THEN "locked" ELSE "open"
Unlocked(i) == "open"

UnlockDir(w) ==
  /\ Try(w, "undir", dir[Id(w)] # "absent", "unfile", "freed")
  /\ SetDir(Id(w), IsDir(Id(w)), Unlocked(Id(w)))
  /\ OnDisk(w) /\ UNCHANGED file

UnlockFile(w) ==
  /\ Try(w, "unfile", Exists(Id(w), Name(w)), "erase", "freed")
  /\ Chmod(Id(w), Name(w), "w")
  /\ OnDisk(w) /\ UNCHANGED dir

RemoveFile(w) ==
  /\ Try(w, "erase", Removes(Id(w), Name(w)), "rmdir", "freed")
  /\ SetFile(Id(w), Name(w), Removes(Id(w), Name(w)), Null)
  /\ OnDisk(w) /\ UNCHANGED dir

RemoveDir(w) ==
  /\ Try(w, "rmdir", Rmdirs(Id(w)), "freed", "freed")
  /\ SetDir(Id(w), Rmdirs(Id(w)), "absent")
  /\ OnDisk(w) /\ UNCHANGED file

(* 200, whether the files are gone or not.                                   *)
Deleted(w) ==
  /\ task[w].step = "freed" /\ DeleteFrees(w) /\ Forgets(w)
  /\ UNCHANGED <<diskVars, walk, due, restarts>>
-----------------------------------------------------------------------------
(* ScriptListTask: Script::format leaves out a script that has no file.      *)

Listed(s) == \E i \in Slots : scripts[i] = s /\ Exists(i, NameOf[s])

-----------------------------------------------------------------------------
(* SIGINT: Script::terminate_all, in the main thread, and exit, which takes  *)
(* the task threads with it wherever they are.  Its four calls on an entry    *)
(* are one step: no task works on the ids that the property is about.         *)

Sigint ==
  /\ walk.step = "no"
  /\ walk' = [walk EXCEPT !.step = "walk"]
  /\ due' = {i \in Slots : /\ scripts[i] # Null
                           /\ \A w \in Workers : task[w].i # i}
  /\ UNCHANGED <<vars, diskVars, task, shared, restarts>>

WalkDirMut(i) == dir[i]                    \* no chmod of the directory
WalkDir(i) == IF IsDir(i) THEN "open" ELSE dir[i]

WalkErases(i, n) ==
  /\ file' = IF Exists(i, n) /\ WalkDir(i) = "open"
             THEN [file EXCEPT ![i][n] = Null] ELSE file
  /\ dir' = [dir EXCEPT ![i] = IF IsDir(i) /\ \A m \in Names : file'[i][m] = Null
                               THEN "absent" ELSE WalkDir(i)]

WalkVisits ==
  /\ walk.step = "walk" /\ walk.i \in Ids
  /\ walk' = [walk EXCEPT !.i = @ + 1]
  /\ IF scripts[walk.i] = Null THEN UNCHANGED diskVars
     ELSE WalkErases(walk.i, NameOf[scripts[walk.i]])
  /\ server' \in Outcome(walk.raced \/ Torn(walk.i))
  /\ UNCHANGED <<scriptVars, n_jobs, jobVars, mainVars, taskVars, task, due, shared,
                 restarts>>

Exit ==
  /\ walk.step = "walk" /\ walk.i \notin Ids
  /\ walk' = [walk EXCEPT !.step = "exited"]
  /\ UNCHANGED <<vars, diskVars, task, due, shared, restarts>>

(* The process has ended, by its exit, a signal or an abort, and another     *)
(* server is started on the same directory.                                  *)
Restart ==
  /\ restarts < MaxRestarts /\ restarts' = restarts + 1
  /\ scripts' = [i \in Ids |-> Null] /\ size' = 1
  /\ fate' = [s \in Scripts |-> IF Live(s) THEN "deleted" ELSE fate[s]]
  /\ pc' = [w \in Workers |-> "idle"] /\ id' = [w \in Workers |-> 0]
  /\ mine' = [w \in Workers |-> Null] /\ task' = [w \in Workers |-> NoTask]
  /\ walk' = NoWalk /\ due' = {} /\ shared' = {} /\ server' = "up"
  /\ UNCHANGED <<n_jobs, jobVars, mainVars, dropped, diskVars>>
-----------------------------------------------------------------------------
StoreUpload(w) ==
  \/ Search(w) \/ Pass(w) \/ \E s \in Scripts : Claim(w, s)
  \/ StatDir(w) \/ ChmodDir(w) \/ MkDir(w) \/ ChmodFile(w) \/ WriteFile(w)
  \/ OpenFile(w, "open", AfterRefusal) \/ OpenFile(w, "reopen", AfterSecondRefusal)
  \/ LockFile(w) \/ LockDir(w) \/ Stored(w)
  \/ CleanupStarts(w) \/ CleanupResets(w) \/ CleanupRemoves(w)
StoreDelete(w) ==
  \/ (\E i \in Slots : Look(w, i)) \/ Refused(w) \/ Take(w)
  \/ UnlockDir(w) \/ UnlockFile(w) \/ RemoveFile(w) \/ RemoveDir(w) \/ Deleted(w)
Terminate == Sigint \/ WalkVisits \/ Exit

StoreNext ==
  \/ /\ server = "up" /\ walk.step # "exited"
     /\ \/ \E w \in Workers : StoreUpload(w) \/ StoreDelete(w)
        \/ Terminate
  \/ Restart
  \/ (server # "up" \/ walk.step = "exited") /\ UNCHANGED storeVars

StoreSpec == StoreInit /\ [][StoreNext]_storeVars
-----------------------------------------------------------------------------
(* Properties.                                                               *)

UploadSteps == {"stat", "chmod", "mkdir", "open", "unlock", "reopen", "write", "lock",
                "lockdir", "answer", "cleanup"}         \* with the slot still whole
DeleteSteps == {"undir", "unfile", "erase", "rmdir", "freed"}

(* Types; the threads' places in the table's part and in the files' part of   *)
(* their tasks agree; and there is no file without a directory.               *)
StoreTypeOK ==
  /\ TypeOK
  /\ dir \in [Slots -> {"absent", "open", "locked", "blocked"}]
  /\ file \in [Slots -> [Names -> Inodes \cup {Null}]]
  /\ \A i \in Slots : IsDir(i) \/ \A n \in Names : ~Exists(i, n)
  /\ \A w \in Workers :
       /\ task[w].i \in Ids /\ task[w].s \in Scripts \cup {Null}
       /\ task[w].ino \in Scripts \cup {Earlier, Null}
       /\ task[w].step \in UploadSteps <=> pc[w] = "store"
       /\ task[w].step \in DeleteSteps <=> pc[w] = "unlink"
       /\ task[w].step = "reset" <=> pc[w] = "reset"
       /\ task[w].step = "look" <=> pc[w] = "dlock"
       /\ task[w].step \in {"idle", "remove"} <=> pc[w] \in {"idle", "scan"}
       /\ pc[w] = "scan" => task[w].step = "idle"
       /\ task[w].step \in UploadSteps \cup {"reset", "look"} =>
            mine[w] = task[w].s /\ id[w] = task[w].i
  /\ walk.step \in {"no", "walk", "exited"} /\ walk.i \in Nat
  /\ due \subseteq Slots /\ shared \subseteq Scripts /\ restarts \in 0..MaxRestarts

(* A script whose upload was answered with 200, and whose tasks overlapped no *)
(* other on its id, has its own file, read-only in a read-only directory, and *)
(* in it its own data or none (a disk that was full at the closing): never    *)
(* what an earlier server, a failed upload or another script left there.      *)
UndisturbedStored ==
  walk.step = "no" =>
    \A i \in Slots :
      LET s == scripts[i]
      IN  s # Null /\ fate[s] = "stored" /\ s \notin shared =>
            /\ Listed(s) /\ dir[i] = "locked"
            /\ file[i][NameOf[s]].mode = "r" /\ file[i][NameOf[s]].data \subseteq {s}

(* Nothing that is left on the disk by a server that ended anywhere makes a   *)
(* later upload fail: an undisturbed one is refused only where there is       *)
(* something that is not a directory, or when a write fails.                  *)
UploadWorks ==
  [][\A w \in Workers :
       task[w].step # "cleanup" /\ task'[w].step = "cleanup" =>
         \/ task[w].s \in shared \/ walk.step # "no"
         \/ dir[task[w].i] = "blocked" \/ task[w].step = "write"]_storeVars

(* A delete that is not disturbed has removed the script's file when it       *)
(* answers, and the directory too, unless a file of another name is in it.    *)
Answers(w) == /\ task[w].step = "freed" /\ task'[w] = NoTask
              /\ server' = "up" /\ restarts' = restarts
DeleteFailsForCause ==
  [][\A w \in Workers :
       LET i == task[w].i
           n == NameOf[task[w].s]
       IN  Answers(w) /\ walk.step = "no" /\ task[w].s \notin shared =>
             /\ ~Exists(i, n)
             /\ dir[i] = "absent" \/ \E m \in Names : Exists(i, m)]_storeVars

(* When the server exits on SIGINT, the file of every script that was at rest *)
(* then, and stayed so, is gone: all four calls are needed for that.          *)
ShutdownCleans ==
  walk.step = "exited" /\ server = "up" =>
    \A i \in due : \A s \in Scripts : scripts[i] = s => ~Exists(i, NameOf[s])
-----------------------------------------------------------------------------
(* What the tests and the comments say and the code does not keep.            *)

(* test.sh:124: after an upload, the script directory and the file are there. *)
StoredHasFile ==
  walk.step = "no" =>
    \A s \in Scripts : fate[s] = "stored" /\ (\E i \in Slots : scripts[i] = s) => Listed(s)

(* Tasks.cc:305-309: a delete with a filesystem operation that failed is      *)
(* answered with 500.  So one that nobody has disturbed and that is answered  *)
(* with 200, as every one is, has done all four: the directory is gone.       *)
DeleteTellsFailure ==
  [][\A w \in Workers :
       Answers(w) /\ walk.step = "no" /\ task[w].s \notin shared =>
         dir[task[w].i] = "absent"]_storeVars
=============================================================================
