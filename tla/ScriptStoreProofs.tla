-------------------------- MODULE ScriptStoreProofs --------------------------
(***************************************************************************)
(* The properties of module ScriptStore, for every number of scripts, task *)
(* threads, names and restarts, and whatever earlier servers have left.    *)
(***************************************************************************)
EXTENDS ScriptStore, RegistryProofs

Claims == UploadSteps \cup {"reset"}         \* with a slot that is the upload's
Tasks == [step : Claims \cup DeleteSteps \cup {"idle", "remove", "look"}, i : Ids,
          s : Scripts \cup {Null}, ino : Scripts \cup {Earlier, Null}]
Walks == [step : {"no", "walk", "exited"}, i : Nat, raced : BOOLEAN]

(* There are no runs here, so that a server which ends leaves no user behind.  *)
NoRuns ==
  /\ mpc = "idle" /\ mscript = Null /\ mpid = Null
  /\ jobs = [p \in Pids |-> Null] /\ dropped = [w \in Workers |-> Null]

(* The directories and the files.                                              *)
DiskOK ==
  /\ dir \in [Slots -> {"absent", "open", "locked", "blocked"}]
  /\ file \in [Slots -> [Names -> Inodes \cup {Null}]]
  /\ \A i \in Slots : IsDir(i) \/ \A n \in Names : ~Exists(i, n)

(* Where a task is, in the table and on the disk.  A delete has the script it   *)
(* has found, or nothing when cleanup has emptied the slot before it.           *)
At(t) == CASE t.step \in UploadSteps -> {"store"}
           [] t.step = "reset"        -> {"reset"}
           [] t.step = "look"         -> {"dlock"}
           [] t.step \in DeleteSteps -> {"unlink"}
           [] t.step = "idle"         -> {"idle", "scan"}
           [] OTHER                   -> {"idle"}
Placed(w) ==
  /\ pc[w] \in At(task[w])
  /\ task[w].step \in Claims \cup {"look"} => mine[w] = task[w].s /\ id[w] = task[w].i
  /\ task[w].step \in DeleteSteps =>
       mine[w] = task[w].s \/ (mine[w] = Null /\ fate[task[w].s] = "cleaned")
  /\ task[w].step = "idle" => task[w] = NoTask
  /\ task[w].step # "idle" => /\ task[w].i \in Slots /\ task[w].s \in Scripts
                              /\ fate[task[w].s] # "unused"
PlaceInv ==
  /\ DiskOK /\ task \in [Workers -> Tasks] /\ walk \in Walks
  /\ due \subseteq Slots /\ shared \subseteq Scripts /\ restarts \in 0..MaxRestarts
  /\ scripts[0] = Null
  /\ \A w \in Workers : Placed(w)

(* A script is in the slot that its upload was given, or in none; and whose    *)
(* upload has not been answered, in its slot, has the upload still at work.    *)
ClaimInv ==
  /\ \A w \in Workers, j \in Slots :
       /\ task[w].step \in Claims /\ scripts[j] = task[w].s => j = task[w].i
       /\ task[w].step = "remove" => scripts[j] # task[w].s
  /\ \A j \in Slots :
       scripts[j] # Null /\ fate[scripts[j]] = "partial" =>
         \E w \in Workers : /\ task[w].step \in Claims
                            /\ task[w].s = scripts[j] /\ task[w].i = j

(* A task whose script is not shared is alone on its id, and no task is on the *)
(* id of a stored script that is not shared but a delete that has just found it. *)
AtRest(j) == scripts[j] # Null /\ fate[scripts[j]] = "stored" /\ scripts[j] \notin shared
AloneInv ==
  /\ \A v, w \in Workers : task[w].step # "idle" /\ task[w].s \notin shared /\ v # w =>
       task[v].i # task[w].i
  /\ \A j \in Slots : AtRest(j) =>
       \A w \in Workers : task[w].i # j \/ task[w].step = "look"

(* What a task t that is alone finds on the disk: the directory d of its id,   *)
(* and in it the file f of its name.                                           *)
OnTrack(t, d, f) ==
  /\ t.step = "chmod" => d \in {"open", "locked"}
  /\ t.step = "mkdir" => d = "absent"
  /\ t.step \in {"open", "unlock", "reopen", "write", "lock", "lockdir"} => d = "open"
  /\ t.step \in {"unfile", "erase", "rmdir"} => d = "open"
  /\ t.step \in {"answer", "look", "undir"} => d = "locked"
  /\ t.step = "reopen" /\ f # Null => f.mode # "r"
  /\ t.step \in {"write", "lock", "lockdir", "answer", "look", "undir", "unfile", "erase"} =>
       f # Null
  /\ t.step \in {"write", "lock", "lockdir", "answer"} => f.data \subseteq {t.s}
  /\ t.step \in {"lockdir", "answer"} => f.mode = "r"
  /\ t.step \in {"rmdir", "freed"} => f = Null

Left(i)  == dir[i] = "absent" \/ \E n \in Names : Exists(i, n)
Track(w) == /\ OnTrack(task[w], dir[Id(w)], file[Id(w)][Name(w)])
            /\ task[w].step = "freed" => Left(Id(w))

Sealed(d, f, s) == d = "locked" /\ f # Null /\ f.mode = "r" /\ f.data \subseteq {s}

DiskInv ==
  walk.step = "no" =>
    /\ \A w \in Workers : task[w].step # "idle" /\ task[w].s \notin shared => Track(w)
    /\ \A j \in Slots :
         AtRest(j) => Sealed(dir[j], file[j][NameOf[scripts[j]]], scripts[j])

(* Nobody works on an id that is due; its file is gone once it was visited.    *)
Visited(j) == walk.step = "exited" \/ (walk.step = "walk" /\ walk.i > j)
WalkInv ==
  /\ walk.step = "no" => due = {} /\ walk.i = 0
  /\ walk.step = "exited" => walk.i \notin Ids
  /\ \A j \in due : /\ scripts[j] # Null /\ \A w \in Workers : task[w].i # j
                    /\ Visited(j) => ~Exists(j, NameOf[scripts[j]])

StoreInv ==
  /\ Inv /\ JobsBounded /\ NoRuns /\ PlaceInv
  /\ ClaimInv /\ AloneInv /\ DiskInv /\ WalkInv
-----------------------------------------------------------------------------
(* The system calls: each changes what is on the disk under one id.            *)

Elsewhere(i) == \A j \in Slots : j # i => dir'[j] = dir[j] /\ file'[j] = file[j]

DirTo(i, d) == dir' = [dir EXCEPT ![i] = d]

(* A task keeps its track while nobody else touches its id.                     *)
LEMMA TrackKept ==
  ASSUME NEW w \in Workers, Track(w), task'[w] = task[w],
         dir'[Id(w)] = dir[Id(w)], file'[Id(w)] = file[Id(w)]
  PROVE  Track(w)'
<1>1. Id(w)' = Id(w) /\ Name(w)' = Name(w)
  BY DEF Id, Name
<1>2. Left(Id(w)) => Left(Id(w))'
  BY <1>1 DEF Left, Exists
<1> QED BY <1>1, <1>2 DEF Track

LEMMA DirIsSet ==
  ASSUME DiskOK, NEW i \in Slots, NEW d \in {"absent", "open", "locked", "blocked"},
         d \in {"open", "locked"} \/ \A n \in Names : ~Exists(i, n),
         DirTo(i, d), file' = file
  PROVE  DiskOK' /\ Elsewhere(i) /\ dir'[i] = d
BY DEF DiskOK, Elsewhere, IsDir, Exists, DirTo

LEMMA FileIsSet ==
  ASSUME DiskOK, NEW i \in Slots, NEW n \in Names, NEW ok \in BOOLEAN,
         NEW f \in Inodes \cup {Null}, ok => IsDir(i) \/ f = Null,
         SetFile(i, n, ok, f), dir' = dir
  PROVE  /\ DiskOK' /\ Elsewhere(i)
         /\ file'[i][n] = IF ok THEN f ELSE file[i][n]
BY DEF DiskOK, SetFile, Elsewhere, IsDir, Exists

LEMMA ModeIsSet ==
  ASSUME DiskOK, NEW i \in Slots, NEW n \in Names, NEW m \in {"w", "r"},
         Chmod(i, n, m), dir' = dir
  PROVE  /\ DiskOK' /\ Elsewhere(i)
         /\ Exists(i, n) => file'[i][n] = [file[i][n] EXCEPT !.mode = m] /\ file'[i][n] # Null
         /\ ~Exists(i, n) => file'[i][n] = Null
<1>1. CASE Exists(i, n)
  <2> DEFINE f == [file[i][n] EXCEPT !.mode = m]
  <2>1. file[i][n] \in Inodes
    BY <1>1 DEF DiskOK, Exists
  <2>2. f \in Inodes /\ f # Null
    <3>1. f \in Inodes
      BY <2>1 DEF Inodes
    <3>2. Null \notin Inodes
      BY StoreAssumption
    <3> QED BY <3>1, <3>2
  <2>3. IsDir(i)
    BY <1>1 DEF DiskOK
  <2>4. file' = [file EXCEPT ![i][n] = f]
    BY <1>1 DEF Chmod
  <2>5. SetFile(i, n, TRUE, f)
    BY <2>4 DEF SetFile
  <2> HIDE DEF f
  <2>6. DiskOK' /\ Elsewhere(i) /\ file'[i][n] = f
    <3>1. f \in Inodes \cup {Null} /\ TRUE \in BOOLEAN
      BY <2>2
    <3> QED BY <2>3, <2>5, <3>1, FileIsSet
  <2> QED BY <1>1, <2>2, <2>6 DEF f
<1>2. CASE ~Exists(i, n)
  <2>1. SetFile(i, n, FALSE, Null)
    BY <1>2 DEF Chmod, SetFile
  <2>2. DiskOK' /\ Elsewhere(i) /\ file'[i][n] = file[i][n]
    BY <2>1, FileIsSet
  <2> QED BY <1>2, <2>2 DEF Exists
<1> QED BY <1>1, <1>2
-----------------------------------------------------------------------------
(* A system call of a task, or the one before it that fails: it stays on its   *)
(* id, with its script, and a task that is alone is on track to its next call. *)

Calls(w) ==
  /\ UNCHANGED <<vars, walk, due, shared, restarts>>
  /\ DiskOK' /\ Elsewhere(Id(w))
  /\ task' \in [Workers -> Tasks] /\ \A v \in Workers : v # w => task'[v] = task[v]
  /\ task'[w].i = task[w].i /\ task'[w].s = task[w].s
  /\ \/ task[w].step \in UploadSteps /\ task'[w].step \in UploadSteps
     \/ task[w].step \in DeleteSteps /\ task'[w].step \in DeleteSteps
  /\ Track(w) => Track(w)'

LEMMA OnItsId ==
  ASSUME PlaceInv, NEW w \in Workers, task[w].step # "idle"
  PROVE  /\ Id(w) \in Slots /\ task[w].s \in Scripts /\ Name(w) \in Names
         /\ file[Id(w)][Name(w)] \in Inodes \cup {Null}
<1>1. Id(w) \in Slots /\ task[w].s \in Scripts
  BY DEF PlaceInv, Placed, Id
<1>2. Name(w) \in Names
  BY <1>1, StoreAssumption DEF Name
<1> QED BY <1>1, <1>2 DEF PlaceInv, DiskOK

(* Its step is followed by another of the same task.                           *)
Follows(from, to) ==
  \/ from \in UploadSteps /\ to \in UploadSteps
  \/ from \in DeleteSteps /\ to \in DeleteSteps

LeftNow(i) == dir'[i] = "absent" \/ \E n \in Names : file'[i][n] # Null

StepTo(w, to)    == task' = [task EXCEPT ![w].step = to]
OpenTo(w, to, o) == task' = [task EXCEPT ![w].step = to, ![w].ino = o]

LEMMA CallIs ==
  ASSUME PlaceInv, NEW w \in Workers, NEW to, Follows(task[w].step, to),
         StepTo(w, to) \/ \E o \in Scripts \cup {Earlier, Null} : OpenTo(w, to, o),
         OnDisk(w), DiskOK', Elsewhere(Id(w)),
         OnTrack(task[w], dir[Id(w)], file[Id(w)][Name(w)]) =>
           /\ \A t \in Tasks : t.step = to /\ t.s = task[w].s =>
                OnTrack(t, dir'[Id(w)], file'[Id(w)][Name(w)])
           /\ to = "freed" => LeftNow(Id(w))
  PROVE  Calls(w)
<1>1. task \in [Workers -> Tasks] /\ to \in UploadSteps \cup DeleteSteps
  BY DEF PlaceInv, Follows
<1>2. /\ task' \in [Workers -> Tasks] /\ \A v \in Workers : v # w => task'[v] = task[v]
      /\ task'[w].step = to /\ task'[w].i = task[w].i /\ task'[w].s = task[w].s
  BY <1>1 DEF Tasks, Claims, StepTo, OpenTo
<1>3. Id(w)' = Id(w) /\ Name(w)' = Name(w)
  BY <1>2 DEF Id, Name
<1>4. Track(w) => Track(w)'
  <2>1. LeftNow(Id(w)) => Left(Id(w))'
    BY <1>3 DEF Left, LeftNow, Exists
  <2>2. task'[w] \in Tasks
    BY <1>2
  <2> QED BY <1>2, <1>3, <2>1, <2>2 DEF Track
<1> QED BY <1>2, <1>4 DEF Calls, OnDisk, Follows

LEMMA DirCalls ==
  ASSUME PlaceInv, NEW w \in Workers,
         StatDir(w) \/ ChmodDir(w) \/ MkDir(w) \/ LockDir(w) \/ UnlockDir(w) \/ RemoveDir(w)
  PROVE  Calls(w)
<1> DEFINE i == Id(w)
<1>1. OnDisk(w) /\ file' = file /\ task[w].step # "idle"
  BY DEF StatDir, ChmodDir, MkDir, LockDir, UnlockDir, RemoveDir, Try, OnDisk, diskVars
<1>2. DiskOK /\ i \in Slots /\ dir[i] \in {"absent", "open", "locked", "blocked"}
      /\ Name(w) \in Names
  BY <1>1, OnItsId DEF PlaceInv, DiskOK
<1> HIDE DEF i
<1>3. CASE StatDir(w)
  <2> DEFINE to == CASE dir[i] = "absent" -> "mkdir"
                     [] dir[i] = "blocked" -> "cleanup"
                     [] OTHER -> "chmod"
  <2>1. task[w].step = "stat" /\ StepTo(w, to) /\ dir' = dir
    BY <1>3 DEF StatDir, diskVars, i, StepTo
  <2>2. /\ to \in {"mkdir", "cleanup", "chmod"}
        /\ to = "mkdir" => dir[i] = "absent"
        /\ to = "chmod" => dir[i] \in {"open", "locked"}
    BY <1>2
  <2> HIDE DEF to
  <2>5. to # "freed"
    BY <2>2
  <2>3. DiskOK' /\ Elsewhere(i) /\ Follows(task[w].step, to)
    BY <1>1, <1>2, <2>1, <2>2
       DEF DiskOK, Elsewhere, IsDir, Exists, Follows, UploadSteps
  <2>4. \A t \in Tasks : t.step = to => OnTrack(t, dir'[i], file'[i][Name(w)])
    BY <2>1, <2>2 DEF OnTrack
  <2> QED BY <1>1, <2>1, <2>3, <2>4, <2>5, CallIs DEF i
<1>4. ASSUME NEW to, Follows(task[w].step, to), StepTo(w, to),
             NEW d \in {"absent", "open", "locked", "blocked"}, DirTo(i, d),
             d \in {"open", "locked"} \/ \A n \in Names : ~Exists(i, n),
             \A t \in Tasks, f \in Inodes \cup {Null} :
               OnTrack(task[w], dir[i], f) /\ t.s = task[w].s /\ t.step = to =>
                 OnTrack(t, d, f),
             to # "freed" \/ d = "absent" \/ (\E n \in Names : Exists(i, n))
               \/ \A f : ~OnTrack(task[w], dir[i], f)
      PROVE  Calls(w)
  <2>1. DiskOK' /\ Elsewhere(i) /\ dir'[i] = d
    BY <1>1, <1>2, <1>4, DirIsSet
  <2>2. file[i][Name(w)] \in Inodes \cup {Null}
    BY <1>2 DEF DiskOK
  <2>3. OnTrack(task[w], dir[i], file[i][Name(w)]) =>
          \A t \in Tasks : t.step = to /\ t.s = task[w].s =>
            OnTrack(t, dir'[i], file'[i][Name(w)])
    BY <1>1, <1>4, <2>1, <2>2
  <2>4. OnTrack(task[w], dir[i], file[i][Name(w)]) /\ to = "freed" => LeftNow(i)
    BY <1>1, <1>4, <2>1 DEF LeftNow, Exists
  <2> QED BY <1>1, <1>4, <2>1, <2>3, <2>4, CallIs DEF i
<1>5. /\ IsDir(i) <=> dir[i] \in {"open", "locked"}
      /\ IsDir(i) \/ \A n \in Names : ~Exists(i, n)
  BY <1>2 DEF IsDir, DiskOK
<1>6. CASE ChmodDir(w)
  <2> DEFINE to == IF IsDir(i) THEN "open" ELSE "cleanup"
             d  == IF IsDir(i) THEN "open" ELSE dir[i]
  <2>1. /\ task[w].step = "chmod" /\ StepTo(w, to)
        /\ DirTo(i, d)
    BY <1>2, <1>6 DEF ChmodDir, Try, SetDir, DiskOK, i, StepTo, DirTo
  <2>2. /\ Follows("chmod", to) /\ d \in {"absent", "open", "locked", "blocked"}
        /\ d \in {"open", "locked"} \/ \A n \in Names : ~Exists(i, n)
    BY <1>2, <1>5 DEF Follows, UploadSteps, DeleteSteps
  <2>3. \A t \in Tasks, f \in Inodes \cup {Null} :
          OnTrack(task[w], dir[i], f) /\ t.s = task[w].s /\ t.step = to => OnTrack(t, d, f)
    BY <1>2, <1>5, <2>1 DEF OnTrack
  <2>4. to # "freed" \/ d = "absent" \/ (\E n \in Names : Exists(i, n))
          \/ \A f : ~OnTrack(task[w], dir[i], f)
    BY <1>2, <1>5, <2>1 DEF OnTrack, Rmdirs, IsDir
  <2> HIDE DEF to, d
  <2> QED BY <1>4, <2>1, <2>2, <2>3, <2>4
<1>7. CASE MkDir(w)
  <2> DEFINE to == IF dir[i] = "absent" THEN "open" ELSE "cleanup"
             d  == IF dir[i] = "absent" THEN "open" ELSE dir[i]
  <2>1. /\ task[w].step = "mkdir" /\ StepTo(w, to)
        /\ DirTo(i, d)
    BY <1>2, <1>7 DEF MkDir, Try, SetDir, DiskOK, i, StepTo, DirTo
  <2>2. /\ Follows("mkdir", to) /\ d \in {"absent", "open", "locked", "blocked"}
        /\ d \in {"open", "locked"} \/ \A n \in Names : ~Exists(i, n)
    BY <1>2, <1>5 DEF Follows, UploadSteps, DeleteSteps
  <2>3. \A t \in Tasks, f \in Inodes \cup {Null} :
          OnTrack(task[w], dir[i], f) /\ t.s = task[w].s /\ t.step = to => OnTrack(t, d, f)
    BY <1>2, <1>5, <2>1 DEF OnTrack
  <2>4. to # "freed" \/ d = "absent" \/ (\E n \in Names : Exists(i, n))
          \/ \A f : ~OnTrack(task[w], dir[i], f)
    BY <1>2, <1>5, <2>1 DEF OnTrack, Rmdirs, IsDir
  <2> HIDE DEF to, d
  <2> QED BY <1>4, <2>1, <2>2, <2>3, <2>4
<1>8. CASE LockDir(w)
  <2> DEFINE to == IF IsDir(i) THEN "answer" ELSE "cleanup"
             d  == IF IsDir(i) THEN "locked" ELSE dir[i]
  <2>1. /\ task[w].step = "lockdir" /\ StepTo(w, to)
        /\ DirTo(i, d)
    BY <1>2, <1>8 DEF LockDir, Try, SetDir, DiskOK, i, StepTo, DirTo
  <2>2. /\ Follows("lockdir", to) /\ d \in {"absent", "open", "locked", "blocked"}
        /\ d \in {"open", "locked"} \/ \A n \in Names : ~Exists(i, n)
    BY <1>2, <1>5 DEF Follows, UploadSteps, DeleteSteps
  <2>3. \A t \in Tasks, f \in Inodes \cup {Null} :
          OnTrack(task[w], dir[i], f) /\ t.s = task[w].s /\ t.step = to => OnTrack(t, d, f)
    BY <1>2, <1>5, <2>1 DEF OnTrack
  <2>4. to # "freed" \/ d = "absent" \/ (\E n \in Names : Exists(i, n))
          \/ \A f : ~OnTrack(task[w], dir[i], f)
    BY <1>2, <1>5, <2>1 DEF OnTrack, Rmdirs, IsDir
  <2> HIDE DEF to, d
  <2> QED BY <1>4, <2>1, <2>2, <2>3, <2>4
<1>9. CASE UnlockDir(w)
  <2> DEFINE to == IF dir[i] # "absent" THEN "unfile" ELSE "freed"
             d  == IF IsDir(i) THEN "open" ELSE dir[i]
  <2>1. /\ task[w].step = "undir" /\ StepTo(w, to)
        /\ DirTo(i, d)
    BY <1>2, <1>9 DEF UnlockDir, Try, SetDir, DiskOK, i, StepTo, DirTo, Unlocked
  <2>2. /\ Follows("undir", to) /\ d \in {"absent", "open", "locked", "blocked"}
        /\ d \in {"open", "locked"} \/ \A n \in Names : ~Exists(i, n)
    BY <1>2, <1>5 DEF Follows, UploadSteps, DeleteSteps
  <2>3. \A t \in Tasks, f \in Inodes \cup {Null} :
          OnTrack(task[w], dir[i], f) /\ t.s = task[w].s /\ t.step = to => OnTrack(t, d, f)
    BY <1>2, <1>5, <2>1 DEF OnTrack
  <2>4. to # "freed" \/ d = "absent" \/ (\E n \in Names : Exists(i, n))
          \/ \A f : ~OnTrack(task[w], dir[i], f)
    BY <1>2, <1>5, <2>1 DEF OnTrack, Rmdirs, IsDir
  <2> HIDE DEF to, d
  <2> QED BY <1>4, <2>1, <2>2, <2>3, <2>4
<1>10. CASE RemoveDir(w)
  <2> DEFINE to == IF Rmdirs(i) THEN "freed" ELSE "freed"
             d  == IF Rmdirs(i) THEN "absent" ELSE dir[i]
  <2>1. /\ task[w].step = "rmdir" /\ StepTo(w, to)
        /\ DirTo(i, d)
    BY <1>2, <1>10 DEF RemoveDir, Try, SetDir, DiskOK, i, StepTo, DirTo
  <2>2. /\ Follows("rmdir", to) /\ d \in {"absent", "open", "locked", "blocked"}
        /\ d \in {"open", "locked"} \/ \A n \in Names : ~Exists(i, n)
    BY <1>2, <1>5 DEF Follows, UploadSteps, DeleteSteps, Rmdirs
  <2>3. \A t \in Tasks, f \in Inodes \cup {Null} :
          OnTrack(task[w], dir[i], f) /\ t.s = task[w].s /\ t.step = to => OnTrack(t, d, f)
    BY <1>2, <1>5, <2>1 DEF OnTrack
  <2>4. to # "freed" \/ d = "absent" \/ (\E n \in Names : Exists(i, n))
          \/ \A f : ~OnTrack(task[w], dir[i], f)
    BY <1>2, <1>5, <2>1 DEF OnTrack, Rmdirs, IsDir
  <2> HIDE DEF to, d
  <2> QED BY <1>4, <2>1, <2>2, <2>3, <2>4
<1> QED BY <1>3, <1>6, <1>7, <1>8, <1>9, <1>10

LEMMA FileCalls ==
  ASSUME PlaceInv, NEW w \in Workers,
         \/ OpenFile(w, "open", AfterRefusal) \/ OpenFile(w, "reopen", AfterSecondRefusal)
         \/ ChmodFile(w) \/ WriteFile(w) \/ LockFile(w) \/ UnlockFile(w) \/ RemoveFile(w)
  PROVE  Calls(w)
<1> DEFINE i == Id(w)
           n == Name(w)
           s == task[w].s
<1>1. OnDisk(w) /\ dir' = dir /\ task[w].step # "idle"
  BY DEF OpenFile, ChmodFile, WriteFile, LockFile, UnlockFile, RemoveFile, Try
<1>2. DiskOK /\ i \in Slots /\ n \in Names /\ s \in Scripts /\ file[i][n] \in Inodes \cup {Null}
  BY <1>1, OnItsId DEF PlaceInv
<1>3. /\ IsDir(i) <=> dir[i] \in {"open", "locked"}
      /\ Exists(i, n) <=> file[i][n] # Null
      /\ Exists(i, n) => IsDir(i)
  BY <1>2 DEF IsDir, Exists, DiskOK
<1> HIDE DEF i, n, s
(* What a step does to the file of the task's name is enough.                  *)
<1>4. ASSUME NEW to, Follows(task[w].step, to),
             StepTo(w, to) \/ \E o \in Scripts \cup {Earlier, Null} : OpenTo(w, to, o),
             DiskOK', Elsewhere(i), NEW g, file'[i][n] = g,
             \A t \in Tasks : OnTrack(task[w], dir[i], file[i][n]) /\ t.s = s /\ t.step = to =>
                              OnTrack(t, dir[i], g),
             to # "freed" \/ ~OnTrack(task[w], dir[i], file[i][n])
      PROVE  Calls(w)
  <2>1. OnTrack(task[w], dir[i], file[i][n]) =>
          /\ \A t \in Tasks : t.step = to /\ t.s = s => OnTrack(t, dir'[i], file'[i][n])
          /\ to = "freed" => LeftNow(i)
    BY <1>1, <1>4
  <2> QED BY <1>1, <1>4, <2>1, CallIs DEF i, n, s
<1>5. ASSUME NEW from \in {"open", "reopen"}, NEW otherwise \in {"unlock", "cleanup"},
             from = "open" => otherwise = "unlock", from = "reopen" => otherwise = "cleanup",
             OpenFile(w, from, otherwise)
      PROVE  Calls(w)
  <2> DEFINE ok == Opens(i, n)
             f  == Opened(i, n, s)
             to == IF ok THEN "write" ELSE otherwise
             o  == IF ok THEN f.ino ELSE Null
             g  == IF ok THEN f ELSE file[i][n]
  <2>1. /\ task[w].step = from /\ OpenTo(w, to, o) /\ SetFile(i, n, ok, f)
    BY <1>5 DEF OpenFile, i, n, s, OpenTo
  <2>2. f \in Inodes /\ f # Null /\ f.data = {} /\ ok \in BOOLEAN
    <3>1. f \in Inodes /\ f.data = {}
      BY <1>2, <1>3 DEF Opened, Inodes
    <3>2. Null \notin Inodes
      BY StoreAssumption
    <3>3. ok \in BOOLEAN
      BY DEF Opens, Exists
    <3> QED BY <3>1, <3>2, <3>3
  <2>3. ok => IsDir(i)
    BY <1>3 DEF Opens
  <2>4. o \in Scripts \cup {Earlier, Null}
    BY <2>2 DEF Inodes
  <2>5. Follows(task[w].step, to)
    BY <1>5, <2>1 DEF Follows, UploadSteps
  <2>6. \A t \in Tasks : OnTrack(task[w], dir[i], file[i][n]) /\ t.s = s /\ t.step = to =>
                         OnTrack(t, dir[i], g)
    BY <1>2, <1>3, <1>5, <2>1, <2>2 DEF OnTrack, Opens
  <2>9. to # "freed"
    BY <1>5
  <2> HIDE DEF ok, f, to, o
  <2>7. f \in Inodes \cup {Null}
    BY <2>2
  <2>8. DiskOK' /\ Elsewhere(i) /\ file'[i][n] = g
    BY <1>1, <1>2, <2>1, <2>2, <2>3, <2>7, FileIsSet
  <2> HIDE DEF g
  <2> QED BY <1>4, <2>1, <2>4, <2>5, <2>6, <2>8, <2>9
<1>6. CASE ChmodFile(w)
  <2>1. task[w].step = "unlock" /\ StepTo(w, "reopen") /\ Chmod(i, n, "w")
    BY <1>6 DEF ChmodFile, Try, StepTo, i, n
  <2>2. Follows(task[w].step, "reopen")
    BY <2>1 DEF Follows, UploadSteps
  <2>3. /\ DiskOK' /\ Elsewhere(i)
        /\ Exists(i, n) => file'[i][n] = [file[i][n] EXCEPT !.mode = "w"] /\ file'[i][n] # Null
        /\ ~Exists(i, n) => file'[i][n] = Null
    BY <1>1, <1>2, <2>1, ModeIsSet
  <2>4. \A t \in Tasks : OnTrack(task[w], dir[i], file[i][n]) /\ t.s = s /\ t.step = "reopen" =>
                         OnTrack(t, dir[i], file'[i][n])
    BY <1>2, <1>3, <2>1, <2>3 DEF OnTrack, Inodes
  <2> QED BY <1>4, <2>1, <2>2, <2>3, <2>4
<1>7. CASE WriteFile(w)
  <2>1. task[w].step = "write"
    BY <1>7 DEF WriteFile
  <2>2. CASE file' = file
    <3>1. PICK to \in {"lock", "cleanup"} : OpenTo(w, to, Null)
      BY <1>7, <2>2 DEF WriteFile, OpenTo
    <3>2. Follows(task[w].step, to)
      BY <2>1, <3>1 DEF Follows, UploadSteps
    <3>3. DiskOK' /\ Elsewhere(i)
      BY <1>1, <1>2, <2>2 DEF DiskOK, Elsewhere, IsDir, Exists
    <3>4. \A t \in Tasks : OnTrack(task[w], dir[i], file[i][n]) /\ t.s = s /\ t.step = to =>
                           OnTrack(t, dir[i], file[i][n])
      BY <2>1, <3>1 DEF OnTrack, s
    <3> QED BY <1>4, <2>2, <3>1, <3>2, <3>3, <3>4
  <2>3. CASE file' # file
    <3> DEFINE f == [file[i][n] EXCEPT !.data = @ \cup {s}]
    <3>1. /\ OpenTo(w, "lock", Null) /\ Exists(i, n)
          /\ file' = [file EXCEPT ![i][n].data = @ \cup {s}]
      BY <1>7, <2>3 DEF WriteFile, OpenTo, i, n, s
    <3>2. f \in Inodes /\ f.data = file[i][n].data \cup {s} /\ Null \notin Inodes
      <4>1. f \in Inodes /\ f.data = file[i][n].data \cup {s}
        BY <1>2, <1>3, <3>1 DEF Inodes
      <4> QED BY <4>1, StoreAssumption
    <3>3. SetFile(i, n, TRUE, f)
      BY <1>2, <3>1 DEF SetFile, DiskOK
    <3>4. \A t \in Tasks : OnTrack(task[w], dir[i], file[i][n]) /\ t.s = s /\ t.step = "lock" =>
                           OnTrack(t, dir[i], f)
      BY <2>1, <3>2 DEF OnTrack, s
    <3>5. Follows(task[w].step, "lock")
      BY <2>1 DEF Follows, UploadSteps
    <3> HIDE DEF f
    <3>6. f \in Inodes \cup {Null} /\ TRUE \in BOOLEAN /\ IsDir(i)
      BY <1>3, <3>1, <3>2
    <3>7. DiskOK' /\ Elsewhere(i) /\ file'[i][n] = f
      BY <1>1, <1>2, <3>3, <3>6, FileIsSet
    <3> QED BY <1>4, <3>1, <3>4, <3>5, <3>7
  <2> QED BY <2>2, <2>3
<1>8. CASE LockFile(w) \/ UnlockFile(w)
  <2>1. PICK m \in {"r", "w"} :
          /\ Chmod(i, n, m)
          /\ \/ /\ task[w].step = "lock" /\ m = "r"
                /\ StepTo(w, IF Exists(i, n) THEN "lockdir" ELSE "cleanup")
             \/ /\ task[w].step = "unfile" /\ m = "w"
                /\ StepTo(w, IF Exists(i, n) THEN "erase" ELSE "freed")
    BY <1>8 DEF LockFile, UnlockFile, Try, StepTo, i, n
  <2>2. PICK to : /\ StepTo(w, to) /\ Follows(task[w].step, to)
                  /\ \/ task[w].step = "lock" /\ m = "r" /\ Exists(i, n) /\ to = "lockdir"
                     \/ task[w].step = "lock" /\ ~Exists(i, n) /\ to = "cleanup"
                     \/ task[w].step = "unfile" /\ Exists(i, n) /\ to = "erase"
                     \/ task[w].step = "unfile" /\ ~Exists(i, n) /\ to = "freed"
    <3>1. \A x : /\ x \in {"lockdir", "cleanup"} => Follows("lock", x)
                 /\ x \in {"erase", "freed"} => Follows("unfile", x)
      BY DEF Follows, UploadSteps, DeleteSteps
    <3> QED BY <2>1, <3>1
  <2>3. /\ DiskOK' /\ Elsewhere(i)
        /\ Exists(i, n) => file'[i][n] = [file[i][n] EXCEPT !.mode = m] /\ file'[i][n] # Null
        /\ ~Exists(i, n) => file'[i][n] = Null
    BY <1>1, <1>2, <2>1, ModeIsSet
  <2>4. Exists(i, n) => file'[i][n].data = file[i][n].data /\ file'[i][n].mode = m
    BY <1>2, <1>3, <2>3 DEF Inodes
  <2>5. \A t \in Tasks : OnTrack(task[w], dir[i], file[i][n]) /\ t.s = s /\ t.step = to =>
                         OnTrack(t, dir[i], file'[i][n])
    BY <1>3, <2>2, <2>3, <2>4 DEF OnTrack, s
  <2>6. to # "freed" \/ ~OnTrack(task[w], dir[i], file[i][n])
    BY <1>3, <2>2 DEF OnTrack
  <2> QED BY <1>4, <2>2, <2>3, <2>5, <2>6
<1>9. CASE RemoveFile(w)
  <2> DEFINE ok == Removes(i, n)
             to == IF ok THEN "rmdir" ELSE "freed"
             g  == IF ok THEN Null ELSE file[i][n]
  <2>1. task[w].step = "erase" /\ StepTo(w, to) /\ SetFile(i, n, ok, Null) /\ ok \in BOOLEAN
    BY <1>9 DEF RemoveFile, Try, StepTo, i, n, Removes, Exists
  <2>2. Follows(task[w].step, to)
    BY <2>1 DEF Follows, DeleteSteps
  <2>3. \A t \in Tasks : OnTrack(task[w], dir[i], file[i][n]) /\ t.s = s /\ t.step = to =>
                         OnTrack(t, dir[i], g)
    BY <1>3, <2>1 DEF OnTrack, Removes, s
  <2>5. to # "freed" \/ ~OnTrack(task[w], dir[i], file[i][n])
    BY <1>3, <2>1 DEF OnTrack, Removes
  <2> HIDE DEF ok, to
  <2>4. DiskOK' /\ Elsewhere(i) /\ file'[i][n] = g
    BY <1>1, <1>2, <2>1, FileIsSet
  <2> HIDE DEF g
  <2> QED BY <1>4, <2>1, <2>2, <2>3, <2>4, <2>5
<1> QED BY <1>5, <1>6, <1>7, <1>8, <1>9 DEF AfterRefusal, AfterSecondRefusal

LEMMA CallsStep ==
  ASSUME StoreInv, NEW w \in Workers, Calls(w)
  PROVE  StoreInv'
<1> USE DEF StoreInv
<1>1. UNCHANGED <<vars, walk, due, shared, restarts>>
  BY DEF Calls
<1>2. (Inv /\ JobsBounded)' /\ NoRuns'
  <2>1. (Inv /\ JobsBounded)'
    BY <1>1, InvStep
  <2> QED BY <1>1, <2>1 DEF NoRuns, vars, mainVars, jobVars, taskVars
<1>3. UNCHANGED <<scripts, fate, pc, mine, id>>
  BY <1>1 DEF vars, scriptVars, taskVars
<1>4. \A v \in Workers : /\ task'[v].i = task[v].i /\ task'[v].s = task[v].s
                         /\ task'[v].step \in Claims <=> task[v].step \in Claims
                         /\ task'[v].step = "idle" <=> task[v].step = "idle"
                         /\ task'[v].step = "remove" <=> task[v].step = "remove"
                         /\ task'[v].step = "look" <=> task[v].step = "look"
                         /\ v # w => task'[v] = task[v]
  BY DEF Calls, Claims, UploadSteps, DeleteSteps
<1>5. task[w].step \notin {"idle", "look"} /\ Id(w) = task[w].i /\ DiskOK' /\ Elsewhere(Id(w))
  BY DEF Calls, UploadSteps, DeleteSteps, Id
<1>6. PlaceInv'
  <2>1. task' \in [Workers -> Tasks] /\ DiskOK'
    BY DEF Calls
  <2>2. ASSUME NEW v \in Workers
        PROVE  Placed(v)'
    <3>1. Placed(v)
      BY DEF PlaceInv
    <3>2. CASE v # w
      BY <1>3, <1>4, <3>1, <3>2 DEF Placed, At
    <3>3. CASE v = w
      <4>1. \/ task[w].step \in UploadSteps /\ task'[w].step \in UploadSteps
            \/ task[w].step \in DeleteSteps /\ task'[w].step \in DeleteSteps
        BY DEF Calls
      <4> QED BY <1>3, <1>4, <3>1, <3>3, <4>1
              DEF Placed, At, Claims, UploadSteps, DeleteSteps
    <3> QED BY <3>2, <3>3
  <2> QED BY <1>1, <1>3, <2>1, <2>2 DEF PlaceInv
<1>7. ClaimInv'
  BY <1>3, <1>4 DEF ClaimInv
<1>8. AloneInv'
  BY <1>1, <1>3, <1>4 DEF AloneInv, AtRest
<1>9. DiskInv'
  <2> SUFFICES ASSUME walk.step = "no"
               PROVE  /\ \A v \in Workers : task'[v].step # "idle" /\ task'[v].s \notin shared =>
                           Track(v)'
                      /\ \A j \in Slots : AtRest(j)' =>
                           Sealed(dir'[j], file'[j][NameOf[scripts[j]]], scripts[j])
    BY <1>1, <1>3 DEF DiskInv
  <2>1. ASSUME NEW v \in Workers, task'[v].step # "idle", task'[v].s \notin shared
        PROVE  Track(v)'
    <3>1. Track(v)
      BY <1>4, <2>1 DEF DiskInv
    <3>2. CASE v = w
      BY <3>1, <3>2 DEF Calls
    <3>3. CASE v # w
      <4>1. Id(v) \in Slots /\ Id(v) # Id(w) /\ task'[v] = task[v]
        BY <1>4, <1>5, <2>1, <3>3, OnItsId DEF AloneInv, Id
      <4>2. dir'[Id(v)] = dir[Id(v)] /\ file'[Id(v)] = file[Id(v)]
        BY <1>5, <4>1 DEF Elsewhere
      <4> QED BY <3>1, <4>1, <4>2, TrackKept
    <3> QED BY <3>2, <3>3
  <2>2. ASSUME NEW j \in Slots, AtRest(j)'
        PROVE  Sealed(dir'[j], file'[j][NameOf[scripts[j]]], scripts[j])
    <3>1. AtRest(j)
      BY <1>1, <1>3, <2>2 DEF AtRest
    <3>2. j # Id(w)
      BY <1>5, <3>1 DEF AloneInv
    <3> QED BY <1>5, <3>1, <3>2 DEF Elsewhere, DiskInv
  <2> QED BY <2>1, <2>2
<1>10. WalkInv'
  <2>1. \A j \in due : file'[j] = file[j]
    BY <1>5 DEF WalkInv, Elsewhere, PlaceInv
  <2> QED BY <1>1, <1>3, <1>4, <2>1 DEF WalkInv, Visited, Exists
<1> QED BY <1>2, <1>6, <1>7, <1>8, <1>9, <1>10
-----------------------------------------------------------------------------
(* The steps that change the table, and with it who shares an id.              *)

LEMMA Begins ==
  ASSUME PlaceInv, NEW w \in Workers, NEW step \in {"stat", "look"},
         NEW i \in Slots, NEW s \in Scripts, Begin(w, step, i, s)
  PROVE  /\ task[w] = NoTask /\ due' = due \ {i}
         /\ task' \in [Workers -> Tasks] /\ \A v \in Workers : v # w => task'[v] = task[v]
         /\ task'[w].step = step /\ task'[w].i = i /\ task'[w].s = s
         /\ shared \subseteq shared' /\ shared' \subseteq Scripts
         /\ \A v \in Workers : v # w /\ task[v].i = i => s \in shared' /\ task[v].s \in shared'
<1> DEFINE others == {v \in Workers \ {w} : task[v].i = i}
           t == [step |-> step, i |-> i, s |-> s, ino |-> Null]
<1>1. /\ task[w] = NoTask /\ task' = [task EXCEPT ![w] = t] /\ due' = due \ {i}
      /\ shared' = IF others = {} THEN shared
                   ELSE shared \cup {s} \cup {task[v].s : v \in others}
  BY DEF Begin
<1>2. t \in Tasks /\ t.step = step /\ t.i = i /\ t.s = s
  BY DEF Tasks, Claims, UploadSteps, Slots
<1> HIDE DEF t
<1>3. task \in [Workers -> Tasks] /\ shared \subseteq Scripts /\ i # 0
  BY DEF PlaceInv, Slots
<1>4. ASSUME NEW v \in others PROVE task[v].s \in Scripts
  <2>1. Placed(v)
    BY DEF PlaceInv
  <2> QED BY <1>3, <1>4, <2>1 DEF Placed, NoTask
<1>5. shared \subseteq shared' /\ shared' \subseteq Scripts
  BY <1>1, <1>3, <1>4
<1>6. \A v \in Workers : v # w /\ task[v].i = i => s \in shared' /\ task[v].s \in shared'
  BY <1>1
<1> QED BY <1>1, <1>2, <1>3, <1>5, <1>6

(* A new task is alone, or its script and those of the others are shared.      *)
LEMMA BeginsAlone ==
  ASSUME PlaceInv, AloneInv, NEW w \in Workers, NEW step \in {"stat", "look"},
         NEW i \in Slots, NEW s \in Scripts, Begin(w, step, i, s),
         NEW u \in Workers, task'[u].step # "idle", task'[u].s \notin shared',
         NEW v \in Workers, v # u
  PROVE  task'[v].i # task'[u].i
<1>1. /\ \A x \in Workers : x # w => task'[x] = task[x]
      /\ task'[w].i = i /\ task'[w].s = s /\ shared \subseteq shared'
      /\ \A x \in Workers : x # w /\ task[x].i = i => s \in shared' /\ task[x].s \in shared'
  BY Begins
<1>2. CASE u = w \/ v = w
  BY <1>1, <1>2
<1>3. CASE u # w /\ v # w
  BY <1>1, <1>3 DEF AloneInv
<1> QED BY <1>2, <1>3

LEMMA RaceNoted ==
  ASSUME walk \in Walks, TableChanges
  PROVE  walk' \in Walks /\ walk'.step = walk.step /\ walk'.i = walk.i
BY DEF TableChanges, Walks

(* The part of the table's module: its invariant, and no runs.                 *)
LEMMA TablePart ==
  ASSUME StoreInv, server = "up", NEW w \in Workers, Upload(w) \/ Delete(w)
  PROVE  (Inv /\ JobsBounded)' /\ NoRuns'
<1>1. Next
  BY DEF Next, Step
<1>2. (Inv /\ JobsBounded)'
  BY <1>1, InvStep DEF StoreInv
<1>3. UNCHANGED <<mpc, mscript, mpid, jobs, dropped>>
  BY DEF Upload, UploadLocks, UploadPasses, UploadPlaces, UploadStored, CleanupBegins,
         UploadFails, Delete, DeleteFinds, DeleteRefused, DeleteTakes, DeleteFrees,
         mainVars, jobVars
<1> QED BY <1>2, <1>3 DEF StoreInv, NoRuns

(* A thread stays in its place while its task and its script do.               *)
LEMMA PlaceKept ==
  ASSUME NEW v \in Workers, Placed(v), task'[v] = task[v],
         pc'[v] = pc[v], mine'[v] = mine[v], id'[v] = id[v],
         task[v].s \in Scripts =>
           /\ fate[task[v].s] # "unused" => fate'[task[v].s] # "unused"
           /\ fate[task[v].s] = "cleaned" => fate'[task[v].s] = "cleaned"
  PROVE  Placed(v)'
<1>1. CASE task[v].step = "idle"
  BY <1>1 DEF Placed, At, Claims, UploadSteps, DeleteSteps
<1>2. CASE task[v].step # "idle"
  BY <1>2 DEF Placed, At
<1> QED BY <1>1, <1>2

(* What a beginning task makes of the three parts that are about the disk.     *)
LEMMA BegunOnDisk ==
  ASSUME StoreInv, NEW w \in Workers, NEW step \in {"stat", "look"},
         NEW i \in Slots, NEW s \in Scripts, Begin(w, step, i, s),
         walk' \in Walks, walk'.step = walk.step, walk'.i = walk.i,
         UNCHANGED diskVars,
         \A j \in Slots : j # i \/ step = "look" => scripts'[j] = scripts[j],
         \A j \in Slots : AtRest(j)' => AtRest(j) /\ (j # i \/ step = "look"),
         walk.step = "no" /\ s \notin shared' =>
           \A t \in Tasks : t.step = step => OnTrack(t, dir[i], file[i][NameOf[s]])
  PROVE  AloneInv' /\ DiskInv' /\ WalkInv'
<1>1. /\ task[w] = NoTask /\ due' = due \ {i}
      /\ task' \in [Workers -> Tasks] /\ \A v \in Workers : v # w => task'[v] = task[v]
      /\ task'[w].step = step /\ task'[w].i = i /\ task'[w].s = s
      /\ shared \subseteq shared'
  BY Begins DEF StoreInv
<1>2. dir' = dir /\ file' = file
  BY DEF diskVars
<1>3. AloneInv'
  <2>1. \A u, v \in Workers : task'[u].step # "idle" /\ task'[u].s \notin shared' /\ v # u =>
          task'[v].i # task'[u].i
    BY BeginsAlone DEF StoreInv
  <2>2. \A j \in Slots : AtRest(j)' =>
          \A v \in Workers : task'[v].i # j \/ task'[v].step = "look"
    BY <1>1 DEF StoreInv, AloneInv
  <2> QED BY <2>1, <2>2 DEF AloneInv
<1>4. DiskInv'
  <2> SUFFICES ASSUME walk.step = "no"
               PROVE  /\ \A v \in Workers : task'[v].step # "idle" /\ task'[v].s \notin shared' =>
                           Track(v)'
                      /\ \A j \in Slots : AtRest(j)' =>
                           Sealed(dir[j], file[j][NameOf[scripts'[j]]], scripts'[j])
    BY <1>2 DEF DiskInv
  <2>1. ASSUME NEW v \in Workers, v # w, task'[v].step # "idle", task'[v].s \notin shared'
        PROVE  Track(v)'
    <3>1. task'[v] = task[v] /\ task[v].s \notin shared
      BY <1>1, <2>1
    <3>2. Track(v)
      BY <2>1, <3>1 DEF StoreInv, DiskInv
    <3> QED BY <1>2, <3>1, <3>2, TrackKept
  <2>2. ASSUME task'[w].s \notin shared'
        PROVE  Track(w)'
    <3>1. Id(w)' = i /\ Name(w)' = NameOf[s] /\ task'[w] \in Tasks
      BY <1>1 DEF Id, Name
    <3>2. OnTrack(task'[w], dir'[i], file'[i][NameOf[s]])
      BY <1>1, <1>2, <2>2, <3>1
    <3> QED BY <1>1, <3>1, <3>2 DEF Track
  <2>3. \A j \in Slots : AtRest(j)' => Sealed(dir[j], file[j][NameOf[scripts'[j]]], scripts'[j])
    BY DEF StoreInv, DiskInv
  <2> QED BY <2>1, <2>2, <2>3
<1>5. WalkInv'
  BY <1>1, <1>2 DEF StoreInv, PlaceInv, WalkInv, Visited, Exists
<1> QED BY <1>3, <1>4, <1>5

(* A step that moves a thread and leaves the tables and the disk alone.        *)
LEMMA OnlyMoves ==
  ASSUME StoreInv, UNCHANGED <<scripts, fate, dir, file, walk, due, shared>>,
         task' \in [Workers -> Tasks],
         \A v \in Workers :
           /\ task'[v].i = task[v].i /\ task'[v].s = task[v].s
           /\ task'[v].step \in Claims <=> task[v].step \in Claims
           /\ task'[v].step = "idle" <=> task[v].step = "idle"
           /\ task'[v].step = "remove" <=> task[v].step = "remove"
           /\ task'[v].step = "look" <=> task[v].step = "look"
           /\ task'[v] = task[v] \/ task'[v].step = "reset"
  PROVE  ClaimInv' /\ AloneInv' /\ DiskInv' /\ WalkInv'
<1>1. ClaimInv' /\ AloneInv'
  BY DEF StoreInv, ClaimInv, AloneInv, AtRest
<1>2. ASSUME NEW v \in Workers, Track(v) PROVE Track(v)'
  <2>1. CASE task'[v] = task[v]
    BY <1>2, <2>1, TrackKept
  <2>2. CASE task'[v].step = "reset"
    BY <2>2 DEF Track, OnTrack
  <2> QED BY <2>1, <2>2
<1>3. DiskInv'
  BY <1>2 DEF StoreInv, DiskInv, AtRest
<1>4. WalkInv'
  BY DEF StoreInv, WalkInv, Visited, Exists
<1> QED BY <1>1, <1>3, <1>4

LEMMA SearchStep ==
  ASSUME StoreInv, server = "up", NEW w \in Workers, Search(w) \/ Pass(w)
  PROVE  StoreInv'
<1>1. (Inv /\ JobsBounded)' /\ NoRuns'
  BY TablePart DEF Search, Pass, Upload
<1>2. TypeOK /\ PlaceInv /\ task \in [Workers -> Tasks]
  BY DEF StoreInv, Inv, PlaceInv
<1>3. UNCHANGED <<scripts, fate, mine, diskVars, task, walk, due, shared, restarts>>
  BY DEF Search, Pass, UploadLocks, UploadPasses, OnTable, scriptVars
<1>4. /\ pc' = [pc EXCEPT ![w] = "scan"] \/ (pc[w] = "scan" /\ pc' = pc)
      /\ \A v \in Workers : v # w => id'[v] = id[v]
      /\ task[w].step = "idle" \/ pc[w] = "scan"
  BY <1>2 DEF Search, Pass, UploadLocks, UploadPasses, Go, NoTask, TypeOK, TaskType
<1>5. pc'[w] = "scan" /\ \A v \in Workers : v # w => pc'[v] = pc[v]
  BY <1>2, <1>4 DEF TypeOK, TaskType
<1>6. ASSUME NEW v \in Workers PROVE Placed(v)'
  <2>1. Placed(v)
    BY <1>2 DEF PlaceInv
  <2>2. CASE v # w
    BY <1>3, <1>4, <1>5, <2>1, <2>2, PlaceKept
  <2>3. CASE v = w
    <3>1. task[w].step = "idle"
      BY <1>4, <2>1, <2>3 DEF Placed, At
    <3> QED BY <1>3, <1>5, <2>1, <2>3, <3>1
            DEF Placed, At, Claims, UploadSteps, DeleteSteps
  <2> QED BY <2>2, <2>3
<1>7. PlaceInv'
  BY <1>2, <1>3, <1>6 DEF PlaceInv, DiskOK, diskVars, IsDir, Exists
<1>8. ClaimInv' /\ AloneInv' /\ DiskInv' /\ WalkInv'
  BY <1>2, <1>3, OnlyMoves DEF diskVars
<1> QED BY <1>1, <1>7, <1>8 DEF StoreInv

LEMMA ClaimStep ==
  ASSUME StoreInv, server = "up", NEW w \in Workers, NEW s \in Scripts, Claim(w, s)
  PROVE  StoreInv'
<1> DEFINE i == id[w]
<1>1. (Inv /\ JobsBounded)' /\ NoRuns'
  BY TablePart DEF Claim, Upload
<1>2. TypeOK /\ SizeInv /\ PlaceInv /\ ClaimInv /\ walk \in Walks
  BY DEF StoreInv, Inv, PlaceInv
<1>3. /\ fate[s] = "unused" /\ fate' = [fate EXCEPT ![s] = "partial"]
      /\ pc' = [pc EXCEPT ![w] = "store"] /\ mine' = [mine EXCEPT ![w] = s] /\ id' = id
      /\ UNCHANGED <<diskVars, restarts>> /\ TableChanges /\ Begin(w, "stat", i, s)
      /\ pc[w] = "scan" /\ i \in Ids /\ scripts' = [scripts EXCEPT ![i] = s] /\ ~Taken(i)
  BY DEF Claim, UploadPlaces, Go
<1>4. i \in Slots /\ scripts[i] = Null
  <2>1. i \in 1..size
    BY <1>2, <1>3 DEF SizeInv
  <2>2. i # 0
    BY <2>1
  <2>3. i \in Nat /\ size \in Nat
    <3>1. size \in 1..(Cardinality(Scripts) + 1) /\ Cardinality(Scripts) \in Nat
      BY <1>2, IdsType DEF TypeOK, TableType
    <3>2. i \in Nat
      BY <1>3, IdsType
    <3>3. size \in Nat
      BY <3>1
    <3> QED BY <3>2, <3>3
  <2>4. scripts[i] = Null
    BY <1>2, <1>3, <2>3 DEF Taken, SizeInv
  <2> QED BY <1>3, <2>2, <2>4 DEF Slots
<1> HIDE DEF i
<1>5. /\ \A j \in Ids : scripts'[j] = IF j = i THEN s ELSE scripts[j]
      /\ \A t \in Scripts : fate'[t] = IF t = s THEN "partial" ELSE fate[t]
      /\ \A v \in Workers : v # w => pc'[v] = pc[v] /\ mine'[v] = mine[v] /\ id'[v] = id[v]
      /\ pc'[w] = "store" /\ mine'[w] = s /\ id'[w] = i
  BY <1>2, <1>3 DEF TypeOK, TableType, TaskType, i
<1>7. /\ task[w] = NoTask /\ due' = due \ {i}
      /\ task' \in [Workers -> Tasks] /\ \A v \in Workers : v # w => task'[v] = task[v]
      /\ task'[w].step = "stat" /\ task'[w].i = i /\ task'[w].s = s
      /\ shared \subseteq shared' /\ shared' \subseteq Scripts
  BY <1>2, <1>3, <1>4, Begins
<1>8. /\ \A j \in Ids : scripts[j] # s
      /\ \A v \in Workers : task[v].step # "idle" => task[v].s # s
  BY <1>2, <1>3, RegistryAssumption DEF StoreInv, Inv, SlotInv, Live, PlaceInv, Placed
<1>12. walk' \in Walks /\ walk'.step = walk.step /\ walk'.i = walk.i
  BY <1>2, <1>3, RaceNoted
<1>9. PlaceInv'
  <2>1. DiskOK' /\ due' \subseteq Slots /\ restarts' \in 0..MaxRestarts
        /\ shared' \subseteq Scripts /\ task' \in [Workers -> Tasks] /\ scripts'[0] = Null
    <3>1. 0 \in Ids /\ i # 0
      BY <1>4, IdsType DEF Slots
    <3> QED
      BY <1>2, <1>3, <1>5, <1>7, <3>1 DEF PlaceInv, DiskOK, diskVars, IsDir, Exists
  <2>2. ASSUME NEW v \in Workers PROVE Placed(v)'
    <3>1. CASE v = w
      BY <1>4, <1>5, <1>7, <3>1 DEF Placed, At, Claims, UploadSteps, DeleteSteps
    <3>2. CASE v # w
      <4>1. Placed(v)
        BY <1>2 DEF PlaceInv
      <4>2. task[v].s \in Scripts => task[v].s # s
        BY <1>8, <4>1, RegistryAssumption DEF Placed, NoTask
      <4> QED BY <1>5, <1>7, <3>2, <4>1, <4>2, PlaceKept
    <3> QED BY <3>1, <3>2
  <2> QED BY <1>12, <2>1, <2>2 DEF PlaceInv
<1>10. ClaimInv'
  <2>1. ASSUME NEW v \in Workers, NEW j \in Slots
        PROVE  /\ task'[v].step \in Claims /\ scripts'[j] = task'[v].s => j = task'[v].i
               /\ task'[v].step = "remove" => scripts'[j] # task'[v].s
    <3>1. j \in Ids
      BY DEF Slots
    <3>2. CASE v = w
      BY <1>5, <1>7, <1>8, <3>1, <3>2
    <3>3. CASE v # w
      BY <1>2, <1>5, <1>7, <1>8, <3>1, <3>3 DEF ClaimInv, Claims, UploadSteps
    <3> QED BY <3>2, <3>3
  <2>2. ASSUME NEW j \in Slots, scripts'[j] # Null, fate'[scripts'[j]] = "partial"
        PROVE  \E v \in Workers : /\ task'[v].step \in Claims
                                  /\ task'[v].s = scripts'[j] /\ task'[v].i = j
    <3>1. CASE j = i
      <4>1. "stat" \in Claims /\ i \in Ids
        BY <1>4 DEF Claims, UploadSteps, Slots
      <4> QED BY <1>5, <1>7, <3>1, <4>1
    <3>2. CASE j # i
      <4>1. j \in Ids /\ scripts'[j] = scripts[j] /\ scripts[j] \in Scripts /\ scripts[j] # s
        BY <1>2, <1>5, <1>8, <2>2, <3>2 DEF Slots, TypeOK, TableType
      <4>2. PICK v \in Workers : /\ task[v].step \in Claims
                                 /\ task[v].s = scripts[j] /\ task[v].i = j
        BY <1>2, <1>5, <2>2, <4>1 DEF ClaimInv
      <4>3. v # w
        BY <1>7, <4>2 DEF NoTask, Claims, UploadSteps
      <4> QED BY <1>7, <4>1, <4>2, <4>3
    <3> QED BY <3>1, <3>2
  <2> QED BY <2>1, <2>2 DEF ClaimInv
<1>11. AloneInv' /\ DiskInv' /\ WalkInv'
  <2>1. \A j \in Slots : j # i => scripts'[j] = scripts[j]
    BY <1>5 DEF Slots
  <2>2. \A j \in Slots : AtRest(j)' => AtRest(j) /\ j # i
    BY <1>2, <1>5, <1>7, <1>8 DEF AtRest, Slots, TypeOK, TableType
  <2>3. \A t \in Tasks : t.step = "stat" => OnTrack(t, dir[i], file[i][NameOf[s]])
    BY DEF OnTrack
  <2> QED BY <1>3, <1>4, <1>12, <2>1, <2>2, <2>3, BegunOnDisk
<1> QED BY <1>1, <1>9, <1>10, <1>11 DEF StoreInv

(* A delete finds a script.                                                    *)
LEMMA LookStep ==
  ASSUME StoreInv, server = "up", NEW w \in Workers, NEW i \in Slots, Look(w, i)
  PROVE  StoreInv'
<1>1. (Inv /\ JobsBounded)' /\ NoRuns'
  BY TablePart DEF Look, Delete, Slots
<1>2. TypeOK /\ PlaceInv /\ ClaimInv /\ walk \in Walks /\ i \in Ids
  BY DEF StoreInv, Inv, PlaceInv, Slots
<1>3. PICK s \in Scripts : s = scripts[i]
  BY <1>2 DEF Look, DeleteFinds, TypeOK, TableType
<1>4. /\ pc' = [pc EXCEPT ![w] = "dlock"] /\ mine' = [mine EXCEPT ![w] = s]
      /\ id' = [id EXCEPT ![w] = i]
      /\ UNCHANGED <<scripts, fate, diskVars, walk, restarts>> /\ Begin(w, "look", i, s)
  BY <1>3 DEF Look, DeleteFinds, Go, scriptVars
<1>5. /\ \A v \in Workers : v # w => pc'[v] = pc[v] /\ mine'[v] = mine[v] /\ id'[v] = id[v]
      /\ pc'[w] = "dlock" /\ mine'[w] = s /\ id'[w] = i
  BY <1>2, <1>4 DEF TypeOK, TaskType
<1>6. /\ task[w] = NoTask /\ due' = due \ {i}
      /\ task' \in [Workers -> Tasks] /\ \A v \in Workers : v # w => task'[v] = task[v]
      /\ task'[w].step = "look" /\ task'[w].i = i /\ task'[w].s = s
      /\ shared \subseteq shared' /\ shared' \subseteq Scripts
      /\ \A v \in Workers : v # w /\ task[v].i = i => s \in shared'
  BY <1>2, <1>4, Begins
<1>7. Live(s)
  BY <1>2, <1>3, RegistryAssumption DEF StoreInv, Inv, SlotInv
<1>8. PlaceInv'
  <2>1. DiskOK' /\ walk' \in Walks /\ due' \subseteq Slots /\ restarts' \in 0..MaxRestarts
        /\ shared' \subseteq Scripts /\ task' \in [Workers -> Tasks] /\ scripts'[0] = Null
    BY <1>2, <1>4, <1>6 DEF PlaceInv, DiskOK, diskVars, IsDir, Exists
  <2>2. ASSUME NEW v \in Workers PROVE Placed(v)'
    <3>1. CASE v = w
      BY <1>4, <1>5, <1>6, <1>7, <3>1 DEF Placed, At, Claims, UploadSteps, DeleteSteps, Live
    <3>2. CASE v # w
      <4>1. Placed(v)
        BY <1>2 DEF PlaceInv
      <4> QED BY <1>4, <1>5, <1>6, <3>2, <4>1, PlaceKept
    <3> QED BY <3>1, <3>2
  <2> QED BY <2>1, <2>2 DEF PlaceInv
<1>9. ClaimInv'
  <2>1. task[w].step \notin Claims /\ task'[w].step \notin Claims \cup {"remove"}
    BY <1>6 DEF NoTask, Claims, UploadSteps
  <2> QED BY <1>2, <1>4, <1>6, <2>1 DEF ClaimInv
<1>10. AloneInv' /\ DiskInv' /\ WalkInv'
  <2>1. \A j \in Slots : AtRest(j)' => AtRest(j)
    BY <1>4, <1>6 DEF AtRest
(* An upload that is still at work shares its script with this delete.         *)
  <2>2. ASSUME walk.step = "no", s \notin shared'
        PROVE  \A t \in Tasks : t.step = "look" => OnTrack(t, dir[i], file[i][NameOf[s]])
    <3>1. fate[s] # "partial"
      <4> SUFFICES ASSUME fate[s] = "partial" PROVE FALSE
        OBVIOUS
      <4>1. PICK v \in Workers : task[v].step \in Claims /\ task[v].i = i
        BY <1>2, <1>3, RegistryAssumption DEF ClaimInv
      <4> QED BY <1>6, <2>2, <4>1 DEF NoTask, Claims, UploadSteps
    <3>2. AtRest(i)
      BY <1>3, <1>6, <1>7, <2>2, <3>1, RegistryAssumption DEF AtRest, Live
    <3>3. Sealed(dir[i], file[i][NameOf[s]], s)
      BY <1>3, <2>2, <3>2 DEF StoreInv, DiskInv
    <3> QED BY <3>3 DEF Sealed, OnTrack
  <2> QED BY <1>2, <1>4, <2>1, <2>2, BegunOnDisk
<1> QED BY <1>1, <1>8, <1>9, <1>10 DEF StoreInv

(* It takes out what the slot holds by now.                                    *)
LEMMA TakeStep ==
  ASSUME StoreInv, server = "up", NEW w \in Workers, Take(w)
  PROVE  StoreInv'
<1> DEFINE i == task[w].i
           s == task[w].s
<1>1. (Inv /\ JobsBounded)' /\ NoRuns'
  BY TablePart DEF Take, Delete
<1>2. TypeOK /\ HandInv /\ PlaceInv /\ ClaimInv /\ AloneInv /\ task[w].step = "look"
      /\ task \in [Workers -> Tasks] /\ Placed(w)
  BY DEF StoreInv, Inv, Take, Try, PlaceInv
<1>3. /\ i \in Slots /\ i \in Ids /\ s \in Scripts /\ fate[s] # "unused"
      /\ pc[w] = "dlock" /\ mine[w] = s /\ id[w] = i
  BY <1>2 DEF Placed, At, UploadSteps, DeleteSteps, Slots
<1>4. scripts[i] = s \/ (scripts[i] = Null /\ fate[s] = "cleaned")
  BY <1>2, <1>3 DEF HandInv
<1>5. /\ scripts' = [scripts EXCEPT ![i] = Null] /\ pc' = [pc EXCEPT ![w] = "unlink"]
      /\ mine' = [mine EXCEPT ![w] = scripts[i]] /\ id' = [id EXCEPT ![w] = 0]
      /\ UNCHANGED <<fate, diskVars, due, shared, restarts>> /\ TableChanges
      /\ task' = [task EXCEPT ![w].step = "undir"]
  BY <1>3 DEF Take, DeleteTakes, Go, Try
<1>6. /\ task' \in [Workers -> Tasks] /\ \A v \in Workers : v # w => task'[v] = task[v]
      /\ task'[w].step = "undir" /\ task'[w].i = i /\ task'[w].s = s
  BY <1>2, <1>5 DEF Tasks, DeleteSteps
<1> HIDE DEF i, s
<1>7. /\ \A j \in Ids : scripts'[j] = IF j = i THEN Null ELSE scripts[j]
      /\ \A v \in Workers : v # w => pc'[v] = pc[v] /\ mine'[v] = mine[v] /\ id'[v] = id[v]
      /\ pc'[w] = "unlink" /\ mine'[w] = scripts[i]
  BY <1>2, <1>3, <1>5 DEF TypeOK, TableType, TaskType
<1>8. walk' \in Walks /\ walk'.step = walk.step /\ walk'.i = walk.i
  BY <1>2, <1>5, RaceNoted DEF PlaceInv
<1>9. PlaceInv'
  <2>1. DiskOK' /\ due' \subseteq Slots /\ restarts' \in 0..MaxRestarts
        /\ shared' \subseteq Scripts /\ scripts'[0] = Null
    BY <1>2, <1>3, <1>5, <1>7, IdsType DEF PlaceInv, DiskOK, diskVars, IsDir, Exists, Slots
  <2>2. ASSUME NEW v \in Workers PROVE Placed(v)'
    <3>1. CASE v = w
      BY <1>3, <1>4, <1>5, <1>6, <1>7, <3>1
         DEF Placed, At, Claims, UploadSteps, DeleteSteps
    <3>2. CASE v # w
      <4>1. Placed(v)
        BY <1>2 DEF PlaceInv
      <4> QED BY <1>5, <1>6, <1>7, <3>2, <4>1, PlaceKept
    <3> QED BY <3>1, <3>2
  <2> QED BY <1>6, <1>8, <2>1, <2>2 DEF PlaceInv
<1>10. /\ task[w].step \notin Claims /\ task'[w].step \notin Claims \cup {"remove", "idle"}
  BY <1>2, <1>6 DEF Claims, UploadSteps
<1>11. ClaimInv'
  <2>1. ASSUME NEW v \in Workers, NEW j \in Slots
        PROVE  /\ task'[v].step \in Claims /\ scripts'[j] = task'[v].s => j = task'[v].i
               /\ task'[v].step = "remove" => scripts'[j] # task'[v].s
    <3>1. CASE v = w
      BY <1>10, <3>1
    <3>2. CASE v # w
      <4>1. task'[v].step # "idle" => task'[v].s # Null
        BY <1>2, <1>6, <3>2, RegistryAssumption DEF PlaceInv, Placed
      <4> QED BY <1>2, <1>6, <1>7, <3>2, <4>1 DEF ClaimInv, Slots, Claims, UploadSteps
    <3> QED BY <3>1, <3>2
  <2>2. ASSUME NEW j \in Slots, scripts'[j] # Null, fate'[scripts'[j]] = "partial"
        PROVE  \E v \in Workers : /\ task'[v].step \in Claims
                                  /\ task'[v].s = scripts'[j] /\ task'[v].i = j
    <3>1. scripts'[j] = scripts[j] /\ fate' = fate
      BY <1>5, <1>7, <2>2 DEF Slots
    <3>2. PICK v \in Workers : /\ task[v].step \in Claims
                               /\ task[v].s = scripts[j] /\ task[v].i = j
      BY <1>2, <2>2, <3>1 DEF ClaimInv
    <3>3. v # w
      BY <1>10, <3>2
    <3> QED BY <1>6, <3>1, <3>2, <3>3
  <2> QED BY <2>1, <2>2 DEF ClaimInv
<1>12. \A j \in Slots : AtRest(j)' => AtRest(j) /\ j # i /\ scripts'[j] = scripts[j]
  BY <1>5, <1>7 DEF AtRest, Slots
<1>13. AloneInv'
  <2>1. \A v \in Workers : task'[v].i = task[v].i /\ task'[v].s = task[v].s
          /\ (task'[v].step # "idle" => task[v].step # "idle")
    BY <1>2, <1>6 DEF i, s
  <2>2. \A u, v \in Workers : task'[u].step # "idle" /\ task'[u].s \notin shared' /\ v # u =>
          task'[v].i # task'[u].i
    BY <1>2, <1>5, <2>1 DEF AloneInv
  <2>3. \A j \in Slots : AtRest(j)' =>
          \A v \in Workers : task'[v].i # j \/ task'[v].step = "look"
    BY <1>2, <1>6, <1>12 DEF AloneInv
  <2> QED BY <2>2, <2>3 DEF AloneInv
<1>14. DiskInv'
  <2> SUFFICES ASSUME walk.step = "no"
               PROVE  /\ \A v \in Workers : task'[v].step # "idle" /\ task'[v].s \notin shared =>
                           Track(v)'
                      /\ \A j \in Slots : AtRest(j)' =>
                           Sealed(dir[j], file[j][NameOf[scripts'[j]]], scripts'[j])
    BY <1>5, <1>8 DEF DiskInv, diskVars
  <2>1. ASSUME NEW v \in Workers, task'[v].step # "idle", task'[v].s \notin shared
        PROVE  Track(v)'
    <3>1. CASE v = w
      <4>1. Track(w)
        BY <1>2, <1>6, <2>1, <3>1 DEF StoreInv, DiskInv, s
      <4>2. Id(w)' = Id(w) /\ Name(w)' = Name(w)
        BY <1>6 DEF Id, Name, i, s
      <4> QED BY <1>2, <1>5, <1>6, <3>1, <4>1, <4>2 DEF Track, OnTrack, diskVars
    <3>2. CASE v # w
      <4>1. task'[v] = task[v] /\ Track(v)
        BY <1>6, <2>1, <3>2 DEF StoreInv, DiskInv
      <4> QED BY <1>5, <4>1, TrackKept DEF diskVars
    <3> QED BY <3>1, <3>2
  <2>2. \A j \in Slots : AtRest(j)' =>
          Sealed(dir[j], file[j][NameOf[scripts'[j]]], scripts'[j])
    BY <1>12 DEF StoreInv, DiskInv
  <2> QED BY <2>1, <2>2
<1>15. WalkInv'
  <2>1. \A j \in due : j \in Slots /\ j # i /\ scripts'[j] = scripts[j]
    BY <1>2, <1>7 DEF StoreInv, PlaceInv, WalkInv, Slots, i
  <2> QED BY <1>5, <1>6, <1>8, <2>1
             DEF StoreInv, PlaceInv, WalkInv, Visited, Exists, diskVars
<1> QED BY <1>1, <1>9, <1>11, <1>13, <1>14, <1>15 DEF StoreInv

(* 200 for an upload.                                                          *)
LEMMA StoredStep ==
  ASSUME StoreInv, server = "up", NEW w \in Workers, Stored(w)
  PROVE  StoreInv'
<1>1. (Inv /\ JobsBounded)' /\ NoRuns'
  BY TablePart DEF Stored, Upload
<1>2. TypeOK /\ PlaceInv /\ ClaimInv /\ AloneInv /\ task[w].step = "answer"
      /\ task \in [Workers -> Tasks]
  BY DEF StoreInv, Inv, Stored, PlaceInv
<1>3. PICK s \in Scripts : s = task[w].s /\ s = mine[w]
  <2>1. Placed(w)
    BY <1>2 DEF PlaceInv
  <2> QED BY <1>2, <2>1 DEF Placed, Claims, UploadSteps
<1>4. /\ UNCHANGED <<scripts, diskVars, walk, due, shared, restarts>>
      /\ pc' = [pc EXCEPT ![w] = "idle"]
      /\ fate' = IF Live(s) THEN [fate EXCEPT ![s] = "stored"] ELSE fate
      /\ mine' = [mine EXCEPT ![w] = Null] /\ id' = [id EXCEPT ![w] = 0]
      /\ task' = [task EXCEPT ![w] = NoTask]
  BY <1>3 DEF Stored, UploadStored, Go, Ends
<1>5. /\ \A t \in Scripts : fate'[t] = IF t = s /\ Live(s) THEN "stored" ELSE fate[t]
      /\ \A v \in Workers : v # w => /\ pc'[v] = pc[v] /\ mine'[v] = mine[v]
                                     /\ id'[v] = id[v] /\ task'[v] = task[v]
      /\ pc'[w] = "idle" /\ task'[w] = NoTask
  BY <1>2, <1>4 DEF TypeOK, TableType, TaskType
<1>6. NoTask \in Tasks /\ NoTask.step = "idle" /\ NoTask.i = 0
  BY IdsType DEF NoTask, Tasks
<1>7. task' \in [Workers -> Tasks]
  BY <1>2, <1>4, <1>6
<1>8. PlaceInv'
  <2>1. DiskOK'
    BY <1>2, <1>4 DEF PlaceInv, DiskOK, diskVars, IsDir, Exists
  <2>2. ASSUME NEW v \in Workers
        PROVE  Placed(v)'
    <3>1. CASE v = w
      BY <1>5, <1>6, <3>1 DEF Placed, At, Claims, UploadSteps, DeleteSteps
    <3>2. CASE v # w
      <4>1. Placed(v)
        BY <1>2 DEF PlaceInv
      <4> QED BY <1>5, <3>2, <4>1, PlaceKept DEF Live
    <3> QED BY <3>1, <3>2
  <2> QED BY <1>2, <1>4, <1>7, <2>1, <2>2 DEF PlaceInv
<1>9. ClaimInv'
  <2>1. ASSUME NEW v \in Workers, NEW j \in Slots
        PROVE  /\ task'[v].step \in Claims /\ scripts'[j] = task'[v].s => j = task'[v].i
               /\ task'[v].step = "remove" => scripts'[j] # task'[v].s
    <3>1. CASE v = w
      BY <1>5, <1>6, <3>1 DEF Claims, UploadSteps
    <3>2. CASE v # w
      BY <1>2, <1>4, <1>5, <3>2 DEF ClaimInv
    <3> QED BY <3>1, <3>2
  <2>2. ASSUME NEW j \in Slots, scripts'[j] # Null, fate'[scripts'[j]] = "partial"
        PROVE  \E v \in Workers : /\ task'[v].step \in Claims
                                  /\ task'[v].s = scripts'[j] /\ task'[v].i = j
    <3>1. scripts'[j] = scripts[j] /\ scripts[j] \in Scripts /\ fate[scripts[j]] = "partial"
          /\ scripts[j] # s
      BY <1>2, <1>4, <1>5, <2>2 DEF Slots, TypeOK, TableType, Live
    <3>2. PICK v \in Workers : /\ task[v].step \in Claims
                               /\ task[v].s = scripts[j] /\ task[v].i = j
      BY <1>2, <2>2, <3>1 DEF ClaimInv
    <3>3. v # w
      BY <1>3, <3>1, <3>2
    <3> QED BY <1>5, <3>1, <3>2, <3>3
  <2> QED BY <2>1, <2>2 DEF ClaimInv
(* The script of the answer is in its slot, or in none; alone, it is at rest.  *)
<1>10. ASSUME NEW j \in Slots, AtRest(j)'
       PROVE  AtRest(j) \/ (scripts[j] = s /\ j = Id(w) /\ s \notin shared)
  <2>1. scripts'[j] = scripts[j] /\ scripts[j] \in Scripts /\ scripts[j] \notin shared
    BY <1>2, <1>4, <1>10 DEF AtRest, Slots, TypeOK, TableType
  <2>2. scripts[j] = s => j = Id(w)
    <3>1. task[w].step \in Claims
      BY <1>2 DEF Claims, UploadSteps
    <3>2. task[w].step \in Claims /\ scripts[j] = task[w].s => j = task[w].i
      BY <1>2 DEF ClaimInv
    <3> QED BY <1>3, <3>1, <3>2 DEF Id
  <2> QED BY <1>5, <1>10, <2>1, <2>2 DEF AtRest
<1>11. AloneInv'
  <2>1. ASSUME NEW u \in Workers, NEW v \in Workers, v # u,
               task'[u].step # "idle", task'[u].s \notin shared'
        PROVE  task'[v].i # task'[u].i
    <3>1. u # w /\ task'[u] = task[u] /\ task[u].i \in Slots
      BY <1>2, <1>5, <1>6, <2>1 DEF PlaceInv, Placed
    <3> QED BY <1>2, <1>4, <1>5, <1>6, <2>1, <3>1 DEF AloneInv, Slots
  <2>2. ASSUME NEW j \in Slots, AtRest(j)', NEW v \in Workers
        PROVE  task'[v].i # j \/ task'[v].step = "look"
    <3>1. CASE v = w
      BY <1>5, <1>6, <3>1 DEF Slots
    <3>2. CASE v # w
      <4>1. task'[v] = task[v]
        BY <1>5, <3>2
      <4>2. CASE AtRest(j)
        BY <1>2, <4>1, <4>2 DEF AloneInv
      <4>3. CASE s \notin shared /\ j = task[w].i
        BY <1>2, <1>3, <3>2, <4>1, <4>3 DEF AloneInv
      <4> QED BY <1>10, <2>2, <4>2, <4>3 DEF Id
    <3> QED BY <3>1, <3>2
  <2> QED BY <2>1, <2>2 DEF AloneInv
<1>12. DiskInv'
  <2> SUFFICES ASSUME walk.step = "no"
               PROVE  /\ \A v \in Workers : task'[v].step # "idle" /\ task'[v].s \notin shared =>
                           Track(v)'
                      /\ \A j \in Slots : AtRest(j)' =>
                           Sealed(dir[j], file[j][NameOf[scripts[j]]], scripts[j])
    BY <1>4 DEF DiskInv, diskVars
  <2>1. ASSUME NEW v \in Workers, task'[v].step # "idle", task'[v].s \notin shared
        PROVE  Track(v)'
    <3>1. task'[v] = task[v] /\ Track(v)
      BY <1>5, <1>6, <2>1 DEF StoreInv, DiskInv
    <3> QED BY <1>4, <3>1, TrackKept DEF diskVars
  <2>2. ASSUME NEW j \in Slots, AtRest(j)'
        PROVE  Sealed(dir[j], file[j][NameOf[scripts[j]]], scripts[j])
    <3>1. CASE AtRest(j)
      BY <3>1 DEF StoreInv, DiskInv
    <3>2. CASE scripts[j] = s /\ j = Id(w) /\ s \notin shared
      <4>1. OnTrack(task[w], dir[j], file[j][NameOf[s]])
        BY <1>2, <1>3, <3>2 DEF StoreInv, DiskInv, Track, Name
      <4> QED BY <1>2, <1>3, <3>2, <4>1 DEF OnTrack, Sealed
    <3> QED BY <1>10, <2>2, <3>1, <3>2
  <2> QED BY <2>1, <2>2
<1>13. WalkInv'
  BY <1>2, <1>4, <1>5, <1>6 DEF StoreInv, PlaceInv, WalkInv, Visited, Exists, Slots, diskVars
<1> QED BY <1>1, <1>8, <1>9, <1>11, <1>12, <1>13 DEF StoreInv

(* A failed upload, about to give up its slot.                                 *)
LEMMA CleanupStartsStep ==
  ASSUME StoreInv, server = "up", NEW w \in Workers, CleanupStarts(w)
  PROVE  StoreInv'
<1>1. (Inv /\ JobsBounded)' /\ NoRuns'
  BY TablePart DEF CleanupStarts, Upload
<1>2. TypeOK /\ PlaceInv /\ task[w].step = "cleanup" /\ task \in [Workers -> Tasks]
      /\ Placed(w)
  BY DEF StoreInv, Inv, PlaceInv, CleanupStarts, Try
<1>3. UNCHANGED <<scripts, fate, mine, id, diskVars, walk, due, shared, restarts>>
      /\ pc' = [pc EXCEPT ![w] = "reset"] /\ task' = [task EXCEPT ![w].step = "reset"]
  BY DEF CleanupStarts, CleanupBegins, Go, Try, scriptVars
<1>4. /\ task' \in [Workers -> Tasks] /\ \A v \in Workers : v # w => task'[v] = task[v]
      /\ task'[w].step = "reset" /\ task'[w].i = task[w].i /\ task'[w].s = task[w].s
      /\ pc'[w] = "reset" /\ \A v \in Workers : v # w => pc'[v] = pc[v]
  BY <1>2, <1>3 DEF Tasks, Claims, TypeOK, TaskType
<1>5. /\ task[w].step \in Claims /\ task[w].step \notin {"idle", "remove", "look"}
      /\ task'[w].step \in Claims /\ task'[w].step \notin {"idle", "remove", "look"}
  BY <1>2, <1>4 DEF Claims, UploadSteps
<1>6. ASSUME NEW v \in Workers PROVE Placed(v)'
  <2>1. CASE v = w
    BY <1>2, <1>3, <1>4, <1>5, <2>1 DEF Placed, At, UploadSteps, DeleteSteps
  <2>2. CASE v # w
    <3>1. Placed(v)
      BY <1>2 DEF PlaceInv
    <3> QED BY <1>3, <1>4, <2>2, <3>1, PlaceKept
  <2> QED BY <2>1, <2>2
<1>7. PlaceInv'
  BY <1>2, <1>3, <1>4, <1>6 DEF PlaceInv, DiskOK, diskVars, IsDir, Exists
<1>8. ClaimInv' /\ AloneInv' /\ DiskInv' /\ WalkInv'
  <2>1. \A v \in Workers :
           /\ task'[v].i = task[v].i /\ task'[v].s = task[v].s
           /\ task'[v].step \in Claims <=> task[v].step \in Claims
           /\ task'[v].step = "idle" <=> task[v].step = "idle"
           /\ task'[v].step = "remove" <=> task[v].step = "remove"
           /\ task'[v].step = "look" <=> task[v].step = "look"
           /\ task'[v] = task[v] \/ task'[v].step = "reset"
    BY <1>4, <1>5
  <2> QED BY <1>3, <1>4, <2>1, OnlyMoves DEF diskVars
<1> QED BY <1>1, <1>7, <1>8 DEF StoreInv

(* A failed upload gives up its slot, whatever the slot holds by now.          *)
LEMMA CleanupResetsStep ==
  ASSUME StoreInv, server = "up", NEW w \in Workers, CleanupResets(w)
  PROVE  StoreInv'
<1> DEFINE i == task[w].i
<1>1. (Inv /\ JobsBounded)' /\ NoRuns'
  BY TablePart DEF CleanupResets, Upload
<1>2. TypeOK /\ SlotInv /\ PlaceInv /\ ClaimInv /\ AloneInv /\ task[w].step = "reset"
      /\ task \in [Workers -> Tasks] /\ Placed(w)
  BY DEF StoreInv, Inv, CleanupResets, Try, PlaceInv
<1>3. /\ i \in Slots /\ i \in Ids /\ id[w] = i /\ task[w].s \in Scripts
      /\ task[w].step \in Claims /\ fate[task[w].s] # "unused"
  BY <1>2 DEF Placed, Claims, Slots
<1> HIDE DEF i
<1>4. /\ UNCHANGED <<diskVars, due, shared, restarts>> /\ TableChanges
      /\ pc' = [pc EXCEPT ![w] = "idle"] /\ scripts' = [scripts EXCEPT ![i] = Null]
      /\ fate' = [t \in Scripts |-> IF t = scripts[i] THEN "cleaned" ELSE fate[t]]
      /\ mine' = [mine EXCEPT ![w] = Null] /\ id' = [id EXCEPT ![w] = 0]
      /\ task' = [task EXCEPT ![w].step = "remove"]
  BY <1>3 DEF CleanupResets, UploadFails, Go, Try
<1>5. /\ \A j \in Ids : scripts'[j] = IF j = i THEN Null ELSE scripts[j]
      /\ \A t \in Scripts : fate'[t] = IF t = scripts[i] THEN "cleaned" ELSE fate[t]
      /\ \A v \in Workers : v # w => /\ pc'[v] = pc[v] /\ mine'[v] = mine[v]
                                     /\ id'[v] = id[v]
      /\ pc'[w] = "idle"
  BY <1>2, <1>3, <1>4 DEF TypeOK, TableType, TaskType
<1>6. /\ task' \in [Workers -> Tasks] /\ \A v \in Workers : v # w => task'[v] = task[v]
      /\ task'[w].step = "remove" /\ task'[w].i = i /\ task'[w].s = task[w].s
  BY <1>2, <1>4 DEF Tasks, i
<1>7. walk' \in Walks /\ walk'.step = walk.step /\ walk'.i = walk.i
  BY <1>2, <1>4, RaceNoted DEF PlaceInv
<1>8. PlaceInv'
  <2>1. DiskOK' /\ scripts'[0] = Null
    BY <1>2, <1>4, <1>5, IdsType DEF PlaceInv, DiskOK, diskVars, IsDir, Exists
  <2>2. ASSUME NEW v \in Workers
        PROVE  Placed(v)'
    <3>1. CASE v = w
      BY <1>3, <1>5, <1>6, <3>1 DEF Placed, At, Claims, UploadSteps, DeleteSteps, i
    <3>2. CASE v # w
      <4>1. Placed(v)
        BY <1>2 DEF PlaceInv
      <4> QED BY <1>5, <1>6, <3>2, <4>1, PlaceKept
    <3> QED BY <3>1, <3>2
  <2> QED BY <1>2, <1>4, <1>6, <1>7, <2>1, <2>2 DEF PlaceInv
<1>9. ClaimInv'
  <2>1. ASSUME NEW v \in Workers, NEW j \in Slots
        PROVE  /\ task'[v].step \in Claims /\ scripts'[j] = task'[v].s => j = task'[v].i
               /\ task'[v].step = "remove" => scripts'[j] # task'[v].s
    <3>1. j \in Ids /\ task'[v].s = task[v].s
      BY <1>6 DEF Slots
    <3>2. CASE v = w
      <4>1. scripts[j] = task[w].s => j = i
        BY <1>2, <1>3 DEF ClaimInv, i
      <4> QED BY <1>3, <1>5, <1>6, <3>1, <3>2, <4>1, RegistryAssumption DEF Claims, UploadSteps
    <3>3. CASE v # w
      <4>1. task[v].step # "idle" => task[v].s # Null
        BY <1>2, RegistryAssumption DEF PlaceInv, Placed
      <4> QED BY <1>2, <1>5, <1>6, <3>1, <3>3, <4>1 DEF ClaimInv, Claims, UploadSteps
    <3> QED BY <3>2, <3>3
  <2>2. ASSUME NEW j \in Slots, scripts'[j] # Null, fate'[scripts'[j]] = "partial"
        PROVE  \E v \in Workers : /\ task'[v].step \in Claims
                                  /\ task'[v].s = scripts'[j] /\ task'[v].i = j
    <3>1. j # i /\ scripts'[j] = scripts[j] /\ fate[scripts[j]] = "partial"
      BY <1>2, <1>5, <2>2 DEF Slots, TypeOK, TableType
    <3>2. PICK v \in Workers : /\ task[v].step \in Claims
                               /\ task[v].s = scripts[j] /\ task[v].i = j
      BY <1>2, <2>2, <3>1 DEF ClaimInv
    <3>3. v # w
      BY <3>1, <3>2 DEF i
    <3> QED BY <1>6, <3>1, <3>2, <3>3
  <2> QED BY <2>1, <2>2 DEF ClaimInv
<1>10. \A j \in Slots : AtRest(j)' => AtRest(j) /\ scripts'[j] = scripts[j]
  BY <1>2, <1>4, <1>5 DEF AtRest, Slots, TypeOK, TableType
<1>11. \A v \in Workers : /\ task'[v].i = task[v].i /\ task'[v].s = task[v].s
                          /\ task'[v].step # "idle" => task[v].step # "idle"
  BY <1>2, <1>6 DEF i
<1>12. AloneInv'
  <2>1. \A u, v \in Workers : task'[u].step # "idle" /\ task'[u].s \notin shared' /\ v # u =>
          task'[v].i # task'[u].i
    BY <1>2, <1>4, <1>11 DEF AloneInv
  <2>2. \A j \in Slots : AtRest(j)' =>
          \A v \in Workers : task'[v].i # j \/ task'[v].step = "look"
    BY <1>2, <1>6, <1>10, <1>11 DEF AloneInv
  <2> QED BY <2>1, <2>2 DEF AloneInv
<1>13. DiskInv'
  <2> SUFFICES ASSUME walk.step = "no"
               PROVE  /\ \A v \in Workers : task'[v].step # "idle" /\ task'[v].s \notin shared =>
                           Track(v)'
                      /\ \A j \in Slots : AtRest(j)' =>
                           Sealed(dir[j], file[j][NameOf[scripts'[j]]], scripts'[j])
    BY <1>4, <1>7 DEF DiskInv, diskVars
  <2>1. ASSUME NEW v \in Workers, task'[v].step # "idle", task'[v].s \notin shared
        PROVE  Track(v)'
    <3>1. CASE v = w
      BY <1>6, <3>1 DEF Track, OnTrack
    <3>2. CASE v # w
      <4>1. task'[v] = task[v] /\ Track(v)
        BY <1>6, <2>1, <3>2 DEF StoreInv, DiskInv
      <4> QED BY <1>4, <4>1, TrackKept DEF diskVars
    <3> QED BY <3>1, <3>2
  <2>2. \A j \in Slots : AtRest(j)' =>
          Sealed(dir[j], file[j][NameOf[scripts'[j]]], scripts'[j])
    BY <1>10 DEF StoreInv, DiskInv
  <2> QED BY <2>1, <2>2
<1>14. WalkInv'
  <2>1. \A j \in due : scripts'[j] = scripts[j]
    BY <1>2, <1>5 DEF StoreInv, PlaceInv, WalkInv, Slots, i
  <2> QED BY <1>4, <1>7, <1>11, <2>1
             DEF StoreInv, PlaceInv, WalkInv, Visited, Exists, diskVars
<1> QED BY <1>1, <1>8, <1>9, <1>12, <1>13, <1>14 DEF StoreInv

(* A task that ends.  Its script is forgotten unless another task has it.      *)
LEMMA Forgotten ==
  ASSUME PlaceInv, NEW w \in Workers, Forgets(w)
  PROVE  /\ task' \in [Workers -> Tasks] /\ \A v \in Workers : v # w => task'[v] = task[v]
         /\ task'[w] = NoTask /\ NoTask.step = "idle" /\ NoTask.i = 0
         /\ shared' \subseteq shared
         /\ \A s \in Scripts : s \in shared /\ s \notin shared' =>
              s = task[w].s /\ \A v \in Workers : v # w => task[v].s # s
<1>1. NoTask \in Tasks /\ NoTask.step = "idle" /\ NoTask.i = 0
  BY IdsType DEF NoTask, Tasks
<1>2. task \in [Workers -> Tasks] /\ task' = [task EXCEPT ![w] = NoTask]
  BY DEF PlaceInv, Forgets, Ends
<1>3. /\ task' \in [Workers -> Tasks] /\ task'[w] = NoTask
      /\ \A v \in Workers : v # w => task'[v] = task[v]
  BY <1>1, <1>2
<1>4. /\ shared' \subseteq shared
      /\ \A s \in Scripts : s \in shared /\ s \notin shared' =>
           s = task[w].s /\ \A v \in Workers : v # w => task[v].s # s
  BY DEF Forgets
<1> QED BY <1>1, <1>3, <1>4

LEMMA EndedOnDisk ==
  ASSUME StoreInv, NEW w \in Workers, task[w].step # "idle", Forgets(w), Elsewhere(Id(w)),
         UNCHANGED <<scripts, walk, due>>, \A j \in Slots : scripts[j] # task[w].s,
         \A t \in Scripts : t # task[w].s => fate'[t] = fate[t],
         \A j \in Slots : AtRest(j) => j # Id(w)
  PROVE  AloneInv' /\ DiskInv' /\ WalkInv'
<1>1. /\ task' \in [Workers -> Tasks] /\ \A v \in Workers : v # w => task'[v] = task[v]
      /\ task'[w] = NoTask /\ NoTask.step = "idle" /\ NoTask.i = 0
      /\ \A s \in Scripts : s \in shared /\ s \notin shared' =>
           s = task[w].s /\ \A v \in Workers : v # w => task[v].s # s
  BY Forgotten DEF StoreInv
<1>2. PlaceInv /\ AloneInv /\ TypeOK
  BY DEF StoreInv, Inv
<1>3. ASSUME NEW u \in Workers, task'[u].step # "idle", task'[u].s \notin shared'
      PROVE  u # w /\ task'[u] = task[u] /\ task[u].s \notin shared /\ task[u].i \in Slots
  <2>1. u # w /\ task'[u] = task[u]
    BY <1>1, <1>3
  <2> QED BY <1>1, <1>2, <1>3, <2>1 DEF PlaceInv, Placed
<1>4. ASSUME NEW j \in Slots, AtRest(j)'
      PROVE  AtRest(j)
  <2>1. scripts[j] \in Scripts /\ scripts[j] # task[w].s /\ scripts'[j] = scripts[j]
    BY <1>2, <1>4 DEF AtRest, Slots, TypeOK, TableType
  <2> QED BY <1>1, <1>4, <2>1 DEF AtRest
<1>5. AloneInv'
  <2>1. \A u, v \in Workers : task'[u].step # "idle" /\ task'[u].s \notin shared' /\ v # u =>
          task'[v].i # task'[u].i
    BY <1>1, <1>2, <1>3 DEF AloneInv, Slots
  <2>2. \A j \in Slots : AtRest(j)' =>
          \A v \in Workers : task'[v].i # j \/ task'[v].step = "look"
    BY <1>1, <1>2, <1>4 DEF AloneInv, Slots
  <2> QED BY <2>1, <2>2 DEF AloneInv
<1>6. DiskInv'
  <2> SUFFICES ASSUME walk.step = "no"
               PROVE  /\ \A v \in Workers : task'[v].step # "idle" /\ task'[v].s \notin shared' =>
                           Track(v)'
                      /\ \A j \in Slots : AtRest(j)' =>
                           Sealed(dir'[j], file'[j][NameOf[scripts[j]]], scripts[j])
    BY DEF DiskInv
  <2>1. ASSUME NEW u \in Workers, task'[u].step # "idle", task'[u].s \notin shared'
        PROVE  Track(u)'
    <3>1. u # w /\ task'[u] = task[u] /\ task[u].s \notin shared /\ Id(u) \in Slots
      BY <1>3, <2>1 DEF Id
    <3>2. Track(u) /\ Id(u) # Id(w)
      BY <1>2, <2>1, <3>1 DEF StoreInv, DiskInv, AloneInv, Id
    <3>3. dir'[Id(u)] = dir[Id(u)] /\ file'[Id(u)] = file[Id(u)]
      BY <3>1, <3>2 DEF Elsewhere
    <3> QED BY <3>1, <3>2, <3>3, TrackKept
  <2>2. ASSUME NEW j \in Slots, AtRest(j)'
        PROVE  Sealed(dir'[j], file'[j][NameOf[scripts[j]]], scripts[j])
    <3>1. AtRest(j) /\ j # Id(w)
      BY <1>4, <2>2
    <3> QED BY <3>1 DEF StoreInv, DiskInv, Elsewhere
  <2> QED BY <2>1, <2>2
<1>7. WalkInv'
  <2>1. \A j \in due : j \in Slots /\ file'[j] = file[j]
    BY <1>2 DEF StoreInv, WalkInv, PlaceInv, Elsewhere, Id
  <2> QED BY <1>1, <2>1 DEF StoreInv, WalkInv, Visited, Exists, Slots
<1> QED BY <1>5, <1>6, <1>7

(* The other two parts, when the task was the last to need its place.          *)
LEMMA EndedInPlace ==
  ASSUME StoreInv, NEW w \in Workers, task[w].step # "idle", Forgets(w), DiskOK',
         UNCHANGED <<scripts, walk, due, restarts>>, pc'[w] = "idle",
         \A v \in Workers : v # w => pc'[v] = pc[v] /\ mine'[v] = mine[v] /\ id'[v] = id[v],
         \A t \in Scripts : /\ t # task[w].s => fate'[t] = fate[t]
                            /\ fate[t] # "unused" => fate'[t] # "unused"
                            /\ fate[t] = "cleaned" => fate'[t] = "cleaned",
         \A j \in Slots : scripts[j] # task[w].s
  PROVE  PlaceInv' /\ ClaimInv'
<1>1. /\ task' \in [Workers -> Tasks] /\ \A v \in Workers : v # w => task'[v] = task[v]
      /\ task'[w] = NoTask /\ NoTask.step = "idle" /\ shared' \subseteq shared
  BY Forgotten DEF StoreInv
<1>2. PlaceInv /\ ClaimInv /\ TypeOK
  BY DEF StoreInv, Inv
<1>3. PlaceInv'
  <2>1. ASSUME NEW v \in Workers PROVE Placed(v)'
    <3>1. CASE v = w
      BY <1>1, <3>1 DEF Placed, At, Claims, UploadSteps, DeleteSteps
    <3>2. CASE v # w
      <4>1. Placed(v)
        BY <1>2 DEF PlaceInv
      <4> QED BY <1>1, <3>2, <4>1, PlaceKept
    <3> QED BY <3>1, <3>2
  <2> QED BY <1>1, <1>2, <2>1 DEF PlaceInv
<1>4. ClaimInv'
  <2>1. \A v \in Workers, j \in Slots :
          /\ task'[v].step \in Claims /\ scripts[j] = task'[v].s => j = task'[v].i
          /\ task'[v].step = "remove" => scripts[j] # task'[v].s
    BY <1>1, <1>2 DEF ClaimInv, Claims, UploadSteps
  <2>2. ASSUME NEW j \in Slots, scripts[j] # Null, fate'[scripts[j]] = "partial"
        PROVE  \E v \in Workers : /\ task'[v].step \in Claims
                                  /\ task'[v].s = scripts[j] /\ task'[v].i = j
    <3>1. scripts[j] \in Scripts /\ scripts[j] # task[w].s /\ fate[scripts[j]] = "partial"
      BY <1>2, <2>2 DEF Slots, TypeOK, TableType
    <3>2. PICK v \in Workers : /\ task[v].step \in Claims
                               /\ task[v].s = scripts[j] /\ task[v].i = j
      BY <1>2, <2>2, <3>1 DEF ClaimInv
    <3>3. v # w
      BY <3>1, <3>2
    <3> QED BY <1>1, <3>2, <3>3
  <2> QED BY <2>1, <2>2 DEF ClaimInv
<1> QED BY <1>3, <1>4

LEMMA CleanupRemovesStep ==
  ASSUME StoreInv, NEW w \in Workers, CleanupRemoves(w)
  PROVE  StoreInv'
<1>1. /\ task[w].step = "remove" /\ Forgets(w) /\ UNCHANGED <<vars, dir, walk, due, restarts>>
      /\ SetFile(Id(w), Name(w), Removes(Id(w), Name(w)), Null)
  BY DEF CleanupRemoves
<1>2. TypeOK /\ PlaceInv /\ ClaimInv
  BY DEF StoreInv, Inv
<1>3. DiskOK' /\ Elsewhere(Id(w))
  <2>1. Id(w) \in Slots /\ Name(w) \in Names
    BY <1>1, <1>2, OnItsId
  <2>2. Removes(Id(w), Name(w)) \in BOOLEAN
    BY DEF Removes, Exists
  <2>3. DiskOK
    BY <1>2 DEF PlaceInv
  <2> QED BY <1>1, <2>1, <2>2, <2>3, FileIsSet
<1>4. UNCHANGED <<scripts, fate, pc, mine, id>>
  BY <1>1 DEF vars, scriptVars, taskVars
<1>5. \A j \in Slots : scripts[j] # task[w].s
  BY <1>1, <1>2 DEF ClaimInv
<1>6. pc[w] = "idle" /\ \A j \in Slots : AtRest(j) => j # Id(w)
  <2>1. Placed(w)
    BY <1>2 DEF PlaceInv
  <2> QED BY <1>1, <2>1 DEF Placed, At, UploadSteps, DeleteSteps, StoreInv, AloneInv, Id
<1>7. PlaceInv' /\ ClaimInv'
  BY <1>1, <1>3, <1>4, <1>5, <1>6, EndedInPlace
<1>8. AloneInv' /\ DiskInv' /\ WalkInv'
  BY <1>1, <1>3, <1>4, <1>5, <1>6, EndedOnDisk
<1>9. (Inv /\ JobsBounded)' /\ NoRuns'
  <2>1. (Inv /\ JobsBounded)'
    BY <1>1, InvStep DEF StoreInv
  <2> QED BY <1>1, <2>1 DEF StoreInv, NoRuns, vars, mainVars, jobVars, taskVars
<1> QED BY <1>7, <1>8, <1>9 DEF StoreInv

(* Without runs no count is above 0: a delete is refused when cleanup has      *)
(* freed the script under it, and its slot is empty by then.                   *)
LEMMA RefusedStep ==
  ASSUME StoreInv, server = "up", NEW w \in Workers, Refused(w)
  PROVE  StoreInv'
<1> DEFINE i == task[w].i
           s == task[w].s
<1>1. (Inv /\ JobsBounded)' /\ NoRuns'
  BY TablePart DEF Refused, Delete
<1>2. TypeOK /\ NJobsExact /\ HandInv /\ SlotInv /\ PlaceInv /\ NoRuns
      /\ task[w].step = "look" /\ Placed(w)
  BY DEF StoreInv, Inv, Refused, PlaceInv
<1>3. /\ i \in Slots /\ i \in Ids /\ s \in Scripts /\ pc[w] = "dlock"
      /\ mine[w] = s /\ id[w] = i
  BY <1>2 DEF Placed, At, UploadSteps, DeleteSteps, Slots
<1>4. /\ Forgets(w) /\ UNCHANGED <<scripts, fate, diskVars, walk, due, restarts>>
      /\ pc' = [pc EXCEPT ![w] = "idle"] /\ mine' = [mine EXCEPT ![w] = Null]
      /\ id' = [id EXCEPT ![w] = 0] /\ (InUse(s) \/ ~Live(s))
  BY <1>3 DEF Refused, DeleteRefused, Go, scriptVars
<1>5. ~Live(s)
  <2>1. Users(s) = {}
    BY <1>2, <1>3, RegistryAssumption DEF NoRuns, Users
  <2>2. Live(s) => n_jobs[s] = 0
    BY <1>2, <1>3, <2>1, FS_EmptySet DEF NJobsExact
  <2> QED BY <1>4, <2>2 DEF InUse
<1>6. /\ scripts[i] = Null /\ \A j \in Slots : scripts[j] # s
      /\ \A j \in Slots : AtRest(j) => j # i
  <2>1. \A j \in Ids : scripts[j] # s
    BY <1>2, <1>3, <1>5, RegistryAssumption DEF SlotInv
  <2>2. scripts[i] = Null
    BY <1>2, <1>3, <2>1 DEF HandInv
  <2> QED BY <2>1, <2>2 DEF Slots, AtRest
<1>7. /\ pc'[w] = "idle"
      /\ \A v \in Workers : v # w => pc'[v] = pc[v] /\ mine'[v] = mine[v] /\ id'[v] = id[v]
  BY <1>2, <1>4 DEF TypeOK, TaskType
<1>8. DiskOK' /\ Elsewhere(Id(w))
  BY <1>2, <1>4 DEF PlaceInv, DiskOK, Elsewhere, diskVars, IsDir, Exists
<1>9. PlaceInv' /\ ClaimInv'
  BY <1>2, <1>4, <1>6, <1>7, <1>8, EndedInPlace
<1>10. AloneInv' /\ DiskInv' /\ WalkInv'
  BY <1>2, <1>4, <1>6, <1>8, EndedOnDisk DEF Id
<1> QED BY <1>1, <1>9, <1>10 DEF StoreInv

LEMMA FreedStep ==
  ASSUME StoreInv, server = "up", NEW w \in Workers, Deleted(w)
  PROVE  StoreInv'
<1>1. (Inv /\ JobsBounded)' /\ NoRuns'
  BY TablePart DEF Deleted, Delete
<1>2. TypeOK /\ SlotInv /\ PlaceInv /\ task[w].step = "freed" /\ Placed(w)
  BY DEF StoreInv, Inv, PlaceInv, Deleted
<1>3. /\ pc[w] = "unlink" /\ task[w].s \in Scripts
      /\ mine[w] = task[w].s \/ (mine[w] = Null /\ fate[task[w].s] = "cleaned")
  BY <1>2 DEF Placed, At, UploadSteps, DeleteSteps
<1>4. /\ Forgets(w) /\ UNCHANGED <<scripts, id, diskVars, walk, due, restarts>>
      /\ pc' = [pc EXCEPT ![w] = "idle"] /\ mine' = [mine EXCEPT ![w] = Null]
      /\ fate' = [s \in Scripts |-> IF s = mine[w] THEN "deleted" ELSE fate[s]]
  BY DEF Deleted, DeleteFrees, Go
<1>5. /\ pc'[w] = "idle"
      /\ \A v \in Workers : v # w => pc'[v] = pc[v] /\ mine'[v] = mine[v] /\ id'[v] = id[v]
      /\ \A t \in Scripts : fate'[t] = IF t = mine[w] THEN "deleted" ELSE fate[t]
  BY <1>2, <1>4 DEF TypeOK, TaskType
<1>6. /\ \A j \in Slots : scripts[j] # task[w].s
      /\ \A t \in Scripts : /\ t # task[w].s => fate'[t] = fate[t]
                            /\ fate[t] # "unused" => fate'[t] # "unused"
                            /\ fate[t] = "cleaned" => fate'[t] = "cleaned"
  <2>1. CASE mine[w] = task[w].s
    <3>1. mine[w] # Null
      BY <1>3, <2>1, RegistryAssumption
    <3>2. Live(mine[w]) /\ \A j \in Slots : scripts[j] # mine[w]
      BY <1>2, <1>3, <3>1 DEF SlotInv, Slots
    <3> QED BY <1>5, <2>1, <3>2 DEF Live
  <2>2. CASE mine[w] = Null /\ fate[task[w].s] = "cleaned"
    <3>1. \A j \in Slots : scripts[j] # task[w].s
      BY <1>2, <1>3, <2>2, RegistryAssumption DEF SlotInv, Slots, Live
    <3> QED BY <1>5, <2>2, <3>1, RegistryAssumption
  <2> QED BY <1>3, <2>1, <2>2
<1>7. DiskOK' /\ Elsewhere(Id(w))
  BY <1>2, <1>4 DEF PlaceInv, DiskOK, Elsewhere, diskVars, IsDir, Exists
<1>8. PlaceInv' /\ ClaimInv'
  BY <1>2, <1>4, <1>5, <1>6, <1>7, EndedInPlace
<1>9. AloneInv' /\ DiskInv' /\ WalkInv'
  <2>1. \A j \in Slots : AtRest(j) => j # Id(w)
    BY <1>2 DEF StoreInv, AloneInv, Id
  <2> QED BY <1>2, <1>4, <1>6, <1>7, <2>1, EndedOnDisk
<1> QED BY <1>1, <1>8, <1>9 DEF StoreInv

-----------------------------------------------------------------------------
(* The end of the server, and another one.                                     *)

LEMMA SigintStep == StoreInv /\ Sigint => StoreInv'
<1> SUFFICES ASSUME StoreInv, Sigint PROVE StoreInv'
  OBVIOUS
<1>1. /\ walk.step = "no" /\ walk' = [walk EXCEPT !.step = "walk"]
      /\ due' = {i \in Slots : scripts[i] # Null /\ \A w \in Workers : task[w].i # i}
      /\ UNCHANGED <<vars, diskVars, task, shared, restarts>>
  BY DEF Sigint
<1>2. walk'.step = "walk" /\ walk'.i = 0 /\ walk' \in Walks
  BY <1>1 DEF StoreInv, WalkInv, PlaceInv, Walks
<1>3. (Inv /\ JobsBounded)' /\ NoRuns'
  <2>1. (Inv /\ JobsBounded)'
    BY <1>1, InvStep DEF StoreInv
  <2> QED BY <1>1, <2>1 DEF StoreInv, NoRuns, vars, mainVars, jobVars, taskVars
<1>4. UNCHANGED <<scripts, fate, pc, mine, id, dir, file>>
  BY <1>1 DEF vars, scriptVars, taskVars, diskVars
<1>5. PlaceInv'
  BY <1>1, <1>2, <1>4 DEF StoreInv, PlaceInv, Placed, At, DiskOK, IsDir, Exists
<1>6. ClaimInv' /\ AloneInv'
  BY <1>1, <1>4 DEF StoreInv, ClaimInv, AloneInv, AtRest
<1>7. DiskInv'
  BY <1>2 DEF DiskInv
<1>8. WalkInv'
  <2>1. \A j \in Slots : ~(walk'.i > j)
    BY <1>2, IdsType DEF Slots
  <2> QED BY <1>1, <1>2, <1>4, <2>1 DEF WalkInv, Visited
<1> QED BY <1>3, <1>5, <1>6, <1>7, <1>8 DEF StoreInv

(* The four calls on an entry leave no file of its name.                       *)
LEMMA WalkIsDone ==
  ASSUME DiskOK, NEW i \in Slots, NEW n \in Names, WalkErases(i, n)
  PROVE  DiskOK' /\ Elsewhere(i) /\ file'[i][n] = Null
<1> DEFINE d == IF IsDir(i) /\ \A m \in Names : file'[i][m] = Null
                THEN "absent" ELSE WalkDir(i)
<1>1. /\ dir \in [Slots -> {"absent", "open", "locked", "blocked"}]
      /\ file \in [Slots -> [Names -> Inodes \cup {Null}]]
      /\ \A j \in Slots : IsDir(j) \/ \A m \in Names : file[j][m] = Null
  BY DEF DiskOK, Exists
<1>2. /\ file' = IF file[i][n] # Null THEN [file EXCEPT ![i][n] = Null] ELSE file
      /\ DirTo(i, d)
  BY <1>1 DEF WalkErases, WalkDir, Exists, DirTo
<1>3. /\ d \in {"absent", "open", "locked", "blocked"}
      /\ IsDir(i) => d = "open" \/ \A m \in Names : file'[i][m] = Null
  BY <1>1 DEF WalkDir
<1> HIDE DEF d
<1>4. /\ file' \in [Slots -> [Names -> Inodes \cup {Null}]]
      /\ file'[i][n] = Null /\ \A j \in Slots : j # i => file'[j] = file[j]
      /\ \A m \in Names : file[i][m] = Null => file'[i][m] = Null
  BY <1>1, <1>2
<1>5. /\ dir' \in [Slots -> {"absent", "open", "locked", "blocked"}]
      /\ dir'[i] = d /\ \A j \in Slots : j # i => dir'[j] = dir[j]
  BY <1>1, <1>2, <1>3 DEF DirTo
<1>6. ASSUME NEW j \in Slots
      PROVE  IsDir(j)' \/ \A m \in Names : file'[j][m] = Null
  BY <1>1, <1>3, <1>4, <1>5 DEF IsDir
<1> QED BY <1>4, <1>5, <1>6 DEF DiskOK, Elsewhere, Exists

LEMMA WalkVisitsStep == StoreInv /\ WalkVisits => StoreInv'
<1> SUFFICES ASSUME StoreInv, WalkVisits PROVE StoreInv'
  OBVIOUS
<1> DEFINE i == walk.i
<1>1. /\ walk.step = "walk" /\ i \in Ids /\ walk' = [walk EXCEPT !.i = @ + 1]
      /\ IF scripts[i] = Null THEN UNCHANGED diskVars
         ELSE WalkErases(i, NameOf[scripts[i]])
      /\ server' \in {"up", "undefined"}
      /\ UNCHANGED <<scripts, size, fate, n_jobs, jobs, mpc, mscript, mpid, pc, id, mine,
                     dropped, task, due, shared, restarts>>
  BY DEF WalkVisits, Outcome, scriptVars, jobVars, mainVars, taskVars
<1>2. walk' \in Walks /\ walk'.step = "walk" /\ walk'.i = i + 1 /\ i \in Nat
  BY <1>1 DEF StoreInv, PlaceInv, Walks
<1> HIDE DEF i
<1>3. (Inv /\ JobsBounded)' /\ NoRuns'
  <2>1. \A s \in Scripts : Users(s)' = Users(s)
    BY <1>1 DEF Users
  <2>2. Inv'
    <3>1. TypeOK' /\ NJobsExact' /\ FreshInv' /\ DeletedIsUnused'
      BY <1>1, <2>1
         DEF StoreInv, Inv, TypeOK, TableType, MainType, TaskType, NJobsExact, FreshInv,
             DeletedIsUnused, Removed, Live
    <3>2. SizeInv' /\ MutexInv' /\ SlotInv' /\ OwnedInv' /\ HandInv'
      BY <1>1
         DEF StoreInv, Inv, SizeInv, MutexInv, SlotInv, OwnedInv, HandInv, InSlot, InDelete,
             Live
    <3> QED BY <3>1, <3>2 DEF Inv
  <2> QED BY <1>1, <2>2 DEF StoreInv, JobsBounded, JobCount, NoRuns
<1>4. DiskOK /\ TypeOK /\ scripts[0] = Null /\ due \subseteq Slots
  BY DEF StoreInv, PlaceInv, Inv
<1>5. /\ DiskOK' /\ Elsewhere(i)
      /\ i \in Slots /\ scripts[i] # Null => file'[i][NameOf[scripts[i]]] = Null
  <2>1. CASE scripts[i] = Null
    BY <1>1, <1>4, <2>1 DEF DiskOK, Elsewhere, IsDir, Exists, diskVars
  <2>2. CASE scripts[i] # Null
    <3>1. i \in Slots /\ scripts[i] \in Scripts
      BY <1>1, <1>4, <2>2 DEF TypeOK, TableType, Slots
    <3>2. NameOf[scripts[i]] \in Names
      BY <3>1, StoreAssumption
    <3>3. WalkErases(i, NameOf[scripts[i]])
      BY <1>1, <2>2
    <3>4. DiskOK' /\ Elsewhere(i) /\ file'[i][NameOf[scripts[i]]] = Null
      BY <1>4, <3>1, <3>2, <3>3, WalkIsDone
    <3> QED BY <3>4
  <2> QED BY <2>1, <2>2
<1>6. PlaceInv'
  BY <1>1, <1>2, <1>5 DEF StoreInv, PlaceInv, Placed, At
<1>7. ClaimInv' /\ AloneInv'
  BY <1>1 DEF StoreInv, ClaimInv, AloneInv, AtRest
<1>8. DiskInv'
  BY <1>2 DEF DiskInv
<1>9. WalkInv'
  <2>1. ASSUME NEW j \in due, walk'.i > j
        PROVE  file'[j][NameOf[scripts[j]]] = Null
    <3>1. j \in Slots /\ j \in Nat /\ scripts[j] # Null
      BY <1>4, IdsType DEF StoreInv, WalkInv, Slots
    <3>2. CASE j = i
      BY <1>5, <3>1, <3>2
    <3>3. CASE j # i
      <4>1. i > j
        BY <1>2, <2>1, <3>1, <3>3
      <4>2. ~Exists(j, NameOf[scripts[j]]) /\ file'[j] = file[j]
        BY <1>1, <1>5, <3>1, <3>3, <4>1 DEF StoreInv, WalkInv, Visited, Elsewhere, i
      <4> QED BY <1>1, <4>2 DEF Exists
    <3> QED BY <3>2, <3>3
  <2> QED BY <1>1, <1>2, <2>1 DEF StoreInv, WalkInv, Visited, Exists
<1> QED BY <1>3, <1>6, <1>7, <1>8, <1>9 DEF StoreInv

LEMMA ExitStep == StoreInv /\ Exit => StoreInv'
<1> SUFFICES ASSUME StoreInv, Exit PROVE StoreInv'
  OBVIOUS
<1>1. /\ walk.step = "walk" /\ walk.i \notin Ids /\ walk' = [walk EXCEPT !.step = "exited"]
      /\ UNCHANGED <<vars, diskVars, task, due, shared, restarts>>
  BY DEF Exit
<1>2. walk' \in Walks /\ walk'.step = "exited" /\ walk'.i = walk.i /\ walk.i \in Nat
  BY <1>1 DEF StoreInv, PlaceInv, Walks
<1>3. (Inv /\ JobsBounded)' /\ NoRuns'
  <2>1. (Inv /\ JobsBounded)'
    BY <1>1, InvStep DEF StoreInv
  <2> QED BY <1>1, <2>1 DEF StoreInv, NoRuns, vars, mainVars, jobVars, taskVars
<1>4. UNCHANGED <<scripts, fate, pc, mine, id, dir, file>>
  BY <1>1 DEF vars, scriptVars, taskVars, diskVars
<1>5. PlaceInv'
  BY <1>1, <1>2, <1>4 DEF StoreInv, PlaceInv, Placed, At, DiskOK, IsDir, Exists
<1>6. ClaimInv' /\ AloneInv'
  BY <1>1, <1>4 DEF StoreInv, ClaimInv, AloneInv, AtRest
<1>7. DiskInv'
  BY <1>2 DEF DiskInv
<1>8. WalkInv'
  <2>1. \A j \in Slots : walk.i > j
    <3>1. Cardinality(Scripts) \in Nat
      BY RegistryAssumption, FS_CardinalityType
    <3> QED BY <1>1, <1>2, <3>1 DEF Slots, Ids
  <2> QED BY <1>1, <1>2, <1>4, <2>1 DEF StoreInv, PlaceInv, WalkInv, Visited, Exists
<1> QED BY <1>3, <1>5, <1>6, <1>7, <1>8 DEF StoreInv

(* Another server starts with empty tables.  No script of the one before is    *)
(* live, and nobody points to it.                                              *)
LEMMA RestartStep == StoreInv /\ Restart => StoreInv'
<1> SUFFICES ASSUME StoreInv, Restart PROVE StoreInv'
  OBVIOUS
<1>1. /\ restarts < MaxRestarts /\ restarts' = restarts + 1
      /\ scripts' = [i \in Ids |-> Null] /\ size' = 1
      /\ fate' = [s \in Scripts |-> IF Live(s) THEN "deleted" ELSE fate[s]]
      /\ pc' = [w \in Workers |-> "idle"] /\ id' = [w \in Workers |-> 0]
      /\ mine' = [w \in Workers |-> Null] /\ task' = [w \in Workers |-> NoTask]
      /\ walk' = NoWalk /\ due' = {} /\ shared' = {} /\ server' = "up"
      /\ UNCHANGED <<n_jobs, jobs, mpc, mscript, mpid, dropped, dir, file>>
  BY DEF Restart, jobVars, mainVars, diskVars
<1>2. /\ NoTask \in Tasks /\ NoTask.step = "idle" /\ NoTask.i = 0
      /\ NoWalk \in Walks /\ NoWalk.step = "no" /\ NoWalk.i = 0 /\ 0 \in Ids
  BY IdsType DEF NoTask, Tasks, NoWalk, Walks
<1>3. \A s \in Scripts : Users(s)' = {}
  BY <1>1, RegistryAssumption DEF StoreInv, NoRuns, Users
<1>4. \A s \in Scripts : /\ ~Live(s)'
                         /\ fate'[s] = "unused" => fate[s] = "unused"
                         /\ fate'[s] \in {"unused", "deleted", "cleaned"}
  BY <1>1 DEF StoreInv, Inv, TypeOK, TableType, Live
<1>5. Inv'
  <2>6. 1 \in 1..(Cardinality(Scripts) + 1)
    <3>1. Cardinality(Scripts) \in Nat
      BY IdsType
    <3> QED BY <3>1
  <2>1. TypeOK'
    BY <1>1, <1>2, <1>4, <2>6
       DEF StoreInv, NoRuns, Inv, TypeOK, TableType, MainType, TaskType
  <2>7. SizeInv' /\ MutexInv' /\ HandInv'
    <3>1. /\ mpc' # "find" /\ (\A i \in Ids : scripts'[i] = Null)
          /\ \A w \in Workers : pc'[w] = "idle"
      BY <1>1 DEF StoreInv, NoRuns
    <3> QED BY <3>1 DEF SizeInv, MutexInv, HandInv, Sections
  <2>2. NJobsExact' /\ OwnedInv'
    BY <1>4 DEF NJobsExact, OwnedInv
  <2>3. FreshInv'
    BY <1>1, <1>3, <1>4 DEF StoreInv, Inv, FreshInv
  <2>4. DeletedIsUnused'
    BY <1>3 DEF DeletedIsUnused
  <2>5. SlotInv'
    <3>1. (\A i \in Ids : scripts'[i] = Null) /\ \A w \in Workers : pc'[w] = "idle"
      BY <1>1
    <3> QED BY <3>1 DEF SlotInv
  <2> QED BY <2>1, <2>2, <2>3, <2>4, <2>5, <2>7 DEF Inv
<1>6. JobsBounded' /\ NoRuns'
  BY <1>1 DEF StoreInv, JobsBounded, JobCount, NoRuns
<1>7. PlaceInv'
  <2>1. DiskOK' /\ task' \in [Workers -> Tasks] /\ restarts' \in 0..MaxRestarts
    BY <1>1, <1>2, StoreAssumption DEF StoreInv, PlaceInv, DiskOK, IsDir, Exists
  <2>2. \A w \in Workers : task'[w] = NoTask /\ pc'[w] = "idle"
    BY <1>1
  <2>3. \A w \in Workers : Placed(w)'
    BY <1>2, <2>2 DEF Placed, At, Claims, UploadSteps, DeleteSteps
  <2> QED BY <1>1, <1>2, <2>1, <2>3 DEF PlaceInv
<1>8. ClaimInv' /\ AloneInv' /\ DiskInv'
  <2>1. \A j \in Slots : scripts'[j] = Null
    BY <1>1 DEF Slots
  <2>2. \A w \in Workers : task'[w] = NoTask
    BY <1>1
  <2> QED BY <1>2, <2>1, <2>2 DEF ClaimInv, AloneInv, DiskInv, AtRest, Claims, UploadSteps
<1>9. WalkInv'
  BY <1>1, <1>2 DEF WalkInv
<1> QED BY <1>5, <1>6, <1>7, <1>8, <1>9 DEF StoreInv

LEMMA StoreInitially == StoreInit => StoreInv
<1> SUFFICES ASSUME StoreInit PROVE StoreInv
  OBVIOUS
<1>1. Inv /\ JobsBounded /\ NoRuns
  BY Initially DEF StoreInit, Init, NoRuns
<1>2. /\ NoTask \in Tasks /\ NoTask.step = "idle" /\ NoTask.i = 0
      /\ NoWalk \in Walks /\ NoWalk.step = "no" /\ NoWalk.i = 0 /\ 0 \in Ids
  BY IdsType DEF NoTask, Tasks, NoWalk, Walks
<1>3. DiskOK
  <2>1. dir \in [Slots -> {"absent", "open", "locked", "blocked"}]
    BY DEF StoreInit
  <2>2. PICK f \in Leftovers, m \in Names :
          file = [i \in Slots |-> [n \in Names |->
                    IF n = m /\ dir[i] \in {"open", "locked"} THEN f ELSE Null]]
    BY DEF StoreInit
  <2>3. f \in Inodes \cup {Null}
    BY DEF Leftovers, Inodes
  <2> QED BY <2>1, <2>2, <2>3 DEF DiskOK, IsDir, Exists
<1>4. /\ task = [w \in Workers |-> NoTask] /\ walk = NoWalk /\ due = {} /\ shared = {}
      /\ restarts = 0 /\ scripts = [i \in Ids |-> Null] /\ pc = [w \in Workers |-> "idle"]
  BY DEF StoreInit, Init
<1>5. PlaceInv
  <2>1. \A w \in Workers : Placed(w)
    BY <1>2, <1>4 DEF Placed, At, Claims, UploadSteps, DeleteSteps
  <2> QED BY <1>2, <1>3, <1>4, <2>1, StoreAssumption DEF PlaceInv
<1>6. ClaimInv /\ AloneInv /\ DiskInv
  <2>1. \A j \in Slots : scripts[j] = Null
    BY <1>4 DEF Slots
  <2> QED BY <1>2, <1>4, <2>1 DEF ClaimInv, AloneInv, DiskInv, AtRest, Claims, UploadSteps
<1>7. WalkInv
  BY <1>2, <1>4 DEF WalkInv
<1> QED BY <1>1, <1>5, <1>6, <1>7 DEF StoreInv

LEMMA StoreInvStep ==
  ASSUME StoreInv, [StoreNext]_storeVars
  PROVE  StoreInv'
<1>1. CASE UNCHANGED storeVars
  <2>1. UNCHANGED <<vars, dir, file, task, walk, due, shared, restarts>>
    BY <1>1 DEF storeVars, diskVars
  <2>2. (Inv /\ JobsBounded)'
    BY <2>1, InvStep DEF StoreInv
  <2>3. UNCHANGED <<scripts, fate, pc, mine, id, mpc, mscript, mpid, jobs, dropped>>
    BY <2>1 DEF vars, scriptVars, taskVars, mainVars, jobVars
  <2>4. NoRuns' /\ PlaceInv'
    BY <2>1, <2>3 DEF StoreInv, NoRuns, PlaceInv, Placed, At, DiskOK, IsDir, Exists
  <2>5. ClaimInv' /\ AloneInv'
    BY <2>1, <2>3 DEF StoreInv, ClaimInv, AloneInv, AtRest
  <2>6. DiskInv'
    BY <2>1, <2>3 DEF StoreInv, DiskInv, AtRest, Track, Left, Exists, Id, Name
  <2>7. WalkInv'
    BY <2>1, <2>3 DEF StoreInv, WalkInv, Visited, Exists
  <2> QED BY <2>2, <2>4, <2>5, <2>6, <2>7 DEF StoreInv
<1>2. ASSUME server = "up", NEW w \in Workers, StoreUpload(w) \/ StoreDelete(w)
      PROVE  StoreInv'
  <2>1. PlaceInv
    BY DEF StoreInv
  <2>2. CASE \/ StatDir(w) \/ ChmodDir(w) \/ MkDir(w) \/ LockDir(w) \/ UnlockDir(w)
             \/ RemoveDir(w)
    BY <2>1, <2>2, DirCalls, CallsStep
  <2>3. CASE \/ OpenFile(w, "open", AfterRefusal) \/ OpenFile(w, "reopen", AfterSecondRefusal)
             \/ ChmodFile(w) \/ WriteFile(w) \/ LockFile(w) \/ UnlockFile(w) \/ RemoveFile(w)
    BY <2>1, <2>3, FileCalls, CallsStep
  <2>4. CASE \/ Search(w) \/ Pass(w) \/ (\E s \in Scripts : Claim(w, s)) \/ Stored(w)
             \/ CleanupStarts(w) \/ CleanupResets(w) \/ CleanupRemoves(w)
             \/ (\E i \in Slots : Look(w, i)) \/ Refused(w) \/ Take(w) \/ Deleted(w)
    BY <1>2, <2>4, SearchStep, ClaimStep, StoredStep, CleanupStartsStep, CleanupResetsStep,
       CleanupRemovesStep, LookStep, RefusedStep, TakeStep, FreedStep
  <2> QED BY <1>2, <2>2, <2>3, <2>4 DEF StoreUpload, StoreDelete
<1>3. CASE Terminate
  BY <1>3, SigintStep, WalkVisitsStep, ExitStep DEF Terminate
<1>4. CASE Restart
  BY <1>4, RestartStep
<1> QED BY <1>1, <1>2, <1>3, <1>4 DEF StoreNext

(* The invariant the theorems below follow from: where each task is, which     *)
(* slots uploads hold, who is alone on an id, and what is there on the disk.   *)
THEOREM StoreInvariance == StoreSpec => []StoreInv
BY StoreInitially, StoreInvStep, PTL DEF StoreSpec
-----------------------------------------------------------------------------
(* The tables, the directories and files and the tasks keep their types, each  *)
(* task is at the same place in the table's part and in the files' part of the *)
(* code, and there is no file without its directory.                           *)
THEOREM StoreTypeCorrect == StoreSpec => []StoreTypeOK
<1>1. StoreInv => StoreTypeOK
  <2> SUFFICES ASSUME StoreInv PROVE StoreTypeOK
    OBVIOUS
  <2>1. TypeOK /\ PlaceInv
    BY DEF StoreInv, Inv
  <2>2. ASSUME NEW w \in Workers
        PROVE  /\ task[w].i \in Ids /\ task[w].s \in Scripts \cup {Null}
               /\ task[w].ino \in Scripts \cup {Earlier, Null}
               /\ task[w].step \in UploadSteps <=> pc[w] = "store"
               /\ task[w].step \in DeleteSteps <=> pc[w] = "unlink"
               /\ task[w].step = "reset" <=> pc[w] = "reset"
               /\ task[w].step = "look" <=> pc[w] = "dlock"
               /\ task[w].step \in {"idle", "remove"} <=> pc[w] \in {"idle", "scan"}
               /\ pc[w] = "scan" => task[w].step = "idle"
               /\ task[w].step \in UploadSteps \cup {"reset", "look"} =>
                    mine[w] = task[w].s /\ id[w] = task[w].i
    <3>1. task[w] \in Tasks /\ Placed(w)
      BY <2>1 DEF PlaceInv
    <3>2. task[w].step \in Claims \cup DeleteSteps \cup {"idle", "remove", "look"}
      BY <3>1 DEF Tasks
    <3>3. /\ task[w].step \in UploadSteps => pc[w] = "store"
          /\ task[w].step \in DeleteSteps => pc[w] = "unlink"
          /\ task[w].step = "reset" => pc[w] = "reset"
          /\ task[w].step = "look" => pc[w] = "dlock"
          /\ task[w].step = "idle" => pc[w] \in {"idle", "scan"}
          /\ task[w].step = "remove" => pc[w] = "idle"
      BY <3>1 DEF Placed, At, UploadSteps, DeleteSteps
    <3>4. task[w].step \in UploadSteps \cup {"reset", "look"} =>
            mine[w] = task[w].s /\ id[w] = task[w].i
      BY <3>1 DEF Placed, Claims
    <3> QED BY <3>1, <3>2, <3>3, <3>4 DEF Tasks, Claims, UploadSteps, DeleteSteps
  <2>3. walk.step \in {"no", "walk", "exited"} /\ walk.i \in Nat
    BY <2>1 DEF PlaceInv, Walks
  <2> QED BY <2>1, <2>2, <2>3 DEF StoreTypeOK, PlaceInv, DiskOK
<1> QED BY <1>1, StoreInvariance, PTL

(* Whatever earlier servers left and other tasks do, an upload that was        *)
(* answered with 200 and not disturbed on its id has its own file, sealed, with *)
(* nobody else's data in it.                                                   *)
THEOREM UndisturbedIsStored == StoreSpec => []UndisturbedStored
<1>1. StoreInv => UndisturbedStored
  <2> SUFFICES ASSUME StoreInv, walk.step = "no", NEW i \in Slots, AtRest(i)
               PROVE  /\ Listed(scripts[i]) /\ dir[i] = "locked"
                      /\ file[i][NameOf[scripts[i]]].mode = "r"
                      /\ file[i][NameOf[scripts[i]]].data \subseteq {scripts[i]}
    BY DEF UndisturbedStored, AtRest
  <2>1. Sealed(dir[i], file[i][NameOf[scripts[i]]], scripts[i])
    BY DEF StoreInv, DiskInv
  <2> QED BY <2>1 DEF Sealed, Listed, Exists
<1> QED BY <1>1, StoreInvariance, PTL

(* When the server exits on SIGINT, the scripts that were at rest have no file *)
(* left: the walk has passed every id by then.                                 *)
THEOREM ShutdownIsClean == StoreSpec => []ShutdownCleans
<1>1. StoreInv => ShutdownCleans
  BY DEF StoreInv, WalkInv, Visited, ShutdownCleans
<1> QED BY <1>1, StoreInvariance, PTL

(* A call of a task that is alone on its id and on track does not fail, unless *)
(* there is something that is not a directory, or it writes.                   *)
LEMMA CallsWork ==
  ASSUME StoreInv, NEW w \in Workers, StoreUpload(w) \/ StoreDelete(w),
         walk.step = "no", task[w].s \notin shared, dir[Id(w)] # "blocked",
         task[w].step \notin {"cleanup", "write"}
  PROVE  task'[w].step # "cleanup"
<1>1. PlaceInv /\ task \in [Workers -> Tasks] /\ NoTask.step = "idle"
  BY DEF StoreInv, PlaceInv, NoTask
<1>2. ASSUME NEW to, task' = [task EXCEPT ![w].step = to], to # "cleanup"
      PROVE  task'[w].step # "cleanup"
  BY <1>1, <1>2 DEF Tasks
<1>3. CASE (\E s \in Scripts : Claim(w, s)) \/ (\E i \in Slots : Look(w, i))
  <2>1. PICK step, i, s :
          /\ step \in {"stat", "look"}
          /\ task' = [task EXCEPT ![w] = [step |-> step, i |-> i, s |-> s, ino |-> Null]]
    BY <1>3 DEF Claim, Look, Begin
  <2> QED BY <1>1, <2>1
<1>4. CASE \/ Search(w) \/ Pass(w) \/ Stored(w) \/ CleanupRemoves(w) \/ Refused(w) \/ Take(w)
           \/ Deleted(w)
  <2>1. CASE Search(w) \/ Pass(w)
    BY <2>1 DEF Search, Pass, OnTable
  <2>2. CASE Take(w)
    BY <1>2, <2>2 DEF Take, Try
  <2>3. CASE Stored(w) \/ CleanupRemoves(w) \/ Refused(w) \/ Deleted(w)
    BY <1>1, <2>3 DEF Stored, CleanupRemoves, Refused, Deleted, Forgets, Ends
  <2> QED BY <1>4, <2>1, <2>2, <2>3
<1>7. CleanupResets(w) => task'[w].step # "cleanup"
  BY <1>2 DEF CleanupResets, Try
<1>5. CASE task[w].step # "idle"
  <2>1. OnTrack(task[w], dir[Id(w)], file[Id(w)][Name(w)])
    BY <1>5 DEF StoreInv, DiskInv, Track
  <2>2. CASE StatDir(w)
    <3> DEFINE to == CASE dir[Id(w)] = "absent" -> "mkdir"
                       [] dir[Id(w)] = "blocked" -> "cleanup"
                       [] OTHER -> "chmod"
    <3>1. task' = [task EXCEPT ![w].step = to] /\ to # "cleanup"
      BY <2>2 DEF StatDir
    <3> HIDE DEF to
    <3> QED BY <1>2, <3>1
  <2>3. CASE ChmodDir(w) \/ MkDir(w) \/ LockDir(w)
    <3>1. PICK to : task' = [task EXCEPT ![w].step = to] /\ to # "cleanup"
      BY <2>1, <2>3 DEF ChmodDir, MkDir, LockDir, Try, IsDir, OnTrack
    <3> QED BY <1>2, <3>1
  <2>4. CASE UnlockDir(w) \/ RemoveDir(w) \/ UnlockFile(w) \/ RemoveFile(w) \/ ChmodFile(w)
    <3>1. PICK to : task' = [task EXCEPT ![w].step = to] /\ to # "cleanup"
      BY <2>4 DEF UnlockDir, RemoveDir, UnlockFile, RemoveFile, ChmodFile, Try
    <3> QED BY <1>2, <3>1
  <2>5. CASE LockFile(w)
    <3>1. Exists(Id(w), Name(w))
      BY <2>1, <2>5 DEF LockFile, Try, OnTrack, Exists
    <3>2. task' = [task EXCEPT ![w].step = "lockdir"]
      BY <2>5, <3>1 DEF LockFile, Try
    <3> QED BY <1>2, <3>2
  <2>6. CASE OpenFile(w, "open", AfterRefusal) \/ OpenFile(w, "reopen", AfterSecondRefusal)
    <3>1. task[w].step = "reopen" => Opens(Id(w), Name(w))
      BY <2>1 DEF OnTrack, Opens, Exists
    <3>2. PICK to, o : /\ task' = [task EXCEPT ![w].step = to, ![w].ino = o]
                       /\ to # "cleanup"
      BY <2>6, <3>1 DEF OpenFile, AfterRefusal
    <3> QED BY <1>1, <3>2 DEF Tasks
  <2>7. ~CleanupStarts(w) /\ ~WriteFile(w)
    BY DEF CleanupStarts, Try, WriteFile
  <2> QED BY <1>3, <1>4, <1>7, <2>2, <2>3, <2>4, <2>5, <2>6, <2>7 DEF StoreUpload, StoreDelete
<1>6. CASE task[w].step = "idle"
  BY <1>3, <1>4, <1>6, <1>7
     DEF StoreUpload, StoreDelete, StatDir, ChmodDir, MkDir, LockDir, UnlockDir, RemoveDir,
         OpenFile, ChmodFile, WriteFile, LockFile, UnlockFile, RemoveFile, CleanupStarts, Try
<1> QED BY <1>5, <1>6

(* The step of one task leaves the others where they are.                      *)
LEMMA OthersStay ==
  ASSUME StoreInv, NEW w \in Workers, StoreUpload(w) \/ StoreDelete(w),
         NEW v \in Workers, v # w
  PROVE  task'[v] = task[v]
<1>1. task \in [Workers -> Tasks]
  BY DEF StoreInv, PlaceInv
<1>2. CASE \/ Search(w) \/ Pass(w) \/ (\E s \in Scripts : Claim(w, s)) \/ Stored(w)
           \/ CleanupStarts(w) \/ CleanupResets(w) \/ CleanupRemoves(w)
           \/ (\E i \in Slots : Look(w, i)) \/ Refused(w) \/ Take(w) \/ Deleted(w)
  BY <1>1, <1>2
     DEF Search, Pass, OnTable, Claim, Begin, Stored, CleanupStarts, CleanupResets,
         CleanupRemoves, Look, Refused, Take, Deleted, Forgets, Ends, Try
<1>3. CASE Calls(w)
  BY <1>3 DEF Calls
<1> QED BY <1>2, <1>3, DirCalls, FileCalls DEF StoreUpload, StoreDelete, StoreInv

(* Whatever earlier servers left, and wherever they ended, an upload that is   *)
(* not disturbed is refused only where there is something that is not a        *)
(* directory, or when it writes: chmod, open and mkdir are asked for what they *)
(* can do.                                                                     *)
THEOREM UploadsWork == StoreSpec => UploadWorks
<1> DEFINE Fails(w) == task[w].step # "cleanup" /\ task'[w].step = "cleanup"
           Why(w)   == \/ task[w].s \in shared \/ walk.step # "no"
                       \/ dir[task[w].i] = "blocked" \/ task[w].step = "write"
<1>1. StoreInv /\ [StoreNext]_storeVars => [\A w \in Workers : Fails(w) => Why(w)]_storeVars
  <2> SUFFICES ASSUME StoreInv, StoreNext, NEW w \in Workers, Fails(w)
               PROVE  Why(w) \/ UNCHANGED storeVars
    BY Zenon
  <2>1. CASE Restart
    <3>1. task'[w].step = "idle"
      BY <2>1 DEF Restart, NoTask
    <3> QED BY <3>1
  <2>2. CASE Terminate
    BY <2>2 DEF Terminate, Sigint, WalkVisits, Exit
  <2>3. ASSUME NEW v \in Workers, StoreUpload(v) \/ StoreDelete(v)
        PROVE  Why(w)
    <3>1. v = w
      BY <2>3, OthersStay
    <3> QED BY <2>3, <3>1, CallsWork DEF Id
  <2> QED BY <2>1, <2>2, <2>3 DEF StoreNext
<1> QED BY <1>1, StoreInvariance, PTL DEF StoreSpec, UploadWorks

(* A delete that is not disturbed has removed the script's file when it        *)
(* answers, and the directory unless a file of another name keeps it: none of  *)
(* its four calls fails for any other cause.                                   *)
THEOREM DeletesWork == StoreSpec => DeleteFailsForCause
<1> DEFINE Gone(w) == \/ task[w].s \in shared \/ walk.step # "no"
                      \/ /\ ~Exists(task[w].i, NameOf[task[w].s])
                         /\ \/ dir[task[w].i] = "absent"
                            \/ \E m \in Names : Exists(task[w].i, m)
<1>1. StoreInv => [\A w \in Workers : Answers(w) => Gone(w)]_storeVars
  <2> SUFFICES ASSUME StoreInv, NEW w \in Workers, task[w].step = "freed",
                      task[w].s \notin shared, walk.step = "no"
               PROVE  Gone(w)
    BY DEF Answers
  <2>1. Track(w)
    BY DEF StoreInv, DiskInv
  <2> QED BY <2>1 DEF Track, Left, OnTrack, Exists, Id, Name
<1>2. [\A w \in Workers : Answers(w) => Gone(w)]_storeVars =>
        [\A w \in Workers :
           LET i == task[w].i
               n == NameOf[task[w].s]
           IN  Answers(w) /\ walk.step = "no" /\ task[w].s \notin shared =>
                 /\ ~Exists(i, n)
                 /\ dir[i] = "absent" \/ \E m \in Names : Exists(i, m)]_storeVars
  OBVIOUS
<1> QED BY <1>1, <1>2, StoreInvariance, PTL DEF DeleteFailsForCause
-----------------------------------------------------------------------------
(* Why the run store_files finds what it finds.                                *)

(* An upload or a delete that begins when no other task is at work on its id.  *)
StartsAlone ==
  \A w \in Workers :
    (\E s \in Scripts : Claim(w, s)) \/ (\E i \in Slots : Look(w, i)) =>
      \A v \in Workers \ {w} : task[v].i # task'[w].i

(* Tasks that overlap on one id are the whole cause: if none began before the  *)
(* last one had done with the files, every script whose upload was answered    *)
(* with 200 would have its file, through any failures and deaths.              *)
THEOREM AloneKeepsFiles ==
  StoreSpec /\ [][StartsAlone]_storeVars => []StoredHasFile
<1> DEFINE NoMeeting == shared = {}
<1>1. StoreInit => NoMeeting
  BY DEF StoreInit
<1>2. StoreInv /\ NoMeeting /\ [StoreNext]_storeVars /\ [StartsAlone]_storeVars => NoMeeting'
  <2> SUFFICES ASSUME StoreInv, NoMeeting, StoreNext, StartsAlone PROVE NoMeeting'
    BY DEF storeVars
  <2>1. ASSUME NEW w \in Workers,
               (\E s \in Scripts : Claim(w, s)) \/ (\E i \in Slots : Look(w, i))
        PROVE  NoMeeting'
    <3>1. PICK i, s, step : Begin(w, step, i, s)
      BY <2>1 DEF Claim, Look
    <3>2. task'[w].i = i
      BY <3>1 DEF Begin, StoreInv, PlaceInv
    <3>3. {v \in Workers \ {w} : task[v].i = i} = {}
      BY <2>1, <3>2 DEF StartsAlone
    <3> QED BY <3>1, <3>3 DEF Begin
  <2>2. ASSUME NEW w \in Workers, CleanupRemoves(w) \/ Refused(w) \/ Deleted(w)
        PROVE  NoMeeting'
    BY <2>2 DEF CleanupRemoves, Refused, Deleted, Forgets
  <2>3. ASSUME NEW w \in Workers, \/ Calls(w) \/ Stored(w) \/ CleanupStarts(w)
                                  \/ CleanupResets(w) \/ Take(w) \/ Search(w) \/ Pass(w)
        PROVE  NoMeeting'
    BY <2>3 DEF Calls, Stored, CleanupStarts, CleanupResets, Take, Search, Pass, OnTable
  <2>4. CASE Terminate \/ Restart \/ UNCHANGED storeVars
    BY <2>4 DEF Terminate, Sigint, WalkVisits, Exit, Restart, storeVars
  <2>5. StoreInv => PlaceInv
    BY DEF StoreInv
  <2> QED
    BY <2>1, <2>2, <2>3, <2>4, <2>5, DirCalls, FileCalls
       DEF StoreNext, StoreUpload, StoreDelete
<1>3. StoreInv /\ UndisturbedStored /\ NoMeeting => StoredHasFile
  <2> SUFFICES ASSUME StoreInv, UndisturbedStored, NoMeeting, walk.step = "no",
                      NEW s \in Scripts, fate[s] = "stored", NEW i \in Slots, scripts[i] = s
               PROVE  Listed(s)
    BY DEF StoredHasFile
  <2>1. s # Null
    BY RegistryAssumption
  <2> QED BY <2>1 DEF UndisturbedStored
<1> HIDE DEF NoMeeting
<1> QED
  BY <1>1, <1>2, <1>3, StoreInvariance, UndisturbedIsStored, PTL DEF StoreSpec
=============================================================================
