---------------------------- MODULE RegistryProofs ----------------------------
(***************************************************************************)
(* The safety properties of module Registry, for every number of scripts,  *)
(* pids and task threads and every MAX_JOBS.                               *)
(***************************************************************************)
EXTENDS Registry, FiniteSetTheorems, TLAPS

(* A script that was never uploaded has no job and no slot.                    *)
FreshInv == \A s \in Scripts : fate[s] = "unused" => n_jobs[s] = 0 /\ Users(s) = {}

(* The slots from size on are free, and a search or a listing ends there.      *)
SizeInv ==
  /\ \A i \in Ids : i >= size => scripts[i] = Null
  /\ \A w \in Workers : pc[w] \in {"scan", "slist"} => id[w] \in 1..size

(* At most one thread is in a section under Script::mutex.                     *)
MutexInv ==
  /\ mpc = "find" => \A w \in Workers : pc[w] \notin Sections
  /\ \A v, w \in Workers : pc[v] \in Sections /\ pc[w] \in Sections => v = w

(* A slot, or a delete, is the only owner of a live script.                    *)
SlotInv ==
  /\ \A i \in Ids : scripts[i] # Null => Live(scripts[i])
  /\ \A i, j \in Ids : scripts[i] # Null /\ scripts[i] = scripts[j] => i = j
  /\ \A w \in Workers : pc[w] = "unlink" /\ mine[w] # Null =>
       Live(mine[w]) /\ \A i \in Ids : scripts[i] # mine[w]
  /\ \A v, w \in Workers :
       pc[v] = "unlink" /\ pc[w] = "unlink" /\ mine[v] # Null /\ mine[v] = mine[w] => v = w

(* No live script is lost: it has a slot, or a delete has it.                   *)
InSlot(s)   == \E i \in Ids : scripts[i] = s
InDelete(s) == \E w \in Workers : pc[w] = "unlink" /\ mine[w] = s
OwnedInv    == \A s \in Scripts : Live(s) => InSlot(s) \/ InDelete(s)

(* A script that a section has found stays where it is, unless cleanup frees it *)
(* in the middle of the section.                                               *)
HandInv ==
  /\ mpc = "find" => InSlot(mscript) \/ fate[mscript] = "cleaned"
  /\ \A w \in Workers :
       /\ pc[w] = "dlock" =>
            \/ scripts[id[w]] = mine[w]
            \/ scripts[id[w]] = Null /\ fate[mine[w]] = "cleaned"
       /\ pc[w] = "slist" /\ mine[w] # Null =>
            InSlot(mine[w]) \/ fate[mine[w]] = "cleaned"

Inv ==
  /\ TypeOK /\ NJobsExact /\ FreshInv /\ SizeInv /\ MutexInv /\ SlotInv /\ OwnedInv
  /\ HandInv /\ DeletedIsUnused
-----------------------------------------------------------------------------
(* Who points to a script, before and after a step.                            *)

LEMMA UsersFinite ==
  ASSUME NEW s \in Scripts
  PROVE  IsFiniteSet(Users(s)) /\ Cardinality(Users(s)) \in Nat
<1>1. /\ IsFiniteSet({p \in Pids : jobs[p] = s})
      /\ IsFiniteSet({w \in Workers : dropped[w] = s})
      /\ IsFiniteSet({t \in {Main} : mscript = s})
  <2>1. \A S, T : IsFiniteSet(T) /\ S \subseteq T => IsFiniteSet(S)
    BY FS_Subset
  <2>2. IsFiniteSet({Main})
    BY FS_Singleton
  <2> QED
    BY <2>1, <2>2, RegistryAssumption
<1>2. IsFiniteSet(Users(s))
  BY <1>1, FS_Union DEF Users
<1> QED
  BY <1>2, FS_CardinalityType

(* One more user, one less, and one for another.                               *)
LEMMA UserAdded ==
  ASSUME NEW s \in Scripts, NEW h, h \notin Users(s), Users(s)' = Users(s) \cup {h}
  PROVE  Cardinality(Users(s)') = Cardinality(Users(s)) + 1
BY UsersFinite, FS_AddElement

LEMMA UserRemoved ==
  ASSUME NEW s \in Scripts, NEW h, h \in Users(s), Users(s)' = Users(s) \ {h}
  PROVE  Cardinality(Users(s)') = Cardinality(Users(s)) - 1
BY UsersFinite, FS_RemoveElement

LEMMA UserReplaced ==
  ASSUME NEW s \in Scripts, NEW g, NEW h, g \in Users(s), h \notin Users(s),
         Users(s)' = (Users(s) \ {g}) \cup {h}
  PROVE  Cardinality(Users(s)') = Cardinality(Users(s))
<1>1. /\ IsFiniteSet(Users(s) \ {g})
      /\ Cardinality(Users(s) \ {g}) = Cardinality(Users(s)) - 1
  BY UsersFinite, FS_RemoveElement
<1>2. Cardinality(Users(s)') = Cardinality(Users(s) \ {g}) + 1
  BY <1>1, FS_AddElement
<1> QED
  BY <1>1, <1>2, UsersFinite

LEMMA UsersSame ==
  ASSUME UNCHANGED <<jobs, dropped, mscript>>, mpc' = "find" <=> mpc = "find",
         NEW s \in Scripts
  PROVE  Users(s)' = Users(s)
BY DEF Users

LEMMA FindsUsers ==
  ASSUME TypeOK, NEW i \in Ids, RunFinds(i), NEW s \in Scripts
  PROVE  Users(s)' = Users(s)
BY RegistryAssumption DEF TypeOK, MainType, RunFinds, Users, jobVars, taskVars

LEMMA CountsUsers ==
  ASSUME TypeOK, RunCounts, NEW s \in Scripts
  PROVE  /\ Main \notin Users(mscript)
         /\ Users(s)' = IF s = mscript THEN Users(s) \cup {Main} ELSE Users(s)
BY RegistryAssumption
   DEF TypeOK, MainType, TableType, TaskType, RunCounts, Users, jobVars, taskVars

LEMMA EmplaceUsers ==
  ASSUME TypeOK, Emplace, NEW s \in Scripts
  PROVE  /\ Main \in Users(mscript) /\ mpid \notin Users(mscript)
         /\ Users(s)' = IF s = mscript THEN (Users(s) \ {Main}) \cup {mpid} ELSE Users(s)
BY RegistryAssumption DEF TypeOK, MainType, TableType, Emplace, Users, taskVars

LEMMA RefusedUsers ==
  ASSUME TypeOK, RunRefused, NEW s \in Scripts
  PROVE  /\ Main \in Users(mscript)
         /\ Users(s)' = IF s = mscript THEN Users(s) \ {Main} ELSE Users(s)
BY RegistryAssumption DEF TypeOK, MainType, TableType, RunRefused, Users, jobVars, taskVars

LEMMA TakesUsers ==
  ASSUME TypeOK, NEW w \in Workers, NEW p \in Pids, PurgeTakes(w, p), NEW s \in Scripts
  PROVE  /\ p \in Users(jobs[p]) /\ w \notin Users(jobs[p])
         /\ Users(s)' = IF s = jobs[p] THEN (Users(s) \ {p}) \cup {w} ELSE Users(s)
BY RegistryAssumption DEF TypeOK, TaskType, TableType, PurgeTakes, Go, Users, mainVars

LEMMA DropsUsers ==
  ASSUME TypeOK, NEW w \in Workers, PurgeDrops(w), NEW s \in Scripts
  PROVE  /\ w \in Users(dropped[w])
         /\ Users(s)' = IF s = dropped[w] THEN Users(s) \ {w} ELSE Users(s)
BY RegistryAssumption
   DEF TypeOK, TaskType, TableType, PurgeDrops, Go, Users, mainVars, jobVars
-----------------------------------------------------------------------------
(* Types.  That a released count does not go below 0 is the one step that needs *)
(* more than the types: who releases a script is one of those it counts.        *)

LEMMA IdsType ==
  /\ 0 \in Ids /\ Ids \subseteq Nat /\ Cardinality(Scripts) \in Nat
  /\ \A n \in 1..(Cardinality(Scripts) + 1), i \in Nat : i < n => i \in Ids
  /\ \A n \in 1..(Cardinality(Scripts) + 1) :
       n \in Ids => n + 1 \in 1..(Cardinality(Scripts) + 1)
<1>1. Cardinality(Scripts) \in Nat
  BY RegistryAssumption, FS_CardinalityType
<1> QED
  BY <1>1 DEF Ids

LEMMA NextId ==
  ASSUME TypeOK, NEW w \in Workers
  PROVE  1 \in Nat /\ id[w] + 1 \in Nat
<1>1. id[w] \in Ids \cup {size} /\ size \in 1..(Cardinality(Scripts) + 1)
  BY DEF TypeOK, TableType, TaskType
<1>2. Ids \subseteq Nat /\ Cardinality(Scripts) \in Nat
  BY IdsType
<1>3. size \in Nat
  BY <1>1, <1>2
<1>4. id[w] \in Nat
  BY <1>1, <1>2, <1>3
<1> QED
  BY <1>4

LEMMA ReleaseType ==
  ASSUME TypeOK, NJobsExact, NEW s \in Scripts, Users(s) # {}, Release(s)
  PROVE  n_jobs' \in [Scripts -> Nat] /\ server' \in {"up", "undefined"}
<1>1. Cardinality(Users(s)) # 0
  BY UsersFinite, FS_EmptySet
<1>2. Live(s) => n_jobs[s] # 0
  BY <1>1 DEF NJobsExact
<1> QED
  BY <1>2 DEF Release, TypeOK, TableType, Outcome

LEMMA RunTypes ==
  ASSUME TypeOK, NJobsExact, RunTask
  PROVE  TableType' /\ MainType' /\ server' \in {"up", "undefined"}
<1> USE DEF TypeOK, TableType, MainType, scriptVars, jobVars, mainVars, taskVars
<1>1. ASSUME NEW i \in Ids, RunFinds(i)
      PROVE  TableType' /\ MainType' /\ server' \in {"up", "undefined"}
  BY <1>1, RegistryAssumption DEF RunFinds, Outcome
<1>8. CASE RunCounts
  BY <1>8 DEF RunCounts, Pin, Outcome
<1>2. CASE CheckLimit
  BY <1>2 DEF CheckLimit
<1>3. CASE LaunchFails
  BY <1>3 DEF LaunchFails
<1>4. ASSUME NEW p \in Pids, Fork(p) PROVE TableType' /\ MainType' /\ server' = server
  BY <1>4, RegistryAssumption DEF Fork
<1>5. CASE Emplace
  BY <1>5 DEF Emplace, Outcome
<1>6. CASE EmplaceTaken
  BY <1>6 DEF EmplaceTaken
<1>7. CASE RunRefused
  <2>1. Release(mscript) /\ mscript \in Scripts /\ Main \in Users(mscript)
    BY <1>7 DEF RunRefused, Users
  <2>2. n_jobs' \in [Scripts -> Nat] /\ server' \in {"up", "undefined"}
    BY <2>1, ReleaseType
  <2> QED
    BY <1>7, <2>2 DEF RunRefused
<1> QED
  BY <1>1, <1>2, <1>3, <1>4, <1>5, <1>6, <1>7, <1>8 DEF RunTask

LEMMA TaskTypes ==
  ASSUME TypeOK, SizeInv, NJobsExact, NEW w \in Workers,
         Upload(w) \/ Delete(w) \/ List(w) \/ Purge(w)
  PROVE  TypeOK'
<1> USE DEF TypeOK, TableType, MainType, TaskType, Sections, Go, scriptVars, jobVars, mainVars
<1>1. CASE Upload(w)
  <2>1. ASSUME NEW s \in Scripts, UploadPlaces(w, s) PROVE TypeOK'
    <3>1. /\ size' \in 1..(Cardinality(Scripts) + 1) /\ id[w] \in Ids
          /\ size' = size \/ size \in Ids
      BY <2>1, IdsType DEF UploadPlaces
    <3>2. TableType' /\ MainType' /\ server' \in {"up", "undefined"}
      BY <2>1, <3>1 DEF UploadPlaces, Outcome
    <3>3. \A v \in Workers : id'[v] \in Ids \cup {size'}
      BY <2>1, <3>1 DEF UploadPlaces
    <3>4. TaskType'
      BY <2>1, <3>1, <3>3, RegistryAssumption DEF UploadPlaces
    <3> QED
      BY <3>2, <3>4
  <2>2. CASE UploadStored(w)
    BY <2>2, IdsType DEF UploadStored
  <2>3. CASE UploadFails(w)
    BY <2>3, IdsType DEF UploadFails
  <2>4. CASE UploadLocks(w)
    <3>1. 1 \in Ids \cup {size}
      BY IdsType
    <3> QED
      BY <2>4, <3>1 DEF UploadLocks
  <2>5. CASE UploadPasses(w)
    <3>1. id[w] + 1 \in Ids \cup {size}
      <4>1. pc[w] = "scan" /\ id[w] < size /\ size \in Nat
        BY <2>5, IdsType DEF UploadPasses, Taken
      <4>2. id[w] \in 1..size
        BY <4>1 DEF SizeInv
      <4>3. id[w] \in Nat /\ size \in 1..(Cardinality(Scripts) + 1)
        BY <4>1, <4>2
      <4>4. id[w] \in Ids /\ id[w] + 1 \in Nat
        BY <4>1, <4>3, IdsType
      <4>5. id[w] + 1 = size \/ id[w] + 1 < size
        BY <4>1, <4>3
      <4> QED
        BY <4>3, <4>4, <4>5, IdsType
    <3> QED
      BY <2>5, <3>1 DEF UploadPasses, Outcome
  <2>6. CASE CleanupBegins(w)
    BY <2>6 DEF CleanupBegins, Outcome
  <2> QED
    BY <1>1, <2>1, <2>2, <2>3, <2>4, <2>5, <2>6 DEF Upload
<1>2. CASE Delete(w)
  <2>1. ASSUME NEW i \in Ids, DeleteFinds(w, i) PROVE TypeOK'
    BY <2>1 DEF DeleteFinds, Outcome
  <2>2. CASE DeleteFrees(w)
    BY <2>2 DEF DeleteFrees
  <2>3. CASE DeleteRefused(w)
    BY <2>3, IdsType DEF DeleteRefused, Outcome
  <2>4. CASE DeleteTakes(w)
    BY <2>4, IdsType DEF DeleteTakes, Outcome
  <2> QED
    BY <1>2, <2>1, <2>2, <2>3, <2>4 DEF Delete
<1>3. CASE List(w)
  <2>0. ASSUME NEW i \in 1..size
        PROVE  i \in Ids \cup {size} /\ Entry(i) \in Scripts \cup {Null}
    BY <2>0, IdsType DEF Entry
  <2>1. CASE ScriptsLock(w)
    <3>1. 1 \in 1..size
      BY IdsType
    <3> QED
      BY <2>0, <2>1, <3>1 DEF ScriptsLock
  <2>2. CASE ListNext(w)
    <3>1. id[w] + 1 \in 1..size
      <4>1. pc[w] = "slist" /\ id[w] < size /\ size \in Nat
        BY <2>2, IdsType DEF ListNext
      <4>2. id[w] \in 1..size
        BY <4>1 DEF SizeInv
      <4> QED
        BY <4>1, <4>2
    <3> QED
      BY <2>0, <2>2, <3>1 DEF ListNext, Outcome
  <2>3. CASE ScriptsUnlock(w)
    BY <2>3, IdsType DEF ScriptsUnlock
  <2>4. CASE JobsLock(w) \/ JobsUnlock(w)
    BY <2>4 DEF JobsLock, JobsUnlock, Outcome
  <2> QED
    BY <1>3, <2>1, <2>2, <2>3, <2>4 DEF List
<1>4. CASE Purge(w)
  <2>1. CASE PurgeLocks(w)
    BY <2>1 DEF PurgeLocks
  <2>2. ASSUME NEW p \in Pids, PurgeMisses(w, p) PROVE TypeOK'
    BY <2>2 DEF PurgeMisses, AfterMissing
  <2>3. ASSUME NEW p \in Pids, PurgeTakes(w, p) PROVE TypeOK'
    BY <2>3, RegistryAssumption DEF PurgeTakes
  <2>4. CASE PurgeDrops(w)
    <3>1. /\ Release(dropped[w]) /\ dropped[w] \in Scripts
          /\ w \in Users(dropped[w])
      BY <2>4 DEF PurgeDrops, Users
    <3>2. n_jobs' \in [Scripts -> Nat] /\ server' \in {"up", "undefined"}
      BY <3>1, ReleaseType
    <3> QED
      BY <2>4, <3>2 DEF PurgeDrops
  <2> QED
    BY <1>4, <2>1, <2>2, <2>3, <2>4 DEF Purge
<1> QED
  BY <1>1, <1>2, <1>3, <1>4

LEMMA TypeStep ==
  ASSUME TypeOK, SizeInv, NJobsExact, [Next]_vars
  PROVE  TypeOK'
<1>1. CASE RunTask
  <2>1. TableType' /\ MainType' /\ server' \in {"up", "undefined"}
    BY <1>1, RunTypes
  <2>2. UNCHANGED <<taskVars, size>>
    BY <1>1 DEF RunTask, RunFinds, RunCounts, CheckLimit, LaunchFails, Fork, Emplace,
                EmplaceTaken, RunRefused, taskVars, scriptVars
  <2>3. TaskType'
    BY <2>2 DEF TypeOK, TaskType, taskVars
  <2> QED
    BY <2>1, <2>3 DEF TypeOK
<1>3. ASSUME NEW w \in Workers, Upload(w) \/ Delete(w) \/ List(w) \/ Purge(w)
      PROVE  TypeOK'
  BY <1>3, TaskTypes
<1>4. CASE UNCHANGED vars
  BY <1>4 DEF vars, TypeOK, TableType, MainType, TaskType, scriptVars, jobVars, mainVars,
              taskVars
<1> QED
  BY <1>1, <1>3, <1>4 DEF Next, Step, Over
-----------------------------------------------------------------------------
(* The count.  Six steps change the users of a script; the others leave them    *)
(* and the counts alone.                                                        *)

LEMMA PinCounts ==
  ASSUME Inv, RunCounts
  PROVE  (NJobsExact /\ FreshInv)'
<1>1. PICK t \in Scripts : t = mscript /\ fate[t] # "unused"
  BY DEF Inv, HandInv, InSlot, SlotInv, Live, TypeOK, TableType, MainType, RunCounts
<1>2. fate' = fate /\ n_jobs' = IF Live(t) THEN [n_jobs EXCEPT ![t] = @ + 1] ELSE n_jobs
  BY <1>1 DEF RunCounts, Pin, scriptVars
<1>3. ASSUME NEW s \in Scripts PROVE s # t => Users(s)' = Users(s) /\ n_jobs'[s] = n_jobs[s]
  BY <1>1, <1>2, <1>3, CountsUsers DEF Inv, TypeOK, TableType
<1>4. Live(t) => n_jobs'[t] = n_jobs[t] + 1
  BY <1>1, <1>2 DEF Inv, TypeOK, TableType
<1>5. Cardinality(Users(t)') = Cardinality(Users(t)) + 1
  <2>1. Main \notin Users(t) /\ Users(t)' = Users(t) \cup {Main}
    BY <1>1, CountsUsers DEF Inv
  <2> QED
    BY <1>1, <2>1, UserAdded
<1>6. NJobsExact'
  BY <1>1, <1>2, <1>3, <1>4, <1>5 DEF NJobsExact, Live, Inv
<1>7. FreshInv'
  BY <1>1, <1>2, <1>3 DEF FreshInv, Live, Inv
<1> QED
  BY <1>6, <1>7

(* A release, whether the run was refused or its job purged.                    *)
LEMMA ReleaseCounts ==
  ASSUME Inv, NEW t \in Scripts, NEW h, Release(t), fate' = fate,
         h \in Users(t), Users(t)' = Users(t) \ {h},
         \A s \in Scripts : s # t => Users(s)' = Users(s)
  PROVE  (NJobsExact /\ FreshInv)'
<1>1. ASSUME NEW s \in Scripts PROVE s # t => n_jobs'[s] = n_jobs[s]
  BY <1>1 DEF Release, Inv, TypeOK, TableType
<1>2. Live(t) => n_jobs'[t] = n_jobs[t] - 1
  BY DEF Release, Inv, TypeOK, TableType
<1>3. Cardinality(Users(t)') = Cardinality(Users(t)) - 1
  BY UserRemoved
<1>4. fate[t] # "unused"
  BY DEF FreshInv, Inv
<1>5. NJobsExact'
  BY <1>1, <1>2, <1>3 DEF NJobsExact, Live, Inv
<1>6. FreshInv'
  BY <1>1, <1>4 DEF FreshInv, Inv
<1> QED
  BY <1>5, <1>6

(* One user takes the place of another.                                         *)
LEMMA ReplaceCounts ==
  ASSUME Inv, NEW t \in Scripts, NEW g, NEW h, UNCHANGED <<fate, n_jobs>>,
         g \in Users(t), h \notin Users(t), Users(t)' = (Users(t) \ {g}) \cup {h},
         \A s \in Scripts : s # t => Users(s)' = Users(s)
  PROVE  (NJobsExact /\ FreshInv)'
<1>1. Cardinality(Users(t)') = Cardinality(Users(t))
  BY UserReplaced
<1>2. fate[t] # "unused"
  BY DEF FreshInv, Inv
<1>3. NJobsExact'
  BY <1>1 DEF NJobsExact, Live, Inv
<1>4. FreshInv'
  BY <1>2 DEF FreshInv, Inv
<1> QED
  BY <1>3, <1>4

(* A script may be stored or freed, and a new one is not used by anybody.       *)
LEMMA SameCounts ==
  ASSUME Inv, n_jobs' = n_jobs, \A s \in Scripts : Users(s)' = Users(s),
         \A s \in Scripts : /\ fate'[s] = "unused" => fate[s] = "unused"
                            /\ Live(s)' => Live(s) \/ fate[s] = "unused"
  PROVE  (NJobsExact /\ FreshInv)'
<1>2. Cardinality({}) = 0
  BY FS_EmptySet
<1>3. NJobsExact'
  BY <1>2 DEF NJobsExact, FreshInv, Inv
<1>4. FreshInv'
  BY DEF FreshInv, Inv
<1> QED
  BY <1>3, <1>4

LEMMA CountStep ==
  ASSUME Inv, [Next]_vars
  PROVE  (NJobsExact /\ FreshInv)'
<1> USE DEF scriptVars, jobVars, mainVars, taskVars
<1> DEFINE Same == /\ UNCHANGED <<fate, jobs, dropped, mscript, n_jobs>>
                   /\ mpc' = "find" <=> mpc = "find"
<1>0. CASE Same
  BY <1>0, SameCounts, UsersSame DEF Live
<1>1. CASE RunTask
  <2>1. ASSUME NEW i \in Ids, RunFinds(i) PROVE (NJobsExact /\ FreshInv)'
    <3>1. UNCHANGED <<fate, n_jobs>> /\ \A s \in Scripts : Users(s)' = Users(s)
      BY <2>1, FindsUsers DEF RunFinds, Inv
    <3> QED
      BY <3>1, SameCounts DEF Live
  <2>5. CASE RunCounts
    BY <2>5, PinCounts
  <2>2. CASE CheckLimit \/ LaunchFails \/ EmplaceTaken \/ \E p \in Pids : Fork(p)
    BY <1>0, <2>2 DEF CheckLimit, LaunchFails, EmplaceTaken, Fork
  <2>3. CASE Emplace
    <3>1. mscript \in Scripts /\ UNCHANGED <<fate, n_jobs>>
      BY <2>3 DEF Emplace, Inv, TypeOK, MainType
    <3>2. Main \in Users(mscript) /\ mpid \notin Users(mscript)
      BY <2>3, <3>1, EmplaceUsers DEF Inv
    <3>3. \A s \in Scripts :
            Users(s)' = IF s = mscript THEN (Users(s) \ {Main}) \cup {mpid} ELSE Users(s)
      BY <2>3, EmplaceUsers DEF Inv
    <3>4. PICK t \in Scripts : t = mscript
      BY <3>1
    <3> QED
      BY <3>1, <3>2, <3>3, <3>4, ReplaceCounts
  <2>4. CASE RunRefused
    <3>1. mscript \in Scripts /\ fate' = fate /\ Release(mscript)
      BY <2>4 DEF RunRefused, Inv, TypeOK, MainType
    <3>2. Main \in Users(mscript)
      BY <2>4, <3>1, RefusedUsers DEF Inv
    <3>3. \A s \in Scripts : Users(s)' = IF s = mscript THEN Users(s) \ {Main} ELSE Users(s)
      BY <2>4, RefusedUsers DEF Inv
    <3>4. PICK t \in Scripts : t = mscript
      BY <3>1
    <3> QED
      BY <3>1, <3>2, <3>3, <3>4, ReleaseCounts
  <2> QED
    BY <1>1, <2>1, <2>2, <2>3, <2>4, <2>5 DEF RunTask
<1>3. ASSUME NEW w \in Workers, Upload(w) \/ Delete(w) PROVE (NJobsExact /\ FreshInv)'
  <2>1. UNCHANGED <<jobs, dropped, mscript, mpc, n_jobs>>
    BY <1>3 DEF Upload, UploadLocks, UploadPasses, UploadPlaces, UploadStored, CleanupBegins,
                UploadFails, Delete, DeleteFinds, DeleteRefused, DeleteTakes, DeleteFrees
  <2>2. ASSUME NEW s \in Scripts
        PROVE  /\ fate'[s] = "unused" => fate[s] = "unused"
               /\ Live(s)' => Live(s) \/ fate[s] = "unused"
    <3>1. ASSUME NEW t \in Scripts, UploadPlaces(w, t)
          PROVE  fate' = [fate EXCEPT ![t] = "partial"] /\ fate[t] = "unused"
      BY <3>1 DEF UploadPlaces
    <3>2. CASE UploadStored(w)
      BY <3>2 DEF UploadStored, Live, Inv, TypeOK, TableType
    <3>3. CASE UploadFails(w)
      BY <3>3 DEF UploadFails, Live, Inv, TypeOK, TableType
    <3>4. CASE Delete(w)
      BY <3>4 DEF Delete, DeleteFinds, DeleteRefused, DeleteTakes, DeleteFrees, Live, Inv,
                  TypeOK, TableType
    <3>5. CASE UploadLocks(w) \/ UploadPasses(w) \/ CleanupBegins(w)
      BY <3>5 DEF UploadLocks, UploadPasses, CleanupBegins, Live
    <3> QED
      BY <1>3, <3>1, <3>2, <3>3, <3>4, <3>5 DEF Upload, Live, Inv, TypeOK, TableType
  <2> QED
    BY <2>1, <2>2, SameCounts, UsersSame
<1>4. ASSUME NEW w \in Workers, List(w) PROVE (NJobsExact /\ FreshInv)'
  BY <1>0, <1>4 DEF List, ScriptsLock, ListNext, ScriptsUnlock, JobsLock, JobsUnlock
<1>5. ASSUME NEW w \in Workers, Purge(w) PROVE (NJobsExact /\ FreshInv)'
  <2>1. CASE PurgeLocks(w) \/ \E p \in Pids : PurgeMisses(w, p)
    BY <1>0, <2>1 DEF PurgeLocks, PurgeMisses
  <2>2. ASSUME NEW p \in Pids, PurgeTakes(w, p) PROVE (NJobsExact /\ FreshInv)'
    <3>1. jobs[p] \in Scripts /\ UNCHANGED <<fate, n_jobs>>
      BY <2>2 DEF PurgeTakes, Inv, TypeOK, TableType
    <3>2. p \in Users(jobs[p]) /\ w \notin Users(jobs[p])
      BY <2>2, <3>1, TakesUsers DEF Inv
    <3>3. \A s \in Scripts :
            Users(s)' = IF s = jobs[p] THEN (Users(s) \ {p}) \cup {w} ELSE Users(s)
      BY <2>2, TakesUsers DEF Inv
    <3>4. PICK t \in Scripts : t = jobs[p]
      BY <3>1
    <3> QED
      BY <3>1, <3>2, <3>3, <3>4, ReplaceCounts
  <2>3. CASE PurgeDrops(w)
    <3>1. dropped[w] \in Scripts /\ fate' = fate /\ Release(dropped[w])
      BY <2>3 DEF PurgeDrops, Go, Inv, TypeOK, TaskType
    <3>2. w \in Users(dropped[w])
      BY <2>3, <3>1, DropsUsers DEF Inv
    <3>3. \A s \in Scripts : Users(s)' = IF s = dropped[w] THEN Users(s) \ {w} ELSE Users(s)
      BY <2>3, DropsUsers DEF Inv
    <3>4. PICK t \in Scripts : t = dropped[w]
      BY <3>1
    <3> QED
      BY <3>1, <3>2, <3>3, <3>4, ReleaseCounts
  <2> QED
    BY <1>5, <2>1, <2>2, <2>3 DEF Purge
<1>6. CASE UNCHANGED vars
  BY <1>0, <1>6 DEF vars
<1> QED
  BY <1>1, <1>3, <1>4, <1>5, <1>6 DEF Next, Step, Over
-----------------------------------------------------------------------------
(* The slots.                                                                   *)

(* An upload is given a slot that is free, or the one behind the last.          *)
LEMMA PlaceIsFree ==
  ASSUME Inv, NEW w \in Workers, NEW s \in Scripts, UploadPlaces(w, s)
  PROVE  \E i \in Ids : /\ i = id[w] /\ scripts[i] = Null /\ i \in 1..size
                       /\ scripts' = [scripts EXCEPT ![i] = s]
<1>1. id[w] \in Ids /\ id[w] \in 1..size
  BY DEF UploadPlaces, Go, Inv, SizeInv
<1>2. scripts[id[w]] = Null
  BY <1>1, IdsType DEF UploadPlaces, Taken, Inv, SizeInv, TypeOK, TableType
<1> QED
  BY <1>1, <1>2 DEF UploadPlaces

LEMMA SlotFrame ==
  ASSUME SlotInv, UNCHANGED <<scripts, fate>>,
         \A w \in Workers : pc'[w] = "unlink" => pc[w] = "unlink" /\ mine'[w] = mine[w]
  PROVE  SlotInv'
BY DEF SlotInv, Live

LEMMA SlotUpload ==
  ASSUME Inv, NEW w \in Workers, Upload(w)
  PROVE  SlotInv'
<1> USE DEF Inv, TypeOK, TableType, TaskType, Go
<1>0. \A v \in Workers : pc'[v] = "unlink" => pc[v] = "unlink" /\ mine'[v] = mine[v]
  <2>1. /\ pc' = pc \/ \E at \in {"scan", "store", "reset", "idle"} : pc' = [pc EXCEPT ![w] = at]
        /\ mine' = mine \/ \E s : mine' = [mine EXCEPT ![w] = s]
        /\ mine' = mine \/ pc' # pc
    BY DEF Upload, UploadLocks, UploadPasses, UploadPlaces, UploadStored, CleanupBegins,
           UploadFails
  <2> QED
    BY <2>1
<1>1. ASSUME NEW s \in Scripts, UploadPlaces(w, s) PROVE SlotInv'
  <2>1. PICK i \in Ids : scripts[i] = Null /\ scripts' = [scripts EXCEPT ![i] = s]
    BY <1>1, PlaceIsFree
  <2>2. fate[s] = "unused" /\ fate' = [fate EXCEPT ![s] = "partial"]
    BY <1>1 DEF UploadPlaces
  <2>3. \A j \in Ids : scripts[j] # s
    BY <2>2, RegistryAssumption DEF SlotInv, Live
  <2> QED
    BY <1>0, <2>1, <2>2, <2>3, RegistryAssumption DEF SlotInv, Live
<1>2. CASE UploadStored(w)
  <2>1. scripts' = scripts /\ \A s \in Scripts : Live(s) => Live(s)'
    BY <1>2 DEF UploadStored, Live
  <2> QED
    BY <1>0, <2>1 DEF SlotInv
<1>3. CASE UploadFails(w)
  <2>1. PICK i \in Ids : i = id[w]
    BY <1>3 DEF UploadFails
  <2>2. scripts' = [scripts EXCEPT ![i] = Null]
    BY <1>3, <2>1 DEF UploadFails
  <2>3. \A s \in Scripts : Live(s) /\ s # scripts[i] => Live(s)'
    BY <1>3, <2>1 DEF UploadFails, Live
  <2> QED
    BY <1>0, <2>1, <2>2, <2>3 DEF SlotInv
<1>4. CASE UploadLocks(w) \/ UploadPasses(w) \/ CleanupBegins(w)
  BY <1>0, <1>4, SlotFrame DEF UploadLocks, UploadPasses, CleanupBegins, scriptVars
<1> QED
  BY <1>1, <1>2, <1>3, <1>4 DEF Upload

LEMMA SlotDelete ==
  ASSUME Inv, NEW w \in Workers, Delete(w)
  PROVE  SlotInv'
<1> USE DEF Inv, TypeOK, TableType, TaskType, Go
<1>1. CASE DeleteTakes(w)
  <2>1. PICK i \in Ids : i = id[w]
    BY <1>1 DEF DeleteTakes
  <2>2. /\ scripts' = [scripts EXCEPT ![i] = Null] /\ fate' = fate
        /\ mine' = [mine EXCEPT ![w] = scripts[i]] /\ pc' = [pc EXCEPT ![w] = "unlink"]
    BY <1>1, <2>1 DEF DeleteTakes
  <2> QED
    BY <2>2 DEF SlotInv, Live
<1>2. CASE DeleteFrees(w)
  <2>1. /\ pc[w] = "unlink" /\ scripts' = scripts
        /\ fate' = [s \in Scripts |-> IF s = mine[w] THEN "deleted" ELSE fate[s]]
        /\ mine' = [mine EXCEPT ![w] = Null] /\ pc' = [pc EXCEPT ![w] = "idle"]
    BY <1>2 DEF DeleteFrees
  <2>2. \A s \in Scripts : Live(s) /\ s # mine[w] => Live(s)'
    BY <2>1 DEF Live
  <2>3. ASSUME NEW v \in Workers, pc'[v] = "unlink", mine'[v] # Null
        PROVE  /\ v # w /\ pc[v] = "unlink" /\ mine'[v] = mine[v]
               /\ mine[v] \in Scripts /\ mine[v] # mine[w]
    BY <2>1, <2>3 DEF SlotInv
  <2>4. \A i \in Ids : scripts[i] # Null => Live(scripts[i])'
    BY <2>1, <2>2 DEF SlotInv
  <2> QED
    BY <2>1, <2>2, <2>3, <2>4 DEF SlotInv
<1>3. CASE DeleteRefused(w) \/ \E i \in Ids : DeleteFinds(w, i)
  <2>1. \A v \in Workers : pc'[v] = "unlink" => pc[v] = "unlink" /\ mine'[v] = mine[v]
    BY <1>3 DEF DeleteRefused, DeleteFinds
  <2> QED
    BY <1>3, <2>1, SlotFrame DEF DeleteRefused, DeleteFinds, scriptVars
<1> QED
  BY <1>1, <1>2, <1>3 DEF Delete

LEMMA SlotStep ==
  ASSUME Inv, [Next]_vars
  PROVE  SlotInv'
<1> USE DEF scriptVars, jobVars, mainVars, taskVars, Inv, TypeOK, TaskType
<1>1. CASE RunTask
  BY <1>1, SlotFrame
     DEF RunTask, RunFinds, RunCounts, CheckLimit, LaunchFails, Fork, Emplace, EmplaceTaken,
         RunRefused
<1>3. ASSUME NEW w \in Workers, Upload(w) \/ Delete(w) PROVE SlotInv'
  BY <1>3, SlotUpload, SlotDelete
<1>4. ASSUME NEW w \in Workers, List(w) PROVE SlotInv'
  BY <1>4, SlotFrame
     DEF List, ScriptsLock, ListNext, ScriptsUnlock, JobsLock, JobsUnlock, Go
<1>5. ASSUME NEW w \in Workers, Purge(w) PROVE SlotInv'
  BY <1>5, SlotFrame
     DEF Purge, PurgeLocks, PurgeMisses, PurgeTakes, PurgeDrops, Go, AfterMissing
<1>6. CASE UNCHANGED vars
  BY <1>6, SlotFrame DEF vars
<1> QED
  BY <1>1, <1>3, <1>4, <1>5, <1>6 DEF Next, Step, Over

LEMMA OwnedStep ==
  ASSUME Inv, [Next]_vars
  PROVE  OwnedInv'
<1> USE DEF scriptVars, jobVars, mainVars, taskVars
<1>0. ASSUME \A s \in Scripts : Live(s)' => Live(s), scripts' = scripts,
             \A w \in Workers : pc[w] = "unlink" => pc'[w] = "unlink" /\ mine'[w] = mine[w]
      PROVE  OwnedInv'
  BY <1>0 DEF Inv, OwnedInv, InSlot, InDelete
<1>1. CASE RunTask \/ UNCHANGED vars
  <2>1. UNCHANGED <<scripts, fate, pc, mine>>
    BY <1>1 DEF RunTask, RunFinds, RunCounts, CheckLimit, LaunchFails, Fork, Emplace,
                EmplaceTaken, RunRefused, vars
  <2> QED
    BY <1>0, <2>1 DEF Live
<1>2. ASSUME NEW w \in Workers, List(w) \/ Purge(w) PROVE OwnedInv'
  <2>1. UNCHANGED <<scripts, fate>>
    BY <1>2 DEF List, ScriptsLock, ListNext, ScriptsUnlock, JobsLock, JobsUnlock,
                Purge, PurgeLocks, PurgeMisses, PurgeTakes, PurgeDrops
  <2>2. \A v \in Workers : pc[v] = "unlink" => pc'[v] = "unlink" /\ mine'[v] = mine[v]
    BY <1>2 DEF List, ScriptsLock, ListNext, ScriptsUnlock, JobsLock, JobsUnlock, Purge,
                PurgeLocks, PurgeMisses, PurgeTakes, PurgeDrops, Go, AfterMissing, Inv,
                TypeOK, TaskType
  <2> QED
    BY <1>0, <2>1, <2>2 DEF Live
<1>3. ASSUME NEW w \in Workers, Upload(w) PROVE OwnedInv'
  <2> USE DEF Inv, TypeOK, TableType, TaskType, Go
  <2>1. \A v \in Workers : pc[v] = "unlink" => pc'[v] = "unlink" /\ mine'[v] = mine[v]
    BY <1>3 DEF Upload, UploadLocks, UploadPasses, UploadPlaces, UploadStored,
                CleanupBegins, UploadFails
  <2>2. ASSUME NEW t \in Scripts, UploadPlaces(w, t) PROVE OwnedInv'
    <3>1. PICK i \in Ids : scripts[i] = Null /\ scripts' = [scripts EXCEPT ![i] = t]
      BY <2>2, PlaceIsFree
    <3>2. \A s \in Scripts : s # t /\ Live(s)' => Live(s)
      BY <2>2 DEF UploadPlaces, Live
    <3> QED
      BY <2>1, <3>1, <3>2, RegistryAssumption DEF OwnedInv, InSlot, InDelete
  <2>3. CASE UploadStored(w)
    BY <1>0, <2>1, <2>3 DEF UploadStored, Live
  <2>4. CASE UploadFails(w)
    <3>1. PICK i \in Ids : i = id[w]
      BY <2>4 DEF UploadFails
    <3>2. scripts' = [scripts EXCEPT ![i] = Null]
      BY <2>4, <3>1 DEF UploadFails
    <3>3. \A s \in Scripts : Live(s)' => Live(s) /\ s # scripts[i]
      BY <2>4, <3>1 DEF UploadFails, Live
    <3> QED
      BY <2>1, <3>2, <3>3 DEF OwnedInv, InSlot, InDelete
  <2>5. CASE UploadLocks(w) \/ UploadPasses(w) \/ CleanupBegins(w)
    BY <1>0, <2>1, <2>5 DEF UploadLocks, UploadPasses, CleanupBegins, Live
  <2> QED
    BY <1>3, <2>2, <2>3, <2>4, <2>5 DEF Upload
<1>4. ASSUME NEW w \in Workers, Delete(w) PROVE OwnedInv'
  <2> USE DEF Inv, TypeOK, TableType, TaskType, Go
  <2>1. CASE DeleteTakes(w)
    <3>1. PICK i \in Ids : i = id[w]
      BY <2>1 DEF DeleteTakes
    <3>2. /\ scripts' = [scripts EXCEPT ![i] = Null] /\ fate' = fate /\ pc[w] = "dlock"
          /\ mine' = [mine EXCEPT ![w] = scripts[i]] /\ pc' = [pc EXCEPT ![w] = "unlink"]
      BY <2>1, <3>1 DEF DeleteTakes
    <3> QED
      BY <3>2 DEF OwnedInv, InSlot, InDelete, Live
  <2>2. CASE DeleteFrees(w)
    <3>1. /\ scripts' = scripts
          /\ fate' = [s \in Scripts |-> IF s = mine[w] THEN "deleted" ELSE fate[s]]
          /\ mine' = [mine EXCEPT ![w] = Null] /\ pc' = [pc EXCEPT ![w] = "idle"]
      BY <2>2 DEF DeleteFrees
    <3>2. \A s \in Scripts : Live(s)' => Live(s) /\ s # mine[w]
      BY <3>1 DEF Live
    <3> QED
      BY <3>1, <3>2 DEF OwnedInv, InSlot, InDelete
  <2>3. CASE DeleteRefused(w) \/ \E i \in Ids : DeleteFinds(w, i)
    <3>1. \A v \in Workers : pc[v] = "unlink" => pc'[v] = "unlink" /\ mine'[v] = mine[v]
      BY <2>3 DEF DeleteRefused, DeleteFinds
    <3> QED
      BY <1>0, <2>3, <3>1 DEF DeleteRefused, DeleteFinds, Live
  <2> QED
    BY <1>4, <2>1, <2>2, <2>3 DEF Delete
<1> QED
  BY <1>1, <1>2, <1>3, <1>4 DEF Next, Step, Over

LEMMA OwnersCounted == TypeOK /\ SlotInv /\ OwnedInv => OneOwner
<1> DEFINE slots(s)   == {i \in Ids : scripts[i] = s}
           deletes(s) == {w \in Workers : pc[w] = "unlink" /\ mine[w] = s}
<1> SUFFICES ASSUME TypeOK, SlotInv, OwnedInv, NEW s \in Scripts
             PROVE  Cardinality(slots(s)) + Cardinality(deletes(s))
                      = IF Live(s) THEN 1 ELSE 0
  BY DEF OneOwner
<1> HIDE DEF slots, deletes
<1>0. Cardinality({}) = 0 /\ \A x : Cardinality({x}) = 1
  BY FS_EmptySet, FS_Singleton
<1>1. CASE InSlot(s)
  <2>1. PICK i \in Ids : scripts[i] = s
    BY <1>1 DEF InSlot
  <2>2. slots(s) = {i} /\ deletes(s) = {} /\ Live(s)
    BY <2>1, RegistryAssumption DEF SlotInv, slots, deletes
  <2>3. Cardinality(slots(s)) = 1 /\ Cardinality(deletes(s)) = 0
    BY <1>0, <2>2, Zenon
  <2> QED
    BY <2>2, <2>3
<1>2. CASE ~InSlot(s) /\ InDelete(s)
  <2>1. PICK w \in Workers : pc[w] = "unlink" /\ mine[w] = s
    BY <1>2 DEF InDelete
  <2>2. slots(s) = {} /\ deletes(s) = {w} /\ Live(s)
    BY <1>2, <2>1, RegistryAssumption DEF SlotInv, InSlot, slots, deletes
  <2>3. Cardinality(slots(s)) = 0 /\ Cardinality(deletes(s)) = 1
    BY <1>0, <2>2, Zenon
  <2> QED
    BY <2>2, <2>3
<1>3. CASE ~InSlot(s) /\ ~InDelete(s)
  <2>1. slots(s) = {} /\ deletes(s) = {} /\ ~Live(s)
    BY <1>3 DEF OwnedInv, InSlot, InDelete, slots, deletes
  <2> QED
    BY <1>0, <2>1
<1> QED
  BY <1>1, <1>2, <1>3
-----------------------------------------------------------------------------
(* The vector and the sections.                                                 *)

LEMMA SizeStep ==
  ASSUME Inv, [Next]_vars
  PROVE  SizeInv'
<1> USE DEF scriptVars, jobVars, mainVars, taskVars
<1> USE DEF Inv, TypeOK, TableType, TaskType, Sections, Go
<1>0. ASSUME UNCHANGED <<scripts, size>>,
             \A w \in Workers : pc'[w] \in {"scan", "slist"} => pc[w] = pc'[w] /\ id'[w] = id[w]
      PROVE  SizeInv'
  BY <1>0 DEF SizeInv
<1>1. CASE RunTask \/ UNCHANGED vars
  BY <1>0, <1>1 DEF RunTask, RunFinds, RunCounts, CheckLimit, LaunchFails, Fork, Emplace,
                    EmplaceTaken, RunRefused, vars
<1>2. ASSUME NEW w \in Workers, Upload(w) PROVE SizeInv'
  <2>1. CASE UploadLocks(w)
    BY <2>1 DEF UploadLocks, SizeInv
  <2>2. CASE UploadPasses(w)
    BY <2>2, IdsType DEF UploadPasses, Taken, SizeInv
  <2>3. ASSUME NEW s \in Scripts, UploadPlaces(w, s) PROVE SizeInv'
    <3>1. PICK i \in Ids : /\ i = id[w] /\ i \in 1..size
                          /\ scripts' = [scripts EXCEPT ![i] = s]
      BY <2>3, PlaceIsFree
    <3>2. size' = IF i = size THEN size + 1 ELSE size
      BY <2>3, <3>1 DEF UploadPlaces
    <3>3. \A j \in Ids : j >= size' => scripts'[j] = Null
      BY <3>1, <3>2, IdsType DEF SizeInv
    <3>4. \A v \in Workers : pc'[v] \in {"scan", "slist"} => id'[v] \in 1..size'
      BY <2>3, <3>2 DEF UploadPlaces, SizeInv
    <3> QED
      BY <3>3, <3>4 DEF SizeInv
  <2>4. CASE UploadStored(w) \/ CleanupBegins(w)
    BY <1>0, <2>4 DEF UploadStored, CleanupBegins
  <2>5. CASE UploadFails(w)
    BY <2>5 DEF UploadFails, SizeInv
  <2> QED
    BY <1>2, <2>1, <2>2, <2>3, <2>4, <2>5 DEF Upload
<1>3. ASSUME NEW w \in Workers, Delete(w) PROVE SizeInv'
  <2>1. CASE DeleteTakes(w)
    BY <2>1 DEF DeleteTakes, SizeInv
  <2>2. CASE DeleteRefused(w) \/ DeleteFrees(w) \/ \E i \in Ids : DeleteFinds(w, i)
    BY <1>0, <2>2 DEF DeleteRefused, DeleteFrees, DeleteFinds
  <2> QED
    BY <1>3, <2>1, <2>2 DEF Delete
<1>4. ASSUME NEW w \in Workers, List(w) PROVE SizeInv'
  <2>1. CASE ScriptsLock(w)
    BY <2>1 DEF ScriptsLock, SizeInv
  <2>2. CASE ListNext(w)
    BY <2>2 DEF ListNext, SizeInv
  <2>3. CASE ScriptsUnlock(w) \/ JobsLock(w) \/ JobsUnlock(w)
    BY <1>0, <2>3 DEF ScriptsUnlock, JobsLock, JobsUnlock
  <2> QED
    BY <1>4, <2>1, <2>2, <2>3 DEF List
<1>5. ASSUME NEW w \in Workers, Purge(w) PROVE SizeInv'
  BY <1>0, <1>5 DEF Purge, PurgeLocks, PurgeMisses, PurgeTakes, PurgeDrops, AfterMissing
<1> QED
  BY <1>1, <1>2, <1>3, <1>4, <1>5 DEF Next, Step, Over

LEMMA MutexStep ==
  ASSUME Inv, [Next]_vars
  PROVE  MutexInv'
<1> USE DEF scriptVars, jobVars, mainVars, taskVars
<1> USE DEF Inv, TypeOK, TaskType, Sections, Go
<1>0. ASSUME mpc' = "find" => mpc = "find",
             \A w \in Workers : pc'[w] \in Sections => pc[w] \in Sections
      PROVE  MutexInv'
  BY <1>0 DEF MutexInv
<1>1. ASSUME NEW w \in Workers, ScriptsMutexFree, mpc' = mpc, NEW at,
             pc' = [pc EXCEPT ![w] = at]
      PROVE  MutexInv'
  BY <1>1 DEF MutexInv, ScriptsMutexFree
<1>2. CASE RunTask
  <2>1. ASSUME NEW i \in Ids, RunFinds(i) PROVE MutexInv'
    BY <2>1 DEF RunFinds, MutexInv, ScriptsMutexFree
  <2>2. CASE \/ RunCounts \/ CheckLimit \/ LaunchFails \/ Emplace \/ EmplaceTaken
             \/ RunRefused \/ \E p \in Pids : Fork(p)
    BY <1>0, <2>2 DEF RunCounts, CheckLimit, LaunchFails, Fork, Emplace, EmplaceTaken,
                      RunRefused
  <2> QED
    BY <1>2, <2>1, <2>2 DEF RunTask
<1>3. ASSUME NEW w \in Workers,
             UploadLocks(w) \/ ScriptsLock(w) \/ \E i \in Ids : DeleteFinds(w, i)
      PROVE  MutexInv'
  BY <1>1, <1>3 DEF UploadLocks, ScriptsLock, DeleteFinds
<1>4. ASSUME NEW w \in Workers,
             \/ UploadPasses(w) \/ UploadStored(w) \/ CleanupBegins(w) \/ UploadFails(w)
             \/ \E s \in Scripts : UploadPlaces(w, s)
             \/ DeleteRefused(w) \/ DeleteTakes(w) \/ DeleteFrees(w)
             \/ ListNext(w) \/ ScriptsUnlock(w) \/ JobsLock(w) \/ JobsUnlock(w) \/ Purge(w)
      PROVE  MutexInv'
  <2>1. mpc' = mpc
    BY <1>4 DEF UploadPasses, UploadStored, CleanupBegins, UploadFails, UploadPlaces,
                DeleteRefused, DeleteTakes, DeleteFrees, ListNext, ScriptsUnlock, JobsLock,
                JobsUnlock, Purge, PurgeLocks, PurgeMisses, PurgeTakes, PurgeDrops
  <2>2. \A v \in Workers : pc'[v] \in Sections => pc[v] \in Sections
    BY <1>4 DEF UploadPasses, UploadStored, CleanupBegins, UploadFails, UploadPlaces,
                DeleteRefused, DeleteTakes, DeleteFrees, ListNext, ScriptsUnlock, JobsLock,
                JobsUnlock, Purge, PurgeLocks, PurgeMisses, PurgeTakes, PurgeDrops,
                AfterMissing
  <2> QED
    BY <1>0, <2>1, <2>2
<1>5. CASE UNCHANGED vars
  BY <1>0, <1>5 DEF vars
<1> QED
  BY <1>2, <1>3, <1>4, <1>5 DEF Next, Step, Over, Upload, Delete, List

(* A slot that is emptied beside a section leaves a freed script in its hands.   *)
LEMMA HandKept ==
  ASSUME Inv,
         \A i \in Ids : scripts[i] # Null => \/ scripts'[i] = scripts[i]
                                           \/ /\ scripts'[i] = Null
                                              /\ fate'[scripts[i]] = "cleaned",
         \A s \in Scripts : fate[s] = "cleaned" => fate'[s] = "cleaned",
         mpc' = "find" => mpc = "find" /\ mscript' = mscript,
         \A w \in Workers :
           /\ pc'[w] = "dlock" =>
                /\ pc[w] = "dlock" /\ id'[w] = id[w] /\ mine'[w] = mine[w]
                /\ scripts[id[w]] = Null => scripts'[id[w]] = Null
           /\ pc'[w] = "slist" => pc[w] = "slist" /\ mine'[w] = mine[w]
  PROVE  HandInv'
<1> USE DEF Inv, TypeOK, TableType, MainType, TaskType
<1>1. ASSUME NEW s \in Scripts, InSlot(s) \/ fate[s] = "cleaned"
      PROVE  (InSlot(s) \/ fate[s] = "cleaned")'
  BY <1>1, RegistryAssumption DEF InSlot
<1>2. mpc' = "find" => (InSlot(mscript) \/ fate[mscript] = "cleaned")'
  <2> SUFFICES ASSUME mpc' = "find" PROVE (InSlot(mscript) \/ fate[mscript] = "cleaned")'
    OBVIOUS
  <2>1. PICK s \in Scripts : s = mscript
    OBVIOUS
  <2>2. InSlot(s) \/ fate[s] = "cleaned"
    BY <2>1 DEF HandInv
  <2>3. (InSlot(s) \/ fate[s] = "cleaned")'
    BY <1>1, <2>2
  <2> QED
    BY <2>1, <2>3
<1>3. ASSUME NEW w \in Workers, pc'[w] = "slist", mine'[w] # Null
      PROVE  (InSlot(mine[w]) \/ fate[mine[w]] = "cleaned")'
  <2>1. PICK s \in Scripts : s = mine[w] /\ mine'[w] = s
    BY <1>3
  <2>2. InSlot(s) \/ fate[s] = "cleaned"
    BY <1>3, <2>1 DEF HandInv
  <2>3. (InSlot(s) \/ fate[s] = "cleaned")'
    BY <1>1, <2>2
  <2> QED
    BY <2>1, <2>3
<1>4. ASSUME NEW w \in Workers, pc'[w] = "dlock"
      PROVE  \/ scripts'[id'[w]] = mine'[w]
             \/ scripts'[id'[w]] = Null /\ fate'[mine'[w]] = "cleaned"
  <2>1. PICK s \in Scripts, i \in Ids : s = mine[w] /\ i = id[w]
    BY <1>4
  <2>2. mine'[w] = s /\ id'[w] = i /\ (scripts[i] = Null => scripts'[i] = Null)
    BY <1>4, <2>1
  <2>3. scripts[i] = s \/ (scripts[i] = Null /\ fate[s] = "cleaned")
    BY <1>4, <2>1 DEF HandInv
  <2> QED
    BY <2>2, <2>3, RegistryAssumption
<1> QED
  BY <1>2, <1>3, <1>4 DEF HandInv

LEMMA HandStep ==
  ASSUME Inv, [Next]_vars
  PROVE  HandInv'
<1> USE DEF scriptVars, jobVars, mainVars, taskVars
<1> USE DEF Inv, TypeOK, TableType, MainType, TaskType, Sections, Go
<1>1. CASE RunTask
  <2>1. ASSUME NEW i \in Ids, RunFinds(i) PROVE HandInv'
    BY <2>1 DEF RunFinds, HandInv, InSlot, ScriptsMutexFree
  <2>2. CASE \/ RunCounts \/ CheckLimit \/ LaunchFails \/ Emplace \/ EmplaceTaken
             \/ RunRefused \/ \E p \in Pids : Fork(p)
    <3>1. UNCHANGED <<scripts, fate, pc, id, mine>> /\ mpc' # "find"
      BY <2>2 DEF RunCounts, CheckLimit, LaunchFails, Fork, Emplace, EmplaceTaken, RunRefused
    <3> QED
      BY <3>1, HandKept
  <2> QED
    BY <1>1, <2>1, <2>2 DEF RunTask
<1>2. ASSUME NEW w \in Workers, Upload(w) PROVE HandInv'
  <2>1. UNCHANGED <<mpc, mscript>>
    BY <1>2 DEF Upload, UploadLocks, UploadPasses, UploadPlaces, UploadStored, CleanupBegins,
                UploadFails
  <2>2. CASE UploadLocks(w) \/ UploadPasses(w) \/ CleanupBegins(w)
    BY <2>1, <2>2, HandKept DEF UploadLocks, UploadPasses, CleanupBegins
  <2>3. ASSUME NEW s \in Scripts, UploadPlaces(w, s) PROVE HandInv'
    <3>1. mpc' # "find" /\ \A v \in Workers : pc'[v] \notin {"dlock", "slist"}
      BY <2>1, <2>3 DEF UploadPlaces, MutexInv
    <3> QED
      BY <3>1 DEF HandInv
  <2>4. CASE UploadStored(w)
    <3>1. \A s \in Scripts : fate[s] = "cleaned" => fate'[s] = "cleaned"
      BY <2>4 DEF UploadStored, Live
    <3> QED
      BY <2>1, <2>4, <3>1, HandKept DEF UploadStored
  <2>5. CASE UploadFails(w)
    <3>1. PICK i \in Ids : i = id[w]
      BY <2>5 DEF UploadFails
    <3>2. /\ scripts' = [scripts EXCEPT ![i] = Null]
          /\ fate' = [s \in Scripts |-> IF s = scripts[i] THEN "cleaned" ELSE fate[s]]
      BY <2>5, <3>1 DEF UploadFails
    <3>3. \A v \in Workers : pc'[v] \in Sections =>
            pc[v] = pc'[v] /\ id'[v] = id[v] /\ mine'[v] = mine[v]
      BY <2>5 DEF UploadFails
    <3>4. \A j \in Ids : scripts[j] # Null => \/ scripts'[j] = scripts[j]
                                            \/ /\ scripts'[j] = Null
                                               /\ fate'[scripts[j]] = "cleaned"
      BY <3>2
    <3>5. \A v \in Workers : pc[v] = "dlock" =>
            id[v] \in Ids /\ (scripts[id[v]] = Null => scripts'[id[v]] = Null)
      BY <3>2
    <3> QED
      BY <2>1, <3>2, <3>3, <3>4, <3>5, HandKept
  <2> QED
    BY <1>2, <2>2, <2>3, <2>4, <2>5 DEF Upload
<1>3. ASSUME NEW w \in Workers, Delete(w) PROVE HandInv'
  <2>1. CASE DeleteTakes(w)
    <3>1. mpc' # "find" /\ \A v \in Workers : pc'[v] \notin {"dlock", "slist"}
      BY <2>1 DEF DeleteTakes, MutexInv
    <3> QED
      BY <3>1 DEF HandInv
  <2>2. CASE DeleteFrees(w)
    <3>1. \A s \in Scripts : fate[s] = "cleaned" => fate'[s] = "cleaned"
      BY <2>2, RegistryAssumption DEF DeleteFrees, SlotInv, Live
    <3> QED
      BY <2>2, <3>1, HandKept DEF DeleteFrees
  <2>3. ASSUME NEW i \in Ids, DeleteFinds(w, i) PROVE HandInv'
    <3>1. mpc' # "find" /\ \A v \in Workers : v # w => pc'[v] \notin {"dlock", "slist"}
      BY <2>3 DEF DeleteFinds, ScriptsMutexFree
    <3>2. scripts'[id'[w]] = mine'[w] /\ pc'[w] = "dlock"
      BY <2>3 DEF DeleteFinds
    <3> QED
      BY <3>1, <3>2 DEF HandInv
  <2>4. CASE DeleteRefused(w)
    BY <2>4, HandKept DEF DeleteRefused
  <2> QED
    BY <1>3, <2>1, <2>2, <2>3, <2>4 DEF Delete
<1>4. ASSUME NEW w \in Workers, List(w) PROVE HandInv'
  <2>1. CASE ScriptsLock(w) \/ ListNext(w)
    <3>1. UNCHANGED <<scripts, fate, mpc, mscript, size>>
      BY <2>1 DEF ScriptsLock, ListNext
    <3>2. mpc' # "find" /\ \A v \in Workers : v # w => pc'[v] \notin {"dlock", "slist"}
      BY <2>1, <3>1 DEF ScriptsLock, ListNext, ScriptsMutexFree, MutexInv
    <3>3. PICK i \in Nat : mine'[w] = Entry(i)
      <4>1. 1 \in Nat /\ id[w] + 1 \in Nat
        BY NextId
      <4>2. mine'[w] = Entry(1) \/ mine'[w] = Entry(id[w] + 1)
        BY <2>1 DEF ScriptsLock, ListNext
      <4> QED
        BY <4>1, <4>2
    <3>4. mine'[w] # Null => InSlot(mine'[w])
      BY <3>3, IdsType DEF Entry, InSlot
    <3>5. mine'[w] # Null => InSlot(mine[w])'
      BY <3>1, <3>4 DEF InSlot
    <3>6. pc'[w] = "slist"
      BY <2>1 DEF ScriptsLock, ListNext
    <3> QED
      BY <3>2, <3>5, <3>6 DEF HandInv
  <2>2. CASE ScriptsUnlock(w) \/ JobsLock(w) \/ JobsUnlock(w)
    BY <2>2, HandKept DEF ScriptsUnlock, JobsLock, JobsUnlock
  <2> QED
    BY <1>4, <2>1, <2>2 DEF List
<1>5. ASSUME NEW w \in Workers, Purge(w) PROVE HandInv'
  BY <1>5, HandKept DEF Purge, PurgeLocks, PurgeMisses, PurgeTakes, PurgeDrops, AfterMissing
<1>6. CASE UNCHANGED vars
  BY <1>6, HandKept DEF vars
<1> QED
  BY <1>1, <1>2, <1>3, <1>4, <1>5, <1>6 DEF Next, Step, Over
-----------------------------------------------------------------------------
(* Deleted scripts.  A run finds a script in the table and a job is moved from  *)
(* user to user: neither can reach one that was taken out.                      *)

LEMMA DeletedFrame ==
  ASSUME DeletedIsUnused,
         \A s \in Scripts : Removed(s)' => Removed(s),
         \A s \in Scripts : Users(s) = {} => Users(s)' = {}
  PROVE  DeletedIsUnused'
BY DEF DeletedIsUnused

LEMMA RemovedSame ==
  ASSUME Inv, UNCHANGED <<fate, mine>>,
         \A w \in Workers : pc'[w] = "unlink" => pc[w] = "unlink", NEW s \in Scripts
  PROVE  Removed(s)' => Removed(s)
BY DEF Removed

LEMMA DeletedRun ==
  ASSUME Inv, RunTask
  PROVE  DeletedIsUnused'
<1> USE DEF scriptVars, jobVars, taskVars
<1>1. ASSUME NEW s \in Scripts PROVE Removed(s)' => Removed(s)
  BY <1>1, RemovedSame
     DEF RunTask, RunFinds, RunCounts, CheckLimit, LaunchFails, Fork, Emplace, EmplaceTaken,
         RunRefused
<1>2. ASSUME NEW i \in Ids, RunFinds(i) PROVE DeletedIsUnused'
  BY <1>1, <1>2, FindsUsers, DeletedFrame DEF Inv
<1>6. CASE RunCounts
  <2>1. PICK t \in Scripts : t = mscript
    BY <1>6 DEF RunCounts, Inv, TypeOK, MainType
  <2>2. InSlot(t) \/ fate[t] = "cleaned"
    BY <1>6, <2>1 DEF RunCounts, Inv, HandInv
  <2>3. fate[t] = "cleaned" => ~Removed(t)
    BY RegistryAssumption DEF Removed, Inv, SlotInv, Live
  <2>4. InSlot(t) => ~Removed(t)
    BY RegistryAssumption DEF Removed, InSlot, Inv, SlotInv, Live
  <2> QED
    BY <1>1, <1>6, <2>1, <2>2, <2>3, <2>4, CountsUsers DEF Inv, DeletedIsUnused
<1>3. CASE CheckLimit \/ LaunchFails \/ EmplaceTaken \/ \E p \in Pids : Fork(p)
  <2>1. UNCHANGED <<jobs, dropped, mscript>> /\ (mpc' = "find" <=> mpc = "find")
    BY <1>3 DEF CheckLimit, LaunchFails, EmplaceTaken, Fork, mainVars
  <2> QED
    BY <1>1, <2>1, UsersSame, DeletedFrame DEF Inv
<1>4. CASE Emplace
  <2>1. \A s \in Scripts : Users(s) = {} => Users(s)' = {}
    BY <1>4, EmplaceUsers DEF Inv
  <2> QED
    BY <1>1, <2>1, DeletedFrame DEF Inv
<1>5. CASE RunRefused
  <2>1. \A s \in Scripts : Users(s) = {} => Users(s)' = {}
    BY <1>5, RefusedUsers DEF Inv
  <2> QED
    BY <1>1, <2>1, DeletedFrame DEF Inv
<1> QED
  BY <1>2, <1>3, <1>4, <1>5, <1>6 DEF RunTask

LEMMA DeletedTask ==
  ASSUME Inv, NEW w \in Workers, Upload(w) \/ Delete(w)
  PROVE  DeletedIsUnused'
<1> USE DEF scriptVars, jobVars, mainVars
<1>0. ASSUME NEW s \in Scripts PROVE Users(s)' = Users(s)
  <2>1. UNCHANGED <<jobs, dropped, mscript, mpc>>
    BY DEF Upload, UploadLocks, UploadPasses, UploadPlaces, UploadStored, CleanupBegins,
           UploadFails, Delete, DeleteFinds, DeleteRefused, DeleteTakes, DeleteFrees
  <2> QED
    BY <1>0, <2>1, UsersSame
<1>1. ASSUME \A s \in Scripts : Removed(s)' => Removed(s) PROVE DeletedIsUnused'
  BY <1>0, <1>1, DeletedFrame DEF Inv
<1>2. ASSUME NEW t \in Scripts, UploadPlaces(w, t) PROVE DeletedIsUnused'
  BY <1>1, <1>2 DEF UploadPlaces, Go, Removed, Inv, TypeOK, TableType, TaskType
<1>3. CASE UploadStored(w)
  BY <1>1, <1>3 DEF UploadStored, Go, Removed, Inv, TypeOK, TableType, TaskType
<1>4. CASE UploadFails(w)
  BY <1>1, <1>4 DEF UploadFails, Go, Removed, Inv, TypeOK, TableType, TaskType
<1>7. CASE \/ UploadLocks(w) \/ UploadPasses(w) \/ CleanupBegins(w) \/ DeleteRefused(w)
           \/ \E i \in Ids : DeleteFinds(w, i)
  <2>1. /\ fate' = fate
        /\ \A v \in Workers : pc'[v] = "unlink" => pc[v] = "unlink" /\ mine'[v] = mine[v]
    BY <1>7 DEF UploadLocks, UploadPasses, CleanupBegins, DeleteRefused, DeleteFinds, Go, Inv,
                TypeOK, TaskType
  <2> QED
    BY <1>1, <2>1 DEF Removed
<1>5. CASE DeleteTakes(w)
  <2>1. PICK i \in Ids : i = id[w]
    BY <1>5 DEF DeleteTakes, Go, Inv, TypeOK, TaskType
  <2>2. /\ fate' = fate /\ pc' = [pc EXCEPT ![w] = "unlink"]
        /\ mine' = [mine EXCEPT ![w] = scripts[i]]
    BY <1>5, <2>1 DEF DeleteTakes, Go
  <2>3. \A s \in Scripts : Removed(s)' => Removed(s) \/ s = scripts[i]
    BY <2>2 DEF Removed, Inv, TypeOK, TaskType
  <2>4. CASE scripts[i] = Null
    BY <1>1, <2>3, <2>4, RegistryAssumption
  <2>5. CASE scripts[i] # Null
    <3>1. PICK t \in Scripts : t = scripts[i] /\ t = mine[w] /\ Live(t)
      BY <1>5, <2>1, <2>5 DEF DeleteTakes, Go, Inv, HandInv, SlotInv, TypeOK, TableType
    <3>2. n_jobs[t] = 0 /\ Cardinality(Users(t)) = 0
      BY <1>5, <3>1 DEF DeleteTakes, InUse, NJobsExact, Inv, TypeOK, TableType
    <3>3. Users(t) = {}
      BY <3>2, UsersFinite, FS_EmptySet
    <3> QED
      BY <1>0, <2>3, <3>1, <3>3 DEF DeletedIsUnused, Inv
  <2> QED
    BY <2>4, <2>5
<1>6. CASE DeleteFrees(w)
  <2>1. /\ pc[w] = "unlink" /\ pc' = [pc EXCEPT ![w] = "idle"]
        /\ fate' = [s \in Scripts |-> IF s = mine[w] THEN "deleted" ELSE fate[s]]
        /\ mine' = [mine EXCEPT ![w] = Null]
    BY <1>6 DEF DeleteFrees, Go
  <2> QED
    BY <1>1, <2>1 DEF Removed, Inv, TypeOK, TableType, TaskType
<1> QED
  BY <1>2, <1>3, <1>4, <1>5, <1>6, <1>7 DEF Upload, Delete

LEMMA DeletedStep ==
  ASSUME Inv, [Next]_vars
  PROVE  DeletedIsUnused'
<1> USE DEF scriptVars, jobVars, mainVars, taskVars
<1>1. CASE RunTask
  BY <1>1, DeletedRun
<1>2. ASSUME NEW w \in Workers, Upload(w) \/ Delete(w) PROVE DeletedIsUnused'
  BY <1>2, DeletedTask
<1>3. CASE (\E w \in Workers : List(w)) \/ UNCHANGED vars
  <2>1. UNCHANGED <<fate, jobs, dropped, mscript, mpc>>
    BY <1>3 DEF List, ScriptsLock, ListNext, ScriptsUnlock, JobsLock, JobsUnlock, vars
  <2>2. \A w \in Workers : pc'[w] = "unlink" => pc[w] = "unlink" /\ mine'[w] = mine[w]
    BY <1>3 DEF List, ScriptsLock, ListNext, ScriptsUnlock, JobsLock, JobsUnlock, vars, Go,
                Inv, TypeOK, TaskType
  <2>3. \A s \in Scripts : Removed(s)' => Removed(s)
    BY <2>1, <2>2 DEF Removed
  <2> QED
    BY <2>1, <2>3, UsersSame, DeletedFrame DEF Inv
<1>4. ASSUME NEW w \in Workers, Purge(w) PROVE DeletedIsUnused'
  <2>1. UNCHANGED <<fate, mine, mscript, mpc>>
    BY <1>4 DEF Purge, PurgeLocks, PurgeMisses, PurgeTakes, PurgeDrops
  <2>2. \A v \in Workers : pc'[v] = "unlink" => pc[v] = "unlink"
    BY <1>4 DEF Purge, PurgeLocks, PurgeMisses, PurgeTakes, PurgeDrops, Go, AfterMissing,
                Inv, TypeOK, TaskType
  <2>3. ASSUME NEW s \in Scripts PROVE Users(s) = {} => Users(s)' = {}
    <3>1. CASE PurgeLocks(w) \/ \E p \in Pids : PurgeMisses(w, p)
      BY <3>1, UsersSame DEF PurgeLocks, PurgeMisses
    <3>2. ASSUME NEW p \in Pids, PurgeTakes(w, p) PROVE Users(s) = {} => Users(s)' = {}
      BY <3>2, TakesUsers DEF Inv
    <3>3. CASE PurgeDrops(w)
      BY <3>3, DropsUsers DEF Inv
    <3> QED
      BY <1>4, <3>1, <3>2, <3>3 DEF Purge
  <2> QED
    BY <2>1, <2>2, <2>3, RemovedSame, DeletedFrame DEF Inv
<1> QED
  BY <1>1, <1>2, <1>3, <1>4 DEF Next, Step, Over
-----------------------------------------------------------------------------
(* The number of jobs.                                                          *)

LEMMA JobsFinite == IsFiniteSet({p \in Pids : jobs[p] # Null}) /\ JobCount \in Nat
BY RegistryAssumption, FS_Subset, FS_CardinalityType DEF JobCount

LEMMA RoomStep ==
  ASSUME TypeOK, JobsBounded, [Next]_vars
  PROVE  JobsBounded'
<1> USE DEF scriptVars, jobVars, mainVars, taskVars
<1> USE RegistryAssumption, JobsFinite
<1> USE DEF JobsBounded
<1>0. ASSUME jobs' = jobs, mpc' \in {"fork", "emplace"} => mpc \in {"fork", "emplace"}
      PROVE  JobsBounded'
  BY <1>0 DEF JobCount
<1>1. CASE RunTask
  <2>1. ASSUME NEW i \in Ids, RunFinds(i) PROVE JobsBounded'
    BY <1>0, <2>1 DEF RunFinds
  <2>2. CASE CheckLimit
    <3>1. /\ jobs' = jobs /\ mpc = "check"
          /\ mpc' = IF JobCount >= MaxJobs THEN "refuse" ELSE "fork"
      BY <2>2 DEF CheckLimit, Full
    <3> QED
      BY <3>1 DEF JobCount
  <2>3. CASE RunCounts \/ LaunchFails \/ EmplaceTaken \/ RunRefused \/ \E p \in Pids : Fork(p)
    BY <1>0, <2>3 DEF RunCounts, LaunchFails, EmplaceTaken, RunRefused, Fork
  <2>4. CASE Emplace
    <3>1. /\ mpid \in Pids /\ mscript # Null /\ jobs[mpid] = Null
          /\ jobs' = [jobs EXCEPT ![mpid] = mscript] /\ mpc = "emplace" /\ mpc' = "idle"
      BY <2>4 DEF Emplace, TypeOK, MainType
    <3>2. /\ {p \in Pids : jobs'[p] # Null} = {p \in Pids : jobs[p] # Null} \cup {mpid}
          /\ mpid \notin {p \in Pids : jobs[p] # Null}
      BY <3>1 DEF TypeOK, TableType
    <3>3. JobCount' = JobCount + 1
      BY <3>2, FS_AddElement DEF JobCount
    <3> QED
      BY <3>1, <3>3
  <2> QED
    BY <1>1, <2>1, <2>2, <2>3, <2>4 DEF RunTask
<1>2. CASE (\E w \in Workers : Upload(w) \/ Delete(w) \/ List(w)) \/ UNCHANGED vars
  <2>1. UNCHANGED <<jobs, mpc>>
    BY <1>2 DEF Upload, UploadLocks, UploadPasses, UploadPlaces, UploadStored, CleanupBegins,
                UploadFails, Delete, DeleteFinds, DeleteRefused, DeleteTakes, DeleteFrees,
                List, ScriptsLock, ListNext, ScriptsUnlock, JobsLock, JobsUnlock, vars
  <2> QED
    BY <1>0, <2>1
<1>3. ASSUME NEW w \in Workers, Purge(w) PROVE JobsBounded'
  <2>1. mpc' = mpc
    BY <1>3 DEF Purge, PurgeLocks, PurgeMisses, PurgeTakes, PurgeDrops
  <2>2. ASSUME NEW p \in Pids, PurgeTakes(w, p) PROVE JobsBounded'
    <3>1. jobs[p] # Null /\ jobs' = [jobs EXCEPT ![p] = Null]
      BY <2>2 DEF PurgeTakes
    <3>2. /\ {q \in Pids : jobs'[q] # Null} = {q \in Pids : jobs[q] # Null} \ {p}
          /\ p \in {q \in Pids : jobs[q] # Null}
      BY <3>1 DEF TypeOK, TableType
    <3>3. JobCount' = JobCount - 1
      BY <3>2, FS_RemoveElement DEF JobCount
    <3> QED
      BY <2>1, <3>3
  <2>3. CASE jobs' = jobs
    BY <1>0, <2>1, <2>3
  <2> QED
    BY <1>3, <2>2, <2>3 DEF Purge, PurgeLocks, PurgeMisses, PurgeDrops
<1> QED
  BY <1>1, <1>2, <1>3 DEF Next, Step, Over
-----------------------------------------------------------------------------
(* The specification keeps all of it.                                           *)

LEMMA Initially == Init => Inv /\ JobsBounded
<1> SUFFICES ASSUME Init PROVE Inv /\ JobsBounded
  OBVIOUS
<1>1. TypeOK
  BY IdsType, RegistryAssumption DEF Init, TypeOK, TableType, MainType, TaskType, Sections
<1>2. \A s \in Scripts : Users(s) = {} /\ n_jobs[s] = 0 /\ fate[s] = "unused"
  BY RegistryAssumption DEF Init, Users
<1>3. NJobsExact /\ FreshInv /\ SlotInv /\ OwnedInv /\ DeletedIsUnused
  BY <1>2 DEF Init, NJobsExact, FreshInv, SlotInv, OwnedInv, DeletedIsUnused, Live
<1>5. SizeInv /\ MutexInv /\ HandInv
  BY DEF Init, SizeInv, MutexInv, HandInv, Sections
<1>4. JobsBounded
  <2>1. {p \in Pids : jobs[p] # Null} = {}
    BY DEF Init
  <2>2. JobCount = 0
    BY <2>1, FS_EmptySet DEF JobCount
  <2> QED
    BY <2>2, RegistryAssumption DEF Init, JobsBounded
<1> QED
  BY <1>1, <1>3, <1>4, <1>5 DEF Inv

LEMMA InvStep ==
  ASSUME Inv, JobsBounded, [Next]_vars
  PROVE  (Inv /\ JobsBounded)'
<1>1. TypeOK'
  BY TypeStep DEF Inv
<1>2. (NJobsExact /\ FreshInv)' /\ SlotInv' /\ OwnedInv' /\ DeletedIsUnused'
  BY CountStep, SlotStep, OwnedStep, DeletedStep
<1>4. SizeInv' /\ MutexInv' /\ HandInv'
  BY SizeStep, MutexStep, HandStep
<1>3. JobsBounded'
  BY RoomStep DEF Inv
<1> QED
  BY <1>1, <1>2, <1>3, <1>4 DEF Inv

(* The invariant the theorems below follow from: counts, owners and rooms       *)
(* hold one another up in every state of the two tables.                        *)
THEOREM Invariance == Spec => [](Inv /\ JobsBounded)
BY InvStep, Initially, PTL DEF Spec

(* The tables, the main thread and the tasks keep their types, and a thread has *)
(* a script in hand exactly where the code does.                                *)
THEOREM TypeCorrect == Spec => []TypeOK
BY Invariance, PTL DEF Inv

(* n_jobs is exactly the number of jobs, purges and pending runs that point to  *)
(* the script, through every refusal and purge.                                 *)
THEOREM CountIsExact == Spec => []NJobsExact
BY Invariance, PTL DEF Inv

(* No job, purge or pending run points to a script that /delete has taken.      *)
THEOREM DeleteIsSafe == Spec => []DeletedIsUnused
BY Invariance, PTL DEF Inv

(* Every script has one owner from its upload to its end: its slot, or the      *)
(* delete that took it out.                                                     *)
THEOREM ScriptsHaveOneOwner == Spec => []OneOwner
BY Invariance, OwnersCounted, PTL DEF Inv

(* There are never more than MAX_JOBS jobs in the table, and who has passed the *)
(* check finds room.                                                            *)
THEOREM TableIsBounded == Spec => []JobsBounded
BY Invariance, PTL
-----------------------------------------------------------------------------
(* Undefined memory.                                                           *)

(* What cleanup has not freed, and is not about to, is live while it is used.   *)
LEMMA DeadIsCleaned ==
  ASSUME Inv, NEW s \in Scripts, Users(s) # {} \/ InHand(s), Unsafe(s)
  PROVE  Dangling(s)
<1>1. CASE Live(s)
  BY <1>1 DEF Unsafe, Dangling
<1>2. CASE ~Live(s) /\ Users(s) # {}
  BY <1>2 DEF Inv, TypeOK, TableType, FreshInv, DeletedIsUnused, Removed, Live, Dangling
<1>3. CASE ~Live(s) /\ InHand(s)
  <2>1. \A i \in Ids : scripts[i] # s
    BY <1>3, RegistryAssumption DEF Inv, SlotInv
  <2>2. fate[s] = "cleaned"
    BY <1>3, <2>1, RegistryAssumption
       DEF InHand, InSlot, Inv, HandInv, TypeOK, TaskType, Sections
  <2> QED
    BY <1>3, <2>2 DEF Dangling
<1> QED
  BY <1>1, <1>2, <1>3

LEMMA RunRaces ==
  ASSUME Inv, server = "up", server' # server, RunTask
  PROVE  KnownRace
<1>1. CASE Emplace
  BY <1>1 DEF Emplace, KnownRace, Outcome
<1>2. CASE EmplaceTaken
  BY <1>2 DEF EmplaceTaken, KnownRace
<1>3. CASE RunRefused
  <2>1. mscript \in Scripts /\ Main \in Users(mscript)
    BY <1>3 DEF RunRefused, Users, Inv, TypeOK, MainType
  <2>2. Unsafe(mscript)
    BY <1>3 DEF RunRefused, Release, Outcome
  <2> QED
    BY <2>1, <2>2, DeadIsCleaned DEF KnownRace
<1>4. ASSUME NEW i \in Ids, RunFinds(i) PROVE KnownRace
  <2>1. Torn(i)
    BY <1>4 DEF RunFinds, Outcome
  <2>2. UsesSlot(i)
    BY <1>4 DEF RunFinds, UsesSlot
  <2> QED
    BY <2>1, <2>2 DEF KnownRace
<1>5. CASE RunCounts
  <2>1. mscript \in Scripts /\ InHand(mscript)
    BY <1>5 DEF RunCounts, InHand, Inv, TypeOK, MainType
  <2>2. Unsafe(mscript)
    BY <1>5 DEF RunCounts, Outcome
  <2> QED
    BY <2>1, <2>2, DeadIsCleaned DEF KnownRace
<1>6. CASE CheckLimit \/ LaunchFails \/ \E p \in Pids : Fork(p)
  BY <1>6 DEF CheckLimit, LaunchFails, Fork
<1> QED
  BY <1>1, <1>2, <1>3, <1>4, <1>5, <1>6 DEF RunTask

LEMMA SectionRaces ==
  ASSUME Inv, server = "up", server' # server, NEW w \in Workers,
         Upload(w) \/ Delete(w) \/ ListNext(w)
  PROVE  KnownRace
<1> USE DEF Inv, TypeOK, TableType, TaskType, Sections, Go, Outcome
<1>0. ASSUME NEW i \in Ids, Torn(i), UsesSlot(i) PROVE KnownRace
  BY <1>0 DEF KnownRace
<1>1. CASE UploadPasses(w)
  <2>1. PICK i \in Ids : i = id[w]
    BY <1>1, IdsType DEF UploadPasses, Taken, SizeInv
  <2>2. id'[w] # id[w] /\ pc[w] = "scan" /\ Torn(i)
    BY <1>1, <2>1, IdsType DEF UploadPasses
  <2> QED
    BY <1>0, <2>1, <2>2 DEF UsesSlot
<1>2. ASSUME NEW s \in Scripts, UploadPlaces(w, s) PROVE KnownRace
  <2>1. PICK i \in Ids : Torn(i) /\ id[w] \in {i, size}
    BY <1>2 DEF UploadPlaces
  <2> QED
    BY <1>0, <1>2, <2>1 DEF UploadPlaces, UsesSlot
<1>3. CASE CleanupBegins(w)
  <2>1. PICK i \in Ids : i = id[w] /\ Torn(i)
    BY <1>3 DEF CleanupBegins
  <2> QED
    BY <1>0, <1>3, <2>1 DEF CleanupBegins, UsesSlot
<1>4. ASSUME NEW i \in Ids, DeleteFinds(w, i) PROVE KnownRace
  BY <1>0, <1>4 DEF DeleteFinds, UsesSlot
<1>5. ASSUME pc[w] = "dlock", Unsafe(mine[w]) PROVE KnownRace
  <2>1. mine[w] \in Scripts /\ InHand(mine[w])
    BY <1>5 DEF InHand
  <2> QED
    BY <1>5, <2>1, DeadIsCleaned DEF KnownRace
<1>6. CASE DeleteRefused(w)
  BY <1>5, <1>6 DEF DeleteRefused
<1>7. CASE DeleteTakes(w)
  <2>1. PICK i \in Ids : i = id[w]
    BY <1>7 DEF DeleteTakes
  <2> QED
    BY <1>0, <1>5, <1>7, <2>1 DEF DeleteTakes, UsesSlot
<1>8. CASE ListNext(w)
  <2>1. PICK i \in Ids : i = id[w]
    BY <1>8, IdsType DEF ListNext, SizeInv
  <2>2. id'[w] # id[w] /\ pc[w] = "slist"
    BY <1>8, <2>1, IdsType DEF ListNext
  <2>3. CASE Torn(i)
    BY <1>0, <2>1, <2>2, <2>3 DEF UsesSlot
  <2>4. CASE mine[w] # Null /\ Unsafe(mine[w])
    <3>1. mine[w] \in Scripts /\ InHand(mine[w])
      BY <2>2, <2>4 DEF InHand
    <3> QED
      BY <2>4, <3>1, DeadIsCleaned DEF KnownRace
  <2> QED
    BY <1>8, <2>1, <2>3, <2>4 DEF ListNext
<1>9. CASE UploadLocks(w) \/ UploadStored(w) \/ UploadFails(w) \/ DeleteFrees(w)
  BY <1>9 DEF UploadLocks, UploadStored, UploadFails, DeleteFrees
<1> QED
  BY <1>1, <1>2, <1>3, <1>4, <1>6, <1>7, <1>8, <1>9 DEF Upload, Delete

LEMMA TaskRaces ==
  ASSUME Inv, server = "up", server' # server, NEW w \in Workers,
         Upload(w) \/ Delete(w) \/ List(w) \/ Purge(w)
  PROVE  KnownRace
<1>1. CASE Upload(w) \/ Delete(w) \/ ListNext(w)
  BY <1>1, SectionRaces
<1>2. CASE JobsUnlock(w)
  <2>1. PICK p \in Pids : jobs[p] # Null /\ Unsafe(jobs[p])
    BY <1>2 DEF JobsUnlock, Outcome
  <2>2. jobs[p] \in Scripts /\ p \in Users(jobs[p])
    BY <2>1 DEF Users, Inv, TypeOK, TableType
  <2> QED
    BY <2>1, <2>2, DeadIsCleaned DEF KnownRace
<1>3. CASE PurgeDrops(w)
  <2>1. dropped[w] \in Scripts /\ w \in Users(dropped[w])
    BY <1>3 DEF PurgeDrops, Go, Users, Inv, TypeOK, TaskType
  <2>2. Unsafe(dropped[w])
    BY <1>3 DEF PurgeDrops, Release, Outcome
  <2> QED
    BY <2>1, <2>2, DeadIsCleaned DEF KnownRace
<1>4. CASE \/ ScriptsLock(w) \/ ScriptsUnlock(w) \/ JobsLock(w) \/ PurgeLocks(w)
           \/ \E p \in Pids : PurgeTakes(w, p) \/ PurgeMisses(w, p)
  BY <1>4 DEF ScriptsLock, ScriptsUnlock, JobsLock, PurgeLocks, PurgeTakes, PurgeMisses
<1> QED
  BY <1>1, <1>2, <1>3, <1>4 DEF List, Purge

(* The tables and the Script objects are misused in the four ways of KnownRace *)
(* only, with every section under Script::mutex cut where an unlocked reset    *)
(* can come in.  Without a failed upload there is no slot that is being        *)
(* emptied and no script that dangles (OnlyCleanupDangles below), and what is  *)
(* left are the two races of an insertion into Job::jobs.                      *)
THEOREM RacesAreKnown == Spec => OnlyKnownRaces
<1>1. Inv /\ [Next]_vars => [server' # server => KnownRace]_vars
  <2> SUFFICES ASSUME Inv, Next, server' # server PROVE KnownRace
    BY DEF vars
  <2>1. Step
    BY DEF Next, Over, vars
  <2> QED
    BY <2>1, RunRaces, TaskRaces DEF Step
<1> QED
  BY <1>1, Invariance, PTL DEF Spec, OnlyKnownRaces
-----------------------------------------------------------------------------
(* What the program would keep if cleanup spared scripts that are in use.      *)

InUseBy(s) == Users(s) # {} \/ InHand(s)

CleanupSpares ==
  \A w \in Workers : UploadFails(w) /\ scripts[id[w]] # Null => ~InUseBy(scripts[id[w]])

NoDangling == \A s \in Scripts : InUseBy(s) => Live(s)

(* Nobody finds a script that is freed, or hands on a pointer that nobody has. *)
LEMMA FreedStaysUnused ==
  ASSUME Inv, [Next]_vars, NEW s \in Scripts, ~InUseBy(s), ~Live(s)
  PROVE  ~InUseBy(s)'
<1> USE DEF InUseBy, scriptVars, jobVars, mainVars, taskVars
<1>0. TypeOK /\ \A i \in Ids : scripts[i] # s
  BY RegistryAssumption DEF Inv, SlotInv
<1>1. ASSUME mpc' = "find" => mpc = "find" /\ mscript' = mscript,
             \A w \in Workers : pc'[w] \in {"dlock", "slist"} =>
                pc[w] = pc'[w] /\ mine'[w] = mine[w]
      PROVE  ~InHand(s)'
  BY <1>1 DEF InHand
<1>2. CASE RunTask
  <2>1. UNCHANGED <<pc, mine>>
    BY <1>2 DEF RunTask, RunFinds, RunCounts, CheckLimit, LaunchFails, Fork, Emplace,
                EmplaceTaken, RunRefused
  <2>2. ASSUME NEW i \in Ids, RunFinds(i) PROVE ~InUseBy(s)'
    <3>1. Users(s)' = {}
      BY <1>0, <2>2, FindsUsers
    <3>2. ~InHand(s)'
      BY <1>0, <2>1, <2>2 DEF RunFinds, InHand
    <3> QED
      BY <3>1, <3>2
  <2>3. CASE RunCounts
    <3>1. s # mscript
      BY <2>3 DEF RunCounts, InHand
    <3>2. Users(s)' = {}
      BY <1>0, <2>3, <3>1, CountsUsers
    <3> QED
      BY <1>1, <2>1, <2>3, <3>2 DEF RunCounts
  <2>4. CASE Emplace
    BY <1>0, <1>1, <2>1, <2>4, EmplaceUsers DEF Emplace
  <2>5. CASE RunRefused
    BY <1>0, <1>1, <2>1, <2>5, RefusedUsers DEF RunRefused
  <2>6. CASE CheckLimit \/ LaunchFails \/ EmplaceTaken \/ \E p \in Pids : Fork(p)
    <3>1. UNCHANGED <<jobs, dropped, mscript>> /\ (mpc' = "find" <=> mpc = "find")
      BY <2>6 DEF CheckLimit, LaunchFails, EmplaceTaken, Fork
    <3> QED
      BY <1>1, <2>1, <3>1, UsersSame
  <2> QED
    BY <1>2, <2>2, <2>3, <2>4, <2>5, <2>6 DEF RunTask
<1>3. ASSUME NEW w \in Workers, Upload(w) \/ Delete(w) \/ List(w) PROVE ~InUseBy(s)'
  <2>1. UNCHANGED <<jobs, dropped, mscript, mpc>>
    BY <1>3 DEF Upload, UploadLocks, UploadPasses, UploadPlaces, UploadStored, CleanupBegins,
                UploadFails, Delete, DeleteFinds, DeleteRefused, DeleteTakes, DeleteFrees,
                List, ScriptsLock, ListNext, ScriptsUnlock, JobsLock, JobsUnlock
  <2>2. Users(s)' = {}
    BY <2>1, UsersSame
  <2>3. \A v \in Workers : v # w => pc'[v] = pc[v] /\ mine'[v] = mine[v]
    BY <1>0, <1>3 DEF Upload, UploadLocks, UploadPasses, UploadPlaces, UploadStored,
                CleanupBegins, UploadFails, Delete, DeleteFinds, DeleteRefused, DeleteTakes,
                DeleteFrees, List, ScriptsLock, ListNext, ScriptsUnlock, JobsLock,
                JobsUnlock, Go, TypeOK, TaskType
  <2>4. pc'[w] \in {"dlock", "slist"} => mine'[w] # s
    <3>1. ASSUME NEW i \in Ids, DeleteFinds(w, i) PROVE mine'[w] # s
      BY <1>0, <3>1 DEF DeleteFinds, TypeOK, TaskType
    <3>2. CASE ScriptsLock(w) \/ ListNext(w)
      <4>1. PICK i \in Nat : mine'[w] = Entry(i)
        <5>1. 1 \in Nat /\ id[w] + 1 \in Nat
          BY <1>0, NextId
        <5>2. mine'[w] = Entry(1) \/ mine'[w] = Entry(id[w] + 1)
          BY <1>0, <3>2 DEF ScriptsLock, ListNext, TypeOK, TaskType
        <5> QED
          BY <5>1, <5>2
      <4>2. Entry(i) # s
        BY <1>0, IdsType, RegistryAssumption DEF Entry, TypeOK, TableType
      <4> QED
        BY <4>1, <4>2
    <3>3. CASE \/ Upload(w) \/ DeleteRefused(w) \/ DeleteTakes(w) \/ DeleteFrees(w)
               \/ ScriptsUnlock(w) \/ JobsLock(w) \/ JobsUnlock(w)
      BY <1>0, <3>3 DEF Upload, UploadLocks, UploadPasses, UploadPlaces, UploadStored,
                CleanupBegins, UploadFails, DeleteRefused, DeleteTakes, DeleteFrees,
                ScriptsUnlock, JobsLock, JobsUnlock, Go, TypeOK, TaskType
    <3> QED
      BY <1>3, <3>1, <3>2, <3>3 DEF Delete, List
  <2>5. ~InHand(s)'
    BY <2>1, <2>3, <2>4 DEF InHand
  <2> QED
    BY <2>2, <2>5
<1>4. ASSUME NEW w \in Workers, Purge(w) PROVE ~InUseBy(s)'
  <2>1. UNCHANGED <<mine, mpc, mscript>>
    BY <1>4 DEF Purge, PurgeLocks, PurgeMisses, PurgeTakes, PurgeDrops
  <2>2. \A v \in Workers : pc'[v] \in {"dlock", "slist"} => pc[v] = pc'[v]
    BY <1>0, <1>4 DEF Purge, PurgeLocks, PurgeMisses, PurgeTakes, PurgeDrops, Go,
                AfterMissing, TypeOK, TaskType
  <2>3. Users(s)' = {}
    <3>1. CASE PurgeLocks(w) \/ \E p \in Pids : PurgeMisses(w, p)
      BY <2>1, <3>1, UsersSame DEF PurgeLocks, PurgeMisses
    <3>2. ASSUME NEW p \in Pids, PurgeTakes(w, p) PROVE Users(s)' = {}
      BY <1>0, <3>2, TakesUsers
    <3>3. CASE PurgeDrops(w)
      BY <1>0, <3>3, DropsUsers
    <3> QED
      BY <1>4, <3>1, <3>2, <3>3 DEF Purge
  <2> QED
    BY <1>1, <2>1, <2>2, <2>3
<1>5. CASE UNCHANGED vars
  BY <1>1, <1>5, UsersSame DEF vars
<1> QED
  BY <1>2, <1>3, <1>4, <1>5 DEF Next, Step, Over

LEMMA OnlyCleanupFrees ==
  ASSUME Inv, [Next]_vars, NEW s \in Scripts, fate[s] # "cleaned", fate'[s] = "cleaned"
  PROVE  \E w \in Workers : UploadFails(w) /\ scripts[id[w]] = s
<1> USE DEF scriptVars, Inv, TypeOK, TableType, TaskType
<1>1. ASSUME NEW w \in Workers, UploadFails(w) PROVE scripts[id[w]] = s
  BY <1>1 DEF UploadFails
<1>2. ASSUME NEW w \in Workers, Delete(w) PROVE FALSE
  BY <1>2 DEF Delete, DeleteFinds, DeleteRefused, DeleteTakes, DeleteFrees
<1>3. ASSUME NEW w \in Workers,
             \/ UploadLocks(w) \/ UploadPasses(w) \/ UploadStored(w) \/ CleanupBegins(w)
             \/ \E r \in Scripts : UploadPlaces(w, r)
      PROVE  FALSE
  BY <1>3 DEF UploadLocks, UploadPasses, UploadStored, CleanupBegins, UploadPlaces
<1>4. fate' # fate
  OBVIOUS
<1>5. ~RunTask
  BY <1>4 DEF RunTask, RunFinds, RunCounts, CheckLimit, LaunchFails, Fork, Emplace,
              EmplaceTaken, RunRefused
<1>6. \A w \in Workers : ~List(w) /\ ~Purge(w)
  BY <1>4 DEF List, ScriptsLock, ListNext, ScriptsUnlock, JobsLock, JobsUnlock, Purge,
              PurgeLocks, PurgeMisses, PurgeTakes, PurgeDrops
<1> QED
  BY <1>1, <1>2, <1>3, <1>4, <1>5, <1>6 DEF Next, Step, Over, Upload, vars

(* cleanup is the one way to a pointer that dangles: if it freed no script     *)
(* that a job, a purge, a run, a delete or a listing holds, every pointer to a *)
(* script, and every decrement of n_jobs through one, would be to a live       *)
(* object.                                                                     *)
THEOREM OnlyCleanupDangles ==
  Spec /\ [][CleanupSpares]_vars => []NoDangling
<1>1. Init => NoDangling
  BY RegistryAssumption DEF Init, NoDangling, InUseBy, InHand, Users
<1>2. Inv /\ JobsBounded /\ NoDangling /\ [Next]_vars /\ [CleanupSpares]_vars => NoDangling'
  <2> SUFFICES ASSUME Inv, JobsBounded, NoDangling, [Next]_vars, [CleanupSpares]_vars,
                      NEW s \in Scripts, InUseBy(s)', ~Live(s)'
               PROVE  FALSE
    BY DEF NoDangling
  <2>1. Inv'
    BY InvStep
  <2>2. fate'[s] = "cleaned"
    <3>1. CASE Users(s)' # {}
      BY <2>1, <3>1 DEF Inv, TypeOK, TableType, FreshInv, DeletedIsUnused, Removed, Live
    <3>2. CASE InHand(s)'
      <4>1. \A i \in Ids : scripts'[i] # s
        BY <2>1, RegistryAssumption DEF Inv, SlotInv
      <4> QED
        BY <2>1, <3>2, <4>1, RegistryAssumption
           DEF InHand, InSlot, Inv, HandInv, TypeOK, TaskType, Sections
    <3> QED
      BY <3>1, <3>2 DEF InUseBy
  <2>3. CASE fate[s] = "cleaned"
    <3>1. ~Live(s) /\ ~InUseBy(s)
      BY <2>3 DEF Live, NoDangling
    <3> QED
      BY <3>1, FreedStaysUnused
  <2>4. CASE fate[s] # "cleaned"
    <3>1. PICK w \in Workers : UploadFails(w) /\ scripts[id[w]] = s
      BY <2>2, <2>4, OnlyCleanupFrees
    <3>2. s # Null /\ vars' # vars
      BY <2>2, <2>4, RegistryAssumption DEF vars, scriptVars
    <3>3. Users(s) = {} /\ ~InHand(s)
      BY <3>1, <3>2 DEF CleanupSpares, InUseBy
    <3>4. Users(s)' = Users(s)
      BY <3>1, UsersSame DEF UploadFails, jobVars, mainVars
    <3>5. ~InHand(s)'
      BY <3>1, <3>3 DEF UploadFails, Go, mainVars, InHand, Inv, TypeOK, TaskType
    <3> QED
      BY <3>3, <3>4, <3>5 DEF InUseBy
  <2> QED
    BY <2>3, <2>4
<1> QED
  BY <1>1, <1>2, Invariance, PTL DEF Spec
=============================================================================
