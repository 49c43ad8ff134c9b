------------------------------ MODULE JobProofs ------------------------------
(***************************************************************************)
(* The safety properties of module Job, for every output limit, buffer,    *)
(* pipe capacity, script and environment.  Each follows from Inv, the      *)
(* conjunction of what the threads keep true of one another.               *)
(***************************************************************************)
EXTENDS Job, TLAPS

(* What a reader has stored, at each point of read_all, against what the     *)
(* script has written; a reader that met the end of file knows that nobody   *)
(* is left to write.                                                         *)
ReaderInv ==
  \A s \in Streams :
    /\ pc[s] \in {"unstarted", "read"} =>
         data[s] + pipe[s] = written[s] /\ data[s] <= OutputLimit
    /\ pc[s] \in {"limit", "term", "grace"} =>
         data[s] = OutputLimit /\ written[s] > OutputLimit
    /\ pc[s] = "exit" =>
         /\ data[s] = Smaller(written[s], OutputLimit)
         /\ written[s] > OutputLimit \/ (pid # "child" /\ ~daemon)

(* The flags and the verdict drawn from them.                                *)
LimitInv ==
  /\ output_limit_exceeded => \E s \in Streams : written[s] > OutputLimit
  /\ status = "OUTPUT_LIMITED" => output_limit_exceeded

(* The monitor waits for the child before it decides, decides once, and sets *)
(* finished and the status together.                                         *)
MonitorInv ==
  /\ pc["monitor"] \notin {"unstarted", "waitpid"} => pid # "child"
  /\ finished <=> pc["monitor"] \notin {"unstarted", "waitpid", "decide"}
  /\ finished <=> status # "RUNNING"
  /\ status = "FINISHED" => result = wstatus

(* No thread of the job exists before launch has started them all.           *)
StartInv ==
  pc["launcher"] = "start" =>
    pc["monitor"] = "unstarted" /\ \A t \in Workers : pc[t] = "unstarted"

(* What the monitor has joined so far.                                       *)
JoinInv ==
  /\ pc["monitor"] \in {"join_stderr", "join_timer", "close", "done"} =>
       pc["stdout"] = "exit"
  /\ pc["monitor"] \in {"join_timer", "close", "done"} => pc["stderr"] = "exit"
  /\ pc["monitor"] \in {"close", "done"} => pc["timer"] = "exit"

Inv == /\ TypeOK /\ ReaderInv /\ LimitInv /\ MonitorInv /\ TimerSilent
       /\ StartInv /\ JoinInv
-----------------------------------------------------------------------------
(* Type correctness.                                                         *)

LEMMA InitType == Init => TypeOK
<1> SUFFICES ASSUME Init PROVE TypeOK
  OBVIOUS
<1>1. DataType
  BY LimitAssumption, EnvAssumption DEF Init, DataType, Streams, Alive
<1>2. FlagType
  BY DEF Init, FlagType
<1>3. ThreadType
  BY DEF Init, ThreadType, Threads, Workers, Tasks, Streams, Places, ReaderPlaces,
         TimerPlaces, MonitorPlaces, PurgePlaces
<1> QED
  BY <1>1, <1>2, <1>3 DEF TypeOK

LEMMA DataTypeStep == DataType /\ Step => DataType'
<1> SUFFICES ASSUME DataType, Step PROVE DataType'
  OBVIOUS
<1> USE LimitAssumption, EnvAssumption DEF DataType, kernelVars, pipeVars, flagVars
<1>1. ASSUME NEW s \in Streams, Write(s) PROVE DataType'
  BY <1>1 DEF Write
<1>2. CASE ChildExits \/ ChildDies
  <2>1. PICK how \in ExitCodes \cup {NotRunnable, Signaled} : ChildEnds(how)
    BY <1>2 DEF ChildExits, ChildDies
  <2> QED
    BY <2>1 DEF ChildEnds
<1>3. CASE ChildIgnoresTerm \/ DaemonExits \/ PidReused
  BY <1>3 DEF ChildIgnoresTerm, DaemonExits, PidReused
<1>4. CASE Launcher
  BY <1>4 DEF Launcher, StartMonitors, LauncherReplies, Touch
<1>5. ASSUME NEW s \in Streams, Reader(s) PROVE DataType'
  BY <1>5 DEF Reader, ReadChunk, ReadEnds, LimitHit, Smaller, Kept
<1>6. CASE Timer
  BY <1>6 DEF Timer, TimerWoken, TimerFires
<1>7. CASE Monitor
  BY <1>7 DEF Monitor, WaitPid, Decide, Verdict, Exited, JoinNext, CloseFds, Touch
<1>8. CASE Clients
  BY <1>8 DEF Clients, Terminate, CopyBegins, CopyEnds, PurgeTakes, PurgeDrops
<1>9. ASSUME NEW t \in Killers, SendTerm(t) \/ SendKill(t) PROVE DataType'
  BY <1>9 DEF SendTerm, SendKill, Kill, LastSignal
<1> QED
  BY <1>1, <1>2, <1>3, <1>4, <1>5, <1>6, <1>7, <1>8, <1>9 DEF Step, Child

LEMMA FlagTypeStep == FlagType /\ Step => FlagType'
<1> SUFFICES ASSUME FlagType, Step PROVE FlagType'
  OBVIOUS
<1> USE DEF FlagType, kernelVars, pipeVars, flagVars
<1>1. ASSUME NEW s \in Streams, Write(s) PROVE FlagType'
  BY <1>1 DEF Write
<1>2. CASE ChildExits \/ ChildDies
  BY <1>2 DEF ChildExits, ChildDies, ChildEnds
<1>3. CASE ChildIgnoresTerm \/ DaemonExits \/ PidReused
  BY <1>3 DEF ChildIgnoresTerm, DaemonExits, PidReused
<1>4. CASE Launcher
  BY <1>4 DEF Launcher, StartMonitors, LauncherReplies
<1>5. ASSUME NEW s \in Streams, Reader(s) PROVE FlagType'
  BY <1>5 DEF Reader, ReadChunk, ReadEnds, LimitHit
<1>6. CASE Timer
  BY <1>6 DEF Timer, TimerWoken, TimerFires
<1>7. CASE Monitor
  BY <1>7 DEF Monitor, WaitPid, Decide, JoinNext, CloseFds
<1>8. CASE Clients
  BY <1>8 DEF Clients, Terminate, CopyBegins, CopyEnds, PurgeTakes, PurgeDrops
<1>9. ASSUME NEW t \in Killers, SendTerm(t) \/ SendKill(t) PROVE FlagType'
  BY <1>9 DEF SendTerm, SendKill, Kill
<1> QED
  BY <1>1, <1>2, <1>3, <1>4, <1>5, <1>6, <1>7, <1>8, <1>9 DEF Step, Child

LEMMA ThreadTypeStep == ThreadType /\ Step => ThreadType'
<1> SUFFICES ASSUME ThreadType, Step PROVE ThreadType'
  OBVIOUS
<1> USE DEF ThreadType, Threads, Workers, Tasks, Streams, Places, ReaderPlaces,
            TimerPlaces, MonitorPlaces, PurgePlaces, Go
<1>1. CASE Child
  BY <1>1 DEF Child, Write, ChildExits, ChildDies, ChildEnds, ChildIgnoresTerm,
              DaemonExits, PidReused
<1>2. CASE Launcher
  BY <1>2 DEF Launcher, StartMonitors, LauncherReplies
<1>3. ASSUME NEW s \in Streams, Reader(s) PROVE ThreadType'
  BY <1>3 DEF Reader, ReadChunk, ReadEnds, LimitHit
<1>4. CASE Timer
  BY <1>4 DEF Timer, TimerWoken, TimerFires
<1>5. CASE Monitor
  BY <1>5 DEF Monitor, WaitPid, Decide, JoinNext, CloseFds
<1>6. CASE Clients
  BY <1>6 DEF Clients, Terminate, CopyBegins, CopyEnds, PurgeTakes, PurgeDrops
<1>7. ASSUME NEW t \in Killers, SendTerm(t) \/ SendKill(t) PROVE ThreadType'
  BY <1>7 DEF SendTerm, SendKill, Kill, AfterTerminate, Killers
<1> QED
  BY <1>1, <1>2, <1>3, <1>4, <1>5, <1>6, <1>7 DEF Step

LEMMA TypeStep == TypeOK /\ [Next]_vars => TypeOK'
<1>1. TypeOK /\ Step => TypeOK'
  BY DataTypeStep, FlagTypeStep, ThreadTypeStep DEF TypeOK
<1>2. TypeOK /\ UNCHANGED vars => TypeOK'
  BY DEF TypeOK, DataType, FlagType, ThreadType, vars, kernelVars, pipeVars, flagVars
<1> QED
  BY <1>1, <1>2 DEF Next, Over

(* Type correctness of the job, its threads and its tasks.                   *)
THEOREM TypeCorrect == Spec => []TypeOK
BY InitType, TypeStep, PTL DEF Spec
-----------------------------------------------------------------------------
(* The inductive invariant.                                                  *)

LEMMA StartStep == TypeOK /\ StartInv /\ Step => StartInv'
<1> SUFFICES ASSUME TypeOK, StartInv, Step PROVE StartInv'
  OBVIOUS
<1> USE DEF StartInv, TypeOK, ThreadType, Threads, Workers, Tasks, Streams, Go
<1>1. CASE Child
  BY <1>1 DEF Child, Write, ChildExits, ChildDies, ChildEnds, ChildIgnoresTerm,
              DaemonExits, PidReused
<1>2. CASE Launcher
  BY <1>2 DEF Launcher, StartMonitors, LauncherReplies
<1>3. ASSUME NEW s \in Streams, Reader(s) PROVE StartInv'
  BY <1>3 DEF Reader, ReadChunk, ReadEnds, LimitHit
<1>4. CASE Timer
  BY <1>4 DEF Timer, TimerWoken, TimerFires
<1>5. CASE Monitor
  BY <1>5 DEF Monitor, WaitPid, Decide, JoinNext, CloseFds
<1>6. CASE Clients
  BY <1>6 DEF Clients, Terminate, CopyBegins, CopyEnds, PurgeTakes, PurgeDrops
<1>7. ASSUME NEW t \in Killers, SendTerm(t) \/ SendKill(t) PROVE StartInv'
  BY <1>7 DEF SendTerm, SendKill, Kill, AfterTerminate, Killers
<1> QED
  BY <1>1, <1>2, <1>3, <1>4, <1>5, <1>6, <1>7 DEF Step

LEMMA JoinStep == TypeOK /\ StartInv /\ JoinInv /\ Step => JoinInv'
<1> SUFFICES ASSUME TypeOK, StartInv, JoinInv, Step PROVE JoinInv'
  OBVIOUS
<1> USE DEF JoinInv, TypeOK, ThreadType, Threads, Workers, Tasks, Streams, Go
<1>1. CASE Child
  BY <1>1 DEF Child, Write, ChildExits, ChildDies, ChildEnds, ChildIgnoresTerm,
              DaemonExits, PidReused
<1>2. CASE Launcher
  BY <1>2 DEF Launcher, StartMonitors, LauncherReplies, StartInv
<1>3. ASSUME NEW s \in Streams, Reader(s) PROVE JoinInv'
  BY <1>3 DEF Reader, ReadChunk, ReadEnds, LimitHit
<1>4. CASE Timer
  BY <1>4 DEF Timer, TimerWoken, TimerFires
<1>5. CASE Monitor
  BY <1>5 DEF Monitor, WaitPid, Decide, JoinNext, Joins, CloseFds
<1>6. CASE Clients
  BY <1>6 DEF Clients, Terminate, CopyBegins, CopyEnds, PurgeTakes, PurgeDrops
<1>7. ASSUME NEW t \in Killers, SendTerm(t) \/ SendKill(t) PROVE JoinInv'
  BY <1>7 DEF SendTerm, SendKill, Kill, AfterTerminate, Killers
<1> QED
  BY <1>1, <1>2, <1>3, <1>4, <1>5, <1>6, <1>7 DEF Step

LEMMA MonitorStep ==
  TypeOK /\ StartInv /\ MonitorInv /\ TimerSilent /\ Step => MonitorInv' /\ TimerSilent'
<1> SUFFICES ASSUME TypeOK, StartInv, MonitorInv, TimerSilent, Step
             PROVE  MonitorInv' /\ TimerSilent'
  OBVIOUS
<1> USE DEF MonitorInv, TimerSilent, TypeOK, ThreadType, FlagType, Threads, Workers,
            Tasks, Streams, Go, kernelVars, pipeVars, flagVars
<1>1. ASSUME NEW s \in Streams, Write(s) PROVE MonitorInv' /\ TimerSilent'
  BY <1>1 DEF Write
<1>2. CASE ChildExits \/ ChildDies
  <2>1. PICK how \in ExitCodes \cup {NotRunnable, Signaled} : ChildEnds(how)
    BY <1>2 DEF ChildExits, ChildDies
  <2> QED
    BY <2>1 DEF ChildEnds
<1>3. CASE ChildIgnoresTerm \/ DaemonExits \/ PidReused
  BY <1>3 DEF ChildIgnoresTerm, DaemonExits, PidReused
<1>4. CASE Launcher
  BY <1>4 DEF Launcher, StartMonitors, LauncherReplies, StartInv
<1>5. ASSUME NEW s \in Streams, Reader(s) PROVE MonitorInv' /\ TimerSilent'
  BY <1>5 DEF Reader, ReadChunk, ReadEnds, LimitHit
<1>6. CASE Timer
  BY <1>6 DEF Timer, TimerWoken, TimerFires, MayTimeOut
<1>7. CASE WaitPid
  BY <1>7 DEF WaitPid, Waitable
<1>8. CASE Decide
  BY <1>8 DEF Decide, Verdict
<1>9. CASE Monitor /\ ~WaitPid /\ ~Decide
  BY <1>9 DEF Monitor, JoinNext, CloseFds
<1>10. CASE Clients
  BY <1>10 DEF Clients, Terminate, CopyBegins, CopyEnds, PurgeTakes, PurgeDrops
<1>11. ASSUME NEW t \in Killers, SendTerm(t) \/ SendKill(t)
       PROVE  MonitorInv' /\ TimerSilent'
  BY <1>11 DEF SendTerm, SendKill, Kill, AfterTerminate, Killers
<1> QED
  BY <1>1, <1>2, <1>3, <1>4, <1>5, <1>6, <1>7, <1>8, <1>9, <1>10, <1>11
  DEF Step, Child

LEMMA ReaderStep == TypeOK /\ StartInv /\ ReaderInv /\ Step => ReaderInv'
<1> SUFFICES ASSUME TypeOK, StartInv, ReaderInv, Step PROVE ReaderInv'
  OBVIOUS
<1> USE LimitAssumption
    DEF ReaderInv, TypeOK, DataType, ThreadType, ReaderPlaces, Threads, Workers, Tasks,
        Streams, Go, kernelVars, pipeVars, flagVars, Smaller
<1>1. ASSUME NEW s \in Streams, Write(s) PROVE ReaderInv'
  BY <1>1 DEF Write
<1>2. CASE ChildExits \/ ChildDies
  BY <1>2 DEF ChildExits, ChildDies, ChildEnds
<1>3. CASE ChildIgnoresTerm \/ DaemonExits \/ PidReused
  BY <1>3 DEF ChildIgnoresTerm, DaemonExits, PidReused
<1>4. CASE Launcher
  BY <1>4 DEF Launcher, StartMonitors, LauncherReplies, StartInv
<1>5. ASSUME NEW s \in Streams, ReadChunk(s) PROVE ReaderInv'
  BY <1>5 DEF ReadChunk, Kept, OverLimit
<1>6. ASSUME NEW s \in Streams, ReadEnds(s) \/ LimitHit(s) PROVE ReaderInv'
  BY <1>6 DEF ReadEnds, LimitHit, EndOfFile
<1>7. CASE Timer
  BY <1>7 DEF Timer, TimerWoken, TimerFires
<1>8. CASE Monitor
  BY <1>8 DEF Monitor, WaitPid, Decide, JoinNext, CloseFds
<1>9. CASE Clients
  BY <1>9 DEF Clients, Terminate, CopyBegins, CopyEnds, PurgeTakes, PurgeDrops
<1>10. ASSUME NEW t \in Killers, SendTerm(t) \/ SendKill(t) PROVE ReaderInv'
  BY <1>10 DEF SendTerm, SendKill, Kill, AfterTerminate, Killers
<1> QED
  BY <1>1, <1>2, <1>3, <1>4, <1>5, <1>6, <1>7, <1>8, <1>9, <1>10 DEF Step, Child, Reader

LEMMA LimitStep == TypeOK /\ ReaderInv /\ LimitInv /\ Step => LimitInv'
<1> SUFFICES ASSUME TypeOK, ReaderInv, LimitInv, Step PROVE LimitInv'
  OBVIOUS
<1> USE LimitAssumption
    DEF LimitInv, TypeOK, DataType, FlagType, Streams, kernelVars, pipeVars, flagVars
<1>1. ASSUME NEW s \in Streams, Write(s) PROVE LimitInv'
  BY <1>1 DEF Write
<1>2. CASE ChildExits \/ ChildDies
  <2>1. PICK how \in ExitCodes \cup {NotRunnable, Signaled} : ChildEnds(how)
    BY <1>2 DEF ChildExits, ChildDies
  <2> QED
    BY <2>1 DEF ChildEnds
<1>3. CASE ChildIgnoresTerm \/ DaemonExits \/ PidReused
  BY <1>3 DEF ChildIgnoresTerm, DaemonExits, PidReused
<1>4. CASE Launcher
  BY <1>4 DEF Launcher, StartMonitors, LauncherReplies
<1>5. ASSUME NEW s \in Streams, ReadChunk(s) \/ ReadEnds(s) PROVE LimitInv'
  BY <1>5 DEF ReadChunk, ReadEnds
<1>6. ASSUME NEW s \in Streams, LimitHit(s) PROVE LimitInv'
  BY <1>6 DEF LimitHit, Go, ReaderInv
<1>7. CASE Timer
  BY <1>7 DEF Timer, TimerWoken, TimerFires
<1>8. CASE Decide
  BY <1>8 DEF Decide, Verdict
<1>9. CASE Monitor /\ ~Decide
  BY <1>9 DEF Monitor, WaitPid, JoinNext, CloseFds
<1>10. CASE Clients
  BY <1>10 DEF Clients, Terminate, CopyBegins, CopyEnds, PurgeTakes, PurgeDrops
<1>11. ASSUME NEW t \in Killers, SendTerm(t) \/ SendKill(t) PROVE LimitInv'
  BY <1>11 DEF SendTerm, SendKill, Kill
<1> QED
  BY <1>1, <1>2, <1>3, <1>4, <1>5, <1>6, <1>7, <1>8, <1>9, <1>10, <1>11
  DEF Step, Child, Reader

LEMMA InitInv == Init => Inv
<1> SUFFICES ASSUME Init PROVE Inv
  OBVIOUS
<1>1. TypeOK
  BY InitType
<1>2. ReaderInv
  BY LimitAssumption DEF Init, ReaderInv, Threads, Workers, Tasks, Streams
<1>3. LimitInv /\ MonitorInv /\ TimerSilent
  BY DEF Init, LimitInv, MonitorInv, TimerSilent, Threads, Workers, Tasks, Streams
<1>4. StartInv /\ JoinInv
  BY DEF Init, StartInv, JoinInv, Threads, Workers, Tasks, Streams
<1> QED
  BY <1>1, <1>2, <1>3, <1>4 DEF Inv

LEMMA InvStep == Inv /\ [Next]_vars => Inv'
<1>1. Inv /\ Step => Inv'
  <2> SUFFICES ASSUME Inv, Step PROVE Inv'
    OBVIOUS
  <2>1. TypeOK'
    BY TypeStep DEF Inv, Next
  <2> QED
    BY <2>1, ReaderStep, LimitStep, MonitorStep, StartStep, JoinStep DEF Inv
<1>2. Inv /\ UNCHANGED vars => Inv'
  BY DEF Inv, TypeOK, DataType, FlagType, ThreadType, ReaderInv, LimitInv, MonitorInv,
         TimerSilent, StartInv, JoinInv, vars, kernelVars, pipeVars, flagVars
<1> QED
  BY <1>1, <1>2 DEF Next, Over

THEOREM Invariance == Spec => []Inv
BY InitInv, InvStep, PTL DEF Spec
-----------------------------------------------------------------------------
(* What follows from it.                                                     *)

(* A reader thread that is over has stored what the script wrote, cut at     *)
(* OUTPUT_LIMIT.                                                             *)
THEOREM OutputIsExact == Spec => []OutputExact
<1>1. Inv => OutputExact
  BY DEF Inv, ReaderInv, OutputExact
<1> QED
  BY <1>1, Invariance, PTL

(* OUTPUT_LIMITED is only reported of a stream that passed the limit.        *)
THEOREM LimitIsJustified == Spec => []LimitJustified
<1>1. Inv => LimitJustified
  BY DEF Inv, LimitInv, LimitJustified
<1> QED
  BY <1>1, Invariance, PTL

(* A job that is not RUNNING has no child, and FINISHED tells its exit code. *)
THEOREM SettledJobIsDead == Spec => []SettledIsDead
<1>1. Inv => SettledIsDead
  BY DEF Inv, MonitorInv, SettledIsDead
<1> QED
  BY <1>1, Invariance, PTL

(* The timer never fires once the monitor has given another reason.          *)
THEOREM TimerStaysSilent == Spec => []TimerSilent
BY Invariance, PTL DEF Inv

(* The pipes are closed when no thread of the job is left.                   *)
THEOREM ReleaseIsQuiet == Spec => []QuietWhenReleased
<1>1. Inv => QuietWhenReleased
  BY DEF Inv, JoinInv, QuietWhenReleased, Workers, Streams
<1> QED
  BY <1>1, Invariance, PTL
-----------------------------------------------------------------------------
(* Module JobSpec is implemented.                                            *)

(* The flag is raised by a reader that has filled its output and will not    *)
(* touch it again.                                                           *)
FullInv ==
  output_limit_exceeded =>
    \E s \in Streams : data[s] = OutputLimit /\ pc[s] \in {"term", "grace", "exit"}

LEMMA FullStep == Inv /\ FullInv /\ Step => FullInv'
<1> SUFFICES ASSUME Inv, FullInv, Step PROVE FullInv'
  OBVIOUS
<1> USE DEF FullInv, Inv, TypeOK, DataType, ThreadType, Threads, Workers, Tasks, Streams,
            kernelVars, pipeVars, flagVars, Go
<1>1. ASSUME NEW s \in Streams, Write(s) PROVE FullInv'
  BY <1>1 DEF Write
<1>2. CASE ChildExits \/ ChildDies
  <2>1. PICK how \in ExitCodes \cup {NotRunnable, Signaled} : ChildEnds(how)
    BY <1>2 DEF ChildExits, ChildDies
  <2> QED
    BY <2>1 DEF ChildEnds
<1>3. CASE ChildIgnoresTerm \/ DaemonExits \/ PidReused
  BY <1>3 DEF ChildIgnoresTerm, DaemonExits, PidReused
<1>4. CASE Launcher
  BY <1>4 DEF Launcher, StartMonitors, LauncherReplies, StartInv
<1>5. ASSUME NEW s \in Streams, ReadChunk(s) \/ ReadEnds(s) PROVE FullInv'
  BY <1>5 DEF ReadChunk, ReadEnds
<1>6. ASSUME NEW s \in Streams, LimitHit(s) PROVE FullInv'
  BY <1>6 DEF LimitHit, ReaderInv
<1>7. CASE Timer
  BY <1>7 DEF Timer, TimerWoken, TimerFires
<1>8. CASE Monitor
  BY <1>8 DEF Monitor, WaitPid, Decide, JoinNext, CloseFds
<1>9. CASE Clients
  BY <1>9 DEF Clients, Terminate, CopyBegins, CopyEnds, PurgeTakes, PurgeDrops
<1>10. ASSUME NEW t \in Killers, SendTerm(t) \/ SendKill(t) PROVE FullInv'
  BY <1>10 DEF SendTerm, SendKill, Kill, AfterTerminate, Killers
<1> QED
  BY <1>1, <1>2, <1>3, <1>4, <1>5, <1>6, <1>7, <1>8, <1>9, <1>10 DEF Step, Child, Reader

(* An output is within the limit at every point of its reader.               *)
LEMMA WithinLimit == Inv => \A s \in Streams : data[s] \in 0..OutputLimit
BY LimitAssumption
   DEF Inv, TypeOK, DataType, ThreadType, ReaderInv, ReaderPlaces, Smaller, Streams

(* What a client cannot see.                                                 *)
LEMMA Unseen ==
  ASSUME UNCHANGED <<status, result, data, obj, server>>
  PROVE  UNCHANGED Abs!vars
BY DEF Abs!vars, StatusSeen, ResultSeen, OutputSeen, Visible

LEMMA ServerDown ==
  ASSUME TypeOK, server = "up", server' # "up"
  PROVE  Abs!Forget("DOWN")
BY DEF Abs!Forget, Abs!Nothing, StatusSeen, ResultSeen, OutputSeen, Visible, TypeOK, DataType

LEMMA PurgeSeen ==
  ASSUME TypeOK, server = "up", server' = "up", obj' # "table"
  PROVE  Abs!Forget("PURGED") \/ obj # "table"
BY DEF Abs!Forget, Abs!Nothing, Abs!Known, Abs!Verdicts, StatusSeen, ResultSeen, OutputSeen,
       Visible, TypeOK, DataType

LEMMA ChunkSeen ==
  ASSUME Inv, Inv', server = "up", server' = "up", NEW s \in Streams, ReadChunk(s)
  PROVE  Abs!Grow(s) \/ UNCHANGED Abs!vars
<1>1. /\ UNCHANGED <<status, result, obj>>
      /\ \A r \in Streams \ {s} : data'[r] = data[r]
      /\ data'[s] \in 0..OutputLimit /\ data[s] \in 0..OutputLimit /\ data'[s] >= data[s]
      /\ data \in [Streams -> Nat] /\ data' \in [Streams -> Nat]
  <2>1. data \in [Streams -> Nat] /\ data' \in [Streams -> Nat]
    BY DEF Inv, TypeOK, DataType
  <2>2. PICK n \in 1..Smaller(pipe[s], BufSize) : data' = [data EXCEPT ![s] = @ + Kept(@, n)]
    BY DEF ReadChunk
  <2>3. n \in Nat
    BY <2>2, LimitAssumption DEF Smaller, Inv, TypeOK, DataType
  <2>4. data[s] \in 0..OutputLimit
    BY WithinLimit
  <2>5. Kept(data[s], n) \in 0..(OutputLimit - data[s])
    BY <2>3, <2>4, LimitAssumption DEF Kept, Smaller
  <2>6. data'[s] = data[s] + Kept(data[s], n) /\ \A r \in Streams \ {s} : data'[r] = data[r]
    BY <2>1, <2>2
  <2>7. data'[s] \in 0..OutputLimit /\ data'[s] >= data[s]
    BY <2>4, <2>5, <2>6, LimitAssumption
  <2> QED
    BY <2>1, <2>4, <2>6, <2>7 DEF ReadChunk
<1>2. CASE obj # "table" \/ data'[s] = data[s]
  BY <1>1, <1>2 DEF Abs!vars, StatusSeen, ResultSeen, OutputSeen, Visible
<1>3. CASE obj = "table" /\ data'[s] > data[s]
  <2>1. OutputSeen' = [OutputSeen EXCEPT ![s] = data'[s]]
    BY <1>1, <1>3 DEF OutputSeen, Visible
  <2>2. data'[s] \in 0..OutputLimit /\ data'[s] > OutputSeen[s]
    BY <1>1, <1>3 DEF OutputSeen, Visible
  <2>3. StatusSeen \in Abs!Verdicts \cup {"RUNNING"} /\ UNCHANGED <<StatusSeen, ResultSeen>>
    BY <1>1, <1>3 DEF StatusSeen, ResultSeen, Visible, Inv, TypeOK, DataType, Abs!Verdicts
  <2> QED
    BY <2>1, <2>2, <2>3 DEF Abs!Grow, Abs!Known
<1> QED
  BY <1>1, <1>2, <1>3

LEMMA VerdictSeen ==
  ASSUME Inv, FullInv, server = "up", Decide
  PROVE  Abs!Next \/ UNCHANGED Abs!vars
<1>1. /\ UNCHANGED <<data, obj, server>> /\ status' = Verdict
      /\ result' = IF Verdict = "FINISHED" THEN wstatus ELSE result
      /\ pc["monitor"] = "decide" /\ status = "RUNNING"
  BY DEF Decide, Go, Inv, MonitorInv
<1>2. CASE obj # "table"
  BY <1>1, <1>2 DEF Abs!vars, StatusSeen, ResultSeen, OutputSeen, Visible
<1>3. CASE obj = "table"
  <2>1. Verdict \in Abs!Verdicts
    BY DEF Verdict, Abs!Verdicts
  <2>2. StatusSeen = "RUNNING" /\ StatusSeen' = Verdict /\ UNCHANGED OutputSeen
    BY <1>1, <1>3 DEF StatusSeen, OutputSeen, Visible
  <2>3. ResultSeen' = IF Verdict = "FINISHED" THEN wstatus ELSE ResultSeen
    BY <1>1, <1>3 DEF ResultSeen, Visible
  <2>4. Verdict = "FINISHED" => wstatus \in ExitCodes
    BY DEF Verdict, Exited
  <2>5. Verdict = "OUTPUT_LIMITED" => \E s \in Streams : OutputSeen[s] = OutputLimit
    BY <1>1, <1>3 DEF Verdict, FullInv, OutputSeen, Visible
  <2>6. Abs!Settle(Verdict)
    BY <2>2, <2>3, <2>4, <2>5 DEF Abs!Settle
  <2> QED
    BY <2>1, <2>6 DEF Abs!Next
<1> QED
  BY <1>2, <1>3

LEMMA StepSeen ==
  Inv /\ Inv' /\ FullInv /\ [Next]_vars => [Abs!Next]_(Abs!vars)
<1> SUFFICES ASSUME Inv, Inv', FullInv, [Next]_vars PROVE Abs!Next \/ UNCHANGED Abs!vars
  OBVIOUS
<1>1. CASE UNCHANGED vars
  BY <1>1, Unseen DEF vars
<1>2. CASE Step
  <2>1. server = "up"
    BY <1>2 DEF Step
  <2>2. CASE server' # "up"
    BY <2>1, <2>2, ServerDown DEF Inv, Abs!Next
  <2>3. CASE Decide
    BY <2>1, <2>3, VerdictSeen
  <2>4. ASSUME server' = "up", NEW s \in Streams, ReadChunk(s)
        PROVE  Abs!Next \/ UNCHANGED Abs!vars
    BY <2>1, <2>4, ChunkSeen DEF Abs!Next
  <2>5. ASSUME server' = "up", PurgeTakes \/ PurgeDrops
        PROVE  Abs!Next \/ UNCHANGED Abs!vars
    <3>1. obj' # "table" /\ UNCHANGED <<status, result, data>>
      BY <2>5 DEF PurgeTakes, PurgeDrops, pipeVars
    <3>2. CASE obj = "table"
      BY <2>1, <2>5, <3>1, <3>2, PurgeSeen DEF Inv, Abs!Next
    <3>3. CASE obj # "table"
      BY <3>1, <3>3, <2>1, <2>5
      DEF Abs!vars, StatusSeen, ResultSeen, OutputSeen, Visible
    <3> QED
      BY <3>2, <3>3
  <2>6. ASSUME server' = "up", ~Decide, ~PurgeTakes, ~PurgeDrops,
               \A s \in Streams : ~ReadChunk(s)
        PROVE  UNCHANGED <<status, result, data, obj, server>>
    <3> USE <2>1, <2>6 DEF pipeVars, kernelVars, flagVars
    <3>1. CASE Child
      BY <3>1 DEF Child, Write, ChildExits, ChildDies, ChildEnds, ChildIgnoresTerm,
                  DaemonExits, PidReused
    <3>2. CASE Launcher
      BY <3>2 DEF Launcher, StartMonitors, LauncherReplies
    <3>3. CASE Timer
      BY <3>3 DEF Timer, TimerWoken, TimerFires
    <3>4. CASE Monitor
      BY <3>4 DEF Monitor, WaitPid, JoinNext, CloseFds
    <3>5. CASE Clients
      BY <3>5 DEF Clients, Terminate, CopyBegins, CopyEnds
    <3>6. ASSUME NEW s \in Streams, Reader(s)
          PROVE  UNCHANGED <<status, result, data, obj, server>>
      BY <3>6 DEF Reader, ReadEnds, LimitHit
    <3>7. ASSUME NEW t \in Killers, SendTerm(t) \/ SendKill(t)
          PROVE  UNCHANGED <<status, result, data, obj, server>>
      BY <3>7 DEF SendTerm, SendKill, Kill
    <3> QED
      BY <1>2, <3>1, <3>2, <3>3, <3>4, <3>5, <3>6, <3>7 DEF Step
  <2> QED
    BY <2>2, <2>3, <2>4, <2>5, <2>6, Unseen
<1> QED
  BY <1>1, <1>2 DEF Next, Over

(* The threads of a job, its child, the kernel and the tasks together show   *)
(* the clients no behaviour but those of JobSpec.                            *)
THEOREM JobImplementsSpec == Spec => Implements
<1>1. Init => Abs!Init
  BY DEF Init, Abs!Init, Abs!Nothing, StatusSeen, ResultSeen, OutputSeen, Visible
<1>2. Init => FullInv
  BY DEF Init, FullInv
<1>3. Inv /\ FullInv /\ [Next]_vars => FullInv'
  <2>1. FullInv /\ UNCHANGED vars => FullInv'
    BY DEF FullInv, vars, flagVars
  <2> QED
    BY <2>1, FullStep DEF Next, Over
<1> QED
  BY <1>1, <1>2, <1>3, StepSeen, Invariance, PTL DEF Spec, Implements, Abs!Spec
-----------------------------------------------------------------------------
(* Who may still use the Job object.                                         *)

(* Job::mutex keeps the tasks and the purge apart.  A purge that does not    *)
(* abort has met a job whose threads have all ended, or not even begun.      *)
ObjectInv ==
  /\ obj = "table" <=> pc["purge"] = "idle"
  /\ obj = "destroyed" <=> pc["purge"] = "done"
  /\ obj # "table" => JobsMutexFree
  /\ pc["launcher"] # "start" => \A t \in Workers : pc[t] # "unstarted"
  /\ server # "aborted" /\ obj = "destroyed" =>
       \/ pc["launcher"] = "start" \/ server = "undefined"
       \/ \A t \in Workers : pc[t] = "exit"

LEMMA ObjectInit == Init => ObjectInv
BY DEF Init, ObjectInv, JobsMutexFree, Threads, Workers, Tasks, Streams

LEMMA ObjectStep == Inv /\ ObjectInv /\ Step => ObjectInv'
<1> SUFFICES ASSUME Inv, ObjectInv, Step PROVE ObjectInv'
  OBVIOUS
<1> USE DEF Inv, ObjectInv, JobsMutexFree, TypeOK, ThreadType, Threads, Workers, Tasks,
            Streams, Go
<1>1. CASE Child
  BY <1>1 DEF Child, Write, ChildExits, ChildDies, ChildEnds, ChildIgnoresTerm,
              DaemonExits, PidReused
<1>2. CASE Launcher
  BY <1>2 DEF Launcher, StartMonitors, LauncherReplies, Touch, Step
<1>3. ASSUME NEW s \in Streams, Reader(s) PROVE ObjectInv'
  BY <1>3 DEF Reader, ReadChunk, ReadEnds, LimitHit, Step
<1>4. CASE Timer
  BY <1>4 DEF Timer, TimerWoken, TimerFires
<1>5. CASE Monitor
  BY <1>5 DEF Monitor, WaitPid, Decide, JoinNext, CloseFds, Touch, Step
<1>6. CASE Clients /\ ~PurgeDrops
  BY <1>6 DEF Clients, Terminate, CopyBegins, CopyEnds, PurgeTakes
<1>7. CASE PurgeDrops
  <2>1. /\ pc["purge"] = "drop" /\ pc' = [pc EXCEPT !["purge"] = "done"]
        /\ obj' = "destroyed"
        /\ server' = IF \E t \in Workers : Joinable(t) THEN "aborted" ELSE "up"
    BY <1>7 DEF PurgeDrops
  <2>2. ASSUME server' # "aborted", pc["launcher"] # "start", NEW t \in Workers
        PROVE  pc[t] = "exit"
    <3>1. ~Joinable("timer") /\ pc["timer"] # "unstarted"
      BY <2>1, <2>2
    <3>2. pc["monitor"] \in {"close", "done"}
      BY <3>1 DEF Joinable
    <3> QED BY <3>2 DEF JoinInv
  <2> QED BY <2>1, <2>2
<1>8. ASSUME NEW t \in Killers, SendTerm(t) \/ SendKill(t) PROVE ObjectInv'
  BY <1>8 DEF SendTerm, SendKill, Kill, AfterTerminate, Killers
<1> QED
  BY <1>1, <1>2, <1>3, <1>4, <1>5, <1>6, <1>7, <1>8 DEF Step

LEMMA ObjectInvariance == Spec => []ObjectInv
<1>1. ObjectInv /\ UNCHANGED vars => ObjectInv'
  BY DEF ObjectInv, JobsMutexFree, vars
<1>2. Inv /\ ObjectInv /\ [Next]_vars => ObjectInv'
  BY <1>1, ObjectStep DEF Next, Over
<1> QED BY <1>2, ObjectInit, Invariance, PTL DEF Spec

(* A terminate, with its quarter of a second between two signals, and a copy  *)
(* of an output keep the Job in the table: no purge destroys it under them.   *)
TasksKeepJob == pc["terminate"] # "idle" \/ pc["getter"] # "idle" => obj = "table"

THEOREM TasksKeepTheirJob == Spec => []TasksKeepJob
<1>1. ObjectInv => TasksKeepJob
  BY DEF ObjectInv, TasksKeepJob, JobsMutexFree
<1> QED BY <1>1, ObjectInvariance, PTL

(* What the program would keep if a purge waited for the job's release and    *)
(* for the main thread to have answered.                                      *)
PurgeWaits == PurgeDrops => pc["monitor"] = "done" /\ pc["launcher"] = "done"

NobodyLeft ==
  obj = "destroyed" =>
    /\ pc["monitor"] = "done" /\ pc["launcher"] = "done" /\ JobsMutexFree
    /\ \A t \in Workers : pc[t] = "exit"

(* The missing wait is the whole cause of what the run job_purge finds: with   *)
(* it, no purge ends the server, and nobody is left to use a destroyed Job,   *)
(* whenever the purge, the signals and the end of the script come.            *)
THEOREM WaitingPurgeIsSafe ==
  Spec /\ [][PurgeWaits]_vars => [](PurgeKeepsServer /\ NobodyLeft)
<1> DEFINE Ended == obj = "destroyed" => pc["monitor"] = "done" /\ pc["launcher"] = "done"
<1>1. Init => PurgeKeepsServer /\ Ended
  BY DEF Init, PurgeKeepsServer
<1>2. Inv /\ PurgeKeepsServer /\ Ended /\ [Next]_vars /\ [PurgeWaits]_vars
        => PurgeKeepsServer' /\ Ended'
  <2> SUFFICES ASSUME Inv, PurgeKeepsServer, Ended, [Next]_vars, [PurgeWaits]_vars
               PROVE  PurgeKeepsServer' /\ Ended'
    OBVIOUS
  <2>1. CASE UNCHANGED vars
    BY <2>1 DEF vars, PurgeKeepsServer
  <2>2. CASE Step /\ PurgeWaits
    <3> USE <2>2 DEF Inv, PurgeKeepsServer, TypeOK, ThreadType, Threads, Workers, Tasks,
                    Streams, Go
    <3>1. CASE PurgeDrops
      BY <3>1 DEF PurgeDrops, PurgeWaits, Joinable
    <3>2. CASE Child
      BY <3>2 DEF Child, Write, ChildExits, ChildDies, ChildEnds, ChildIgnoresTerm,
                  DaemonExits, PidReused
    <3>3. CASE Launcher
      BY <3>3 DEF Launcher, StartMonitors, LauncherReplies, Touch, StartInv
    <3>4. ASSUME NEW s \in Streams, Reader(s) PROVE PurgeKeepsServer' /\ Ended'
      BY <3>4 DEF Reader, ReadChunk, ReadEnds, LimitHit
    <3>5. CASE Timer
      BY <3>5 DEF Timer, TimerWoken, TimerFires
    <3>6. CASE Monitor
      BY <3>6 DEF Monitor, WaitPid, Decide, JoinNext, CloseFds, Touch
    <3>7. CASE Clients /\ ~PurgeDrops
      BY <3>7 DEF Clients, Terminate, CopyBegins, CopyEnds, PurgeTakes
    <3>8. ASSUME NEW t \in Killers, SendTerm(t) \/ SendKill(t)
          PROVE  PurgeKeepsServer' /\ Ended'
      BY <3>8 DEF SendTerm, SendKill, Kill, AfterTerminate, Killers
    <3> QED
      BY <3>1, <3>2, <3>3, <3>4, <3>5, <3>6, <3>7, <3>8 DEF Step
  <2> QED BY <2>1, <2>2 DEF Next, Over
<1>3. Inv /\ ObjectInv /\ Ended => NobodyLeft
  BY DEF Inv, ObjectInv, JoinInv, NobodyLeft, Workers, Streams
<1> HIDE DEF Ended
<1> QED BY <1>1, <1>2, <1>3, Invariance, ObjectInvariance, PTL DEF Spec
-----------------------------------------------------------------------------
(* Why the runs job_overflow and job_signals find what they find.            *)

(* A reader that is over has raised the flag, or met the end of a stream     *)
(* within the limit.                                                         *)
FlagInv ==
  \A s \in Streams :
    /\ pc[s] \in {"term", "grace"} => output_limit_exceeded
    /\ pc[s] = "exit" => output_limit_exceeded \/ written[s] <= OutputLimit

LEMMA FlagStep == Inv /\ FlagInv /\ Step => FlagInv'
<1> SUFFICES ASSUME Inv, FlagInv, Step PROVE FlagInv'
  OBVIOUS
<1> USE DEF Inv, FlagInv, TypeOK, ThreadType, FlagType, Threads, Workers, Tasks, Streams,
            Go, kernelVars, pipeVars, flagVars
<1>1. ASSUME NEW s \in Streams, Write(s) PROVE FlagInv'
  <2>1. ASSUME NEW q \in Streams, pc[q] = "exit", ~output_limit_exceeded
        PROVE  q # s
    BY <1>1, <2>1, LimitAssumption DEF Write, ReaderInv, DataType, StartInv, MonitorInv
  <2> QED BY <1>1, <2>1 DEF Write, DataType
<1>2. CASE ChildExits \/ ChildDies
  BY <1>2 DEF ChildExits, ChildDies, ChildEnds
<1>3. CASE ChildIgnoresTerm \/ DaemonExits \/ PidReused
  BY <1>3 DEF ChildIgnoresTerm, DaemonExits, PidReused
<1>4. CASE Launcher
  BY <1>4 DEF Launcher, StartMonitors, LauncherReplies
<1>5. ASSUME NEW s \in Streams, ReadChunk(s) PROVE FlagInv'
  BY <1>5 DEF ReadChunk
<1>6. ASSUME NEW s \in Streams, ReadEnds(s) PROVE FlagInv'
  <2>1. written[s] <= OutputLimit
    BY <1>6, LimitAssumption DEF ReadEnds, EndOfFile, ReaderInv, DataType
  <2> QED BY <1>6, <2>1 DEF ReadEnds
<1>7. ASSUME NEW s \in Streams, LimitHit(s) PROVE FlagInv'
  BY <1>7 DEF LimitHit
<1>8. CASE Timer
  BY <1>8 DEF Timer, TimerWoken, TimerFires
<1>9. CASE Monitor
  BY <1>9 DEF Monitor, WaitPid, Decide, JoinNext, CloseFds
<1>10. CASE Clients
  BY <1>10 DEF Clients, Terminate, CopyBegins, CopyEnds, PurgeTakes, PurgeDrops
<1>11. ASSUME NEW t \in Killers, SendTerm(t) \/ SendKill(t) PROVE FlagInv'
  BY <1>11 DEF SendTerm, SendKill, Kill, AfterTerminate, Killers
<1> QED
  BY <1>1, <1>2, <1>3, <1>4, <1>5, <1>6, <1>7, <1>8, <1>9, <1>10, <1>11
     DEF Step, Child, Reader

LEMMA FlagInvariance == Spec => []FlagInv
<1>1. Init => FlagInv
  BY DEF Init, FlagInv, Threads, Workers, Tasks, Streams
<1>2. FlagInv /\ UNCHANGED vars => FlagInv'
  BY DEF FlagInv, vars, flagVars, pipeVars
<1>3. Inv /\ FlagInv /\ [Next]_vars => FlagInv'
  BY <1>2, FlagStep DEF Next, Over
<1> QED BY <1>1, <1>3, Invariance, PTL DEF Spec

(* A verdict that waits for the end of both readers.                         *)
LateVerdict == Decide => \A s \in Streams : pc[s] = "exit"

FinishedLate ==
  status = "FINISHED" => ~output_limit_exceeded /\ \A s \in Streams : pc[s] = "exit"

LEMMA LateStep ==
  Inv /\ FinishedLate /\ Step /\ LateVerdict => FinishedLate'
<1> SUFFICES ASSUME Inv, FinishedLate, Step, LateVerdict PROVE FinishedLate'
  OBVIOUS
<1> USE DEF Inv, FinishedLate, TypeOK, ThreadType, Threads, Workers, Tasks, Streams, Go,
            kernelVars, pipeVars, flagVars
<1>1. CASE Child
  BY <1>1 DEF Child, Write, ChildExits, ChildDies, ChildEnds, ChildIgnoresTerm,
              DaemonExits, PidReused
<1>2. CASE Launcher
  BY <1>2 DEF Launcher, StartMonitors, LauncherReplies, StartInv
<1>3. ASSUME NEW s \in Streams, Reader(s) PROVE FinishedLate'
  BY <1>3 DEF Reader, ReadChunk, ReadEnds, LimitHit
<1>4. CASE Timer
  BY <1>4 DEF Timer, TimerWoken, TimerFires
<1>5. CASE Decide
  BY <1>5 DEF Decide, Verdict, LateVerdict
<1>6. CASE Monitor /\ ~Decide
  BY <1>6 DEF Monitor, WaitPid, JoinNext, CloseFds
<1>7. CASE Clients
  BY <1>7 DEF Clients, Terminate, CopyBegins, CopyEnds, PurgeTakes, PurgeDrops
<1>8. ASSUME NEW t \in Killers, SendTerm(t) \/ SendKill(t) PROVE FinishedLate'
  BY <1>8 DEF SendTerm, SendKill, Kill, AfterTerminate, Killers
<1> QED
  BY <1>1, <1>2, <1>3, <1>4, <1>5, <1>6, <1>7, <1>8 DEF Step

(* The early verdict is the whole cause of what the run job_overflow finds:   *)
(* if the monitor decided after both readers have ended, a script that wrote *)
(* more than the limit would never be FINISHED.                              *)
THEOREM LateVerdictIsRight ==
  Spec /\ [][LateVerdict]_vars => []OverflowReported
<1>1. Init => FinishedLate
  BY DEF Init, FinishedLate
<1>2. Inv /\ FinishedLate /\ [Next]_vars /\ [LateVerdict]_vars => FinishedLate'
  <2>1. FinishedLate /\ UNCHANGED vars => FinishedLate'
    BY DEF FinishedLate, vars, flagVars
  <2> QED BY <2>1, LateStep DEF Next, Over
<1>3. FlagInv /\ FinishedLate => OverflowReported
  BY DEF FlagInv, FinishedLate, OverflowReported
<1> QED BY <1>1, <1>2, <1>3, Invariance, FlagInvariance, PTL DEF Spec

(* With SIGCHLD not ignored, the number stays the child's until the monitor's *)
(* waitpid has returned.                                                     *)
PidKept == pc["monitor"] \in {"unstarted", "waitpid"} => pid \in {"child", "zombie"}

LEMMA PidStep ==
  ASSUME ~SigchldIgnored, Inv, PidKept, Step PROVE PidKept'
<1> USE DEF Inv, PidKept, TypeOK, ThreadType, Threads, Workers, Tasks, Streams, Go,
            kernelVars
<1>1. ASSUME NEW s \in Streams, Write(s) PROVE PidKept'
  BY <1>1 DEF Write
<1>2. CASE ChildExits \/ ChildDies
  <2>1. PICK how \in ExitCodes \cup {NotRunnable, Signaled} : ChildEnds(how)
    BY <1>2 DEF ChildExits, ChildDies
  <2> QED
    BY <2>1 DEF ChildEnds
<1>3. CASE ChildIgnoresTerm \/ DaemonExits \/ PidReused
  BY <1>3 DEF ChildIgnoresTerm, DaemonExits, PidReused
<1>4. CASE Launcher
  BY <1>4 DEF Launcher, StartMonitors, LauncherReplies, StartInv
<1>5. ASSUME NEW s \in Streams, Reader(s) PROVE PidKept'
  BY <1>5 DEF Reader, ReadChunk, ReadEnds, LimitHit
<1>6. CASE Timer
  BY <1>6 DEF Timer, TimerWoken, TimerFires
<1>7. CASE Monitor
  BY <1>7 DEF Monitor, WaitPid, Decide, JoinNext, CloseFds
<1>8. CASE Clients
  BY <1>8 DEF Clients, Terminate, CopyBegins, CopyEnds, PurgeTakes, PurgeDrops
<1>9. ASSUME NEW t \in Killers, SendTerm(t) \/ SendKill(t) PROVE PidKept'
  BY <1>9 DEF SendTerm, SendKill, Kill, AfterTerminate, Killers
<1> QED
  BY <1>1, <1>2, <1>3, <1>4, <1>5, <1>6, <1>7, <1>8, <1>9 DEF Step, Child

THEOREM PidIsKept == ASSUME ~SigchldIgnored PROVE Spec => []PidKept
<1>1. Init => PidKept
  BY DEF Init, PidKept
<1>2. Inv /\ PidKept /\ [Next]_vars => PidKept'
  <2>1. PidKept /\ UNCHANGED vars => PidKept'
    BY DEF PidKept, vars, kernelVars
  <2> QED BY PidStep, <2>1 DEF Next, Over
<1> QED BY <1>1, <1>2, Invariance, PTL DEF Spec

(* A terminate that sends a signal only while the monitor still waits.       *)
Moves(t) == pc[t] \in {"term", "grace"} /\ pc'[t] # pc[t]
KnowsOfTheEnd ==
  (\E t \in Killers : Moves(t)) => pc["monitor"] \in {"unstarted", "waitpid"}

(* Not knowing of that end is the whole cause of what the run job_signals     *)
(* finds: signals sent only before it never reach a stranger.                *)
THEOREM SignalsThatKnow ==
  ASSUME ~SigchldIgnored
  PROVE  Spec /\ [][KnowsOfTheEnd]_vars => SignalsOwnChild
<1>1. PidKept /\ [KnowsOfTheEnd]_vars =>
        [\A t \in Killers : pc[t] \in {"term", "grace"} /\ pc'[t] # pc[t]
                              => pid # "stranger"]_vars
  BY DEF PidKept, KnowsOfTheEnd, Moves
<1> QED BY <1>1, PidIsKept, PTL DEF SignalsOwnChild
=============================================================================
