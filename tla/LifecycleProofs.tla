--------------------------- MODULE LifecycleProofs ---------------------------
(***************************************************************************)
(* Proofs about module Lifecycle, for any number of server processes.  All *)
(* rest on one fact, OnePort: two sockets never listen on the port at the  *)
(* same time, so that only one server at a time is between listen and      *)
(* close, where the pid file is written and a server answers.              *)
(***************************************************************************)
EXTENDS Lifecycle, TLAPS

OnePort == \A p, q \in Procs : port[p] # {} /\ port[q] # {} => p = q

ChildHolds == \A p \in Procs : "child" \in port[p] => child[p] = "forked"

(* The server that is about to write its pid has the pid file open, unless    *)
(* someone has unlinked it.                                                   *)
Writing == \A p \in Procs : pc[p] = "write" => pid_file = Null \/ pid_file.ino = fd[p]

PortInv == TypeOK /\ OnePort /\ ChildHolds
IInv == PortInv /\ Writing /\ PidFileNotOther /\ NoStalePid
-----------------------------------------------------------------------------
LEMMA InitInv == Init => IInv
BY LifecycleAssumption
   DEF Init, IInv, PortInv, TypeOK, OnePort, ChildHolds, Writing, PidFileNotOther,
       NoStalePid, Names, Places, Over, Listening, PidFiles

(* The end of a process, in any of its ways.                                  *)
LEMMA EndsPort ==
  ASSUME PortInv, NEW p \in Procs, NEW how \in Over, Ends(p, how),
         UNCHANGED <<lingering, fileVars>>
  PROVE  PortInv'
BY DEF PortInv, TypeOK, OnePort, ChildHolds, Ends, Places, Over, Listening, fileVars

LEMMA StartUpPort ==
  ASSUME PortInv, NEW p \in Procs,
         Start(p) \/ StartFails(p) \/ StartUp(p)
  PROVE  PortInv'
<1>1. CASE Start(p)
  BY <1>1 DEF Start, Go, PortInv, TypeOK, OnePort, ChildHolds, Places, Over, Listening,
              fileVars, jobVars
<1>2. CASE StartFails(p)
  BY <1>2, EndsPort DEF StartFails, Over
<1>3. CASE Bind(p)
  <2>1. CASE Busy
    BY <1>3, <2>1, EndsPort DEF Bind, Over
  <2>2. CASE ~Busy
    BY <1>3, <2>2 DEF Bind, PortInv, TypeOK, OnePort, ChildHolds, Places, Over, Listening,
                     fileVars, jobVars
  <2> QED BY <2>1, <2>2
<1>4. CASE Listen(p)
  <2>1. CASE ~Listens
    BY <1>4, <2>1, EndsPort DEF Listen, Over
  <2>2. CASE Listens
    BY <1>4, <2>2 DEF Listen, Listens, Taken, PortInv, TypeOK, OnePort, ChildHolds, Places,
                     Over, Listening, fileVars, jobVars
  <2> QED BY <2>1, <2>2
<1>5. CASE OpenPidFile(p)
  BY <1>5 DEF OpenPidFile, Go, PortInv, TypeOK, OnePort, ChildHolds, Places, Over,
              Listening, PidFiles, fileVars, jobVars
<1>6. CASE WritePidFile(p)
  BY <1>6 DEF WritePidFile, Go, PortInv, TypeOK, OnePort, ChildHolds, Places, Over,
              Listening, PidFiles, fileVars, jobVars
<1>7. CASE AddHandler(p)
  BY <1>7 DEF AddHandler, Go, PortInv, TypeOK, OnePort, ChildHolds, Places, Over,
              Listening, fileVars, jobVars
<1> QED BY <1>1, <1>2, <1>3, <1>4, <1>5, <1>6, <1>7 DEF StartUp

LEMMA ServePort ==
  ASSUME PortInv, NEW p \in Procs, Serve(p)
  PROVE  PortInv'
<1> USE DEF PortInv, TypeOK, OnePort, ChildHolds, Places, Over, Listening, fileVars, jobVars
<1>1. CASE Reply(p) BY <1>1 DEF Reply
<1>2. CASE Fork(p) BY <1>2 DEF Fork, Go
<1>3. CASE StartMonitors(p) BY <1>3 DEF StartMonitors, Go
<1>4. CASE Exec(p) BY <1>4 DEF Exec, KeptByExec
<1>5. CASE ChildEnds(p) BY <1>5 DEF ChildEnds
<1>6. CASE Joined(p) BY <1>6 DEF Joined
<1> QED BY <1>1, <1>2, <1>3, <1>4, <1>5, <1>6 DEF Serve

LEMMA ShutdownPort ==
  ASSUME PortInv, NEW p \in Procs, Sigint(p) \/ Shutdown(p) \/ Dies(p)
  PROVE  PortInv'
<1>1. CASE Sigint(p)
  BY <1>1 DEF Sigint, PortInv, TypeOK, OnePort, ChildHolds, Places, Over, Listening,
              fileVars, jobVars
<1>2. CASE CloseSocket(p)
  BY <1>2 DEF CloseSocket, Closed, Go, PortInv, TypeOK, OnePort, ChildHolds, Places, Over,
              Listening, fileVars, jobVars
<1>3. CASE UnlinkPidFile(p)
  BY <1>3 DEF UnlinkPidFile, Unlink, Go, PortInv, TypeOK, OnePort, ChildHolds, Places, Over,
              Listening, jobVars
<1>4. CASE Exit(p)
  BY <1>4, EndsPort DEF Exit, Over
<1>5. CASE Dies(p)
  BY <1>5, EndsPort DEF Dies, Over
<1> QED BY <1>1, <1>2, <1>3, <1>4, <1>5 DEF Shutdown

LEMMA NextPort == PortInv /\ [Next]_vars => PortInv'
<1> SUFFICES ASSUME PortInv, [Next]_vars PROVE PortInv'
  OBVIOUS
<1>1. CASE TimeWaitEnds
  BY <1>1 DEF TimeWaitEnds, PortInv, TypeOK, OnePort, ChildHolds, fileVars, jobVars, Listening
<1>2. CASE UNCHANGED vars
  BY <1>2 DEF vars, PortInv, TypeOK, OnePort, ChildHolds, fileVars, jobVars, Listening
<1> QED
  BY <1>1, <1>2, StartUpPort, ServePort, ShutdownPort DEF Next, AllEnded
-----------------------------------------------------------------------------
(* The pid file.  A step that leaves it alone moves no server into the places *)
(* where it matters, but for AddHandler, Sigint and the steps of a launch,    *)
(* which move one within them.                                                *)
FileInv == Writing /\ PidFileNotOther /\ NoStalePid

Inside == {"handler", "serve", "launch", "close"}

LEMMA FileKept ==
  ASSUME FileInv, UNCHANGED fileVars,
         \A p \in Procs : \/ pc'[p] = pc[p] \/ pc'[p] \in {"dead", "refused", "bind", "listen", "open", "unlink"}
                          \/ pc[p] \in Inside /\ pc'[p] \in Inside
                          \/ pc[p] = "exit" /\ pc'[p] = "exited"
  PROVE  FileInv'
BY DEF FileInv, Writing, PidFileNotOther, NoStalePid, Names, Inside, fileVars

LEMMA EndsFile ==
  ASSUME PortInv, FileInv, NEW p \in Procs, NEW how \in Over,
         Ends(p, how), how = "exited" => pc[p] = "exit", UNCHANGED fileVars
  PROVE  FileInv'
BY FileKept DEF Ends, Over, PortInv, TypeOK

LEMMA NextFile == PortInv /\ FileInv /\ [Next]_vars => FileInv'
<1> SUFFICES ASSUME PortInv, FileInv, [Next]_vars PROVE FileInv'
  OBVIOUS
<1>a. pc \in [Procs -> Places] /\ pid_file \in PidFiles \cup {Null}
      /\ fd \in [Procs -> Procs \cup {Null}]
  BY DEF PortInv, TypeOK
<1>b. ASSUME NEW p \in Procs, NEW q \in Procs, pc[p] \in Listening, pc[q] \in Listening
      PROVE  p = q
  BY <1>b DEF PortInv, TypeOK, OnePort
<1>1. CASE UNCHANGED vars \/ TimeWaitEnds
  BY <1>1, FileKept DEF vars, TimeWaitEnds, fileVars
<1>2. ASSUME NEW p \in Procs, Start(p) \/ AddHandler(p) \/ Sigint(p) \/ CloseSocket(p)
      PROVE  FileInv'
  BY <1>2, <1>a, FileKept DEF Start, AddHandler, Sigint, CloseSocket, Go, Inside, fileVars
<1>3. ASSUME NEW p \in Procs, Serve(p)
      PROVE  FileInv'
  BY <1>3, <1>a, FileKept DEF Serve, Reply, Fork, StartMonitors, Exec, ChildEnds, Joined, Go,
                              Inside, fileVars
<1>4. ASSUME NEW p \in Procs, StartFails(p) \/ Dies(p) \/ Exit(p)
      PROVE  FileInv'
  BY <1>4, EndsFile DEF StartFails, Dies, Exit, Over
<1>5. ASSUME NEW p \in Procs, Bind(p) \/ Listen(p)
      PROVE  FileInv'
  <2>1. CASE Ends(p, "refused") /\ UNCHANGED fileVars
    BY <2>1, EndsFile DEF Over
  <2>2. CASE pc' = [pc EXCEPT ![p] = "listen"] /\ UNCHANGED fileVars
    BY <2>2, <1>a, FileKept
  <2>3. CASE pc' = [pc EXCEPT ![p] = "open"] /\ UNCHANGED fileVars
    BY <2>3, <1>a, FileKept
  <2> QED BY <1>5, <2>1, <2>2, <2>3 DEF Bind, Listen
<1>6. ASSUME NEW p \in Procs, OpenPidFile(p)
      PROVE  FileInv'
  <2>1. /\ pid_file'.ino = fd'[p] /\ pid_file'.names = Null
        /\ pc[p] = "open" /\ pc' = [pc EXCEPT ![p] = "write"]
    BY <1>6, <1>a DEF OpenPidFile, Go
  <2>2. Writing'
    BY <2>1, <1>a, <1>b DEF Writing, Listening
  <2>3. PidFileNotOther'
    BY <2>1, <1>a, <1>b DEF PidFileNotOther, Listening
  <2>4. NoStalePid'
    BY <2>1, LifecycleAssumption DEF NoStalePid, Names
  <2> QED BY <2>2, <2>3, <2>4 DEF FileInv
<1>7. ASSUME NEW p \in Procs, WritePidFile(p)
      PROVE  FileInv'
  <2>1. /\ pc[p] = "write" /\ pc' = [pc EXCEPT ![p] = "handler"] /\ fd' = fd
        /\ \/ pid_file = Null /\ pid_file' = Null
           \/ pid_file # Null /\ pid_file' = [pid_file EXCEPT !.names = p]
    BY <1>7, <1>a DEF WritePidFile, Go, FileInv, Writing
  <2>2. pid_file' = Null \/ pid_file'.names = p
    BY <2>1, <1>a DEF PidFiles
  <2>3. Writing'
    BY <2>1, <1>a, <1>b DEF Writing, Listening
  <2>4. PidFileNotOther'
    <3>1. ASSUME NEW q \in Procs, pc'[q] \in {"handler", "serve", "launch", "close"}
          PROVE  q = p
      BY <3>1, <2>1, <1>a, <1>b DEF Listening
    <3> QED BY <3>1, <2>2 DEF PidFileNotOther, Names
  <2>5. NoStalePid'
    <3>1. ASSUME NEW q \in Procs, pc'[q] \in {"exit", "exited"}
          PROVE  q # p
      BY <3>1, <2>1, <1>a
    <3> QED BY <3>1, <2>2 DEF NoStalePid, Names
  <2> QED BY <2>3, <2>4, <2>5 DEF FileInv
<1>8. ASSUME NEW p \in Procs, UnlinkPidFile(p)
      PROVE  FileInv'
  BY <1>8 DEF UnlinkPidFile, Unlink, FileInv, Writing, PidFileNotOther, NoStalePid, Names
<1> QED
  BY <1>1, <1>2, <1>3, <1>4, <1>5, <1>6, <1>7, <1>8 DEF Next, StartUp, Shutdown, AllEnded
-----------------------------------------------------------------------------
LEMMA Invariance == Spec => []IInv
<1>1. IInv /\ [Next]_vars => IInv'
  BY NextPort, NextFile DEF IInv, FileInv
<1> QED BY InitInv, <1>1, PTL DEF Spec

(* Every variable keeps its type, and a server listens exactly from listen to *)
(* the close of its handler.                                                  *)
THEOREM TypeCorrect == Spec => []TypeOK
<1>1. IInv => TypeOK BY DEF IInv, PortInv
<1> QED BY <1>1, Invariance, PTL

(* However many servers are started, killed and shut down, the pid file never *)
(* names another one than the server that is serving.                         *)
THEOREM PidFileSafe == Spec => []PidFileNotOther
<1>1. IInv => PidFileNotOther BY DEF IInv
<1> QED BY <1>1, Invariance, PTL

(* A server that has unlinked its pid file is never named by it again.        *)
THEOREM NoStalePidSafe == Spec => []NoStalePid
<1>1. IInv => NoStalePid BY DEF IInv
<1> QED BY <1>1, Invariance, PTL

(* A start is refused the port only by a listening server or by a child       *)
(* between its fork and its exec.                                             *)
THEOREM RefusalsJustified == Spec => RefusedByHolder
<1>1. ASSUME IInv, [Next]_vars, NEW p \in Procs, pc[p] # "refused", pc'[p] = "refused"
      PROVE  \E q \in Procs : pc[q] \in Listening \/ child[q] = "forked"
  <2>1. PICK r \in Procs : Bind(r) \/ Listen(r)
    BY <1>1 DEF Next, Start, StartFails, StartUp, Serve, Sigint, Shutdown, Dies, TimeWaitEnds,
                AllEnded, OpenPidFile, WritePidFile, AddHandler, Reply, Fork, StartMonitors,
                Exec, ChildEnds, Joined, CloseSocket, UnlinkPidFile, Exit, Ends, Go, vars,
                IInv, PortInv, TypeOK
  <2>2. Taken
    BY <1>1, <2>1 DEF Bind, Listen, Busy, Listens, IInv, PortInv, TypeOK
  <2> QED BY <1>1, <2>2 DEF Taken, IInv, PortInv, TypeOK, ChildHolds
<1>2. IInv /\ [Next]_vars =>
        [\A p \in Procs : pc[p] # "refused" /\ pc'[p] = "refused" =>
           \E q \in Procs : pc[q] \in Listening \/ child[q] = "forked"]_vars
  BY <1>1
<1> QED BY <1>2, Invariance, PTL DEF Spec, RefusedByHolder

(* A server that serves loses its name only to another that unlinks the pid   *)
(* file on its way out: no start, no crash and no reply takes it away.        *)
THEOREM NameLossExplained == Spec => NameLostToUnlink
<1>1. ASSUME IInv, [Next]_vars, NEW p \in Procs, pc[p] \in {"handler", "serve", "launch"},
             Names(p), ~Names(p)'
      PROVE  \E q \in Procs \ {p} : pc[q] = "unlink"
  <2>1. PICK r \in Procs : OpenPidFile(r) \/ WritePidFile(r) \/ UnlinkPidFile(r)
    BY <1>1 DEF Next, Start, StartFails, StartUp, Serve, Sigint, Shutdown, Dies, TimeWaitEnds,
                AllEnded, Bind, Listen, AddHandler, Reply, Fork, StartMonitors, Exec,
                ChildEnds, Joined, CloseSocket, Exit, Names, fileVars, vars
  <2>2. \A q \in Procs : pc[q] \in {"open", "write"} => q = p
    BY <1>1 DEF IInv, PortInv, TypeOK, OnePort, Listening
  <2>3. ~OpenPidFile(r) /\ ~WritePidFile(r)
    BY <1>1, <2>2 DEF OpenPidFile, WritePidFile, Go
  <2>4. pc[r] = "unlink"
    BY <2>1, <2>3 DEF UnlinkPidFile, Go
  <2> QED BY <1>1, <2>4
<1>2. IInv /\ [Next]_vars =>
        [\A p \in Procs :
           pc[p] \in {"handler", "serve", "launch"} /\ Names(p) /\ ~Names(p)' =>
             \E q \in Procs \ {p} : pc[q] = "unlink"]_vars
  BY <1>1
<1> QED BY <1>2, Invariance, PTL DEF Spec, NameLostToUnlink
-----------------------------------------------------------------------------
(* Why a server that serves may have no pid file that names it.               *)

AtFile == {"write", "handler", "serve", "launch"}

(* The unlink of a server that ends finds none that has opened the file since *)
(* the socket was closed.                                                     *)
UnlinksAlone ==
  \A q \in Procs : UnlinkPidFile(q) => \A p \in Procs \ {q} : pc[p] \notin AtFile

(* That close and unlink are two steps, in this order, is the whole cause: if *)
(* no server had opened the file in between, kill -INT `cat psirver.pid`      *)
(* would end the one that serves, as utils.cc:52 has it, after any crashes.   *)
THEOREM UnlinkAloneKeepsNames ==
  Spec /\ [][UnlinksAlone]_vars =>
    [](\A p \in Procs : pc[p] \in {"handler", "serve", "launch"} => Names(p))
<1> DEFINE Kept == \A p \in Procs : pc[p] \in AtFile => pid_file # Null
           Named == \A p \in Procs : pc[p] \in {"handler", "serve", "launch"} => Names(p)
<1>1. Init => Kept
  BY DEF Init, AtFile
<1>2. IInv /\ Kept /\ [Next]_vars /\ [UnlinksAlone]_vars => Kept'
  <2> SUFFICES ASSUME IInv, Kept, [Next]_vars, [UnlinksAlone]_vars PROVE Kept'
    OBVIOUS
  <2>a. pc \in [Procs -> Places] /\ pid_file \in PidFiles \cup {Null}
    BY DEF IInv, PortInv, TypeOK
  <2>1. ASSUME NEW q \in Procs, OpenPidFile(q) PROVE Kept'
    <3>1. pid_file'.ino \in Procs /\ pid_file' \in PidFiles
      BY <2>1, <2>a, LifecycleAssumption DEF OpenPidFile, PidFiles
    <3> QED BY <3>1, LifecycleAssumption DEF Kept
  <2>2. ASSUME NEW q \in Procs, WritePidFile(q) PROVE Kept'
    <3>1. pid_file # Null
      BY <2>2 DEF WritePidFile, Go, AtFile
    <3>2. pid_file' \in PidFiles
      BY <2>2, <2>a, <3>1 DEF WritePidFile, PidFiles
    <3> QED BY <3>2, LifecycleAssumption DEF Kept
  <2>3. ASSUME NEW q \in Procs, UnlinkPidFile(q) PROVE Kept'
    <3>1. pc' = [pc EXCEPT ![q] = "exit"] /\ pc' # pc
      BY <2>3, <2>a DEF UnlinkPidFile, Go
    <3>2. \A p \in Procs \ {q} : pc[p] \notin AtFile
      BY <2>3, <3>1 DEF UnlinksAlone, vars
    <3> QED BY <3>1, <3>2, <2>a DEF AtFile
  <2>4. CASE /\ UNCHANGED pid_file
             /\ \A p \in Procs : pc'[p] \in AtFile => pc[p] \in AtFile
    BY <2>4
  <2>5. ASSUME NEW q \in Procs,
               Start(q) \/ StartFails(q) \/ Bind(q) \/ Listen(q) \/ AddHandler(q)
                 \/ Sigint(q) \/ CloseSocket(q) \/ Exit(q) \/ Dies(q)
        PROVE  Kept'
    BY <2>5, <2>4, <2>a
       DEF Start, StartFails, Bind, Listen, AddHandler, Sigint, CloseSocket, Exit, Dies,
           Ends, Go, AtFile, Over, fileVars
  <2>6. ASSUME NEW q \in Procs, Serve(q) PROVE Kept'
    BY <2>6, <2>4, <2>a
       DEF Serve, Reply, Fork, StartMonitors, Exec, ChildEnds, Joined, Go, AtFile, fileVars
  <2>7. CASE TimeWaitEnds \/ UNCHANGED vars
    BY <2>7, <2>4 DEF TimeWaitEnds, vars, fileVars
  <2> QED
    BY <2>1, <2>2, <2>3, <2>5, <2>6, <2>7 DEF Next, StartUp, Shutdown, AllEnded
<1>3. IInv /\ Kept => Named
  BY DEF IInv, PidFileNotOther, AtFile
<1> HIDE DEF Kept, Named
<1>4. Spec /\ [][UnlinksAlone]_vars => []Named
  BY <1>1, <1>2, <1>3, Invariance, PTL DEF Spec
<1> QED BY <1>4 DEF Named
=============================================================================
