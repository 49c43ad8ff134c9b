------------------------------ MODULE Lifecycle ------------------------------
(***************************************************************************)
(* How a server starts and ends: main of psirver.cc up to its loop, the    *)
(* listening socket, the pid file, the SIGINT handler and exit.  Several   *)
(* servers are started on one host with the same port and the same         *)
(* PSIRVER_HOME, at any time and in any order, and each may be killed at   *)
(* any point (a signal, std::terminate, the SIGPIPE of reply).  A server   *)
(* runs one job at a time here, whose child inherits the socket until it   *)
(* executes python3 and outlives the server.                               *)
(***************************************************************************)
EXTENDS Naturals

CONSTANTS
  Procs,        \* the server processes that are ever started
  Null          \* no file, no process

PidFiles == [ino : Procs, names : Procs \cup {Null}]

ASSUME LifecycleAssumption == Null \notin Procs \cup PidFiles

VARIABLES
  pc,           \* where each server is in main, or how it has ended: "refused"
                \* the port, "exited" from the handler, or "dead"
  port,         \* for each server, who has its listening socket open: the
                \* "server" itself, the "child" it has forked
  lingering,    \* connections in TIME_WAIT remain on the port
  pid_file,     \* Null, or the inode (the server that created the file) and the
                \* server that its content names, Null when it is empty
  fd,           \* the inode each server has open in init_pid_file
  child,        \* of each server: "none", "forked", or "running" python3
  joinable      \* of each server: does its Job table hold a joinable thread?

fileVars == <<pid_file, fd>>
jobVars  == <<child, joinable>>
vars == <<pc, port, lingering, fileVars, jobVars>>

Init ==
  /\ pc = [p \in Procs |-> "off"] /\ port = [p \in Procs |-> {}]
  /\ lingering = FALSE
  /\ pid_file = Null /\ fd = [p \in Procs |-> Null]
  /\ child = [p \in Procs |-> "none"] /\ joinable = [p \in Procs |-> FALSE]

Over == {"refused", "exited", "dead"}

Go(p, from, to) == pc[p] = from /\ pc' = [pc EXCEPT ![p] = to]

(* The end of a process closes its descriptors and ends its threads.          *)
Ends(p, how) ==
  /\ pc' = [pc EXCEPT ![p] = how]
  /\ port' = [port EXCEPT ![p] = @ \ {"server"}]
  /\ joinable' = [joinable EXCEPT ![p] = FALSE]
  /\ UNCHANGED child
-----------------------------------------------------------------------------
(* select_port and init_socket.                                               *)

Start(p) ==
  /\ Go(p, "off", "bind")
  /\ UNCHANGED <<port, lingering, fileVars, jobVars>>

(* A usage error, no socket, no PSIRVER_HOME, no pid file, a failed write.    *)
Refusable == {"off", "bind", "open", "write"}
StartFails(p) ==
  /\ pc[p] \in Refusable /\ Ends(p, "dead")
  /\ UNCHANGED <<lingering, fileVars>>

Taken == \E q \in Procs : port[q] # {}

(* SO_REUSEADDR: only a socket that listens is in the way.                    *)
BusyMut == Taken \/ lingering              \* no SO_REUSEADDR
Busy == Taken

Bind(p) ==
  /\ pc[p] = "bind"
  /\ IF Busy THEN Ends(p, "refused")
             ELSE pc' = [pc EXCEPT ![p] = "listen"] /\ UNCHANGED <<port, jobVars>>
  /\ UNCHANGED <<lingering, fileVars>>

(* Two servers may be bound, but only one of them can listen.                 *)
ListensMut == TRUE                         \* SO_REUSEPORT
Listens == ~Taken

Listen(p) ==
  /\ pc[p] = "listen"
  /\ IF Listens
     THEN /\ pc' = [pc EXCEPT ![p] = "open"]
          /\ port' = [port EXCEPT ![p] = {"server"}] /\ UNCHANGED jobVars
     ELSE Ends(p, "refused")
  /\ UNCHANGED <<lingering, fileVars>>
-----------------------------------------------------------------------------
(* init_pid_file and add_sigint_handler.                                      *)

OpenPidFile(p) ==
  /\ Go(p, "open", "write")
  /\ pid_file' = [ino |-> IF pid_file = Null THEN p ELSE pid_file.ino, names |-> Null]
  /\ fd' = [fd EXCEPT ![p] = pid_file'.ino]
  /\ UNCHANGED <<port, lingering, jobVars>>

(* The file may have been unlinked since: what is written is lost with it.    *)
WritePidFile(p) ==
  /\ Go(p, "write", "handler")
  /\ pid_file' = IF pid_file # Null /\ pid_file.ino = fd[p]
                 THEN [pid_file EXCEPT !.names = p] ELSE pid_file
  /\ UNCHANGED <<port, lingering, fd, jobVars>>

AddHandler(p) ==
  /\ Go(p, "handler", "serve")
  /\ UNCHANGED <<port, lingering, fileVars, jobVars>>
-----------------------------------------------------------------------------
(* The main loop, as far as it matters here: an answer, and a job.            *)

Reply(p) ==
  /\ pc[p] = "serve" /\ lingering' = TRUE
  /\ UNCHANGED <<pc, port, fileVars, jobVars>>

TimeWaitEnds ==
  /\ lingering /\ lingering' = FALSE
  /\ UNCHANGED <<pc, port, fileVars, jobVars>>

Fork(p) ==
  /\ child[p] = "none" /\ ~joinable[p] /\ Go(p, "serve", "launch")
  /\ child' = [child EXCEPT ![p] = "forked"]
  /\ port' = [port EXCEPT ![p] = @ \cup {"child"}]
  /\ UNCHANGED <<lingering, fileVars, joinable>>

StartMonitors(p) ==
  /\ Go(p, "launch", "serve")
  /\ joinable' = [joinable EXCEPT ![p] = TRUE]
  /\ UNCHANGED <<port, lingering, fileVars, child>>

(* FD_CLOEXEC on the listening socket.                                        *)
KeptByExecMut(p) == port[p]                \* no FD_CLOEXEC
KeptByExec(p) == port[p] \ {"child"}

Exec(p) ==
  /\ child[p] = "forked"
  /\ child' = [child EXCEPT ![p] = "running"]
  /\ port' = [port EXCEPT ![p] = KeptByExec(p)]
  /\ UNCHANGED <<pc, lingering, fileVars, joinable>>

(* python3 could not be executed, or the script has ended: no server can make *)
(* it end any more once its own has gone.                                     *)
ChildEnds(p) ==
  /\ child[p] # "none"
  /\ child' = [child EXCEPT ![p] = "none"]
  /\ port' = [port EXCEPT ![p] = @ \ {"child"}]
  /\ UNCHANGED <<pc, lingering, fileVars, joinable>>

Joined(p) ==
  /\ joinable[p] /\ child[p] = "none"
  /\ joinable' = [joinable EXCEPT ![p] = FALSE]
  /\ UNCHANGED <<pc, port, lingering, fileVars, child>>
-----------------------------------------------------------------------------
(* graceful_shutdown, between any two instructions of the main thread once    *)
(* the handler is registered.  Script::terminate_all is ScriptStore's.        *)

Sigint(p) ==
  /\ pc[p] \in {"serve", "launch"} /\ pc' = [pc EXCEPT ![p] = "close"]
  /\ UNCHANGED <<port, lingering, fileVars, jobVars>>

ClosedMut(p) == port[p]
Closed(p) == port[p] \ {"server"}

CloseSocket(p) ==
  /\ Go(p, "close", "unlink")
  /\ port' = [port EXCEPT ![p] = Closed(p)]
  /\ UNCHANGED <<lingering, fileVars, jobVars>>

(* By its name: whatever file has it by now.                                  *)
UnlinkMut(f) == f                          \* the path is no longer the right one
Unlink(f) == Null

UnlinkPidFile(p) ==
  /\ Go(p, "unlink", "exit")
  /\ pid_file' = Unlink(pid_file)
  /\ UNCHANGED <<port, lingering, fd, jobVars>>

(* exit destroys Job::jobs, and with a joinable thread in it calls            *)
(* std::terminate.                                                            *)
Exit(p) ==
  /\ pc[p] = "exit" /\ Ends(p, IF joinable[p] THEN "dead" ELSE "exited")
  /\ UNCHANGED <<lingering, fileVars>>

Dies(p) ==
  /\ pc[p] \notin {"off"} \cup Over /\ Ends(p, "dead")
  /\ UNCHANGED <<lingering, fileVars>>
-----------------------------------------------------------------------------
StartUp(p)  == Bind(p) \/ Listen(p) \/ OpenPidFile(p)
                 \/ WritePidFile(p) \/ AddHandler(p)
Serve(p)    == Reply(p) \/ Fork(p) \/ StartMonitors(p) \/ Exec(p) \/ ChildEnds(p)
                 \/ Joined(p)
Shutdown(p) == CloseSocket(p) \/ UnlinkPidFile(p) \/ Exit(p)

AllEnded == (\A p \in Procs : pc[p] \in Over) /\ UNCHANGED vars

Next ==
  \/ \E p \in Procs : \/ Start(p) \/ StartFails(p) \/ StartUp(p) \/ Serve(p)
                      \/ Sigint(p) \/ Shutdown(p) \/ Dies(p)
  \/ TimeWaitEnds
  \/ AllEnded

(* A process that is runnable runs; nothing makes a script end.               *)
Fairness ==
  \A p \in Procs : /\ WF_vars(StartUp(p)) /\ WF_vars(StartMonitors(p))
                   /\ WF_vars(Shutdown(p)) /\ WF_vars(Exec(p))

Spec     == Init /\ [][Next]_vars
FairSpec == Spec /\ Fairness
-----------------------------------------------------------------------------
(* Properties.                                                                *)

Places == {"off", "bind", "listen", "open", "write", "handler", "serve",
           "launch", "close", "unlink", "exit"} \cup Over

(* Types; and a server listens from listen to close, and only then.           *)
Listening == {"open", "write", "handler", "serve", "launch", "close"}
TypeOK ==
  /\ pc \in [Procs -> Places]
  /\ port \in [Procs -> SUBSET {"server", "child"}]
  /\ \A p \in Procs : "server" \in port[p] <=> pc[p] \in Listening
  /\ lingering \in BOOLEAN
  /\ pid_file \in PidFiles \cup {Null} /\ fd \in [Procs -> Procs \cup {Null}]
  /\ child \in [Procs -> {"none", "forked", "running"}]
  /\ joinable \in [Procs -> BOOLEAN]

Names(p) == pid_file # Null /\ pid_file.names = p

(* kill -INT `cat psirver.pid` never reaches another server, or nobody, while *)
(* one is serving: the pid file names it or is not there, whatever servers    *)
(* that crashed, failed to start or are still shutting down do to the file.   *)
PidFileNotOther ==
  \A p \in Procs : pc[p] \in {"handler", "serve", "launch", "close"} =>
                     pid_file = Null \/ Names(p)

(* A server that has unlinked its pid file is never named by it again.        *)
NoStalePid == \A p \in Procs : pc[p] \in {"exit", "exited"} => ~Names(p)

(* utils.cc:52 has kill -INT `cat psirver.pid` end the server.  A server that *)
(* serves loses its name to nothing but the unlink of another, which has      *)
(* closed its socket and not yet removed the file when this one starts.       *)
NameLostToUnlink ==
  [][\A p \in Procs :
       pc[p] \in {"handler", "serve", "launch"} /\ Names(p) /\ ~Names(p)' =>
         \E q \in Procs \ {p} : pc[q] = "unlink"]_vars

(* A start is refused the port only while another server listens, or a child  *)
(* that a server has forked has not yet executed its script: not because of   *)
(* connections that linger, nor of jobs that outlive their server.            *)
RefusedByHolder ==
  [][\A p \in Procs :
       pc[p] # "refused" /\ pc'[p] = "refused" =>
         \E q \in Procs : pc[q] \in Listening \/ child[q] = "forked"]_vars

(* When a server has ended, or has begun to, its port is free at last, with   *)
(* its jobs still running.                                                    *)
PortReleased ==
  \A p \in Procs : pc[p] \in {"close"} \cup Over ~> port[p] = {}
=============================================================================
