-------------------------------- MODULE Server --------------------------------
(***************************************************************************)
(* The main loop of psirver.cc and the descriptors it shares with the task *)
(* threads: a connection is accepted under the lowest free number, its     *)
(* request is read by the main thread, and its Task answers and closes the *)
(* number, then closes it once more in ~Task.  The number may have been    *)
(* given to something else by then.  What a request says is a choice: it   *)
(* is malformed, or becomes an ordinary task, an upload or a run.  The     *)
(* tables behind the tasks are module Registry's.                          *)
(***************************************************************************)
EXTENDS Integers, FiniteSets

CONSTANTS
  Conns,        \* the connections clients make
  MaxFd,        \* descriptors 1..MaxFd are left for them (RLIMIT_NOFILE)
  MaxJobs,      \* Job::MAX_JOBS
  MaxBody,      \* bound: the largest body, in units
  Wrap,         \* 2^64: the modulus of size_t
  Honest,       \* do clients send just the body that they announce?
  Null

ASSUME ServerAssumption ==
  /\ MaxFd \in Nat /\ MaxJobs \in Nat /\ MaxBody \in Nat /\ Honest \in BOOLEAN
  /\ Wrap \in Nat /\ Wrap > MaxBody
  /\ Null \notin Conns

VARIABLES
  file,         \* what each descriptor refers to
  mpc, current, \* where the main thread is, and the connection it serves
  remaining,    \* of the body, in read_body
  unread,       \* what the client is still going to send of the body
  pc,           \* where each connection is
  fd,           \* Task::client: its descriptor, 0 before it has one
  own,          \* the descriptor of an upload's file or a job's pipe, or 0
  job,          \* of a run: its child runs, has left a process, or all is over
  held,         \* the connections the child, or what it left, has inherited
  sent          \* <<c, f>>: the answer for c was written to file f

mainVars == <<mpc, current, remaining, unread>>
jobVars  == <<own, job, held>>
vars == <<file, mainVars, pc, fd, jobVars, sent>>

Fds == 1..MaxFd
Free       == <<"free", Null>>
Conn(c)    == <<"conn", c>>                \* the socket of a connection
Private(c) == <<"own", c>>                 \* the file or pipe a task opened
Files == {Free} \cup {Conn(c) : c \in Conns} \cup {Private(c) : c \in Conns}

Lowest(f) == file[f] = Free /\ \A g \in 1..(f - 1) : file[g] # Free

Init ==
  /\ file = [f \in Fds |-> Free]
  /\ mpc = "accept" /\ current = Null /\ remaining = 0 /\ unread = 0
  /\ pc = [c \in Conns |-> "idle"] /\ fd = [c \in Conns |-> 0]
  /\ own = fd /\ sent = {}
  /\ job = [c \in Conns |-> "none"] /\ held = [c \in Conns |-> {}]

Go(c, from, to) == pc[c] = from /\ pc' = [pc EXCEPT ![c] = to]
Open(f, what)   == file' = [file EXCEPT ![f] = what]
Close(f)        == file' = [file EXCEPT ![f] = Free]
-----------------------------------------------------------------------------
(* reply: the answer goes to whatever the number refers to by now.           *)

ReplyOnce(c) == sent' = sent \cup {<<c, file[fd[c]]>>}
RejectMut(c) == sent' = sent \cup {<<c, file[fd[c]]>>} /\ file' = file
Reject(c) == ReplyOnce(c) /\ Close(fd[c])
-----------------------------------------------------------------------------
(* A client connects; accept fails as long as there is no descriptor left,   *)
(* and the main loop tries again.                                            *)

Connect(c) ==
  /\ Go(c, "idle", "queued")
  /\ UNCHANGED <<file, mainVars, fd, jobVars, sent>>

Accept(c) ==
  /\ mpc = "accept" /\ Go(c, "queued", "main")
  /\ \E f \in Fds : Lowest(f) /\ fd' = [fd EXCEPT ![c] = f] /\ Open(f, Conn(c))
  /\ mpc' = "head" /\ current' = c
  /\ UNCHANGED <<remaining, unread, jobVars, sent>>

(* 400, 405, 411 or 413, from request2task or parse_content_length.          *)
Rejected(c) ==
  /\ current = c /\ mpc \in {"head", "body"} /\ (mpc = "body" => remaining = 0)
  /\ Go(c, "main", "done") /\ Reject(c)
  /\ mpc' = "accept" /\ current' = Null
  /\ UNCHANGED <<remaining, unread, fd, jobVars>>

(* read(client): only from the connection itself, if it is still open.       *)
Readable == file[fd[current]] = Conn(current)

GetArrives(c) ==
  /\ mpc = "head" /\ current = c /\ Readable /\ Go(c, "main", "task")
  /\ mpc' = "accept" /\ current' = Null
  /\ UNCHANGED <<file, remaining, unread, fd, jobVars, sent>>

RemainingMut(length, have) == length - have
Remaining(length, have) == (length + Wrap - have) % Wrap

(* The header is there, and a part of the body with it.                      *)
PostArrives(c) ==
  /\ mpc = "head" /\ current = c /\ Readable
  /\ \E length, have, rest \in 0..MaxBody :
       /\ Honest => have + rest = length
       /\ remaining' = Remaining(length, have) /\ unread' = rest
  /\ mpc' = "body"
  /\ UNCHANGED <<file, current, pc, fd, jobVars, sent>>

(* A read that returns nothing, at the end of what the client sends or from  *)
(* a descriptor that was closed, changes nothing either: the loop goes on.   *)
FitsMut(n) == n < remaining
Fits(n) == n <= remaining                    \* to_read
ReadBody ==
  /\ mpc = "body" /\ remaining > 0 /\ Readable
  /\ \E n \in 1..unread :
       /\ Fits(n)
       /\ remaining' = remaining - n /\ unread' = unread - n
  /\ UNCHANGED <<file, mpc, current, pc, fd, jobVars, sent>>

UploadArrives(c) ==
  /\ mpc = "body" /\ current = c /\ remaining = 0 /\ Go(c, "main", "upload")
  /\ mpc' = "accept" /\ current' = Null
  /\ UNCHANGED <<file, remaining, unread, fd, jobVars, sent>>

RunArrives(c) ==
  /\ mpc = "body" /\ current = c /\ remaining = 0 /\ Go(c, "main", "run")
  /\ mpc' = "run"
  /\ UNCHANGED <<file, current, remaining, unread, fd, jobVars, sent>>
-----------------------------------------------------------------------------
(* The tasks.  An upload writes its file and closes it.                      *)

OpenFile(c) ==
  /\ Go(c, "upload", "writing")
  /\ \E f \in Fds : Lowest(f) /\ own' = [own EXCEPT ![c] = f] /\ Open(f, Private(c))
  /\ UNCHANGED <<mainVars, fd, job, held, sent>>

CloseFile(c) ==
  /\ Go(c, "writing", "task")
  /\ Close(own[c]) /\ own' = [own EXCEPT ![c] = 0]
  /\ UNCHANGED <<mainVars, fd, job, held, sent>>

(* 404, 500 or 503: nothing was opened.                                      *)
Fails(c) ==
  /\ pc[c] \in {"upload", "run"} /\ pc' = [pc EXCEPT ![c] = "task"]
  /\ UNCHANGED <<file, mainVars, fd, jobVars, sent>>

(* Job::launch: one descriptor stands for the read ends of both pipes.  Only *)
(* server_socket is close-on-exec: the child keeps the open connections.     *)
(* A job that has its pipes is in Job::jobs, and so there are MAX_JOBS of    *)
(* them at most.                                                             *)
Piped == {d \in Conns : job[d] # "none" /\ own[d] # 0}
Launch(c) ==
  /\ Go(c, "run", "task") /\ Cardinality(Piped) < MaxJobs
  /\ \E f \in Fds : Lowest(f) /\ own' = [own EXCEPT ![c] = f] /\ Open(f, Private(c))
  /\ job' = [job EXCEPT ![c] = "child"]
  /\ held' = [held EXCEPT ![c] = {d \in Conns : \E f \in Fds : file[f] = Conn(d)}]
  /\ UNCHANGED <<mainVars, fd, sent>>

(* The child exits or is killed.  Signals go to its pid alone: a process that *)
(* it has started keeps what it inherited, for as long as that likes.         *)
ChildEnds(c) ==
  /\ job[c] = "child"
  /\ \/ job' = [job EXCEPT ![c] = "over"] /\ held' = [held EXCEPT ![c] = {}]
     \/ job' = [job EXCEPT ![c] = "left"] /\ held' = held
  /\ UNCHANGED <<file, mainVars, pc, fd, own, sent>>

LeftEnds(c) ==
  /\ job[c] = "left"
  /\ job' = [job EXCEPT ![c] = "over"] /\ held' = [held EXCEPT ![c] = {}]
  /\ UNCHANGED <<file, mainVars, pc, fd, own, sent>>

(* The monitor has joined the readers and closes the pipes; what was left    *)
(* behind may have closed its own ends, or may keep the readers for ever.    *)
ClosePipesMut(c) ==                        \* and they are closed once more
  /\ job[c] \in {"left", "over"} /\ own[c] # 0 /\ Close(own[c])
  /\ UNCHANGED <<mainVars, pc, fd, jobVars, sent>>
ClosePipes(c) ==
  /\ job[c] \in {"left", "over"} /\ own[c] # 0
  /\ Close(own[c]) /\ own' = [own EXCEPT ![c] = 0]
  /\ UNCHANGED <<mainVars, pc, fd, job, held, sent>>

Answer(c) ==
  /\ Go(c, "task", "replied") /\ ReplyOnce(c) /\ Close(fd[c])
  /\ UNCHANGED <<mainVars, fd, jobVars>>

(* delete task; a RunTask was executed by the main thread itself.            *)
Delete(c) ==
  /\ Go(c, "replied", "done") /\ Close(fd[c])
  /\ IF current = c THEN mpc' = "accept" /\ current' = Null
                    ELSE UNCHANGED <<mpc, current>>
  /\ UNCHANGED <<remaining, unread, fd, jobVars, sent>>
-----------------------------------------------------------------------------
Read(c)  == Rejected(c) \/ GetArrives(c) \/ PostArrives(c) \/ UploadArrives(c)
              \/ RunArrives(c)
Task(c)  == OpenFile(c) \/ CloseFile(c) \/ Fails(c) \/ Launch(c) \/ Answer(c)
              \/ Delete(c)

Job(c)   == ChildEnds(c) \/ LeftEnds(c) \/ ClosePipes(c)

AllServed == (\A c \in Conns : pc[c] = "done") /\ UNCHANGED vars

Next ==
  \/ ReadBody
  \/ \E c \in Conns : Connect(c) \/ Accept(c) \/ Read(c) \/ Task(c) \/ Job(c)
  \/ mpc = "body" /\ UNCHANGED vars        \* read_body's loop
  \/ AllServed

(* Clients send or close, and the backlog is a queue; threads are scheduled; *)
(* a child ends, by its timer if by nothing else (module Job), and then its  *)
(* pipes are closed if nothing else has them.  What a child leaves behind    *)
(* need not end, nor give up the pipes.                                      *)
Fairness ==
  /\ WF_vars(ReadBody)
  /\ \A c \in Conns :
       /\ SF_vars(Accept(c)) /\ WF_vars(Read(c)) /\ WF_vars(Task(c))
       /\ WF_vars(ChildEnds(c)) /\ WF_vars(job[c] = "over" /\ ClosePipes(c))

Spec     == Init /\ [][Next]_vars
FairSpec == Spec /\ Fairness
-----------------------------------------------------------------------------
(* Properties.                                                               *)

(* Types; remaining is a size_t.                                             *)
TypeOK ==
  /\ file \in [Fds -> Files]
  /\ mpc \in {"accept", "head", "body", "run"}
  /\ current \in Conns \cup {Null} /\ (mpc = "accept" <=> current = Null)
  /\ remaining \in 0..(Wrap - 1) /\ unread \in 0..MaxBody
  /\ pc \in [Conns -> {"idle", "queued", "main", "task", "upload", "writing", "run",
                       "replied", "done"}]
  /\ fd \in [Conns -> 0..MaxFd] /\ own \in [Conns -> 0..MaxFd]
  /\ job \in [Conns -> {"none", "child", "left", "over"}]
  /\ held \in [Conns -> SUBSET Conns]
  /\ sent \subseteq Conns \X Files

(* No descriptor is leaked, whatever path a request takes and whatever the   *)
(* second close hits: one that is open belongs to a thread that will close   *)
(* it, under that number.                                                    *)
NoLeak ==
  \A f \in Fds, c \in Conns :
    /\ file[f] = Conn(c) => fd[c] = f /\ pc[c] \notin {"idle", "queued", "replied", "done"}
    /\ file[f] = Private(c) => own[c] = f

(* Only the second close of ~Task (Tasks.hh:24) is ever wrong: as long as all *)
(* who still need a descriptor have theirs, nothing but a Delete whose number  *)
(* is in use again takes one from them; every other close comes later.        *)
Needs(c) == pc[c] \in {"main", "task", "upload", "writing", "run"}
Intact ==
  \A c \in Conns : /\ Needs(c) => file[fd[c]] = Conn(c)
                   /\ own[c] # 0 => file[own[c]] = Private(c)
OnlySecondClose ==
  [][Intact /\ ~Intact' => \E c \in Conns : Delete(c) /\ file[fd[c]] # Free]_vars

(* Every connection in the backlog is accepted and dealt with, and so the    *)
(* descriptors come back, unless the main thread stays in read_body: nothing *)
(* else holds the server up, as long as MAX_JOBS leaves a descriptor when    *)
(* processes left behind keep the pipes of all jobs for ever.                *)
Served == []<>(mpc # "body") => \A c \in Conns : pc[c] = "queued" ~> pc[c] = "done"

(* The main thread leaves read_body unless the bytes it waits for do not      *)
(* come: the client has stopped short, remaining has wrapped around, or the   *)
(* descriptor is no longer the client's.  No read keeps it there otherwise.   *)
BodyEnds == mpc = "body" ~> mpc # "body" \/ remaining > unread \/ ~Readable

(* Every client that was dealt with sees its connection closed at last: the  *)
(* server drops it on every path, and so does each child that has inherited  *)
(* it, since its timer ends it.  Only a process that a script has left       *)
(* behind can keep the client waiting longer.                                *)
OnlyLeftKeeps(c) ==
  /\ \A f \in Fds : file[f] # Conn(c)
  /\ \A d \in Conns : c \in held[d] => job[d] = "left"
HungUp == \A c \in Conns : pc[c] = "done" ~> OnlyLeftKeeps(c)
-----------------------------------------------------------------------------
(* What the documents and the comments say and the code does not keep.       *)

(* Tasks.hh:15: a Task's client is the socket for sending the status back to *)
(* the client: the answer for a connection goes to that connection.          *)
ReplyToOwn == \A x \in sent : x[2] = Conn(x[1])
=============================================================================
