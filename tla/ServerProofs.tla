---------------------------- MODULE ServerProofs ----------------------------
(***************************************************************************)
(* Server's descriptors: types, that none is leaked, that only the second  *)
(* close of a connection is ever wrong, and what that costs; and that the  *)
(* body of an honest client ends.  All for every number of connections and *)
(* descriptors.                                                            *)
(***************************************************************************)
EXTENDS Server, TLAPS

(* A connection has a number from accept on, even when ~Task has closed it   *)
(* twice; it owns a file from when its task has opened one, and has a job    *)
(* only when it has been launched.                                           *)
Accepted == \A c \in Conns : pc[c] \notin {"idle", "queued"} => fd[c] \in Fds
Opened ==
  \A c \in Conns :
    /\ pc[c] \in {"idle", "queued", "main", "upload", "run"} => own[c] = 0
    /\ pc[c] = "writing" => own[c] # 0
    /\ job[c] # "none" => pc[c] \in {"task", "replied", "done"}

Inv == TypeOK /\ Accepted /\ Opened /\ NoLeak
-----------------------------------------------------------------------------
(* The three kinds of file are apart.                                        *)

LEMMA FilesApart ==
  ASSUME NEW c \in Conns, NEW d \in Conns
  PROVE  /\ Conn(c) # Free /\ Private(c) # Free /\ Conn(c) # Private(d)
         /\ Conn(c) = Conn(d) => c = d
         /\ Private(c) = Private(d) => c = d
         /\ Conn(c) \in Files /\ Private(c) \in Files /\ Free \in Files
BY DEF Conn, Private, Free, Files

LEMMA RemainingType ==
  ASSUME NEW m \in 0..MaxBody, NEW n \in 0..MaxBody
  PROVE  Remaining(m, n) \in 0..(Wrap - 1)
<1>1. m + Wrap - n \in Nat /\ Wrap \in Nat \ {0}
  BY ServerAssumption
<1>2. \A x \in Nat, w \in Nat \ {0} : x % w \in 0..(w - 1)
  OBVIOUS
<1> QED BY <1>1, <1>2 DEF Remaining

(* A close takes nothing from anyone else: what is open was open before.     *)
LEMMA CloseLeaksNothing ==
  ASSUME Inv, NEW c \in Conns, Close(fd[c]), fd' = fd, own' = own,
         NEW q \in {"replied", "done"}, pc' = [pc EXCEPT ![c] = q],
         pc[c] \in {"main", "task", "replied"}
  PROVE  NoLeak'
<1> SUFFICES ASSUME NEW f \in Fds, NEW d \in Conns
             PROVE  /\ file'[f] = Conn(d) => fd'[d] = f /\ pc'[d] \notin
                         {"idle", "queued", "replied", "done"}
                    /\ file'[f] = Private(d) => own'[d] = f
  BY DEF NoLeak
<1>1. file' = [file EXCEPT ![fd[c]] = Free] /\ file \in [Fds -> Files] /\ fd[c] \in Fds
  BY DEF Close, Inv, TypeOK, Accepted
<1>2. CASE f = fd[c]
  BY <1>1, <1>2, FilesApart
<1>3. CASE f # fd[c]
  <2>1. file'[f] = file[f]
    BY <1>1, <1>3
  <2>2. file[f] = Conn(d) => d # c
    BY <1>3 DEF Inv, NoLeak
  <2> QED BY <2>1, <2>2 DEF Inv, NoLeak, TypeOK
<1> QED BY <1>2, <1>3

(* Opening gives a free number to a connection that has none of that kind.   *)
LEMMA OpenLeaksNothing ==
  ASSUME Inv, NEW c \in Conns, pc[c] \in {"upload", "run"}, fd' = fd,
         NEW q \in {"writing", "task"}, pc' = [pc EXCEPT ![c] = q],
         NEW f \in Fds, own' = [own EXCEPT ![c] = f], Open(f, Private(c))
  PROVE  NoLeak'
<1> SUFFICES ASSUME NEW g \in Fds, NEW d \in Conns
             PROVE  /\ file'[g] = Conn(d) => fd'[d] = g /\ pc'[d] \notin
                         {"idle", "queued", "replied", "done"}
                    /\ file'[g] = Private(d) => own'[d] = g
  BY DEF NoLeak
<1>1. file' = [file EXCEPT ![f] = Private(c)] /\ file \in [Fds -> Files]
      /\ own \in [Conns -> 0..MaxFd] /\ own[c] = 0
  BY DEF Open, Inv, TypeOK, Opened
<1>2. CASE g = f
  BY <1>1, <1>2, FilesApart
<1>3. CASE g # f
  <2>1. file'[g] = file[g]
    BY <1>1, <1>3
  <2>2. file[g] = Private(d) => d # c
    BY <1>1 DEF Inv, NoLeak, Fds
  <2> QED BY <2>1, <2>2, <1>1 DEF Inv, NoLeak, TypeOK
<1> QED BY <1>2, <1>3

(* A thread closes its own file or pipe under the number it has for it.      *)
LEMMA CloseOwnLeaksNothing ==
  ASSUME Inv, NEW c \in Conns, fd' = fd, Close(own[c]), own' = [own EXCEPT ![c] = 0],
         pc' = pc \/ (pc[c] = "writing" /\ pc' = [pc EXCEPT ![c] = "task"])
  PROVE  NoLeak'
<1> SUFFICES ASSUME NEW g \in Fds, NEW d \in Conns
             PROVE  /\ file'[g] = Conn(d) => fd'[d] = g /\ pc'[d] \notin
                         {"idle", "queued", "replied", "done"}
                    /\ file'[g] = Private(d) => own'[d] = g
  BY DEF NoLeak
<1>1. file' = [file EXCEPT ![own[c]] = Free] /\ file \in [Fds -> Files]
      /\ own \in [Conns -> 0..MaxFd]
  BY DEF Close, Inv, TypeOK
<1>2. CASE g = own[c]
  BY <1>1, <1>2, FilesApart
<1>3. CASE g # own[c]
  <2>1. file'[g] = file[g]
    BY <1>1, <1>3
  <2>2. file[g] = Private(d) => d # c
    BY <1>3 DEF Inv, NoLeak
  <2> QED BY <2>1, <2>2, <1>1 DEF Inv, NoLeak, TypeOK
<1> QED BY <1>2, <1>3
-----------------------------------------------------------------------------
(* The steps.                                                                *)

LEMMA Initially == Init => Inv
<1> SUFFICES ASSUME Init PROVE Inv
  OBVIOUS
<1>1. TypeOK
  BY ServerAssumption, FilesApart DEF Init, TypeOK, Free, Files
<1>2. Accepted /\ Opened
  BY DEF Init, Accepted, Opened
<1>3. NoLeak
  BY FilesApart DEF Init, NoLeak
<1> QED BY <1>1, <1>2, <1>3 DEF Inv

(* Steps that touch no descriptor.                                           *)
LEMMA QuietStep ==
  ASSUME Inv, UNCHANGED <<file, fd, own>>,
         \A d \in Conns : job'[d] # "none" => job[d] # "none",
         \A d \in Conns :
           \/ pc'[d] = pc[d]
           \/ pc[d] = "idle" /\ pc'[d] = "queued"
           \/ pc[d] \in {"main", "upload", "run"} /\ pc'[d] \in {"task", "upload", "run"}
  PROVE  Accepted' /\ Opened' /\ NoLeak'
<1>1. Accepted'
  BY DEF Inv, Accepted
<1>2. Opened'
  BY DEF Inv, Opened
<1>3. NoLeak'
  BY DEF Inv, NoLeak
<1> QED BY <1>1, <1>2, <1>3

LEMMA ReadStep == Inv /\ (ReadBody \/ \E c \in Conns : Connect(c) \/ Accept(c) \/ Read(c)) => Inv'
<1> SUFFICES ASSUME Inv, ReadBody \/ \E c \in Conns : Connect(c) \/ Accept(c) \/ Read(c)
             PROVE  Inv'
  OBVIOUS
<1> USE ServerAssumption
<1>1. CASE ReadBody
  <2>1. TypeOK'
    <3>1. PICK n \in 1..unread : /\ n <= remaining /\ remaining' = remaining - n
                                /\ unread' = unread - n
      BY <1>1 DEF ReadBody, Fits
    <3>2. remaining' \in 0..(Wrap - 1) /\ unread' \in 0..MaxBody
      BY <3>1 DEF Inv, TypeOK
    <3> QED BY <1>1, <3>2 DEF ReadBody, jobVars, Inv, TypeOK
  <2>2. Accepted' /\ Opened' /\ NoLeak'
    BY <1>1, QuietStep DEF ReadBody, jobVars
  <2> QED BY <2>1, <2>2 DEF Inv
<1>2. ASSUME NEW c \in Conns, Connect(c) PROVE Inv'
  <2>1. TypeOK'
    BY <1>2 DEF Connect, Go, mainVars, jobVars, Inv, TypeOK
  <2>2. Accepted' /\ Opened' /\ NoLeak'
    BY <1>2, QuietStep DEF Connect, Go, mainVars, jobVars, Inv, TypeOK
  <2> QED BY <2>1, <2>2 DEF Inv
<1>3. ASSUME NEW c \in Conns, Accept(c) PROVE Inv'
  <2>1. PICK f \in Fds : /\ fd' = [fd EXCEPT ![c] = f]
                        /\ file' = [file EXCEPT ![f] = Conn(c)]
    BY <1>3 DEF Accept, Open
  <2>2. /\ pc[c] = "queued" /\ pc' = [pc EXCEPT ![c] = "main"] /\ own' = own
        /\ mpc' = "head" /\ current' = c
        /\ UNCHANGED <<remaining, unread, job, held, sent>>
    BY <1>3 DEF Accept, Go, jobVars
  <2>3. TypeOK'
    BY <2>1, <2>2, FilesApart DEF Inv, TypeOK, Fds
  <2>4. Accepted' /\ Opened'
    BY <2>1, <2>2 DEF Inv, TypeOK, Accepted, Opened
  <2>5. NoLeak'
    <3> SUFFICES ASSUME NEW g \in Fds, NEW d \in Conns
                 PROVE  /\ file'[g] = Conn(d) => fd'[d] = g /\ pc'[d] \notin
                             {"idle", "queued", "replied", "done"}
                        /\ file'[g] = Private(d) => own'[d] = g
      BY DEF NoLeak
    <3>1. CASE g = f
      BY <2>1, <2>2, <3>1, FilesApart DEF Inv, TypeOK
    <3>2. CASE g # f
      <4>1. file'[g] = file[g]
        BY <2>1, <3>2 DEF Inv, TypeOK
      <4>2. file[g] = Conn(d) => d # c
        BY <2>2 DEF Inv, NoLeak
      <4> QED BY <4>1, <4>2, <2>1, <2>2 DEF Inv, NoLeak, TypeOK
    <3> QED BY <3>1, <3>2
  <2> QED BY <2>3, <2>4, <2>5 DEF Inv
<1>4. ASSUME NEW c \in Conns, Rejected(c) PROVE Inv'
  <2>1. /\ pc[c] = "main" /\ pc' = [pc EXCEPT ![c] = "done"] /\ Close(fd[c])
        /\ sent' = sent \cup {<<c, file[fd[c]]>>} /\ mpc' = "accept" /\ current' = Null
        /\ UNCHANGED <<remaining, unread, fd, own, job, held>>
    BY <1>4 DEF Rejected, Go, Reject, ReplyOnce, jobVars
  <2>2. fd[c] \in Fds
    BY <2>1 DEF Inv, Accepted
  <2>3. TypeOK'
    BY <2>1, <2>2, FilesApart DEF Inv, TypeOK, Close
  <2>4. Accepted' /\ Opened'
    BY <2>1, <2>2 DEF Inv, TypeOK, Accepted, Opened
  <2>5. NoLeak'
    BY <2>1, CloseLeaksNothing
  <2> QED BY <2>3, <2>4, <2>5 DEF Inv
<1>5. ASSUME NEW c \in Conns, GetArrives(c) \/ UploadArrives(c) \/ RunArrives(c) PROVE Inv'
  <2>1. PICK q \in {"task", "upload", "run"} :
          /\ pc[c] = "main" /\ pc' = [pc EXCEPT ![c] = q] /\ current = c
          /\ \/ mpc' = "accept" /\ current' = Null
             \/ mpc' = "run" /\ current' = current
          /\ UNCHANGED <<file, remaining, unread, fd, own, job, held, sent>>
    BY <1>5 DEF GetArrives, UploadArrives, RunArrives, Go, jobVars
  <2>2. TypeOK'
    BY <2>1 DEF Inv, TypeOK
  <2>3. Accepted' /\ Opened' /\ NoLeak'
    BY <2>1, QuietStep DEF Inv, TypeOK
  <2> QED BY <2>2, <2>3 DEF Inv
<1>6. ASSUME NEW c \in Conns, PostArrives(c) PROVE Inv'
  <2>1. remaining' \in 0..(Wrap - 1) /\ unread' \in 0..MaxBody
    BY <1>6, RemainingType DEF PostArrives
  <2>2. TypeOK'
    BY <1>6, <2>1 DEF PostArrives, jobVars, Inv, TypeOK
  <2>3. Accepted' /\ Opened' /\ NoLeak'
    BY <1>6, QuietStep DEF PostArrives, jobVars
  <2> QED BY <2>2, <2>3 DEF Inv
<1> QED BY <1>1, <1>2, <1>3, <1>4, <1>5, <1>6 DEF Read

LEMMA TaskStep == Inv /\ (\E c \in Conns : Task(c) \/ Job(c)) => Inv'
<1> SUFFICES ASSUME Inv, NEW c \in Conns, Task(c) \/ Job(c) PROVE Inv'
  OBVIOUS
<1> USE ServerAssumption
<1>1. CASE OpenFile(c) \/ Launch(c)
  <2>1. PICK f \in Fds : own' = [own EXCEPT ![c] = f] /\ Open(f, Private(c))
    BY <1>1 DEF OpenFile, Launch
  <2>2. PICK q \in {"writing", "task"} :
          pc[c] \in {"upload", "run"} /\ pc' = [pc EXCEPT ![c] = q]
    BY <1>1 DEF OpenFile, Launch, Go
  <2>3. UNCHANGED <<mpc, current, remaining, unread, fd, sent>>
    BY <1>1 DEF OpenFile, Launch, mainVars
  <2>4. /\ held' \in [Conns -> SUBSET Conns]
        /\ \/ job' = job
           \/ job' = [job EXCEPT ![c] = "child"] /\ pc'[c] = "task"
    BY <1>1, <2>2 DEF OpenFile, Launch, Go, Inv, TypeOK
  <2>5. TypeOK'
    <3>1. file' \in [Fds -> Files]
      BY <2>1, FilesApart DEF Open, Inv, TypeOK
    <3>2. own' \in [Conns -> 0..MaxFd]
      BY <2>1 DEF Inv, TypeOK, Fds
    <3> QED BY <2>2, <2>3, <2>4, <3>1, <3>2 DEF Inv, TypeOK
  <2>6. Accepted' /\ Opened'
    BY <2>1, <2>2, <2>3, <2>4 DEF Inv, TypeOK, Accepted, Opened, Fds
  <2>7. NoLeak'
    BY <2>1, <2>2, <2>3, OpenLeaksNothing
  <2> QED BY <2>5, <2>6, <2>7 DEF Inv
<1>2. CASE CloseFile(c) \/ ClosePipes(c)
  <2>1. /\ Close(own[c]) /\ own' = [own EXCEPT ![c] = 0]
        /\ \/ pc[c] # "writing" /\ pc' = pc
           \/ pc[c] = "writing" /\ pc' = [pc EXCEPT ![c] = "task"]
        /\ UNCHANGED <<mpc, current, remaining, unread, fd, job, held, sent>>
    BY <1>2 DEF CloseFile, ClosePipes, Go, mainVars, Inv, Opened
  <2>2. TypeOK'
    <3>1. file' \in [Fds -> Files]
      BY <2>1, FilesApart DEF Close, Inv, TypeOK
    <3>2. own' \in [Conns -> 0..MaxFd]
      BY <2>1 DEF Inv, TypeOK
    <3> QED BY <2>1, <3>1, <3>2 DEF Inv, TypeOK
  <2>3. Accepted' /\ Opened'
    BY <2>1 DEF Inv, TypeOK, Accepted, Opened
  <2>4. NoLeak'
    BY <2>1, CloseOwnLeaksNothing
  <2> QED BY <2>2, <2>3, <2>4 DEF Inv
<1>3. CASE Fails(c)
  <2>1. TypeOK'
    BY <1>3 DEF Fails, mainVars, jobVars, Inv, TypeOK
  <2>2. Accepted' /\ Opened' /\ NoLeak'
    BY <1>3, QuietStep DEF Fails, jobVars, Inv, TypeOK
  <2> QED BY <2>1, <2>2 DEF Inv
<1>4. CASE Answer(c) \/ Delete(c)
  <2>1. PICK q \in {"replied", "done"} :
          /\ pc[c] \in {"task", "replied"} /\ pc' = [pc EXCEPT ![c] = q]
    BY <1>4 DEF Answer, Delete, Go
  <2>2. /\ Close(fd[c]) /\ UNCHANGED <<remaining, unread, fd, own, job, held>>
        /\ sent' = sent \/ sent' = sent \cup {<<c, file[fd[c]]>>}
        /\ \/ UNCHANGED <<mpc, current>>
           \/ mpc' = "accept" /\ current' = Null
    BY <1>4 DEF Answer, Delete, ReplyOnce, mainVars, jobVars
  <2>3. fd[c] \in Fds
    BY <2>1 DEF Inv, Accepted
  <2>4. TypeOK'
    BY <2>1, <2>2, <2>3, FilesApart DEF Close, Inv, TypeOK
  <2>5. Accepted' /\ Opened'
    BY <2>1, <2>2 DEF Inv, TypeOK, Accepted, Opened
  <2>6. NoLeak'
    BY <2>1, <2>2, CloseLeaksNothing
  <2> QED BY <2>4, <2>5, <2>6 DEF Inv
<1>5. CASE ChildEnds(c) \/ LeftEnds(c)
  <2>1. /\ UNCHANGED <<file, mpc, current, remaining, unread, pc, fd, own, sent>>
        /\ \E q \in {"left", "over"} : job' = [job EXCEPT ![c] = q]
        /\ held' = held \/ held' = [held EXCEPT ![c] = {}]
        /\ job[c] # "none"
    BY <1>5 DEF ChildEnds, LeftEnds, mainVars
  <2>2. TypeOK'
    BY <2>1 DEF Inv, TypeOK
  <2>3. \A d \in Conns : job'[d] # "none" => job[d] # "none"
    BY <2>1 DEF Inv, TypeOK
  <2>4. Accepted' /\ Opened' /\ NoLeak'
    BY <2>1, <2>3, QuietStep
  <2> QED BY <2>2, <2>4 DEF Inv
<1> QED BY <1>1, <1>2, <1>3, <1>4, <1>5 DEF Task, Job

LEMMA Invariance == Spec => []Inv
<1>1. Inv /\ UNCHANGED vars => Inv'
  BY DEF vars, mainVars, jobVars, Inv, TypeOK, Accepted, Opened, NoLeak
<1>2. Inv /\ [Next]_vars => Inv'
  BY <1>1, ReadStep, TaskStep DEF Next, AllServed
<1> QED BY <1>2, Initially, PTL DEF Spec
-----------------------------------------------------------------------------
(* Who loses a descriptor to whom.                                           *)

(* Whoever opens takes a free number, and so nobody's who needs it.           *)
LEMMA OpenTakesFromNone ==
  ASSUME Inv, Intact, NEW f \in Fds, Lowest(f), NEW x, Open(f, x), NEW d \in Conns
  PROVE  /\ Needs(d) => file'[fd[d]] = Conn(d)
         /\ own[d] # 0 => file'[own[d]] = Private(d)
<1>1. file[f] = Free /\ file' = [file EXCEPT ![f] = x] /\ file \in [Fds -> Files]
  BY DEF Lowest, Open, Inv, TypeOK
<1>2. Needs(d) => fd[d] \in Fds /\ fd[d] # f
  BY <1>1, FilesApart DEF Inv, Accepted, Intact, Needs
<1>3. own[d] # 0 => own[d] \in Fds /\ own[d] # f
  BY <1>1, FilesApart, ServerAssumption DEF Inv, TypeOK, Intact, Fds
<1> QED BY <1>1, <1>2, <1>3 DEF Intact

(* Whoever closes a number that is theirs, or free, takes it from nobody else. *)
LEMMA CloseTakesFromNone ==
  ASSUME Inv, Intact, NEW f \in Fds, NEW c \in Conns, NEW d \in Conns, Close(f),
         file[f] \in {Free, Conn(c), Private(c)}
  PROVE  /\ Needs(d) /\ file[f] # Conn(d) => file'[fd[d]] = Conn(d)
         /\ own[d] # 0 /\ file[f] # Private(d) => file'[own[d]] = Private(d)
<1>1. file' = [file EXCEPT ![f] = Free] /\ file \in [Fds -> Files]
  BY DEF Close, Inv, TypeOK
<1>2. Needs(d) /\ file[f] # Conn(d) => fd[d] \in Fds /\ fd[d] # f
  BY DEF Inv, Accepted, Intact, Needs
<1>3. own[d] # 0 /\ file[f] # Private(d) => own[d] \in Fds /\ own[d] # f
  BY ServerAssumption DEF Inv, TypeOK, Intact, Fds
<1> QED BY <1>1, <1>2, <1>3 DEF Intact

LEMMA QuietStaysIntact ==
  ASSUME Intact, UNCHANGED <<file, fd, own>>, \A d \in Conns : Needs(d)' => Needs(d)
  PROVE  Intact'
BY DEF Intact

LEMMA IntactStep ==
  ASSUME Inv, Intact, Next
  PROVE  Intact' \/ \E c \in Conns : Delete(c) /\ file[fd[c]] # Free
<1> USE DEF Needs
<1>1. CASE ReadBody \/ UNCHANGED vars
  BY <1>1, QuietStaysIntact DEF ReadBody, jobVars, vars
<1>2. ASSUME NEW c \in Conns,
             \/ Connect(c) \/ Fails(c) \/ ChildEnds(c) \/ LeftEnds(c)
             \/ GetArrives(c) \/ PostArrives(c) \/ UploadArrives(c) \/ RunArrives(c)
      PROVE  Intact'
  <2>1. UNCHANGED <<file, fd, own>>
    BY <1>2 DEF Connect, Fails, ChildEnds, LeftEnds, GetArrives, PostArrives, UploadArrives,
              RunArrives, jobVars
  <2>2. \/ pc' = pc
        \/ pc' = [pc EXCEPT ![c] = "queued"]
        \/ pc[c] \in {"main", "upload", "run"} /\ pc' = [pc EXCEPT ![c] = pc'[c]]
    BY <1>2 DEF Connect, Fails, ChildEnds, LeftEnds, GetArrives, PostArrives,
                UploadArrives, RunArrives, Go, Inv, TypeOK
  <2>3. \A d \in Conns : Needs(d)' => Needs(d)
    BY <2>2 DEF Inv, TypeOK
  <2> QED BY <2>1, <2>3, QuietStaysIntact
<1>3. ASSUME NEW c \in Conns, Accept(c) PROVE Intact'
  <2>1. PICK f \in Fds : Lowest(f) /\ fd' = [fd EXCEPT ![c] = f] /\ Open(f, Conn(c))
    BY <1>3 DEF Accept
  <2>2. pc[c] = "queued" /\ pc' = [pc EXCEPT ![c] = "main"] /\ own' = own
    BY <1>3 DEF Accept, Go, jobVars
  <2>3. fd'[c] = f /\ file'[f] = Conn(c)
    BY <2>1 DEF Open, Inv, TypeOK
  <2>4. \A d \in Conns \ {c} : fd'[d] = fd[d] /\ (Needs(d)' => Needs(d))
    BY <2>1, <2>2 DEF Inv, TypeOK
  <2> QED BY <2>1, <2>2, <2>3, <2>4, OpenTakesFromNone DEF Intact
<1>4. ASSUME NEW c \in Conns, OpenFile(c) \/ Launch(c) PROVE Intact'
  <2>1. PICK f \in Fds : Lowest(f) /\ own' = [own EXCEPT ![c] = f] /\ Open(f, Private(c))
    BY <1>4 DEF OpenFile, Launch
  <2>2. PICK q \in {"writing", "task"} :
          pc[c] \in {"upload", "run"} /\ pc' = [pc EXCEPT ![c] = q] /\ fd' = fd
    BY <1>4 DEF OpenFile, Launch, Go
  <2>3. own'[c] = f /\ file'[f] = Private(c) /\ \A d \in Conns \ {c} : own'[d] = own[d]
    BY <2>1 DEF Open, Inv, TypeOK
  <2>4. \A d \in Conns : Needs(d)' => Needs(d)
    BY <2>2 DEF Inv, TypeOK
  <2> QED BY <2>1, <2>2, <2>3, <2>4, OpenTakesFromNone DEF Intact
<1>5. ASSUME NEW c \in Conns, CloseFile(c) \/ ClosePipes(c) PROVE Intact'
  <2>1. /\ own[c] # 0 /\ Close(own[c]) /\ own' = [own EXCEPT ![c] = 0] /\ fd' = fd
        /\ pc' = pc \/ (pc[c] = "writing" /\ pc' = [pc EXCEPT ![c] = "task"])
    <3>1. CloseFile(c) => own[c] # 0
      BY DEF CloseFile, Go, Inv, Opened
    <3> QED BY <1>5, <3>1 DEF CloseFile, ClosePipes, Go, mainVars
  <2>2. own[c] \in Fds /\ file[own[c]] = Private(c)
    BY <2>1, ServerAssumption DEF Inv, TypeOK, Fds, Intact
  <2>3. own'[c] = 0 /\ \A d \in Conns \ {c} : own'[d] = own[d]
    BY <2>1 DEF Inv, TypeOK
  <2>4. \A d \in Conns : Needs(d)' => Needs(d)
    BY <2>1 DEF Inv, TypeOK
  <2> QED BY <2>1, <2>2, <2>3, <2>4, CloseTakesFromNone, FilesApart DEF Intact
<1>6. ASSUME NEW c \in Conns, Rejected(c) \/ Answer(c) PROVE Intact'
  <2>1. /\ pc[c] \in {"main", "task"} /\ Close(fd[c]) /\ UNCHANGED <<fd, own>>
        /\ \E q \in {"done", "replied"} : pc' = [pc EXCEPT ![c] = q]
    BY <1>6 DEF Rejected, Answer, Go, Reject, jobVars
  <2>2. fd[c] \in Fds /\ file[fd[c]] = Conn(c)
    BY <2>1 DEF Inv, Accepted, Intact
  <2>3. ~Needs(c)' /\ \A d \in Conns \ {c} : Needs(d)' => Needs(d)
    BY <2>1 DEF Inv, TypeOK
  <2> QED BY <2>1, <2>2, <2>3, CloseTakesFromNone, FilesApart DEF Intact
<1>7. ASSUME NEW c \in Conns, Delete(c), file[fd[c]] = Free PROVE Intact'
  <2>1. /\ pc[c] = "replied" /\ pc' = [pc EXCEPT ![c] = "done"] /\ Close(fd[c])
        /\ UNCHANGED <<fd, own>>
    BY <1>7 DEF Delete, Go, jobVars
  <2>2. fd[c] \in Fds
    BY <2>1 DEF Inv, Accepted
  <2>3. \A d \in Conns : Needs(d)' => Needs(d)
    BY <2>1 DEF Inv, TypeOK
  <2> QED BY <1>7, <2>1, <2>2, <2>3, CloseTakesFromNone, FilesApart DEF Intact
<1> QED
  BY <1>1, <1>2, <1>3, <1>4, <1>5, <1>6, <1>7 DEF Next, Read, Task, Job, AllServed
-----------------------------------------------------------------------------
(* Every variable keeps its type; remaining stays a size_t, whatever lengths  *)
(* the clients announce.                                                      *)
THEOREM TypeCorrect == Spec => []TypeOK
BY Invariance, PTL DEF Inv

(* A descriptor that is open belongs to a thread that will still close it,    *)
(* although every answered request closes its number twice.                   *)
THEOREM NothingLeaks == Spec => []NoLeak
BY Invariance, PTL DEF Inv

(* As long as all who need a descriptor have theirs, only ~Task's second      *)
(* close can take one from them, and only when its number is in use again.    *)
THEOREM SecondCloseOnly == Spec => OnlySecondClose
<1>1. Inv /\ [Next]_vars =>
        [Intact /\ ~Intact' => \E c \in Conns : Delete(c) /\ file[fd[c]] # Free]_vars
  BY IntactStep
<1> QED BY <1>1, Invariance, PTL DEF Spec, OnlySecondClose
-----------------------------------------------------------------------------
(* What the program would keep if its second closes met free numbers.         *)

HarmlessStep == \A c \in Conns : Delete(c) => file[fd[c]] = Free

LEMMA AnswerToOwn ==
  ASSUME Inv, Intact, ReplyToOwn, Next
  PROVE  ReplyToOwn'
<1>1. ASSUME NEW c \in Conns, Rejected(c) \/ Answer(c) PROVE ReplyToOwn'
  <2>1. file[fd[c]] = Conn(c) /\ sent' = sent \cup {<<c, file[fd[c]]>>}
    BY <1>1 DEF Rejected, Answer, Go, Reject, ReplyOnce, Intact, Needs
  <2> QED BY <2>1 DEF ReplyToOwn
<1>2. CASE UNCHANGED sent
  BY <1>2 DEF ReplyToOwn
<1>3. UNCHANGED sent \/ \E c \in Conns : Rejected(c) \/ Answer(c)
  BY DEF Next, ReadBody, Connect, Accept, Read, GetArrives, PostArrives, UploadArrives,
         RunArrives, Task, OpenFile, CloseFile, Fails, Launch, Delete, Job, ChildEnds,
         LeftEnds, ClosePipes, AllServed, vars
<1> QED BY <1>1, <1>2, <1>3

(* The second close is the whole cause of what the run server_reply finds: if  *)
(* none of them meets a number that is in use again, every answer goes to the  *)
(* connection that it is for, in every interleaving.                           *)
THEOREM RepliesReachTheirOwn ==
  Spec /\ [][HarmlessStep]_vars => []ReplyToOwn
<1>1. Init => Intact /\ ReplyToOwn
  BY DEF Init, Intact, ReplyToOwn, Needs
<1>2. Inv /\ Intact /\ ReplyToOwn /\ [Next]_vars /\ [HarmlessStep]_vars
        => (Intact /\ ReplyToOwn)'
  <2> SUFFICES ASSUME Inv, Intact, ReplyToOwn, [Next]_vars, [HarmlessStep]_vars
               PROVE  (Intact /\ ReplyToOwn)'
    OBVIOUS
  <2>1. CASE Next /\ HarmlessStep
    BY <2>1, IntactStep, AnswerToOwn DEF HarmlessStep
  <2>2. CASE UNCHANGED vars
    BY <2>2 DEF vars, jobVars, Intact, ReplyToOwn, Needs
  <2> QED BY <2>1, <2>2
<1> QED BY <1>1, <1>2, Invariance, PTL DEF Spec
-----------------------------------------------------------------------------
(* The bodies of honest clients.                                              *)

LEMMA RemainingExact ==
  ASSUME NEW m \in 0..MaxBody, NEW n \in 0..m
  PROVE  Remaining(m, n) = m - n
<1>1. m - n \in 0..(Wrap - 1) /\ Wrap \in Nat \ {0} /\ m + Wrap - n = (m - n) + Wrap
  BY ServerAssumption
<1>2. \A w \in Nat \ {0} : \A x \in 0..(w - 1) : (x + w) % w = x
  OBVIOUS
<1> QED BY <1>1, <1>2 DEF Remaining

(* remaining does not wrap around: it is what the client is still to send.    *)
WaitsForWhatComes == mpc = "body" => remaining = unread

(* Where clients send just what they announce, the main thread always waits   *)
(* for the very bytes that are still to come, neither more nor less: with     *)
(* BodyEnds, it can be kept in read_body only by a descriptor that was taken. *)
THEOREM HonestBodiesEnd == ASSUME Honest PROVE Spec => []WaitsForWhatComes
<1>1. Init => WaitsForWhatComes
  BY DEF Init, WaitsForWhatComes
<1>2. Inv /\ WaitsForWhatComes /\ [Next]_vars => WaitsForWhatComes'
  <2> SUFFICES ASSUME Inv, WaitsForWhatComes, [Next]_vars PROVE WaitsForWhatComes'
    OBVIOUS
  <2>1. ASSUME NEW c \in Conns, PostArrives(c) PROVE WaitsForWhatComes'
    <3>1. PICK length \in 0..MaxBody, have \in 0..MaxBody, rest \in 0..MaxBody :
            have + rest = length /\ remaining' = Remaining(length, have) /\ unread' = rest
      BY <2>1, Honest DEF PostArrives
    <3>2. have \in 0..length /\ length - have = rest
      BY <3>1, ServerAssumption
    <3> QED BY <3>1, <3>2, RemainingExact DEF WaitsForWhatComes
  <2>2. CASE ReadBody
    BY <2>2 DEF ReadBody, WaitsForWhatComes, Inv, TypeOK
  <2>3. CASE UNCHANGED <<remaining, unread>> /\ (mpc' = mpc \/ mpc' # "body")
    BY <2>3 DEF WaitsForWhatComes
  <2>4. \/ ReadBody \/ \E c \in Conns : PostArrives(c)
        \/ UNCHANGED <<remaining, unread>> /\ (mpc' = mpc \/ mpc' # "body")
    BY DEF Next, Connect, Accept, Read, Rejected, GetArrives, UploadArrives, RunArrives,
           Task, OpenFile, CloseFile, Fails, Launch, Answer, Delete, Job, ChildEnds,
           LeftEnds, ClosePipes, AllServed, vars, mainVars
  <2> QED BY <2>1, <2>2, <2>3, <2>4
<1> QED BY <1>1, <1>2, Invariance, PTL DEF Spec
=============================================================================
