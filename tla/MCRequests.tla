------------------------------ MODULE MCRequests ------------------------------
(***************************************************************************)
(* The requests of module Requests for TLC, and what each one means, told  *)
(* from the side of the client and of what TaskFactory.cc says of its      *)
(* routes: texts are put together from their parts, none is taken apart.   *)
(* A path that no route makes means 400.  Where the code is known to       *)
(* answer otherwise, the request says that it departs.                     *)
(***************************************************************************)
EXTENDS Requests, TLC

MCNumbers  == -1..(MaxRequest + 1)
MCNumerals == {ToString(n) : n \in MCNumbers} \cup {"huge"}
MCValue ==
  [t \in MCNumerals |-> IF t = "huge" THEN MaxInt + 1
                        ELSE CHOOSE n \in MCNumbers : ToString(n) = t]

Ask(text, means) == [text |-> text, means |-> means, departs |-> FALSE]
Departs(text, means) == [text |-> text, means |-> means, departs |-> TRUE]
Error(code) == <<code>>
Id == "7"
Words == {"jobs", "scripts", Id, "x", "stdout", "delete", "run"}

(* What may follow an id that makes it no integer: no task is to be made of    *)
(* it (TaskFactory.cc:44), but stoi leaves it out, and one is.                 *)
Junk == {j \in BoundedSeq(Words, 2) : j # <<>> /\ j[1] # Id}
-----------------------------------------------------------------------------
(* GET.                                                                      *)

GetText(path, end) == <<"GET", " ">> \o path \o end \o <<"rn", "h">> \o EndOfHeader

IdPaths(id) ==
     {Ask(<<"/", "jobs", "/">> \o id, <<"status", Id>>)}
  \cup {Ask(<<"/", "jobs", "/">> \o id \o <<"/", a>>, <<a, Id>>) :
          a \in {"stdout", "stderr", "terminate", "purge"}}
  \cup {Ask(<<"/", "scripts", "/">> \o id \o <<"/", "delete">>, <<"delete", Id>>)}
Valid == IdPaths(<<Id>>)
  \cup {Ask(<<"/", r>>, <<r>>) : r \in {"health", "teapot", "jobs", "scripts"}}
Loose == UNION {IdPaths(<<Id>> \o j) : j \in Junk}

(* Two ids in a row would be one.                                            *)
Single(s) == \A i \in 1..Len(s) - 1 : s[i] # Id \/ s[i + 1] # Id
Paths == {<<"/">> \o s : s \in {t \in BoundedSeq({"/"} \cup (Words \ {"run", "x"}), 5) : Single(t)}}
BadPaths == Paths \ {v.text : v \in Valid \cup Loose}

Gets ==
  LET end == <<" ", "v">>
  IN     {Ask(GetText(v.text, e), v.means) : v \in Valid, e \in {end, <<" ", "/", " ">>}}
    \cup {Departs(GetText(v.text, end), Error("400")) : v \in Loose}
    \cup {Ask(GetText(p, end), Error("400")) : p \in BadPaths}
    \cup {Ask(GetText(<<"/", "jobs", "/", n>>, end), Error("400")) : n \in {"huge", " "}}
    \cup {Ask(GetText(v.text, <<>>), Error("400")) : v \in Valid}
    \cup {Ask(GetText(<<"x">> \o v.text, end), Error("400")) : v \in Valid}
-----------------------------------------------------------------------------
(* POST: the head has a line, a content type and the length of the body.     *)

Line(path) == <<"POST", " ">> \o path \o <<" ", "v">>
LengthOf(s) == <<ContentLength, ToString(Len(s))>>

PostText(path, type, content) ==
  Line(path) \o RN \o LengthOf(content) \o RN \o type \o EndOfHeader \o content
TypeFirst(path, type, content) ==
  Line(path) \o RN \o type \o RN \o LengthOf(content) \o <<"rn", "h">> \o EndOfHeader
    \o content

B    == <<"b">>                             \* the boundary
End  == <<"rn", "--">> \o B \o <<"--">>
Part(name, data) ==
  <<"--">> \o B \o <<"rn", Disposition>> \o name \o <<Quote>> \o EndOfHeader \o data
UploadPath == <<"/", "scripts", "/", "upload">>
UploadType == <<Multipart>> \o B

(* What a client may choose for its boundary: it ends nothing in the file.   *)
Clean(data) ==
  LET s == RN \o data \o End
  IN  \A i \in 1..Len(data) + 1 : SubSeq(s, i, i + 3) # End
Files == {d \in BoundedSeq({"x", "rn", "--", "b", Quote}, 3) : Clean(d)}
FileNames == {<<>>, <<"x">>, <<"x", "--">>}

Uploads ==
       {Ask(PostText(UploadPath, UploadType, Part(n, d) \o End), <<"upload", n, d>>) :
          n \in FileNames, d \in Files}
  \cup {Ask(TypeFirst(UploadPath, UploadType, Part(n, d) \o End), <<"upload", n, d>>) :
          n \in FileNames, d \in Files}
  \cup {LET all == Part(<<"x">>, d) \o End
        IN  Ask(PostText(UploadPath, UploadType, SubSeq(all, 1, Len(all) - k)),
                Error("400")) : d \in {f \in Files : Len(f) <= 1}, k \in 1..12}
  \cup {Ask(PostText(UploadPath, t, Part(<<"x">>, <<"x">>) \o End), Error("400")) :
          t \in {<<Multipart, "x">>, <<Form>>, <<"h">>}}
-----------------------------------------------------------------------------
(* A run: a last argument that is empty is not one.                          *)

Join(list) == FoldLeft(LAMBDA s, item : s \o <<",">> \o item, <<>>, list)
ArgText(list) == <<"args=">> \o Tail(Join(list))
ArgLists == BoundedSeq(BoundedSeq({"x", Id}, 1), 3) \ {<<>>}
ArgsOf(list) == IF Last(list) = <<>> THEN Front(list) ELSE list

RunPath(id)  == <<"/", "scripts", "/", id, "/", "run">>
LooseRuns   == {<<"/", "scripts", "/", Id>> \o j \o <<"/", "run">> : j \in Junk}
PostPaths ==
  {<<"/">> \o s : s \in {t \in BoundedSeq({"/", "scripts", Id, "run"}, 5) : Single(t)}}

Runs ==
       {Ask(PostText(RunPath(Id), <<Form>>, ArgText(l)), <<"run", Id, ArgsOf(l)>>) :
          l \in ArgLists}
  \cup {Departs(PostText(p, <<Form>>, ArgText(<< <<"x">> >>)), Error("400")) :
          p \in LooseRuns}
  \cup {Ask(PostText(p, <<Form>>, ArgText(<< <<"x">> >>)), Error("400")) :
          p \in (PostPaths \ (LooseRuns \cup {RunPath(Id)})) \cup {RunPath("huge"), UploadPath}}
  \cup {Ask(PostText(RunPath(Id), t, <<"x">>), Error("400")) : t \in {<<Form>>, <<"h">>}}
-----------------------------------------------------------------------------
(* Lengths, other methods, and heads that are long or never end.  The code   *)
(* departs in two cases: a length that comes as the last of the headers is   *)
(* not accepted (psirver.cc:108), and a negative one is too large (line 123). *)

RunHead(length, rest) ==
  Line(RunPath(Id)) \o <<"rn", Form, "rn">> \o length \o rest

Lengths ==
       {Ask(RunHead(<<ContentLength, n[1], "rn", "h">>, EndOfHeader), Error(n[2])) :
          n \in {<<"x", "400">>, <<"huge", "400">>, <<ToString(MaxRequest + 1), "413">>, <<"0", "400">>}}
  \cup {Departs(RunHead(<<ContentLength, "-1", "rn", "h">>, EndOfHeader), Error("400")),
        Ask(RunHead(<<"h">>, EndOfHeader), Error("411")),
        Departs(RunHead(<<ContentLength, "2">>, EndOfHeader \o <<"args=", "x">>),
                <<"run", Id, << <<"x">> >>>>)}
  \cup {LET args == [i \in 1..(MaxRequest - 1) |-> "x"]
        IN  Ask(RunHead(<<ContentLength, ToString(MaxRequest), "rn", "h">>,
                        EndOfHeader \o <<"args=">> \o args), <<"run", Id, <<args>>>>)}

(* A line end after the body, as some clients send it; and a body cut short,  *)
(* which is due no answer.                                                    *)
Inexact ==
       {Ask(RunHead(<<ContentLength, "2", "rn", "h">>, EndOfHeader)
              \o <<"args=", "x">> \o [i \in 1..n |-> "rn"], <<"run", Id, << <<"x">> >>>>) :
          n \in 1..2}
  \cup {Ask(RunHead(<<ContentLength, "3", "rn", "h">>, EndOfHeader) \o <<"args=", "x">>,
            Unanswered)}

Others ==
       {Ask(<<"DELETE", " ", "/", "scripts", " ", "v">> \o EndOfHeader, Error("405"))}
  \cup {Ask(<<"GET", " ", "/", "health", " ", "v", "rn">> \o [i \in 1..n |-> "h"]
              \o EndOfHeader, <<"health">>) : n \in 0..(MaxRequest + BufferSize)}
  \cup {Ask(SubSeq(RunHead(<<"h">>, EndOfHeader), 1, n), Error("400")) : n \in 0..14}
  \cup {Ask(<<"GET", " ", "/", "health", " ", "v", "rn">> \o [i \in 1..n |-> "h"],
            Error("400")) : n \in 0..(MaxRequest + BufferSize)}

MCAsked == Gets \cup Uploads \cup Runs \cup Lengths \cup Inexact \cup Others
=============================================================================
