------------------------------- MODULE Requests -------------------------------
(***************************************************************************)
(* How request2task (psirver.cc) and the task factory (TaskFactory.cc)     *)
(* make a task of what a client sends.  A client sends a text, a sequence  *)
(* of tokens: a token stands for a run of characters that no search of the *)
(* code cuts in two, "rn" for a line end, a numeral for its digits; sizes  *)
(* count tokens.  The bytes arrive in chunks of any size.  Positions start *)
(* at 1, and npos is 0.  What the client asks for is its text, the answer  *)
(* that its meaning calls for, and whether the code is known to depart     *)
(* from that (module MCRequests).                                          *)
(***************************************************************************)
EXTENDS Integers, Sequences, SequencesExt

CONSTANTS
  Asked,        \* the requests: [text, means, departs]
  MaxRequest,   \* MAX_REQUEST_SZ
  BufferSize,   \* READ_BUFFER_SZ
  Wrap,         \* a size_t is counted modulo this: more than any client sends
  MaxInt,       \* the largest int
  Numerals,     \* the tokens that are numbers,
  Value         \* and the numbers that they are

ASSUME RequestsAssumption ==
  /\ MaxRequest \in Nat \ {0} /\ BufferSize \in Nat \ {0} /\ MaxInt \in Nat
  /\ Value \in [Numerals -> Int]
  /\ Wrap \in Nat /\ MaxRequest < Wrap
  /\ \A a \in Asked : a.text \in Seq(STRING) /\ Len(a.text) < Wrap

VARIABLES
  ask,          \* what the client wants, and what it sends
  taken,        \* how much of its text has been read
  pc,           \* request2task: "head", "dispatch", "body", "done"
  request,      \* what has been read for the head,
  headers, body, remaining,   \* and what has become of it
  outcome       \* how it ended: with a "GET" or "POST" task that was tried, or
                \* with "400", "405", "411" or "413"; None as long as it has not

post == <<headers, body, remaining>>
vars == <<ask, taken, pc, request, post, outcome>>
-----------------------------------------------------------------------------
(* std::string: find, substr, compare(0, ...); std::stoi.                    *)

npos == 0

IsAt(s, i, t) == i + Len(t) - 1 <= Len(s) /\ SubSeq(s, i, i + Len(t) - 1) = t
Find(s, t, from) ==
  LET at == {i \in from..Len(s) : IsAt(s, i, t)}
  IN  IF at = {} THEN npos ELSE CHOOSE i \in at : \A j \in at : i <= j
From(s, i) == SubSeq(s, i, Len(s))
StartsWith(s, t) == IsPrefix(t, s)

(* stoi stops at the first character that is no digit, and throws when there *)
(* are no digits or too many.                                                *)
IsInt(s) == s # <<>> /\ s[1] \in Numerals /\ Value[s[1]] <= MaxInt
Stoi(s)  == s[1]

RN          == <<"rn">>
EndOfHeader == <<"rn", "rn">>
GET         == <<"GET", " ">>
POST        == <<"POST", " ">>
Null        == <<>>                         \* nullptr
None        == "none"                       \* no error, no outcome yet
-----------------------------------------------------------------------------
(* The GET routes.                                                           *)

PathFrom(head) ==
  LET sp1 == Find(head, <<" ">>, 1)
      sp2 == Find(head, <<" ">>, sp1 + 1)
  IN  IF \/ sp1 = npos \/ sp1 + 1 > Len(head) \/ head[sp1 + 1] # "/"
         \/ sp2 = npos
      THEN <<>> ELSE SubSeq(head, sp1 + 1, sp2 - 1)

Routes  == {"health", "jobs", "scripts", "teapot"}
Actions == {"stderr", "stdout", "terminate", "purge"}

JobId(rest, slash) ==
  IF slash = npos THEN From(rest, 2) ELSE SubSeq(rest, 2, slash - 1)

JobTask(rest) ==
  LET slash  == Find(rest, <<"/">>, 2)
      id     == JobId(rest, slash)
      action == From(rest, slash + 1)
  IN  IF rest[1] # "/" \/ ~IsInt(id) THEN Null
      ELSE IF slash = npos THEN <<"status", Stoi(id)>>
      ELSE IF Len(action) = 1 /\ action[1] \in Actions THEN <<action[1], Stoi(id)>>
      ELSE Null

ScriptTask(rest) ==
  LET slash == Find(rest, <<"/">>, 2)
      id    == SubSeq(rest, 2, slash - 1)
  IN  IF \/ rest[1] # "/" \/ slash = npos \/ ~IsInt(id)
         \/ From(rest, slash + 1) # <<"delete">>
      THEN Null ELSE <<"delete", Stoi(id)>>

GetTask(head) ==
  LET path == PathFrom(head)
  IN  IF Len(path) = 2 /\ path[1] = "/" /\ path[2] \in Routes THEN <<path[2]>>
      ELSE IF StartsWith(path, <<"/", "jobs">>)    THEN JobTask(From(path, 3))
      ELSE IF StartsWith(path, <<"/", "scripts">>) THEN ScriptTask(From(path, 3))
      ELSE Null
-----------------------------------------------------------------------------
(* POST: an upload.                                                          *)

Multipart   == "Content-Type: multipart/form-data; boundary="
Disposition == "Content-Disposition: form-data; name=\"file\"; filename=\""
Quote       == "\""

Boundary(head) ==
  LET ct     == Find(head, <<Multipart>>, 1)
      rest   == From(head, ct + 1)
      ct_end == Find(rest, RN, 1)
  IN  IF ct_end = npos THEN rest ELSE SubSeq(rest, 1, ct_end - 1)

ClosingMut(boundary) == <<"rn", "--">> \o boundary
Closing(boundary) == <<"rn", "--">> \o boundary \o <<"--">>

(* data_end is not searched from data_start: the length may wrap around, and *)
(* substr then takes all there is.                                           *)
Substr(s, first, end) == SubSeq(s, first, IF end < first THEN Len(s) ELSE end - 1)

UploadTask(head, content) ==
  LET boundary   == Boundary(head)
      part_start == Find(content, <<"--">> \o boundary, 1)
      eoh        == Find(content, EndOfHeader, part_start)
      data_end   == Find(content, Closing(boundary), 1)
      cd         == Find(content, <<Disposition>>, 1)
      fname_end  == Find(content, <<Quote>>, cd + 1)
  IN  IF \/ Find(head, <<Multipart>>, 1) = npos \/ part_start = npos \/ eoh = npos
         \/ data_end = npos \/ cd = npos \/ fname_end = npos
      THEN Null
      ELSE <<"upload", SubSeq(content, cd + 1, fname_end - 1),
                       Substr(content, eoh + 2, data_end)>>
-----------------------------------------------------------------------------
(* POST: a run.                                                              *)

Form == "Content-Type: application/x-www-form-urlencoded"

(* getline: an item ends at a comma or, if it is not empty, with the text.   *)
Commas(s) == IF s = <<>> \/ Last(s) = "," THEN s ELSE s \o <<",">>
Split(s) ==
  LET text     == Commas(s)
      ends     == {i \in DOMAIN text : text[i] = ","}
      nth(k)   == CHOOSE e \in ends : Cardinality({d \in ends : d <= e}) = k
      after(e) == Max({0} \cup {d \in ends : d < e}) + 1
  IN  [k \in 1..Cardinality(ends) |-> SubSeq(text, after(nth(k)), nth(k) - 1)]

RunTask(head, content, rest) ==
  LET slash == Find(rest, <<"/">>, 1)
      id    == SubSeq(rest, 1, slash - 1)
      args  == Find(content, <<"args=">>, 1)
  IN  IF \/ slash = npos \/ slash = 1 \/ From(rest, slash + 1) # <<"run">>
         \/ ~IsInt(id) \/ Find(head, <<Form>>, 1) = npos \/ args = npos
      THEN Null ELSE <<"run", Stoi(id), Split(From(content, args + 1))>>

PostTask(head, content) ==
  LET path == PathFrom(head)
  IN  IF ~StartsWith(path, <<"/", "scripts", "/">>) THEN Null
      ELSE IF From(path, 4) = <<"upload">> THEN UploadTask(head, content)
      ELSE RunTask(head, content, From(path, 4))
-----------------------------------------------------------------------------
(* parse_content_length: the error that it replies, if any, and the length.  *)

ContentLength == "Content-Length: "

(* A negative number is converted to size_t first.                           *)
TooLargeMut(n) == n > MaxRequest
TooLarge(n) == n < 0 \/ n > MaxRequest

LengthError(head) ==
  LET pos  == Find(head, <<ContentLength>>, 1)
      rest == From(head, pos + 1)
  IN  IF pos = npos THEN "411"
      ELSE IF Find(rest, RN, 1) = npos \/ ~IsInt(rest) THEN "400"
      ELSE IF TooLarge(Value[Stoi(rest)]) THEN "413"
      ELSE None

Length(head) == Value[Stoi(From(head, Find(head, <<ContentLength>>, 1) + 1))]
-----------------------------------------------------------------------------
(* What there is to make of a text, of its head and of as much after it as is *)
(* announced: the task that is returned, or the error that is replied, or no   *)
(* answer at all as long as the body is shorter than that.                    *)

HeadOf(text) == SubSeq(text, 1, Find(text, EndOfHeader, 1) - 1)
Sent(text)   == From(text, Find(text, EndOfHeader, 1) + Len(EndOfHeader))
BodyOf(text) == SubSeq(Sent(text), 1, Length(HeadOf(text)))

Unanswered      == <<None>>
OrRefused(task) == IF task = Null THEN <<"400">> ELSE task

AnswerTo(text) ==
  LET head == HeadOf(text)
  IN  IF Find(text, EndOfHeader, 1) = npos THEN <<"400">>
      ELSE IF StartsWith(text, GET) THEN OrRefused(GetTask(head))
      ELSE IF ~StartsWith(text, POST) THEN <<"405">>
      ELSE IF LengthError(head) # None THEN <<LengthError(head)>>
      ELSE IF Len(Sent(text)) < Length(head) THEN Unanswered
      ELSE OrRefused(PostTask(head, BodyOf(text)))
-----------------------------------------------------------------------------
(* request2task, one chunk at a time.                                        *)

Init ==
  /\ ask \in Asked /\ taken = 0
  /\ pc = "head" /\ request = <<>>
  /\ headers = <<>> /\ body = <<>> /\ remaining = 0 /\ outcome = None

(* read: <<>> is the end of what the client sends.                           *)
Chunks(limit) ==
  {SubSeq(ask.text, taken + 1, taken + n) :
     n \in {m \in 0..BufferSize : /\ m <= limit /\ taken + m <= Len(ask.text)
                                  /\ m = 0 => taken = Len(ask.text)}}
Reads(chunk) == taken' = taken + Len(chunk) /\ UNCHANGED ask

header_endMut == Find(request, RN, 1)      \* the end of the first line
header_end == Find(request, EndOfHeader, 1)

FullMut(text) == Len(text) > MaxRequest
Full(text)    == Len(text) >= MaxRequest

ReadHead ==
  /\ pc = "head"
  /\ \E chunk \in Chunks(BufferSize) :
       /\ Reads(chunk) /\ request' = request \o chunk
       /\ pc' = IF chunk = <<>> \/ header_end' # npos \/ Full(request')
                THEN "dispatch" ELSE "head"
  /\ UNCHANGED <<post, outcome>>

Over(how) == pc' = "done" /\ outcome' = how

TooLongMut == FALSE
TooLong    == Len(request) > MaxRequest
Refused ==
  /\ TooLong \/ header_end = npos
  /\ Over(IF TooLong THEN "413" ELSE "400") /\ UNCHANGED post

HeadIs(method) ==
  /\ ~TooLong /\ header_end # npos
  /\ headers' = SubSeq(request, 1, header_end - 1)
  /\ method = CASE StartsWith(request, GET)  -> "GET"
                [] StartsWith(request, POST) -> "POST"
                [] OTHER -> "other"

NoMethod == HeadIs("other") /\ Over("405") /\ UNCHANGED <<body, remaining>>
Get      == HeadIs("GET") /\ Over("GET") /\ UNCHANGED <<body, remaining>>

SkipMut == Len(EndOfHeader) + 1            \* the sizeof counts the final 0
Skip    == Len(EndOfHeader)

(* It wraps around when more than was announced has come with the head.       *)
Remaining(length, have) == (length + Wrap - have) % Wrap

PostRefused ==
  /\ HeadIs("POST") /\ LengthError(headers') # None
  /\ Over(LengthError(headers')) /\ UNCHANGED <<body, remaining>>
Post ==
  /\ HeadIs("POST") /\ LengthError(headers') = None
  /\ body' = From(request, header_end + Skip)
  /\ remaining' = Remaining(Length(headers'), Len(body'))
  /\ pc' = "body" /\ UNCHANGED outcome

Dispatch ==
  /\ pc = "dispatch" /\ (Refused \/ NoMethod \/ Get \/ PostRefused \/ Post)
  /\ UNCHANGED <<ask, taken, request>>

ReadBody ==
  /\ pc = "body" /\ remaining > 0
  /\ \E chunk \in Chunks(remaining) :
       Reads(chunk) /\ body' = body \o chunk /\ remaining' = remaining - Len(chunk)
  /\ UNCHANGED <<pc, request, headers, outcome>>

Construct ==
  /\ pc = "body" /\ remaining = 0 /\ Over("POST")
  /\ UNCHANGED <<ask, taken, request, post>>

Answered == pc = "done" /\ UNCHANGED vars

Next == ReadHead \/ Dispatch \/ ReadBody \/ Construct \/ Answered

(* The client sends all of its text and the main thread goes on.             *)
Spec     == Init /\ [][Next]_vars
FairSpec == Spec /\ WF_vars(Next)
(* The task that is returned, or else the error that is replied.              *)
answer == CASE outcome = "GET"  -> OrRefused(GetTask(headers))
            [] outcome = "POST" -> OrRefused(PostTask(headers, body))
            [] OTHER            -> <<outcome>>
-----------------------------------------------------------------------------
(* Properties.                                                               *)

HeadSizeOf(text) == LET end == Find(text, EndOfHeader, 1)
                    IN  IF end = npos THEN Len(text) ELSE end + 1
HeadSize   == HeadSizeOf(ask.text)
Fits(text) == HeadSizeOf(text) + BufferSize <= MaxRequest + 1

(* Types; no more is read for a head than MAX_REQUEST_SZ and part of a buffer *)
(* (psirver.cc:178), and the body that is waited for has a sane length,       *)
(* whatever number was announced, unless more than that came with the head.   *)
TypeOK ==
  /\ pc \in {"head", "dispatch", "body", "done"} /\ taken \in 0..Len(ask.text)
  /\ Len(request) < MaxRequest + BufferSize /\ remaining \in 0..(Wrap - 1)
  /\ pc = "body" =>
       /\ Length(headers) \in 0..MaxRequest
       /\ Len(body) + remaining = Length(headers) \/ Len(body) > Length(headers)
  /\ outcome = None <=> pc # "done"

(* A request whose head fits becomes what its client means by it, however its *)
(* bytes are cut into chunks: the task that the route names, with its id, the *)
(* name and the very content of the file, or the arguments; and otherwise the *)
(* error that is due.  The requests that depart from this are those that are  *)
(* named so, no fewer and no more.                                            *)
AsAsked(a, ans) == ans = a.means <=> ~a.departs
AnsweredAsAsked == pc = "done" /\ Fits(ask.text) => AsAsked(ask, answer)

(* The chunks do not matter: where the head fits, the loops over the chunks    *)
(* make of a text what there is to make of it when it comes in one piece, if   *)
(* they end; they do not for a body that is cut short.                         *)
ChunksDoNotMatter == pc = "done" /\ Fits(ask.text) => answer = AnswerTo(ask.text)

(* A head that is too long, or never ends, is never made a task.              *)
LongHeadRefused == pc = "done" /\ HeadSize > MaxRequest =>
  outcome \notin {"GET", "POST"}

(* Who sends the body that it announces is answered: the main thread does not *)
(* wait for more, nor for less.                                               *)
AsAnnounced(text) ==
  LET head == HeadOf(text)
  IN  /\ Find(text, EndOfHeader, 1) # npos /\ StartsWith(text, POST)
      /\ LengthError(head) = None
      => Len(Sent(text)) = Length(head)
AlwaysAnswered == AsAnnounced(ask.text) ~> pc = "done"
=============================================================================
