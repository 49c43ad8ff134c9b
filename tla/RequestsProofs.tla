---------------------------- MODULE RequestsProofs ----------------------------
(***************************************************************************)
(* Requests' loop over the chunks of a head, for texts and buffers of any  *)
(* size: what has been read is a prefix of what the client sends, so a     *)
(* head that is found in it is where the client has put it.                *)
(***************************************************************************)
EXTENDS Requests, SequenceTheorems, FiniteSetTheorems, TLAPS

HeadInv ==
  /\ ask \in Asked /\ taken \in 0..Len(ask.text)
  /\ pc \in {"head", "dispatch"} => request = SubSeq(ask.text, 1, taken)
  /\ pc = "body" \/ outcome \in {"GET", "POST"} => HeadSize <= MaxRequest
-----------------------------------------------------------------------------
(* find: there is a first position where there is one at all.                *)

LEMMA LeastElement ==
  ASSUME NEW n \in Nat, NEW S \in SUBSET (1..n), S # {}
  PROVE  \E i \in S : \A j \in S : i <= j
<1> DEFINE Below(i) == {x \in S : x <= i}
           T == {Below(i) : i \in S}
<1>1. IsFiniteSet(1..n)
  <2>1. 1 \in Int /\ n \in Int
    OBVIOUS
  <2> QED BY <2>1, FS_Interval
<1>2. T \subseteq FiniteSubsetsOf(1..n) /\ T # {}
  <2>1. \A i \in S : Below(i) \in SUBSET (1..n)
    OBVIOUS
  <2>2. FiniteSubsetsOf(1..n) = SUBSET (1..n)
    BY <1>1, FS_FiniteSubsetsOfFinite
  <2>3. PICK i \in S : TRUE
    OBVIOUS
  <2>4. Below(i) \in T
    BY <2>3
  <2>5. \A B \in T : B \in SUBSET (1..n)
    BY <2>1
  <2> HIDE DEF T
  <2> QED BY <2>2, <2>4, <2>5
<1>3. PICK B \in T : \A C \in T : <<C, B>> \notin StrictSubsetOrdering(1..n)
  BY <1>2, WFMin, FS_StrictSubsetOrderingWellFounded
<1>4. PICK i \in S : B = Below(i)
  OBVIOUS
<1>5. ASSUME NEW j \in S PROVE i <= j
  <2> SUFFICES ASSUME j < i PROVE FALSE
    OBVIOUS
  <2>1. Below(j) \subseteq Below(i) /\ i \in Below(i) /\ i \notin Below(j)
    <3>1. S \subseteq Int
      OBVIOUS
    <3>2. \A x \in S : x <= j => x <= i
      BY <3>1
    <3>3. i <= i /\ ~(i <= j)
      BY <3>1
    <3> QED BY <3>2, <3>3
  <2>2. <<Below(j), B>> \in StrictSubsetOrdering(1..n)
    BY <2>1, <1>4 DEF StrictSubsetOrdering
  <2> QED BY <2>2, <1>3
<1> QED BY <1>5

LEMMA FindFirst ==
  ASSUME NEW s \in Seq(STRING), NEW t, NEW i \in 1..Len(s), IsAt(s, i, t)
  PROVE  Find(s, t, 1) \in 1..i
<1> DEFINE at == {j \in 1..Len(s) : IsAt(s, j, t)}
<1>1. at # {} /\ at \in SUBSET (1..Len(s)) /\ Len(s) \in Nat
  OBVIOUS
<1>2. \E k \in at : \A j \in at : k <= j
  BY <1>1, LeastElement
<1>3. Find(s, t, 1) = CHOOSE k \in at : \A j \in at : k <= j
  BY <1>1 DEF Find
<1> QED BY <1>2, <1>3

(* What is found is there.                                                   *)
LEMMA FoundIsThere ==
  ASSUME NEW s \in Seq(STRING), NEW t, Find(s, t, 1) # npos
  PROVE  Find(s, t, 1) \in 1..Len(s) /\ IsAt(s, Find(s, t, 1), t)
<1> DEFINE at == {j \in 1..Len(s) : IsAt(s, j, t)}
<1>1. at # {} /\ at \in SUBSET (1..Len(s)) /\ Len(s) \in Nat
  BY DEF Find
<1>2. \E k \in at : \A j \in at : k <= j
  BY <1>1, LeastElement
<1>3. Find(s, t, 1) = CHOOSE k \in at : \A j \in at : k <= j
  BY <1>1 DEF Find
<1> QED BY <1>2, <1>3

LEMMA PrefixLength ==
  ASSUME NEW s \in Seq(STRING), NEW n \in 0..Len(s)
  PROVE  SubSeq(s, 1, n) \in Seq(STRING) /\ Len(SubSeq(s, 1, n)) = n
<1>1. 1 \in Int /\ n \in Int
  OBVIOUS
<1>2. \A i \in 1..n : s[i] \in STRING
  BY ElementOfSeq
<1> QED BY <1>1, <1>2, SubSeqProperties

(* What follows the first a tokens, up to the nth.                            *)
LEMMA RestLength ==
  ASSUME NEW s \in Seq(STRING), NEW n \in 0..Len(s), NEW e \in 1..n, e + 1 <= n
  PROVE  Len(SubSeq(s, e + 2, n)) = n - e - 1
<1> DEFINE lo == e + 2
<1>1. lo \in Int /\ n \in Int /\ \A i \in lo..n : s[i] \in STRING
  <2>1. \A i \in lo..n : i \in 1..Len(s)
    OBVIOUS
  <2> QED BY <2>1, ElementOfSeq
<1>2. (lo <= n <=> n - e - 1 # 0) /\ n - lo + 1 = n - e - 1
  OBVIOUS
<1> HIDE DEF lo
<1>3. Len(SubSeq(s, lo, n)) = IF lo <= n THEN n - lo + 1 ELSE 0
  BY <1>1, SubSeqProperties
<1>4. Len(SubSeq(s, lo, n)) = n - e - 1
  BY <1>2, <1>3
<1> QED BY <1>4 DEF lo

(* What is at a place of a prefix is there in the whole.                      *)
LEMMA AtInPrefix ==
  ASSUME NEW s \in Seq(STRING), NEW n \in 0..Len(s), NEW i \in 1..n, i + 1 <= n
  PROVE  IsAt(SubSeq(s, 1, n), i, EndOfHeader) <=> IsAt(s, i, EndOfHeader)
<1>1. Len(EndOfHeader) = 2 /\ i + Len(EndOfHeader) - 1 = i + 1
  BY DEF EndOfHeader
<1>2. Len(SubSeq(s, 1, n)) = n
  BY PrefixLength
<1>3. 1 \in 1..Len(s) /\ n \in 1..Len(s) /\ i \in 1..(n - 1 + 1) /\ i + 1 \in 1..(n - 1 + 1)
  OBVIOUS
<1>4. SubSeq(SubSeq(s, 1, n), i, i + 1) = SubSeq(s, 1 + i - 1, 1 + (i + 1) - 1)
  BY <1>3, SubSeqOfSubSeq
<1>5. 1 + i - 1 = i /\ 1 + (i + 1) - 1 = i + 1
  OBVIOUS
<1>6. SubSeq(SubSeq(s, 1, n), i, i + 1) = SubSeq(s, i, i + 1)
  BY <1>4, <1>5
<1>7. i + 1 <= Len(s) /\ i + 1 <= n
  OBVIOUS
<1> QED BY <1>1, <1>2, <1>6, <1>7 DEF IsAt

(* The end of a head that is found in a prefix is that of the whole.          *)
LEMMA HeadInPrefix ==
  ASSUME NEW s \in Seq(STRING), NEW n \in 0..Len(s),
         Find(SubSeq(s, 1, n), EndOfHeader, 1) # npos
  PROVE  /\ Find(s, EndOfHeader, 1) = Find(SubSeq(s, 1, n), EndOfHeader, 1)
         /\ Find(s, EndOfHeader, 1) \in 1..n
         /\ Find(s, EndOfHeader, 1) + 1 <= n
<1> DEFINE p == SubSeq(s, 1, n)
           e == Find(p, EndOfHeader, 1)
           f == Find(s, EndOfHeader, 1)
<1>1. p \in Seq(STRING) /\ Len(p) = n
  BY PrefixLength
<1>2. e \in 1..n /\ IsAt(p, e, EndOfHeader)
  BY <1>1, FoundIsThere
<1>3. e + 1 <= n
  BY <1>1, <1>2 DEF IsAt, EndOfHeader
<1>4. IsAt(s, e, EndOfHeader) /\ e \in 1..Len(s)
  BY <1>2, <1>3, AtInPrefix
<1>5. f \in 1..e
  BY <1>4, FindFirst
<1>6. IsAt(s, f, EndOfHeader)
  BY <1>5, FoundIsThere DEF npos
<1>7. f \in 1..n /\ f + 1 <= n
  BY <1>2, <1>3, <1>5
<1>8. IsAt(p, f, EndOfHeader)
  BY <1>6, <1>7, AtInPrefix
<1>9. e \in 1..f
  BY <1>1, <1>7, <1>8, FindFirst
<1>10. e = f
  BY <1>2, <1>5, <1>9
<1> QED BY <1>7, <1>10

(* A head that fits into a prefix is found in it.                             *)
LEMMA FoundInPrefix ==
  ASSUME NEW s \in Seq(STRING), NEW n \in 0..Len(s),
         Find(s, EndOfHeader, 1) # npos, Find(s, EndOfHeader, 1) + 1 <= n
  PROVE  Find(SubSeq(s, 1, n), EndOfHeader, 1) # npos
<1> DEFINE f == Find(s, EndOfHeader, 1)
           p == SubSeq(s, 1, n)
<1>1. f \in 1..Len(s) /\ IsAt(s, f, EndOfHeader)
  BY FoundIsThere
<1>2. f \in 1..n /\ f + 1 <= n
  BY <1>1
<1>3. IsAt(p, f, EndOfHeader)
  BY <1>1, <1>2, AtInPrefix
<1>4. p \in Seq(STRING) /\ Len(p) = n
  BY PrefixLength
<1>5. Find(p, EndOfHeader, 1) \in 1..f
  BY <1>2, <1>3, <1>4, FindFirst
<1> QED BY <1>5, <1>2 DEF npos

(* A part of a prefix is that part of the whole.                              *)
LEMMA PartOfPrefix ==
  ASSUME NEW s \in Seq(STRING), NEW n \in 0..Len(s), NEW i \in 1..n + 1, NEW j \in 0..n
  PROVE  SubSeq(SubSeq(s, 1, n), i, j) = SubSeq(s, i, j)
<1>1. CASE j < i
  <2>1. i \in Int /\ j \in Int
    OBVIOUS
  <2> QED BY <1>1, <2>1, SubSeqEmpty
<1>2. CASE i <= j
  <2>1. 1 \in 1..Len(s) /\ n \in 1..Len(s) /\ i \in 1..(n - 1 + 1) /\ j \in 1..(n - 1 + 1)
    BY <1>2
  <2>2. SubSeq(SubSeq(s, 1, n), i, j) = SubSeq(s, 1 + i - 1, 1 + j - 1)
    BY <2>1, SubSeqOfSubSeq
  <2>3. 1 + i - 1 = i /\ 1 + j - 1 = j
    OBVIOUS
  <2> QED BY <2>2, <2>3
<1> QED BY <1>1, <1>2

(* A prefix that holds a head begins as the whole does.                       *)
LEMMA SameMethod ==
  ASSUME NEW s \in Seq(STRING), NEW n \in 2..Len(s), NEW t, Len(t) = 2
  PROVE  StartsWith(SubSeq(s, 1, n), t) = StartsWith(s, t)
<1>1. SubSeq(SubSeq(s, 1, n), 1, 2) = SubSeq(s, 1 + 1 - 1, 1 + 2 - 1)
  <2>1. 1 \in 1..Len(s) /\ n \in 1..Len(s) /\ 1 \in 1..(n - 1 + 1) /\ 2 \in 1..(n - 1 + 1)
    OBVIOUS
  <2> QED BY <2>1, SubSeqOfSubSeq
<1>2. Len(SubSeq(s, 1, n)) = n
  BY PrefixLength
<1>3. 1 + 1 - 1 = 1 /\ 1 + 2 - 1 = 2 /\ 2 <= n /\ 2 <= Len(s)
  OBVIOUS
<1> QED BY <1>1, <1>2, <1>3 DEF StartsWith, IsPrefix

(* What n tokens after the first a are: n tokens.                            *)
LEMMA ChunkLength ==
  ASSUME NEW s \in Seq(STRING), NEW a \in Nat, NEW n \in Nat, a + n <= Len(s)
  PROVE  Len(SubSeq(s, a + 1, a + n)) = n
<1>1. \A i \in (a + 1)..(a + n) : s[i] \in STRING
  <2> TAKE i \in (a + 1)..(a + n)
  <2>1. i \in 1..Len(s)
    OBVIOUS
  <2> QED BY <2>1, ElementOfSeq
<1>2. a + 1 \in Int /\ a + n \in Int
  OBVIOUS
<1> DEFINE lo == a + 1
           hi == a + n
<1>3. lo \in Int /\ hi \in Int /\ \A i \in lo..hi : s[i] \in STRING
  BY <1>1, <1>2
<1>4. (lo <= hi <=> n # 0) /\ hi - lo + 1 = n
  OBVIOUS
<1> HIDE DEF lo, hi
<1>5. Len(SubSeq(s, lo, hi)) = IF lo <= hi THEN hi - lo + 1 ELSE 0
  BY <1>3, SubSeqProperties
<1>6. Len(SubSeq(s, lo, hi)) = n
  BY <1>4, <1>5
<1> QED BY <1>6 DEF lo, hi
-----------------------------------------------------------------------------
(* The steps.                                                                *)

LEMMA TextIsSeq == HeadInv => ask.text \in Seq(STRING)
BY RequestsAssumption DEF HeadInv

LEMMA Initially == Init => HeadInv
<1> SUFFICES ASSUME Init PROVE HeadInv
  OBVIOUS
<1>1. ask.text \in Seq(STRING)
  BY RequestsAssumption DEF Init
<1>2. SubSeq(ask.text, 1, 0) = <<>>
  BY SubSeqEmpty
<1>3. 0 \in 0..Len(ask.text)
  BY <1>1, LenProperties
<1>4. ask \in Asked /\ taken = 0 /\ request = <<>> /\ pc = "head" /\ outcome = None
  BY DEF Init
<1> QED BY <1>2, <1>3, <1>4 DEF None, HeadInv

LEMMA HeadChunk ==
  ASSUME HeadInv, ReadHead
  PROVE  \E n \in 0..BufferSize :
           /\ ask' = ask /\ taken' = taken + n /\ taken' \in 0..Len(ask.text)
           /\ request' = SubSeq(ask.text, 1, taken')
           /\ n = 0 => pc' = "dispatch"
           /\ \/ n = 0 /\ taken = Len(ask.text) /\ pc' = "dispatch"
              \/ pc' = IF header_end' # npos \/ Full(request') THEN "dispatch" ELSE "head"
<1>1. PICK n \in {m \in 0..BufferSize : /\ m <= BufferSize /\ taken + m <= Len(ask.text)
                                        /\ m = 0 => taken = Len(ask.text)} :
        LET chunk == SubSeq(ask.text, taken + 1, taken + n)
        IN  /\ ask' = ask /\ taken' = taken + Len(chunk) /\ request' = request \o chunk
            /\ pc' = IF chunk = <<>> \/ header_end' # npos \/ Full(request')
                     THEN "dispatch" ELSE "head"
  BY DEF ReadHead, Chunks, Reads
<1> DEFINE chunk == SubSeq(ask.text, taken + 1, taken + n)
<1>2. ask.text \in Seq(STRING) /\ taken \in 0..Len(ask.text) /\ n \in Nat
  BY <1>1, TextIsSeq, RequestsAssumption DEF HeadInv
<1>3. Len(chunk) = n
  <2>1. taken \in Nat /\ taken + n <= Len(ask.text)
    BY <1>1, <1>2
  <2> QED BY <1>2, <2>1, ChunkLength
<1>4. request' = SubSeq(ask.text, 1, taken + n)
  <2>1. request = SubSeq(ask.text, 1, taken)
    BY DEF ReadHead, HeadInv
  <2>2. 1 \in 1..(Len(ask.text) + 1) /\ taken \in (1 - 1)..Len(ask.text)
        /\ taken + n \in taken..Len(ask.text)
    BY <1>1, <1>2
  <2>3. SubSeq(ask.text, 1, taken) \o SubSeq(ask.text, taken + 1, taken + n)
          = SubSeq(ask.text, 1, taken + n)
    BY <1>2, <2>2, ConcatAdjacentSubSeq
  <2> QED BY <1>1, <2>1, <2>3
<1>5. taken' = taken + n /\ taken' \in 0..Len(ask.text) /\ n \in 0..BufferSize
  BY <1>1, <1>2, <1>3
<1>6. chunk = <<>> => n = 0
  BY <1>3
<1>7. n = 0 => taken = Len(ask.text)
  BY <1>1
<1>8. pc' = IF chunk = <<>> \/ header_end' # npos \/ Full(request') THEN "dispatch" ELSE "head"
  BY <1>1
<1> HIDE DEF chunk
<1>9. \/ n = 0 /\ taken = Len(ask.text) /\ pc' = "dispatch"
      \/ pc' = IF header_end' # npos \/ Full(request') THEN "dispatch" ELSE "head"
  BY <1>6, <1>7, <1>8
<1>10. ask' = ask
  BY <1>1
<1>11. n = 0 => pc' = "dispatch"
  <2> SUFFICES ASSUME n = 0 PROVE chunk = <<>>
    BY <1>8
  <2>1. taken + 1 \in Int /\ taken \in Int /\ taken + n = taken /\ taken < taken + 1
    BY <1>2
  <2> QED BY <2>1, SubSeqEmpty DEF chunk
<1> QED BY <1>4, <1>5, <1>9, <1>10, <1>11

LEMMA ReadHeadStep == HeadInv /\ ReadHead => HeadInv'
<1> SUFFICES ASSUME HeadInv, ReadHead PROVE HeadInv'
  OBVIOUS
<1>1. ask' = ask /\ taken' \in 0..Len(ask.text) /\ request' = SubSeq(ask.text, 1, taken')
  BY HeadChunk
<1>2. pc' \in {"head", "dispatch"} /\ outcome' = outcome /\ pc = "head"
  BY DEF ReadHead
<1>3. HeadSize' = HeadSize
  BY <1>1 DEF HeadSize, HeadSizeOf
<1> QED BY <1>1, <1>2, <1>3 DEF HeadInv

(* A head that is taken for whole is whole, and short enough.                *)
LEMMA TakenFits ==
  HeadInv /\ pc = "dispatch" /\ ~TooLong /\ header_end # npos => HeadSize <= MaxRequest
<1> SUFFICES ASSUME HeadInv, pc = "dispatch", ~TooLong, header_end # npos
             PROVE  HeadSize <= MaxRequest
  OBVIOUS
<1>1. /\ ask.text \in Seq(STRING) /\ taken \in 0..Len(ask.text)
      /\ request = SubSeq(ask.text, 1, taken)
  BY TextIsSeq DEF HeadInv
<1>2. Len(request) = taken
  <2>1. \A i \in 1..taken : ask.text[i] \in STRING
    BY <1>1, ElementOfSeq
  <2>2. 1 \in Int /\ taken \in Int
    BY <1>1
  <2>3. Len(SubSeq(ask.text, 1, taken)) = IF 1 <= taken THEN taken - 1 + 1 ELSE 0
    BY <2>1, <2>2, SubSeqProperties
  <2> QED BY <1>1, <2>3
<1>3. taken <= MaxRequest
  BY <1>1, <1>2, RequestsAssumption DEF TooLong
<1>4. HeadSize = Find(ask.text, EndOfHeader, 1) + 1 /\ HeadSize <= taken
  BY <1>1, HeadInPrefix DEF header_end, HeadSize, HeadSizeOf
<1>5. HeadSize \in Int
  BY <1>1, <1>4, FoundIsThere, HeadInPrefix DEF header_end
<1> QED BY <1>1, <1>3, <1>4, <1>5, RequestsAssumption

LEMMA DispatchStep == HeadInv /\ Dispatch => HeadInv'
<1> SUFFICES ASSUME HeadInv, Dispatch PROVE HeadInv'
  OBVIOUS
<1>1. ask' = ask /\ taken' = taken /\ request' = request /\ pc = "dispatch"
  BY DEF Dispatch
<1>2. HeadSize' = HeadSize
  BY <1>1 DEF HeadSize, HeadSizeOf
<1>3. CASE Refused
  BY <1>1, <1>3 DEF Refused, Over, HeadInv
<1>4. CASE NoMethod
  BY <1>1, <1>4 DEF NoMethod, Over, HeadInv
<1>5. CASE PostRefused
  <2>1. LengthError(headers') \notin {"GET", "POST"}
    BY DEF LengthError, None
  <2> QED BY <1>1, <1>5, <2>1 DEF PostRefused, Over, HeadInv
<1>6. CASE Get \/ Post
  <2>1. HeadSize <= MaxRequest
    BY <1>1, <1>6, TakenFits DEF Get, Post, HeadIs
  <2>2. pc' \in {"done", "body"}
    BY <1>6 DEF Get, Post, Over
  <2> QED BY <1>1, <1>2, <2>1, <2>2 DEF HeadInv
<1> QED BY <1>3, <1>4, <1>5, <1>6 DEF Dispatch

LEMMA BodyStep == HeadInv /\ (ReadBody \/ Construct \/ Answered) => HeadInv'
<1> SUFFICES ASSUME HeadInv, ReadBody \/ Construct \/ Answered PROVE HeadInv'
  OBVIOUS
<1>1. CASE ReadBody
  <2>1. PICK n \in 0..BufferSize :
          /\ taken + n <= Len(ask.text) /\ ask' = ask
          /\ taken' = taken + Len(SubSeq(ask.text, taken + 1, taken + n))
    BY <1>1 DEF ReadBody, Chunks, Reads
  <2>2. ask.text \in Seq(STRING) /\ taken \in 0..Len(ask.text) /\ n \in Nat
    BY <2>1, TextIsSeq, RequestsAssumption DEF HeadInv
  <2>3. Len(SubSeq(ask.text, taken + 1, taken + n)) = n
    <3>1. taken \in Nat /\ taken + n <= Len(ask.text)
      BY <2>1, <2>2
    <3> QED BY <2>2, <3>1, ChunkLength
  <2>4. pc = "body" /\ pc' = "body"
    BY <1>1 DEF ReadBody
  <2> QED BY <2>1, <2>2, <2>3, <2>4 DEF HeadInv, HeadSize, HeadSizeOf
<1>2. CASE Construct
  BY <1>2 DEF Construct, Over, HeadInv, HeadSize, HeadSizeOf
<1>3. CASE Answered
  BY <1>3 DEF Answered, vars, HeadInv, HeadSize, HeadSizeOf
<1> QED BY <1>1, <1>2, <1>3

(* However a text is cut into chunks, and whatever the two sizes are, a head   *)
(* that is longer than MAX_REQUEST_SZ never becomes a task.                   *)
THEOREM NoTaskOfALongHead == Spec => []LongHeadRefused
<1>1. HeadInv /\ UNCHANGED vars => HeadInv'
  BY DEF vars, HeadInv, HeadSize, HeadSizeOf
<1>2. HeadInv /\ [Next]_vars => HeadInv'
  BY <1>1, ReadHeadStep, DispatchStep, BodyStep DEF Next
<1>3. HeadInv => LongHeadRefused
  <2> SUFFICES ASSUME HeadInv, HeadSize > MaxRequest, outcome \in {"GET", "POST"}
               PROVE  FALSE
    BY DEF LongHeadRefused
  <2>1. HeadSize \in Int
    <3>1. ask.text \in Seq(STRING)
      BY TextIsSeq
    <3> QED BY <3>1, FoundIsThere DEF HeadSize, HeadSizeOf
  <2> QED BY <2>1, RequestsAssumption DEF HeadInv
<1> QED BY <1>2, <1>3, Initially, PTL DEF Spec
-----------------------------------------------------------------------------
(* What is made of a text.  A head that fits is found before the loop stops,  *)
(* whole and in its place; from there on the body is what follows it, as far  *)
(* as it has been read, and what remains is the rest of what was announced,   *)
(* or is out of reach once more has come than that.                           *)

End == Find(ask.text, EndOfHeader, 1)

Announced  == Length(HeadOf(ask.text))
Left(have) == IF have <= Announced THEN Announced - have ELSE Announced + Wrap - have

Posted ==
  /\ End # npos /\ StartsWith(ask.text, POST)
  /\ LengthError(HeadOf(ask.text)) = None /\ headers = HeadOf(ask.text)

TextInv ==
  /\ HeadInv /\ TypeOK
  /\ pc = "head" => taken < MaxRequest /\ header_end = npos
  /\ pc = "dispatch" /\ Fits(ask.text) =>
       taken <= MaxRequest /\ (End # npos => header_end # npos)
  /\ pc \in {"head", "dispatch"} => body = <<>> /\ remaining = 0
  /\ pc = "body" =>
       /\ Posted /\ End + 1 <= taken
       /\ body = SubSeq(ask.text, End + 2, taken)
       /\ Len(body) = taken - End - 1 /\ remaining = Left(taken - End - 1)
  /\ ChunksDoNotMatter

LEMMA EndInText ==
  ASSUME ask.text \in Seq(STRING), End # npos
  PROVE  End \in 1..Len(ask.text) /\ End + 1 <= Len(ask.text)
<1>1. End \in 1..Len(ask.text) /\ IsAt(ask.text, End, EndOfHeader)
  BY FoundIsThere DEF End
<1>2. Len(EndOfHeader) = 2
  BY DEF EndOfHeader
<1> QED BY <1>1, <1>2 DEF IsAt

LEMMA WhatFollows == Sent(ask.text) = SubSeq(ask.text, End + 2, Len(ask.text))
<1>1. Len(EndOfHeader) = 2
  BY DEF EndOfHeader
<1> QED BY <1>1 DEF Sent, From, End

LEMMA SentLength ==
  ASSUME ask.text \in Seq(STRING), End # npos
  PROVE  Len(Sent(ask.text)) = Len(ask.text) - End - 1
<1>1. End \in 1..Len(ask.text) /\ End + 1 <= Len(ask.text)
  BY EndInText
<1>2. Len(ask.text) \in 0..Len(ask.text)
  <2>1. Len(ask.text) \in Nat
    OBVIOUS
  <2> QED BY <2>1
<1> QED BY <1>1, <1>2, RestLength, WhatFollows

(* A length that is accepted is one that fits.                                *)
LEMMA PostedLength ==
  ASSUME LengthError(HeadOf(ask.text)) = None
  PROVE  Announced \in 0..MaxRequest
<1> DEFINE head == HeadOf(ask.text)
           rest == From(head, Find(head, <<ContentLength>>, 1) + 1)
<1>1. IsInt(rest) /\ ~TooLarge(Value[Stoi(rest)])
  BY DEF LengthError, None
<1>2. Value[Stoi(rest)] \in Int
  BY <1>1, RequestsAssumption DEF IsInt, Stoi
<1>3. Announced = Value[Stoi(rest)]
  BY DEF Announced, Length
<1> HIDE DEF head, rest
<1>4. MaxRequest \in Nat
  BY RequestsAssumption
<1> QED BY <1>1, <1>2, <1>3, <1>4 DEF TooLarge

(* What a size_t makes of the difference.                                     *)
LEMMA RemainingIs ==
  ASSUME Announced \in 0..MaxRequest, NEW have \in 0..(Wrap - 1)
  PROVE  Remaining(Announced, have) = Left(have)
<1>1. \A w \in Nat \ {0} : \A x \in 0..(w - 1) : x % w = x /\ (x + w) % w = x
  OBVIOUS
<1>2. Wrap \in Nat \ {0} /\ Announced \in 0..(Wrap - 1)
  BY RequestsAssumption
<1>3. CASE have <= Announced
  <2>1. Announced - have \in 0..(Wrap - 1) /\ Announced + Wrap - have = (Announced - have) + Wrap
    BY <1>2, <1>3
  <2> QED BY <1>1, <1>2, <1>3, <2>1 DEF Remaining, Left
<1>4. CASE ~(have <= Announced)
  <2>1. Announced + Wrap - have \in 0..(Wrap - 1)
    BY <1>2, <1>4
  <2> QED BY <1>1, <1>2, <1>4, <2>1 DEF Remaining, Left
<1> QED BY <1>3, <1>4

(* What is left: a size_t, 0 only when just what was announced has come.      *)
LEMMA LeftIs ==
  ASSUME Announced \in 0..MaxRequest, NEW have \in 0..(Wrap - 1)
  PROVE  /\ Left(have) \in 0..(Wrap - 1) /\ (Left(have) = 0 <=> have = Announced)
         /\ have + Left(have) = Announced \/ have > Announced
         /\ \A n \in Nat : n <= Left(have) /\ have + n < Wrap
                           => Left(have + n) = Left(have) - n
<1>1. Wrap \in Nat \ {0} /\ Announced \in 0..(Wrap - 1)
  BY RequestsAssumption
<1> QED BY <1>1 DEF Left

LEMMA ShortText ==
  ASSUME HeadInv
  PROVE  Wrap \in Nat /\ Len(ask.text) \in Nat /\ Len(ask.text) < Wrap
BY TextIsSeq, RequestsAssumption DEF HeadInv

(* A body of the length that was announced is what AnswerTo makes of the text. *)
LEMMA BodyIsCut ==
  ASSUME ask.text \in Seq(STRING), End # npos, NEW n \in 0..Len(ask.text),
         Announced \in Nat, End + 1 <= n, n - End - 1 = Announced
  PROVE  SubSeq(ask.text, End + 2, n) = BodyOf(ask.text)
<1>1. End \in 1..Len(ask.text) /\ Len(ask.text) \in Nat
  BY EndInText
<1>2. /\ Len(Sent(ask.text)) = Len(ask.text) - End - 1
      /\ Sent(ask.text) = SubSeq(ask.text, End + 2, Len(ask.text))
  BY SentLength, WhatFollows
<1>3. BodyOf(ask.text) = SubSeq(Sent(ask.text), 1, Announced)
  BY DEF BodyOf, Announced
<1> HIDE DEF End, Announced
<1>4. CASE Announced = 0
  <2>1. n < End + 2 /\ End + 2 \in Int /\ n \in Int /\ Announced < 1 /\ 1 \in Int
    BY <1>1, <1>4
  <2>2. SubSeq(ask.text, End + 2, n) = <<>>
    BY <2>1, SubSeqEmpty
  <2>3. SubSeq(Sent(ask.text), 1, Announced) = <<>>
    BY <1>4, <2>1, SubSeqEmpty
  <2> QED BY <1>3, <1>4, <2>2, <2>3
<1>5. CASE Announced # 0
  <2> DEFINE m == End + 2
             l == Len(ask.text)
  <2>1. m \in 1..l /\ l \in 1..l /\ 1 \in 1..(l - m + 1) /\ Announced \in 1..(l - m + 1)
    BY <1>1, <1>2, <1>5
  <2>2. SubSeq(SubSeq(ask.text, m, l), 1, Announced)
          = SubSeq(ask.text, m + 1 - 1, m + Announced - 1)
    <3> HIDE DEF m, l
    <3> QED BY <2>1, SubSeqOfSubSeq DEF l
  <2>3. m + 1 - 1 = m /\ m + Announced - 1 = n
    BY <1>1
  <2> QED BY <1>2, <1>3, <1>5, <2>2, <2>3
<1> QED BY <1>4, <1>5

LEMMA TextInit == Init => TextInv
<1> SUFFICES ASSUME Init PROVE TextInv
  OBVIOUS
<1>1. HeadInv /\ ask.text \in Seq(STRING)
  BY Initially, TextIsSeq
<1>2. /\ Len(<<>>) = 0 /\ MaxRequest \in Nat \ {0} /\ BufferSize \in Nat \ {0}
      /\ 0 \in 0..(Wrap - 1)
  BY RequestsAssumption
<1>3. TypeOK
  BY <1>1, <1>2 DEF Init, TypeOK, None
<1>4. header_end = npos
  <2>1. \A i \in 1..Len(<<>>) : FALSE
    BY <1>2
  <2> QED BY <2>1 DEF Init, header_end, Find
<1> QED BY <1>1, <1>2, <1>3, <1>4 DEF Init, TextInv, ChunksDoNotMatter

LEMMA TextReadHead ==
  ASSUME TextInv, ReadHead
  PROVE  TextInv'
<1>1. HeadInv' /\ HeadInv
  BY ReadHeadStep DEF TextInv
<1>2. PICK n \in 0..BufferSize :
        /\ ask' = ask /\ taken' = taken + n /\ taken' \in 0..Len(ask.text)
        /\ request' = SubSeq(ask.text, 1, taken')
        /\ \/ n = 0 /\ taken = Len(ask.text) /\ pc' = "dispatch"
           \/ pc' = IF header_end' # npos \/ Full(request') THEN "dispatch" ELSE "head"
  BY <1>1, HeadChunk
<1>3. /\ ask.text \in Seq(STRING) /\ taken \in 0..Len(ask.text) /\ taken < MaxRequest
      /\ n \in Nat /\ MaxRequest \in Nat /\ BufferSize \in Nat \ {0}
      /\ header_end = npos /\ request = SubSeq(ask.text, 1, taken)
  BY <1>1, <1>2, TextIsSeq, RequestsAssumption DEF TextInv, HeadInv, ReadHead
<1>4. Len(request') = taken'
  BY <1>2, <1>3, PrefixLength
<1>5. /\ pc' \in {"head", "dispatch"} /\ UNCHANGED <<post, outcome>> /\ outcome = None
      /\ body = <<>> /\ remaining = 0
  BY DEF ReadHead, TextInv, TypeOK
<1>6. TypeOK'
  <2>1. Len(request') < MaxRequest + BufferSize
    BY <1>2, <1>3, <1>4
  <2>2. remaining' \in 0..(Wrap - 1)
    BY <1>5, RequestsAssumption DEF post
  <2> QED BY <1>2, <1>5, <2>1, <2>2 DEF TypeOK
<1>7. pc' = "head" => taken' < MaxRequest /\ header_end' = npos
  <2>1. ASSUME pc' = "head" PROVE header_end' = npos /\ ~Full(request')
    BY <1>2, <2>1
  <2> QED BY <1>2, <1>3, <1>4, <2>1 DEF Full
<1>8. ASSUME pc' = "dispatch", Fits(ask.text)
      PROVE  taken' <= MaxRequest /\ (End # npos => header_end' # npos)
  <2>1. CASE End = npos
    <3>1. HeadSizeOf(ask.text) = Len(ask.text)
      BY <2>1 DEF HeadSizeOf, End
    <3> QED BY <1>2, <1>3, <1>8, <2>1, <3>1 DEF Fits
  <2>2. CASE End # npos
    <3>1. HeadSizeOf(ask.text) = End + 1 /\ End \in 1..Len(ask.text)
      BY <1>3, <2>2, EndInText DEF HeadSizeOf, End
    <3>2. taken < End + 1
      <4>1. ~(End + 1 <= taken)
        BY <1>3, <2>2, FoundInPrefix DEF header_end, End
      <4> QED BY <1>3, <3>1, <4>1
    <3>3. End + BufferSize <= MaxRequest
      BY <1>3, <1>8, <3>1 DEF Fits
    <3>4. taken' <= MaxRequest
      BY <1>2, <1>3, <3>1, <3>2, <3>3
    <3>5. header_end' # npos
      <4> SUFFICES ASSUME header_end' = npos PROVE FALSE
        OBVIOUS
      <4>1. ~(n = 0 /\ taken = Len(ask.text))
        BY <1>3, <2>2, <3>1, <3>2, EndInText
      <4>2. Full(request')
        BY <1>2, <1>8, <4>1
      <4>3. End + 1 <= taken'
        BY <1>2, <1>3, <1>4, <3>1, <3>3, <4>2 DEF Full
      <4>4. Find(SubSeq(ask.text, 1, taken'), EndOfHeader, 1) # npos
        BY <1>2, <1>3, <2>2, <4>3, FoundInPrefix DEF End
      <4> QED BY <1>2, <4>4 DEF header_end
    <3> QED BY <3>4, <3>5
  <2> QED BY <2>1, <2>2
<1>9. Fits(ask.text)' = Fits(ask.text) /\ End' = End
  BY <1>2 DEF Fits, End
<1> QED BY <1>1, <1>5, <1>6, <1>7, <1>8, <1>9 DEF TextInv, ChunksDoNotMatter, post

(* What is found in the part that has been read is what the text holds.       *)
LEMMA HeadFound ==
  ASSUME HeadInv, pc = "dispatch", header_end # npos
  PROVE  /\ End # npos /\ End \in 1..taken /\ End + 1 <= taken
         /\ SubSeq(request, 1, header_end - 1) = HeadOf(ask.text)
         /\ From(request, header_end + Skip) = SubSeq(ask.text, End + 2, taken)
         /\ StartsWith(request, GET) = StartsWith(ask.text, GET)
         /\ StartsWith(request, POST) = StartsWith(ask.text, POST)
<1>1. /\ ask.text \in Seq(STRING) /\ taken \in 0..Len(ask.text)
      /\ request = SubSeq(ask.text, 1, taken)
  BY TextIsSeq DEF HeadInv
<1>2. header_end = End /\ End # npos /\ End \in 1..taken /\ End + 1 <= taken
  BY <1>1, HeadInPrefix DEF header_end, End
<1>3. Len(request) = taken
  BY <1>1, PrefixLength
<1>4. SubSeq(request, 1, End - 1) = SubSeq(ask.text, 1, End - 1)
  <2>1. 1 \in 1..taken + 1 /\ End - 1 \in 0..taken
    BY <1>1, <1>2
  <2> QED BY <1>1, <2>1, PartOfPrefix
<1>5. SubSeq(request, End + 2, taken) = SubSeq(ask.text, End + 2, taken)
  <2>1. End + 2 \in 1..taken + 1 /\ taken \in 0..taken
    BY <1>1, <1>2
  <2> QED BY <1>1, <2>1, PartOfPrefix
<1>6. Len(EndOfHeader) = 2 /\ Len(GET) = 2 /\ Len(POST) = 2
  BY DEF EndOfHeader, GET, POST
<1>7. taken \in 2..Len(ask.text)
  BY <1>1, <1>2
<1>8. StartsWith(request, GET) = StartsWith(ask.text, GET)
  BY <1>1, <1>6, <1>7, SameMethod
<1>9. StartsWith(request, POST) = StartsWith(ask.text, POST)
  BY <1>1, <1>6, <1>7, SameMethod
<1>10. SubSeq(request, 1, header_end - 1) = HeadOf(ask.text)
  BY <1>2, <1>4 DEF HeadOf, End
<1>11. From(request, header_end + Skip) = SubSeq(ask.text, End + 2, taken)
  BY <1>2, <1>3, <1>5, <1>6 DEF From, Skip
<1> QED BY <1>2, <1>8, <1>9, <1>10, <1>11

(* No text is of both methods.                                                *)
LEMMA OneMethod ==
  ASSUME NEW s, StartsWith(s, GET), StartsWith(s, POST)
  PROVE  FALSE
<1>1. SubSeq(GET, 1, 2) = GET /\ SubSeq(POST, 1, 2) = POST
  <2>1. \A a, b : SubSeq(<<a, b>>, 1, 2) = <<a, b>>
    <3> TAKE a, b
    <3>1. <<a, b>> \in Seq({a, b}) /\ Len(<<a, b>>) = 2
      OBVIOUS
    <3> QED BY <3>1, SubSeqFull
  <2> QED BY <2>1, Zenon DEF GET, POST
<1>2. Len(GET) = 2 /\ Len(POST) = 2 /\ GET[1] # POST[1]
  BY DEF GET, POST
<1>3. SubSeq(s, 1, 2) = GET /\ SubSeq(s, 1, 2) = POST
  BY <1>1, <1>2 DEF StartsWith, IsPrefix
<1> QED BY <1>2, <1>3

LEMMA MethodIs ==
  ASSUME HeadInv, pc = "dispatch", NEW m, HeadIs(m)
  PROVE  /\ header_end # npos /\ ~TooLong /\ headers' = HeadOf(ask.text)
         /\ m = "GET" => StartsWith(ask.text, GET)
         /\ m = "POST" => StartsWith(ask.text, POST) /\ ~StartsWith(ask.text, GET)
         /\ m = "other" => ~StartsWith(ask.text, GET) /\ ~StartsWith(ask.text, POST)
<1>1. header_end # npos /\ ~TooLong /\ headers' = SubSeq(request, 1, header_end - 1)
  BY DEF HeadIs
<1>2. /\ headers' = HeadOf(ask.text)
      /\ StartsWith(request, GET) = StartsWith(ask.text, GET)
      /\ StartsWith(request, POST) = StartsWith(ask.text, POST)
  BY <1>1, HeadFound
<1>3. m = CASE StartsWith(ask.text, GET)  -> "GET"
            [] StartsWith(ask.text, POST) -> "POST"
            [] OTHER -> "other"
  BY <1>2 DEF HeadIs
<1>4. ~StartsWith(ask.text, GET) \/ ~StartsWith(ask.text, POST)
  BY OneMethod
<1> QED BY <1>1, <1>2, <1>3, <1>4

LEMMA TextDispatch ==
  ASSUME TextInv, Dispatch
  PROVE  TextInv'
<1>1. HeadInv /\ HeadInv'
  BY DispatchStep DEF TextInv
<1>2. /\ UNCHANGED <<ask, taken, request>> /\ pc = "dispatch" /\ outcome = None
      /\ body = <<>> /\ remaining = 0 /\ MaxRequest \in Nat /\ Len(request) = taken
      /\ taken \in 0..Len(ask.text) /\ ask.text \in Seq(STRING)
  <2>1. /\ ask.text \in Seq(STRING) /\ taken \in 0..Len(ask.text)
        /\ request = SubSeq(ask.text, 1, taken)
    BY <1>1, TextIsSeq DEF HeadInv, Dispatch
  <2> QED BY <2>1, PrefixLength, RequestsAssumption DEF Dispatch, TextInv, TypeOK
<1>3. Fits(ask.text)' = Fits(ask.text) /\ AnswerTo(ask.text)' = AnswerTo(ask.text) /\ End' = End
  BY <1>2 DEF Fits, AnswerTo, End
<1>4. ASSUME pc' = "done", outcome' # None, UNCHANGED <<body, remaining>>,
             Fits(ask.text) => answer' = AnswerTo(ask.text)
      PROVE  TextInv'
  <2>1. TypeOK'
    BY <1>2, <1>4 DEF TypeOK, TextInv
  <2> QED BY <1>1, <1>3, <1>4, <2>1 DEF TextInv, ChunksDoNotMatter
<1>5. CASE Refused
  <2>1. /\ pc' = "done" /\ UNCHANGED post /\ (TooLong \/ header_end = npos)
        /\ outcome' = IF TooLong THEN "413" ELSE "400"
    BY <1>5 DEF Refused, Over
  <2>2. ASSUME Fits(ask.text) PROVE answer' = AnswerTo(ask.text)
    <3>1. ~TooLong
      BY <1>2, <2>2 DEF TooLong, TextInv
    <3>2. End = npos
      BY <1>2, <2>1, <2>2, <3>1 DEF TextInv
    <3>3. answer' = <<"400">>
      BY <2>1, <3>1 DEF answer
    <3>4. AnswerTo(ask.text) = <<"400">>
      BY <3>2 DEF AnswerTo, End
    <3> QED BY <3>3, <3>4
  <2>3. outcome' # None /\ UNCHANGED <<body, remaining>>
    BY <2>1 DEF None, post
  <2> QED BY <1>4, <2>1, <2>2, <2>3
<1>6. CASE NoMethod
  <2>1. HeadIs("other") /\ pc' = "done" /\ outcome' = "405" /\ UNCHANGED <<body, remaining>>
    BY <1>6 DEF NoMethod, Over
  <2>2. End # npos /\ ~StartsWith(ask.text, GET) /\ ~StartsWith(ask.text, POST)
    BY <1>1, <1>2, <2>1, MethodIs, HeadFound
  <2>3. answer' = <<"405">>
    BY <2>1 DEF answer
  <2>4. AnswerTo(ask.text) = <<"405">>
    BY <2>2 DEF AnswerTo, End
  <2> QED BY <1>4, <2>1, <2>3, <2>4 DEF None
<1>7. CASE Get
  <2>1. HeadIs("GET") /\ pc' = "done" /\ outcome' = "GET" /\ UNCHANGED <<body, remaining>>
    BY <1>7 DEF Get, Over
  <2>2. End # npos /\ StartsWith(ask.text, GET) /\ headers' = HeadOf(ask.text)
    BY <1>1, <1>2, <2>1, MethodIs, HeadFound
  <2>3. answer' = OrRefused(GetTask(HeadOf(ask.text)))
    BY <2>1, <2>2 DEF answer
  <2>4. AnswerTo(ask.text) = OrRefused(GetTask(HeadOf(ask.text)))
    BY <2>2 DEF AnswerTo, End
  <2> QED BY <1>4, <2>1, <2>3, <2>4 DEF None
<1>8. CASE PostRefused
  <2>1. /\ HeadIs("POST") /\ pc' = "done" /\ outcome' = LengthError(headers')
        /\ LengthError(headers') # None /\ UNCHANGED <<body, remaining>>
    BY <1>8 DEF PostRefused, Over
  <2>2. /\ End # npos /\ StartsWith(ask.text, POST) /\ ~StartsWith(ask.text, GET)
        /\ headers' = HeadOf(ask.text)
    BY <1>1, <1>2, <2>1, MethodIs, HeadFound
  <2>3. LengthError(headers') \in {"400", "411", "413", None}
    BY DEF LengthError
  <2>4. answer' = <<LengthError(HeadOf(ask.text))>>
    BY <2>1, <2>2, <2>3 DEF answer
  <2>5. AnswerTo(ask.text) = <<LengthError(HeadOf(ask.text))>>
    BY <2>1, <2>2 DEF AnswerTo, End
  <2> QED BY <1>4, <2>1, <2>4, <2>5
<1>9. CASE Post
  <2>1. /\ HeadIs("POST") /\ LengthError(headers') = None /\ pc' = "body"
        /\ body' = From(request, header_end + Skip)
        /\ remaining' = Remaining(Length(headers'), Len(body')) /\ outcome' = None
    BY <1>2, <1>9 DEF Post
  <2>2. /\ End # npos /\ StartsWith(ask.text, POST) /\ ~StartsWith(ask.text, GET)
        /\ headers' = HeadOf(ask.text) /\ End \in 1..taken /\ End + 1 <= taken
        /\ body' = SubSeq(ask.text, End + 2, taken)
    BY <1>1, <1>2, <2>1, MethodIs, HeadFound
  <2>3. Len(body') = taken - End - 1
    BY <1>2, <2>2, RestLength
  <2>4. Length(headers') = Announced /\ Announced \in 0..MaxRequest
    BY <2>1, <2>2, PostedLength DEF Announced
  <2>5. /\ remaining' = Left(taken - End - 1) /\ remaining' \in 0..(Wrap - 1)
        /\ Len(body') + remaining' = Announced \/ Len(body') > Announced
    <3>1. taken - End - 1 \in 0..(Wrap - 1)
      BY <1>1, <1>2, <2>2, ShortText
    <3>2. remaining' = Remaining(Announced, taken - End - 1)
      BY <2>1, <2>3, <2>4
    <3> HIDE DEF Announced, End
    <3> QED BY <2>3, <2>4, <3>1, <3>2, RemainingIs, LeftIs
  <2>6. Posted'
    BY <1>2, <1>3, <2>1, <2>2 DEF Posted
  <2>7. TypeOK'
    BY <1>2, <2>1, <2>4, <2>5 DEF TypeOK, TextInv
  <2> QED BY <1>1, <1>2, <1>3, <2>1, <2>2, <2>3, <2>5, <2>6, <2>7
          DEF TextInv, ChunksDoNotMatter, Announced, Left
<1> QED BY <1>5, <1>6, <1>7, <1>8, <1>9 DEF Dispatch

LEMMA TextReadBody ==
  ASSUME TextInv, ReadBody
  PROVE  TextInv'
<1>1. HeadInv /\ HeadInv'
  BY BodyStep DEF TextInv
<1>2. PICK n \in 0..BufferSize :
        /\ n <= remaining /\ taken + n <= Len(ask.text) /\ ask' = ask
        /\ taken' = taken + Len(SubSeq(ask.text, taken + 1, taken + n))
        /\ body' = body \o SubSeq(ask.text, taken + 1, taken + n)
        /\ remaining' = remaining - Len(SubSeq(ask.text, taken + 1, taken + n))
  BY DEF ReadBody, Chunks, Reads
<1>3. /\ ask.text \in Seq(STRING) /\ taken \in 0..Len(ask.text) /\ n \in Nat
      /\ BufferSize \in Nat /\ MaxRequest \in Nat /\ Wrap \in Nat /\ Len(ask.text) < Wrap
  BY <1>1, <1>2, TextIsSeq, ShortText, RequestsAssumption DEF HeadInv
<1>4. Len(SubSeq(ask.text, taken + 1, taken + n)) = n
  <2>1. taken \in Nat /\ taken + n <= Len(ask.text)
    BY <1>2, <1>3
  <2> QED BY <1>3, <2>1, ChunkLength
<1>5. /\ pc = "body" /\ UNCHANGED <<pc, request, headers, outcome>>
      /\ Posted /\ End + 1 <= taken /\ remaining = Left(taken - End - 1)
      /\ body = SubSeq(ask.text, End + 2, taken) /\ Len(body) = taken - End - 1
  BY DEF ReadBody, TextInv
<1>6. End \in 1..Len(ask.text) /\ End + 1 <= Len(ask.text)
  BY <1>3, <1>5, EndInText DEF Posted
<1>7. Announced \in 0..MaxRequest /\ Length(headers) = Announced
  BY <1>5, PostedLength DEF Posted, Announced
<1>8. taken' = taken + n /\ taken' \in 0..Len(ask.text) /\ remaining' = remaining - n
  BY <1>2, <1>3, <1>4
<1>9. body' = SubSeq(ask.text, End + 2, taken')
  <2>1. /\ End + 2 \in 1..Len(ask.text) + 1 /\ taken \in (End + 2) - 1..Len(ask.text)
        /\ taken + n \in taken..Len(ask.text)
    BY <1>2, <1>3, <1>5, <1>6
  <2>2. SubSeq(ask.text, End + 2, taken) \o SubSeq(ask.text, taken + 1, taken + n)
          = SubSeq(ask.text, End + 2, taken + n)
    BY <1>3, <2>1, ConcatAdjacentSubSeq
  <2> QED BY <1>2, <1>5, <1>8, <2>2
<1>10. Len(body') = taken' - End - 1
  <2>1. End \in 1..taken' /\ End + 1 <= taken'
    BY <1>3, <1>5, <1>6, <1>8
  <2> QED BY <1>3, <1>8, <1>9, <2>1, RestLength
<1>11. /\ remaining' = Left(taken' - End - 1) /\ remaining' \in 0..(Wrap - 1)
       /\ Len(body') + remaining' = Announced \/ Len(body') > Announced
  <2> DEFINE have == taken - End - 1
  <2>1. have \in 0..(Wrap - 1) /\ have + n \in 0..(Wrap - 1) /\ taken' - End - 1 = have + n
    BY <1>3, <1>5, <1>6, <1>8
  <2>2. n <= Left(have) /\ remaining' = Left(have) - n
    BY <1>2, <1>5, <1>8
  <2>3. remaining' = Left(have + n)
    <3> HIDE DEF have, Left, Announced
    <3> QED BY <1>3, <1>7, <2>1, <2>2, LeftIs
  <2> HIDE DEF have, Left, Announced, End
  <2> QED BY <1>7, <1>10, <2>1, <2>3, LeftIs
<1>12. TypeOK'
  <2>1. Length(headers)' = Announced
    BY <1>5, <1>7 DEF Length
  <2> QED BY <1>2, <1>5, <1>7, <1>8, <1>11, <2>1 DEF TypeOK, TextInv
<1>13. End' = End /\ Posted' /\ End' + 1 <= taken' /\ Announced' = Announced
  <2>1. End' = End /\ Announced' = Announced
    BY <1>2 DEF End, Announced
  <2> QED BY <1>2, <1>3, <1>5, <1>6, <1>8, <2>1 DEF Posted
<1> QED BY <1>1, <1>2, <1>5, <1>8, <1>9, <1>10, <1>11, <1>12, <1>13
        DEF TextInv, ChunksDoNotMatter, Left

LEMMA TextConstruct ==
  ASSUME TextInv, Construct
  PROVE  TextInv'
<1>1. HeadInv /\ HeadInv'
  BY BodyStep DEF TextInv
<1>2. /\ pc = "body" /\ remaining = 0 /\ pc' = "done" /\ outcome' = "POST"
      /\ UNCHANGED <<ask, taken, request, headers, body, remaining>>
  BY DEF Construct, Over, post
<1>3. /\ Posted /\ taken - End - 1 = Announced /\ body = SubSeq(ask.text, End + 2, taken)
      /\ taken \in 0..Len(ask.text) /\ ask.text \in Seq(STRING) /\ Announced \in Nat
      /\ End \in 1..taken /\ End + 1 <= taken
  <2>1. /\ ask.text \in Seq(STRING) /\ taken \in 0..Len(ask.text)
    BY <1>1, TextIsSeq DEF HeadInv
  <2>2. /\ Posted /\ remaining = Left(taken - End - 1) /\ End + 1 <= taken
        /\ body = SubSeq(ask.text, End + 2, taken)
    BY <1>2 DEF TextInv
  <2>3. End \in 1..Len(ask.text) /\ Announced \in 0..MaxRequest
    BY <2>1, <2>2, EndInText, PostedLength DEF Posted
  <2>4. taken - End - 1 \in 0..(Wrap - 1)
    BY <1>1, <2>1, <2>2, <2>3, ShortText
  <2>5. taken - End - 1 = Announced
    <3> HIDE DEF Left, Announced, End
    <3> QED BY <1>2, <2>2, <2>3, <2>4, LeftIs
  <2> QED BY <2>1, <2>2, <2>3, <2>5, RequestsAssumption
<1>4. body = BodyOf(ask.text)
  BY <1>3, BodyIsCut DEF Posted
<1>5. answer' = OrRefused(PostTask(HeadOf(ask.text), BodyOf(ask.text)))
  BY <1>2, <1>3, <1>4 DEF answer, Posted
<1>6. AnswerTo(ask.text) = OrRefused(PostTask(HeadOf(ask.text), BodyOf(ask.text)))
  <2>1. ~StartsWith(ask.text, GET)
    BY <1>3, OneMethod DEF Posted
  <2>2. Len(Sent(ask.text)) >= Length(HeadOf(ask.text))
    <3>1. Len(Sent(ask.text)) = Len(ask.text) - End - 1 /\ Length(HeadOf(ask.text)) = Announced
      BY <1>3, SentLength DEF Posted, Announced
    <3> HIDE DEF End, Announced
    <3> QED BY <1>3, <3>1
  <2>3. ~(Len(Sent(ask.text)) < Length(HeadOf(ask.text)))
    <3>1. Len(Sent(ask.text)) \in Int /\ Length(HeadOf(ask.text)) \in Int
      BY <1>3, SentLength DEF Posted, Announced
    <3> QED BY <2>2, <3>1
  <2> QED BY <1>3, <2>1, <2>3 DEF AnswerTo, Posted, End
<1>7. TypeOK'
  BY <1>2 DEF TypeOK, TextInv, None
<1> QED BY <1>1, <1>2, <1>5, <1>6, <1>7 DEF TextInv, ChunksDoNotMatter

LEMMA TextStep == TextInv /\ [Next]_vars => TextInv'
<1> SUFFICES ASSUME TextInv, [Next]_vars PROVE TextInv'
  OBVIOUS
<1>1. CASE UNCHANGED vars
  BY <1>1 DEF vars, post, TextInv, HeadInv, HeadSize, TypeOK, header_end, End, Posted,
              Announced, Left, ChunksDoNotMatter, answer
<1>2. CASE Answered
  BY <1>1, <1>2 DEF Answered
<1> QED BY <1>1, <1>2, TextReadHead, TextDispatch, TextReadBody, TextConstruct DEF Next

LEMMA TextInvariance == Spec => []TextInv
BY TextInit, TextStep, PTL DEF Spec

(* No more is read for a head than MAX_REQUEST_SZ and part of a buffer, and   *)
(* the number of bytes that read_body waits for is the rest of what the client *)
(* has announced, unless more than that has come with the head.               *)
THEOREM TypeCorrect == Spec => []TypeOK
BY TextInvariance, PTL DEF TextInv

(* The two loops over the chunks make of a text whose head fits what there is  *)
(* to make of it in one piece, for texts and buffers of every size.           *)
THEOREM AnswerIsOfTheText == Spec => []ChunksDoNotMatter
BY TextInvariance, PTL DEF TextInv

(* What the chunks come to is a matter of the text alone: where AnswerTo makes *)
(* of each text that fits what its client means, or departs from that just     *)
(* where it is said to, so does the server in every chunking.                  *)
THEOREM RightInPieces ==
  ASSUME \A a \in Asked : Fits(a.text) => AsAsked(a, AnswerTo(a.text))
  PROVE  Spec => []AnsweredAsAsked
<1>1. TextInv => AnsweredAsAsked
  BY DEF TextInv, HeadInv, ChunksDoNotMatter, AnsweredAsAsked
<1> QED BY <1>1, TextInvariance, PTL
-----------------------------------------------------------------------------
(* The steps that AlwaysAnswered counts on.                                   *)

WaitsForWhatComes ==
  AsAnnounced(ask.text) /\ pc = "body" /\ remaining > 0 => taken < Len(ask.text)

LEMMA Waits == TextInv => WaitsForWhatComes
<1> SUFFICES ASSUME TextInv, AsAnnounced(ask.text), pc = "body", remaining > 0
             PROVE  taken < Len(ask.text)
  BY DEF WaitsForWhatComes
<1>1. /\ HeadInv /\ ask.text \in Seq(STRING)
      /\ Posted /\ remaining = Left(taken - End - 1) /\ End + 1 <= taken
      /\ taken \in 0..Len(ask.text)
  BY TextIsSeq DEF TextInv, HeadInv
<1>2. Len(Sent(ask.text)) = Announced
  BY <1>1, Zenon DEF AsAnnounced, Posted, End, Announced
<1>3. End \in 1..Len(ask.text) /\ End + 1 <= Len(ask.text)
  BY <1>1, EndInText DEF Posted
<1>4. Len(Sent(ask.text)) = Len(ask.text) - End - 1
  BY <1>1, SentLength DEF Posted
<1>5. Announced \in 0..MaxRequest
  BY <1>1, PostedLength DEF Posted
<1>6. taken - End - 1 \in 0..(Wrap - 1)
  BY <1>1, <1>3, ShortText
<1>7. taken - End - 1 # Announced
  <2> HIDE DEF Left, Announced, End
  <2> QED BY <1>1, <1>5, <1>6, LeftIs
<1> QED BY <1>1, <1>2, <1>3, <1>4, <1>7

(* The main thread is never left waiting in read_body for a client that has   *)
(* sent what it announced: the skip over the end of the head and the count of  *)
(* what came with it leave nothing over.                                      *)
THEOREM NeverWaitsInVain == Spec => []WaitsForWhatComes
BY Waits, TextInvariance, PTL

Rank == CASE pc = "head"     -> 0
          [] pc = "dispatch" -> 1
          [] pc = "body"     -> 2
          [] OTHER           -> 3
GoesOn == [][AsAnnounced(ask.text) => taken' > taken \/ Rank' > Rank]_vars

(* No step of the loops is idle: each reads something or leaves its loop for   *)
(* good, so that a text is answered after at most Len(text) + 3 steps.        *)
THEOREM EveryStepGoesOn == Spec => GoesOn
<1>1. TextInv /\ [Next]_vars
        => [AsAnnounced(ask.text) => taken' > taken \/ Rank' > Rank]_vars
  <2> SUFFICES ASSUME TextInv, Next, vars' # vars, AsAnnounced(ask.text)
               PROVE  taken' > taken \/ Rank' > Rank
    OBVIOUS
  <2>1. /\ HeadInv /\ WaitsForWhatComes /\ ask.text \in Seq(STRING)
        /\ taken \in 0..Len(ask.text)
    BY Waits, TextIsSeq DEF TextInv, HeadInv
  <2>2. CASE ReadHead
    <3>1. PICK n \in 0..BufferSize :
            taken' = taken + n /\ (n = 0 => pc' = "dispatch")
      BY <2>1, <2>2, HeadChunk
    <3>2. n \in Nat /\ taken \in Nat
      BY <2>1, <3>1, RequestsAssumption
    <3>3. pc = "head"
      BY <2>2 DEF ReadHead
    <3> QED BY <3>1, <3>2, <3>3 DEF Rank
  <2>3. CASE Dispatch
    <3>1. pc = "dispatch" /\ pc' \in {"body", "done"}
      BY <2>3 DEF Dispatch, Refused, NoMethod, Get, PostRefused, Post, Over
    <3> QED BY <3>1 DEF Rank
  <2>4. CASE ReadBody
    <3>1. PICK n \in 0..BufferSize :
            /\ taken + n <= Len(ask.text) /\ (n = 0 => taken = Len(ask.text))
            /\ taken' = taken + Len(SubSeq(ask.text, taken + 1, taken + n))
      BY <2>4 DEF ReadBody, Chunks, Reads
    <3>2. n \in Nat /\ taken \in Nat /\ Len(ask.text) \in Nat
      BY <2>1, <3>1, RequestsAssumption
    <3>3. Len(SubSeq(ask.text, taken + 1, taken + n)) = n
      BY <2>1, <3>1, <3>2, ChunkLength
    <3>4. n # 0
      BY <2>1, <2>4, <3>1 DEF ReadBody, WaitsForWhatComes
    <3> QED BY <3>1, <3>2, <3>3, <3>4
  <2>5. CASE Construct
    BY <2>5 DEF Construct, Over, Rank
  <2>6. CASE Answered
    BY <2>6 DEF Answered
  <2> QED BY <2>2, <2>3, <2>4, <2>5, <2>6 DEF Next
<1> QED BY <1>1, TextInvariance, PTL DEF Spec, GoesOn
=============================================================================
