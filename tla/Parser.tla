------------------------------- MODULE Parser -------------------------------
(***************************************************************************)
(* http::Parser (src/src/main/jimi/http/Parser.h) over an InputStream      *)
(* (InputStream.h), with its list of header fields (StringRefList.h).      *)
(*                                                                         *)
(* The parser goes over the input once and never back.  Each stage of      *)
(* parseRequest is a step; a header field is one too.  What the parser     *)
(* keeps of the input are slices, an offset and a length.                  *)
(***************************************************************************)
EXTENDS Request

CONSTANTS
  Requests,       \* the well-formed requests it is given
  Noise,          \* other inputs it is given
  VersionLength,  \* kLenHTTPVersion
  InitCapacity,   \* kInitCapacity of the list of fields
  OffsetRange     \* number of values of the type appendItem casts to

ASSUME ParserAssumption ==
  /\ \A m \in Requests : WellFormed(m) /\ Len(m.version) >= VersionLength
  /\ Noise \subseteq Seq(Chars)
  /\ VersionLength \in Nat \ {0} /\ InitCapacity \in Nat /\ OffsetRange \in Nat \ {0}

VARIABLES
  data,      \* the input; a terminator follows it
  pos,       \* current_ of the stream
  furthest,  \* the furthest position read so far
  stage,     \* the function at work, "idle" between parses
  ec,        \* the error code returned
  method, uri, version,  \* method_str_, uri_str_, version_str_
  ref,       \* header_fields_.ref
  items      \* header_fields_.items

vars == <<data, pos, furthest, stage, ec, method, uri, version, ref, items>>

-----------------------------------------------------------------------------
(* The stream.  Positions count from 0, as offset() does.                  *)

Size == Len(data)
At(p) == IF p < Size THEN data[p + 1] ELSE "NUL"

Later(p, q) == IF p < q THEN q ELSE p

Slice(from, to) == [offset |-> from, length |-> to - from]
Empty == Slice(0, 0)
EndOf(s) == s.offset + s.length
Content(s) == SubSeq(data, s.offset + 1, EndOf(s))

\* The first position from p on at which the character is one of chars, the
\* end of the input if there is none.
Until(chars, p) == Min({q \in p .. Size : q = Size \/ At(q) \in chars})

\* (faulty) A single space is skipped.
skipOneSpace(p) == IF At(p) = "SP" THEN p + 1 ELSE p

skipWhiteSpaces(p) == Until(Chars \ {"SP"}, p)
findToken(p) == Until({"SP"}, p)
findFieldKey(p) == Until({":"}, p)
findFieldValue(p) == Until({"CR"}, p)

\* A CR that no LF follows is passed.
findCrLfToken(p) ==
  Min({q \in p .. Size : q = Size \/ (At(q) = "CR" /\ At(q + 1) = "LF")})

-----------------------------------------------------------------------------
(* The list of fields                                                      *)

\* (faulty) The type is a bit narrower.
CastNarrow(n) == n % (OffsetRange \div 2)

Cast(n) == n % OffsetRange

\* appendItem keeps a slice of the input as an entry relative to ref.
Entry(s) == [offset |-> Cast(s.offset - ref.offset), length |-> Cast(s.length)]

\* The slice of the input an entry stands for.
Referred(entry) == [offset |-> ref.offset + entry.offset, length |-> entry.length]

-----------------------------------------------------------------------------
(* Parsing                                                                 *)

\* The stream stands at p, and no read went beyond position last.
ReadTo(p, last) ==
  /\ pos' = p
  /\ furthest' = Later(furthest, last)
  /\ UNCHANGED data

Return(code) == stage' = "done" /\ ec' = code
Continue(next) == stage' = next /\ UNCHANGED ec

Init ==
  /\ data = <<>>
  /\ pos = 0
  /\ furthest = 0
  /\ stage = "idle"
  /\ ec = "None"
  /\ method = Empty /\ uri = Empty /\ version = Empty /\ ref = Empty
  /\ items = <<>>

Sent == {<<m, Text(m)>> : m \in Requests}
Inputs == {s[2] : s \in Sent} \cup Noise

\* parseRequest, up to the look at the first character.
ParseRequest ==
  /\ stage = "idle"
  /\ \E input \in Inputs :
       /\ data' = input
       /\ \/ input = <<>> /\ Return("Succeed")
          \/ input # <<>> /\ input[1] = "A" /\ Continue("method")
          \/ input # <<>> /\ input[1] # "A" /\ Return("InvalidHttpMethod")
  /\ pos' = 0
  /\ furthest' = 0
  /\ UNCHANGED <<method, uri, version, ref, items>>

ParseMethod ==
  /\ stage = "method"
  /\ LET q == findToken(pos)
     IN  \/ /\ q = Size
            /\ ReadTo(q, q) /\ Return("InvalidHttpMethod")
            /\ UNCHANGED method
         \/ /\ q < Size
            /\ method' = Slice(pos, q)
            /\ LET p == skipWhiteSpaces(q + 1) IN ReadTo(p, p)
            /\ Continue("uri")
  /\ UNCHANGED <<uri, version, ref, items>>

ParseURI ==
  /\ stage = "uri"
  /\ LET q == findToken(pos)
     IN  \/ /\ q = Size
            /\ ReadTo(q, q) /\ Return("HttpParserError")
            /\ UNCHANGED uri
         \/ /\ q < Size
            /\ uri' = Slice(pos, q)
            /\ LET p == skipWhiteSpaces(q + 1) IN ReadTo(p, p)
            /\ Continue("version")
  /\ UNCHANGED <<method, version, ref, items>>

\* The fields are what follows the version.
ParseVersion ==
  /\ stage = "version"
  /\ LET q == findCrLfToken(pos)
     IN  \/ /\ q = Size
            /\ ReadTo(q, q) /\ Return("HttpParserError")
            /\ UNCHANGED <<version, ref>>
         \/ /\ q < Size /\ q - pos < VersionLength
            /\ ReadTo(q, q + 1) /\ Return("HttpParserError")
            /\ UNCHANGED <<version, ref>>
         \/ /\ q < Size /\ q - pos >= VersionLength
            /\ version' = Slice(pos, q)
            /\ ref' = Slice(q + 2, Size)
            /\ ReadTo(q + 2, q + 2)
            /\ Continue("fields")
  /\ UNCHANGED <<method, uri, items>>

\* (faulty) The look ahead is not cut off at the end of the input.
checkAndSkipCrLfUncut(p) ==
  LET twice == At(p + 1) = "LF" /\ At(p + 2) = "CR"
  IN  [last |-> IF twice THEN p + 3 ELSE p + 2,
       found |-> IF twice THEN "end" ELSE "line"]

\* What ends the line at p, "line" before another field and "end" at the end
\* of the header, and the last position looked at to know.
checkAndSkipCrLf(p) ==
  LET line == At(p) = "CR" /\ At(p + 1) = "LF"
      long == Size - p >= 4
      another == At(p + 2) = "CR"
      IN  [last |-> IF long THEN IF another /\ line THEN p + 3 ELSE p + 2
                    ELSE IF p + 1 < Size THEN p + 1 ELSE p,
           found |-> IF line /\ (long => ~another) THEN "line"
                     ELSE IF line /\ long /\ At(p + 3) = "LF" THEN "end"
                     ELSE "neither"]

\* The fields' keys and values are found wherever a ":" and a CR are; a field
\* after the last item of the array is written behind it, where the run ends.
ParseHeaderField ==
  /\ stage = "fields"
  /\ LET k == findFieldKey(pos)
         v == skipWhiteSpaces(k + 1)
         e == findFieldValue(v)
         next == checkAndSkipCrLf(e)
     IN  \/ /\ k = Size \/ k = pos
            /\ ReadTo(k, k) /\ Return("HttpParserError")
            /\ UNCHANGED items
         \/ /\ k < Size /\ k > pos
            /\ e = Size \/ e = v
            /\ ReadTo(e, e) /\ Return("HttpParserError")
            /\ UNCHANGED items
         \/ /\ k < Size /\ k > pos /\ e < Size /\ e > v
            /\ Len(items) < InitCapacity
            /\ items' = Append(items, [key |-> Entry(Slice(pos, k)),
                                       value |-> Entry(Slice(v, e))])
            /\ \/ next.found = "line" /\ ReadTo(e + 2, next.last) /\ Continue("fields")
               \/ next.found = "end" /\ ReadTo(e + 4, next.last) /\ Return("Succeed")
               \/ next.found = "neither" /\ ReadTo(e, next.last) /\ Return("HttpParserError")
         \/ /\ k < Size /\ k > pos /\ e < Size /\ e > v
            /\ Len(items) >= InitCapacity
            /\ ReadTo(e, e)
            /\ Continue("overrun") /\ UNCHANGED items
  /\ UNCHANGED <<method, uri, version, ref>>

\* reset, which callers do between two requests.
Reset ==
  /\ stage = "done"
  /\ stage' = "idle"
  /\ ec' = "None"
  /\ data' = <<>> /\ pos' = 0 /\ furthest' = 0
  /\ method' = Empty /\ uri' = Empty /\ version' = Empty /\ ref' = Empty
  /\ items' = <<>>

Next ==
  \/ ParseRequest \/ ParseMethod \/ ParseURI \/ ParseVersion \/ ParseHeaderField
  \/ Reset

Spec == Init /\ [][Next]_vars

-----------------------------------------------------------------------------
(* Properties                                                              *)

Slices == [offset : 0 .. Size, length : 0 .. Size]

TypeOK ==
  /\ data \in Seq(Chars)
  /\ pos \in 0 .. Size
  /\ stage \in {"idle", "method", "uri", "version", "fields", "done", "overrun"}
  /\ ec \in {"None", "Succeed", "InvalidHttpMethod", "HttpParserError"}
  /\ {method, uri, version, ref} \subseteq Slices
  /\ items \in Seq([key : Slices, value : Slices])
  /\ Len(items) <= InitCapacity

Accepted == stage = "done" /\ ec = "Succeed" /\ data # <<>>
Key(i) == Referred(items[i].key)
Value(i) == Referred(items[i].value)

\* What was returned for a request is the request: each part and every
\* field, in order and nothing more, provided the list has room for them and
\* their offsets fit the type they are cast to.
MessageUnderstood ==
  (stage = "done" /\ ref.length <= OffsetRange) =>
    \A s \in Sent : LET m == s[1] IN
      (data = s[2] /\ Len(m.fields) <= InitCapacity) =>
        /\ ec = "Succeed"
        /\ Content(method) = m.method
        /\ Content(uri) = m.uri
        /\ Content(version) = m.version
        /\ m.fields = [i \in DOMAIN items |-> <<Content(Key(i)), Content(Value(i))>>]

\* After s the text is mark and then spaces only, up to p.
FollowedBy(s, mark, p) ==
  /\ s.length > 0
  /\ At(EndOf(s)) = mark
  /\ EndOf(s) < p
  /\ \A r \in EndOf(s) + 1 .. p - 1 : At(r) = "SP"

Separated(s, mark, t) == FollowedBy(s, mark, t.offset) /\ t.length > 0
LineEnd(p) == At(p) = "CR" /\ At(p + 1) = "LF"

RequestLine ==
  /\ method.offset = 0
  /\ Separated(method, "SP", uri)
  /\ Separated(uri, "SP", version)
  /\ LineEnd(EndOf(version))
  /\ ref = Slice(EndOf(version) + 2, Size)

\* The fields fill the text from ref to p.
Fields(p) ==
  /\ p = IF items = <<>> THEN ref.offset ELSE EndOf(Value(Len(items))) + 2
  /\ \A i \in DOMAIN items :
       /\ Key(i).offset = IF i = 1 THEN ref.offset ELSE EndOf(Value(i - 1)) + 2
       /\ Separated(Key(i), ":", Value(i))
       /\ \A r \in Key(i).offset .. EndOf(Key(i)) - 1 : At(r) # ":"
       /\ LineEnd(EndOf(Value(i)))

\* Whatever is accepted has the form of a request, of which the parser's
\* slices are the parts: they follow each other from the first character to
\* an empty line, with nothing left out but the marks and spaces between
\* them.  No input cut off before its empty line is accepted.
AcceptedIsRequest ==
  (Accepted /\ ref.length <= OffsetRange) =>
    /\ RequestLine
    /\ items # <<>>
    /\ Fields(pos - 2)
    /\ LineEnd(pos - 2)

\* No read goes beyond the terminator, although the stages step over
\* separators and look ahead without asking for each character.
ReadsInBounds == furthest <= Size

\* Neither the stream, nor a slice that is kept, nor a read leaves the input:
\* a step over a mark leads to the terminator at most (InputStream, Parser).
StaysInInput == TypeOK /\ ReadsInBounds
=============================================================================
