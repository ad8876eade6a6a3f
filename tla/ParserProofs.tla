---------------------------- MODULE ParserProofs ----------------------------
(***************************************************************************)
(* Theorems about Parser, for every input, and about Strings, for every    *)
(* pair of strings: the parts of a request are returned as StringRefs.     *)
(***************************************************************************)
EXTENDS Parser, StringPair, PointersProofs, SequenceTheorems

\* A set of natural numbers that is not empty has a least element.
LEMMA MinIsLeast ==
  ASSUME NEW S \in SUBSET Nat, S # {}
  PROVE  /\ Min(S) \in S
         /\ \A y \in S : Min(S) <= y
<1> DEFINE R == OpToRel(<, Nat)
<1>1. IsWellFoundedOn(R, Nat)
  BY NatLessThanWellFounded
<1>2. PICK x \in S : \A y \in S : ~(<<y, x>> \in R)
  <2> HIDE DEF R
  <2> QED BY <1>1, WFMin
<1>3. \A a, b \in Nat : a < b => <<a, b>> \in R
  BY DEF OpToRel
<1>4. \A y \in S : ~(y < x)
  <2> HIDE DEF R
  <2> QED BY <1>2, <1>3
<1>5. \E m \in S : \A y \in S : m <= y
  BY <1>4
<1> QED
  BY <1>5 DEF Min

\* A search ends at the first character looked for or at the end.
LEMMA UntilStops ==
  ASSUME data \in Seq(Chars), NEW p \in 0 .. Size, NEW chars
  PROVE  LET q == Until(chars, p)
         IN  /\ q \in p .. Size
             /\ q = Size \/ (q < Size /\ At(q) \in chars)
             /\ \A r \in p .. q - 1 : At(r) \notin chars
  <1> DEFINE S == {q \in p .. Size : q = Size \/ At(q) \in chars}
  <1>1. Size \in Nat
    BY DEF Size
  <1>2. Size \in S /\ S \in SUBSET Nat
    BY <1>1
  <1>3. Min(S) \in S /\ \A y \in S : Min(S) <= y
    BY <1>2, MinIsLeast
  <1>4. Until(chars, p) = Min(S)
    BY DEF Until
  <1>5. Min(S) \in p .. Size /\ (Min(S) = Size \/ At(Min(S)) \in chars)
    BY <1>3
  <1>6. ASSUME NEW r \in p .. Min(S) - 1
        PROVE  At(r) \notin chars
    <2>1. r \in p .. Size /\ r < Min(S)
      BY <1>1, <1>5
    <2>2. r \notin S
      <3> HIDE DEF S
      <3> QED BY <1>1, <1>3, <1>5, <2>1
    <2> QED
      BY <2>1, <2>2
  <1> QED
    BY <1>1, <1>4, <1>5, <1>6

\* So does a search for the end of a line.
LEMMA CrLfStops ==
  ASSUME data \in Seq(Chars), NEW p \in 0 .. Size
  PROVE  LET q == findCrLfToken(p)
         IN  /\ q \in p .. Size
             /\ q = Size \/ (q + 1 < Size /\ LineEnd(q))
  <1> DEFINE S == {q \in p .. Size : q = Size \/ (At(q) = "CR" /\ At(q + 1) = "LF")}
  <1>1. Size \in Nat
    BY DEF Size
  <1>2. Size \in S /\ S \in SUBSET Nat
    BY <1>1
  <1>3. Min(S) \in S
    BY <1>2, MinIsLeast
  <1>4. findCrLfToken(p) = Min(S)
    BY DEF findCrLfToken
  <1> QED
    BY <1>1, <1>3, <1>4 DEF LineEnd, At

\* A cast never makes a number larger, and keeps those in range.
LEMMA CastBounded ==
  ASSUME NEW n \in Nat
  PROVE  /\ Cast(n) \in 0 .. n
         /\ n < OffsetRange => Cast(n) = n
  BY ParserAssumption DEF Cast

\* The look ahead stays within the input, and what is found is there.
LEMMA LookAhead ==
  ASSUME data \in Seq(Chars), NEW p \in 0 .. Size, p < Size
  PROVE  LET next == checkAndSkipCrLf(p)
         IN  /\ next.last \in p .. Size
             /\ next.found \in {"line", "end", "neither"}
             /\ next.found = "line" => p + 2 <= Size /\ LineEnd(p)
             /\ next.found = "end" => p + 4 <= Size /\ LineEnd(p) /\ LineEnd(p + 2)
  BY DEF checkAndSkipCrLf, LineEnd, At, Size

\* What is skipped are spaces, and no space follows.
LEMMA SkipStops ==
  ASSUME data \in Seq(Chars), NEW p \in 0 .. Size
  PROVE  LET v == skipWhiteSpaces(p)
         IN  /\ v \in p .. Size
             /\ At(v) # "SP"
             /\ \A r \in p .. v - 1 : At(r) = "SP"
  <1> DEFINE v == skipWhiteSpaces(p)
  <1>1. /\ v \in p .. Size
        /\ v = Size \/ (v < Size /\ At(v) \in Chars \ {"SP"})
        /\ \A r \in p .. v - 1 : At(r) \notin Chars \ {"SP"}
    BY UntilStops DEF skipWhiteSpaces
  <1>2. Size \in Nat
    BY DEF Size
  <1>3. \A r \in 0 .. Size - 1 : At(r) \in Chars
    BY DEF At, Size
  <1>4. At(v) # "SP"
    <2>1. CASE v = Size
      BY <1>2, <2>1 DEF At
    <2>2. CASE v < Size
      BY <1>1, <2>2, <1>2
    <2> QED BY <1>1, <2>1, <2>2
  <1>5. \A r \in p .. v - 1 : At(r) = "SP"
    <2> SUFFICES ASSUME NEW r \in p .. v - 1 PROVE At(r) = "SP"
      OBVIOUS
    <2>1. r \in 0 .. Size - 1
      BY <1>1, <1>2
    <2> QED BY <1>1, <1>3, <2>1
  <1> QED
    BY <1>1, <1>4, <1>5

\* A token that does not start with a space ends at one, and only spaces are
\* skipped behind it.
LEMMA TokenEnds ==
  ASSUME data \in Seq(Chars), NEW p \in 0 .. Size, At(p) # "SP",
         findToken(p) # Size
  PROVE  LET q == findToken(p)
             v == skipWhiteSpaces(q + 1)
         IN  /\ q \in p .. Size /\ q < Size
             /\ v \in q + 1 .. Size
             /\ At(v) # "SP"
             /\ Slice(p, q) \in Slices
             /\ FollowedBy(Slice(p, q), "SP", v)
  <1> DEFINE q == findToken(p)
             v == skipWhiteSpaces(q + 1)
  <1>1. Size \in Nat
    BY DEF Size
  <1>2. q \in p .. Size /\ q < Size /\ At(q) = "SP"
    BY <1>1, UntilStops DEF findToken
  <1>3. p < q
    BY <1>1, <1>2
  <1>4. q + 1 \in 0 .. Size
    BY <1>1, <1>2
  <1>5. v \in q + 1 .. Size /\ At(v) # "SP" /\ \A r \in q + 1 .. v - 1 : At(r) = "SP"
    BY <1>4, SkipStops
  <1>6. Slice(p, q) \in Slices /\ EndOf(Slice(p, q)) = q /\ Slice(p, q).length > 0
    BY <1>1, <1>2, <1>3 DEF Slice, Slices, EndOf
  <1>7. FollowedBy(Slice(p, q), "SP", v)
    BY <1>1, <1>2, <1>5, <1>6 DEF FollowedBy
  <1> QED
    BY <1>1, <1>2, <1>5, <1>6, <1>7

\* An entry is a slice of the input, and the one it was made from where its
\* offset and length fit their type.
LEMMA EntryRefers ==
  ASSUME data \in Seq(Chars), ref \in Slices,
         NEW a \in 0 .. Size, NEW b \in a .. Size, ref.offset <= a
  PROVE  /\ Entry(Slice(a, b)) \in Slices
         /\ b < ref.offset + OffsetRange =>
              Referred(Entry(Slice(a, b))) = Slice(a, b)
  <1>1. Size \in Nat /\ ref.offset \in Nat
    BY DEF Size, Slices
  <1>2. a - ref.offset \in Nat /\ b - a \in Nat
    BY <1>1
  <1>3. Entry(Slice(a, b)) = [offset |-> Cast(a - ref.offset), length |-> Cast(b - a)]
    BY DEF Entry, Slice
  <1>4. Cast(a - ref.offset) \in 0 .. a - ref.offset /\ Cast(b - a) \in 0 .. b - a
    BY <1>2, CastBounded
  <1>5. Entry(Slice(a, b)) \in Slices
    BY <1>1, <1>3, <1>4 DEF Slices
  <1>6. ASSUME b < ref.offset + OffsetRange
        PROVE  Referred(Entry(Slice(a, b))) = Slice(a, b)
    <2>1. a - ref.offset < OffsetRange /\ b - a < OffsetRange
      BY <1>1, <1>2, <1>6, ParserAssumption
    <2>2. Cast(a - ref.offset) = a - ref.offset /\ Cast(b - a) = b - a
      BY <1>2, <2>1, CastBounded
    <2> QED
      BY <1>1, <1>3, <2>2 DEF Referred, Slice
  <1> QED
    BY <1>5, <1>6

-----------------------------------------------------------------------------
(* Well-formed requests: their text                                        *)

Part == Seq(Chars)

LEMMA Joined ==
  ASSUME NEW r \in Part, NEW s \in Part
  PROVE  /\ r \o s \in Part
         /\ Len(r) \in Nat /\ Len(s) \in Nat /\ Len(r \o s) = Len(r) + Len(s)
BY ConcatProperties DEF Part

\* s from the p-th character of t on.
StandsIn(t, s, p) ==
  p + Len(s) <= Len(t) /\ \A j \in 1 .. Len(s) : t[p + j] = s[j]

\* Both halves of what stands somewhere stand there.
LEMMA HalvesStand ==
  ASSUME NEW t \in Part, NEW r \in Part, NEW s \in Part, NEW p \in Nat,
         StandsIn(t, r \o s, p)
  PROVE  StandsIn(t, r, p) /\ StandsIn(t, s, p + Len(r))
<1>1. /\ Len(r) \in Nat /\ Len(s) \in Nat /\ Len(t) \in Nat
      /\ Len(r \o s) = Len(r) + Len(s)
      /\ \A i \in 1 .. Len(r) + Len(s) :
           (r \o s)[i] = IF i <= Len(r) THEN r[i] ELSE s[i - Len(r)]
  BY ConcatProperties DEF Part
<1>2. StandsIn(t, r, p)
  BY <1>1 DEF StandsIn
<1>3. ASSUME NEW j \in 1 .. Len(s)
      PROVE  t[(p + Len(r)) + j] = s[j]
  <2>1. Len(r) + j \in 1 .. Len(r) + Len(s) /\ (Len(r) + j) - Len(r) = j
        /\ ~(Len(r) + j <= Len(r)) /\ p + (Len(r) + j) = (p + Len(r)) + j
    BY <1>1
  <2>2. t[p + (Len(r) + j)] = (r \o s)[Len(r) + j]
    BY <1>1, <2>1 DEF StandsIn
  <2> QED BY <1>1, <2>1, <2>2
<1>4. (p + Len(r)) + Len(s) <= Len(t)
  <2>1. p + Len(r \o s) <= Len(t)
    BY DEF StandsIn
  <2> QED BY <1>1, <2>1
<1> QED BY <1>2, <1>3, <1>4 DEF StandsIn

LEMMA WholeStands ==
  ASSUME NEW t \in Part
  PROVE  StandsIn(t, t, 0)
BY DEF StandsIn, Part

\* FlattenSeq appends one sequence after the other.
LEMMA Flattened ==
  ASSUME NEW ss \in Seq(Part), ss # <<>>
  PROVE  \E h \in [0 .. Len(ss) -> Part] :
           /\ h[0] = <<>> /\ \A i \in 1 .. Len(ss) : h[i] = h[i - 1] \o ss[i]
           /\ FlattenSeq(ss) = h[Len(ss)]
<1> DEFINE n == Len(ss)
           Flat(g) == g = [i \in 1 .. n |-> IF i = 1 THEN ss[i] ELSE g[i - 1] \o ss[i]]
           f == CHOOSE g : Flat(g)
<1>1. n \in Nat /\ n > 0 /\ \A i \in 1 .. n : ss[i] \in Part
  OBVIOUS
<1>2. FlattenSeq(ss) = f[n]
  BY <1>1 DEF FlattenSeq
<1>3. PICK h \in [0 .. n -> Part] :
        h[0] = <<>> /\ \A i \in 1 .. n : h[i] = h[i - 1] \o ss[i]
  <2> DEFINE step == [i \in 1 .. n |-> [t \in Part |-> t \o ss[i]]]
  <2>1. <<>> \in Part
    BY DEF Part
  <2>2. step \in [1 .. n -> [Part -> Part]]
    BY <1>1, ConcatProperties DEF Part
  <2> HIDE DEF step
  <2>3. PICK h \in [0 .. n -> Part] :
          h[0] = <<>> /\ \A i \in 1 .. n : h[i] = step[i][h[i - 1]]
    <3> DEFINE z == <<>>
    <3> HIDE DEF n, z
    <3>1. z \in Part /\ n \in Nat
      BY <1>1, <2>1 DEF z
    <3>2. \E h \in [0 .. n -> Part] :
            h[0] = z /\ \A i \in 1 .. n : h[i] = step[i][h[i - 1]]
      BY ONLY <3>1, <2>2, StepByStep
    <3> QED BY <3>2 DEF z
  <2>4. ASSUME NEW i \in 1 .. n
        PROVE  h[i] = h[i - 1] \o ss[i]
    <3>1. i - 1 \in 0 .. n /\ h[i - 1] \in Part
      BY <1>1
    <3> QED BY <2>3, <3>1 DEF step
  <2> QED BY <2>3, <2>4
<1>4. h[1] = ss[1]
  <2>1. h[1] = <<>> \o ss[1]
    BY <1>1, <1>3
  <2> QED BY <1>1, <2>1, ConcatEmptySeq DEF Part
<1> DEFINE d == [i \in 1 .. n |-> h[i]]
<1>5. Flat(d)
  <2> SUFFICES ASSUME NEW i \in 1 .. n
               PROVE  h[i] = IF i = 1 THEN ss[i] ELSE d[i - 1] \o ss[i]
    OBVIOUS
  <2>1. CASE i = 1
    BY <2>1, <1>4
  <2>2. CASE i # 1
    <3>1. i - 1 \in 1 .. n
      BY <1>1, <2>2
    <3> QED BY <2>2, <3>1, <1>3
  <2> QED BY <2>1, <2>2
<1>6. Flat(f)
  <2> HIDE DEF Flat, d
  <2> QED BY <1>5
<1>7. \A i \in 1 .. n : f[i] = h[i]
  <2> DEFINE Good == {i \in Nat : i \in 1 .. n => f[i] = h[i]}
  <2> HIDE DEF f, n
  <2>0. \A i \in 1 .. n : f[i] = IF i = 1 THEN ss[i] ELSE f[i - 1] \o ss[i]
    BY <1>6
  <2> HIDE DEF Flat
  <2>1. 0 \in Good
    OBVIOUS
  <2>2. ASSUME NEW i \in Nat, i \in Good
        PROVE  i + 1 \in Good
    <3> SUFFICES ASSUME i + 1 \in 1 .. n
                 PROVE  f[i + 1] = h[i + 1]
      OBVIOUS
    <3>1. CASE i = 0
      BY <3>1, <2>0, <1>4
    <3>2. CASE i # 0
      <4>1. i \in 1 .. n /\ (i + 1) - 1 = i /\ i + 1 # 1
        BY <1>1, <3>2
      <4>2. f[i] = h[i]
        BY <2>2, <4>1
      <4>3. f[i + 1] = f[i] \o ss[i + 1]
        BY <4>1, <2>0
      <4>4. h[i + 1] = h[i] \o ss[i + 1]
        BY <4>1, <1>3 DEF n
      <4> QED BY <4>2, <4>3, <4>4
    <3> QED BY <3>1, <3>2
  <2> HIDE DEF Good
  <2>3. Nat \subseteq Good
    BY <2>1, <2>2, SetInduction
  <2> QED BY <2>3 DEF Good
<1>8. FlattenSeq(ss) = h[n]
  BY <1>1, <1>2, <1>7
<1> QED BY <1>3, <1>8

\* What the parts of a request are.
LEMMA PartsOf ==
  ASSUME NEW m \in Requests
  PROVE  /\ m.method \in Part /\ m.uri \in Part /\ m.version \in Part /\ m.body \in Part
         /\ m.fields \in Seq(Part \X Part) /\ m.fields # <<>>
         /\ m.spaces \in Nat /\ m.spaces > 0
         /\ \A i \in 1 .. Len(m.fields) :
              m.fields[i][1] \in Part /\ m.fields[i][2] \in Part
         /\ Len(m.fields) \in Nat /\ Len(m.fields) > 0
<1>1. WellFormed(m)
  BY ParserAssumption
<1>2. /\ m.fields \in Seq(Part \X Part) /\ m.fields # <<>>
      /\ {m.method, m.uri, m.version, m.body} \subseteq Part
      /\ m.spaces \in Nat \ {0}
  BY <1>1 DEF WellFormed, Part
<1>3. \A i \in 1 .. Len(m.fields) : m.fields[i] \in Part \X Part
  BY <1>2
<1>4. \A x \in Part \X Part : x[1] \in Part /\ x[2] \in Part
  OBVIOUS
<1>5. Len(m.fields) \in Nat /\ Len(m.fields) > 0
  BY <1>2
<1> QED BY <1>2, <1>3, <1>4, <1>5

\* The marks between them.
LEMMA MarksAre ==
  /\ CrLf \in Part /\ Len(CrLf) = 2 /\ CrLf[1] = "CR" /\ CrLf[2] = "LF"
  /\ <<":">> \in Part /\ Len(<<":">>) = 1 /\ <<":">>[1] = ":"
  /\ \A n \in Nat : /\ Spaces(n) \in Part /\ Len(Spaces(n)) = n
                    /\ \A i \in 1 .. n : Spaces(n)[i] = "SP"
<1>1. CrLf \in Part /\ Len(CrLf) = 2 /\ CrLf[1] = "CR" /\ CrLf[2] = "LF"
  BY DEF CrLf, Part, Chars
<1>2. <<":">> \in Part /\ Len(<<":">>) = 1 /\ <<":">>[1] = ":"
  BY DEF Part, Chars
<1>3. ASSUME NEW n \in Nat
      PROVE  /\ Spaces(n) \in Part /\ Len(Spaces(n)) = n
             /\ \A i \in 1 .. n : Spaces(n)[i] = "SP"
  <2>1. Spaces(n) \in [1 .. n -> Chars]
    BY DEF Spaces, Chars
  <2>2. Spaces(n) \in Part
    BY <2>1 DEF Part
  <2>3. Len(Spaces(n)) = n
    BY <2>1, <2>2 DEF Part
  <2> QED BY <2>2, <2>3 DEF Spaces
<1> QED BY <1>1, <1>2, <1>3

\* Where the parts of the line begin, and the text of a field.
UriAt(m) == Len(m.method) + m.spaces
VersionAt(m) == UriAt(m) + Len(m.uri) + m.spaces
FieldsAt(m) == VersionAt(m) + Len(m.version) + 2
FieldText(m, i) ==
  m.fields[i][1] \o <<":">> \o Spaces(m.spaces - 1) \o m.fields[i][2] \o CrLf

\* From the key's beginning to the value's, and to the next line's.
ToValue(m, i) == Len(m.fields[i][1]) + m.spaces
ToNext(m, i) == ToValue(m, i) + Len(m.fields[i][2]) + 2

LineLaid(m, t) ==
  /\ StandsIn(t, m.method, 0)
  /\ StandsIn(t, Spaces(m.spaces), Len(m.method))
  /\ StandsIn(t, m.uri, UriAt(m))
  /\ StandsIn(t, Spaces(m.spaces), UriAt(m) + Len(m.uri))
  /\ StandsIn(t, m.version, VersionAt(m))
  /\ StandsIn(t, CrLf, VersionAt(m) + Len(m.version))

FieldLaid(m, t, i, p) ==
  /\ StandsIn(t, m.fields[i][1], p)
  /\ StandsIn(t, <<":">>, p + Len(m.fields[i][1]))
  /\ StandsIn(t, Spaces(m.spaces - 1), p + Len(m.fields[i][1]) + 1)
  /\ StandsIn(t, m.fields[i][2], p + ToValue(m, i))
  /\ StandsIn(t, CrLf, p + ToValue(m, i) + Len(m.fields[i][2]))

\* t is laid out as m, its fields from the positions at on.
LaidOut(m, t, at) ==
  /\ LineLaid(m, t)
  /\ at \in [1 .. Len(m.fields) + 1 -> Nat] /\ at[1] = FieldsAt(m)
  /\ \A i \in 1 .. Len(m.fields) :
       FieldLaid(m, t, i, at[i]) /\ at[i + 1] = at[i] + ToNext(m, i)
  /\ StandsIn(t, CrLf, at[Len(m.fields) + 1])

LEMMA FieldTextLaid ==
  ASSUME NEW m \in Requests, NEW i \in 1 .. Len(m.fields), NEW t \in Part, NEW p \in Nat
  PROVE  /\ FieldText(m, i) \in Part /\ Len(FieldText(m, i)) = ToNext(m, i)
         /\ StandsIn(t, FieldText(m, i), p) => FieldLaid(m, t, i, p)
<1> DEFINE key == m.fields[i][1]
           val == m.fields[i][2]
           n == m.spaces - 1
           a == key \o <<":">>
           b == a \o Spaces(n)
           c == b \o val
           d == c \o CrLf
<1>1. key \in Part /\ val \in Part /\ n \in Nat /\ m.spaces = n + 1
      /\ Len(key) \in Nat /\ Len(val) \in Nat
  <2>1. key \in Part /\ val \in Part /\ m.spaces \in Nat /\ m.spaces > 0
    BY PartsOf
  <2> QED BY <2>1, LenProperties DEF Part
<1> HIDE DEF key, val, n
<1>2. /\ Spaces(n) \in Part /\ Len(Spaces(n)) = n
      /\ CrLf \in Part /\ Len(CrLf) = 2
      /\ <<":">> \in Part /\ Len(<<":">>) = 1
  BY <1>1, MarksAre
<1>3. a \in Part /\ Len(a) = Len(key) + 1
  BY <1>1, <1>2, Joined
<1> HIDE DEF a
<1>4. b \in Part /\ Len(b) = Len(key) + 1 + n
  <2>1. b \in Part /\ Len(b) = Len(a) + Len(Spaces(n))
    BY ONLY <1>2, <1>3, Joined
  <2> QED BY ONLY <2>1, <1>1, <1>2, <1>3
<1> HIDE DEF b
<1>5. c \in Part /\ Len(c) = Len(key) + 1 + n + Len(val)
  <2>1. c \in Part /\ Len(c) = Len(b) + Len(val)
    BY ONLY <1>1, <1>4, Joined
  <2> QED BY ONLY <2>1, <1>1, <1>4
<1> HIDE DEF c
<1>6. d \in Part /\ Len(d) = Len(key) + 1 + n + Len(val) + 2
  <2>1. d \in Part /\ Len(d) = Len(c) + Len(CrLf)
    BY ONLY <1>2, <1>5, Joined
  <2> QED BY ONLY <2>1, <1>1, <1>2, <1>5
<1>7. FieldText(m, i) = d
  BY DEF FieldText, key, val, n, a, b, c
<1>8. ToValue(m, i) = Len(key) + 1 + n /\ ToNext(m, i) = Len(key) + 1 + n + Len(val) + 2
  <2>1. ToValue(m, i) = Len(key) + m.spaces /\ ToNext(m, i) = ToValue(m, i) + Len(val) + 2
    BY DEF ToValue, ToNext, key, val
  <2> QED BY ONLY <1>1, <2>1
<1>9. ASSUME StandsIn(t, d, p)
      PROVE  FieldLaid(m, t, i, p)
  <2>1. StandsIn(t, c, p) /\ StandsIn(t, CrLf, p + Len(c))
    BY <1>2, <1>5, <1>9, HalvesStand
  <2>2. StandsIn(t, b, p) /\ StandsIn(t, val, p + Len(b))
    BY <1>1, <1>4, <2>1, HalvesStand DEF c
  <2>3. StandsIn(t, a, p) /\ StandsIn(t, Spaces(n), p + Len(a))
    BY <1>2, <1>3, <2>2, HalvesStand DEF b
  <2>4. StandsIn(t, key, p) /\ StandsIn(t, <<":">>, p + Len(key))
    BY <1>1, <1>2, <2>3, HalvesStand DEF a
  <2>5. /\ p + Len(c) = p + ToValue(m, i) + Len(val)
        /\ p + Len(b) = p + ToValue(m, i)
        /\ p + Len(a) = p + Len(key) + 1
    BY <1>1, <1>3, <1>4, <1>5, <1>8
  <2> HIDE DEF d
  <2> QED BY <2>1, <2>2, <2>3, <2>4, <2>5 DEF FieldLaid, key, val, n
<1> HIDE DEF d
<1> QED BY <1>6, <1>7, <1>8, <1>9

LEMMA SpacesTyped ==
  ASSUME NEW m \in Requests
  PROVE  Spaces(m.spaces) \in Part /\ Len(Spaces(m.spaces)) = m.spaces
BY PartsOf, MarksAre

\* The text of a request is laid out as the request.
LEMMA TextLaid ==
  ASSUME NEW m \in Requests
  PROVE  Text(m) \in Part /\ \E at : LaidOut(m, Text(m), at)
<1> DEFINE t == Text(m)
           n == Len(m.fields)
           ss == [i \in DOMAIN m.fields |-> FieldText(m, i)]
           sp == Spaces(m.spaces)
           a == m.method \o sp
           b == a \o m.uri
           c == b \o sp
           d == c \o m.version
           e == d \o CrLf
           f == e \o FieldsText(m)
           g == f \o CrLf
<1>1. /\ m.method \in Part /\ m.uri \in Part /\ m.version \in Part /\ m.body \in Part
      /\ sp \in Part /\ Len(sp) = m.spaces /\ CrLf \in Part /\ Len(CrLf) = 2
      /\ n \in Nat /\ n > 0 /\ DOMAIN m.fields = 1 .. n
      /\ Len(m.method) \in Nat /\ Len(m.uri) \in Nat /\ Len(m.version) \in Nat
      /\ m.spaces \in Nat
  BY PartsOf, MarksAre, SpacesTyped, LenProperties DEF Part
<1>2. \A i \in 1 .. n : FieldText(m, i) \in Part /\ Len(FieldText(m, i)) = ToNext(m, i)
  BY FieldTextLaid, <<>> \in Part DEF Part
<1>3. ss \in Seq(Part) /\ ss # <<>> /\ Len(ss) = n
  <2>1. ss \in [1 .. n -> Part]
    BY <1>1, <1>2
  <2> HIDE DEF ss, n
  <2> QED BY <2>1, <1>1
<1>4. PICK h \in [0 .. n -> Part] :
        /\ h[0] = <<>> /\ \A i \in 1 .. n : h[i] = h[i - 1] \o FieldText(m, i)
        /\ FieldsText(m) = h[n]
  <2>1. FieldsText(m) = FlattenSeq(ss)
    BY DEF FieldsText, FieldText
  <2>2. PICK h \in [0 .. Len(ss) -> Part] :
          /\ h[0] = <<>> /\ \A i \in 1 .. Len(ss) : h[i] = h[i - 1] \o ss[i]
          /\ FlattenSeq(ss) = h[Len(ss)]
    <3> HIDE DEF ss
    <3> QED BY <1>3, Flattened
  <2>3. \A i \in 1 .. n : ss[i] = FieldText(m, i)
    BY <1>1
  <2> HIDE DEF ss, n
  <2> QED BY <1>3, <2>1, <2>2, <2>3
<1> HIDE DEF n, ss, sp
<1>5. FieldsText(m) \in Part
  BY <1>1, <1>4
<1>6. a \in Part /\ Len(a) = UriAt(m)
  <2>1. a \in Part /\ Len(a) = Len(m.method) + Len(sp)
    BY ONLY <1>1, Joined
  <2> QED BY <2>1, <1>1 DEF UriAt
<1> HIDE DEF a
<1>7. b \in Part /\ Len(b) = UriAt(m) + Len(m.uri)
  BY <1>1, <1>6, Joined
<1> HIDE DEF b
<1>8. c \in Part /\ Len(c) = VersionAt(m)
  BY <1>1, <1>7, Joined DEF VersionAt
<1> HIDE DEF c
<1>9. d \in Part /\ Len(d) = VersionAt(m) + Len(m.version)
  BY <1>1, <1>8, Joined
<1> HIDE DEF d
<1>10. e \in Part /\ Len(e) = FieldsAt(m)
  BY <1>1, <1>9, Joined DEF FieldsAt
<1> HIDE DEF e
<1>11. f \in Part /\ Len(f) = FieldsAt(m) + Len(h[n])
  BY <1>4, <1>5, <1>10, Joined
<1> HIDE DEF f
<1>12. g \in Part
  BY <1>1, <1>11, Joined
<1>13. t = g \o m.body
  BY DEF Text, a, b, c, d, e, f, sp
<1> HIDE DEF g, t
<1>14. t \in Part
  BY <1>1, <1>12, <1>13, Joined
<1>15. StandsIn(t, g, 0)
  <2>1. StandsIn(t, g \o m.body, 0)
    BY <1>13, <1>14, WholeStands
  <2> QED BY <2>1, <1>1, <1>12, <1>14, HalvesStand
<1>16. StandsIn(t, f, 0) /\ StandsIn(t, CrLf, FieldsAt(m) + Len(h[n]))
  <2>1. StandsIn(t, f \o CrLf, 0)
    BY <1>15 DEF g
  <2>2. StandsIn(t, f, 0) /\ StandsIn(t, CrLf, 0 + Len(f))
    BY <2>1, <1>1, <1>11, <1>14, HalvesStand
  <2>3. 0 + Len(f) = FieldsAt(m) + Len(h[n])
    BY <1>11, LenProperties DEF Part
  <2> QED BY <2>2, <2>3
<1>17. StandsIn(t, e, 0) /\ StandsIn(t, h[n], FieldsAt(m))
  <2>1. StandsIn(t, e \o h[n], 0)
    BY <1>16, <1>4 DEF f
  <2>2. StandsIn(t, e, 0) /\ StandsIn(t, h[n], 0 + Len(e))
    BY <2>1, <1>4, <1>5, <1>10, <1>14, HalvesStand
  <2>3. 0 + Len(e) = FieldsAt(m)
    BY <1>10, LenProperties DEF Part
  <2> QED BY <2>2, <2>3
<1>18. LineLaid(m, t)
  <2>1. StandsIn(t, d, 0) /\ StandsIn(t, CrLf, 0 + Len(d))
    BY <1>17, <1>1, <1>9, <1>14, HalvesStand DEF e
  <2>2. StandsIn(t, c, 0) /\ StandsIn(t, m.version, 0 + Len(c))
    BY <2>1, <1>1, <1>8, <1>14, HalvesStand DEF d
  <2>3. StandsIn(t, b, 0) /\ StandsIn(t, sp, 0 + Len(b))
    BY <2>2, <1>1, <1>7, <1>14, HalvesStand DEF c
  <2>4. StandsIn(t, a, 0) /\ StandsIn(t, m.uri, 0 + Len(a))
    BY <2>3, <1>1, <1>6, <1>14, HalvesStand DEF b
  <2>5. StandsIn(t, m.method, 0) /\ StandsIn(t, sp, 0 + Len(m.method))
    BY <2>4, <1>1, <1>14, HalvesStand DEF a
  <2>6. /\ 0 + Len(d) = VersionAt(m) + Len(m.version) /\ 0 + Len(c) = VersionAt(m)
        /\ 0 + Len(b) = UriAt(m) + Len(m.uri) /\ 0 + Len(a) = UriAt(m)
        /\ 0 + Len(m.method) = Len(m.method)
    <3>1. \A x \in Part : 0 + Len(x) = Len(x)
      BY LenProperties DEF Part
    <3> QED BY <3>1, <1>1, <1>6, <1>7, <1>8, <1>9
  <2> QED BY <2>1, <2>2, <2>3, <2>4, <2>5, <2>6 DEF LineLaid, sp
<1> DEFINE at == [i \in 1 .. n + 1 |-> FieldsAt(m) + Len(h[i - 1])]
<1>19. \A i \in 0 .. n : h[i] \in Part /\ Len(h[i]) \in Nat
  BY <1>4, LenProperties DEF Part
<1>20. FieldsAt(m) \in Nat
  BY <1>10, LenProperties DEF Part
<1>21. at \in [1 .. n + 1 -> Nat] /\ at[1] = FieldsAt(m)
  <2>1. \A i \in 1 .. n + 1 : i - 1 \in 0 .. n
    BY <1>1
  <2>2. Len(h[0]) = 0 /\ 1 \in 1 .. n + 1 /\ 1 - 1 = 0
    BY <1>1, <1>4
  <2> QED BY <2>1, <2>2, <1>19, <1>20
<1>22. \A i \in 0 .. n : StandsIn(t, h[i], FieldsAt(m))
  <2> DEFINE Good == {j \in Nat : j <= n => StandsIn(t, h[n - j], FieldsAt(m))}
  <2>1. 0 \in Good
    BY <1>17, <1>1
  <2>2. ASSUME NEW j \in Nat, j \in Good
        PROVE  j + 1 \in Good
    <3> SUFFICES ASSUME j + 1 <= n
                 PROVE  StandsIn(t, h[n - (j + 1)], FieldsAt(m))
      OBVIOUS
    <3>1. n - j \in 1 .. n /\ (n - j) - 1 = n - (j + 1) /\ n - (j + 1) \in 0 .. n /\ j <= n
      BY <1>1
    <3>2. h[n - j] = h[n - (j + 1)] \o FieldText(m, n - j)
      BY <3>1, <1>4
    <3>3. StandsIn(t, h[n - (j + 1)] \o FieldText(m, n - j), FieldsAt(m))
      BY <2>2, <3>1, <3>2
    <3>4. h[n - (j + 1)] \in Part /\ FieldText(m, n - j) \in Part
      BY <3>1, <1>2, <1>19 DEF n
    <3> QED BY <3>3, <3>4, <1>14, <1>20, HalvesStand
  <2> HIDE DEF Good
  <2>3. Nat \subseteq Good
    BY <2>1, <2>2, SetInduction
  <2> SUFFICES ASSUME NEW i \in 0 .. n
               PROVE  StandsIn(t, h[i], FieldsAt(m))
    OBVIOUS
  <2>4. n - i \in Nat /\ n - (n - i) = i /\ n - i <= n
    BY <1>1
  <2>5. n - i \in Good
    BY <2>3, <2>4
  <2> QED BY <2>4, <2>5 DEF Good
<1>23. ASSUME NEW i \in 1 .. n
       PROVE  FieldLaid(m, t, i, at[i]) /\ at[i + 1] = at[i] + ToNext(m, i)
  <2>1. i - 1 \in 0 .. n /\ i \in 1 .. n + 1 /\ i + 1 \in 1 .. n + 1 /\ (i + 1) - 1 = i
        /\ i \in 0 .. n
    BY <1>1
  <2>2. h[i] = h[i - 1] \o FieldText(m, i) /\ FieldText(m, i) \in Part
        /\ Len(FieldText(m, i)) = ToNext(m, i) /\ h[i - 1] \in Part
    BY <2>1, <1>2, <1>4, <1>19 DEF n
  <2>3. at[i] = FieldsAt(m) + Len(h[i - 1]) /\ at[i + 1] = FieldsAt(m) + Len(h[i])
    BY <2>1
  <2>4. Len(h[i]) = Len(h[i - 1]) + ToNext(m, i) /\ Len(h[i - 1]) \in Nat
        /\ ToNext(m, i) \in Nat
    BY <2>2, Joined
  <2>5. StandsIn(t, FieldText(m, i), FieldsAt(m) + Len(h[i - 1]))
    <3>1. StandsIn(t, h[i], FieldsAt(m))
      BY <2>1, <1>22
    <3>2. StandsIn(t, h[i - 1] \o FieldText(m, i), FieldsAt(m))
      BY <2>2, <3>1
    <3> QED BY ONLY <2>2, <3>2, <1>14, <1>20, HalvesStand
  <2>6. FieldLaid(m, t, i, FieldsAt(m) + Len(h[i - 1]))
    <3>1. FieldsAt(m) + Len(h[i - 1]) \in Nat
      BY <1>20, <2>4
    <3> QED BY <3>1, <2>5, <1>14, FieldTextLaid DEF n
  <2> HIDE DEF at
  <2> QED BY <2>3, <2>4, <2>6, <1>20
<1>24. StandsIn(t, CrLf, at[n + 1])
  <2>1. n + 1 \in 1 .. n + 1 /\ (n + 1) - 1 = n
    BY <1>1
  <2> QED BY <2>1, <1>16
<1>25. LaidOut(m, t, at)
  <2> HIDE DEF at
  <2> QED BY <1>18, <1>21, <1>23, <1>24 DEF LaidOut, n
<1> HIDE DEF at
<1> QED BY <1>14, <1>25 DEF t

-----------------------------------------------------------------------------
(* Well-formed requests: what the parser finds in their text               *)

\* The characters of what stands in the input.
LEMMA CharsStand ==
  ASSUME data \in Part, NEW s \in Part, NEW p \in Nat, StandsIn(data, s, p)
  PROVE  /\ Size \in Nat /\ Len(s) \in Nat /\ p + Len(s) <= Size
         /\ \A r \in p .. p + Len(s) - 1 : r < Size /\ At(r) = s[r - p + 1]
         /\ Len(s) > 0 => p < Size /\ At(p) = s[1]
<1>1. Size \in Nat /\ Len(s) \in Nat /\ p + Len(s) <= Size
  BY LenProperties DEF Part, Size, StandsIn
<1>2. ASSUME NEW r \in p .. p + Len(s) - 1
      PROVE  r < Size /\ At(r) = s[r - p + 1]
  <2>1. r < Size /\ r - p + 1 \in 1 .. Len(s) /\ p + (r - p + 1) = r + 1
    BY <1>1
  <2> QED BY <2>1 DEF StandsIn, At
<1>3. ASSUME Len(s) > 0
      PROVE  p < Size /\ At(p) = s[1]
  <2>1. p \in p .. p + Len(s) - 1 /\ p - p + 1 = 1
    BY <1>1, <1>3
  <2> QED BY <1>2, <2>1
<1> QED BY <1>1, <1>2, <1>3

\* Where the mark of a line's end stands, a line ends.
LEMMA MarkStands ==
  ASSUME data \in Part, NEW p \in Nat, StandsIn(data, CrLf, p)
  PROVE  Size \in Nat /\ p + 2 <= Size /\ LineEnd(p)
<1>1. CrLf \in Part /\ Len(CrLf) = 2 /\ CrLf[1] = "CR" /\ CrLf[2] = "LF"
  BY MarksAre
<1>2. /\ Size \in Nat /\ p + 2 <= Size
      /\ \A r \in p .. p + 2 - 1 : At(r) = CrLf[r - p + 1]
  BY <1>1, CharsStand
<1>3. /\ p \in p .. p + 2 - 1 /\ p + 1 \in p .. p + 2 - 1
      /\ p - p + 1 = 1 /\ (p + 1) - p + 1 = 2
  OBVIOUS
<1> QED BY <1>1, <1>2, <1>3 DEF LineEnd

\* A search ends where the first character looked for is.
LEMMA UntilIs ==
  ASSUME data \in Part, NEW chars, NEW p \in Nat, NEW q \in Nat, p <= q, q < Size,
         At(q) \in chars, \A r \in p .. q - 1 : At(r) \notin chars
  PROVE  Until(chars, p) = q
<1> DEFINE u == Until(chars, p)
<1>1. Size \in Nat /\ p \in 0 .. Size
  BY LenProperties DEF Size, Part
<1>2. /\ u \in p .. Size /\ (u = Size \/ (u < Size /\ At(u) \in chars))
      /\ \A r \in p .. u - 1 : At(r) \notin chars
  BY <1>1, UntilStops DEF Part
<1> HIDE DEF u
<1>3. ~(u < q)
  <2> SUFFICES ASSUME u < q PROVE FALSE
    OBVIOUS
  <2>1. u \in p .. q - 1 /\ u # Size
    BY <1>1, <1>2
  <2> QED BY <2>1, <1>2
<1>4. ~(q < u)
  <2> SUFFICES ASSUME q < u PROVE FALSE
    OBVIOUS
  <2>1. q \in p .. u - 1
    BY <1>1, <1>2
  <2> QED BY <2>1, <1>2
<1>5. u = q
  BY <1>1, <1>2, <1>3, <1>4
<1> QED BY <1>5 DEF u

\* A part without the characters looked for is passed.
LEMMA ScanIs ==
  ASSUME data \in Part, NEW s \in Part, NEW p \in Nat, StandsIn(data, s, p),
         NEW chars, Without(s, chars),
         p + Len(s) < Size, At(p + Len(s)) \in chars
  PROVE  Until(chars, p) = p + Len(s)
<1>1. /\ Len(s) \in Nat /\ DOMAIN s = 1 .. Len(s)
      /\ \A r \in p .. p + Len(s) - 1 : At(r) = s[r - p + 1]
  BY CharsStand, LenProperties DEF Part
<1>2. ASSUME NEW r \in p .. p + Len(s) - 1
      PROVE  At(r) \notin chars
  <2>1. r - p + 1 \in 1 .. Len(s)
    BY <1>1
  <2> QED BY <1>1, <2>1 DEF Without
<1> QED BY <1>1, <1>2, UntilIs

\* Spaces are skipped, from the first or the second one on.
LEMMA SkipIs ==
  ASSUME data \in Part, NEW n \in Nat, NEW p \in Nat, NEW from \in Nat,
         StandsIn(data, Spaces(n), p), p <= from, from <= p + n,
         p + n < Size, At(p + n) # "SP"
  PROVE  skipWhiteSpaces(from) = p + n
<1>1. Spaces(n) \in Part /\ Len(Spaces(n)) = n /\ \A i \in 1 .. n : Spaces(n)[i] = "SP"
  BY MarksAre
<1>2. \A r \in p .. p + n - 1 : At(r) = Spaces(n)[r - p + 1]
  BY <1>1, CharsStand
<1>3. ASSUME NEW r \in from .. p + n - 1
      PROVE  At(r) \notin Chars \ {"SP"}
  <2>1. r \in p .. p + n - 1 /\ r - p + 1 \in 1 .. n
    OBVIOUS
  <2> QED BY <1>1, <1>2, <2>1
<1>4. At(p + n) \in Chars \ {"SP"}
  BY DEF At, Size, Part
<1> QED BY <1>3, <1>4, UntilIs DEF skipWhiteSpaces

\* The search for the end of a line ends at the first one.
LEMMA CrLfIs ==
  ASSUME data \in Part, NEW p \in Nat, NEW q \in Nat, p <= q, q < Size,
         LineEnd(q), \A r \in p .. q - 1 : ~LineEnd(r)
  PROVE  findCrLfToken(p) = q
<1> DEFINE S == {x \in p .. Size : x = Size \/ (At(x) = "CR" /\ At(x + 1) = "LF")}
           u == Min(S)
<1>1. Size \in Nat /\ p \in 0 .. Size
  BY LenProperties DEF Size, Part
<1>2. q \in S /\ S \in SUBSET Nat
  BY <1>1 DEF LineEnd
<1>3. u \in S /\ \A y \in S : u <= y
  <2> HIDE DEF S
  <2> QED BY <1>2, MinIsLeast
<1>4. findCrLfToken(p) = u
  BY DEF findCrLfToken
<1>5. u \in p .. Size /\ (u = Size \/ LineEnd(u)) /\ u <= q
  <2> HIDE DEF u
  <2> QED BY <1>2, <1>3 DEF LineEnd
<1> HIDE DEF u, S
<1>6. ~(u < q)
  <2> SUFFICES ASSUME u < q PROVE FALSE
    OBVIOUS
  <2>1. u \in p .. q - 1 /\ u # Size
    BY <1>1, <1>5
  <2> QED BY <2>1, <1>5
<1> QED BY <1>1, <1>4, <1>5, <1>6

\* Two characters that end a line are the mark.
LEMMA PairIs ==
  ASSUME NEW x \in Part, Len(x) = 2, x[1] = "CR", x[2] = "LF"
  PROVE  x = CrLf
<1>1. CrLf \in Part /\ Len(CrLf) = 2 /\ CrLf[1] = "CR" /\ CrLf[2] = "LF"
  BY MarksAre
<1> DEFINE c == CrLf
<1> HIDE DEF c
<1>2. c \in Part /\ Len(c) = Len(x)
  BY <1>1 DEF c
<1>3. \A i \in 1 .. Len(x) : x[i] = c[i]
  BY <1>1 DEF c
<1>4. x = c
  BY <1>2, <1>3, SeqEqual DEF Part
<1> QED BY <1>4 DEF c

LEMMA PairInside ==
  ASSUME NEW s \in Part, NEW i \in 1 .. Len(s) - 1, s[i] = "CR", s[i + 1] = "LF"
  PROVE  SubSeq(s, i, i + 1) = CrLf
<1>1. Len(s) \in Nat
  BY LenProperties DEF Part
<1>2. i \in Int /\ i + 1 \in Int /\ i <= i + 1 /\ (i + 1) - i + 1 = 2
      /\ i + 1 - 1 = i /\ i + 2 - 1 = i + 1 /\ i \in 1 .. Len(s) /\ i + 1 \in 1 .. Len(s)
  BY <1>1
<1>3. PICK x : x = SubSeq(s, i, i + 1)
  OBVIOUS
<1>4. s \in Seq(Chars) /\ \A j \in i .. i + 1 : j \in 1 .. Len(s)
  BY <1>1 DEF Part
<1>5. \A j \in i .. i + 1 : s[j] \in Chars
  BY <1>4, ElementOfSeq
<1>6. /\ x \in Part /\ Len(x) = 2
      /\ \A j \in 1 .. 2 : x[j] = s[i + j - 1]
  BY <1>2, <1>3, <1>4, <1>5, SubSeqProperties DEF Part
<1>7. x[1] = "CR" /\ x[2] = "LF"
  <2>1. 1 \in 1 .. 2 /\ 2 \in 1 .. 2
    OBVIOUS
  <2>2. x[1] = s[i + 1 - 1] /\ x[2] = s[i + 2 - 1]
    BY ONLY <1>6, <2>1
  <2> QED BY <2>2, <1>2
<1> QED BY <1>3, <1>6, <1>7, PairIs

\* What the parser finds in the first line of a request.
LEMMA LineIs ==
  ASSUME NEW m \in Requests, NEW at, data \in Part, LineLaid(m, data)
  PROVE  /\ data # <<>> /\ data[1] = "A"
         /\ Len(m.method) \in Nat /\ Len(m.method) < Size
         /\ findToken(0) = Len(m.method)
         /\ skipWhiteSpaces(Len(m.method) + 1) = UriAt(m)
         /\ UriAt(m) \in Nat /\ UriAt(m) + Len(m.uri) < Size
         /\ findToken(UriAt(m)) = UriAt(m) + Len(m.uri)
         /\ skipWhiteSpaces((UriAt(m) + Len(m.uri)) + 1) = VersionAt(m)
         /\ VersionAt(m) \in Nat /\ VersionAt(m) + Len(m.version) < Size
         /\ findCrLfToken(VersionAt(m)) = VersionAt(m) + Len(m.version)
         /\ Len(m.version) \in Nat /\ Len(m.version) >= VersionLength
         /\ FieldsAt(m) = (VersionAt(m) + Len(m.version)) + 2
<1> DEFINE lm == Len(m.method)
           lu == Len(m.uri)
           lv == Len(m.version)
           n == m.spaces
<1>1. /\ m.method \in Part /\ m.uri \in Part /\ m.version \in Part
      /\ n \in Nat /\ n > 0
      /\ Spaces(n) \in Part /\ Len(Spaces(n)) = n
      /\ \A i \in 1 .. n : Spaces(n)[i] = "SP"
      /\ CrLf \in Part /\ Len(CrLf) = 2 /\ CrLf[1] = "CR" /\ CrLf[2] = "LF"
  <2>1. m.method \in Part /\ m.uri \in Part /\ m.version \in Part /\ n \in Nat /\ n > 0
    BY PartsOf
  <2> QED BY <2>1, MarksAre
<1>2. lm \in Nat /\ lu \in Nat /\ lv \in Nat
  BY <1>1, LenProperties DEF Part
<1>3. /\ m.method # <<>> /\ m.method[1] = "A" /\ Without(m.method, {"SP"})
      /\ m.uri # <<>> /\ Without(m.uri, {"SP"})
      /\ m.version # <<>> /\ m.version[1] # "SP"
      /\ \A i \in 1 .. lv - 1 : SubSeq(m.version, i, i + 1) # CrLf
      /\ lv >= VersionLength
  BY ParserAssumption DEF WellFormed
<1>4. lm > 0 /\ lu > 0 /\ lv > 0
  BY <1>1, <1>2, <1>3 DEF Part
<1> DEFINE ua == UriAt(m)
           va == VersionAt(m)
<1>5. ua = lm + n /\ va = ua + lu + n /\ ua \in Nat /\ va \in Nat
      /\ FieldsAt(m) = (va + lv) + 2
  BY <1>1, <1>2 DEF UriAt, VersionAt, FieldsAt
<1>6. /\ StandsIn(data, m.method, 0) /\ StandsIn(data, Spaces(n), lm)
      /\ StandsIn(data, m.uri, ua) /\ StandsIn(data, Spaces(n), ua + lu)
      /\ StandsIn(data, m.version, va) /\ StandsIn(data, CrLf, va + lv)
  BY DEF LineLaid
<1> HIDE DEF lm, lu, lv, n, ua, va
<1>7. /\ Size \in Nat /\ (va + lv) + 2 <= Size
      /\ At(va + lv) = "CR" /\ At((va + lv) + 1) = "LF"
  <2>1. va + lv \in Nat
    BY <1>2, <1>5
  <2> QED BY <2>1, <1>6, MarkStands DEF LineEnd
<1>8. At(0) = "A" /\ data # <<>> /\ data[1] = "A"
  <2>1. 0 < Size /\ At(0) = m.method[1]
    BY <1>1, <1>4, <1>6, CharsStand DEF lm
  <2>2. data[0 + 1] = "A" /\ Len(data) > 0
    BY <2>1, <1>3 DEF At, Size
  <2> QED BY <2>1, <2>2, <1>3
<1>9. lm < Size /\ At(lm) = "SP"
  BY <1>1, <1>2, <1>6, CharsStand
<1>10. ua < Size /\ At(ua) = m.uri[1]
  BY <1>1, <1>4, <1>5, <1>6, CharsStand DEF lu
<1>11. m.uri[1] # "SP"
  BY <1>1, <1>3, <1>4 DEF Without, Part, lu
<1>12. ua + lu < Size /\ At(ua + lu) = "SP"
  <2>1. ua + lu \in Nat
    BY <1>2, <1>5
  <2> QED BY <2>1, <1>1, <1>6, CharsStand
<1>13. va < Size /\ At(va) # "SP"
  <2>1. va < Size /\ At(va) = m.version[1]
    BY <1>1, <1>4, <1>5, <1>6, CharsStand DEF lv
  <2> QED BY <2>1, <1>3
<1>14. findToken(0) = lm
  <2>1. 0 + Len(m.method) = lm
    BY <1>2 DEF lm
  <2> QED BY <1>1, <1>3, <1>6, <1>9, <2>1, ScanIs DEF findToken
<1>15. skipWhiteSpaces(lm + 1) = ua
  <2>1. lm + 1 \in Nat /\ lm <= lm + 1 /\ lm + 1 <= lm + n /\ lm + n = ua
    BY ONLY <1>1, <1>2, <1>5
  <2> QED BY <1>1, <1>2, <1>6, <1>10, <1>11, <2>1, SkipIs
<1>16. findToken(ua) = ua + lu
  BY <1>1, <1>3, <1>5, <1>6, <1>12, ScanIs DEF findToken, lu
<1>17. skipWhiteSpaces((ua + lu) + 1) = va
  <2>1. /\ ua + lu \in Nat /\ (ua + lu) + 1 \in Nat /\ ua + lu <= (ua + lu) + 1
        /\ (ua + lu) + 1 <= (ua + lu) + n /\ (ua + lu) + n = va
    BY ONLY <1>1, <1>2, <1>5
  <2> QED BY <1>1, <1>6, <1>13, <2>1, SkipIs
<1>18. findCrLfToken(va) = va + lv
  <2>1. \A r \in va .. va + lv - 1 : r < Size /\ At(r) = m.version[r - va + 1]
    BY <1>1, <1>5, <1>6, CharsStand DEF lv
  <2>2. \A r \in va .. va + lv - 1 : ~LineEnd(r)
    <3> SUFFICES ASSUME NEW r \in va .. va + lv - 1, LineEnd(r)
                 PROVE  FALSE
      OBVIOUS
    <3>1. At(r) = "CR" /\ At(r + 1) = "LF"
      BY DEF LineEnd
    <3>2. CASE r + 1 \in va .. va + lv - 1
      <4> DEFINE i == r - va + 1
      <4>1. i \in 1 .. lv - 1 /\ (r + 1) - va + 1 = i + 1
        BY <1>2, <1>5, <3>2
      <4>2. m.version[i] = "CR" /\ m.version[i + 1] = "LF"
        BY <2>1, <3>1, <3>2, <4>1
      <4> HIDE DEF i
      <4>3. SubSeq(m.version, i, i + 1) = CrLf
        <5>1. m.version \in Part /\ i \in 1 .. Len(m.version) - 1
          BY <4>1, <1>1 DEF lv
        <5> QED BY <4>2, <5>1, PairInside
      <4> QED BY <4>1, <4>3, <1>3
    <3>3. CASE r + 1 \notin va .. va + lv - 1
      <4>1. r + 1 = va + lv
        BY <1>2, <1>5, <3>3
      <4> QED BY <4>1, <3>1, <1>7
    <3> QED BY <3>2, <3>3
  <2>3. va + lv \in Nat /\ va <= va + lv /\ va + lv < Size
    BY <1>2, <1>5, <1>7
  <2>4. LineEnd(va + lv)
    BY <1>7 DEF LineEnd
  <2>5. \A r \in va .. (va + lv) - 1 : ~LineEnd(r)
    <3>1. va + (lv - 1) = (va + lv) - 1
      BY <1>2, <1>5
    <3> QED BY <2>2, <3>1
  <2> QED BY <1>5, <2>3, <2>4, <2>5, CrLfIs
<1>19. va + lv < Size
  BY <1>2, <1>5, <1>7
<1> QED
  BY <1>2, <1>3, <1>5, <1>8, <1>9, <1>12, <1>14, <1>15, <1>16, <1>17, <1>18, <1>19
     DEF lm, lu, lv, ua, va

\* A field of that key and value stands in the input, from p to e.
FieldStands(key, val, n, p, k, v, e) ==
  /\ key \in Part /\ val \in Part /\ {n, p, k, v, e} \subseteq Nat
  /\ k = p + Len(key) /\ v = k + 1 + n /\ e = v + Len(val)
  /\ StandsIn(data, key, p) /\ StandsIn(data, <<":">>, k)
  /\ StandsIn(data, Spaces(n), k + 1) /\ StandsIn(data, val, v)
  /\ StandsIn(data, CrLf, e)
  /\ key # <<>> /\ Without(key, {":", "CR"})
  /\ val # <<>> /\ val[1] # "SP" /\ Without(val, {"CR"})

\* What the parser finds in a field that stands in the input.
LEMMA FieldFound ==
  ASSUME data \in Part, NEW key, NEW val, NEW n, NEW p, NEW k, NEW v, NEW e,
         FieldStands(key, val, n, p, k, v, e)
  PROVE  /\ p < k /\ k < Size /\ v < e /\ e < Size /\ v > k
         /\ findFieldKey(p) = k
         /\ skipWhiteSpaces(k + 1) = v
         /\ findFieldValue(v) = e
         /\ LineEnd(e)
<1> SUFFICES
    ASSUME key \in Part, val \in Part,
           n \in Nat, p \in Nat, k \in Nat, v \in Nat, e \in Nat,
           k = p + Len(key), v = k + 1 + n, e = v + Len(val),
           StandsIn(data, key, p), StandsIn(data, <<":">>, k),
           StandsIn(data, Spaces(n), k + 1), StandsIn(data, val, v),
           StandsIn(data, CrLf, e),
           key # <<>>, Without(key, {":", "CR"}),
           val # <<>>, val[1] # "SP", Without(val, {"CR"})
    PROVE  /\ p < k /\ k < Size /\ v < e /\ e < Size /\ v > k
           /\ findFieldKey(p) = k
           /\ skipWhiteSpaces(k + 1) = v
           /\ findFieldValue(v) = e
           /\ LineEnd(e)
  BY DEF FieldStands
<1>1. /\ Len(key) \in Nat /\ Len(key) > 0 /\ Len(val) \in Nat /\ Len(val) > 0
  BY DEF Part
<1>2. /\ <<":">> \in Part /\ Len(<<":">>) = 1 /\ <<":">>[1] = ":"
  BY MarksAre
<1>3. k < Size /\ At(k) = ":"
  <2>1. PICK c : c = <<":">>
    OBVIOUS
  <2>2. c \in Part /\ StandsIn(data, c, k) /\ Len(c) > 0 /\ c[1] = ":"
    BY <1>2, <2>1
  <2> QED BY <2>2, CharsStand
<1>4. v < Size /\ At(v) = val[1]
  BY <1>1, CharsStand
<1>5. e < Size /\ LineEnd(e)
  <2>1. Size \in Nat /\ e + 2 <= Size /\ LineEnd(e)
    BY MarkStands
  <2> QED BY <2>1
<1>6. findFieldKey(p) = k
  <2>1. Without(key, {":"})
    BY DEF Without
  <2> QED BY <1>3, <2>1, ScanIs DEF findFieldKey
<1>7. skipWhiteSpaces(k + 1) = v
  <2>1. k + 1 \in Nat /\ (k + 1) + n = v /\ k + 1 <= (k + 1) + n /\ k + 1 <= k + 1
    OBVIOUS
  <2> QED BY <1>4, <2>1, SkipIs
<1>8. findFieldValue(v) = e
  <2>1. At(e) = "CR"
    BY <1>5 DEF LineEnd
  <2> QED BY <1>5, <2>1, ScanIs DEF findFieldValue
<1> QED BY <1>1, <1>3, <1>5, <1>6, <1>7, <1>8

\* The i-th field's key is between p and k, its value between v and e.
Bounds(m, at, i, p, k, v, e) ==
  /\ p = at[i] /\ k = p + Len(m.fields[i][1])
  /\ v = p + ToValue(m, i) /\ e = v + Len(m.fields[i][2])

\* What the parser finds in the i-th field of a request.
LEMMA FieldIs ==
  ASSUME NEW m \in Requests, NEW at, data \in Part, LaidOut(m, data, at),
         NEW i \in 1 .. Len(m.fields), NEW p, NEW k, NEW v, NEW e,
         Bounds(m, at, i, p, k, v, e)
  PROVE  /\ p \in Nat /\ k \in Nat /\ v \in Nat /\ e \in Nat /\ Size \in Nat
         /\ p < k /\ k < Size /\ v < e /\ e < Size /\ k < v
         /\ findFieldKey(p) = k
         /\ skipWhiteSpaces(k + 1) = v
         /\ findFieldValue(v) = e
         /\ checkAndSkipCrLf(e).found = IF i < Len(m.fields) THEN "line" ELSE "end"
         /\ at[i + 1] = e + 2
<1> DEFINE key == m.fields[i][1]
           val == m.fields[i][2]
           n == m.spaces - 1
           f == Len(m.fields)
<1>0. data \in Part
  OBVIOUS
<1>1. /\ key \in Part /\ val \in Part /\ n \in Nat /\ m.spaces = n + 1
      /\ Len(key) \in Nat /\ Len(val) \in Nat /\ f \in Nat
  <2>1. key \in Part /\ val \in Part /\ m.spaces \in Nat /\ m.spaces > 0 /\ f \in Nat
    BY PartsOf
  <2>2. Len(key) \in Nat /\ Len(val) \in Nat
    BY ONLY <2>1, LenProperties DEF Part
  <2> HIDE DEF key, val, f
  <2>3. n \in Nat /\ m.spaces = n + 1
    BY ONLY <2>1
  <2> QED BY <2>1, <2>2, <2>3
<1>2. \A j \in 1 .. f : /\ m.fields[j][1] # <<>> /\ Without(m.fields[j][1], {":", "CR"})
                        /\ m.fields[j][2] # <<>> /\ m.fields[j][2][1] # "SP"
                        /\ Without(m.fields[j][2], {"CR"})
  <2>1. WellFormed(m) /\ m.fields \in Seq(Part \X Part)
    BY ParserAssumption, PartsOf
  <2>2. DOMAIN m.fields = 1 .. f
    BY <2>1
  <2> QED BY <2>1, <2>2 DEF WellFormed
<1>3. p \in Nat /\ at[i + 1] = p + ToNext(m, i) /\ FieldLaid(m, data, i, p)
  <2>1. i \in 1 .. f + 1
    BY <1>1
  <2> QED BY <2>1 DEF LaidOut, Bounds
<1>4. ToValue(m, i) = Len(key) + (n + 1) /\ ToNext(m, i) = ToValue(m, i) + Len(val) + 2
  BY <1>1 DEF ToValue, ToNext
<1>5. /\ StandsIn(data, key, p) /\ StandsIn(data, <<":">>, k)
      /\ StandsIn(data, Spaces(n), k + 1) /\ StandsIn(data, val, v)
      /\ StandsIn(data, CrLf, e)
  BY <1>3 DEF FieldLaid, Bounds
<1>6. key # <<>> /\ Without(key, {":", "CR"}) /\ val # <<>> /\ val[1] # "SP"
      /\ Without(val, {"CR"})
  BY <1>2
<1>7. i \in 1 .. f /\ k = p + Len(key) /\ v = p + ToValue(m, i) /\ e = v + Len(val)
  BY DEF Bounds
<1> HIDE DEF key, val, n, f
<1>8. /\ k \in Nat /\ v = k + 1 + n /\ v \in Nat /\ e \in Nat
      /\ at[i + 1] = e + 2
  BY ONLY <1>1, <1>3, <1>4, <1>7
<1>9. /\ p < k /\ k < Size /\ v < e /\ e < Size /\ v > k
      /\ findFieldKey(p) = k /\ skipWhiteSpaces(k + 1) = v /\ findFieldValue(v) = e
      /\ LineEnd(e)
  <2>1. FieldStands(key, val, n, p, k, v, e)
    BY ONLY <1>1, <1>3, <1>5, <1>6, <1>7, <1>8 DEF FieldStands
  <2> QED BY ONLY <1>0, <2>1, FieldFound
<1>10. Size \in Nat
  BY DEF Size, Part
<1>11. checkAndSkipCrLf(e).found = IF i < f THEN "line" ELSE "end"
  <2>1. CASE i < f
    <3>1. i + 1 \in 1 .. f /\ i + 1 \in 1 .. f + 1
      BY <1>1, <1>7, <2>1
    <3>2. PICK s : s = m.fields[i + 1][1]
      OBVIOUS
    <3>3. s \in Part /\ s # <<>> /\ Without(s, {":", "CR"})
      BY <3>1, <3>2, <1>2, PartsOf DEF f
    <3>4. StandsIn(data, s, e + 2)
      BY <3>1, <3>2, <1>8 DEF LaidOut, FieldLaid, f
    <3>5. Len(s) > 0 /\ s[1] # "CR"
      BY <3>3 DEF Without, Part
    <3>6. At(e + 2) # "CR"
      BY <1>8, <3>3, <3>4, <3>5, CharsStand
    <3>7. At(e) = "CR" /\ At(e + 1) = "LF"
      BY <1>9 DEF LineEnd
    <3> QED BY <2>1, <3>6, <3>7 DEF checkAndSkipCrLf
  <2>2. CASE ~(i < f)
    <3>1. i = f
      BY <1>1, <1>7, <2>2
    <3>2. StandsIn(data, CrLf, e + 2)
      BY <3>1, <1>8 DEF LaidOut, f
    <3>3. PICK z \in Nat : z = e + 2
      BY <1>8
    <3>4. z + 2 <= Size /\ LineEnd(z)
      BY <3>2, <3>3, MarkStands
    <3>5. z + 1 = e + 3 /\ Size - e >= 4
      BY ONLY <1>8, <1>10, <3>3, <3>4
    <3>6. At(e + 2) = "CR" /\ At(e + 3) = "LF"
      BY <3>3, <3>4, <3>5 DEF LineEnd
    <3>7. At(e) = "CR" /\ At(e + 1) = "LF"
      BY <1>9 DEF LineEnd
    <3> QED BY <2>2, <3>5, <3>6, <3>7 DEF checkAndSkipCrLf
  <2> QED BY <2>1, <2>2
<1> QED BY <1>3, <1>8, <1>9, <1>10, <1>11 DEF f

-----------------------------------------------------------------------------
(* The inductive invariant                                                 *)

\* At every stage, what was read so far is the beginning of a request.
ReadSoFar ==
  /\ stage \in {"idle", "method", "uri", "version"} => items = <<>>
  /\ stage = "idle" => {method, uri, version, ref} = {Empty}
  /\ stage = "method" => pos = 0 /\ Size > 0 /\ At(0) = "A"
  /\ stage \in {"uri", "version"} => method.offset = 0
  /\ stage = "uri" => FollowedBy(method, "SP", pos) /\ At(pos) # "SP"
  /\ stage = "version" => Separated(method, "SP", uri) /\ FollowedBy(uri, "SP", pos)
  /\ stage = "fields" =>
       /\ RequestLine
       /\ ref.offset <= pos
       /\ ref.length <= OffsetRange => Fields(pos)

IInv == TypeOK /\ ReadsInBounds /\ furthest \in Nat /\ ReadSoFar /\ AcceptedIsRequest

\* Every input consists of characters.
LEMMA InputsTyped == Inputs \subseteq Seq(Chars)
  <1>1. \A m \in Requests : Text(m) \in Seq(Chars)
    BY TextLaid DEF Part
  <1>2. \A s \in Sent : s[2] \in Seq(Chars)
    BY <1>1 DEF Sent
  <1> QED
    BY <1>2, ParserAssumption DEF Inputs

LEMMA InitInv == Init => IInv
  BY ParserAssumption
  DEF Init, IInv, TypeOK, Size, Slices, Slice, Empty, ReadsInBounds, ReadSoFar,
      AcceptedIsRequest, Accepted

LEMMA ParseRequestInv == IInv /\ ParseRequest => IInv'
  <1> SUFFICES ASSUME IInv, ParseRequest PROVE IInv'
    OBVIOUS
  <1>1. PICK input \in Inputs :
          /\ data' = input
          /\ \/ input = <<>> /\ Return("Succeed")
             \/ input # <<>> /\ input[1] = "A" /\ Continue("method")
             \/ input # <<>> /\ input[1] # "A" /\ Return("InvalidHttpMethod")
    BY DEF ParseRequest
  <1>2. data' \in Seq(Chars) /\ Size' \in Nat /\ pos' = 0 /\ furthest' = 0
    BY <1>1, InputsTyped DEF Size, ParseRequest
  <1>3. /\ stage = "idle" /\ items' = <<>>
        /\ method' = Empty /\ uri' = Empty /\ version' = Empty /\ ref' = Empty
    BY DEF ParseRequest, IInv, ReadSoFar
  <1>4. stage' \in {"method", "done"} /\ ec' \in {ec, "Succeed", "InvalidHttpMethod"}
    BY <1>1 DEF Return, Continue
  <1>5. TypeOK'
    BY <1>2, <1>3, <1>4, ParserAssumption DEF TypeOK, IInv, Slices, Empty, Slice
  <1>6. ReadSoFar'
    <2>1. stage' = "method" => Size' > 0 /\ At(0)' = "A"
      BY <1>1, <1>2 DEF Size, At, Return
    <2> QED
      BY <1>2, <1>3, <1>4, <2>1 DEF ReadSoFar, Empty, Slice
  <1>7. AcceptedIsRequest'
    BY <1>1 DEF AcceptedIsRequest, Accepted, Return, Continue
  <1> QED
    BY <1>2, <1>5, <1>6, <1>7 DEF IInv, ReadsInBounds

LEMMA ParseMethodInv == IInv /\ ParseMethod => IInv'
  <1> SUFFICES ASSUME IInv, ParseMethod PROVE IInv'
    OBVIOUS
  <1> DEFINE q == findToken(pos)
             v == skipWhiteSpaces(q + 1)
  <1>1. /\ data \in Seq(Chars) /\ Size \in Nat /\ pos \in 0 .. Size
        /\ pos = 0 /\ At(pos) # "SP" /\ items = <<>>
        /\ furthest \in 0 .. Size
    BY DEF IInv, TypeOK, ReadSoFar, ParseMethod, ReadsInBounds, Size
  <1>2. data' = data /\ UNCHANGED <<uri, version, ref, items>>
    BY DEF ParseMethod, ReadTo
  <1>3. CASE q = Size /\ ReadTo(q, q) /\ Return("InvalidHttpMethod") /\ UNCHANGED method
    <2>1. TypeOK' /\ ReadsInBounds' /\ furthest' \in Nat
      BY <1>1, <1>2, <1>3
      DEF IInv, TypeOK, ReadTo, Return, Later, ReadsInBounds, Size, Slices
    <2>2. ReadSoFar' /\ AcceptedIsRequest'
      BY <1>3 DEF Return, ReadSoFar, AcceptedIsRequest, Accepted
    <2> QED BY <2>1, <2>2 DEF IInv
  <1>4. CASE /\ q < Size
             /\ method' = Slice(pos, q)
             /\ ReadTo(v, v)
             /\ Continue("uri")
    <2>1. /\ v \in q + 1 .. Size /\ q \in pos .. Size /\ At(v) # "SP"
          /\ Slice(pos, q) \in Slices /\ FollowedBy(Slice(pos, q), "SP", v)
      BY <1>1, <1>4, TokenEnds
    <2>2. TypeOK' /\ ReadsInBounds' /\ furthest' \in Nat
      BY <1>1, <1>2, <1>4, <2>1
      DEF IInv, TypeOK, ReadTo, Continue, Later, ReadsInBounds, Size, Slices
    <2>3. /\ stage' = "uri" /\ items' = <<>> /\ method'.offset = 0
          /\ pos' = v /\ At(pos)' # "SP" /\ FollowedBy(method, "SP", pos)'
      BY <1>1, <1>2, <1>4, <2>1
      DEF Continue, ReadTo, Slice, FollowedBy, At, Size, EndOf
    <2>4. ReadSoFar' /\ AcceptedIsRequest'
      BY <2>3 DEF ReadSoFar, AcceptedIsRequest, Accepted
    <2> QED BY <2>2, <2>4 DEF IInv
  <1> QED
    BY <1>3, <1>4 DEF ParseMethod

LEMMA ParseURIInv == IInv /\ ParseURI => IInv'
  <1> SUFFICES ASSUME IInv, ParseURI PROVE IInv'
    OBVIOUS
  <1> DEFINE q == findToken(pos)
             v == skipWhiteSpaces(q + 1)
  <1>1. /\ data \in Seq(Chars) /\ Size \in Nat /\ pos \in 0 .. Size
        /\ At(pos) # "SP" /\ items = <<>> /\ method.offset = 0
        /\ FollowedBy(method, "SP", pos)
        /\ furthest \in 0 .. Size
    BY DEF IInv, TypeOK, ReadSoFar, ParseURI, ReadsInBounds, Size
  <1>2. data' = data /\ UNCHANGED <<method, version, ref, items>>
    BY DEF ParseURI, ReadTo
  <1>3. CASE q = Size /\ ReadTo(q, q) /\ Return("HttpParserError") /\ UNCHANGED uri
    <2>1. TypeOK' /\ ReadsInBounds' /\ furthest' \in Nat
      BY <1>1, <1>2, <1>3
      DEF IInv, TypeOK, ReadTo, Return, Later, ReadsInBounds, Size, Slices
    <2>2. ReadSoFar' /\ AcceptedIsRequest'
      BY <1>3 DEF Return, ReadSoFar, AcceptedIsRequest, Accepted
    <2> QED BY <2>1, <2>2 DEF IInv
  <1>4. CASE /\ q < Size
             /\ uri' = Slice(pos, q)
             /\ ReadTo(v, v)
             /\ Continue("version")
    <2>1. /\ v \in q + 1 .. Size /\ q \in pos .. Size
          /\ Slice(pos, q) \in Slices /\ FollowedBy(Slice(pos, q), "SP", v)
      BY <1>1, <1>4, TokenEnds
    <2>2. TypeOK' /\ ReadsInBounds' /\ furthest' \in Nat
      <3> HIDE DEF q, v
      <3> QED BY <1>1, <1>2, <1>4, <2>1
          DEF IInv, TypeOK, ReadTo, Continue, Later, ReadsInBounds, Size, Slices
    <2>3. /\ stage' = "version" /\ items' = <<>> /\ method'.offset = 0
          /\ pos' = v /\ uri'.offset = pos /\ uri'.length > 0
      BY <1>1, <1>2, <1>4, <2>1 DEF Continue, ReadTo, Slice, FollowedBy
    <2>4. FollowedBy(method, "SP", uri.offset)' /\ FollowedBy(uri, "SP", pos)'
      BY <1>1, <1>2, <1>4, <2>1, <2>3 DEF FollowedBy, At, Size, EndOf
    <2>5. ReadSoFar' /\ AcceptedIsRequest'
      BY <2>3, <2>4 DEF ReadSoFar, AcceptedIsRequest, Accepted, Separated
    <2> QED BY <2>2, <2>5 DEF IInv
  <1> QED
    BY <1>3, <1>4 DEF ParseURI

LEMMA ParseVersionInv == IInv /\ ParseVersion => IInv'
  <1> SUFFICES ASSUME IInv, ParseVersion PROVE IInv'
    OBVIOUS
  <1> DEFINE q == findCrLfToken(pos)
  <1>1. /\ data \in Seq(Chars) /\ Size \in Nat /\ pos \in 0 .. Size
        /\ items = <<>> /\ method.offset = 0
        /\ Separated(method, "SP", uri) /\ FollowedBy(uri, "SP", pos)
        /\ furthest \in 0 .. Size
    BY DEF IInv, TypeOK, ReadSoFar, ParseVersion, ReadsInBounds, Size
  <1>2. data' = data /\ UNCHANGED <<method, uri, items>>
    BY DEF ParseVersion, ReadTo
  <1>3. q \in pos .. Size /\ (q = Size \/ (q + 1 < Size /\ LineEnd(q)))
    BY <1>1, CrLfStops
  <1>4. CASE /\ \/ q = Size /\ ReadTo(q, q)
                \/ q < Size /\ ReadTo(q, q + 1)
             /\ Return("HttpParserError") /\ UNCHANGED <<version, ref>>
    <2>1. TypeOK' /\ ReadsInBounds' /\ furthest' \in Nat
      BY <1>1, <1>2, <1>3, <1>4
      DEF IInv, TypeOK, ReadTo, Return, Later, ReadsInBounds, Size, Slices
    <2>2. ReadSoFar' /\ AcceptedIsRequest'
      BY <1>4 DEF Return, ReadSoFar, AcceptedIsRequest, Accepted
    <2> QED BY <2>1, <2>2 DEF IInv
  <1>5. CASE /\ q < Size /\ q - pos >= VersionLength
             /\ version' = Slice(pos, q)
             /\ ref' = Slice(q + 2, Size)
             /\ ReadTo(q + 2, q + 2)
             /\ Continue("fields")
    <2>1. q + 2 \in 0 .. Size /\ LineEnd(q) /\ q > pos
      BY <1>1, <1>3, <1>5, ParserAssumption
    <2>2. Slice(pos, q) \in Slices /\ Slice(q + 2, Size) \in Slices
      BY <1>1, <1>3, <2>1 DEF Slice, Slices
    <2>3. TypeOK' /\ ReadsInBounds' /\ furthest' \in Nat
      BY <1>1, <1>2, <1>5, <2>1, <2>2
      DEF IInv, TypeOK, ReadTo, Continue, Later, ReadsInBounds, Size, Slices
    <2>4. /\ stage' = "fields" /\ items' = <<>> /\ pos' = q + 2
          /\ EndOf(version)' = q /\ version'.offset = pos /\ version'.length > 0
          /\ ref'.offset = q + 2
      <3>1. version' = [offset |-> pos, length |-> q - pos] /\ ref'.offset = q + 2
        BY <1>5 DEF Slice
      <3>2. EndOf(version)' = q /\ version'.offset = pos /\ version'.length > 0
        BY <1>1, <1>3, <2>1, <3>1 DEF EndOf
      <3> QED BY <1>1, <1>2, <1>5, <3>1, <3>2 DEF Continue, ReadTo
    <2>5. Separated(method, "SP", uri)' /\ Separated(uri, "SP", version)'
      BY <1>1, <1>2, <1>5, <2>1, <2>4 DEF Separated, FollowedBy, At, Size, EndOf
    <2>6. RequestLine'
      BY <1>1, <1>2, <1>5, <2>1, <2>4, <2>5 DEF RequestLine, LineEnd, At, Size, Slice
    <2>7. Fields(pos)'
      BY <2>4 DEF Fields
    <2>8. ReadSoFar' /\ AcceptedIsRequest'
      BY <1>1, <2>1, <2>4, <2>6, <2>7 DEF ReadSoFar, AcceptedIsRequest, Accepted
    <2> QED BY <2>3, <2>8 DEF IInv
  <1> QED
    BY <1>4, <1>5 DEF ParseVersion

\* Storing a field that lies between p and the line end at e, which is where
\* the next line begins two characters on.
LEMMA FieldAppended ==
  ASSUME IInv, stage = "fields", ref.length <= OffsetRange,
         NEW k \in pos .. Size, NEW v \in k + 1 .. Size, NEW e \in v .. Size,
         k > pos, e > v, e < Size,
         FollowedBy(Slice(pos, k), ":", v),
         \A r \in pos .. k - 1 : At(r) # ":",
         LineEnd(e),
         data' = data, ref' = ref,
         items' = Append(items, [key |-> Entry(Slice(pos, k)),
                                 value |-> Entry(Slice(v, e))])
  PROVE  Fields(e + 2)'
  <1> DEFINE new == [key |-> Entry(Slice(pos, k)), value |-> Entry(Slice(v, e))]
  <1>1. /\ data \in Seq(Chars) /\ Size \in Nat /\ pos \in 0 .. Size
        /\ ref \in Slices /\ ref.offset \in Nat /\ ref.offset <= pos
        /\ ref.length \in Nat /\ ref.offset + ref.length = Size
        /\ OffsetRange \in Nat
        /\ Fields(pos)
    <2>1. RequestLine /\ ref.offset <= pos /\ Fields(pos) /\ pos \in 0 .. Size
          /\ ref \in Slices /\ data \in Seq(Chars)
      BY DEF IInv, TypeOK, ReadSoFar
    <2>2. Size \in Nat /\ ref.offset \in Nat /\ ref.length \in Nat
      BY <2>1 DEF Size, Slices
    <2>3. ref.length = Size - ref.offset
      BY <2>1 DEF RequestLine, Slice
    <2> QED BY <2>1, <2>2, <2>3, ParserAssumption
  <1>2. /\ Referred(Entry(Slice(pos, k))) = Slice(pos, k)
        /\ Referred(Entry(Slice(v, e))) = Slice(v, e)
    <2>1. k < ref.offset + OffsetRange /\ e < ref.offset + OffsetRange
      BY <1>1
    <2>2. pos \in 0 .. Size /\ v \in 0 .. Size /\ ref.offset <= v
      BY <1>1
    <2> QED BY <1>1, <2>1, <2>2, EntryRefers
  <1>3. PICK n \in Nat : /\ n = Len(items) /\ DOMAIN items = 1 .. n
                         /\ items \in Seq([key : Slices, value : Slices])
    BY DEF IInv, TypeOK
  <1>4. /\ DOMAIN items' = 1 .. n + 1 /\ Len(items') = n + 1 /\ items' # <<>>
        /\ items'[n + 1] = new
        /\ \A i \in 1 .. n : items'[i] = items[i]
    BY <1>3
  <1>5. /\ Key(n + 1)' = Slice(pos, k) /\ Value(n + 1)' = Slice(v, e)
        /\ \A i \in 1 .. n : Key(i)' = Key(i) /\ Value(i)' = Value(i)
    <2>1. Key(n + 1)' = Slice(pos, k) /\ Value(n + 1)' = Slice(v, e)
      BY <1>2, <1>4 DEF Key, Value, Referred
    <2>2. ASSUME NEW i \in 1 .. n PROVE Key(i)' = Key(i) /\ Value(i)' = Value(i)
      BY <1>4 DEF Key, Value, Referred
    <2> QED BY <2>1, <2>2
  <1>6. EndOf(Slice(v, e)) = e /\ EndOf(Slice(pos, k)) = k /\ Slice(v, e).length > 0
    BY <1>1 DEF EndOf, Slice
  <1>7. pos = IF n = 0 THEN ref.offset ELSE EndOf(Value(n)) + 2
    BY <1>1, <1>3 DEF Fields
  <1>8. (e + 2 = IF items = <<>> THEN ref.offset ELSE EndOf(Value(Len(items))) + 2)'
    BY <1>4, <1>5, <1>6 DEF EndOf
  <1>11. \A i \in 1 .. n : EndOf(Value(i))' = EndOf(Value(i)) /\ EndOf(Key(i))' = EndOf(Key(i))
    BY <1>5 DEF EndOf
  <1>12. \A r : At(r)' = At(r)
    BY DEF At, Size
  <1>9. ASSUME NEW i \in 1 .. n
        PROVE  /\ Key(i)'.offset = IF i = 1 THEN ref'.offset ELSE EndOf(Value(i - 1))' + 2
               /\ Separated(Key(i), ":", Value(i))'
               /\ \A r \in Key(i)'.offset .. EndOf(Key(i))' - 1 : At(r)' # ":"
               /\ LineEnd(EndOf(Value(i)))'
    <2>1. /\ Key(i).offset = IF i = 1 THEN ref.offset ELSE EndOf(Value(i - 1)) + 2
          /\ Separated(Key(i), ":", Value(i))
          /\ \A r \in Key(i).offset .. EndOf(Key(i)) - 1 : At(r) # ":"
          /\ LineEnd(EndOf(Value(i)))
      BY <1>1, <1>3 DEF Fields
    <2>2. i # 1 => i - 1 \in 1 .. n
      OBVIOUS
    <2>3. Key(i)'.offset = IF i = 1 THEN ref'.offset ELSE EndOf(Value(i - 1))' + 2
      BY <1>5, <1>11, <2>1, <2>2
    <2>4. Separated(Key(i), ":", Value(i))'
      BY <1>5, <1>11, <1>12, <2>1 DEF Separated, FollowedBy
    <2>5. \A r \in Key(i)'.offset .. EndOf(Key(i))' - 1 : At(r)' # ":"
      BY <1>5, <1>11, <1>12, <2>1
    <2>6. LineEnd(EndOf(Value(i)))'
      BY <1>11, <1>12, <2>1 DEF LineEnd
    <2> QED BY <2>3, <2>4, <2>5, <2>6
  <1>10. /\ Key(n + 1)'.offset = IF n + 1 = 1 THEN ref'.offset ELSE EndOf(Value(n))' + 2
         /\ Separated(Key(n + 1), ":", Value(n + 1))'
         /\ \A r \in Key(n + 1)'.offset .. EndOf(Key(n + 1))' - 1 : At(r)' # ":"
         /\ LineEnd(EndOf(Value(n + 1)))'
    <2>1. /\ Key(n + 1)'.offset = pos /\ EndOf(Key(n + 1))' = k
          /\ Value(n + 1)'.offset = v /\ EndOf(Value(n + 1))' = e
      BY <1>5, <1>6 DEF EndOf, Slice
    <2>2. Key(n + 1)'.offset = IF n + 1 = 1 THEN ref'.offset ELSE EndOf(Value(n))' + 2
      BY <1>7, <1>11, <2>1
    <2>3. Separated(Key(n + 1), ":", Value(n + 1))'
      BY <1>5, <1>6, <1>12, <2>1 DEF Separated, FollowedBy
    <2>4. \A r \in Key(n + 1)'.offset .. EndOf(Key(n + 1))' - 1 : At(r)' # ":"
      BY <1>12, <2>1
    <2>5. LineEnd(EndOf(Value(n + 1)))'
      BY <1>12, <2>1 DEF LineEnd
    <2> QED BY <2>2, <2>3, <2>4, <2>5
  <1> QED
    BY <1>3, <1>4, <1>8, <1>9, <1>10 DEF Fields

\* A field is stored, whatever is found behind it.
LEMMA FieldStored ==
  ASSUME IInv, stage = "fields",
         NEW k \in pos .. Size, NEW v \in k + 1 .. Size, NEW e \in v .. Size,
         k > pos, e > v, e < Size,
         At(k) = ":", \A r \in pos .. k - 1 : At(r) # ":",
         \A r \in k + 1 .. v - 1 : At(r) = "SP",
         Len(items) < InitCapacity,
         items' = Append(items, [key |-> Entry(Slice(pos, k)),
                                 value |-> Entry(Slice(v, e))]),
         data' = data, UNCHANGED <<method, uri, version, ref>>,
         NEW last \in e .. Size, NEW found,
         found = "line" => e + 2 <= Size /\ LineEnd(e),
         found = "end" => e + 4 <= Size /\ LineEnd(e) /\ LineEnd(e + 2),
         \/ found = "line" /\ ReadTo(e + 2, last) /\ Continue("fields")
         \/ found = "end" /\ ReadTo(e + 4, last) /\ Return("Succeed")
         \/ found = "neither" /\ ReadTo(e, last) /\ Return("HttpParserError")
  PROVE  IInv'
  <1>1. /\ data \in Seq(Chars) /\ Size \in Nat /\ pos \in 0 .. Size
        /\ RequestLine /\ ref.offset \in Nat /\ ref.offset <= pos
        /\ ref \in Slices /\ furthest \in 0 .. Size
    BY DEF IInv, TypeOK, ReadSoFar, ReadsInBounds, Size, Slices
  <1>2. Size' = Size /\ Slices' = Slices /\ \A r : At(r)' = At(r)
    BY DEF Size, Slices, At
  <1>3. RequestLine'
    BY <1>1, <1>2
    DEF RequestLine, Separated, FollowedBy, LineEnd, EndOf, Slice
  <1>4. e \in 0 .. Size /\ v \in 0 .. Size /\ ref.offset <= v
    BY <1>1
  <1>5. Entry(Slice(pos, k)) \in Slices /\ Entry(Slice(v, e)) \in Slices
    BY <1>1, <1>4, EntryRefers
  <1>6. items' \in Seq([key : Slices, value : Slices]) /\ Len(items') <= InitCapacity
        /\ items' # <<>>
    BY <1>5, ParserAssumption DEF IInv, TypeOK
  <1>7. pos' \in 0 .. Size /\ furthest' \in 0 .. Size
    <2>1. pos' \in {e, e + 2, e + 4} /\ pos' <= Size
      BY <1>1, <1>4 DEF ReadTo
    <2>2. furthest' = Later(furthest, last) /\ last \in 0 .. Size
      BY <1>1, <1>4 DEF ReadTo
    <2> QED BY <1>1, <1>4, <2>1, <2>2 DEF Later
  <1>8. TypeOK'
    BY <1>2, <1>6, <1>7 DEF IInv, TypeOK, Return, Continue
  <1>9. ReadsInBounds' /\ furthest' \in Nat
    BY <1>1, <1>2, <1>7 DEF ReadsInBounds
  <1>10. FollowedBy(Slice(pos, k), ":", v)
    <2>1. Slice(pos, k).length > 0 /\ EndOf(Slice(pos, k)) = k
      BY <1>1 DEF Slice, EndOf
    <2> QED BY <1>1, <2>1 DEF FollowedBy
  <1>11. LineEnd(e) /\ ref.length <= OffsetRange => Fields(e + 2)'
    BY <1>10, FieldAppended
  <1>12. CASE found = "line" /\ ReadTo(e + 2, last) /\ Continue("fields")
    <2>1. pos' = e + 2 /\ stage' = "fields" /\ LineEnd(e)
      BY <1>12 DEF ReadTo, Continue
    <2>2. ref.length <= OffsetRange => Fields(pos)'
      BY <1>11, <2>1 DEF Fields
    <2>3. ref'.offset <= pos'
      BY <1>1, <1>4, <2>1
    <2>4. ReadSoFar' /\ AcceptedIsRequest'
      BY <1>3, <2>1, <2>2, <2>3 DEF ReadSoFar, AcceptedIsRequest, Accepted
    <2> QED BY <1>8, <1>9, <2>4 DEF IInv
  <1>13. CASE found = "end" /\ ReadTo(e + 4, last) /\ Return("Succeed")
    <2>1. pos' = e + 4 /\ stage' = "done" /\ LineEnd(e) /\ LineEnd(e + 2)
      BY <1>13 DEF ReadTo, Return
    <2>2. pos' - 2 = e + 2
      BY <1>1, <1>4, <2>1
    <2>3. ref.length <= OffsetRange => Fields(pos - 2)'
      BY <1>11, <2>1, <2>2 DEF Fields
    <2>4. LineEnd(pos - 2)'
      BY <1>2, <2>1, <2>2 DEF LineEnd
    <2>5. ReadSoFar' /\ AcceptedIsRequest'
      BY <1>3, <1>6, <2>1, <2>3, <2>4 DEF ReadSoFar, AcceptedIsRequest, Accepted
    <2> QED BY <1>8, <1>9, <2>5 DEF IInv
  <1>14. CASE found = "neither" /\ ReadTo(e, last) /\ Return("HttpParserError")
    <2>1. ReadSoFar' /\ AcceptedIsRequest'
      BY <1>14 DEF Return, ReadSoFar, AcceptedIsRequest, Accepted
    <2> QED BY <1>8, <1>9, <2>1 DEF IInv
  <1> QED
    BY <1>12, <1>13, <1>14

LEMMA ParseHeaderFieldInv == IInv /\ ParseHeaderField => IInv'
  <1> SUFFICES ASSUME IInv, ParseHeaderField PROVE IInv'
    OBVIOUS
  <1> DEFINE k == findFieldKey(pos)
             v == skipWhiteSpaces(k + 1)
             e == findFieldValue(v)
             next == checkAndSkipCrLf(e)
  <1>1. /\ data \in Seq(Chars) /\ Size \in Nat /\ pos \in 0 .. Size
        /\ RequestLine /\ ref.offset \in Nat /\ ref.offset <= pos
        /\ ref.length <= OffsetRange => Fields(pos)
        /\ ref \in Slices
        /\ furthest \in 0 .. Size /\ stage = "fields"
    BY DEF IInv, TypeOK, ReadSoFar, ParseHeaderField, ReadsInBounds, Size, Slices
  <1>2. data' = data /\ UNCHANGED <<method, uri, version, ref>>
    BY DEF ParseHeaderField, ReadTo
  <1>4. k \in pos .. Size /\ (k = Size \/ At(k) = ":") /\ \A r \in pos .. k - 1 : At(r) # ":"
    BY <1>1, UntilStops DEF findFieldKey
  <1>5. CASE /\ k = Size \/ k = pos
             /\ ReadTo(k, k) /\ Return("HttpParserError")
             /\ UNCHANGED items
    <2>1. TypeOK' /\ ReadsInBounds' /\ furthest' \in Nat
      BY <1>1, <1>2, <1>4, <1>5
      DEF IInv, TypeOK, ReadTo, Return, Later, ReadsInBounds, Size, Slices
    <2>2. ReadSoFar' /\ AcceptedIsRequest'
      BY <1>5 DEF Return, ReadSoFar, AcceptedIsRequest, Accepted
    <2> QED BY <2>1, <2>2 DEF IInv
  <1>6. ASSUME k < Size, k > pos
        PROVE  /\ v \in k + 1 .. Size /\ e \in v .. Size
               /\ \A r \in k + 1 .. v - 1 : At(r) = "SP"
               /\ e = Size \/ At(e) = "CR"
    <2>1. k + 1 \in 0 .. Size
      BY <1>1, <1>4, <1>6
    <2>2. v \in k + 1 .. Size /\ \A r \in k + 1 .. v - 1 : At(r) = "SP"
      BY <1>1, <2>1, SkipStops
    <2>3. v \in 0 .. Size
      BY <1>1, <1>4, <2>2
    <2>4. e \in v .. Size /\ (e = Size \/ At(e) = "CR")
      BY <1>1, <2>3, UntilStops DEF findFieldValue
    <2> QED BY <2>2, <2>4
  <1>7. CASE /\ k < Size /\ k > pos
             /\ e = Size \/ e = v
             /\ ReadTo(e, e) /\ Return("HttpParserError")
             /\ UNCHANGED items
    <2>1. v \in k + 1 .. Size /\ e \in v .. Size
      BY <1>6, <1>7
    <2>2. TypeOK' /\ ReadsInBounds' /\ furthest' \in Nat
      BY <1>1, <1>2, <1>4, <1>7, <2>1
      DEF IInv, TypeOK, ReadTo, Return, Later, ReadsInBounds, Size, Slices
    <2>3. ReadSoFar' /\ AcceptedIsRequest'
      BY <1>7 DEF Return, ReadSoFar, AcceptedIsRequest, Accepted
    <2> QED BY <2>2, <2>3 DEF IInv
  <1>8. CASE /\ k < Size /\ k > pos /\ e < Size /\ e > v
             /\ Len(items) >= InitCapacity
             /\ ReadTo(e, e)
             /\ Continue("overrun") /\ UNCHANGED items
    <2>1. v \in k + 1 .. Size /\ e \in v .. Size
      BY <1>6, <1>8
    <2>2. TypeOK' /\ ReadsInBounds' /\ furthest' \in Nat
      BY <1>1, <1>2, <1>4, <1>8, <2>1
      DEF IInv, TypeOK, ReadTo, Continue, Later, ReadsInBounds, Size, Slices
    <2>3. ReadSoFar' /\ AcceptedIsRequest'
      BY <1>8 DEF Continue, ReadSoFar, AcceptedIsRequest, Accepted
    <2> QED BY <2>2, <2>3 DEF IInv
  <1>9. CASE /\ k < Size /\ k > pos /\ e < Size /\ e > v
             /\ Len(items) < InitCapacity
             /\ items' = Append(items, [key |-> Entry(Slice(pos, k)),
                                        value |-> Entry(Slice(v, e))])
             /\ \/ next.found = "line" /\ ReadTo(e + 2, next.last) /\ Continue("fields")
                \/ next.found = "end" /\ ReadTo(e + 4, next.last) /\ Return("Succeed")
                \/ next.found = "neither" /\ ReadTo(e, next.last) /\ Return("HttpParserError")
    <2>1. v \in k + 1 .. Size /\ e \in v .. Size /\ k \in pos .. Size /\ e \in 0 .. Size
      BY <1>1, <1>4, <1>6, <1>9
    <2>2. /\ next.last \in e .. Size
          /\ next.found = "line" => e + 2 <= Size /\ LineEnd(e)
          /\ next.found = "end" => e + 4 <= Size /\ LineEnd(e) /\ LineEnd(e + 2)
      BY <1>1, <1>9, <2>1, LookAhead
    <2>3. At(k) = ":" /\ \A r \in k + 1 .. v - 1 : At(r) = "SP"
      BY <1>4, <1>6, <1>9, <2>1
    <2>4. PICK kk, vv, ee, last, found :
            kk = k /\ vv = v /\ ee = e /\ last = next.last /\ found = next.found
      OBVIOUS
    <2>5. /\ kk \in pos .. Size /\ vv \in kk + 1 .. Size /\ ee \in vv .. Size
          /\ kk > pos /\ ee > vv /\ ee < Size /\ last \in ee .. Size
      BY <1>9, <2>1, <2>2, <2>4
    <2>6. /\ At(kk) = ":" /\ \A r \in pos .. kk - 1 : At(r) # ":"
          /\ \A r \in kk + 1 .. vv - 1 : At(r) = "SP"
      BY <1>4, <2>3, <2>4
    <2>7. /\ Len(items) < InitCapacity
          /\ items' = Append(items, [key |-> Entry(Slice(pos, kk)),
                                     value |-> Entry(Slice(vv, ee))])
          /\ \/ found = "line" /\ ReadTo(ee + 2, last) /\ Continue("fields")
             \/ found = "end" /\ ReadTo(ee + 4, last) /\ Return("Succeed")
             \/ found = "neither" /\ ReadTo(ee, last) /\ Return("HttpParserError")
      BY <1>9, <2>4
    <2>8. /\ found = "line" => ee + 2 <= Size /\ LineEnd(ee)
          /\ found = "end" => ee + 4 <= Size /\ LineEnd(ee) /\ LineEnd(ee + 2)
      BY <2>2, <2>4
    <2> HIDE DEF k, v, e, next
    <2> QED BY <1>1, <1>2, <2>5, <2>6, <2>7, <2>8, FieldStored
  <1> QED
    BY <1>1, <1>5, <1>7, <1>8, <1>9 DEF ParseHeaderField

LEMMA ResetInv == IInv /\ Reset => IInv'
  <1> SUFFICES ASSUME IInv, Reset PROVE IInv'
    OBVIOUS
  <1>1. /\ stage' = "idle" /\ ec' = "None" /\ Size' = 0
        /\ pos' = 0 /\ furthest' = 0 /\ data' = <<>> /\ items' = <<>>
        /\ method' = Empty /\ uri' = Empty /\ version' = Empty /\ ref' = Empty
    BY DEF Reset, Size
  <1>2. TypeOK'
    BY <1>1, ParserAssumption DEF IInv, TypeOK, Slices, Slice, Empty
  <1>3. ReadsInBounds' /\ furthest' \in Nat
    BY <1>1 DEF ReadsInBounds
  <1>4. ReadSoFar' /\ AcceptedIsRequest'
    BY <1>1 DEF ReadSoFar, AcceptedIsRequest, Accepted
  <1> QED BY <1>2, <1>3, <1>4 DEF IInv

LEMMA NextInv == IInv /\ [Next]_vars => IInv'
  <1> SUFFICES ASSUME IInv, [Next]_vars PROVE IInv'
    OBVIOUS
  <1>1. CASE UNCHANGED vars
    <2> USE <1>1 DEF vars, IInv
    <2>1. TypeOK' /\ ReadsInBounds' /\ furthest' \in Nat
      BY DEF TypeOK, Size, Slices, Slice, Empty, ReadsInBounds
    <2>2. ReadSoFar'
      BY DEF ReadSoFar, RequestLine, Separated, FollowedBy, LineEnd,
             Fields, Key, Value, Referred, At, EndOf, Slice, Empty, Size
    <2>3. AcceptedIsRequest'
      BY DEF AcceptedIsRequest, Accepted, RequestLine, Separated, FollowedBy, LineEnd,
             Fields, Key, Value, Referred, At, EndOf, Slice, Empty, Size
    <2> QED BY <2>1, <2>2, <2>3
  <1>2. CASE Next
    BY <1>2, ParseRequestInv, ParseMethodInv, ParseURIInv, ParseVersionInv,
       ParseHeaderFieldInv, ResetInv DEF Next
  <1> QED
    BY <1>1, <1>2

-----------------------------------------------------------------------------
(* Well-formed requests: the stages                                        *)

\* The i-th item is the i-th field of m.
FoundAt(m, at, i) ==
  LET v == at[i] + ToValue(m, i)
  IN  /\ FieldsAt(m) <= at[i]
      /\ items[i] = [key |-> Entry(Slice(at[i], at[i] + Len(m.fields[i][1]))),
                     value |-> Entry(Slice(v, v + Len(m.fields[i][2])))]

\* At every stage the parser has read as much of m, and stands where the next
\* part begins.
Reads(m, at) ==
  /\ stage \notin {"idle", "overrun"}
  /\ stage = "method" => pos = 0
  /\ stage # "method" => method = Slice(0, Len(m.method))
  /\ stage = "uri" => pos = UriAt(m)
  /\ stage \notin {"method", "uri"} => uri = Slice(UriAt(m), UriAt(m) + Len(m.uri))
  /\ stage = "version" => pos = VersionAt(m)
  /\ stage \in {"fields", "done"} =>
       /\ version = Slice(VersionAt(m), VersionAt(m) + Len(m.version))
       /\ ref = Slice(FieldsAt(m), Size)
  /\ stage = "fields" => Len(items) < Len(m.fields) /\ pos = at[Len(items) + 1]
  /\ stage = "done" => ec = "Succeed" /\ Len(items) = Len(m.fields)
  /\ \A i \in DOMAIN items : FoundAt(m, at, i)

Fits(m) == data = Text(m) /\ Len(m.fields) <= InitCapacity

UnderstoodSoFar ==
  \A m \in Requests : Fits(m) => \E at : LaidOut(m, data, at) /\ Reads(m, at)

\* A request is not empty and begins with an upper-case letter.
LEMMA TextBegins ==
  ASSUME NEW m \in Requests
  PROVE  Text(m) # <<>> /\ Text(m)[1] = "A"
<1>1. PICK t : t = Text(m)
  OBVIOUS
<1>2. t \in Part /\ \E at : LaidOut(m, t, at)
  BY <1>1, TextLaid
<1>3. StandsIn(t, m.method, 0)
  BY <1>2 DEF LaidOut, LineLaid
<1>4. m.method \in Part /\ m.method # <<>> /\ m.method[1] = "A"
  BY PartsOf, ParserAssumption DEF WellFormed
<1>5. Len(m.method) \in Nat /\ Len(m.method) > 0
  BY <1>4 DEF Part
<1>6. t[0 + 1] = "A" /\ Len(t) > 0
  BY <1>2, <1>3, <1>4, <1>5 DEF StandsIn, Part
<1> QED BY <1>1, <1>2, <1>6 DEF Part

LEMMA InitUnderstood == Init => UnderstoodSoFar
<1> SUFFICES ASSUME Init, NEW m \in Requests, Fits(m) PROVE FALSE
  BY DEF UnderstoodSoFar
<1> QED BY TextBegins DEF Init, Fits

LEMMA ResetUnderstood == Reset => UnderstoodSoFar'
<1> SUFFICES ASSUME Reset, NEW m \in Requests, Fits(m)' PROVE FALSE
  BY DEF UnderstoodSoFar
<1> QED BY TextBegins DEF Reset, Fits

LEMMA ParseRequestUnderstood == IInv /\ ParseRequest => UnderstoodSoFar'
<1> SUFFICES ASSUME IInv, ParseRequest, NEW m \in Requests, Fits(m)'
             PROVE  (\E at : LaidOut(m, data, at) /\ Reads(m, at))'
  BY DEF UnderstoodSoFar
<1>1. data' = Text(m) /\ data' # <<>> /\ data'[1] = "A"
  BY TextBegins DEF Fits
<1>2. stage' = "method" /\ pos' = 0
  BY <1>1 DEF ParseRequest, Continue
<1>3. items' = <<>>
  BY DEF ParseRequest, IInv, ReadSoFar
<1>4. PICK at : LaidOut(m, data', at)
  BY <1>1, TextLaid
<1>5. Reads(m, at)'
  BY <1>2, <1>3 DEF Reads
<1> QED BY <1>4, <1>5

LEMMA ParseMethodReads ==
  ASSUME IInv, NEW m \in Requests, NEW at, LaidOut(m, data, at), Reads(m, at),
         ParseMethod
  PROVE  data' = data /\ Reads(m, at)'
<1>1. data \in Part /\ LineLaid(m, data) /\ items = <<>> /\ pos = 0 /\ stage = "method"
  BY DEF IInv, TypeOK, ReadSoFar, LaidOut, ParseMethod, Part
<1>2. /\ Size \in Nat /\ Len(m.method) \in Nat /\ Len(m.method) < Size
      /\ findToken(0) = Len(m.method)
      /\ skipWhiteSpaces(Len(m.method) + 1) = UriAt(m)
  BY <1>1, LineIs DEF Size, Part
<1>3. /\ data' = data /\ method' = Slice(0, Len(m.method)) /\ pos' = UriAt(m)
      /\ stage' = "uri" /\ items' = <<>>
  BY <1>1, <1>2 DEF ParseMethod, ReadTo, Continue
<1> QED BY <1>3 DEF Reads

LEMMA ParseURIReads ==
  ASSUME IInv, NEW m \in Requests, NEW at, LaidOut(m, data, at), Reads(m, at),
         ParseURI
  PROVE  data' = data /\ Reads(m, at)'
<1>1. /\ data \in Part /\ LineLaid(m, data) /\ items = <<>> /\ pos = UriAt(m)
      /\ stage = "uri" /\ method = Slice(0, Len(m.method))
  BY DEF IInv, TypeOK, ReadSoFar, LaidOut, ParseURI, Part, Reads
<1>2. PICK u : u = UriAt(m) + Len(m.uri)
  OBVIOUS
<1>3. /\ u < Size /\ u # Size /\ findToken(UriAt(m)) = u
      /\ skipWhiteSpaces(u + 1) = VersionAt(m)
  <2>1. UriAt(m) \in Nat /\ Len(m.uri) \in Nat /\ Size \in Nat
    BY <1>1, LineIs, PartsOf DEF Size, Part
  <2> QED BY <1>1, <1>2, <2>1, LineIs
<1>4. /\ data' = data /\ method' = method /\ uri' = Slice(UriAt(m), u)
      /\ pos' = VersionAt(m) /\ stage' = "version" /\ items' = <<>>
  BY <1>1, <1>3 DEF ParseURI, ReadTo, Continue
<1> QED BY <1>1, <1>2, <1>4 DEF Reads

LEMMA ParseVersionReads ==
  ASSUME IInv, NEW m \in Requests, NEW at, LaidOut(m, data, at), Reads(m, at),
         ParseVersion
  PROVE  data' = data /\ Reads(m, at)'
<1>1. /\ data \in Part /\ LineLaid(m, data) /\ items = <<>> /\ pos = VersionAt(m)
      /\ stage = "version" /\ method = Slice(0, Len(m.method))
      /\ uri = Slice(UriAt(m), UriAt(m) + Len(m.uri))
      /\ at[1] = FieldsAt(m)
  BY DEF IInv, TypeOK, ReadSoFar, LaidOut, ParseVersion, Part, Reads
<1>2. PICK q : q = VersionAt(m) + Len(m.version)
  OBVIOUS
<1>3. /\ q \in Nat /\ q < Size /\ q # Size /\ findCrLfToken(pos) = q
      /\ q - pos >= VersionLength /\ ~(q - pos < VersionLength)
      /\ FieldsAt(m) = q + 2
  <2>1. VersionAt(m) \in Nat /\ Len(m.version) \in Nat /\ Size \in Nat
        /\ Len(m.version) >= VersionLength /\ VersionLength \in Nat
    BY <1>1, LineIs, ParserAssumption DEF Size, Part
  <2>2. q < Size /\ findCrLfToken(pos) = q /\ FieldsAt(m) = q + 2
    BY <1>1, <1>2, LineIs
  <2> QED BY <1>1, <1>2, <2>1, <2>2
<1>4. Len(m.fields) \in Nat /\ Len(m.fields) > 0
  BY PartsOf
<1>5. /\ data' = data /\ method' = method /\ uri' = uri
      /\ version' = Slice(VersionAt(m), q) /\ ref' = Slice(FieldsAt(m), Size)
      /\ pos' = at[1] /\ stage' = "fields" /\ items' = <<>>
  BY <1>1, <1>3 DEF ParseVersion, ReadTo, Continue
<1>6. Len(items') = 0 /\ DOMAIN items' = {} /\ Size' = Size /\ 0 + 1 = 1
  BY <1>5 DEF Size
<1> QED BY <1>1, <1>2, <1>4, <1>5, <1>6 DEF Reads

LEMMA ParseHeaderFieldReads ==
  ASSUME IInv, NEW m \in Requests, NEW at, LaidOut(m, data, at), Reads(m, at),
         Len(m.fields) <= InitCapacity,
         ParseHeaderField
  PROVE  data' = data /\ Reads(m, at)'
<1>1. /\ data \in Part /\ stage = "fields"
      /\ Len(items) < Len(m.fields) /\ pos = at[Len(items) + 1]
      /\ items \in Seq([key : Slices, value : Slices])
      /\ ref.offset <= pos /\ ref = Slice(FieldsAt(m), Size)
      /\ \A j \in DOMAIN items : FoundAt(m, at, j)
  BY DEF IInv, TypeOK, ReadSoFar, LaidOut, ParseHeaderField, Part, Reads
<1>2. Len(m.fields) \in Nat /\ Len(items) \in Nat /\ DOMAIN items = 1 .. Len(items)
      /\ InitCapacity \in Nat
  BY <1>1, PartsOf, ParserAssumption
<1>3. PICK i : i = Len(items) + 1
  OBVIOUS
<1>4. i \in 1 .. Len(m.fields) /\ Len(items) < InitCapacity /\ ~(Len(items) >= InitCapacity)
  BY <1>1, <1>2, <1>3
<1>5. PICK p, k, v, e :
        /\ p = at[i] /\ k = p + Len(m.fields[i][1]) /\ v = p + ToValue(m, i)
        /\ e = v + Len(m.fields[i][2])
        /\ Bounds(m, at, i, p, k, v, e)
  BY DEF Bounds
<1>6. /\ p \in Nat /\ k \in Nat /\ v \in Nat /\ e \in Nat /\ Size \in Nat
      /\ p < k /\ k < Size /\ v < e /\ e < Size /\ k < v
      /\ findFieldKey(p) = k
      /\ skipWhiteSpaces(k + 1) = v
      /\ findFieldValue(v) = e
      /\ checkAndSkipCrLf(e).found = IF i < Len(m.fields) THEN "line" ELSE "end"
      /\ at[i + 1] = e + 2
  <2>1. m \in Requests /\ data \in Part /\ LaidOut(m, data, at)
        /\ i \in 1 .. Len(m.fields) /\ Bounds(m, at, i, p, k, v, e)
    BY <1>1, <1>4, <1>5
  <2> QED BY ONLY <2>1, FieldIs
<1>7. p = pos /\ k # Size /\ k # pos /\ e # Size /\ e # v /\ FieldsAt(m) <= at[i]
  <2>1. p = pos /\ ref.offset = FieldsAt(m)
    BY <1>1, <1>3, <1>5 DEF Slice
  <2>2. k # Size /\ k # p /\ e # Size /\ e # v
    BY ONLY <1>6
  <2> QED BY <1>1, <1>5, <2>1, <2>2
<1>8. /\ data' = data /\ UNCHANGED <<method, uri, version, ref>>
      /\ items' = Append(items, [key |-> Entry(Slice(p, k)), value |-> Entry(Slice(v, e))])
      /\ \/ checkAndSkipCrLf(e).found = "line" /\ pos' = e + 2 /\ stage' = "fields"
         \/ checkAndSkipCrLf(e).found = "end" /\ stage' = "done" /\ ec' = "Succeed"
  <2>1. findFieldKey(pos) = k
    BY <1>6, <1>7
  <2>2. data' = data /\ UNCHANGED <<method, uri, version, ref>>
    BY DEF ParseHeaderField, ReadTo
  <2>3. /\ items' = Append(items, [key |-> Entry(Slice(pos, k)), value |-> Entry(Slice(v, e))])
        /\ \/ checkAndSkipCrLf(e).found = "line"
              /\ ReadTo(e + 2, checkAndSkipCrLf(e).last) /\ Continue("fields")
           \/ checkAndSkipCrLf(e).found = "end"
              /\ ReadTo(e + 4, checkAndSkipCrLf(e).last) /\ Return("Succeed")
           \/ checkAndSkipCrLf(e).found = "neither"
              /\ ReadTo(e, checkAndSkipCrLf(e).last) /\ Return("HttpParserError")
    BY <1>4, <1>6, <1>7, <2>1 DEF ParseHeaderField
  <2> QED BY <1>6, <1>7, <2>2, <2>3 DEF ReadTo, Continue, Return
<1>9. /\ Len(items') = i /\ DOMAIN items' = 1 .. i
      /\ items'[i] = [key |-> Entry(Slice(p, k)), value |-> Entry(Slice(v, e))]
      /\ \A j \in 1 .. i - 1 : items'[j] = items[j]
  BY <1>1, <1>2, <1>3, <1>8
<1>10. \A s : Entry(s)' = Entry(s)
  BY <1>8 DEF Entry
<1>11. ASSUME NEW j \in DOMAIN items'
       PROVE  FoundAt(m, at, j)'
  <2>1. CASE j = i
    <3>1. items'[j] = [key |-> Entry(Slice(p, k)), value |-> Entry(Slice(v, e))]
      BY <1>9, <2>1
    <3> QED BY <1>5, <1>7, <1>10, <2>1, <3>1 DEF FoundAt
  <2>2. CASE j # i
    <3>1. j \in 1 .. i - 1 /\ j \in DOMAIN items
      BY <1>2, <1>3, <1>9, <2>2
    <3>2. FoundAt(m, at, j) /\ items'[j] = items[j]
      BY <1>1, <1>9, <3>1
    <3> QED BY <1>10, <3>2 DEF FoundAt
  <2> QED BY <2>1, <2>2
<1>12. Size' = Size
  BY <1>8 DEF Size
<1>13. Reads(m, at)'
  <2>1. /\ method = Slice(0, Len(m.method))
        /\ uri = Slice(UriAt(m), UriAt(m) + Len(m.uri))
        /\ version = Slice(VersionAt(m), VersionAt(m) + Len(m.version))
    BY <1>1 DEF Reads
  <2>2. CASE i < Len(m.fields)
    <3>1. pos' = at[i + 1] /\ stage' = "fields"
      BY <1>6, <1>8, <2>2
    <3> QED BY <1>1, <1>8, <1>9, <1>11, <1>12, <2>1, <2>2, <3>1 DEF Reads
  <2>3. CASE ~(i < Len(m.fields))
    <3>1. stage' = "done" /\ ec' = "Succeed" /\ i = Len(m.fields)
      BY <1>2, <1>4, <1>6, <1>8, <2>3
    <3> QED BY <1>1, <1>8, <1>9, <1>11, <1>12, <2>1, <3>1 DEF Reads
  <2> QED BY <2>2, <2>3
<1> QED BY <1>8, <1>13

LEMMA NextUnderstood == IInv /\ UnderstoodSoFar /\ [Next]_vars => UnderstoodSoFar'
<1> SUFFICES ASSUME IInv, UnderstoodSoFar, [Next]_vars PROVE UnderstoodSoFar'
  OBVIOUS
<1>1. CASE UNCHANGED vars
  BY <1>1
  DEF vars, UnderstoodSoFar, Fits, Reads, FoundAt, Entry, Size
<1>2. CASE ParseRequest
  BY <1>2, ParseRequestUnderstood
<1>3. CASE Reset
  BY <1>3, ResetUnderstood
<1>4. CASE ParseMethod \/ ParseURI \/ ParseVersion \/ ParseHeaderField
  <2>1. data' = data
    BY <1>4 DEF ParseMethod, ParseURI, ParseVersion, ParseHeaderField, ReadTo
  <2> SUFFICES ASSUME NEW m \in Requests, Fits(m)'
               PROVE  (\E at : LaidOut(m, data, at) /\ Reads(m, at))'
    BY DEF UnderstoodSoFar
  <2>2. Fits(m)
    BY <2>1 DEF Fits
  <2>3. PICK at : LaidOut(m, data, at) /\ Reads(m, at)
    BY <2>2 DEF UnderstoodSoFar
  <2>4. Len(m.fields) <= InitCapacity
    BY <2>2 DEF Fits
  <2>5. Reads(m, at)'
    BY <1>4, <2>3, <2>4, ParseMethodReads, ParseURIReads, ParseVersionReads,
       ParseHeaderFieldReads
  <2> QED BY <2>1, <2>3, <2>5
<1> QED BY <1>1, <1>2, <1>3, <1>4 DEF Next

\* What stands in the input is the content of its slice.
LEMMA ContentIs ==
  ASSUME data \in Part, NEW s \in Part, NEW p \in Nat, StandsIn(data, s, p)
  PROVE  Content(Slice(p, p + Len(s))) = s
<1>1. Len(s) \in Nat /\ Len(data) \in Nat /\ p + Len(s) <= Len(data)
  BY LenProperties DEF Part, StandsIn
<1>2. PICK n \in Nat : n = Len(s)
  BY <1>1
<1>3. Content(Slice(p, p + n)) = SubSeq(data, p + 1, p + n)
  <2>1. p + ((p + n) - p) = p + n
    BY <1>2
  <2> QED BY <2>1 DEF Content, Slice, EndOf
<1>4. PICK x : x = SubSeq(data, p + 1, p + n)
  OBVIOUS
<1>5. \A j \in p + 1 .. p + n : data[j] \in Chars
  <2>1. \A j \in p + 1 .. p + n : j \in 1 .. Len(data)
    BY <1>1, <1>2
  <2> QED BY <2>1, ElementOfSeq DEF Part
<1>6. /\ x \in Part /\ Len(x) = n
      /\ \A j \in 1 .. n : x[j] = data[p + j]
  <2>1. p + 1 \in Int /\ p + n \in Int /\ (p + n) - (p + 1) + 1 = n
        /\ (IF p + 1 <= p + n THEN (p + n) - (p + 1) + 1 ELSE 0) = n
        /\ \A j \in 1 .. n : p + 1 + j - 1 = p + j
    BY <1>2
  <2>2. /\ x \in Seq(Chars)
        /\ Len(x) = IF p + 1 <= p + n THEN (p + n) - (p + 1) + 1 ELSE 0
        /\ \A j \in 1 .. (p + n) - (p + 1) + 1 : x[j] = data[(p + 1) + j - 1]
    BY <1>4, <1>5, <2>1, SubSeqProperties
  <2> QED BY <2>1, <2>2 DEF Part
<1>7. \A j \in 1 .. n : x[j] = s[j]
  BY <1>2, <1>6 DEF StandsIn
<1>8. x = s
  BY <1>2, <1>6, <1>7, SeqEqual DEF Part
<1> QED BY <1>2, <1>3, <1>4, <1>8

\* The item found at a field's place has the field's content.
LEMMA ItemIs ==
  ASSUME IInv, ref.length <= OffsetRange,
         NEW m \in Requests, NEW at, LaidOut(m, data, at), Reads(m, at),
         stage = "done", NEW i \in 1 .. Len(m.fields)
  PROVE  Content(Key(i)) = m.fields[i][1] /\ Content(Value(i)) = m.fields[i][2]
<1>1. /\ data \in Seq(Chars) /\ data \in Part /\ ref \in Slices /\ ref = Slice(FieldsAt(m), Size)
      /\ items \in Seq([key : Slices, value : Slices]) /\ Len(items) = Len(m.fields)
      /\ LineLaid(m, data)
  BY DEF IInv, TypeOK, Part, Reads, LaidOut
<1>2. FoundAt(m, at, i)
  <2>1. DOMAIN items = 1 .. Len(m.fields)
    BY <1>1
  <2> QED BY <2>1 DEF Reads
<1>3. PICK p, k, v, e :
        /\ p = at[i] /\ k = p + Len(m.fields[i][1]) /\ v = p + ToValue(m, i)
        /\ e = v + Len(m.fields[i][2])
        /\ Bounds(m, at, i, p, k, v, e)
  BY DEF Bounds
<1>4. /\ p \in Nat /\ k \in Nat /\ v \in Nat /\ e \in Nat /\ Size \in Nat
      /\ p < k /\ k < Size /\ v < e /\ e < Size /\ k < v
  <2>1. m \in Requests /\ data \in Part /\ LaidOut(m, data, at)
        /\ i \in 1 .. Len(m.fields) /\ Bounds(m, at, i, p, k, v, e)
    BY <1>1, <1>3
  <2> QED BY ONLY <2>1, FieldIs
<1>5. /\ FieldsAt(m) <= p
      /\ items[i] = [key |-> Entry(Slice(p, k)), value |-> Entry(Slice(v, e))]
  BY <1>2, <1>3 DEF FoundAt
<1>6. /\ ref.offset = FieldsAt(m) /\ ref.length = Size - FieldsAt(m)
      /\ ref.offset \in Nat /\ OffsetRange \in Nat
  BY <1>1, ParserAssumption DEF Slice, Slices
<1>7. Key(i) = Slice(p, k) /\ Value(i) = Slice(v, e)
  <2>1. /\ k < ref.offset + OffsetRange /\ e < ref.offset + OffsetRange
        /\ p \in 0 .. Size /\ k \in p .. Size /\ v \in 0 .. Size /\ e \in v .. Size
        /\ ref.offset <= p /\ ref.offset <= v
    BY <1>4, <1>5, <1>6
  <2>2. Referred(Entry(Slice(p, k))) = Slice(p, k)
    BY <1>1, <2>1, EntryRefers
  <2>3. Referred(Entry(Slice(v, e))) = Slice(v, e)
    BY <1>1, <2>1, EntryRefers
  <2> QED BY <1>5, <2>2, <2>3 DEF Key, Value
<1>8. m.fields[i][1] \in Part /\ m.fields[i][2] \in Part
  BY PartsOf
<1>9. StandsIn(data, m.fields[i][1], p) /\ StandsIn(data, m.fields[i][2], v)
  BY <1>3 DEF LaidOut, FieldLaid
<1>10. Content(Slice(p, k)) = m.fields[i][1]
  BY <1>1, <1>3, <1>4, <1>8, <1>9, ContentIs
<1>11. Content(Slice(v, e)) = m.fields[i][2]
  BY <1>1, <1>3, <1>4, <1>8, <1>9, ContentIs
<1> QED BY <1>7, <1>10, <1>11

LEMMA UnderstoodWhenDone == IInv /\ UnderstoodSoFar => MessageUnderstood
<1> SUFFICES ASSUME IInv, UnderstoodSoFar, stage = "done", ref.length <= OffsetRange,
                    NEW s \in Sent, data = s[2], Len(s[1].fields) <= InitCapacity
             PROVE  LET m == s[1] IN
                    /\ ec = "Succeed"
                    /\ Content(method) = m.method
                    /\ Content(uri) = m.uri
                    /\ Content(version) = m.version
                    /\ m.fields = [i \in DOMAIN items |-> <<Content(Key(i)), Content(Value(i))>>]
  BY DEF MessageUnderstood
<1>1. PICK m \in Requests : s = <<m, Text(m)>>
  BY DEF Sent
<1>2. s[1] = m /\ data = Text(m) /\ Fits(m)
  BY <1>1 DEF Fits
<1>3. PICK at : LaidOut(m, data, at) /\ Reads(m, at)
  BY <1>2 DEF UnderstoodSoFar
<1>4. /\ data \in Part /\ LineLaid(m, data)
      /\ items \in Seq([key : Slices, value : Slices])
  BY <1>3 DEF IInv, TypeOK, Part, LaidOut
<1>5. /\ ec = "Succeed" /\ method = Slice(0, Len(m.method))
      /\ uri = Slice(UriAt(m), UriAt(m) + Len(m.uri))
      /\ version = Slice(VersionAt(m), VersionAt(m) + Len(m.version))
      /\ Len(items) = Len(m.fields)
  BY <1>3 DEF Reads
<1>6. /\ m.method \in Part /\ m.uri \in Part /\ m.version \in Part
      /\ m.fields \in Seq(Part \X Part) /\ UriAt(m) \in Nat /\ VersionAt(m) \in Nat
      /\ Len(m.method) \in Nat
  BY <1>4, PartsOf, LineIs
<1>7. StandsIn(data, m.method, 0) /\ StandsIn(data, m.uri, UriAt(m))
      /\ StandsIn(data, m.version, VersionAt(m))
  BY <1>4 DEF LineLaid
<1>8. Content(method) = m.method
  <2>1. 0 + Len(m.method) = Len(m.method)
    BY <1>6
  <2> QED BY <1>4, <1>5, <1>6, <1>7, <2>1, ContentIs
<1>9. Content(uri) = m.uri /\ Content(version) = m.version
  BY <1>4, <1>5, <1>6, <1>7, ContentIs
<1>10. m.fields = [i \in DOMAIN items |-> <<Content(Key(i)), Content(Value(i))>>]
  <2>1. DOMAIN items = 1 .. Len(m.fields) /\ DOMAIN m.fields = 1 .. Len(m.fields)
    BY <1>4, <1>5, <1>6
  <2>2. ASSUME NEW i \in 1 .. Len(m.fields)
        PROVE  m.fields[i] = <<Content(Key(i)), Content(Value(i))>>
    <3>1. m.fields[i] \in Part \X Part
      BY <1>6
    <3>2. \A x \in Part \X Part : x = <<x[1], x[2]>>
      OBVIOUS
    <3>3. Content(Key(i)) = m.fields[i][1] /\ Content(Value(i)) = m.fields[i][2]
      BY <1>3, ItemIs
    <3> QED BY <3>1, <3>2, <3>3
  <2>3. m.fields = [i \in DOMAIN m.fields |-> m.fields[i]]
    BY <1>6
  <2> QED BY <2>1, <2>2, <2>3
<1> QED BY <1>2, <1>5, <1>8, <1>9, <1>10

-----------------------------------------------------------------------------
(* Theorems                                                                *)

\* At every stage the parser has read the beginning of a request, and its
\* slices are the parts of it.
THEOREM ReadSoFarAlways == Spec => []IInv
  <1>1. Init => IInv
    BY InitInv
  <1>2. IInv /\ [Next]_vars => IInv'
    BY NextInv
  <1> QED
    BY <1>1, <1>2, PTL DEF Spec

\* The state of the parser is well typed; in particular the cursor never
\* leaves the input and the array of items is never overfull.
THEOREM ParserTypeOK == Spec => []TypeOK
  <1>1. IInv => TypeOK
    BY DEF IInv
  <1> QED
    BY <1>1, ReadSoFarAlways, PTL

\* No stage reads beyond the character behind the input.
THEOREM ReadsAlwaysInBounds == Spec => []ReadsInBounds
  <1>1. IInv => ReadsInBounds
    BY DEF IInv
  <1> QED
    BY <1>1, ReadSoFarAlways, PTL

\* Stream, slices and reads stay in the input, whatever the input.
THEOREM AlwaysInInput == Spec => []StaysInInput
  <1>1. IInv => StaysInInput
    BY DEF IInv, StaysInInput
  <1> QED
    BY <1>1, ReadSoFarAlways, PTL

\* Whatever input is accepted has the form of a request.
THEOREM OnlyRequestsAccepted == Spec => []AcceptedIsRequest
  <1>1. IInv => AcceptedIsRequest
    BY DEF IInv
  <1> QED
    BY <1>1, ReadSoFarAlways, PTL

\* Whatever well-formed request is sent, what is returned for it is the
\* request: each part and every field, in order and nothing more.
THEOREM RequestsAlwaysUnderstood == Spec => []MessageUnderstood
<1>1. Init => UnderstoodSoFar
  BY InitUnderstood
<1>2. IInv /\ UnderstoodSoFar /\ [Next]_vars => UnderstoodSoFar'
  BY NextUnderstood
<1>3. IInv /\ UnderstoodSoFar => MessageUnderstood
  BY UnderstoodWhenDone
<1> QED BY <1>1, <1>2, <1>3, ReadSoFarAlways, PTL DEF Spec

-----------------------------------------------------------------------------
(* The strings that a request is returned as, and every other one: how     *)
(* Strings compares and hashes them.                                       *)

CONSTANTS Pieces, Lengths
S == INSTANCE Strings

\* A string: bytes around its characters too, and none at a null pointer.
Stringy(s) ==
  /\ s.length \in Nat
  /\ \A i \in Int : Byte(s, i) \in 0 .. 255
  /\ s.data.at = 0 => s.length = 0

\* Both strings have the same n characters.
Alike(s, t, n) == \A i \in 0 .. n - 1 : Byte(s, i) = Byte(t, i)

\* Equal contents are equal lengths and equal characters.
LEMMA ContentAlike ==
  ASSUME NEW s, NEW t, Stringy(s), Stringy(t)
  PROVE  Characters(s) = Characters(t) <=> s.length = t.length /\ Alike(s, t, s.length)
<1> DEFINE n == s.length
           l == t.length
           f == Characters(s)
           g == Characters(t)
<1>1. n \in Nat /\ l \in Nat
  BY DEF Stringy
<1>2. /\ f = [j \in 1 .. n |-> Byte(s, 0 + j - 1)]
      /\ g = [j \in 1 .. l |-> Byte(t, 0 + j - 1)]
  BY DEF Characters, Load
<1> HIDE DEF n, l, f, g
<1>3. ASSUME f = g
      PROVE  n = l /\ Alike(s, t, n)
  <2>1. DOMAIN f = 1 .. n /\ DOMAIN g = 1 .. l
    BY <1>2
  <2>2. 1 .. n = 1 .. l
    BY <2>1, <1>3
  <2>3. n = l
    BY <1>1, <2>2
  <2>4. ASSUME NEW i \in 0 .. n - 1
        PROVE  Byte(s, i) = Byte(t, i)
    <3>1. i + 1 \in 1 .. n /\ i + 1 \in 1 .. l /\ 0 + (i + 1) - 1 = i
      BY <1>1, <2>3
    <3>2. f[i + 1] = Byte(s, i) /\ g[i + 1] = Byte(t, i)
      BY <1>2, <3>1
    <3> QED BY <1>3, <3>2
  <2> QED BY <2>3, <2>4 DEF Alike
<1>4. ASSUME n = l, Alike(s, t, n)
      PROVE  f = g
  <2>1. ASSUME NEW j \in 1 .. n
        PROVE  Byte(s, 0 + j - 1) = Byte(t, 0 + j - 1)
    <3>1. 0 + j - 1 \in 0 .. n - 1
      BY <1>1
    <3> QED BY <1>4, <3>1 DEF Alike
  <2> QED BY <1>2, <1>4, <2>1
<1> QED BY <1>3, <1>4 DEF n, l, f, g

\* What a group's comparison compares: the characters of the group.
LEMMA GroupMatched ==
  ASSUME NEW s, NEW t, NEW mode \in Modes, NEW n \in Nat, NEW i \in 0 .. n - 1,
         NEW k, k = IF mode = "SSE42" THEN 16 ELSE 8
  PROVE  Matched(mode, s, t, i, n) <=>
           \A r \in 0 .. n - 1 : r \in i .. i + k - 1 => Byte(s, r) = Byte(t, r)
<1>1. \A x, m : \A r : Byte(set_data(x.data, m), r) = Byte(x, r)
  BY DEF Byte, set_data
<1>2. CASE mode = "SSE42"
  <2> DEFINE len == IF n - i >= 16 THEN 16 ELSE n - i
  <2>1. len \in Nat /\ len <= 16 /\ len <= n - i /\ (len = 16 \/ len = n - i) /\ k = 16
    BY <1>2
  <2> HIDE DEF len
  <2>2. Matched(mode, s, t, i, n) <=>
          [j \in 1 .. len |-> Byte(s, i + j - 1)] = [j \in 1 .. len |-> Byte(t, i + j - 1)]
    BY <1>2 DEF Matched, Load, len
  <2>3. ASSUME Matched(mode, s, t, i, n),
               NEW r \in 0 .. n - 1, r \in i .. i + k - 1
        PROVE  Byte(s, r) = Byte(t, r)
    <3>1. r - i + 1 \in 1 .. len /\ i + (r - i + 1) - 1 = r
      BY <2>1, <2>3
    <3>2. PICK j \in 1 .. len : i + j - 1 = r
      BY <3>1
    <3> QED BY <2>2, <2>3, <3>2
  <2>4. ASSUME \A r \in 0 .. n - 1 : r \in i .. i + k - 1 => Byte(s, r) = Byte(t, r)
        PROVE  Matched(mode, s, t, i, n)
    <3>1. ASSUME NEW j \in 1 .. len
          PROVE  Byte(s, i + j - 1) = Byte(t, i + j - 1)
      <4>1. i + j - 1 \in 0 .. n - 1 /\ i + j - 1 \in i .. i + k - 1
        BY <2>1
      <4> QED BY <2>4, <4>1
    <3> QED BY <2>2, <3>1
  <2> QED BY <2>3, <2>4
<1>3. CASE mode # "SSE42"
  <2> DEFINE Masked(x) == [j \in 1 .. 8 |-> IF i + j <= n THEN Byte(x, i + j - 1) ELSE 0]
  <2>1. k = 8
    BY <1>3
  <2>2. Matched(mode, s, t, i, n) <=> Masked(s) = Masked(t)
    <3>1. \A x : LoadMasked(set_data(x.data, n), i, 8) = Masked(x)
      BY <1>1 DEF LoadMasked, set_data
    <3> QED BY <1>3, <3>1 DEF Matched
  <2>3. ASSUME Matched(mode, s, t, i, n),
               NEW r \in 0 .. n - 1, r \in i .. i + k - 1
        PROVE  Byte(s, r) = Byte(t, r)
    <3>1. r - i + 1 \in 1 .. 8 /\ i + (r - i + 1) - 1 = r /\ i + (r - i + 1) <= n
      BY <2>1, <2>3
    <3>2. PICK j \in 1 .. 8 : i + j - 1 = r /\ i + j <= n
      BY <3>1
    <3>3. Masked(s)[j] = Byte(s, r) /\ Masked(t)[j] = Byte(t, r)
      BY <3>2
    <3> QED BY <2>2, <2>3, <3>3
  <2>4. ASSUME \A r \in 0 .. n - 1 : r \in i .. i + k - 1 => Byte(s, r) = Byte(t, r)
        PROVE  Matched(mode, s, t, i, n)
    <3>1. ASSUME NEW j \in 1 .. 8, i + j <= n
          PROVE  Byte(s, i + j - 1) = Byte(t, i + j - 1)
      <4>1. i + j - 1 \in 0 .. n - 1 /\ i + j - 1 \in i .. i + k - 1
        BY <2>1, <3>1
      <4> QED BY <2>4, <4>1
    <3>2. Masked(s) = Masked(t)
      BY <3>1
    <3> QED BY <2>2, <3>2
  <2> QED BY <2>3, <2>4
<1> QED BY <1>2, <1>3

\* Every character is in a group, which begins at it or before.
LEMMA InAGroup ==
  ASSUME NEW k \in {8, 16}, NEW n \in Nat
  PROVE  /\ Starts(n, k) \subseteq 0 .. n - 1
         /\ \A r \in 0 .. n - 1 : \E i \in Starts(n, k) : r \in i .. i + k - 1
<1>1. Starts(n, k) = {b * k : b \in 0 .. (n - 1) \div k}
  BY DEF Starts
<1>2. CASE k = 8
  <2>1. ASSUME NEW b \in 0 .. (n - 1) \div 8 PROVE b * 8 \in 0 .. n - 1
    OBVIOUS
  <2>2. ASSUME NEW r \in 0 .. n - 1
        PROVE  r \div 8 \in 0 .. (n - 1) \div 8 /\ r \in (r \div 8) * 8 .. (r \div 8) * 8 + 8 - 1
    OBVIOUS
  <2> QED BY <1>1, <1>2, <2>1, <2>2
<1>3. CASE k = 16
  <2>1. ASSUME NEW b \in 0 .. (n - 1) \div 16 PROVE b * 16 \in 0 .. n - 1
    OBVIOUS
  <2>2. ASSUME NEW r \in 0 .. n - 1
        PROVE  r \div 16 \in 0 .. (n - 1) \div 16
               /\ r \in (r \div 16) * 16 .. (r \div 16) * 16 + 16 - 1
    OBVIOUS
  <2> QED BY <1>1, <1>3, <2>1, <2>2
<1> QED BY <1>2, <1>3

\* Comparing groups compares every character, and none behind them.
LEMMA GroupsExact ==
  ASSUME NEW s, NEW t, NEW mode \in Modes, NEW n \in Nat
  PROVE  is_equals_unsafe(mode, s, t, n) <=> Alike(s, t, n)
<1>1. PICK k \in {8, 16} : k = IF mode = "SSE42" THEN 16 ELSE 8
  OBVIOUS
<1>2. is_equals_unsafe(mode, s, t, n) <=>
        \A i \in Starts(n, k) : Matched(mode, s, t, i, n)
  BY <1>1 DEF is_equals_unsafe
<1>3. ASSUME is_equals_unsafe(mode, s, t, n), NEW r \in 0 .. n - 1
      PROVE  Byte(s, r) = Byte(t, r)
  <2>1. PICK i \in Starts(n, k) : r \in i .. i + k - 1
    BY InAGroup
  <2>2. i \in 0 .. n - 1 /\ Matched(mode, s, t, i, n)
    BY <1>2, <1>3, <2>1, InAGroup
  <2> QED BY <1>1, <2>1, <2>2, GroupMatched
<1>4. ASSUME Alike(s, t, n), NEW i \in Starts(n, k)
      PROVE  Matched(mode, s, t, i, n)
  <2>1. i \in 0 .. n - 1
    BY InAGroup
  <2> QED BY <1>1, <1>4, <2>1, GroupMatched DEF Alike
<1> QED BY <1>2, <1>3, <1>4 DEF Alike

\* Equal by groups is equal in every character.
LEMMA EqualsExact ==
  ASSUME NEW s, NEW t, Stringy(s), Stringy(t), NEW mode \in Modes,
         BothSet(s, t) \/ s.data.at = 0 \/ t.data.at = 0,
         s.length = t.length
  PROVE  is_equals_fast(mode, s, t, s.length) <=> Characters(s) = Characters(t)
<1>1. s.length \in Nat /\ t.length \in Nat
  BY DEF Stringy
<1>2. Characters(s) = Characters(t) <=> Alike(s, t, s.length)
  BY ContentAlike
<1>3. CASE BothSet(s, t)
  BY <1>1, <1>2, <1>3, GroupsExact DEF is_equals_fast
<1>4. CASE ~BothSet(s, t)
  <2>1. s.length = 0
    BY <1>4 DEF Stringy
  <2>2. Alike(s, t, s.length)
    BY <2>1 DEF Alike
  <2> QED BY <1>2, <1>4, <2>1, <2>2 DEF is_equals_fast
<1> QED BY <1>3, <1>4

\* The first character that differs, or the length of the shorter string.
FirstDifference(s, t, n, d) ==
  /\ n \in Nat /\ n <= s.length /\ n <= t.length /\ (n = s.length \/ n = t.length)
  /\ d \in 0 .. n
  /\ \A i \in 0 .. d - 1 : Byte(s, i) = Byte(t, i)
  /\ d < n => Byte(s, d) # Byte(t, d)

\* n is the shorter length.
LEMMA ShorterIs ==
  ASSUME NEW a \in Nat, NEW b \in Nat
  PROVE  LET n == Min({a, b}) IN n \in Nat /\ n <= a /\ n <= b /\ (n = a \/ n = b)
<1>1. {a, b} \in SUBSET Nat /\ {a, b} # {}
  OBVIOUS
<1> QED BY <1>1, MinIsLeast

\* difference_offset finds that place.
LEMMA DifferenceIs ==
  ASSUME NEW s, NEW t, Stringy(s), Stringy(t)
  PROVE  FirstDifference(s, t, Min({s.length, t.length}), difference_offset(s, t))
<1> DEFINE n == Min({s.length, t.length})
           T == {i \in 0 .. n - 1 : Byte(s, i) # Byte(t, i)} \union {n}
           d == Min(T)
<1>1. n \in Nat /\ n <= s.length /\ n <= t.length /\ (n = s.length \/ n = t.length)
  BY ShorterIs DEF Stringy
<1>2. difference_offset(s, t) = d
  BY DEF difference_offset
<1> HIDE DEF n
<1>3. T \in SUBSET Nat /\ T # {}
  BY <1>1
<1>4. d \in T /\ \A y \in T : d <= y
  <2> HIDE DEF T
  <2> QED BY <1>3, MinIsLeast
<1> HIDE DEF d
<1>5. d \in 0 .. n /\ (d < n => Byte(s, d) # Byte(t, d))
  BY <1>1, <1>4
<1>6. ASSUME NEW i \in 0 .. d - 1
      PROVE  Byte(s, i) = Byte(t, i)
  <2>1. i \in 0 .. n - 1 /\ ~(d <= i)
    BY <1>1, <1>5
  <2> QED BY <1>4, <2>1
<1> QED BY <1>1, <1>2, <1>5, <1>6 DEF FirstDifference, n

\* The sign of a difference is the order.
LEMMA SignsAre ==
  ASSUME NEW a \in Int, NEW b \in Int
  PROVE  /\ Sign(a, b) \in {-1, 0, 1}
         /\ Sign(b, a) = -Sign(a, b)
         /\ Sign(a, b) = 0 <=> a = b
         /\ Sign(a, b) < 0 <=> a < b
         /\ Sign(a, b) > 0 <=> a > b
BY DEF Sign

\* The comparison of two strings by groups is decided by the first character
\* that differs.
LEMMA CompareIs ==
  ASSUME NEW s, NEW t, Stringy(s), Stringy(t), BothSet(s, t), NEW n, NEW d,
         n = Min({s.length, t.length}), FirstDifference(s, t, n, d), d < n
  PROVE  compare(s, t) = Sign(Byte(s, d), Byte(t, d))
<1> DEFINE failed == {i \in Starts(n, 16) : ~Matched("SSE42", s, t, i, n)}
           T == {j \in Min(failed) .. n - 1 : Byte(s, j) # Byte(t, j)}
<1>1. n \in Nat /\ d \in 0 .. n - 1
  BY DEF FirstDifference
<1>2. compare(s, t) =
        LET at == IF failed = {} THEN ((n + 15) \div 16) * 16 ELSE Min(T)
        IN  Sign(Byte(s, at), Byte(t, at))
  BY DEF compare, compare_unsafe
<1>3. Starts(n, 16) \subseteq 0 .. n - 1
  BY <1>1, InAGroup
<1>4. PICK i \in failed : d \in i .. i + 16 - 1
  <2>1. PICK i \in Starts(n, 16) : d \in i .. i + 16 - 1
    BY <1>1, InAGroup
  <2>2. i \in 0 .. n - 1 /\ "SSE42" \in Modes
    BY <1>3, <2>1 DEF Modes
  <2>3. Byte(s, d) # Byte(t, d)
    BY <1>1 DEF FirstDifference
  <2>4. ~Matched("SSE42", s, t, i, n)
    BY <1>1, <2>1, <2>2, <2>3, GroupMatched
  <2> QED BY <2>1, <2>4
<1>5. Min(failed) \in 0 .. n - 1 /\ Min(failed) <= d
  <2>4. failed \subseteq Starts(n, 16) /\ i \in failed
    BY <1>4
  <2>1. failed \in SUBSET Nat /\ failed # {}
    <3> HIDE DEF failed
    <3> QED BY ONLY <1>1, <1>3, <2>4
  <2>2. Min(failed) \in failed /\ Min(failed) <= i
    <3> HIDE DEF failed
    <3> QED BY <1>4, <2>1, MinIsLeast
  <2>3. Min(failed) \in 0 .. n - 1 /\ i \in 0 .. n - 1
    BY <1>3, <1>4, <2>2
  <2> HIDE DEF failed
  <2> QED BY <1>1, <1>4, <2>2, <2>3
<1>6. T \in SUBSET Nat /\ d \in T /\ \A j \in T : ~(j < d)
  <2> HIDE DEF failed
  <2>1. \A j \in 0 .. d - 1 : Byte(s, j) = Byte(t, j)
    BY DEF FirstDifference
  <2>2. Byte(s, d) # Byte(t, d)
    BY <1>1 DEF FirstDifference
  <2> QED BY <1>1, <1>5, <2>1, <2>2
<1>7. Min(T) = d
  <2> HIDE DEF T
  <2>1. Min(T) \in T /\ Min(T) <= d
    BY <1>6, MinIsLeast
  <2>2. \A e \in Nat : e <= d /\ ~(e < d) => e = d
    BY <1>1
  <2> QED BY ONLY <1>6, <2>1, <2>2
<1>8. failed # {}
  BY <1>4
<1> HIDE DEF failed, T
<1> QED BY <1>2, <1>7, <1>8

\* Where two strings first differ does not depend on their order.
LEMMA Turned ==
  ASSUME NEW s, NEW t, NEW n, NEW d, FirstDifference(s, t, n, d)
  PROVE  FirstDifference(t, s, n, d)
BY DEF FirstDifference

\* The first bytes that differ decide memcmp.
LEMMA memcmpIs ==
  ASSUME NEW x, NEW y, Stringy(x), Stringy(y), NEW n \in Nat
  PROVE  /\ memcmp(x, 0, y, 0, n) \in {-1, 0, 1}
         /\ memcmp(x, 0, y, 0, n) = 0 <=> Alike(x, y, n)
         /\ memcmp(y, 0, x, 0, n) = -memcmp(x, 0, y, 0, n)
         /\ \A d \in 0 .. n - 1 :
              (Alike(x, y, d) /\ Byte(x, d) # Byte(y, d)) =>
                memcmp(x, 0, y, 0, n) = Sign(Byte(x, d), Byte(y, d))
<1> DEFINE T(a, b) == {d \in 0 .. n - 1 : Byte(a, 0 + d) # Byte(b, 0 + d)}
           r == memcmp(x, 0, y, 0, n)
           q == memcmp(y, 0, x, 0, n)
           m == Min(T(x, y))
<1>1. /\ r = IF T(x, y) = {} THEN 0 ELSE Sign(Byte(x, 0 + m), Byte(y, 0 + m))
      /\ q = IF T(x, y) = {} THEN 0 ELSE Sign(Byte(y, 0 + m), Byte(x, 0 + m))
  <2>1. T(y, x) = T(x, y)
    OBVIOUS
  <2>2. q = IF T(y, x) = {} THEN 0
            ELSE Sign(Byte(y, 0 + Min(T(y, x))), Byte(x, 0 + Min(T(y, x))))
    BY DEF memcmp
  <2>3. r = IF T(x, y) = {} THEN 0 ELSE Sign(Byte(x, 0 + m), Byte(y, 0 + m))
    BY DEF memcmp
  <2> HIDE DEF T, q, r
  <2> QED BY <2>1, <2>2, <2>3
<1>2. T(x, y) = {} <=> Alike(x, y, n)
  <2>1. \A i \in 0 .. n - 1 : 0 + i = i
    OBVIOUS
  <2> QED BY <2>1 DEF Alike
<1>3. T(x, y) # {} =>
        /\ m \in 0 .. n - 1 /\ 0 + m = m /\ Byte(x, m) # Byte(y, m)
        /\ \A j \in 0 .. n - 1 : Byte(x, j) # Byte(y, j) => m <= j
  <2> SUFFICES ASSUME T(x, y) # {}
               PROVE  /\ m \in 0 .. n - 1 /\ 0 + m = m /\ Byte(x, m) # Byte(y, m)
                      /\ \A j \in 0 .. n - 1 : Byte(x, j) # Byte(y, j) => m <= j
    OBVIOUS
  <2>1. T(x, y) \in SUBSET Nat
    OBVIOUS
  <2>2. m \in T(x, y) /\ \A j \in T(x, y) : m <= j
    <3> HIDE DEF T
    <3> QED BY <2>1, MinIsLeast
  <2> HIDE DEF m
  <2>3. m \in 0 .. n - 1 /\ 0 + m = m
    BY <2>2
  <2>4. \A j \in 0 .. n - 1 : 0 + j = j
    OBVIOUS
  <2> QED BY <2>2, <2>3, <2>4
<1>4. \A i \in 0 .. n - 1 : Byte(x, i) \in Int /\ Byte(y, i) \in Int
  BY DEF Stringy
<1> HIDE DEF T, r, q, m
<1>5. CASE T(x, y) = {}
  <2>1. r = 0 /\ q = 0 /\ Alike(x, y, n)
    BY <1>1, <1>2, <1>5
  <2> QED BY <2>1 DEF r, q, Alike
<1>6. CASE T(x, y) # {}
  <2>1. /\ m \in 0 .. n - 1 /\ Byte(x, m) \in Int /\ Byte(y, m) \in Int
        /\ Byte(x, m) # Byte(y, m) /\ ~Alike(x, y, n)
        /\ r = Sign(Byte(x, m), Byte(y, m)) /\ q = Sign(Byte(y, m), Byte(x, m))
    BY <1>1, <1>2, <1>3, <1>4, <1>6
  <2>2. r \in {-1, 0, 1} /\ r # 0 /\ q = -r
    BY <2>1, SignsAre
  <2>3. ASSUME NEW d \in 0 .. n - 1, Alike(x, y, d), Byte(x, d) # Byte(y, d)
        PROVE  d = m
    <3>1. m <= d
      BY <1>3, <1>6, <2>3
    <3>2. ~(m < d)
      BY <2>1, <2>3 DEF Alike
    <3> QED BY <2>1, <3>1, <3>2
  <2> QED BY <2>1, <2>2, <2>3 DEF r, q
<1> QED BY <1>5, <1>6

\* Alike up to a smaller length too.
LEMMA AlikeShorter ==
  ASSUME NEW s, NEW t, NEW n, NEW d, FirstDifference(s, t, n, d), NEW k \in Nat, k <= n
  PROVE  Alike(s, t, k) <=> k <= d
<1>1. n \in Nat /\ d \in 0 .. n
  BY DEF FirstDifference
<1>2. ASSUME k <= d, NEW i \in 0 .. k - 1
      PROVE  Byte(s, i) = Byte(t, i)
  <2>1. i \in 0 .. d - 1
    BY <1>1, <1>2
  <2> QED BY <2>1 DEF FirstDifference
<1>3. ASSUME Alike(s, t, k), ~(k <= d)
      PROVE  FALSE
  <2>1. d \in 0 .. k - 1 /\ d < n
    BY <1>1, <1>3
  <2> QED BY <1>3, <2>1 DEF Alike, FirstDifference
<1> QED BY <1>2, <1>3 DEF Alike

\* The order of slices: decided by the first bytes that differ, then by the
\* lengths; turned round it is the opposite; < and > agree with it.
LEMMA SlicesOrdered ==
  ASSUME NEW x, NEW y, Stringy(x), Stringy(y), NEW n, NEW d,
         n = Min({x.length, y.length}), FirstDifference(x, y, n, d)
  PROVE  /\ d < n => SliceCompare(x, y) = Sign(Byte(x, d), Byte(y, d))
         /\ SliceCompare(x, y) = 0 <=> SliceEqual(x, y)
         /\ SliceEqual(x, y) <=> Characters(x) = Characters(y)
         /\ SliceCompare(y, x) = -SliceCompare(x, y)
         /\ SliceSmaller(x, y) => SliceCompare(x, y) = -1
         /\ d < n /\ SliceBigger(x, y) => SliceCompare(x, y) = 1
         /\ starts_with(x, y) <=> d = y.length
<1> DEFINE a == x.length
           b == y.length
           r == memcmp(x, 0, y, 0, n)
           q == memcmp(y, 0, x, 0, n)
<1>1. /\ a \in Nat /\ b \in Nat /\ n \in Nat /\ n <= a /\ n <= b /\ (n = a \/ n = b)
      /\ d \in 0 .. n
  BY DEF FirstDifference, Stringy
<1>2. /\ SliceCompare(x, y) = IF r = 0 THEN Sign(a, b) ELSE r
      /\ SliceCompare(y, x) = IF q = 0 THEN Sign(b, a) ELSE q
  <2>1. {y.length, x.length} = {x.length, y.length}
    OBVIOUS
  <2> QED BY <2>1 DEF SliceCompare
<1>3. r \in {-1, 0, 1} /\ q = -r /\ (r = 0 <=> d = n)
  <2>1. Alike(x, y, n) <=> n <= d
    BY <1>1, AlikeShorter
  <2> QED BY <1>1, <2>1, memcmpIs
<1>4. d < n => /\ Byte(x, d) \in Int /\ Byte(y, d) \in Int
               /\ Alike(x, y, d) /\ Byte(x, d) # Byte(y, d)
  BY <1>1 DEF FirstDifference, Stringy, Alike
<1>5. d < n => r = Sign(Byte(x, d), Byte(y, d))
  <2> SUFFICES ASSUME d < n PROVE r = Sign(Byte(x, d), Byte(y, d))
    OBVIOUS
  <2>1. d \in 0 .. n - 1
    BY <1>1
  <2> QED BY <1>1, <1>4, <2>1, memcmpIs
<1>6. SliceEqual(x, y) <=> a = b /\ d = n
  <2>1. SliceEqual(x, y) <=> a = b /\ memcmp(x, 0, y, 0, a) = 0
    BY DEF SliceEqual
  <2>2. a = b => n = a
    BY <1>1
  <2> QED BY <1>3, <2>1, <2>2 DEF r
<1>7. Characters(x) = Characters(y) <=> a = b /\ d = n
  <2>1. Characters(x) = Characters(y) <=> a = b /\ Alike(x, y, a)
    BY ContentAlike
  <2>2. Alike(x, y, n) <=> n <= d
    BY <1>1, AlikeShorter
  <2>3. a = b => n = a
    BY <1>1
  <2> QED BY <1>1, <2>1, <2>2, <2>3
<1>8. /\ Sign(a, b) \in {-1, 0, 1} /\ Sign(b, a) = -Sign(a, b)
      /\ (Sign(a, b) = 0 <=> a = b)
  BY <1>1, SignsAre
<1>9. SliceSmaller(x, y) => r < 0
  <2>1. SliceSmaller(x, y) => a < b /\ memcmp(x, 0, y, 0, a) < 0
    BY DEF SliceSmaller
  <2>2. a < b => n = a
    BY <1>1
  <2> QED BY <2>1, <2>2 DEF r
<1>10. d < n /\ SliceBigger(x, y) => r > 0
  <2> SUFFICES ASSUME d < n, SliceBigger(x, y) PROVE r > 0
    OBVIOUS
  <2>1. memcmp(x, 0, y, 0, a) > 0
    BY DEF SliceBigger
  <2>2. d \in 0 .. a - 1
    BY <1>1
  <2>3. memcmp(x, 0, y, 0, a) = Sign(Byte(x, d), Byte(y, d))
    BY <1>1, <1>4, <2>2, memcmpIs
  <2> QED BY <1>5, <2>1, <2>3
<1>11. starts_with(x, y) <=> d = b
  <2>1. starts_with(x, y) <=> a >= b /\ memcmp(x, 0, y, 0, b) = 0
    BY DEF starts_with
  <2>2. a >= b => n = b
    BY <1>1
  <2>3. d = b => n = b
    BY <1>1
  <2> QED BY <1>1, <1>3, <2>1, <2>2, <2>3 DEF r
<1> HIDE DEF a, b, r, q
<1>12. d < n => SliceCompare(x, y) = Sign(Byte(x, d), Byte(y, d))
  BY <1>1, <1>2, <1>3, <1>5
<1>13. SliceCompare(x, y) = 0 <=> SliceEqual(x, y)
  BY <1>2, <1>3, <1>6, <1>8
<1>14. SliceCompare(y, x) = -SliceCompare(x, y)
  BY <1>2, <1>3, <1>8
<1>15. SliceSmaller(x, y) => SliceCompare(x, y) = -1
  BY <1>2, <1>3, <1>9
<1>16. d < n /\ SliceBigger(x, y) => SliceCompare(x, y) = 1
  BY <1>2, <1>3, <1>10
<1> QED BY <1>6, <1>7, <1>11, <1>12, <1>13, <1>14, <1>15, <1>16 DEF b

-----------------------------------------------------------------------------
\* The invariant: both references are strings.
BothStringy == Stringy(left) /\ Stringy(right)

\* The reference of no string.
LEMMA ResetStringy == Stringy(reset)
BY DEF Stringy, reset, set_data, Nullptr, Byte

\* A piece of memory is made a string by any length.
LEMMA PieceStringy ==
  ASSUME S!StringsAssumption, NEW m \in Pieces, NEW n \in Nat
  PROVE  Stringy(set_data(m, n))
<1> DEFINE s == set_data(m, n)
<1>1. /\ m.text \in Seq(0 .. 255) /\ Len(m.text) \in Nat
      /\ m.before \in 0 .. 255 /\ m.term \in 0 .. 255 /\ m.behind \in 0 .. 255
      /\ m.at \in Nat \ {0}
  BY DEF S!StringsAssumption
<1>2. s.data = m /\ s.length = n
  BY DEF set_data
<1>3. ASSUME NEW i \in Int
      PROVE  Byte(s, i) \in 0 .. 255
  <2>1. i >= 0 /\ i < Len(m.text) => m.text[i + 1] \in 0 .. 255
    <3>1. i >= 0 /\ i < Len(m.text) => i + 1 \in 1 .. Len(m.text)
      BY ONLY <1>1, i \in Int
    <3> QED BY ONLY <1>1, <3>1, ElementOfSeq
  <2>2. \/ Byte(s, i) \in {m.before, m.term, m.behind}
        \/ i >= 0 /\ i < Len(m.text) /\ Byte(s, i) = m.text[i + 1]
    <3>1. i >= 0 \/ i < 0
      OBVIOUS
    <3> QED BY <1>2, <3>1 DEF Byte
  <2> QED BY <1>1, <2>1, <2>2
<1> HIDE DEF s
<1>4. Stringy(s)
  BY <1>1, <1>2, <1>3 DEF Stringy
<1> QED BY <1>4 DEF s

\* A terminated piece has a length.
LEMMA strlenTyped ==
  ASSUME S!StringsAssumption, NEW m \in Pieces, Terminated(m)
  PROVE  strlen(m) \in Nat
<1> DEFINE n == Len(m.text)
           T == {i \in 0 .. n + 1 : Byte(set_data(m, 0), i) = 0}
<1>1. m.text \in Seq(0 .. 255) /\ n \in Nat /\ DOMAIN m.text = 1 .. n
  BY DEF S!StringsAssumption
<1> HIDE DEF n
<1>2. \A i \in Int : Byte(set_data(m, 0), i) =
        IF i < 0 THEN m.before ELSE IF i < n THEN m.text[i + 1]
        ELSE IF i = n THEN m.term ELSE m.behind
  BY DEF Byte, set_data, n
<1>3. (\E i \in 1 .. n : m.text[i] = 0) \/ m.term = 0 \/ m.behind = 0
  BY <1>1 DEF Terminated
<1>4. T # {}
  <2>1. CASE \E i \in 1 .. n : m.text[i] = 0
    <3>1. PICK i \in 1 .. n : m.text[i] = 0
      BY <2>1
    <3>2. i - 1 \in 0 .. n + 1 /\ i - 1 < n /\ ~(i - 1 < 0) /\ (i - 1) + 1 = i /\ i - 1 \in Int
      BY <1>1
    <3>3. i - 1 \in T
      BY <1>2, <3>1, <3>2
    <3> QED BY <3>3
  <2>2. CASE m.term = 0
    <3>1. n \in T
      BY <1>1, <1>2, <2>2
    <3> QED BY <3>1
  <2>3. CASE m.behind = 0
    <3>1. n + 1 \in T
      BY <1>1, <1>2, <2>3
    <3> QED BY <3>1
  <2> QED BY <1>3, <2>1, <2>2, <2>3
<1>5. T \in SUBSET Nat
  BY <1>1
<1>6. strlen(m) = Min(T)
  BY DEF strlen, n
<1> HIDE DEF T
<1>7. Min(T) \in T
  BY ONLY <1>4, <1>5, MinIsLeast
<1> QED BY <1>5, <1>6, <1>7

\* What the program of Strings assigns, in the terms of StringPair.
LEMMA SameAssigned ==
  /\ S!reset = reset
  /\ \A m, n : S!set_data(m, n) = set_data(m, n)
  /\ \A m : (S!Terminated(m) <=> Terminated(m)) /\ S!strlen(m) = strlen(m)
<1>1. S!reset = reset
  BY DEF S!reset, reset, S!set_data, set_data, S!Nullptr, Nullptr
<1>2. \A m, n : S!set_data(m, n) = set_data(m, n)
  BY DEF S!set_data, set_data
<1>3. \A m : S!Terminated(m) <=> Terminated(m)
  BY DEF S!Terminated, Terminated
<1>4. \A s, i : S!Byte(s, i) = Byte(s, i)
  BY DEF S!Byte, Byte
<1>5. ASSUME NEW m
      PROVE  S!strlen(m) = strlen(m)
  <2>1. \A T : S!Min(T) = Min(T)
    BY DEF S!Min, Min
  <2>2. \A i : S!Byte(S!set_data(m, 0), i) = Byte(set_data(m, 0), i)
    BY <1>2, <1>4
  <2> QED BY <2>1, <2>2 DEF S!strlen, strlen
<1> QED BY <1>1, <1>2, <1>3, <1>5

\* Both are strings at first ...
LEMMA InitStringy == S!Init => BothStringy
BY ResetStringy, SameAssigned DEF S!Init, BothStringy

\* ... and every step leaves both strings.
LEMMA NextStringy ==
  ASSUME S!StringsAssumption
  PROVE  BothStringy /\ [S!Next]_S!vars => BothStringy'
<1> SUFFICES ASSUME BothStringy, [S!Next]_S!vars PROVE BothStringy'
  OBVIOUS
<1>1. Stringy(left) /\ Stringy(right)
  BY DEF BothStringy
<1>2. \A m \in Pieces, n \in Nat : Stringy(set_data(m, n))
  BY PieceStringy
<1> SUFFICES Stringy(left') /\ Stringy(right')
  BY DEF BothStringy, Stringy
<1>3. CASE S!Assign
  <2>1. PICK m \in Pieces, n \in Lengths :
          \/ left' = set_data(m, n) /\ UNCHANGED right
          \/ right' = set_data(m, n) /\ UNCHANGED left
    BY <1>3, SameAssigned DEF S!Assign
  <2>2. n \in Nat
    BY DEF S!StringsAssumption
  <2> QED BY <1>1, <1>2, <2>1, <2>2
<1>4. CASE S!AssignCString
  <2>1. PICK m \in Pieces :
          /\ Terminated(m)
          /\ \/ left' = set_data(m, strlen(m)) /\ UNCHANGED right
             \/ right' = set_data(m, strlen(m)) /\ UNCHANGED left
    BY <1>4, SameAssigned DEF S!AssignCString
  <2>2. strlen(m) \in Nat
    BY <2>1, strlenTyped
  <2> QED BY <1>1, <1>2, <2>1, <2>2
<1>5. CASE S!Reset
  BY <1>1, <1>5, ResetStringy, SameAssigned DEF S!Reset
<1>6. CASE S!Copy \/ S!Move
  BY <1>1, <1>6, ResetStringy, SameAssigned DEF S!Copy, S!Move
<1>7. CASE UNCHANGED S!vars
  BY <1>1, <1>7 DEF S!vars
<1> QED BY <1>3, <1>4, <1>5, <1>6, <1>7 DEF S!Next

\* Two strings are compared exactly.
LEMMA StringyExact == BothStringy => EqualityIsExact
<1> SUFFICES ASSUME BothStringy, NEW mode \in Modes,
                    BothSet(left, right) \/ left.data.at = 0 \/ right.data.at = 0
             PROVE  /\ is_equals(mode, left, right) <=> SameContent
                    /\ OneLength => (RefEqual(mode, left, right) <=> SameContent)
  BY DEF EqualityIsExact
<1>1. Stringy(left) /\ Stringy(right)
  BY DEF BothStringy
<1>2. left.length = right.length =>
        (is_equals_fast(mode, left, right, left.length) <=> SameContent)
  BY <1>1, EqualsExact DEF SameContent
<1>3. SameContent => left.length = right.length
  BY <1>1, ContentAlike DEF SameContent
<1>4. is_equals(mode, left, right) <=>
        left.length = right.length /\ is_equals_fast(mode, left, right, left.length)
  BY DEF is_equals
<1> QED BY <1>2, <1>3, <1>4 DEF RefEqual, OneLength

\* Two strings are ordered soundly.
LEMMA StringyOrdered == BothStringy => OrderIsSound
<1> SUFFICES ASSUME BothStringy PROVE OrderIsSound
  OBVIOUS
<1>1. Stringy(left) /\ Stringy(right)
  BY DEF BothStringy
<1>2. PICK d, n : d = difference_offset(left, right)
                  /\ n = Min({left.length, right.length})
  OBVIOUS
<1>3. FirstDifference(left, right, n, d) /\ FirstDifference(right, left, n, d)
  BY <1>1, <1>2, DifferenceIs, Turned
<1>4. n = Min({right.length, left.length})
  <2>1. {right.length, left.length} = {left.length, right.length}
    OBVIOUS
  <2> QED BY <1>2, <2>1
<1>5. d < left.length /\ d < right.length <=> d < n
  BY <1>1, <1>3 DEF FirstDifference, Stringy
<1>6. ASSUME d < n, BothSet(left, right)
      PROVE  /\ compare(left, right) = Sign(Byte(left, d), Byte(right, d))
             /\ compare(right, left) = -compare(left, right)
  <2>1. BothSet(right, left)
    BY <1>6 DEF BothSet
  <2>2. compare(left, right) = Sign(Byte(left, d), Byte(right, d))
    BY <1>1, <1>2, <1>3, <1>6, CompareIs
  <2>3. compare(right, left) = Sign(Byte(right, d), Byte(left, d))
    BY <1>1, <1>3, <1>4, <1>6, <2>1, CompareIs
  <2>4. Byte(left, d) \in Int /\ Byte(right, d) \in Int
    <3>1. d \in Int
      BY <1>3 DEF FirstDifference
    <3>2. Byte(left, d) \in 0 .. 255 /\ Byte(right, d) \in 0 .. 255
      BY <1>1, <3>1 DEF Stringy
    <3> QED BY <3>2
  <2> QED BY <2>2, <2>3, <2>4, SignsAre
<1>7. /\ d < n => SliceCompare(left, right) = Sign(Byte(left, d), Byte(right, d))
      /\ SliceCompare(left, right) = 0 <=> SliceEqual(left, right)
      /\ SliceEqual(left, right) <=> Characters(left) = Characters(right)
      /\ SliceCompare(right, left) = -SliceCompare(left, right)
      /\ SliceSmaller(left, right) => SliceCompare(left, right) = -1
      /\ d < n /\ SliceBigger(left, right) => SliceCompare(left, right) = 1
      /\ starts_with(left, right) <=> d = right.length
  BY <1>1, <1>2, <1>3, SlicesOrdered
<1>8. ends_with(left, right) => left.length >= right.length
  BY DEF ends_with
<1> QED BY <1>2, <1>5, <1>6, <1>7, <1>8 DEF OrderIsSound, SameContent

-----------------------------------------------------------------------------
(* What a hash function sees of equal strings                              *)

\* The greatest of some positions is one of them.
LEMMA GreatestOf ==
  ASSUME NEW n \in Nat, NEW T \in SUBSET (1 .. n), T # {}
  PROVE  Max(T) \in T /\ \A y \in T : y <= Max(T)
<1> DEFINE Behind == {n - y : y \in T}
<1>1. Behind \in SUBSET Nat
  OBVIOUS
<1>2. Behind # {}
  OBVIOUS
<1>3. PICK x \in Behind : \A z \in Behind : x <= z
  <2> HIDE DEF Behind
  <2> QED BY <1>1, <1>2, LeastElement
<1>4. \E y \in T : \A z \in T : y >= z
  <2>1. PICK y \in T : x = n - y
    BY <1>3
  <2>2. \A z \in T : n - y <= n - z
    BY <1>3, <2>1
  <2> QED BY <2>2
<1> QED BY <1>4 DEF Max

\* Two strings with the same characters.
Same(s, t) ==
  /\ s.length = t.length
  /\ s.length \in Nat
  /\ Alike(s, t, s.length)

\* The folds over groups and bytes see the characters only.
LEMMA FourAlike ==
  ASSUME NEW s, NEW t, Same(s, t), NEW seed
  PROVE  FourAtATime(s, seed) = FourAtATime(t, seed)
<1> DEFINE n == s.length
           D == 1 .. n \div 4
           g == [j \in D |-> (j - 1) * 4]
           FS(f) == [U \in SUBSET D |-> IF U = {} THEN 0 ELSE
             LET i == g[Max(U)]
             IN  Polynomial(f[U \ {Max(U)}], Byte(s, i), Byte(s, i + 1),
                              Byte(s, i + 2), Byte(s, i + 3), seed)]
           FT(f) == [U \in SUBSET D |-> IF U = {} THEN 0 ELSE
             LET i == g[Max(U)]
             IN  Polynomial(f[U \ {Max(U)}], Byte(t, i), Byte(t, i + 1),
                              Byte(t, i + 2), Byte(t, i + 3), seed)]
<1>1. Groups(s, 4) = g /\ Groups(t, 4) = g
  BY DEF Groups, Same
<1>2. \A U \in SUBSET D : U # {} => Max(U) \in D
  <2>1. n \div 4 \in Nat
    BY DEF Same
  <2> QED BY <2>1, GreatestOf
<1>3. \A j \in D : /\ Byte(s, g[j]) = Byte(t, g[j])
                   /\ Byte(s, g[j] + 1) = Byte(t, g[j] + 1)
                   /\ Byte(s, g[j] + 2) = Byte(t, g[j] + 2)
                   /\ Byte(s, g[j] + 3) = Byte(t, g[j] + 3)
  <2> SUFFICES ASSUME NEW j \in D
               PROVE  {g[j], g[j] + 1, g[j] + 2, g[j] + 3} \subseteq 0 .. n - 1
    BY DEF Alike, Same
  <2> QED BY DEF Same
<1>4. FourAtATime(s, seed) = (CHOOSE f : f = FS(f))[D]
  <2> HIDE DEF g
  <2>1. DOMAIN g = D
    BY DEF g
  <2> HIDE DEF D
  <2> QED BY <1>1, <2>1 DEF FourAtATime, FoldLeft, MapThenFoldSet
<1>5. FourAtATime(t, seed) = (CHOOSE f : f = FT(f))[D]
  <2> HIDE DEF g
  <2>1. DOMAIN g = D
    BY DEF g
  <2> HIDE DEF D
  <2> QED BY <1>1, <2>1 DEF FourAtATime, FoldLeft, MapThenFoldSet
<1>6. \A f : FS(f) = FT(f)
  <2> HIDE DEF g, D
  <2> QED BY <1>2, <1>3
<1> HIDE DEF FS, FT
<1> QED BY <1>4, <1>5, <1>6

\* A fold over the bytes that are left over.
LEMMA BytesAlike ==
  ASSUME NEW s, NEW t, Same(s, t)
  PROVE  BKDRHash_31_std(s) = BKDRHash_31_std(t)
<1> DEFINE n == s.length
           D == 1 .. n \div 1
           g == [j \in D |-> (j - 1) * 1]
           FS(f) == [U \in SUBSET D |-> IF U = {} THEN 0 ELSE
                       Horner(f[U \ {Max(U)}], <<Byte(s, g[Max(U)])>>, 31)]
           FT(f) == [U \in SUBSET D |-> IF U = {} THEN 0 ELSE
                       Horner(f[U \ {Max(U)}], <<Byte(t, g[Max(U)])>>, 31)]
<1>1. Groups(s, 1) = g /\ Groups(t, 1) = g
  BY DEF Groups, Same
<1>2. \A U \in SUBSET D : U # {} => Max(U) \in D
  <2>1. n \div 1 \in Nat
    BY DEF Same
  <2> QED BY <2>1, GreatestOf
<1>3. \A j \in D : Byte(s, g[j]) = Byte(t, g[j])
  <2> SUFFICES ASSUME NEW j \in D
               PROVE  g[j] \in 0 .. n - 1
    BY DEF Alike, Same
  <2> QED BY DEF Same
<1>4. BKDRHash_31_std(s) = (CHOOSE f : f = FS(f))[D]
  <2> HIDE DEF g
  <2>1. DOMAIN g = D
    BY DEF g
  <2> HIDE DEF D
  <2> QED BY <1>1, <2>1 DEF BKDRHash_31_std, FoldLeft, MapThenFoldSet
<1>5. BKDRHash_31_std(t) = (CHOOSE f : f = FT(f))[D]
  <2> HIDE DEF g
  <2>1. DOMAIN g = D
    BY DEF g
  <2> HIDE DEF D
  <2> QED BY <1>1, <2>1 DEF BKDRHash_31_std, FoldLeft, MapThenFoldSet
<1>6. \A f : FS(f) = FT(f)
  <2> HIDE DEF g, D
  <2> QED BY <1>2, <1>3
<1> HIDE DEF FS, FT
<1> QED BY <1>4, <1>5, <1>6

\* What is loaded of two strings with the same characters is the same.
LEMMA LoadsAlike ==
  ASSUME NEW s, NEW t, Same(s, t), NEW i \in Nat, NEW k
  PROVE  /\ LoadMasked(s, i, k) = LoadMasked(t, i, k)
         /\ k \in Nat /\ i + k <= s.length => Load(s, i, k) = Load(t, i, k)
<1>1. s.length \in Nat /\ t.length = s.length
  BY DEF Same
<1>2. \A j \in 1 .. k : i + j <= s.length => Byte(s, i + j - 1) = Byte(t, i + j - 1)
  BY <1>1 DEF Same, Alike
<1>3. LoadMasked(s, i, k) = LoadMasked(t, i, k)
  BY <1>1, <1>2 DEF LoadMasked
<1>4. ASSUME k \in Nat, i + k <= s.length
      PROVE  Load(s, i, k) = Load(t, i, k)
  <2>1. \A j \in 1 .. k : i + j <= s.length
    BY <1>1, <1>4
  <2> QED BY <1>2, <2>1 DEF Load
<1> QED BY <1>3, <1>4

\* A word with what is behind the string masked out.
LEMMA MaskedAlike ==
  ASSUME NEW s, NEW t, Same(s, t), NEW k \in {4, 8}
  PROVE  MaskedWords(s, k) = MaskedWords(t, k)
<1>1. s.length = t.length /\ WordCount(s, k) = WordCount(t, k)
  BY DEF Same, WordCount
<1>2. \A w \in 1 .. WordCount(s, k) :
        LoadMasked(s, (w - 1) * k, k) = LoadMasked(t, (w - 1) * k, k)
  BY LoadsAlike
<1>3. [w \in 1 .. WordCount(s, k) |-> LoadMasked(s, (w - 1) * k, k)]
        = [w \in 1 .. WordCount(t, k) |-> LoadMasked(t, (w - 1) * k, k)]
  BY <1>1, <1>2
<1> QED BY <1>3 DEF MaskedWords

\* The lanes of the checksum of two lanes.
LEMMA LanesAlike ==
  ASSUME NEW s, NEW t, Same(s, t), NEW first \in {0, 16}
  PROVE  Lane(s, first) = Lane(t, first)
<1> DEFINE n == Cardinality({b \in 0 .. s.length : first + 32 * b < s.length})
<1>1. s.length \in Nat /\ t.length = s.length
  BY DEF Same
<1>2. ASSUME NEW b \in 1 .. n
      PROVE  LET i == first + 32 * (b - 1)
             IN  (IF s.length - i <= 16 THEN LoadMasked(s, i, 16) ELSE Load(s, i, 16))
                   = (IF s.length - i <= 16 THEN LoadMasked(t, i, 16) ELSE Load(t, i, 16))
  <2> HIDE DEF n
  <2>1. first + 32 * (b - 1) \in Nat
    OBVIOUS
  <2>2. PICK i \in Nat : i = first + 32 * (b - 1)
    BY <2>1
  <2>3. LoadMasked(s, i, 16) = LoadMasked(t, i, 16)
    BY LoadsAlike
  <2>4. ~(s.length - i <= 16) => Load(s, i, 16) = Load(t, i, 16)
    BY <1>1, LoadsAlike
  <2> QED BY <2>2, <2>3, <2>4
<1>3. /\ Lane(s, first) = [b \in 1 .. n |->
           LET i == first + 32 * (b - 1)
           IN  IF s.length - i <= 16 THEN LoadMasked(s, i, 16) ELSE Load(s, i, 16)]
      /\ Lane(t, first) = [b \in 1 .. n |->
           LET i == first + 32 * (b - 1)
           IN  IF s.length - i <= 16 THEN LoadMasked(t, i, 16) ELSE Load(t, i, 16)]
  BY <1>1 DEF Lane
<1> HIDE DEF n
<1> QED BY <1>2, <1>3

\* The message blocks, the last one padded.
LEMMA MessagesAlike ==
  ASSUME NEW s, NEW t, Same(s, t), NEW i \in Nat
  PROVE  Message(s, i) = Message(t, i)
<1>1. s.length \in Nat /\ t.length = s.length
  BY DEF Same
<1>2. CASE s.length - i <= 0
  BY <1>1, <1>2 DEF Message
<1>3. CASE ~(s.length - i <= 0) /\ s.length - i < 16
  <2>1. Load(s, i, s.length - i) = Load(t, i, s.length - i)
    BY <1>1, <1>3, LoadsAlike
  <2> QED BY <1>1, <1>3, <2>1 DEF Message
<1>4. CASE ~(s.length - i < 16)
  <2>1. Load(s, i, 16) = Load(t, i, 16)
    BY <1>1, <1>4, LoadsAlike
  <2>2. ~(s.length - i <= 0)
    BY <1>1, <1>4
  <2> QED BY <1>1, <1>4, <2>1, <2>2 DEF Message
<1> QED BY <1>2, <1>3, <1>4

\* The two forms of the SHA-1 message.
LEMMA SHA1Alike ==
  ASSUME NEW s, NEW t, Same(s, t)
  PROVE  sha1_x86(s) = sha1_x86(t)
<1>1. WordCount(s, 64) = WordCount(t, 64)
  BY DEF Same, WordCount
<1>2. \A b \in 1 .. WordCount(s, 64) : \A m \in 1 .. 4 : 64 * (b - 1) + 16 * (m - 1) \in Nat
  OBVIOUS
<1>3. \A b \in 1 .. WordCount(s, 64) : \A m \in 1 .. 4 :
        Message(s, 64 * (b - 1) + 16 * (m - 1)) = Message(t, 64 * (b - 1) + 16 * (m - 1))
  BY <1>2, MessagesAlike
<1> QED BY <1>1, <1>3 DEF sha1_x86
\* What OpenSSL is given.
LEMMA OpenSSLAlike ==
  ASSUME NEW s, NEW t, Same(s, t)
  PROVE  OpenSSL_Hash(s) = OpenSSL_Hash(t)
<1> DEFINE n == s.length
<1>1. n \in Nat /\ t.length = n
  BY DEF Same
<1>2. /\ Groups(s, 2) = [g \in 1 .. n \div 2 |-> (g - 1) * 2]
      /\ Groups(t, 2) = Groups(s, 2)
      /\ Left(s, 2) = [j \in 1 .. n % 2 |-> n - (n % 2) + j - 1]
      /\ Left(t, 2) = Left(s, 2)
  BY <1>1 DEF Groups, Left
<1>3. ASSUME NEW i \in 1 .. n \div 2
      PROVE  Load(s, Groups(s, 2)[i], 2) = Load(t, Groups(t, 2)[i], 2)
  <2>1. PICK at \in Nat : at = (i - 1) * 2 /\ at + 2 <= n
    BY <1>1
  <2>2. Groups(s, 2)[i] = at /\ Groups(t, 2)[i] = at
    BY <1>2, <2>1
  <2> QED BY <2>1, <2>2, LoadsAlike
<1>4. ASSUME NEW j \in 1 .. n % 2
      PROVE  Byte(s, Left(s, 2)[j]) = Byte(t, Left(t, 2)[j])
  <2>1. n - (n % 2) + j - 1 \in 0 .. n - 1
    BY <1>1
  <2> QED BY <1>2, <2>1 DEF Same, Alike
<1> HIDE DEF n
<1> QED BY <1>1, <1>3, <1>4 DEF OpenSSL_Hash, n

\* RocksDB's hash of words and a rest.
LEMMA RocksAlike ==
  ASSUME NEW s, NEW t, Same(s, t)
  PROVE  RocksHash(s) = RocksHash(t)
<1> DEFINE n == s.length
<1>1. n \in Nat /\ t.length = n
  BY DEF Same
<1>2. /\ Groups(s, 4) = [g \in 1 .. n \div 4 |-> (g - 1) * 4]
      /\ Groups(t, 4) = Groups(s, 4)
  BY <1>1 DEF Groups
<1>3. ASSUME NEW g \in 1 .. n \div 4
      PROVE  Load(s, Groups(s, 4)[g], 4) = Load(t, Groups(t, 4)[g], 4)
  <2>1. PICK at \in Nat : at = (g - 1) * 4 /\ at + 4 <= n
    BY <1>1
  <2>2. Groups(s, 4)[g] = at /\ Groups(t, 4)[g] = at
    BY <1>2, <2>1
  <2> QED BY <2>1, <2>2, LoadsAlike
<1>4. Load(s, n - (n % 4), n % 4) = Load(t, n - (n % 4), n % 4)
  <2>1. n - (n % 4) \in Nat /\ n % 4 \in Nat /\ (n - (n % 4)) + (n % 4) <= n
    BY <1>1
  <2> QED BY <2>1, LoadsAlike
<1> HIDE DEF n
<1> QED BY <1>1, <1>3, <1>4 DEF RocksHash, Mixed, n

\* Words that agree where they are taken from the string.
LEMMA WordsAlike ==
  ASSUME NEW s, NEW t, Same(s, t), NEW N \in {4, 8},
         NEW word, NEW other,
         \A i \in WordStarts(s, N) :
           /\ i + N <= s.length => word[i] = other[i]
           /\ \A m \in 1 .. N - 1 : i + m = s.length => Cut(word[i], m) = Cut(other[i], m)
  PROVE  Mixed(s, WordsOf(s, N, word)) = Mixed(t, WordsOf(t, N, other))
<1> DEFINE n == s.length
<1>1. n \in Nat /\ t.length = n
  BY DEF Same
<1>2. /\ Groups(s, N) = [g \in 1 .. n \div N |-> (g - 1) * N]
      /\ Groups(t, N) = Groups(s, N)
  BY <1>1 DEF Groups
<1>3. ASSUME NEW g \in 1 .. n \div N
      PROVE  word[Groups(s, N)[g]] = other[Groups(t, N)[g]]
  <2>1. (g - 1) * N \in WordStarts(s, N) /\ (g - 1) * N + N <= n
    BY <1>1 DEF WordStarts
  <2> QED BY <1>2, <2>1
<1>4. n % N # 0 => Cut(word[n - (n % N)], n % N) = Cut(other[n - (n % N)], n % N)
  <2> SUFFICES ASSUME n % N # 0
               PROVE  Cut(word[n - (n % N)], n % N) = Cut(other[n - (n % N)], n % N)
    OBVIOUS
  <2>1. n - (n % N) \in WordStarts(s, N) /\ n % N \in 1 .. N - 1 /\ (n - (n % N)) + (n % N) = n
    BY <1>1 DEF WordStarts
  <2> QED BY <2>1
<1> HIDE DEF n
<1> QED BY <1>1, <1>3, <1>4 DEF WordsOf, Mixed, n

\* A shorter load that stays in the string.
LEMMA LoadCut ==
  ASSUME NEW s, NEW t, Same(s, t), NEW N \in {4, 8}, NEW i \in WordStarts(s, N)
  PROVE  /\ i + N <= s.length => Load(s, i, N) = Load(t, i, N)
         /\ \A m \in 1 .. N - 1 : i + m = s.length =>
              Cut(Load(s, i, N), m) = Cut(Load(t, i, N), m)
<1>1. i \in Nat /\ s.length \in Nat
  BY DEF WordStarts, Same
<1>2. i + N <= s.length => Load(s, i, N) = Load(t, i, N)
  BY <1>1, LoadsAlike
<1>3. ASSUME NEW m \in 1 .. N - 1, i + m = s.length
      PROVE  Cut(Load(s, i, N), m) = Cut(Load(t, i, N), m)
  <2>1. \A j \in 1 .. N : j <= m => Byte(s, i + j - 1) = Byte(t, i + j - 1)
    BY <1>1, <1>3 DEF Same, Alike
  <2> QED BY <2>1 DEF Cut, Load
<1> QED BY <1>2, <1>3

\* The primary hash of aligned words, off x86.
LEMMA AlignedAlike ==
  ASSUME NEW s, NEW t, Same(s, t), NEW N \in {4, 8}
  PROVE  primaryHash_aligned(s, N) = primaryHash_aligned(t, N)
<1> DEFINE W == WordStarts(s, N)
           word == [i \in W |-> Load(s, i, N)]
           other == [i \in W |-> Load(t, i, N)]
<1>1. WordStarts(t, N) = W
  BY DEF Same, WordStarts
<1>2. \A i \in W : word[i] = Load(s, i, N) /\ other[i] = Load(t, i, N)
  OBVIOUS
<1>3. /\ primaryHash_aligned(s, N) = Mixed(s, WordsOf(s, N, word))
      /\ primaryHash_aligned(t, N) = Mixed(t, WordsOf(t, N, other))
  BY <1>1 DEF primaryHash_aligned
<1> HIDE DEF W, word, other
<1>4. Mixed(s, WordsOf(s, N, word)) = Mixed(t, WordsOf(t, N, other))
  BY <1>2, LoadCut, WordsAlike DEF W
<1> QED BY <1>3, <1>4

\* Time31 sees one byte behind the string, where it is left over alone.
LEMMA Times31Alike ==
  ASSUME NEW s, NEW t, Same(s, t),
         s.length % 4 = 1 => Byte(s, s.length) = Byte(t, t.length)
  PROVE  Times31(s) = Times31(t)
<1> DEFINE n == s.length
           i == n - (n % 4)
<1>1. n \in Nat /\ t.length = n
  BY DEF Same
<1>2. Times31Tail(s) = Times31Tail(t)
  <2>1. \A j \in 0 .. n - 1 : Byte(s, j) = Byte(t, j)
    BY DEF Same, Alike
  <2>2. CASE n % 4 = 0
    BY <1>1, <2>2 DEF Times31Tail
  <2>3. CASE n % 4 = 1
    <3>1. i + 1 = n
      BY <1>1, <2>3
    <3>2. Byte(s, i + 1) = Byte(t, i + 1)
      BY <1>1, <2>3, <3>1
    <3> QED BY <1>1, <2>3, <3>2 DEF Times31Tail
  <2>4. CASE n % 4 = 2
    <3>1. i \in 0 .. n - 1 /\ i + 1 \in 0 .. n - 1
      BY <1>1, <2>4
    <3> QED BY <1>1, <2>1, <2>4, <3>1 DEF Times31Tail
  <2>5. CASE n % 4 = 3
    <3>1. i \in 0 .. n - 1 /\ i + 1 \in 0 .. n - 1 /\ i + 2 \in 0 .. n - 1
      BY <1>1, <2>5
    <3> QED BY <1>1, <2>1, <2>5, <3>1 DEF Times31Tail
  <2>6. n % 4 \in {0, 1, 2, 3}
    BY <1>1
  <2> QED BY <2>2, <2>3, <2>4, <2>5, <2>6
<1>3. FourAtATime(s, 31) = FourAtATime(t, 31)
  BY FourAlike
<1> QED BY <1>2, <1>3 DEF Times31, BKDRHash_31

\* The primary hashes of a table.
LEMMA PrimaryAlike ==
  ASSUME NEW s, NEW t, Same(s, t), NEW N \in {4, 8}, NEW x86 \in BOOLEAN,
         x86 \/ (s.data.at % N = 0 /\ t.data.at % N = 0)
  PROVE  /\ primaryHash(s, N, x86) = primaryHash(t, N, x86)
         /\ primaryHash_new(s, N, x86) = primaryHash_new(t, N, x86)
         /\ primaryHash_old(s, N, x86) = primaryHash_old(t, N, x86)
<1>1. primaryHash_aligned(s, N) = primaryHash_aligned(t, N)
  BY AlignedAlike
<1>2. \A x : PrimaryHash_value(x, N, 0) = primaryHash_aligned(x, N)
  BY DEF PrimaryHash_value, primaryHash_aligned, decode_value
<1>3. primaryHash(s, N, x86) = primaryHash(t, N, x86)
  BY <1>1, <1>2 DEF primaryHash
<1>4. primaryHash_new(s, N, x86) = primaryHash_new(t, N, x86)
  BY <1>1 DEF primaryHash_new
<1>5. primaryHash_old(s, N, x86) = primaryHash_old(t, N, x86)
  BY <1>1 DEF primaryHash_old
<1> QED BY <1>3, <1>4, <1>5

\* Every hash function a table is given.
LEMMA HashesAlike ==
  ASSUME NEW s, NEW t, Same(s, t), NEW f \in HashFuncs,
         f = "Time31" /\ s.length % 4 = 1 => Byte(s, s.length) = Byte(t, t.length)
  PROVE  /\ getHashCode_StringRef(f, s) = getHashCode_StringRef(f, t)
         /\ getHashCode_int(f, s) = getHashCode_int(f, t)
         /\ \A a, b : f # "Default" =>
              getHashCode_String(f, s, a) = getHashCode_String(f, t, b)
<1>1. Times31_std(s) = Times31_std(t)
  BY BytesAlike DEF Times31_std
<1>2. crc32c_x64(s) = crc32c_x64(t)
  BY MaskedAlike DEF crc32c_x64
<1>3. f = "Time31" => Times31(s) = Times31(t)
  BY Times31Alike
<1>4. sha1_msg2(s) = sha1_msg2(t)
  BY LanesAlike DEF sha1_msg2, sha1_msg2_x64
<1>5. sha1_x86(s) = sha1_x86(t)
  BY SHA1Alike
<1>6. f \in {"Default", "CRC32C", "Time31", "Time31Std", "SHA1_MSG2", "SHA1"}
  BY DEF HashFuncs
<1>7. getHashCode_StringRef(f, s) = getHashCode_StringRef(f, t)
  BY <1>1, <1>2, <1>3, <1>4, <1>5, <1>6 DEF getHashCode_StringRef
<1>8. ASSUME NEW a, NEW b, f # "Default"
      PROVE  getHashCode_String(f, s, a) = getHashCode_String(f, t, b)
  BY <1>1, <1>2, <1>3, <1>4, <1>5, <1>6, <1>8 DEF getHashCode_String
<1> QED BY <1>7, <1>8 DEF getHashCode_int

\* Two strings that are equal hash equally.
LEMMA StringyHashed == BothStringy => EqualKeysHashEqually
<1> SUFFICES ASSUME BothStringy, SameContent PROVE EqualKeysHashEqually
  BY DEF EqualKeysHashEqually
<1>1. Same(left, right)
  BY ContentAlike DEF SameContent, BothStringy, Same, Stringy
<1>2. ASSUME NEW f \in HashFuncs, ~ReadsBehind(f)
      PROVE  HashesAgree(f)
  BY <1>1, <1>2, HashesAlike DEF ReadsBehind, HashesAgree
<1>3. OpenSSL_Hash(left) = OpenSSL_Hash(right) /\ RocksHash(left) = RocksHash(right)
  BY <1>1, OpenSSLAlike, RocksAlike
<1>4. ASSUME NEW N \in WordSizes, NEW x86 \in BOOLEAN, x86 \/ Aligned(N)
      PROVE  /\ primaryHash(left, N, x86) = primaryHash(right, N, x86)
             /\ primaryHash_new(left, N, x86) = primaryHash_new(right, N, x86)
             /\ primaryHash_old(left, N, x86) = primaryHash_old(right, N, x86)
  <2>1. N \in {4, 8}
    BY StringPairAssumption
  <2>2. x86 \/ (left.data.at % N = 0 /\ right.data.at % N = 0)
    BY <1>4 DEF Aligned
  <2> QED BY <1>1, <2>1, <2>2, PrimaryAlike
<1> QED BY <1>2, <1>3, <1>4 DEF EqualKeysHashEqually

-----------------------------------------------------------------------------
(* Pieces of one length, joined                                            *)

\* Pieces of one length, k, joined: piece w holds the characters from
\* (w - 1) * k on.
Rows(V, n, k) == {pieces \in [1 .. n -> Seq(V)] : \A w \in 1 .. n : Len(pieces[w]) = k}
Laid(pieces, n, k) ==
  [p \in 1 .. k * n |-> pieces[(p - 1) \div k + 1][((p - 1) % k) + 1]]

\* Which character of which piece the p-th of all is.
LEMMA PlaceOf ==
  ASSUME NEW k \in {4, 8}, NEW m \in Nat
  PROVE  /\ k * m \in Nat
         /\ \A p \in 1 .. k * m :
              /\ (p - 1) \div k + 1 \in 1 .. m
              /\ ((p - 1) % k) + 1 \in 1 .. k
         /\ \A w \in 1 .. m, j \in 1 .. k :
              /\ (w - 1) * k + j \in 1 .. k * m
              /\ ((w - 1) * k + j - 1) \div k + 1 = w
              /\ (((w - 1) * k + j - 1) % k) + 1 = j
<1>1. CASE k = 4
  BY <1>1
<1>2. CASE k = 8
  BY <1>2
<1> QED BY <1>1, <1>2

\* The first piece alone.
LEMMA LaidFirst ==
  ASSUME NEW V, NEW n \in Nat \ {0}, NEW k \in {4, 8}, NEW pieces \in Rows(V, n, k)
  PROVE  Laid(pieces, 1, k) = pieces[1]
<1>1. pieces[1] \in Seq(V) /\ Len(pieces[1]) = k
  BY DEF Rows
<1>2. \A p \in 1 .. k : (p - 1) \div k + 1 = 1 /\ ((p - 1) % k) + 1 = p
  OBVIOUS
<1>3. k * 1 = k
  OBVIOUS
<1>4. Laid(pieces, 1, k) = [p \in 1 .. k |-> pieces[1][p]]
  BY <1>2, <1>3 DEF Laid
<1> QED BY <1>1, <1>4

\* What is laid are the values of the pieces.
LEMMA LaidTyped ==
  ASSUME NEW V, NEW n \in Nat, NEW k \in {4, 8}, NEW pieces \in Rows(V, n, k), NEW m \in 0 .. n
  PROVE  Laid(pieces, m, k) \in Seq(V) /\ Len(Laid(pieces, m, k)) = k * m
<1>1. \A w \in 1 .. n : pieces[w] \in [1 .. k -> V]
  BY DEF Rows
<1>2. k * m \in Nat
  BY PlaceOf
<1>3. ASSUME NEW p \in 1 .. k * m
      PROVE  pieces[(p - 1) \div k + 1][((p - 1) % k) + 1] \in V
  <2>1. (p - 1) \div k + 1 \in 1 .. n /\ ((p - 1) % k) + 1 \in 1 .. k
    BY PlaceOf
  <2> QED BY <1>1, <2>1
<1>4. Laid(pieces, m, k) \in [1 .. k * m -> V]
  BY <1>3 DEF Laid
<1> QED BY <1>2, <1>4

\* Laid one piece longer.
LEMMA LaidNext ==
  ASSUME NEW V, NEW n \in Nat, NEW k \in {4, 8}, NEW pieces \in Rows(V, n, k), NEW i \in 1 .. n
  PROVE  Laid(pieces, i, k) = Laid(pieces, i - 1, k) \o pieces[i]
<1>1. Laid(pieces, i, k) = Laid(pieces, i - 1, k) \o pieces[i]
  <2> DEFINE a == Laid(pieces, i - 1, k)
             c == Laid(pieces, i, k)
  <2>1. /\ a \in Seq(V) /\ Len(a) = k * (i - 1)
        /\ c \in Seq(V) /\ Len(c) = k * i
        /\ pieces[i] \in Seq(V) /\ Len(pieces[i]) = k
    <3>1. i - 1 \in 0 .. n /\ i \in 0 .. n
      OBVIOUS
    <3>2. a \in Seq(V) /\ Len(a) = k * (i - 1)
      BY <3>1, LaidTyped
    <3>3. c \in Seq(V) /\ Len(c) = k * i
      BY <3>1, LaidTyped
    <3> QED BY <3>2, <3>3 DEF Rows
  <2>2. k * i = k * (i - 1) + k
    OBVIOUS
  <2>3. ASSUME NEW p \in 1 .. k * i
        PROVE  c[p] = (a \o pieces[i])[p]
    <3>1. CASE p <= k * (i - 1)
      <4>1. p \in 1 .. k * (i - 1)
        BY <3>1
      <4>2. a[p] = c[p]
        BY <4>1 DEF Laid
      <4> HIDE DEF a, c
      <4> QED BY <2>1, <4>1, <4>2
    <3>2. CASE ~(p <= k * (i - 1))
      <4>1. (p - 1) \div k + 1 = i /\ ((p - 1) % k) + 1 = p - k * (i - 1)
        <5>1. k = 4 => (p - 1) \div 4 + 1 = i /\ ((p - 1) % 4) + 1 = p - 4 * (i - 1)
          BY <3>2
        <5>2. k = 8 => (p - 1) \div 8 + 1 = i /\ ((p - 1) % 8) + 1 = p - 8 * (i - 1)
          BY <3>2
        <5> QED BY <5>1, <5>2
      <4>2. c[p] = pieces[i][p - k * (i - 1)]
        BY <4>1 DEF Laid
      <4>3. (a \o pieces[i])[p] = pieces[i][p - Len(a)]
        <5> HIDE DEF a, c
        <5>1. p \in Int /\ Len(a) < p /\ p <= Len(a) + Len(pieces[i])
          <6>1. k * (i - 1) \in Nat
            BY PlaceOf
          <6> QED BY ONLY <2>1, <2>2, <3>2, <6>1, p \in 1 .. k * i, k \in Nat
        <5> QED BY <2>1, <5>1, ConcatProperties
      <4> HIDE DEF a, c
      <4> QED BY <2>1, <4>2, <4>3
    <3> QED BY <3>1, <3>2
  <2> HIDE DEF a, c
  <2>4. a \o pieces[i] \in Seq(V) /\ Len(a \o pieces[i]) = k * i
    <3> DEFINE b == pieces[i]
    <3>1. a \in Seq(V) /\ b \in Seq(V) /\ Len(a) + Len(b) = k * i
      BY <2>1, <2>2
    <3> HIDE DEF b
    <3>2. a \o b \in Seq(V) /\ Len(a \o b) = Len(a) + Len(b)
      BY ONLY <3>1, ConcatProperties
    <3> QED BY <3>1, <3>2 DEF b
  <2>5. Len(c) = Len(a \o pieces[i])
    BY <2>1, <2>4
  <2> QED BY ONLY <2>1, <2>3, <2>4, <2>5, SeqEqual DEF a, c
<1> QED BY <1>1

\* Joining pieces of one length lays them end to end.
LEMMA FlattenedIs ==
  ASSUME NEW V, NEW n \in Nat, NEW k \in {4, 8}, NEW pieces \in Rows(V, n, k)
  PROVE  FlattenSeq(pieces) = Laid(pieces, n, k)
<1>1. pieces \in [1 .. n -> Seq(V)] /\ Len(pieces) = n
  BY DEF Rows
<1>4. \A i \in 1 .. n : Laid(pieces, i, k) = Laid(pieces, i - 1, k) \o pieces[i]
  BY LaidNext
<1>5. n # 0 => Laid(pieces, 1, k) = pieces[1]
  BY LaidFirst
<1>2. CASE n = 0
  <2>1. pieces = <<>>
    BY <1>1, <1>2, EmptySeq DEF Rows
  <2>2. k * n = 0
    BY <1>2
  <2>3. Laid(pieces, n, k) = <<>>
    BY <2>2 DEF Laid
  <2> QED BY <1>1, <1>2, <2>1, <2>3 DEF FlattenSeq
<1>3. CASE n # 0
  <2> DEFINE Flat(f) == [i \in 1 .. n |->
               IF i = 1 THEN pieces[i] ELSE f[i - 1] \o pieces[i]]
             g == [i \in 1 .. n |-> Laid(pieces, i, k)]
             h == CHOOSE f : f = Flat(f)
  <2>1. FlattenSeq(pieces) = h[n]
    BY <1>1, <1>3 DEF FlattenSeq
  <2>2. g = Flat(g)
    <3>1. ASSUME NEW i \in 1 .. n
          PROVE  Laid(pieces, i, k) = IF i = 1 THEN pieces[i] ELSE g[i - 1] \o pieces[i]
      <4>1. i # 1 => i - 1 \in 1 .. n
        OBVIOUS
      <4>2. i # 1 => g[i - 1] = Laid(pieces, i - 1, k)
        BY <4>1
      <4> HIDE DEF g
      <4>3. i = 1 => Laid(pieces, i, k) = pieces[i]
        BY <1>3, <1>5
      <4>4. Laid(pieces, i, k) = Laid(pieces, i - 1, k) \o pieces[i]
        BY <1>4
      <4> QED BY <4>2, <4>3, <4>4
    <3> QED BY <3>1
  <2>3. h = Flat(h)
    <3> HIDE DEF g, Flat
    <3> QED BY <2>2
  <2> HIDE DEF h
  <2>4. \A i \in 1 .. n : h[i] = IF i = 1 THEN pieces[i] ELSE h[i - 1] \o pieces[i]
    BY <2>3
  <2> DEFINE Good == {m \in Nat : m + 1 \in 1 .. n => h[m + 1] = Laid(pieces, m + 1, k)}
  <2>5. 0 \in Good
    BY <1>3, <1>5, <2>4
  <2>6. ASSUME NEW m \in Nat, m \in Good
        PROVE  m + 1 \in Good
    <3> SUFFICES ASSUME (m + 1) + 1 \in 1 .. n
                 PROVE  h[(m + 1) + 1] = Laid(pieces, (m + 1) + 1, k)
      OBVIOUS
    <3>1. m + 1 \in 1 .. n /\ (m + 1) + 1 # 1 /\ ((m + 1) + 1) - 1 = m + 1
      OBVIOUS
    <3>2. h[m + 1] = Laid(pieces, m + 1, k)
      BY <2>6, <3>1
    <3>3. h[(m + 1) + 1] = h[m + 1] \o pieces[(m + 1) + 1]
      BY <2>4, <3>1
    <3>4. Laid(pieces, (m + 1) + 1, k) = Laid(pieces, m + 1, k) \o pieces[(m + 1) + 1]
      BY <3>1, <1>4
    <3> QED BY <3>2, <3>3, <3>4
  <2> HIDE DEF Good
  <2>7. n - 1 \in Good
    <3>1. Nat \subseteq Good
      BY <2>5, <2>6, SetInduction
    <3> QED BY <1>3, <3>1
  <2>8. (n - 1) + 1 = n /\ (n - 1) + 1 \in 1 .. n
    BY <1>3
  <2> QED BY <2>1, <2>7, <2>8 DEF Good
<1> QED BY <1>2, <1>3

-----------------------------------------------------------------------------
(* What a hash function is told of different strings                       *)

\* What a byte is.
Bytes == 0 .. 255

\* What a load is: its length, and each of its bytes.
LEMMA LoadTyped ==
  ASSUME NEW s, Stringy(s), NEW i \in Int, NEW k \in Nat
  PROVE  /\ Load(s, i, k) \in Seq(Bytes) /\ Len(Load(s, i, k)) = k
         /\ \A j \in 1 .. k : Load(s, i, k)[j] = Byte(s, i + j - 1)
         /\ LoadMasked(s, i, k) \in Seq(Bytes) /\ Len(LoadMasked(s, i, k)) = k
         /\ \A j \in 1 .. k : i + j <= s.length => LoadMasked(s, i, k)[j] = Byte(s, i + j - 1)
<1>1. \A j \in 1 .. k : Byte(s, i + j - 1) \in Bytes
  BY DEF Stringy, Bytes
<1>2. 0 \in Bytes
  BY DEF Bytes
<1>3. Load(s, i, k) \in [1 .. k -> Bytes]
  BY <1>1 DEF Load
<1>4. LoadMasked(s, i, k) \in [1 .. k -> Bytes]
  BY <1>1, <1>2 DEF LoadMasked
<1>5. \A j \in 1 .. k : Load(s, i, k)[j] = Byte(s, i + j - 1)
  BY DEF Load
<1>6. \A j \in 1 .. k : i + j <= s.length => LoadMasked(s, i, k)[j] = Byte(s, i + j - 1)
  BY DEF LoadMasked
<1> QED BY <1>3, <1>4, <1>5, <1>6

\* A load is bytes.
LEMMA LoadIn ==
  ASSUME NEW s, Stringy(s), NEW i \in Int, NEW k \in Nat
  PROVE  Load(s, i, k) \in Seq(Bytes)
BY LoadTyped

\* Two sequences of the same parts' lengths are equal part by part.
LEMMA Halves ==
  ASSUME NEW V, NEW a \in Seq(V), NEW b \in Seq(V), NEW c \in Seq(V), NEW d \in Seq(V),
         Len(a) = Len(c), a \o b = c \o d
  PROVE  a = c /\ b = d
<1>1. /\ Len(a) \in Nat /\ Len(b) \in Nat /\ Len(c) \in Nat /\ Len(d) \in Nat
      /\ Len(a \o b) = Len(a) + Len(b) /\ Len(c \o d) = Len(c) + Len(d)
      /\ \A i \in 1 .. Len(a) + Len(b) :
           (a \o b)[i] = IF i <= Len(a) THEN a[i] ELSE b[i - Len(a)]
      /\ \A i \in 1 .. Len(c) + Len(d) :
           (c \o d)[i] = IF i <= Len(c) THEN c[i] ELSE d[i - Len(c)]
  <2>1. /\ Len(a \o b) = Len(a) + Len(b)
        /\ \A i \in 1 .. Len(a) + Len(b) :
             (a \o b)[i] = IF i <= Len(a) THEN a[i] ELSE b[i - Len(a)]
    BY ONLY a \in Seq(V), b \in Seq(V), ConcatProperties
  <2>2. /\ Len(c \o d) = Len(c) + Len(d)
        /\ \A i \in 1 .. Len(c) + Len(d) :
             (c \o d)[i] = IF i <= Len(c) THEN c[i] ELSE d[i - Len(c)]
    BY ONLY c \in Seq(V), d \in Seq(V), ConcatProperties
  <2> QED BY <2>1, <2>2
<1>2. Len(b) = Len(d)
  BY <1>1
<1>3. \A i \in 1 .. Len(a) : a[i] = c[i]
  BY <1>1, <1>2
<1>4. ASSUME NEW i \in 1 .. Len(b)
      PROVE  b[i] = d[i]
  <2>1. /\ Len(a) + i \in 1 .. Len(a) + Len(b) /\ ~(Len(a) + i <= Len(a))
        /\ (Len(a) + i) - Len(a) = i
    BY <1>1
  <2> QED BY <1>1, <1>2, <2>1
<1> QED BY <1>2, <1>3, <1>4, SeqEqual

\* What is fed to crc32c_x86 and crc32c_x64.
LEMMA MaskedIs ==
  ASSUME NEW s, Stringy(s), NEW k \in {4, 8}, NEW r \in 0 .. s.length - 1
  PROVE  MaskedWords(s, k)[r + 1] = Byte(s, r)
<1> DEFINE m == WordCount(s, k)
           pieces == [w \in 1 .. m |-> LoadMasked(s, (w - 1) * k, k)]
           w == r \div k + 1
           j == (r % k) + 1
<1>1. /\ m \in Nat /\ w \in 1 .. m /\ j \in 1 .. k
      /\ (w - 1) * k \in Nat /\ (w - 1) * k + j = r + 1
      /\ r + 1 \in 1 .. k * m /\ ((r + 1) - 1) \div k + 1 = w /\ (((r + 1) - 1) % k) + 1 = j
  <2>1. s.length \in Nat
    BY DEF Stringy
  <2>2. CASE k = 4
    BY <2>1, <2>2 DEF WordCount
  <2>3. CASE k = 8
    BY <2>1, <2>3 DEF WordCount
  <2> QED BY <2>2, <2>3
<1> HIDE DEF m, w, j
<1>2. pieces \in Rows(Bytes, m, k)
  <2>1. \A v \in 1 .. m : (v - 1) * k \in Int
    BY <1>1
  <2>2. \A v \in 1 .. m : LoadMasked(s, (v - 1) * k, k) \in Seq(Bytes)
                          /\ Len(LoadMasked(s, (v - 1) * k, k)) = k
    <3> TAKE v \in 1 .. m
    <3>1. PICK i \in Int : i = (v - 1) * k
      BY <2>1
    <3> QED BY <3>1, LoadTyped
  <2> QED BY <2>2 DEF Rows
<1>3. MaskedWords(s, k) = FlattenSeq(pieces)
  BY DEF MaskedWords, m
<1>4. pieces[w][j] = Byte(s, r)
  <2>1. pieces[w] = LoadMasked(s, (w - 1) * k, k)
    BY <1>1
  <2>2. PICK i \in Nat : i = (w - 1) * k
    BY <1>1
  <2>3. i + j <= s.length /\ i + j - 1 = r
    BY <1>1, <2>2 DEF Stringy
  <2>4. LoadMasked(s, i, k)[j] = Byte(s, i + j - 1)
    BY <1>1, <2>3, LoadTyped
  <2> QED BY <2>1, <2>2, <2>3, <2>4
<1> HIDE DEF pieces
<1>5. FlattenSeq(pieces) = Laid(pieces, m, k)
  BY <1>1, <1>2, FlattenedIs
<1>6. Laid(pieces, m, k)[r + 1] = pieces[w][j]
  BY <1>1 DEF Laid
<1> QED BY <1>3, <1>4, <1>5, <1>6

\* A character that differs makes what is fed differ.
LEMMA MaskedCounts ==
  ASSUME NEW s, NEW t, Stringy(s), Stringy(t), s.length = t.length, NEW k \in {4, 8},
         MaskedWords(s, k) = MaskedWords(t, k)
  PROVE  Alike(s, t, s.length)
BY MaskedIs DEF Alike

\* The blocks of the SHA-1 message hold every character.
LEMMA MessagesCount ==
  ASSUME NEW s, NEW t, Stringy(s), Stringy(t), s.length = t.length,
         sha1_x86(s) = sha1_x86(t)
  PROVE  Alike(s, t, s.length)
<1> SUFFICES ASSUME NEW r \in 0 .. s.length - 1
             PROVE  Byte(s, r) = Byte(t, r)
  BY DEF Alike
<1> DEFINE b == r \div 64 + 1
           m == ((r % 64) \div 16) + 1
           i == 64 * (b - 1) + 16 * (m - 1)
           j == r - i + 1
<1>1. s.length \in Nat
  BY DEF Stringy
<1>2. /\ b \in 1 .. WordCount(s, 64) /\ m \in 1 .. 4
      /\ i \in Nat /\ j \in 1 .. 16 /\ i + j - 1 = r
  BY <1>1 DEF WordCount
<1>3. WordCount(s, 64) = WordCount(t, 64)
  BY DEF WordCount
<1>4. Message(s, i) = Message(t, i)
  <2>1. \A x : b \in 1 .. WordCount(x, 64) =>
          sha1_x86(x)[b][m] = Message(x, i)
    BY <1>2 DEF sha1_x86
  <2> QED BY <1>2, <1>3, <2>1
<1> HIDE DEF b, m, i, j
<1>5. ASSUME NEW x, Stringy(x), x.length = s.length
      PROVE  Message(x, i)[j] = Byte(x, r)
  <2> DEFINE remain == x.length - i
  <2>1. remain \in Nat /\ remain > 0 /\ j <= remain
    BY <1>1, <1>2, <1>5
  <2>2. CASE remain < 16
    <3> DEFINE z == [l \in 1 .. 16 - remain |-> 0]
    <3>1. Message(x, i) = Load(x, i, remain) \o z
      <4>1. ~(x.length - i <= 0) /\ x.length - i < 16
        BY <2>1, <2>2
      <4> QED BY <4>1 DEF Message
    <3>2. z \in Seq(Bytes) /\ Len(z) \in Nat
      <4>1. 16 - remain \in Nat /\ 0 \in Bytes
        BY <2>1, <2>2 DEF Bytes
      <4>2. z \in [1 .. 16 - remain -> Bytes]
        BY <4>1
      <4> HIDE DEF z, remain
      <4> QED BY <4>1, <4>2
    <3>3. Load(x, i, remain) \in Seq(Bytes) /\ Len(Load(x, i, remain)) = remain
          /\ Load(x, i, remain)[j] = Byte(x, i + j - 1)
      BY <1>2, <1>5, <2>1, LoadTyped
    <3> HIDE DEF z, remain
    <3>4. j \in 1 .. remain + Len(z)
      BY <1>2, <2>1, <3>2
    <3> DEFINE u == Load(x, i, remain)
    <3> HIDE DEF u
    <3>5. u \in Seq(Bytes) /\ Len(u) = remain /\ u[j] = Byte(x, i + j - 1)
          /\ Message(x, i) = u \o z
      BY <3>1, <3>3 DEF u
    <3>6. (u \o z)[j] = u[j]
      BY ONLY <2>1, <3>2, <3>4, <3>5, ConcatProperties
    <3> QED BY <1>2, <3>5, <3>6
  <2>3. CASE ~(remain < 16)
    <3>1. Message(x, i) = Load(x, i, 16)
      BY <2>1, <2>3 DEF Message
    <3>2. i \in Int /\ 16 \in Nat /\ Stringy(x)
      BY <1>2, <1>5
    <3>3. \A l \in 1 .. 16 : Load(x, i, 16)[l] = Byte(x, i + l - 1)
      BY ONLY <3>2, LoadTyped
    <3>4. Load(x, i, 16)[j] = Byte(x, i + j - 1)
      BY <1>2, <3>3
    <3> QED BY <1>2, <3>1, <3>4
  <2> QED BY <2>2, <2>3
<1> QED BY <1>4, <1>5

\* The block that a character is in is one of its lane's.
LEMMA LaneIs ==
  ASSUME NEW s, Stringy(s), NEW r \in 0 .. s.length - 1, NEW first, NEW b, NEW j,
         first = 16 * ((r \div 16) % 2), b = r \div 32 + 1, j = (r % 16) + 1
  PROVE  Lane(s, first)[b][j] = Byte(s, r)
<1> DEFINE n == s.length
           blocks == {c \in 0 .. n : first + 32 * c < n}
           m == Cardinality(blocks)
           i == first + 32 * (b - 1)
<1>1. n \in Nat
  BY DEF Stringy
<1>2. /\ first \in {0, 16} /\ i \in Nat /\ j \in 1 .. 16 /\ i + j = r + 1 /\ i < n
  BY <1>1
<1>3. blocks = 0 .. ((n - first + 31) \div 32) - 1
  <2>1. \A c \in Int : (c \in 0 .. n /\ first + 32 * c < n) <=> c \in 0 .. ((n - first + 31) \div 32) - 1
    BY <1>1, <1>2
  <2> QED BY <2>1
<1>4. m = (n - first + 31) \div 32
  <2> DEFINE l == (n - first + 31) \div 32
  <2>1. l \in Nat /\ l - 1 \in Int
    BY <1>1, <1>2
  <2> HIDE DEF l, blocks
  <2>2. Cardinality(0 .. l - 1) = l
    BY <2>1, FS_Interval
  <2> QED BY <1>3, <2>2 DEF l
<1>5. b \in 1 .. m
  BY <1>1, <1>2, <1>4
<1>6. Lane(s, first)[b] = IF n - i <= 16 THEN LoadMasked(s, i, 16) ELSE Load(s, i, 16)
  <2> HIDE DEF m, i
  <2>1. Lane(s, first) = [c \in 1 .. m |->
           IF n - (first + 32 * (c - 1)) <= 16 THEN LoadMasked(s, first + 32 * (c - 1), 16)
           ELSE Load(s, first + 32 * (c - 1), 16)]
    BY DEF Lane, m
  <2> HIDE DEF n
  <2> QED BY <1>5, <2>1 DEF i
<1> HIDE DEF i
<1>7. /\ LoadMasked(s, i, 16)[j] = Byte(s, i + j - 1)
      /\ Load(s, i, 16)[j] = Byte(s, i + j - 1)
  <2>1. i + j <= s.length
    BY <1>1, <1>2
  <2>2. LoadMasked(s, i, 16)[j] = Byte(s, i + j - 1)
    BY <1>2, <2>1, LoadTyped
  <2>3. Load(s, i, 16)[j] = Byte(s, i + j - 1)
    BY <1>2, LoadTyped
  <2> QED BY <2>2, <2>3
<1>8. i + j - 1 = r
  BY <1>2
<1> HIDE DEF n
<1> QED BY <1>6, <1>7, <1>8

\* The two lanes hold every character.
LEMMA LanesCount ==
  ASSUME NEW s, NEW t, Stringy(s), Stringy(t), s.length = t.length,
         sha1_msg2(s) = sha1_msg2(t)
  PROVE  Alike(s, t, s.length)
<1>1. Lane(s, 0) = Lane(t, 0) /\ Lane(s, 16) = Lane(t, 16)
  BY DEF sha1_msg2, sha1_msg2_x64
<1> SUFFICES ASSUME NEW r \in 0 .. s.length - 1
             PROVE  Byte(s, r) = Byte(t, r)
  BY DEF Alike
<1>2. PICK first \in {0, 16}, b \in Int, j \in Int :
        first = 16 * ((r \div 16) % 2) /\ b = r \div 32 + 1 /\ j = (r % 16) + 1
  BY DEF Stringy
<1>3. r \in 0 .. t.length - 1
  OBVIOUS
<1>4. Lane(s, first)[b][j] = Byte(s, r) /\ Lane(t, first)[b][j] = Byte(t, r)
  BY <1>2, <1>3, LaneIs
<1> QED BY <1>1, <1>2, <1>4

\* The message and its length hold every character.
LEMMA OpenSSLCounts ==
  ASSUME NEW s, NEW t, Stringy(s), Stringy(t), s.length = t.length,
         OpenSSL_Hash(s) = OpenSSL_Hash(t)
  PROVE  Alike(s, t, s.length)
<1> DEFINE n == s.length
           V == (0 .. 15) \X Seq(Bytes)
           Words(x) == [i \in 1 .. n \div 2 |-> << (i - 1) % 16, Load(x, Groups(x, 2)[i], 2) >>]
           Rest(x) == [j \in 1 .. n % 2 |->
                         << (n \div 2) % 16, <<Byte(x, Left(x, 2)[j]), 0>> >>]
<1>1. n \in Nat
  BY DEF Stringy
<1>2. OpenSSL_Hash(s) = Words(s) \o Rest(s) /\ OpenSSL_Hash(t) = Words(t) \o Rest(t)
  BY DEF OpenSSL_Hash
<1>3. ASSUME NEW x, Stringy(x), x.length = n
      PROVE  /\ Words(x) \in Seq(V) /\ Len(Words(x)) = n \div 2
             /\ Rest(x) \in Seq(V)
             /\ \A i \in 1 .. n \div 2 : Words(x)[i][2] = Load(x, (i - 1) * 2, 2)
             /\ \A j \in 1 .. n % 2 : Rest(x)[j][2][1] = Byte(x, n - 1)
  <2>1. \A i \in 1 .. n \div 2 : Groups(x, 2)[i] = (i - 1) * 2 /\ (i - 1) * 2 \in Nat
    BY <1>1, <1>3 DEF Groups
  <2>2. \A j \in 1 .. n % 2 : Left(x, 2)[j] = n - 1 /\ n - 1 \in Nat
    BY <1>1, <1>3 DEF Left
  <2>3. \A i \in 1 .. n \div 2 : Load(x, (i - 1) * 2, 2) \in Seq(Bytes)
    <3> TAKE i \in 1 .. n \div 2
    <3>1. PICK at \in Int : at = (i - 1) * 2
      BY <2>1
    <3>2. Load(x, at, 2) \in Seq(Bytes)
      BY ONLY <1>3, <3>1, 2 \in Nat, LoadIn
    <3> QED BY <3>1, <3>2
  <2>4. \A i \in 1 .. n \div 2 : Words(x)[i] \in V /\ Words(x)[i][2] = Load(x, (i - 1) * 2, 2)
    <3> TAKE i \in 1 .. n \div 2
    <3>1. Words(x)[i] = << (i - 1) % 16, Load(x, (i - 1) * 2, 2) >>
      BY <2>1
    <3>2. (i - 1) % 16 \in 0 .. 15
      BY <1>1
    <3> QED BY <2>3, <3>1, <3>2
  <2>5. \A j \in 1 .. n % 2 : Rest(x)[j] \in V /\ Rest(x)[j][2][1] = Byte(x, n - 1)
    <3> TAKE j \in 1 .. n % 2
    <3>0. n - 1 \in Int /\ (n \div 2) % 16 \in 0 .. 15
      BY <1>1
    <3>1. Byte(x, n - 1) \in Bytes /\ 0 \in Bytes
      BY <1>3, <3>0 DEF Stringy, Bytes
    <3>2. <<Byte(x, n - 1), 0>> \in Seq(Bytes)
      BY <3>1
    <3>3. Rest(x)[j] = << (n \div 2) % 16, <<Byte(x, n - 1), 0>> >>
      BY <2>2
    <3>4. Rest(x)[j] \in V
      BY <3>0, <3>2, <3>3
    <3>5. Rest(x)[j][2][1] = Byte(x, n - 1)
      BY <3>3
    <3> QED BY <3>4, <3>5
  <2>6. n \div 2 \in Nat /\ n % 2 \in Nat
    BY <1>1
  <2>7. Words(x) \in [1 .. n \div 2 -> V] /\ Rest(x) \in [1 .. n % 2 -> V]
    <3> HIDE DEF V
    <3> QED BY <2>4, <2>5
  <2> HIDE DEF Words, Rest, V
  <2>8. PICK l \in Nat, r \in Nat : l = n \div 2 /\ r = n % 2
    BY <2>6
  <2> HIDE DEF n
  <2>9. /\ Words(x) \in Seq(V) /\ Len(Words(x)) = n \div 2
        /\ Rest(x) \in Seq(V)
    BY ONLY <2>7, <2>8
  <2> QED BY ONLY <2>4, <2>5, <2>9
<1> HIDE DEF Words, Rest, V
<1>4. Words(s) = Words(t) /\ Rest(s) = Rest(t)
  <2>1. /\ Words(s) \in Seq(V) /\ Rest(s) \in Seq(V) /\ Words(t) \in Seq(V) /\ Rest(t) \in Seq(V)
        /\ Len(Words(s)) = Len(Words(t)) /\ Words(s) \o Rest(s) = Words(t) \o Rest(t)
    BY <1>2, <1>3
  <2> DEFINE a == Words(s)
             b == Rest(s)
             c == Words(t)
             d == Rest(t)
  <2> HIDE DEF a, b, c, d
  <2>2. /\ a \in Seq(V) /\ b \in Seq(V) /\ c \in Seq(V) /\ d \in Seq(V)
        /\ Len(a) = Len(c) /\ a \o b = c \o d
    BY <2>1 DEF a, b, c, d
  <2>3. a = c /\ b = d
    BY ONLY <2>2, Halves
  <2> QED BY <2>3 DEF a, b, c, d
<1> SUFFICES ASSUME NEW r \in 0 .. n - 1
             PROVE  Byte(s, r) = Byte(t, r)
  BY DEF Alike
<1>5. CASE r < 2 * (n \div 2)
  <2>1. PICK i \in 1 .. n \div 2, k \in 1 .. 2 : (i - 1) * 2 + k - 1 = r
    <3>1. r \div 2 + 1 \in 1 .. n \div 2 /\ (r % 2) + 1 \in 1 .. 2
          /\ (r \div 2 + 1 - 1) * 2 + ((r % 2) + 1) - 1 = r
      BY <1>1, <1>5
    <3> QED BY <3>1
  <2>2. Load(s, (i - 1) * 2, 2) = Load(t, (i - 1) * 2, 2)
    BY <1>3, <1>4
  <2>3. PICK at \in Int : at = (i - 1) * 2
    BY <2>1
  <2>4. Load(s, at, 2)[k] = Byte(s, at + k - 1) /\ Load(t, at, 2)[k] = Byte(t, at + k - 1)
    BY LoadTyped
  <2> QED BY <2>1, <2>2, <2>3, <2>4
<1>6. CASE ~(r < 2 * (n \div 2))
  <2>1. 1 \in 1 .. n % 2 /\ r = n - 1
    BY <1>1, <1>6
  <2> QED BY <1>3, <1>4, <2>1
<1> QED BY <1>5, <1>6

\* The bytes of APHash, four written out and then the rest.
APSteps == {"even", "odd"} \X Bytes
APFours(s) ==
  [g \in 1 .. s.length \div 4 |->
     LET i == Groups(s, 4)[g]
     IN  << <<"even", Byte(s, i)>>, <<"odd", Byte(s, i + 1)>>,
            <<"even", Byte(s, i + 2)>>, <<"odd", Byte(s, i + 3)>> >>]
APRest(s) ==
  [j \in 1 .. s.length % 4 |->
     << IF (j - 1) % 2 = 0 THEN "even" ELSE "odd", Byte(s, Left(s, 4)[j]) >>]

\* APHash's steps: first those of the groups of four, then the rest.
LEMMA APIs ==
  ASSUME NEW s, Stringy(s)
  PROVE  LET n == s.length
             m == n \div 4
         IN  /\ m \in Nat
             /\ APFours(s) \in Rows(APSteps, m, 4)
             /\ \A g \in 1 .. m, j \in 1 .. 4 :
                  APFours(s)[g][j] = << IF j % 2 = 1 THEN "even" ELSE "odd",
                                       Byte(s, (g - 1) * 4 + j - 1) >>
             /\ APRest(s) \in Seq(APSteps) /\ Len(APRest(s)) = n % 4
             /\ \A j \in 1 .. n % 4 :
                  APRest(s)[j] = << IF j % 2 = 1 THEN "even" ELSE "odd",
                                   Byte(s, 4 * m + j - 1) >>
             /\ APHash(s) = Laid(APFours(s), m, 4) \o APRest(s)
<1> DEFINE n == s.length
           m == n \div 4
<1>1. n \in Nat /\ m \in Nat /\ n % 4 \in 0 .. 3 /\ n = 4 * m + (n % 4)
  BY DEF Stringy
<1>2. \A i \in Int : Byte(s, i) \in Bytes
  BY DEF Stringy, Bytes
<1>3. \A g \in 1 .. m : Groups(s, 4)[g] = (g - 1) * 4
  BY DEF Groups
<1>4. \A j \in 1 .. n % 4 : Left(s, 4)[j] = 4 * m + j - 1
  BY <1>1 DEF Left
<1> HIDE DEF n, m
<1>5. ASSUME NEW g \in 1 .. m
      PROVE  /\ APFours(s)[g] \in Seq(APSteps) /\ Len(APFours(s)[g]) = 4
             /\ \A j \in 1 .. 4 :
                  APFours(s)[g][j] = << IF j % 2 = 1 THEN "even" ELSE "odd",
                                       Byte(s, (g - 1) * 4 + j - 1) >>
  <2> DEFINE i == (g - 1) * 4
  <2>1. APFours(s)[g] = << <<"even", Byte(s, i)>>, <<"odd", Byte(s, i + 1)>>,
                           <<"even", Byte(s, i + 2)>>, <<"odd", Byte(s, i + 3)>> >>
    BY <1>3 DEF APFours, n, m
  <2>2. i \in Int
    OBVIOUS
  <2> HIDE DEF i
  <2>3. /\ <<"even", Byte(s, i)>> \in APSteps /\ <<"odd", Byte(s, i + 1)>> \in APSteps
        /\ <<"even", Byte(s, i + 2)>> \in APSteps /\ <<"odd", Byte(s, i + 3)>> \in APSteps
    BY <1>2, <2>2 DEF APSteps
  <2>4. ASSUME NEW j \in 1 .. 4
        PROVE  APFours(s)[g][j] = << IF j % 2 = 1 THEN "even" ELSE "odd", Byte(s, i + j - 1) >>
    <3>1. j = 1 \/ j = 2 \/ j = 3 \/ j = 4
      OBVIOUS
    <3>2. i + 1 - 1 = i /\ i + 2 - 1 = i + 1 /\ i + 3 - 1 = i + 2 /\ i + 4 - 1 = i + 3
      BY <2>2
    <3> QED BY <2>1, <3>1, <3>2
  <2> QED BY <2>1, <2>3, <2>4 DEF i
<1>6. APFours(s) \in Rows(APSteps, m, 4)
  <2>1. APFours(s) = [g \in 1 .. m |-> APFours(s)[g]]
    BY DEF APFours, n, m
  <2> QED BY <1>5, <2>1 DEF Rows
<1>7. ASSUME NEW j \in 1 .. n % 4
      PROVE  /\ APRest(s)[j] \in APSteps
             /\ APRest(s)[j] = << IF j % 2 = 1 THEN "even" ELSE "odd", Byte(s, 4 * m + j - 1) >>
  <2>1. APRest(s)[j] = << IF (j - 1) % 2 = 0 THEN "even" ELSE "odd", Byte(s, Left(s, 4)[j]) >>
    BY DEF APRest, n
  <2>2. (j - 1) % 2 = 0 <=> j % 2 = 1
    OBVIOUS
  <2>3. Byte(s, 4 * m + j - 1) \in Bytes
    BY <1>1, <1>2
  <2> QED BY <1>4, <2>1, <2>2, <2>3 DEF APSteps
<1>8. APRest(s) \in Seq(APSteps) /\ Len(APRest(s)) = n % 4
  <2>1. APRest(s) = [j \in 1 .. n % 4 |-> APRest(s)[j]]
    BY DEF APRest, n
  <2>2. APRest(s) \in [1 .. n % 4 -> APSteps]
    BY <1>7, <2>1
  <2> QED BY <1>1, <2>2
<1>9. APHash(s) = Laid(APFours(s), m, 4) \o APRest(s)
  <2>1. APHash(s) = FlattenSeq(APFours(s)) \o APRest(s)
    BY DEF APHash, APFours, APRest
  <2>2. FlattenSeq(APFours(s)) = Laid(APFours(s), m, 4)
    BY <1>1, <1>6, FlattenedIs
  <2> QED BY <2>1, <2>2
<1> QED BY <1>1, <1>5, <1>6, <1>7, <1>8, <1>9 DEF m, n

\* The step of each character.
LEMMA APAt ==
  ASSUME NEW s, Stringy(s)
  PROVE  /\ APHash(s) \in Seq(APSteps) /\ Len(APHash(s)) = s.length
         /\ \A i \in 1 .. s.length :
              APHash(s)[i] = << IF i % 2 = 1 THEN "even" ELSE "odd", Byte(s, i - 1) >>
<1> DEFINE n == s.length
           m == n \div 4
           a == Laid(APFours(s), m, 4)
           b == APRest(s)
<1>1. n \in Nat /\ m \in Nat /\ n % 4 \in 0 .. 3 /\ n = 4 * m + (n % 4)
  BY DEF Stringy
<1>2. /\ APFours(s) \in Rows(APSteps, m, 4)
      /\ \A g \in 1 .. m, j \in 1 .. 4 :
           APFours(s)[g][j] = << IF j % 2 = 1 THEN "even" ELSE "odd",
                                Byte(s, (g - 1) * 4 + j - 1) >>
      /\ b \in Seq(APSteps) /\ Len(b) = n % 4
      /\ \A j \in 1 .. n % 4 :
           b[j] = << IF j % 2 = 1 THEN "even" ELSE "odd", Byte(s, 4 * m + j - 1) >>
      /\ APHash(s) = a \o b
  BY APIs
<1>3. a \in Seq(APSteps) /\ Len(a) = 4 * m
  <2> HIDE DEF m
  <2>1. m \in 0 .. m
    BY <1>1
  <2> QED BY <1>1, <1>2, <2>1, LaidTyped
<1>4. \A p \in 1 .. 4 * m :
        a[p] = APFours(s)[(p - 1) \div 4 + 1][((p - 1) % 4) + 1]
  BY DEF Laid
<1> HIDE DEF a, b, m, n
<1>5. /\ a \o b \in Seq(APSteps) /\ Len(a \o b) = n
      /\ \A i \in 1 .. n : (a \o b)[i] = IF i <= 4 * m THEN a[i] ELSE b[i - 4 * m]
  <2>1. /\ a \o b \in Seq(APSteps) /\ Len(a \o b) = Len(a) + Len(b)
        /\ \A i \in 1 .. Len(a) + Len(b) :
             (a \o b)[i] = IF i <= Len(a) THEN a[i] ELSE b[i - Len(a)]
    BY <1>2, <1>3, ConcatProperties
  <2>2. Len(a) + Len(b) = n
    BY <1>1, <1>2, <1>3
  <2> QED BY <1>3, <2>1, <2>2
<1>6. ASSUME NEW i \in 1 .. n
      PROVE  (a \o b)[i] = << IF i % 2 = 1 THEN "even" ELSE "odd", Byte(s, i - 1) >>
  <2>1. CASE i <= 4 * m
    <3> DEFINE g == (i - 1) \div 4 + 1
               j == ((i - 1) % 4) + 1
    <3>1. /\ g \in 1 .. m /\ j \in 1 .. 4 /\ (g - 1) * 4 + j - 1 = i - 1
          /\ (j % 2 = 1 <=> i % 2 = 1) /\ i \in 1 .. 4 * m
      BY <1>1, <2>1
    <3>2. a[i] = APFours(s)[g][j]
      BY <1>4, <3>1
    <3> HIDE DEF g, j
    <3>3. a[i] = << IF j % 2 = 1 THEN "even" ELSE "odd", Byte(s, i - 1) >>
      BY <1>2, <3>1, <3>2
    <3> QED BY <1>5, <2>1, <3>1, <3>3
  <2>2. CASE ~(i <= 4 * m)
    <3>1. PICK j \in 1 .. n % 4 : j = i - 4 * m
      BY <1>1, <2>2
    <3>2. 4 * m + j - 1 = i - 1 /\ (j % 2 = 1 <=> i % 2 = 1)
      BY <1>1, <3>1
    <3>3. b[j] = << IF j % 2 = 1 THEN "even" ELSE "odd", Byte(s, i - 1) >>
      BY <1>2, <3>2
    <3> QED BY <1>5, <2>2, <3>1, <3>2, <3>3
  <2> QED BY <2>1, <2>2
<1> QED BY <1>2, <1>5, <1>6 DEF n

\* APHash sees every character.
LEMMA APCounts ==
  ASSUME NEW s, NEW t, Stringy(s), Stringy(t), s.length = t.length,
         APHash(s) = APHash(t)
  PROVE  Alike(s, t, s.length)
<1> SUFFICES ASSUME NEW r \in 0 .. s.length - 1
             PROVE  Byte(s, r) = Byte(t, r)
  BY DEF Alike
<1>1. PICK i \in 1 .. s.length : i - 1 = r
  <2>1. r + 1 \in 1 .. s.length /\ (r + 1) - 1 = r
    BY DEF Stringy
  <2> QED BY <2>1
<1>2. APHash(s)[i] = << IF i % 2 = 1 THEN "even" ELSE "odd", Byte(s, i - 1) >>
  BY APAt
<1>3. APHash(t)[i] = << IF i % 2 = 1 THEN "even" ELSE "odd", Byte(t, i - 1) >>
  BY APAt
<1> QED BY <1>1, <1>2, <1>3

\* Whole words, and what is left over as a last one: a hash that is told both
\* is told every character.
LEMMA PlaceBelow ==
  ASSUME NEW k \in {4, 8}, NEW n \in Nat, NEW r \in 0 .. n - 1
  PROVE  \/ \E g \in 1 .. n \div k, j \in 1 .. k : (g - 1) * k + j - 1 = r
         \/ \E j \in 1 .. n % k : n - (n % k) + j - 1 = r
<1> SUFFICES ASSUME ~(r >= n - (n % k))
             PROVE  \E g \in 1 .. n \div k, j \in 1 .. k : (g - 1) * k + j - 1 = r
  <2>1. r >= n - (n % k) =>
          /\ r - (n - (n % k)) + 1 \in 1 .. n % k
          /\ n - (n % k) + (r - (n - (n % k)) + 1) - 1 = r
    OBVIOUS
  <2> QED BY <2>1
<1>1. CASE k = 4
  <2>1. /\ r \div 4 + 1 \in 1 .. n \div 4 /\ (r % 4) + 1 \in 1 .. 4
        /\ (r \div 4 + 1 - 1) * 4 + ((r % 4) + 1) - 1 = r
    BY <1>1
  <2> SUFFICES \E g \in 1 .. n \div 4, j \in 1 .. 4 : (g - 1) * 4 + j - 1 = r
    BY <1>1
  <2> WITNESS r \div 4 + 1 \in 1 .. n \div 4, (r % 4) + 1 \in 1 .. 4
  <2> QED BY <2>1
<1>2. CASE k = 8
  <2> DEFINE g == r \div 8 + 1
             j == (r % 8) + 1
  <2>1. g \in 1 .. n \div 8
    <3>1. r < 8 * (n \div 8)
      BY <1>2
    <3>2. r = 8 * (r \div 8) + (r % 8) /\ r % 8 \in 0 .. 7
      OBVIOUS
    <3>3. r \in Nat /\ n \div 8 \in Int /\ r \div 8 \in Nat
      OBVIOUS
    <3> QED BY <3>1, <3>2, <3>3
  <2>2. j \in 1 .. 8 /\ (g - 1) * 8 + j - 1 = r
    OBVIOUS
  <2> HIDE DEF g, j
  <2>3. \E a \in 1 .. n \div 8, b \in 1 .. 8 : (a - 1) * 8 + b - 1 = r
    BY ONLY <2>1, <2>2, Zenon
  <2> QED BY ONLY <2>3, <1>2, Zenon
<1> QED BY <1>1, <1>2

\* The same words and the same rest are the same characters.
LEMMA WordsCount ==
  ASSUME NEW s, NEW t, Stringy(s), Stringy(t), s.length = t.length, NEW k \in {4, 8},
         \A g \in 1 .. s.length \div k : Load(s, (g - 1) * k, k) = Load(t, (g - 1) * k, k),
         NEW i, i = s.length - (s.length % k),
         \A j \in 1 .. s.length % k : Byte(s, i + j - 1) = Byte(t, i + j - 1)
  PROVE  Alike(s, t, s.length)
<1> DEFINE n == s.length
<1> SUFFICES ASSUME NEW r \in 0 .. n - 1
             PROVE  Byte(s, r) = Byte(t, r)
  BY DEF Alike
<1>1. \/ \E g \in 1 .. n \div k, j \in 1 .. k : (g - 1) * k + j - 1 = r
      \/ \E j \in 1 .. n % k : n - (n % k) + j - 1 = r
  <2>1. n \in Nat
    BY DEF Stringy
  <2> QED BY <2>1, PlaceBelow
<1>2. ASSUME NEW g \in 1 .. n \div k, NEW j \in 1 .. k, (g - 1) * k + j - 1 = r
      PROVE  Byte(s, r) = Byte(t, r)
  <2>1. Load(s, (g - 1) * k, k) = Load(t, (g - 1) * k, k)
    OBVIOUS
  <2>2. \A x : Load(x, (g - 1) * k, k)[j] = Byte(x, r)
    BY <1>2 DEF Load
  <2> QED BY <2>1, <2>2
<1> QED BY <1>1, <1>2

\* RocksDB's hash is told every character.
LEMMA RocksCounts ==
  ASSUME NEW s, NEW t, Stringy(s), Stringy(t), s.length = t.length,
         RocksHash(s) = RocksHash(t)
  PROVE  Alike(s, t, s.length)
<1> DEFINE n == s.length
           i == n - (n % 4)
           Words(x) == [g \in 1 .. n \div 4 |-> Load(x, Groups(x, 4)[g], 4)]
           Rest(x) == IF n % 4 = 0 THEN <<>> ELSE << Load(x, i, n % 4) >>
           V == Seq(Bytes)
<1>1. n \in Nat
  BY DEF Stringy
<1>2. Words(s) \o Rest(s) = Words(t) \o Rest(t)
  BY DEF RocksHash, Mixed
<1>3. ASSUME NEW x, Stringy(x), x.length = n
      PROVE  /\ Words(x) \in Seq(V) /\ Len(Words(x)) = n \div 4
             /\ \A g \in 1 .. n \div 4 : Words(x)[g] = Load(x, (g - 1) * 4, 4)
             /\ Rest(x) \in Seq(V)
             /\ n % 4 # 0 => Rest(x)[1] = Load(x, i, n % 4)
  <2>1. \A g \in 1 .. n \div 4 : Groups(x, 4)[g] = (g - 1) * 4
    BY <1>3 DEF Groups
  <2>2. \A g \in 1 .. n \div 4 : Load(x, (g - 1) * 4, 4) \in V
    <3> TAKE g \in 1 .. n \div 4
    <3>1. PICK at \in Int : at = (g - 1) * 4
      OBVIOUS
    <3>2. Load(x, at, 4) \in Seq(Bytes)
      BY ONLY <1>3, <3>1, 4 \in Nat, LoadIn
    <3> QED BY <3>1, <3>2
  <2>3. Load(x, i, n % 4) \in V
    <3>1. i \in Int /\ n % 4 \in Nat
      BY <1>1
    <3> HIDE DEF i
    <3>2. PICK l \in Nat : l = n % 4
      BY <3>1
    <3>3. Load(x, i, l) \in Seq(Bytes)
      BY ONLY <1>3, <3>1, <3>2, LoadIn
    <3> QED BY <3>2, <3>3
  <2>4. \A g \in 1 .. n \div 4 : Words(x)[g] = Load(x, (g - 1) * 4, 4)
    BY <2>1
  <2> HIDE DEF V, i
  <2>5. n \div 4 \in Nat /\ Words(x) \in [1 .. n \div 4 -> V]
    BY <1>1, <2>1, <2>2
  <2>6. Rest(x) \in Seq(V) /\ (n % 4 # 0 => Rest(x)[1] = Load(x, i, n % 4))
    BY <2>3
  <2> HIDE DEF Words, Rest
  <2> QED BY <2>4, <2>5, <2>6
<1> HIDE DEF Words, Rest, V
<1>4. Words(s) = Words(t) /\ Rest(s) = Rest(t)
  <2> DEFINE a == Words(s)
             b == Rest(s)
             c == Words(t)
             d == Rest(t)
  <2>1. /\ a \in Seq(V) /\ b \in Seq(V) /\ c \in Seq(V) /\ d \in Seq(V)
        /\ Len(a) = Len(c) /\ a \o b = c \o d
    BY <1>2, <1>3
  <2> HIDE DEF a, b, c, d
  <2>2. a = c /\ b = d
    BY ONLY <2>1, Halves
  <2> QED BY <2>2 DEF a, b, c, d
<1>5. \A g \in 1 .. n \div 4 : Load(s, (g - 1) * 4, 4) = Load(t, (g - 1) * 4, 4)
  BY <1>3, <1>4
<1>6. n % 4 # 0 => Load(s, i, n % 4) = Load(t, i, n % 4)
  BY <1>3, <1>4
<1>7. \A j \in 1 .. n % 4 : Byte(s, i + j - 1) = Byte(t, i + j - 1)
  <2> TAKE j \in 1 .. n % 4
  <2> HIDE DEF i
  <2>1. \A x : Load(x, i, n % 4)[j] = Byte(x, i + j - 1)
    BY DEF Load
  <2>2. n % 4 # 0
    OBVIOUS
  <2> QED BY <1>6, <2>1, <2>2
<1>8. i = s.length - (s.length % 4)
  OBVIOUS
<1> HIDE DEF i
<1> QED BY <1>5, <1>7, <1>8, WordsCount

\* The primary hash is told every character.
LEMMA AlignedCounts ==
  ASSUME NEW s, NEW t, Stringy(s), Stringy(t), s.length = t.length, NEW k \in {4, 8},
         primaryHash_aligned(s, k) = primaryHash_aligned(t, k)
  PROVE  Alike(s, t, s.length)
<1> DEFINE n == s.length
           i == n - (n % k)
           Words(x) == [g \in 1 .. n \div k |-> Load(x, (g - 1) * k, k)]
           Rear(x) == Cut(Load(x, i, k), n % k)
           Rest(x) == IF n % k = 0 THEN <<>> ELSE << Rear(x) >>
           V == Seq(Bytes)
<1>1. n \in Nat /\ n \div k \in Nat /\ n % k \in 0 .. k - 1 /\ n = (n \div k) * k + (n % k)
  BY DEF Stringy
<1>2. ASSUME NEW x, x.length = n
      PROVE  primaryHash_aligned(x, k) = [length |-> n, words |-> Words(x) \o Rest(x)]
  <2> DEFINE word == [l \in WordStarts(x, k) |-> Load(x, l, k)]
  <2>1. \A g \in 1 .. n \div k : Groups(x, k)[g] = (g - 1) * k /\ (g - 1) * k \in WordStarts(x, k)
    <3>1. CASE k = 4
      BY <1>1, <1>2, <3>1 DEF Groups, WordStarts
    <3>2. CASE k = 8
      BY <1>1, <1>2, <3>2 DEF Groups, WordStarts
    <3> QED BY <3>1, <3>2
  <2>2. n % k # 0 => i \in WordStarts(x, k)
    <3>1. CASE k = 4
      <4>1. n % 4 # 0 => n - (n % 4) \in 0 .. n - 1 /\ (n - (n % 4)) % 4 = 0
        <5> HIDE DEF n
        <5> QED BY ONLY <1>1
      <4> QED BY <1>2, <3>1, <4>1 DEF WordStarts
    <3>2. CASE k = 8
      <4>1. n % 8 # 0 => n - (n % 8) \in 0 .. n - 1 /\ (n - (n % 8)) % 8 = 0
        <5> HIDE DEF n
        <5> QED BY ONLY <1>1
      <4> QED BY <1>2, <3>2, <4>1 DEF WordStarts
    <3> QED BY <3>1, <3>2
  <2>3. \A l \in WordStarts(x, k) : word[l] = Load(x, l, k)
    OBVIOUS
  <2> HIDE DEF word, i
  <2>4. \A g \in 1 .. n \div k : word[Groups(x, k)[g]] = Load(x, (g - 1) * k, k)
    BY <2>1, <2>3
  <2>5. n % k # 0 => word[i] = Load(x, i, k)
    BY <2>2, <2>3
  <2>6. primaryHash_aligned(x, k) = Mixed(x, WordsOf(x, k, word))
    BY DEF primaryHash_aligned, word
  <2>7. WordsOf(x, k, word) = Words(x) \o Rest(x)
    BY <1>2, <2>4, <2>5 DEF WordsOf, i
  <2> QED BY <1>2, <2>6, <2>7 DEF Mixed
<1>3. Words(s) \o Rest(s) = Words(t) \o Rest(t)
  <2> HIDE DEF Words, Rest
  <2>1. primaryHash_aligned(s, k) = [length |-> n, words |-> Words(s) \o Rest(s)]
    BY <1>2
  <2>2. primaryHash_aligned(t, k) = [length |-> n, words |-> Words(t) \o Rest(t)]
    BY <1>2
  <2> DEFINE p == Words(s) \o Rest(s)
             q == Words(t) \o Rest(t)
  <2> HIDE DEF p, q
  <2>3. [length |-> n, words |-> p] = [length |-> n, words |-> q]
    BY <2>1, <2>2 DEF p, q
  <2>4. p = q
    BY ONLY <2>3
  <2> QED BY <2>4 DEF p, q
<1>4. ASSUME NEW x, Stringy(x), x.length = n
      PROVE  /\ Words(x) \in Seq(V) /\ Len(Words(x)) = n \div k
             /\ Rest(x) \in Seq(V)
             /\ n % k # 0 => Rest(x)[1] = Rear(x)
             /\ n % k # 0 => \A j \in 1 .. n % k : Rear(x)[j] = Byte(x, i + j - 1)
  <2>1. i \in Int
    BY <1>1
  <2> HIDE DEF i, V
  <2>2. \A g \in 1 .. n \div k : Load(x, (g - 1) * k, k) \in V
    <3> TAKE g \in 1 .. n \div k
    <3>1. PICK at \in Int : at = (g - 1) * k
      OBVIOUS
    <3>2. k \in Nat
      OBVIOUS
    <3>3. Load(x, at, k) \in Seq(Bytes)
      BY ONLY <1>4, <3>1, <3>2, LoadIn
    <3> QED BY <3>1, <3>3 DEF V
  <2>3. Load(x, i, k) \in [1 .. k -> Bytes]
    BY <1>4, <2>1, LoadTyped
  <2>4. Rear(x) \in [1 .. k -> Bytes]
    BY <2>3 DEF Cut, Bytes
  <2>5. Rear(x) \in V
    <3> HIDE DEF Rear
    <3> QED BY <2>4 DEF V
  <2>6. ASSUME n % k # 0, NEW j \in 1 .. n % k
        PROVE  Rear(x)[j] = Byte(x, i + j - 1)
    <3>1. j \in 1 .. k /\ j <= n % k
      BY <1>1
    <3>2. Load(x, i, k)[j] = Byte(x, i + j - 1)
      BY <3>1 DEF Load
    <3> QED BY <2>3, <3>1, <3>2 DEF Cut
  <2> HIDE DEF Rear
  <2>7. /\ Words(x) \in [1 .. n \div k -> V]
        /\ Words(x) \in Seq(V) /\ Len(Words(x)) = n \div k
    <3>1. Words(x) \in [1 .. n \div k -> V]
      BY <2>2
    <3> HIDE DEF Words, n
    <3> QED BY <1>1, <3>1
  <2>8. Rest(x) \in Seq(V) /\ (n % k # 0 => Rest(x)[1] = Rear(x))
    BY <2>5
  <2> HIDE DEF Words, Rest
  <2> QED BY <1>1, <2>6, <2>7, <2>8
<1>5. Words(s) = Words(t) /\ Rest(s) = Rest(t)
  <2> HIDE DEF Words, Rest, V, Rear
  <2> DEFINE a == Words(s)
             b == Rest(s)
             c == Words(t)
             d == Rest(t)
  <2>1. /\ a \in Seq(V) /\ b \in Seq(V) /\ c \in Seq(V) /\ d \in Seq(V)
        /\ Len(a) = Len(c) /\ a \o b = c \o d
    BY <1>3, <1>4
  <2> HIDE DEF a, b, c, d
  <2>2. a = c /\ b = d
    BY ONLY <2>1, Halves
  <2> QED BY <2>2 DEF a, b, c, d
<1>6. \A g \in 1 .. n \div k : Load(s, (g - 1) * k, k) = Load(t, (g - 1) * k, k)
  <2> TAKE g \in 1 .. n \div k
  <2>1. \A x : Words(x)[g] = Load(x, (g - 1) * k, k)
    OBVIOUS
  <2> HIDE DEF Words
  <2> QED BY <1>5, <2>1
<1> HIDE DEF Words, Rest, Rear, V
<1>7. n % k # 0 => Rear(s) = Rear(t)
  BY <1>4, <1>5
<1>8. \A j \in 1 .. n % k : Byte(s, i + j - 1) = Byte(t, i + j - 1)
  <2> TAKE j \in 1 .. n % k
  <2>1. n % k # 0
    BY <1>1
  <2>2. Rear(s)[j] = Byte(s, i + j - 1)
    BY <1>4, <2>1
  <2>3. Rear(t)[j] = Byte(t, i + j - 1)
    BY <1>4, <2>1
  <2> QED BY <1>7, <2>1, <2>2, <2>3
<1>9. i = s.length - (s.length % k)
  OBVIOUS
<1> HIDE DEF i
<1> QED BY <1>6, <1>8, <1>9, WordsCount

\* Every character of two strings counts.
LEMMA StringyCounted == BothStringy => EveryByteCounts
<1> SUFFICES ASSUME BothStringy, OneLength, ~SameContent PROVE EveryByteCounts
  BY DEF EveryByteCounts
<1>1. Stringy(left) /\ Stringy(right) /\ left.length = right.length
  BY DEF BothStringy, OneLength
<1>2. ~Alike(left, right, left.length)
  BY <1>1, ContentAlike DEF SameContent
<1>3. crc32c_x86(left) # crc32c_x86(right)
  BY <1>1, <1>2, MaskedCounts DEF crc32c_x86
<1>4. crc32c_x64(left) # crc32c_x64(right)
  BY <1>1, <1>2, MaskedCounts DEF crc32c_x64
<1>5. sha1_msg2(left) # sha1_msg2(right)
  BY <1>1, <1>2, LanesCount
<1>6. sha1_x86(left) # sha1_x86(right)
  BY <1>1, <1>2, MessagesCount
<1>7. OpenSSL_Hash(left) # OpenSSL_Hash(right)
  BY <1>1, <1>2, OpenSSLCounts
<1>8. APHash(left) # APHash(right)
  BY <1>1, <1>2, APCounts
<1>9. RocksHash(left) # RocksHash(right)
  BY <1>1, <1>2, RocksCounts
<1>10. ASSUME NEW N \in WordSizes
       PROVE  primaryHash(left, N, TRUE) # primaryHash(right, N, TRUE)
  <2>1. N \in {4, 8}
    BY StringPairAssumption
  <2>2. \A x : primaryHash(x, N, TRUE) = primaryHash_aligned(x, N)
    BY DEF primaryHash
  <2> QED BY <1>1, <1>2, <2>1, <2>2, AlignedCounts
<1> QED BY <1>3, <1>4, <1>5, <1>6, <1>7, <1>8, <1>9, <1>10 DEF EveryByteCounts

-----------------------------------------------------------------------------
(* The remainders that hash codes are                                      *)

\* Division with remainder.
LEMMA Divided ==
  ASSUME NEW m \in Nat \ {0}, NEW a \in Nat
  PROVE  a \div m \in Nat /\ a % m \in 0 .. m - 1 /\ a = m * (a \div m) + (a % m)
OBVIOUS

\* There is one remainder.
LEMMA OneRemainder ==
  ASSUME NEW m \in Nat \ {0}, NEW q \in Int, NEW r \in 0 .. m - 1,
         NEW p \in Int, NEW s \in 0 .. m - 1, m * q + r = m * p + s
  PROVE  r = s
<1>1. m * (q - p) = s - r
  OBVIOUS
<1>2. q - p >= 1 => m * (q - p) >= m
  OBVIOUS
<1>3. q - p <= -1 => m * (q - p) <= -m
  OBVIOUS
<1>4. q - p = 0 => m * (q - p) = 0
  OBVIOUS
<1> QED BY <1>1, <1>2, <1>3, <1>4

\* x and y are the same modulo m.
Congruent(x, y, m) == \E k \in Int : x = y + m * k

\* Then they leave the same remainder.
LEMMA SameRemainder ==
  ASSUME NEW m \in Nat \ {0}, NEW x \in Nat, NEW y \in Nat, Congruent(x, y, m)
  PROVE  x % m = y % m
<1>1. PICK k \in Int : x = y + m * k
  BY DEF Congruent
<1>2. x \div m \in Int /\ x % m \in 0 .. m - 1 /\ x = m * (x \div m) + (x % m)
  BY Divided
<1>3. y \div m \in Int /\ y % m \in 0 .. m - 1 /\ y = m * (y \div m) + (y % m)
  BY Divided
<1> DEFINE q == x \div m
           p == y \div m + k
           r == x % m
           s == y % m
<1>4. m * q + r = m * p + s
  BY <1>1, <1>2, <1>3
<1>5. q \in Int /\ p \in Int /\ r \in 0 .. m - 1 /\ s \in 0 .. m - 1
  BY <1>2, <1>3
<1> HIDE DEF q, p, r, s
<1>6. r = s
  BY ONLY m \in Nat \ {0}, <1>4, <1>5, OneRemainder
<1> QED BY <1>6 DEF r, s

\* A number and its remainder are the same.
LEMMA RemainderSame ==
  ASSUME NEW m \in Nat \ {0}, NEW x \in Nat
  PROVE  x % m \in Nat /\ x % m < m /\ Congruent(x % m, x, m)
<1>1. x \div m \in Int /\ x % m \in 0 .. m - 1 /\ x = m * (x \div m) + (x % m)
  BY Divided
<1> DEFINE q == x \div m
           r == x % m
<1> HIDE DEF q, r
<1>2. q \in Int /\ r \in 0 .. m - 1 /\ x = m * q + r
  BY <1>1 DEF q, r
<1>3. r = x + m * (-q) /\ -q \in Int
  BY <1>2
<1>4. Congruent(r, x, m)
  BY <1>3 DEF Congruent
<1> QED BY <1>2, <1>4 DEF r

\* Sums and products of what is the same are the same.
LEMMA SameSum ==
  ASSUME NEW m \in Nat, NEW x \in Nat, NEW y \in Nat, NEW u \in Nat, NEW v \in Nat,
         Congruent(x, y, m), Congruent(u, v, m)
  PROVE  Congruent(x + u, y + v, m)
<1>1. PICK k \in Int : x = y + m * k
  BY DEF Congruent
<1>2. PICK l \in Int : u = v + m * l
  BY DEF Congruent
<1>3. x + u = (y + v) + m * (k + l) /\ k + l \in Int
  BY <1>1, <1>2
<1> QED BY <1>3 DEF Congruent

LEMMA SameProduct ==
  ASSUME NEW m \in Nat, NEW x \in Nat, NEW y \in Nat, NEW u \in Nat, NEW v \in Nat,
         Congruent(x, y, m), Congruent(u, v, m)
  PROVE  Congruent(x * u, y * v, m)
<1>1. PICK k \in Int : x = y + m * k
  BY DEF Congruent
<1>2. PICK l \in Int : u = v + m * l
  BY DEF Congruent
<1> DEFINE j == y * l + k * v + m * (k * l)
<1>3. (y + m * k) * (v + m * l) = y * v + m * (y * l + k * v + m * (k * l))
  OBVIOUS
<1>4. x * u = y * v + m * j /\ j \in Int
  BY <1>1, <1>2, <1>3
<1> HIDE DEF j
<1> QED BY <1>4 DEF Congruent

\* Being the same is an equivalence.
LEMMA SameTransitive ==
  ASSUME NEW m \in Nat, NEW x \in Nat, NEW y \in Nat, NEW z \in Nat,
         Congruent(x, y, m), Congruent(y, z, m)
  PROVE  Congruent(x, z, m)
<1>1. PICK k \in Int : x = y + m * k
  BY DEF Congruent
<1>2. PICK l \in Int : y = z + m * l
  BY DEF Congruent
<1>3. x = z + m * (k + l) /\ k + l \in Int
  BY <1>1, <1>2
<1> QED BY <1>3 DEF Congruent

LEMMA SameSelf ==
  ASSUME NEW m \in Nat, NEW x \in Nat
  PROVE  Congruent(x, x, m)
<1>1. x = x + m * 0
  OBVIOUS
<1> QED BY <1>1 DEF Congruent

LEMMA SameBack ==
  ASSUME NEW m \in Nat, NEW x \in Nat, NEW y \in Nat, Congruent(x, y, m)
  PROVE  Congruent(y, x, m)
<1>1. PICK k \in Int : x = y + m * k
  BY DEF Congruent
<1>2. y = x + m * (-k) /\ -k \in Int
  BY <1>1
<1> QED BY <1>2 DEF Congruent

-----------------------------------------------------------------------------
(* Folds over sequences, step by step                                      *)

\* A fold of n steps over values of V, as FoldLeft computes it: what it gives
\* for a set of positions is the last step of what it gives without the last.
Stepping(step, n, V) == step \in [1 .. n -> [V -> V]]
Folding(g, n, V, base, step) ==
  /\ g \in [SUBSET (1 .. n) -> V]
  /\ \A T \in SUBSET (1 .. n) :
       g[T] = IF T = {} THEN base ELSE step[Max(T)][g[T \ {Max(T)}]]

\* There is such a function, so that the one FoldLeft chooses is one.
LEMMA FoldExists ==
  ASSUME NEW V, NEW base, base \in V, NEW n \in Nat, NEW step, Stepping(step, n, V)
  PROVE  \E g : Folding(g, n, V, base, step)
<1> USE DEF Stepping
<1> DEFINE Solves(g, m) ==
             /\ g \in [SUBSET (1 .. m) -> V]
             /\ \A T \in SUBSET (1 .. m) :
                  g[T] = IF T = {} THEN base ELSE step[Max(T)][g[T \ {Max(T)}]]
           Good == {m \in Nat : m <= n => \E g : Solves(g, m)}
<1>1. 0 \in Good
  <2>1. 1 .. 0 = {}
    OBVIOUS
  <2> DEFINE g == [T \in SUBSET (1 .. 0) |-> base]
  <2>2. Solves(g, 0)
    BY <2>1
  <2> QED BY <2>2
<1>2. ASSUME NEW m \in Nat, m \in Good
      PROVE  m + 1 \in Good
  <2> SUFFICES ASSUME m + 1 <= n
               PROVE  \E g : Solves(g, m + 1)
    <3> HIDE DEF Solves
    <3> QED OBVIOUS
  <2>1. PICK g : Solves(g, m)
    <3> HIDE DEF Solves
    <3> QED BY <1>2
  <2> DEFINE new == [T \in SUBSET (1 .. m + 1) |->
                       IF m + 1 \in T THEN step[m + 1][g[T \ {m + 1}]] ELSE g[T]]
  <2>2. \A T \in SUBSET (1 .. m + 1) :
          /\ T \ {m + 1} \in SUBSET (1 .. m)
          /\ m + 1 \notin T => T \in SUBSET (1 .. m)
          /\ m + 1 \in T => T # {} /\ Max(T) = m + 1
          /\ T # {} => Max(T) \in T
    <3> TAKE T \in SUBSET (1 .. m + 1)
    <3>1. m + 1 \in Nat
      OBVIOUS
    <3>2. T # {} => Max(T) \in T /\ \A y \in T : y <= Max(T)
      BY ONLY <3>1, T \in SUBSET (1 .. m + 1), GreatestOf
    <3>3. m + 1 \in T => Max(T) = m + 1
      <4> DEFINE M == Max(T)
      <4>1. m + 1 \in T => M \in T /\ m + 1 <= M
        BY <3>2
      <4> HIDE DEF M
      <4>2. m + 1 \in T => M \in 1 .. m + 1
        BY <4>1
      <4>3. m + 1 \in T => M = m + 1
        BY ONLY <4>1, <4>2, <3>1
      <4> QED BY <4>3 DEF M
    <3>4. T \ {m + 1} \in SUBSET (1 .. m) /\ (m + 1 \notin T => T \in SUBSET (1 .. m))
      OBVIOUS
    <3> QED BY <3>2, <3>3, <3>4
  <2>3. m + 1 \in 1 .. n
    OBVIOUS
  <2>4. new \in [SUBSET (1 .. m + 1) -> V]
    <3> SUFFICES ASSUME NEW T \in SUBSET (1 .. m + 1)
                 PROVE  (IF m + 1 \in T THEN step[m + 1][g[T \ {m + 1}]] ELSE g[T]) \in V
      OBVIOUS
    <3>1. g[T \ {m + 1}] \in V /\ (m + 1 \notin T => g[T] \in V)
      BY <2>1, <2>2
    <3>2. step[m + 1][g[T \ {m + 1}]] \in V
      BY <2>3, <3>1
    <3> QED BY <3>1, <3>2
  <2>5. ASSUME NEW T \in SUBSET (1 .. m + 1)
        PROVE  new[T] = IF T = {} THEN base ELSE step[Max(T)][new[T \ {Max(T)}]]
    <3>1. CASE m + 1 \in T
      <4>1. new[T] = step[m + 1][g[T \ {m + 1}]]
        BY <3>1
      <4>2. new[T \ {m + 1}] = g[T \ {m + 1}]
        OBVIOUS
      <4> HIDE DEF new
      <4> QED BY <2>2, <3>1, <4>1, <4>2
    <3>2. CASE m + 1 \notin T
      <4>1. new[T] = g[T]
        BY <3>2
      <4>2. T # {} => new[T \ {Max(T)}] = g[T \ {Max(T)}]
        BY <3>2
      <4>3. g[T] = IF T = {} THEN base ELSE step[Max(T)][g[T \ {Max(T)}]]
        BY <2>1, <2>2, <3>2
      <4> HIDE DEF new, Solves
      <4> QED BY <4>1, <4>2, <4>3
    <3> QED BY <3>1, <3>2
  <2> HIDE DEF new
  <2>6. Solves(new, m + 1)
    BY <2>4, <2>5
  <2> QED BY <2>6
<1> HIDE DEF Good
<1>3. Nat \subseteq Good
  BY <1>1, <1>2, SetInduction
<1>4. \E g : Solves(g, n)
  <2>1. n \in Good
    BY <1>3
  <2> HIDE DEF Solves
  <2> QED BY <2>1 DEF Good
<1> QED BY <1>4 DEF Folding

\* The steps one after the other.
Stepped(h, n, V, base, step) ==
  /\ h \in [0 .. n -> V]
  /\ h[0] = base
  /\ \A k \in 1 .. n : h[k] = step[k][h[k - 1]]
Folds(g, n, V, base, step) ==
  /\ g[{}] = base
  /\ \A k \in 1 .. n : g[1 .. k - 1] \in V => g[1 .. k] = step[k][g[1 .. k - 1]]

\* The fold is the last step.
LEMMA FoldWalks ==
  ASSUME NEW V, NEW n \in Nat, NEW base, NEW step, NEW g, NEW h,
         Stepped(h, n, V, base, step), Folds(g, n, V, base, step)
  PROVE  g[1 .. n] = h[n]
<1> USE DEF Stepped, Folds
<1> DEFINE Good == {k \in Nat : k <= n => g[1 .. k] = h[k]}
<1>1. 0 \in Good
  <2>1. 1 .. 0 = {}
    OBVIOUS
  <2> QED BY <2>1
<1>2. ASSUME NEW k \in Nat, k \in Good
      PROVE  k + 1 \in Good
  <2> SUFFICES ASSUME k + 1 <= n
               PROVE  g[1 .. k + 1] = h[k + 1]
    OBVIOUS
  <2>1. k + 1 \in 1 .. n /\ k \in 0 .. n /\ (k + 1) - 1 = k
    OBVIOUS
  <2>2. g[1 .. k] = h[k] /\ h[k] \in V
    BY <1>2, <2>1
  <2> QED BY <2>1, <2>2
<1> HIDE DEF Good
<1>3. Nat \subseteq Good
  BY <1>1, <1>2, SetInduction
<1> QED BY <1>3 DEF Good

\* The last of the first k positions.
LEMMA TopOf ==
  ASSUME NEW n \in Nat, NEW k \in 1 .. n
  PROVE  /\ 1 .. k \in SUBSET (1 .. n) /\ 1 .. k # {}
         /\ Max(1 .. k) = k
         /\ (1 .. k) \ {k} = 1 .. k - 1
<1>1. 1 .. k \in SUBSET (1 .. n) /\ k \in 1 .. k
  OBVIOUS
<1>2. Max(1 .. k) \in 1 .. k /\ \A y \in 1 .. k : y <= Max(1 .. k)
  BY <1>1, GreatestOf
<1>3. Max(1 .. k) = k
  BY <1>1, <1>2
<1> QED BY <1>1, <1>3

-----------------------------------------------------------------------------
(* The forms of a hash function that are written out for speed             *)

\* Hash codes are taken modulo a number that is not zero.
LEMMA ModTyped == Mod \in Nat \ {0}
BY PowersDouble, StringPairAssumption DEF Mod

\* One more byte.
Eat(hash, byte, seed) == (hash * seed + byte) % Mod

\* What a step gives, up to the remainder.
LEMMA EatTyped ==
  ASSUME NEW a \in Nat, NEW b \in Nat, NEW seed \in Nat
  PROVE  /\ a * seed + b \in Nat /\ Eat(a, b, seed) \in Nat
         /\ Congruent(Eat(a, b, seed), a * seed + b, Mod)
<1>1. PICK x \in Nat : x = a * seed + b
  OBVIOUS
<1>2. x % Mod \in Nat /\ Congruent(x % Mod, x, Mod)
  BY ModTyped, RemainderSame
<1> QED BY <1>1, <1>2 DEF Eat

\* A remainder taken before a step makes no difference.
LEMMA EatSame ==
  ASSUME NEW a \in Nat, NEW x \in Nat, NEW b \in Nat, NEW seed \in Nat, Congruent(a, x, Mod)
  PROVE  /\ x * seed + b \in Nat /\ Eat(a, b, seed) \in Nat
         /\ Congruent(Eat(a, b, seed), x * seed + b, Mod)
<1>1. PICK as \in Nat, xs \in Nat : as = a * seed /\ xs = x * seed
  OBVIOUS
<1>2. Congruent(as, xs, Mod)
  BY <1>1, ModTyped, SameProduct, SameSelf
<1>3. Congruent(as + b, xs + b, Mod)
  BY <1>1, <1>2, ModTyped, SameSum, SameSelf
<1>4. PICK p \in Nat, q \in Nat : p = as + b /\ q = xs + b
  BY <1>1
<1>5. Eat(a, b, seed) \in Nat /\ Congruent(Eat(a, b, seed), p, Mod)
  BY <1>1, <1>4, EatTyped
<1>6. Congruent(Eat(a, b, seed), q, Mod)
  BY <1>3, <1>4, <1>5, ModTyped, SameTransitive
<1> QED BY <1>1, <1>4, <1>5, <1>6

\* Four bytes multiplied out are four steps.
LEMMA PolynomialIs ==
  ASSUME NEW h \in Nat, NEW a \in Nat, NEW b \in Nat, NEW c \in Nat, NEW d \in Nat, NEW seed \in Nat
  PROVE  Polynomial(h, a, b, c, d, seed) = Eat(Eat(Eat(Eat(h, a, seed), b, seed), c, seed), d, seed)
<1> DEFINE x1 == h * seed + a
           x2 == x1 * seed + b
           x3 == x2 * seed + c
           x4 == x3 * seed + d
           e4 == Eat(Eat(Eat(Eat(h, a, seed), b, seed), c, seed), d, seed)
           two == seed * seed
           three == two * seed
           four == two * two
           s2 == two % Mod
           s3 == (s2 * seed) % Mod
           s4 == (s2 * s2) % Mod
           y == h * s4 + a * s3 + b * s2 + c * seed + d
           z == h * four + a * three + b * two + c * seed + d
<1>1. Mod \in Nat /\ Mod \in Nat \ {0}
  BY ModTyped
<1>2. e4 \in Nat /\ x4 \in Nat /\ Congruent(e4, x4, Mod)
  <2> DEFINE e1 == Eat(h, a, seed)
             e2 == Eat(e1, b, seed)
             e3 == Eat(e2, c, seed)
  <2>1. x1 \in Nat /\ e1 \in Nat /\ Congruent(e1, x1, Mod)
    BY EatTyped
  <2> HIDE DEF x1, e1
  <2>2. x2 \in Nat /\ e2 \in Nat /\ Congruent(e2, x2, Mod)
    BY <2>1, EatSame
  <2> HIDE DEF x2, e2
  <2>3. x3 \in Nat /\ e3 \in Nat /\ Congruent(e3, x3, Mod)
    BY <2>2, EatSame
  <2> HIDE DEF x3, e3
  <2>4. x4 \in Nat /\ Eat(e3, d, seed) \in Nat /\ Congruent(Eat(e3, d, seed), x4, Mod)
    BY <2>3, EatSame
  <2> QED BY <2>4 DEF e1, e2, e3
<1>3. two \in Nat /\ s2 \in Nat /\ Congruent(s2, two, Mod)
  <2>1. two \in Nat
    OBVIOUS
  <2> HIDE DEF two
  <2> QED BY <1>1, <2>1, RemainderSame
<1>4. three \in Nat /\ s3 \in Nat /\ Congruent(s3, three, Mod)
  <2> HIDE DEF two, s2
  <2>1. s2 * seed \in Nat /\ three \in Nat
    BY <1>3
  <2>2. Congruent(s2 * seed, three, Mod)
    BY <1>1, <1>3, SameProduct, SameSelf
  <2> DEFINE p == s2 * seed
  <2> HIDE DEF p, three
  <2>3. p \in Nat /\ Congruent(p, three, Mod)
    BY <2>1, <2>2 DEF p
  <2>4. p % Mod \in Nat /\ Congruent(p % Mod, p, Mod)
    BY <1>1, <2>3, RemainderSame
  <2> QED BY <1>1, <2>1, <2>3, <2>4, SameTransitive DEF p
<1>5. four \in Nat /\ s4 \in Nat /\ Congruent(s4, four, Mod)
  <2> HIDE DEF two, s2
  <2>1. s2 * s2 \in Nat /\ four \in Nat
    BY <1>3
  <2>2. Congruent(s2 * s2, four, Mod)
    BY <1>1, <1>3, SameProduct
  <2> DEFINE p == s2 * s2
  <2> HIDE DEF p, four
  <2>3. p \in Nat /\ Congruent(p, four, Mod)
    BY <2>1, <2>2 DEF p
  <2>4. p % Mod \in Nat /\ Congruent(p % Mod, p, Mod)
    BY <1>1, <2>3, RemainderSame
  <2> QED BY <1>1, <2>1, <2>3, <2>4, SameTransitive DEF p
<1>6. y \in Nat /\ z \in Nat /\ Congruent(y, z, Mod)
  <2> HIDE DEF two, three, four, s2, s3, s4
  <2> DEFINE h4 == h * s4
             ho == h * four
             a3 == a * s3
             at == a * three
             b2 == b * s2
             bt == b * two
             cs == c * seed
  <2>1. /\ h4 \in Nat /\ ho \in Nat /\ a3 \in Nat /\ at \in Nat
        /\ b2 \in Nat /\ bt \in Nat /\ cs \in Nat
    BY <1>3, <1>4, <1>5
  <2>2. Congruent(h4, ho, Mod)
    BY <1>1, <1>5, SameProduct, SameSelf
  <2>3. Congruent(a3, at, Mod)
    BY <1>1, <1>4, SameProduct, SameSelf
  <2>4. Congruent(b2, bt, Mod)
    BY <1>1, <1>3, SameProduct, SameSelf
  <2> HIDE DEF h4, ho, a3, at, b2, bt, cs
  <2>5. h4 + a3 \in Nat /\ ho + at \in Nat /\ Congruent(h4 + a3, ho + at, Mod)
    BY <1>1, <2>1, <2>2, <2>3, SameSum
  <2>6. h4 + a3 + b2 \in Nat /\ ho + at + bt \in Nat /\ Congruent(h4 + a3 + b2, ho + at + bt, Mod)
    BY <1>1, <2>1, <2>4, <2>5, SameSum
  <2>7. Congruent(cs, cs, Mod) /\ Congruent(d, d, Mod)
    BY <1>1, <2>1, SameSelf
  <2> DEFINE u == h4 + a3 + b2
             v == ho + at + bt
  <2>8. u \in Nat /\ v \in Nat /\ Congruent(u, v, Mod)
    BY <2>6
  <2> HIDE DEF u, v
  <2>9. u + cs \in Nat /\ v + cs \in Nat /\ Congruent(u + cs, v + cs, Mod)
    BY <1>1, <2>1, <2>7, <2>8, SameSum
  <2> DEFINE i == u + cs
             j == v + cs
  <2>10. i \in Nat /\ j \in Nat /\ Congruent(i, j, Mod)
    BY <2>9
  <2> HIDE DEF i, j
  <2>11. i + d \in Nat /\ j + d \in Nat /\ Congruent(i + d, j + d, Mod)
    BY <1>1, <2>7, <2>10, SameSum
  <2> QED BY <2>11 DEF i, j, u, v, h4, ho, a3, at, b2, bt, cs
<1>7. z = x4
  <2>1. x2 = h * two + a * seed + b
    OBVIOUS
  <2>2. x2 * seed = h * three + a * two + b * seed
    <3> DEFINE t == h * two + a * seed + b
    <3>1. t * seed = h * (two * seed) + a * (seed * seed) + b * seed
      BY ONLY seed \in Nat, h \in Nat, a \in Nat, b \in Nat
    <3> QED BY <2>1, <3>1
  <2>3. x3 = h * three + a * two + b * seed + c
    BY <2>2
  <2> HIDE DEF x3
  <2>4. (h * three + a * two + b * seed + c) * seed = h * four + a * three + b * two + c * seed
    BY ONLY seed \in Nat, h \in Nat, a \in Nat, b \in Nat, c \in Nat
  <2> QED BY <2>3, <2>4
<1>8. Polynomial(h, a, b, c, d, seed) = y % Mod
  BY DEF Polynomial
<1>9. e4 = e4 % Mod
  <2> DEFINE u == Eat(Eat(Eat(h, a, seed), b, seed), c, seed)
             v == u * seed + d
  <2>1. u \in Nat
    BY EatTyped
  <2> HIDE DEF u
  <2>2. v \in Nat
    BY <2>1
  <2>3. e4 = v % Mod
    BY DEF Eat, u
  <2> HIDE DEF v, e4
  <2>4. e4 \in Nat /\ e4 < Mod
    BY <1>1, <2>2, <2>3, RemainderSame
  <2> QED BY <1>1, <2>4
<1> HIDE DEF y, z, x4, e4
<1>10. y % Mod = z % Mod
  BY <1>1, <1>6, SameRemainder
<1>11. e4 % Mod = x4 % Mod
  BY <1>1, <1>2, SameRemainder
<1> QED BY <1>7, <1>8, <1>9, <1>10, <1>11 DEF e4

\* A walk over n bytes: the hash code after each of them.
Walks(h, n, first, bytes, seed) ==
  /\ h \in [0 .. n -> Nat]
  /\ h[0] = first
  /\ \A i \in 1 .. n : h[i] = Eat(h[i - 1], bytes[i], seed)

\* Any bytes are walked over.
LEMMA WalkExists ==
  ASSUME NEW n \in Nat, NEW bytes, bytes \in [1 .. n -> Nat], NEW first \in Nat, NEW seed \in Nat
  PROVE  \E h : Walks(h, n, first, bytes, seed)
<1> DEFINE V == Nat
           base == first
           step == [i \in 1 .. n |-> [x \in V |-> Eat(x, bytes[i], seed)]]
<1>1. step \in [1 .. n -> [V -> V]] /\ base \in V
  BY EatTyped
<1>2. \A i \in 1 .. n, x \in Nat : step[i][x] = Eat(x, bytes[i], seed)
  OBVIOUS
<1>3. \E h \in [0 .. n -> V] : h[0] = base /\ \A i \in 1 .. n : h[i] = step[i][h[i - 1]]
  <2> HIDE DEF step, V, base
  <2> QED BY ONLY <1>1, n \in Nat, StepByStep
<1> HIDE DEF step
<1>4. PICK h \in [0 .. n -> Nat] : h[0] = first /\ \A i \in 1 .. n : h[i] = step[i][h[i - 1]]
  BY <1>3
<1>5. \A i \in 1 .. n : h[i] = Eat(h[i - 1], bytes[i], seed)
  <2> TAKE i \in 1 .. n
  <2>1. h[i - 1] \in Nat
    OBVIOUS
  <2> QED BY <1>2, <1>4, <2>1
<1> QED BY <1>4, <1>5 DEF Walks

\* Horner's fold is the last of the walk.
LEMMA HornerIs ==
  ASSUME NEW n \in Nat, NEW bytes, bytes \in [1 .. n -> Nat], NEW first \in Nat, NEW seed \in Nat,
         NEW h, Walks(h, n, first, bytes, seed)
  PROVE  Horner(first, bytes, seed) = h[n]
<1> DEFINE V == Nat
           base == first
           Fold(g) == [U \in SUBSET (1 .. n) |-> IF U = {} THEN first ELSE
                         (g[U \ {Max(U)}] * seed + bytes[Max(U)]) % Mod]
           step == [i \in 1 .. n |-> [x \in V |-> Eat(x, bytes[i], seed)]]
           g == CHOOSE x : x = Fold(x)
<1>1. Horner(first, bytes, seed) = g[1 .. n]
  <2> DEFINE D == 1 .. n
  <2>1. DOMAIN bytes = D
    OBVIOUS
  <2> HIDE DEF D
  <2> QED BY <2>1 DEF Horner, FoldLeft, MapThenFoldSet, D
<1>2. Stepping(step, n, V) /\ base \in V /\ base = first
  BY EatTyped DEF Stepping
<1>3. \A i \in 1 .. n, x \in V : step[i][x] = Eat(x, bytes[i], seed)
  OBVIOUS
<1>4. Stepped(h, n, V, base, step)
  <2>1. \A i \in 1 .. n : h[i - 1] \in Nat
    BY DEF Walks
  <2> HIDE DEF step
  <2> QED BY <1>3, <2>1 DEF Walks, Stepped
<1> HIDE DEF step, V, base
<1>5. PICK F : Folding(F, n, V, base, step)
  BY ONLY <1>2, n \in Nat, FoldExists
<1>6. F = Fold(F)
  <2>1. ASSUME NEW T \in SUBSET (1 .. n)
        PROVE  F[T] = IF T = {} THEN first ELSE (F[T \ {Max(T)}] * seed + bytes[Max(T)]) % Mod
    <3>1. T # {} => Max(T) \in 1 .. n
      BY GreatestOf
    <3>2. F[T \ {Max(T)}] \in V
      BY <1>5 DEF Folding
    <3>3. F[T] = IF T = {} THEN base ELSE step[Max(T)][F[T \ {Max(T)}]]
      BY <1>5 DEF Folding
    <3> QED BY <1>2, <1>3, <3>1, <3>2, <3>3 DEF Eat
  <2>2. F \in [SUBSET (1 .. n) -> V]
    BY <1>5 DEF Folding
  <2> QED BY <2>1, <2>2
<1>7. g = Fold(g)
  <2> HIDE DEF Fold
  <2> QED BY <1>6
<1> HIDE DEF g
<1>8. g[{}] = base
  BY <1>2, <1>7
<1>9. ASSUME NEW k \in 1 .. n
      PROVE  g[1 .. k] = Eat(g[1 .. k - 1], bytes[k], seed)
  <2>1. 1 .. k \in SUBSET (1 .. n) /\ 1 .. k # {} /\ Max(1 .. k) = k /\ (1 .. k) \ {k} = 1 .. k - 1
    BY TopOf
  <2>2. g[1 .. k] = (g[(1 .. k) \ {Max(1 .. k)}] * seed + bytes[Max(1 .. k)]) % Mod
    BY <1>7, <2>1
  <2> QED BY <2>1, <2>2 DEF Eat
<1>10. Folds(g, n, V, base, step)
  BY <1>3, <1>8, <1>9 DEF Folds
<1> HIDE DEF Fold
<1>11. g[1 .. n] = h[n]
  BY ONLY <1>4, <1>10, n \in Nat, FoldWalks
<1> QED BY <1>1, <1>11

\* One byte is one step.
LEMMA HornerOne ==
  ASSUME NEW x \in Nat, NEW b \in Nat, NEW seed \in Nat
  PROVE  Horner(x, <<b>>, seed) = Eat(x, b, seed)
<1> DEFINE h == [i \in 0 .. 1 |-> IF i = 0 THEN x ELSE Eat(x, b, seed)]
<1>1. <<b>> \in [1 .. 1 -> Nat]
  OBVIOUS
<1>2. Eat(x, b, seed) \in Nat
  BY EatTyped
<1>3. Walks(h, 1, x, <<b>>, seed)
  BY <1>2 DEF Walks
<1>4. h[1] = Eat(x, b, seed)
  OBVIOUS
<1> HIDE DEF h
<1> DEFINE one == 1
           bytes == <<b>>
<1>5. one \in Nat /\ bytes \in [1 .. one -> Nat] /\ Walks(h, one, x, bytes, seed)
  BY <1>1, <1>3
<1> HIDE DEF one, bytes
<1>6. Horner(x, bytes, seed) = h[one]
  BY ONLY <1>5, x \in Nat, seed \in Nat, HornerIs
<1> QED BY <1>4, <1>6 DEF one, bytes

\* The characters of a string, and the bytes read for them.
LEMMA CharactersAre ==
  ASSUME NEW s, Stringy(s)
  PROVE  /\ s.length \in Nat
         /\ Characters(s) \in [1 .. s.length -> Nat]
         /\ \A i \in 1 .. s.length : Characters(s)[i] = Byte(s, i - 1) /\ Byte(s, i - 1) \in Nat
<1>1. s.length \in Nat /\ \A i \in Int : Byte(s, i) \in Nat
  BY DEF Stringy
<1>2. Characters(s) = [j \in 1 .. s.length |-> Byte(s, 0 + j - 1)]
  BY DEF Characters, Load
<1>3. \A j \in 1 .. s.length : 0 + j - 1 = j - 1 /\ j - 1 \in Int
  BY <1>1
<1> QED BY <1>1, <1>2, <1>3

\* Four bytes of a string.
LEMMA PolynomialEats ==
  ASSUME NEW s, NEW i, NEW x \in Nat, NEW seed \in Nat,
         Byte(s, i) \in Nat, Byte(s, i + 1) \in Nat, Byte(s, i + 2) \in Nat, Byte(s, i + 3) \in Nat
  PROVE  Polynomial(x, Byte(s, i), Byte(s, i + 1), Byte(s, i + 2), Byte(s, i + 3), seed)
           = Eat(Eat(Eat(Eat(x, Byte(s, i), seed), Byte(s, i + 1), seed),
                     Byte(s, i + 2), seed), Byte(s, i + 3), seed)
<1> DEFINE a == Byte(s, i)
           b == Byte(s, i + 1)
           c == Byte(s, i + 2)
           d == Byte(s, i + 3)
<1>1. a \in Nat /\ b \in Nat /\ c \in Nat /\ d \in Nat
  OBVIOUS
<1> HIDE DEF a, b, c, d
<1>2. Polynomial(x, a, b, c, d, seed)
        = Eat(Eat(Eat(Eat(x, a, seed), b, seed), c, seed), d, seed)
  BY ONLY <1>1, x \in Nat, seed \in Nat, PolynomialIs
<1> QED BY <1>2 DEF a, b, c, d

\* Four characters at a time is four steps of the walk.
LEMMA FourIs ==
  ASSUME NEW s, Stringy(s), NEW seed \in Nat, NEW h,
         Walks(h, s.length, 0, Characters(s), seed)
  PROVE  FourAtATime(s, seed) = h[4 * (s.length \div 4)]
<1> DEFINE n == s.length
           m == n \div 4
           V == Nat
           base == 0
           off == [j \in 1 .. m |-> (j - 1) * 4]
           Four(x, i) == Polynomial(x, Byte(s, i), Byte(s, i + 1),
                                    Byte(s, i + 2), Byte(s, i + 3), seed)
           Fold(g) == [U \in SUBSET (1 .. m) |-> IF U = {} THEN 0 ELSE
             LET i == off[Max(U)]
             IN  Polynomial(g[U \ {Max(U)}], Byte(s, i), Byte(s, i + 1),
                              Byte(s, i + 2), Byte(s, i + 3), seed)]
           step == [k \in 1 .. m |-> [x \in V |-> Four(x, off[k])]]
           g == CHOOSE x : x = Fold(x)
           w == [k \in 0 .. m |-> h[4 * k]]
<1>1. n \in Nat /\ m \in Nat /\ 4 * m <= n
  BY CharactersAre
<1>2. FourAtATime(s, seed) = g[1 .. m]
  <2> DEFINE D == 1 .. m
  <2>1. Groups(s, 4) = off
    BY DEF Groups
  <2>2. DOMAIN off = D
    OBVIOUS
  <2> HIDE DEF D, off
  <2> QED BY <2>1, <2>2 DEF FourAtATime, FoldLeft, MapThenFoldSet, D
<1>3. ASSUME NEW k \in 1 .. m, NEW x \in Nat
      PROVE  /\ off[k] = 4 * (k - 1)
             /\ Four(x, off[k]) \in Nat
             /\ x = h[4 * (k - 1)] => Four(x, off[k]) = h[4 * k]
  <2> DEFINE i == off[k]
             b0 == Byte(s, i)
             b1 == Byte(s, i + 1)
             b2 == Byte(s, i + 2)
             b3 == Byte(s, i + 3)
  <2>1. /\ i \in Nat /\ i = 4 * (k - 1)
        /\ i + 1 \in 1 .. n /\ i + 2 \in 1 .. n /\ i + 3 \in 1 .. n /\ i + 4 \in 1 .. n
    BY <1>1
  <2> HIDE DEF i, n, off
  <2>2. /\ (i + 1) - 1 = i /\ (i + 2) - 1 = i + 1 /\ (i + 3) - 1 = i + 2 /\ (i + 4) - 1 = i + 3
        /\ i + 4 = 4 * k
    BY <2>1
  <2>3. /\ b0 \in Nat /\ b0 = Characters(s)[i + 1] /\ b1 \in Nat /\ b1 = Characters(s)[i + 2]
        /\ b2 \in Nat /\ b2 = Characters(s)[i + 3] /\ b3 \in Nat /\ b3 = Characters(s)[i + 4]
    BY <2>1, <2>2, CharactersAre DEF n
  <2>4. Four(x, i) = Eat(Eat(Eat(Eat(x, b0, seed), b1, seed), b2, seed), b3, seed)
    BY <2>3, PolynomialEats
  <2>5. /\ h[i + 1] = Eat(h[i], Characters(s)[i + 1], seed)
        /\ h[i + 2] = Eat(h[i + 1], Characters(s)[i + 2], seed)
        /\ h[i + 3] = Eat(h[i + 2], Characters(s)[i + 3], seed)
        /\ h[i + 4] = Eat(h[i + 3], Characters(s)[i + 4], seed)
    BY <2>1, <2>2 DEF Walks, n
  <2>6. Eat(Eat(Eat(Eat(x, b0, seed), b1, seed), b2, seed), b3, seed) \in Nat
    <3> DEFINE u == Eat(Eat(Eat(x, b0, seed), b1, seed), b2, seed)
    <3> HIDE DEF b0, b1, b2, b3
    <3>1. Eat(x, b0, seed) \in Nat
      BY <2>3, EatTyped
    <3>2. Eat(Eat(x, b0, seed), b1, seed) \in Nat
      BY <2>3, <3>1, EatTyped
    <3>3. u \in Nat
      BY <2>3, <3>2, EatTyped
    <3> HIDE DEF u
    <3>4. Eat(u, b3, seed) \in Nat
      BY <2>3, <3>3, EatTyped
    <3> QED BY <3>4 DEF u
  <2> HIDE DEF b0, b1, b2, b3, Four
  <2>7. x = h[i] => Eat(Eat(Eat(Eat(x, b0, seed), b1, seed), b2, seed), b3, seed) = h[i + 4]
    BY <2>3, <2>5
  <2> QED BY <2>1, <2>2, <2>4, <2>6, <2>7 DEF i
<1>4. Stepping(step, m, V) /\ base \in V
  <2> HIDE DEF Four, off
  <2> QED BY <1>3 DEF Stepping
<1>5. \A k \in 1 .. m, x \in V : step[k][x] = Four(x, off[k])
  <2> HIDE DEF Four, off
  <2> QED OBVIOUS
<1> HIDE DEF step
<1>6. Stepped(w, m, V, base, step) /\ w[m] = h[4 * m]
  <2>1. \A k \in 0 .. m : 4 * k \in 0 .. n
    BY <1>1
  <2>2. h \in [0 .. n -> Nat] /\ h[0] = 0
    BY DEF Walks
  <2>3. w \in [0 .. m -> V] /\ w[0] = base /\ w[m] = h[4 * m]
    BY <1>1, <2>1, <2>2
  <2>4. ASSUME NEW k \in 1 .. m
        PROVE  w[k] = step[k][w[k - 1]]
    <3> HIDE DEF Four, off, n
    <3>1. k - 1 \in 0 .. m /\ k \in 0 .. m
      BY <1>1
    <3>2. w[k - 1] = h[4 * (k - 1)] /\ w[k] = h[4 * k] /\ w[k - 1] \in V
      BY <2>3, <3>1
    <3> HIDE DEF w
    <3> QED BY <1>3, <1>5, <3>2
  <2> HIDE DEF w
  <2> QED BY <2>3, <2>4 DEF Stepped
<1>7. \A x : \A k \in 1 .. m :
        Four(x, off[k]) = LET i == off[k]
                          IN  Polynomial(x, Byte(s, i), Byte(s, i + 1),
                                         Byte(s, i + 2), Byte(s, i + 3), seed)
  OBVIOUS
<1> HIDE DEF V, base, off, w, Four, m
<1>8. PICK F : Folding(F, m, V, base, step)
  BY ONLY <1>1, <1>4, FoldExists
<1>9. F = Fold(F)
  <2>1. ASSUME NEW T \in SUBSET (1 .. m)
        PROVE  F[T] = IF T = {} THEN 0 ELSE
                 LET i == off[Max(T)]
                 IN  Polynomial(F[T \ {Max(T)}], Byte(s, i), Byte(s, i + 1),
                                Byte(s, i + 2), Byte(s, i + 3), seed)
    <3>1. T # {} => Max(T) \in 1 .. m
      BY <1>1, GreatestOf
    <3>2. F[T \ {Max(T)}] \in V
      BY <1>8 DEF Folding
    <3>3. F[T] = IF T = {} THEN base ELSE step[Max(T)][F[T \ {Max(T)}]]
      BY <1>8 DEF Folding
    <3> QED BY <1>5, <1>7, <3>1, <3>2, <3>3 DEF base
  <2>2. F \in [SUBSET (1 .. m) -> V]
    BY <1>8 DEF Folding
  <2> QED BY <2>1, <2>2
<1>10. g = Fold(g)
  <2> HIDE DEF Fold
  <2> QED BY <1>9
<1> HIDE DEF g
<1>11. Folds(g, m, V, base, step)
  <2>1. g[{}] = base
    BY <1>10 DEF base
  <2>2. ASSUME NEW k \in 1 .. m, g[1 .. k - 1] \in V
        PROVE  g[1 .. k] = step[k][g[1 .. k - 1]]
    <3>1. /\ 1 .. k \in SUBSET (1 .. m) /\ 1 .. k # {}
          /\ Max(1 .. k) = k /\ (1 .. k) \ {k} = 1 .. k - 1
      BY <1>1, TopOf
    <3>2. g[1 .. k] = LET i == off[Max(1 .. k)]
                      IN  Polynomial(g[(1 .. k) \ {Max(1 .. k)}], Byte(s, i), Byte(s, i + 1),
                                     Byte(s, i + 2), Byte(s, i + 3), seed)
      BY <1>10, <3>1
    <3>3. g[1 .. k] = Four(g[1 .. k - 1], off[k])
      BY <1>7, <3>1, <3>2
    <3> QED BY <1>5, <2>2, <3>3
  <2> QED BY <2>1, <2>2 DEF Folds
<1> HIDE DEF Fold
<1>12. g[1 .. m] = w[m]
  BY ONLY <1>1, <1>6, <1>11, FoldWalks
<1> QED BY <1>2, <1>6, <1>12 DEF m

\* The bytes at the m offsets.
Feeds(s, off, m, bytes) ==
  /\ DOMAIN off = 1 .. m
  /\ \A k \in 1 .. m : Byte(s, off[k]) \in Nat /\ bytes[k] = Byte(s, off[k])

\* A fold over the bytes at some offsets.
OneByOne(s, seed, first, off) ==
  FoldLeft(LAMBDA h, i : Horner(h, <<Byte(s, i)>>, seed), first, off)

\* It is the walk over those bytes.
LEMMA OneByOneIs ==
  ASSUME NEW s, NEW seed \in Nat, NEW first \in Nat, NEW m \in Nat, NEW off, NEW bytes,
         Feeds(s, off, m, bytes),
         NEW w, Walks(w, m, first, bytes, seed)
  PROVE  OneByOne(s, seed, first, off) = w[m]
<1> DEFINE V == Nat
           base == first
           Eaten(x, i) == Horner(x, <<Byte(s, i)>>, seed)
           Fold(g) == [U \in SUBSET (1 .. m) |-> IF U = {} THEN first ELSE
             Horner(g[U \ {Max(U)}], <<Byte(s, off[Max(U)])>>, seed)]
           step == [k \in 1 .. m |-> [x \in V |-> Eaten(x, off[k])]]
           g == CHOOSE x : x = Fold(x)
<1>2. OneByOne(s, seed, first, off) = g[1 .. m]
  <2> DEFINE D == 1 .. m
  <2>1. DOMAIN off = D
    BY DEF Feeds
  <2> HIDE DEF D
  <2> QED BY <2>1 DEF OneByOne, FoldLeft, MapThenFoldSet, D
<1>3. ASSUME NEW k \in 1 .. m, NEW x \in Nat
      PROVE  Eaten(x, off[k]) = Eat(x, bytes[k], seed) /\ Eaten(x, off[k]) \in Nat
  <2> DEFINE b == Byte(s, off[k])
  <2>1. b \in Nat /\ b = bytes[k]
    BY DEF Feeds
  <2> HIDE DEF b
  <2>2. Horner(x, <<b>>, seed) = Eat(x, b, seed)
    BY <2>1, HornerOne
  <2>3. Eat(x, b, seed) \in Nat
    BY <2>1, EatTyped
  <2> QED BY <2>1, <2>2, <2>3 DEF b
<1>4. Stepping(step, m, V) /\ base \in V
  <2> HIDE DEF Eaten
  <2> QED BY <1>3 DEF Stepping
<1>5. \A k \in 1 .. m, x \in V : step[k][x] = Eaten(x, off[k])
  <2> HIDE DEF Eaten
  <2> QED OBVIOUS
<1> HIDE DEF step
<1>6. Stepped(w, m, V, base, step)
  <2> HIDE DEF Eaten
  <2>1. w \in [0 .. m -> V] /\ w[0] = base
    BY DEF Walks
  <2>2. ASSUME NEW k \in 1 .. m
        PROVE  w[k] = step[k][w[k - 1]]
    <3>1. w[k - 1] \in V /\ w[k] = Eat(w[k - 1], bytes[k], seed)
      BY DEF Walks
    <3> QED BY <1>3, <1>5, <3>1
  <2> QED BY <2>1, <2>2 DEF Stepped
<1>7. \A x : \A k \in 1 .. m : Eaten(x, off[k]) = Horner(x, <<Byte(s, off[k])>>, seed)
  OBVIOUS
<1> HIDE DEF V, base, Eaten
<1>8. PICK F : Folding(F, m, V, base, step)
  BY ONLY m \in Nat, <1>4, FoldExists
<1>9. F = Fold(F)
  <2>1. ASSUME NEW T \in SUBSET (1 .. m)
        PROVE  F[T] = IF T = {} THEN first ELSE
                 Horner(F[T \ {Max(T)}], <<Byte(s, off[Max(T)])>>, seed)
    <3>1. T # {} => Max(T) \in 1 .. m
      BY GreatestOf
    <3>2. F[T \ {Max(T)}] \in V
      BY <1>8 DEF Folding
    <3>3. F[T] = IF T = {} THEN base ELSE step[Max(T)][F[T \ {Max(T)}]]
      BY <1>8 DEF Folding
    <3> QED BY <1>5, <1>7, <3>1, <3>2, <3>3 DEF base
  <2>2. F \in [SUBSET (1 .. m) -> V]
    BY <1>8 DEF Folding
  <2> QED BY <2>1, <2>2
<1>10. g = Fold(g)
  <2> HIDE DEF Fold
  <2> QED BY <1>9
<1> HIDE DEF g
<1>11. Folds(g, m, V, base, step)
  <2>1. g[{}] = base
    BY <1>10 DEF base
  <2>2. ASSUME NEW k \in 1 .. m, g[1 .. k - 1] \in V
        PROVE  g[1 .. k] = step[k][g[1 .. k - 1]]
    <3>1. /\ 1 .. k \in SUBSET (1 .. m) /\ 1 .. k # {}
          /\ Max(1 .. k) = k /\ (1 .. k) \ {k} = 1 .. k - 1
      BY TopOf
    <3>2. g[1 .. k] = Horner(g[(1 .. k) \ {Max(1 .. k)}], <<Byte(s, off[Max(1 .. k)])>>, seed)
      BY <1>10, <3>1
    <3>3. g[1 .. k] = Eaten(g[1 .. k - 1], off[k])
      BY <1>7, <3>1, <3>2
    <3> QED BY <1>5, <2>2, <3>3
  <2> QED BY <2>1, <2>2 DEF Folds
<1> HIDE DEF Fold
<1>12. g[1 .. m] = w[m]
  BY ONLY m \in Nat, <1>6, <1>11, FoldWalks
<1> QED BY <1>2, <1>6, <1>12

\* DJBHash's step, and a fold of it.
Times33(x, b) == (x + x * 32 + b) % Mod
By33(s, first, off) == FoldLeft(LAMBDA h, i : Times33(h, Byte(s, i)), first, off)

\* It is the walk that multiplies by 33.
LEMMA By33Is ==
  ASSUME NEW s, NEW first \in Nat, NEW m \in Nat, NEW off, NEW bytes,
         Feeds(s, off, m, bytes),
         NEW w, Walks(w, m, first, bytes, 33)
  PROVE  By33(s, first, off) = w[m]
<1> DEFINE V == Nat
           base == first
           Eaten(x, i) == Times33(x, Byte(s, i))
           Fold(g) == [U \in SUBSET (1 .. m) |-> IF U = {} THEN first ELSE
             Times33(g[U \ {Max(U)}], Byte(s, off[Max(U)]))]
           step == [k \in 1 .. m |-> [x \in V |-> Eaten(x, off[k])]]
           g == CHOOSE x : x = Fold(x)
<1>2. By33(s, first, off) = g[1 .. m]
  <2> DEFINE D == 1 .. m
  <2>1. DOMAIN off = D
    BY DEF Feeds
  <2> HIDE DEF D
  <2> QED BY <2>1 DEF By33, FoldLeft, MapThenFoldSet, D
<1>3. ASSUME NEW k \in 1 .. m, NEW x \in Nat
      PROVE  Eaten(x, off[k]) = Eat(x, bytes[k], 33) /\ Eaten(x, off[k]) \in Nat
  <2> DEFINE b == Byte(s, off[k])
  <2>1. b \in Nat /\ b = bytes[k]
    BY DEF Feeds
  <2> HIDE DEF b
  <2>2. Times33(x, b) = Eat(x, b, 33)
    <3>1. x + x * 32 + b = x * 33 + b
      BY <2>1
    <3> QED BY <3>1 DEF Times33, Eat
  <2>3. Eat(x, b, 33) \in Nat
    <3> DEFINE seed == 33
    <3>1. seed \in Nat
      OBVIOUS
    <3> HIDE DEF seed
    <3>2. Eat(x, b, seed) \in Nat
      BY ONLY <2>1, <3>1, x \in Nat, EatTyped
    <3> QED BY <3>2 DEF seed
  <2> QED BY <2>1, <2>2, <2>3 DEF b
<1>4. Stepping(step, m, V) /\ base \in V
  <2> HIDE DEF Eaten
  <2> QED BY <1>3 DEF Stepping
<1>5. \A k \in 1 .. m, x \in V : step[k][x] = Eaten(x, off[k])
  <2> HIDE DEF Eaten
  <2> QED OBVIOUS
<1> HIDE DEF step
<1>6. Stepped(w, m, V, base, step)
  <2> HIDE DEF Eaten
  <2>1. w \in [0 .. m -> V] /\ w[0] = base
    BY DEF Walks
  <2>2. ASSUME NEW k \in 1 .. m
        PROVE  w[k] = step[k][w[k - 1]]
    <3>1. w[k - 1] \in V /\ w[k] = Eat(w[k - 1], bytes[k], 33)
      BY DEF Walks
    <3> QED BY <1>3, <1>5, <3>1
  <2> QED BY <2>1, <2>2 DEF Stepped
<1>7. \A x : \A k \in 1 .. m : Eaten(x, off[k]) = Times33(x, Byte(s, off[k]))
  OBVIOUS
<1> HIDE DEF V, base, Eaten
<1>8. PICK F : Folding(F, m, V, base, step)
  BY ONLY m \in Nat, <1>4, FoldExists
<1>9. F = Fold(F)
  <2>1. ASSUME NEW T \in SUBSET (1 .. m)
        PROVE  F[T] = IF T = {} THEN first ELSE
                 Times33(F[T \ {Max(T)}], Byte(s, off[Max(T)]))
    <3>1. T # {} => Max(T) \in 1 .. m
      BY GreatestOf
    <3>2. F[T \ {Max(T)}] \in V
      BY <1>8 DEF Folding
    <3>3. F[T] = IF T = {} THEN base ELSE step[Max(T)][F[T \ {Max(T)}]]
      BY <1>8 DEF Folding
    <3> QED BY <1>5, <1>7, <3>1, <3>2, <3>3 DEF base
  <2>2. F \in [SUBSET (1 .. m) -> V]
    BY <1>8 DEF Folding
  <2> QED BY <2>1, <2>2
<1>10. g = Fold(g)
  <2> HIDE DEF Fold
  <2> QED BY <1>9
<1> HIDE DEF g
<1>11. Folds(g, m, V, base, step)
  <2>1. g[{}] = base
    BY <1>10 DEF base
  <2>2. ASSUME NEW k \in 1 .. m, g[1 .. k - 1] \in V
        PROVE  g[1 .. k] = step[k][g[1 .. k - 1]]
    <3>1. /\ 1 .. k \in SUBSET (1 .. m) /\ 1 .. k # {}
          /\ Max(1 .. k) = k /\ (1 .. k) \ {k} = 1 .. k - 1
      BY TopOf
    <3>2. g[1 .. k] = Times33(g[(1 .. k) \ {Max(1 .. k)}], Byte(s, off[Max(1 .. k)]))
      BY <1>10, <3>1
    <3>3. g[1 .. k] = Eaten(g[1 .. k - 1], off[k])
      BY <1>7, <3>1, <3>2
    <3> QED BY <1>5, <2>2, <3>3
  <2> QED BY <2>1, <2>2 DEF Folds
<1> HIDE DEF Fold
<1>12. g[1 .. m] = w[m]
  BY ONLY m \in Nat, <1>6, <1>11, FoldWalks
<1> QED BY <1>2, <1>6, <1>12

\* Characters one at a time, from the first.
LEMMA Ones ==
  ASSUME NEW s, Stringy(s)
  PROVE  /\ DOMAIN Groups(s, 1) = 1 .. s.length
         /\ \A k \in 1 .. s.length : Groups(s, 1)[k] = k - 1
<1>1. s.length \in Nat /\ s.length \div 1 = s.length
  BY CharactersAre
<1>2. Groups(s, 1) = [g \in 1 .. s.length \div 1 |-> (g - 1) * 1]
  BY DEF Groups
<1>3. \A k \in 1 .. s.length : (k - 1) * 1 = k - 1
  BY <1>1
<1> QED BY <1>1, <1>2, <1>3

\* DJBHash walks over the characters.
LEMMA DJBIs ==
  ASSUME NEW s, Stringy(s), NEW w, Walks(w, s.length, 5381 % Mod, Characters(s), 33)
  PROVE  DJBHash(s) = w[s.length]
<1> DEFINE m == s.length
           first == 5381 % Mod
           off == Groups(s, 1)
           bytes == Characters(s)
<1>1. m \in Nat
  BY CharactersAre
<1>2. first \in Nat
  <2>1. 5381 \in Nat
    OBVIOUS
  <2> QED BY <2>1, ModTyped, RemainderSame
<1>3. DJBHash(s) = By33(s, first, off)
  <2> HIDE DEF m, bytes
  <2> QED BY DEF DJBHash, By33, Times33, FoldLeft, MapThenFoldSet
<1>4. DOMAIN off = 1 .. m /\ \A k \in 1 .. m : off[k] = k - 1
  BY Ones
<1>5. Feeds(s, off, m, bytes)
  BY <1>4, CharactersAre DEF Feeds
<1>6. Walks(w, m, first, bytes, 33)
  OBVIOUS
<1> HIDE DEF m, first, off, bytes
<1>7. By33(s, first, off) = w[m]
  BY ONLY <1>1, <1>2, <1>5, <1>6, By33Is
<1> QED BY <1>3, <1>7 DEF m

\* What is left of a walk is a walk.
Rest(h, p, r) == [j \in 0 .. r |-> h[p + j]]
RestOf(bytes, p, r) == [j \in 1 .. r |-> bytes[p + j]]
LEMMA WalkOn ==
  ASSUME NEW n \in Nat, NEW first, NEW bytes, NEW seed, NEW h,
         Walks(h, n, first, bytes, seed), NEW p \in Nat, NEW r \in Nat, p + r = n
  PROVE  Walks(Rest(h, p, r), r, h[p], RestOf(bytes, p, r), seed)
<1> DEFINE w == [j \in 0 .. r |-> h[p + j]]
           b == [j \in 1 .. r |-> bytes[p + j]]
<1>1. h \in [0 .. n -> Nat] /\ \A i \in 1 .. n : h[i] = Eat(h[i - 1], bytes[i], seed)
  BY DEF Walks
<1>2. w \in [0 .. r -> Nat]
  <2>1. \A j \in 0 .. r : p + j \in 0 .. n
    OBVIOUS
  <2> QED BY <1>1, <2>1
<1>3. w[0] = h[p]
  <2>1. 0 \in 0 .. r /\ p + 0 = p
    OBVIOUS
  <2> QED BY <2>1
<1>4. ASSUME NEW j \in 1 .. r
      PROVE  w[j] = Eat(w[j - 1], b[j], seed)
  <2>1. p + j \in 1 .. n /\ j \in 0 .. r /\ j - 1 \in 0 .. r /\ p + (j - 1) = (p + j) - 1
    OBVIOUS
  <2>2. w[j] = h[p + j] /\ w[j - 1] = h[(p + j) - 1] /\ b[j] = bytes[p + j]
    BY <2>1
  <2> HIDE DEF w, b
  <2>3. h[p + j] = Eat(h[(p + j) - 1], bytes[p + j], seed)
    BY <1>1, <2>1
  <2> QED BY <2>2, <2>3
<1> HIDE DEF w, b
<1>5. Walks(w, r, h[p], b, seed)
  BY <1>2, <1>3, <1>4 DEF Walks
<1> QED BY <1>5 DEF w, b, Rest, RestOf

\* A string of n characters: p in groups of four, and r left over.
Parted(s, n, p, r) ==
  /\ n = s.length /\ p = 4 * (n \div 4) /\ r = n % 4
  /\ r \in 0 .. 3 /\ p + r = n /\ n - r = p
  /\ DOMAIN Left(s, 4) = 1 .. r
  /\ \A j \in 1 .. r : Left(s, 4)[j] = p + j - 1

\* Every string is parted so.
LEMMA EachParted ==
  ASSUME NEW s, Stringy(s)
  PROVE  \E n \in Nat, p \in Nat, r \in Nat : Parted(s, n, p, r)
<1>1. s.length \in Nat
  BY CharactersAre
<1>2. PICK n \in Nat : n = s.length
  BY <1>1
<1>3. PICK r \in 0 .. 3 : r = n % 4
  BY <1>2
<1>4. PICK p \in Nat : p = 4 * (n \div 4)
  BY <1>2
<1>5. p + r = n /\ n - r = p
  BY <1>3, <1>4
<1>6. Left(s, 4) = [j \in 1 .. r |-> n - r + j - 1]
  BY <1>2, <1>3 DEF Left
<1>7. Left(s, 4) = [j \in 1 .. r |-> p + j - 1]
  BY <1>5, <1>6
<1>8. /\ r \in Nat /\ DOMAIN Left(s, 4) = 1 .. r
      /\ \A j \in 1 .. r : Left(s, 4)[j] = p + j - 1
  BY <1>7
<1>9. Parted(s, n, p, r)
  BY <1>2, <1>3, <1>4, <1>5, <1>8 DEF Parted
<1> QED BY <1>8, <1>9

\* The unrolled loop with its tail of single characters.
LEMMA BKDRIs ==
  ASSUME NEW s, Stringy(s), NEW n \in Nat, NEW p \in Nat, NEW r \in Nat, Parted(s, n, p, r),
         NEW h, Walks(h, n, 0, Characters(s), 131)
  PROVE  BKDRHash(s) = h[n]
<1> DEFINE seed == 131
           first == FourAtATime(s, 131)
           off == Left(s, 4)
           bytes == [j \in 1 .. r |-> Characters(s)[p + j]]
           w == [j \in 0 .. r |-> h[p + j]]
<1>1. /\ p + r = n /\ seed \in Nat
      /\ DOMAIN off = 1 .. r /\ \A j \in 1 .. r : off[j] = p + j - 1
  BY DEF Parted
<1>2. BKDRHash(s) = OneByOne(s, seed, first, off)
  BY DEF BKDRHash, OneByOne
<1>3. first = h[p]
  <2>1. Walks(h, s.length, 0, Characters(s), seed)
    BY DEF Parted
  <2> HIDE DEF seed
  <2>2. FourAtATime(s, seed) = h[4 * (s.length \div 4)]
    BY ONLY <1>1, <2>1, Stringy(s), FourIs
  <2> QED BY <2>2 DEF seed, Parted
<1>4. Feeds(s, off, r, bytes)
  <2>1. ASSUME NEW j \in 1 .. r
        PROVE  Byte(s, off[j]) \in Nat /\ bytes[j] = Byte(s, off[j])
    <3>1. p + j \in 1 .. n /\ off[j] = (p + j) - 1 /\ bytes[j] = Characters(s)[p + j]
      BY <1>1
    <3> HIDE DEF bytes, off
    <3> QED BY <3>1, CharactersAre DEF Parted
  <2> HIDE DEF bytes, off
  <2> QED BY <1>1, <2>1 DEF Feeds
<1>5. Walks(w, r, first, bytes, seed)
  <2> DEFINE b == Characters(s)
  <2>1. Walks(h, n, 0, b, seed)
    OBVIOUS
  <2> HIDE DEF b, seed, first
  <2> HIDE DEF w, bytes
  <2>2. Walks(Rest(h, p, r), r, h[p], RestOf(b, p, r), seed)
    BY ONLY n \in Nat, p \in Nat, r \in Nat, <1>1, <2>1, WalkOn
  <2> QED BY <1>3, <2>2 DEF b, w, bytes, Rest, RestOf
<1>6. first \in Nat /\ w[r] = h[n]
  <2>1. p \in 0 .. n /\ r \in 0 .. r
    BY <1>1
  <2>2. h[p] \in Nat
    BY <2>1 DEF Walks
  <2> HIDE DEF first
  <2> QED BY <1>1, <1>3, <2>1, <2>2
<1> HIDE DEF seed, first, off, bytes, w
<1>7. OneByOne(s, seed, first, off) = w[r]
  BY ONLY <1>1, <1>4, <1>5, <1>6, OneByOneIs
<1> QED BY <1>2, <1>6, <1>7

\* One character at a time.
LEMMA StdIs ==
  ASSUME NEW s, Stringy(s), NEW h, Walks(h, s.length, 0, Characters(s), 31)
  PROVE  BKDRHash_31_std(s) = h[s.length]
<1> DEFINE n == s.length
           seed == 31
           first == 0
           off == Groups(s, 1)
           bytes == Characters(s)
<1>1. n \in Nat /\ seed \in Nat /\ first \in Nat
  BY CharactersAre
<1>2. BKDRHash_31_std(s) = OneByOne(s, seed, first, off)
  BY DEF BKDRHash_31_std, OneByOne
<1>3. DOMAIN off = 1 .. n /\ \A k \in 1 .. n : off[k] = k - 1
  BY Ones
<1>4. Feeds(s, off, n, bytes)
  BY <1>3, CharactersAre DEF Feeds
<1>5. Walks(h, n, first, bytes, seed)
  OBVIOUS
<1> HIDE DEF n, seed, first, off, bytes
<1>6. OneByOne(s, seed, first, off) = h[n]
  BY ONLY <1>1, <1>4, <1>5, OneByOneIs
<1> QED BY <1>2, <1>6 DEF n

\* The unrolled loop with its tail written out, unless that is one character.
LEMMA Times31Is ==
  ASSUME NEW s, Stringy(s), NEW n \in Nat, NEW p \in Nat, NEW r \in Nat, Parted(s, n, p, r),
         r # 1, NEW h, Walks(h, n, 0, Characters(s), 31)
  PROVE  BKDRHash_31(s) = h[n]
<1> DEFINE seed == 31
           first == FourAtATime(s, 31)
           bytes == [j \in 1 .. r |-> Characters(s)[p + j]]
           w == [j \in 0 .. r |-> h[p + j]]
<1>1. r \in {0, 2, 3} /\ p + r = n /\ n - r = p /\ seed \in Nat
  BY DEF Parted
<1>2. first = h[p]
  <2>1. Walks(h, s.length, 0, Characters(s), seed)
    BY DEF Parted
  <2> HIDE DEF seed
  <2>2. FourAtATime(s, seed) = h[4 * (s.length \div 4)]
    BY ONLY <1>1, <2>1, Stringy(s), FourIs
  <2> QED BY <2>2 DEF seed, Parted
<1>3. Times31Tail(s) = bytes
  <2>1. \A j \in 1 .. r : p + j \in 1 .. n /\ (p + j) - 1 = p + (j - 1)
    BY <1>1
  <2>2. \A j \in 1 .. r : bytes[j] = Byte(s, p + (j - 1))
    <3> TAKE j \in 1 .. r
    <3>1. bytes[j] = Characters(s)[p + j]
      OBVIOUS
    <3> HIDE DEF bytes
    <3> QED BY <2>1, <3>1, CharactersAre DEF Parted
  <2>3. /\ r = 0 => Times31Tail(s) = <<>>
        /\ r = 2 => Times31Tail(s) = <<Byte(s, p), Byte(s, p + 1)>>
        /\ r = 3 => Times31Tail(s) = <<Byte(s, p), Byte(s, p + 1), Byte(s, p + 2)>>
    <3> HIDE DEF bytes
    <3>1. s.length % 4 = r /\ s.length - (s.length % 4) = p
      BY DEF Parted
    <3>2. Times31Tail(s) = CASE r = 0 -> <<>>
                             [] r = 1 -> <<Byte(s, p + 1)>>
                             [] r = 2 -> <<Byte(s, p), Byte(s, p + 1)>>
                             [] r = 3 -> <<Byte(s, p), Byte(s, p + 1), Byte(s, p + 2)>>
      BY <3>1 DEF Times31Tail
    <3> QED BY <3>2
  <2>4. bytes = [j \in 1 .. r |-> Byte(s, p + (j - 1))]
    BY <2>2
  <2> HIDE DEF bytes
  <2>5. CASE r = 0
    BY <2>3, <2>4, <2>5
  <2>6. CASE r = 2
    <3>1. p + (1 - 1) = p /\ p + (2 - 1) = p + 1
      BY <1>1
    <3> QED BY <2>3, <2>4, <2>6, <3>1
  <2>7. CASE r = 3
    <3>1. p + (1 - 1) = p /\ p + (2 - 1) = p + 1 /\ p + (3 - 1) = p + 2
      BY <1>1
    <3> QED BY <2>3, <2>4, <2>7, <3>1
  <2> QED BY <1>1, <2>5, <2>6, <2>7
<1>4. bytes \in [1 .. r -> Nat]
  <2>1. \A j \in 1 .. r : p + j \in 1 .. n
    BY <1>1
  <2>2. \A j \in 1 .. r : Characters(s)[p + j] \in Nat
    <3> QED BY <2>1, CharactersAre DEF Parted
  <2> QED BY <2>2
<1>5. Walks(w, r, first, bytes, seed)
  <2> DEFINE b == Characters(s)
  <2>1. Walks(h, n, 0, b, seed)
    OBVIOUS
  <2> HIDE DEF b, seed, first
  <2> HIDE DEF w, bytes
  <2>2. Walks(Rest(h, p, r), r, h[p], RestOf(b, p, r), seed)
    BY ONLY n \in Nat, p \in Nat, r \in Nat, <1>1, <2>1, WalkOn
  <2> QED BY <1>2, <2>2 DEF b, w, bytes, Rest, RestOf
<1>6. first \in Nat /\ w[r] = h[n]
  <2>1. p \in 0 .. n /\ r \in 0 .. r
    BY <1>1
  <2>2. h[p] \in Nat
    BY <2>1 DEF Walks
  <2> HIDE DEF first
  <2> QED BY <1>1, <1>2, <2>1, <2>2
<1>7. BKDRHash_31(s) = Horner(first, bytes, seed)
  BY <1>3 DEF BKDRHash_31
<1> HIDE DEF seed, first, bytes, w
<1>8. Horner(first, bytes, seed) = w[r]
  BY ONLY <1>1, <1>4, <1>5, <1>6, HornerIs
<1> QED BY <1>6, <1>7, <1>8

\* What is fed by whole words and then the rest is what is read.
LEMMA WholeIs ==
  ASSUME NEW s, Stringy(s), NEW k \in {4, 8}
  PROVE  LET m == s.length \div k
         IN  /\ m \in Nat /\ k * m \in Nat /\ k * m <= s.length
             /\ WholeWords(s, k) \in Seq(Bytes) /\ Len(WholeWords(s, k)) = k * m
             /\ \A p \in 1 .. k * m : WholeWords(s, k)[p] = Byte(s, p - 1)
<1>1. s.length \in Nat
  BY CharactersAre
<1>2. PICK m \in Nat : m = s.length \div k /\ k * m \in Nat /\ k * m <= s.length
  <2>1. CASE k = 4
    BY <1>1, <2>1
  <2>2. CASE k = 8
    BY <1>1, <2>2
  <2> QED BY <2>1, <2>2
<1> DEFINE pieces == [w \in 1 .. m |-> Load(s, (w - 1) * k, k)]
<1>3. pieces \in Rows(Bytes, m, k)
  <2>1. \A w \in 1 .. m : Load(s, (w - 1) * k, k) \in Seq(Bytes)
                          /\ Len(Load(s, (w - 1) * k, k)) = k
    <3> TAKE w \in 1 .. m
    <3>1. PICK i \in Int : i = (w - 1) * k
      OBVIOUS
    <3>2. k \in Nat
      OBVIOUS
    <3> QED BY <3>1, <3>2, LoadTyped
  <2> QED BY <2>1 DEF Rows
<1>4. WholeWords(s, k) = FlattenSeq(pieces)
  BY <1>2 DEF WholeWords
<1>5. FlattenSeq(pieces) = Laid(pieces, m, k)
  <2> HIDE DEF pieces
  <2> QED BY <1>3, FlattenedIs
<1>6. Laid(pieces, m, k) \in Seq(Bytes) /\ Len(Laid(pieces, m, k)) = k * m
  <2> HIDE DEF pieces
  <2>1. m \in 0 .. m
    OBVIOUS
  <2> QED BY <1>3, <2>1, LaidTyped
<1>7. ASSUME NEW p \in 1 .. k * m
      PROVE  Laid(pieces, m, k)[p] = Byte(s, p - 1)
  <2> DEFINE w == (p - 1) \div k + 1
             j == ((p - 1) % k) + 1
  <2>1. /\ w \in 1 .. m /\ j \in 1 .. k
        /\ (w - 1) * k \in Int /\ (w - 1) * k + j - 1 = p - 1
    <3>1. CASE k = 4
      BY <1>2, <3>1
    <3>2. CASE k = 8
      BY <1>2, <3>2
    <3> QED BY <3>1, <3>2
  <2>2. Laid(pieces, m, k)[p] = pieces[w][j]
    BY DEF Laid
  <2> HIDE DEF w, j
  <2>3. pieces[w] = Load(s, (w - 1) * k, k)
    BY <2>1
  <2> HIDE DEF pieces
  <2>4. PICK i \in Int : i = (w - 1) * k
    BY <2>1
  <2>5. k \in Nat
    OBVIOUS
  <2>6. Load(s, i, k)[j] = Byte(s, i + j - 1)
    BY <2>1, <2>5, LoadTyped
  <2> QED BY <2>1, <2>2, <2>3, <2>4, <2>6
<1> HIDE DEF pieces
<1> QED BY <1>2, <1>4, <1>5, <1>6, <1>7

\* Together they are the characters.
LEMMA WholeThenRest ==
  ASSUME NEW s, Stringy(s), NEW k \in {4, 8}
  PROVE  LET i == Len(WholeWords(s, k))
         IN  /\ i = k * (s.length \div k)
             /\ WholeWords(s, k) \o Load(s, i, s.length - i) = Characters(s)
<1>1. s.length \in Nat
  BY CharactersAre
<1>2. PICK n \in Nat : n = s.length
  BY <1>1
<1>3. PICK i \in Nat : i = Len(WholeWords(s, k)) /\ i = k * (s.length \div k) /\ i <= n
  BY <1>2, WholeIs
<1>4. PICK r \in Nat : r = n - i
  BY <1>3
<1> DEFINE a == WholeWords(s, k)
           b == Load(s, i, r)
           c == Characters(s)
<1>5. a \in Seq(Bytes) /\ Len(a) = i /\ \A p \in 1 .. i : a[p] = Byte(s, p - 1)
  BY <1>3, WholeIs
<1>6. b \in Seq(Bytes) /\ Len(b) = r /\ \A j \in 1 .. r : b[j] = Byte(s, i + j - 1)
  BY LoadTyped
<1>7. c \in Seq(Bytes) /\ Len(c) = n /\ \A p \in 1 .. n : c[p] = Byte(s, p - 1)
  <2>1. c = Load(s, 0, n)
    BY <1>2 DEF Characters
  <2>2. c \in Seq(Bytes) /\ Len(c) = n
    BY <2>1, LoadTyped
  <2>3. \A p \in 1 .. n : c[p] = Byte(s, p - 1)
    BY <1>2, CharactersAre
  <2> QED BY <2>2, <2>3
<1> HIDE DEF a, b, c
<1>8. /\ a \o b \in Seq(Bytes) /\ Len(a \o b) = Len(a) + Len(b)
      /\ \A p \in 1 .. Len(a) + Len(b) :
           (a \o b)[p] = IF p <= Len(a) THEN a[p] ELSE b[p - Len(a)]
  BY <1>5, <1>6, ConcatProperties
<1>9. Len(a) + Len(b) = n
  BY <1>3, <1>4, <1>5, <1>6
<1>10. ASSUME NEW p \in 1 .. n
       PROVE  (a \o b)[p] = c[p]
  <2>1. CASE p <= i
    <3>1. p \in 1 .. i
      BY <2>1
    <3> QED BY <1>5, <1>7, <1>8, <1>9, <3>1
  <2>2. CASE ~(p <= i)
    <3>1. PICK j \in 1 .. r : j = p - i
      BY <1>3, <1>4, <2>2
    <3>2. i + j - 1 = p - 1
      BY <3>1
    <3>3. (a \o b)[p] = b[j]
      BY <1>5, <1>8, <1>9, <2>2, <3>1
    <3> QED BY <1>6, <1>7, <3>2, <3>3
  <2> QED BY <2>1, <2>2
<1>11. a \o b = c
  <2>1. Len(a \o b) = Len(c)
    BY <1>7, <1>8, <1>9
  <2>2. \A p \in 1 .. Len(a \o b) : (a \o b)[p] = c[p]
    BY <1>8, <1>9, <1>10
  <2> QED BY <1>7, <1>8, <2>1, <2>2, SeqEqual
<1> QED BY <1>2, <1>3, <1>4, <1>11 DEF a, b, c

\* The three forms of the checksum by instructions.
LEMMA HardwareIs ==
  ASSUME NEW s, Stringy(s)
  PROVE  /\ crc32c_hw_u64(s) = Characters(s)
         /\ crc32c_hw_u64_v2(s) = Characters(s)
         /\ crc32c_hw_u32(s) = Characters(s)
<1>1. s.length \in Nat
  BY CharactersAre
<1>2. /\ Len(WholeWords(s, 8)) = 8 * (s.length \div 8)
      /\ WholeWords(s, 8) \o Load(s, Len(WholeWords(s, 8)), s.length - Len(WholeWords(s, 8)))
           = Characters(s)
  BY WholeThenRest
<1>3. WholeWords(s, 4) \o Load(s, Len(WholeWords(s, 4)), s.length - Len(WholeWords(s, 4)))
        = Characters(s)
  BY WholeThenRest
<1>4. crc32c_hw_u64(s) = Characters(s)
  <2>1. PICK i \in Nat : i = (s.length \div 8) * 8 /\ i = 8 * (s.length \div 8)
    BY <1>1
  <2>2. crc32c_hw_u64(s) = WholeWords(s, 8) \o Load(s, i, s.length - i)
    BY <2>1 DEF crc32c_hw_u64, Load
  <2> QED BY <1>2, <2>1, <2>2
<1> QED BY <1>2, <1>3, <1>4 DEF crc32c_hw_u64_v2, crc32c_hw_u32

\* The masked words of a string that is whole words are its characters.
LEMMA MaskedWhole ==
  ASSUME NEW s, Stringy(s), NEW k \in {4, 8}, s.length % 8 = 0
  PROVE  MaskedWords(s, k) = Characters(s)
<1>1. s.length \in Nat
  BY CharactersAre
<1>2. PICK m \in Nat : m = WordCount(s, k) /\ k * m = s.length
  <2>1. CASE k = 4
    BY <1>1, <2>1 DEF WordCount
  <2>2. CASE k = 8
    BY <1>1, <2>2 DEF WordCount
  <2> QED BY <2>1, <2>2
<1> DEFINE pieces == [w \in 1 .. m |-> LoadMasked(s, (w - 1) * k, k)]
           a == MaskedWords(s, k)
           c == Characters(s)
<1>3. pieces \in Rows(Bytes, m, k)
  <2>1. \A w \in 1 .. m : LoadMasked(s, (w - 1) * k, k) \in Seq(Bytes)
                          /\ Len(LoadMasked(s, (w - 1) * k, k)) = k
    <3> TAKE w \in 1 .. m
    <3>1. PICK i \in Int : i = (w - 1) * k
      OBVIOUS
    <3>2. k \in Nat
      OBVIOUS
    <3> QED BY <3>1, <3>2, LoadTyped
  <2> QED BY <2>1 DEF Rows
<1>4. a = Laid(pieces, m, k)
  <2>1. a = FlattenSeq(pieces)
    BY <1>2 DEF MaskedWords
  <2> HIDE DEF pieces, a
  <2> QED BY <1>3, <2>1, FlattenedIs
<1>5. a \in Seq(Bytes) /\ Len(a) = s.length
  <2>1. m \in 0 .. m
    OBVIOUS
  <2> HIDE DEF pieces, a
  <2> QED BY <1>2, <1>3, <1>4, <2>1, LaidTyped
<1>6. \A p \in 1 .. s.length : a[p] = Byte(s, p - 1)
  <2> TAKE p \in 1 .. s.length
  <2>1. PICK r \in 0 .. s.length - 1 : r + 1 = p /\ r = p - 1
    <3>1. p - 1 \in 0 .. s.length - 1 /\ (p - 1) + 1 = p
      BY <1>1
    <3> QED BY <3>1
  <2> QED BY <2>1, MaskedIs
<1>7. c \in Seq(Bytes) /\ Len(c) = s.length /\ \A p \in 1 .. s.length : c[p] = Byte(s, p - 1)
  BY <1>1, LoadTyped, CharactersAre DEF Characters
<1> HIDE DEF a, c
<1>8. a = c
  <2>1. \A p \in 1 .. Len(a) : a[p] = c[p]
    BY <1>5, <1>6, <1>7
  <2> QED BY <1>5, <1>7, <2>1, SeqEqual
<1> QED BY <1>8 DEF a, c

\* The steps of APHash over the characters.
LEMMA APPlain ==
  ASSUME NEW s, Stringy(s)
  PROVE  APHash(s) = [i \in 1 .. s.length |->
                        << IF i % 2 = 1 THEN "even" ELSE "odd", Characters(s)[i] >>]
<1>1. s.length \in Nat
  BY CharactersAre
<1>2. APHash(s) = [i \in 1 .. s.length |-> APHash(s)[i]]
  <2>1. APHash(s) \in Seq(APSteps) /\ Len(APHash(s)) = s.length
    BY APAt
  <2> QED BY <1>1, <2>1
<1>3. \A i \in 1 .. s.length :
        APHash(s)[i] = << IF i % 2 = 1 THEN "even" ELSE "odd", Characters(s)[i] >>
  BY APAt, CharactersAre
<1> QED BY <1>2, <1>3

\* Every form of a function gives what its plain form gives.
LEMMA StringyVaried == BothStringy => VariantsAgree
<1> SUFFICES ASSUME BothStringy, SameContent PROVE VariantsAgree
  BY DEF VariantsAgree
<1> DEFINE plain == Characters(left)
<1>1. Stringy(left) /\ Stringy(right) /\ Characters(right) = plain
  BY DEF BothStringy, SameContent
<1>2. PICK n \in Nat, p \in Nat, r \in Nat : Parted(left, n, p, r)
  BY <1>1, EachParted
<1>3. n = left.length /\ r = left.length % 4
  BY <1>2 DEF Parted
<1>4. plain \in [1 .. n -> Nat]
  BY <1>1, <1>3, CharactersAre
<1>5. 0 \in Nat /\ 5381 % Mod \in Nat /\ 131 \in Nat /\ 31 \in Nat /\ 33 \in Nat
  <2>1. 5381 \in Nat /\ 131 \in Nat /\ 31 \in Nat /\ 33 \in Nat
    OBVIOUS
  <2> QED BY <2>1, ModTyped, RemainderSame
<1> HIDE DEF plain
<1>6. \A first \in Nat, seed \in Nat : \E h :
        Walks(h, n, first, plain, seed) /\ Horner(first, plain, seed) = h[n]
  <2> TAKE first \in Nat, seed \in Nat
  <2>1. PICK h : Walks(h, n, first, plain, seed)
    BY <1>4, WalkExists
  <2>2. Horner(first, plain, seed) = h[n]
    BY ONLY n \in Nat, first \in Nat, seed \in Nat, <1>4, <2>1, HornerIs
  <2> QED BY <2>1, <2>2
<1>7. BKDRHash(left) = Horner(0, plain, 131)
  <2>1. PICK h : Walks(h, n, 0, plain, 131) /\ Horner(0, plain, 131) = h[n]
    BY <1>5, <1>6
  <2>2. BKDRHash(left) = h[n]
    BY <1>1, <1>2, <2>1, BKDRIs DEF plain
  <2> QED BY <2>1, <2>2
<1>8. PICK h : Walks(h, n, 0, plain, 31) /\ Horner(0, plain, 31) = h[n]
  BY <1>5, <1>6
<1>9. BKDRHash_31_std(left) = Horner(0, plain, 31)
  BY <1>1, <1>3, <1>8, StdIs DEF plain
<1>10. left.length % 4 # 1 => BKDRHash_31(left) = Horner(0, plain, 31)
  BY <1>1, <1>2, <1>3, <1>8, Times31Is DEF plain
<1>11. BKDRHash_31_u64(left) = BKDRHash_31(left)
  BY DEF BKDRHash_31_u64, BKDRHash_31
<1>12. DJBHash(left) = Horner(5381 % Mod, plain, 33)
  <2>1. PICK w : Walks(w, n, 5381 % Mod, plain, 33) /\ Horner(5381 % Mod, plain, 33) = w[n]
    BY <1>5, <1>6
  <2>2. DJBHash(left) = w[n]
    BY <1>1, <1>3, <2>1, DJBIs DEF plain
  <2> QED BY <2>1, <2>2
<1>13. APHash(left) = [i \in 1 .. left.length |->
                        << IF i % 2 = 1 THEN "even" ELSE "odd", plain[i] >>]
  BY <1>1, APPlain DEF plain
<1>14. crc32c_hw_u64(left) = plain /\ crc32c_hw_u64_v2(left) = plain /\ crc32c_hw_u32(left) = plain
  BY <1>1, HardwareIs DEF plain
<1>15. left.length % 8 = 0 => crc32c_x64(left) = plain /\ crc32c_x86(left) = plain
  BY <1>1, MaskedWhole DEF crc32c_x64, crc32c_x86, plain
<1> QED BY <1>1, <1>7, <1>8, <1>9, <1>10, <1>11, <1>12, <1>13, <1>14, <1>15
        DEF VariantsAgree

-----------------------------------------------------------------------------
\* Whatever the strings and wherever they lie, is_equals tells them apart by
\* their characters only, though it reads words and groups of 16.
THEOREM EqualityAlwaysExact ==
  ASSUME S!StringsAssumption
  PROVE  S!Spec => []EqualityIsExact
<1>1. S!Init => BothStringy
  BY InitStringy
<1>2. BothStringy /\ [S!Next]_S!vars => BothStringy'
  BY NextStringy
<1>3. BothStringy => EqualityIsExact
  BY StringyExact
<1> QED BY <1>1, <1>2, <1>3, PTL DEF S!Spec

\* Whatever the strings, the first character that differs decides their order,
\* and Slice's comparisons agree with it.
THEOREM OrderAlwaysSound ==
  ASSUME S!StringsAssumption
  PROVE  S!Spec => []OrderIsSound
<1>1. S!Init => BothStringy
  BY InitStringy
<1>2. BothStringy /\ [S!Next]_S!vars => BothStringy'
  BY NextStringy
<1>3. BothStringy => OrderIsSound
  BY StringyOrdered
<1> QED BY <1>1, <1>2, <1>3, PTL DEF S!Spec

\* Wherever two equal keys lie, they have one hash code in every function but
\* the two that the property excepts, so that a stored key is found again.
THEOREM KeysAlwaysHashEqually ==
  ASSUME S!StringsAssumption
  PROVE  S!Spec => []EqualKeysHashEqually
<1>1. S!Init => BothStringy
  BY InitStringy
<1>2. BothStringy /\ [S!Next]_S!vars => BothStringy'
  BY NextStringy
<1>3. BothStringy => EqualKeysHashEqually
  BY StringyHashed
<1> QED BY <1>1, <1>2, <1>3, PTL DEF S!Spec

\* Whatever two keys of one length differ in, a function is told it: no word,
\* block, lane or rest of a key is left out.
THEOREM EveryByteAlwaysCounts ==
  ASSUME S!StringsAssumption
  PROVE  S!Spec => []EveryByteCounts
<1>1. S!Init => BothStringy
  BY InitStringy
<1>2. BothStringy /\ [S!Next]_S!vars => BothStringy'
  BY NextStringy
<1>3. BothStringy => EveryByteCounts
  BY StringyCounted
<1> QED BY <1>1, <1>2, <1>3, PTL DEF S!Spec

\* Whatever the string, the forms of a hash function that are written out for
\* speed give what its plain form gives, one byte after the other.
THEOREM VariantsAlwaysAgree ==
  ASSUME S!StringsAssumption
  PROVE  S!Spec => []VariantsAgree
<1>1. S!Init => BothStringy
  BY InitStringy
<1>2. BothStringy /\ [S!Next]_S!vars => BothStringy'
  BY NextStringy
<1>3. BothStringy => VariantsAgree
  BY StringyVaried
<1> QED BY <1>1, <1>2, <1>3, PTL DEF S!Spec
=============================================================================
