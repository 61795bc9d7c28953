-------------------------- MODULE FirstPassProofs ---------------------------
(***************************************************************************)
(* Proofs about FirstPass, for any document, any metadata given and any    *)
(* extensions: the first pass keeps every letter of the document, and in   *)
(* one place, in a definition or in the text.                              *)
(***************************************************************************)
EXTENDS InlineProofs

-----------------------------------------------------------------------------
(* The inductive invariant *)

\* Where a character of the document is kept.
InTaken(p) == {k \in DOMAIN taken : taken[k].own /\ p \in taken[k].kept}
Places(s, p) == {k \in DOMAIN s : s[k] = p}
Nowhere(p) == InTaken(p) = {} /\ Places(source, p) = {}
Once(p) ==
    \/ Places(source, p) = {} /\ \E k \in DOMAIN taken : InTaken(p) = {k}
    \/ InTaken(p) = {} /\ \E k \in DOMAIN source : Places(source, p) = {k}

\* The document's own metadata, which is parsed once, among the strings given.
OwnString == SubSeq(data, 1, MetaEnd - 1)
OwnMetadata ==
    /\ \A k \in DOMAIN metas : metas[k].own => HasMetadata /\ metas[k].string = OwnString
    /\ \A j, k \in DOMAIN metas : metas[j].own /\ metas[k].own => j = k
    /\ outcome = "called" /\ HasMetadata => \E k \in DOMAIN metas : metas[k].own
    /\ outcome = "metadata" => metas # <<>> /\ (metas[1].own => beg \in Start..MetaEnd - 1)

\* How far the document has been read.
LinesBegin == IF HasMetadata THEN MetaEnd + 1 ELSE Start
ReadTo ==
    IF outcome = "reading" \/ (outcome = "metadata" /\ metas[1].own) THEN beg
    ELSE IF outcome = "metadata" /\ \A k \in DOMAIN metas : ~ metas[k].own THEN LinesBegin
    ELSE IF outcome \in {"parsing", "done", "refused"} THEN Beyond
    ELSE 1
LettersKept ==
    \A p \in DOMAIN data :
        /\ p < ReadTo /\ data[p] \in Letters => Once(p)
        /\ p >= ReadTo => Nowhere(p)

\* What the definitions and the sources of the text are.
IsDefinition(d) ==
    d = [what |-> d.what, key |-> d.key, kept |-> d.kept, own |-> d.own, end |-> d.end]
KeptTyped ==
    /\ IsSequence(taken) /\ \A k \in DOMAIN taken : IsDefinition(taken[k])
    /\ source \in Seq(Int) /\ IsSequence(metas)

KeptInv == KeptTyped /\ OwnMetadata /\ LettersKept

-----------------------------------------------------------------------------
(* What a definition keeps of the lines it takes *)

\* Of the places from p up to `end', those with letters are in `kept', which
\* has no others.
NoLetter(p, end) == \A q \in p..end - 1 : q < Beyond => data[q] \notin Letters
Covers(kept, p, end) ==
    /\ p \in Int /\ end \in Int /\ p <= end /\ kept \subseteq p..end - 1
    /\ \A q \in p..end - 1 : q < Beyond /\ data[q] \in Letters => q \in kept

LEMMA CoversNone ==
    ASSUME NEW p \in Int, NEW end \in Int, p <= end, NoLetter(p, end)
    PROVE  Covers({}, p, end)
  BY DEF Covers, NoLetter

LEMMA CoversAll ==
    ASSUME NEW p \in Int, NEW end \in Int, p <= end
    PROVE  Covers(p..end - 1, p, end)
  BY DEF Covers

LEMMA CoversBoth ==
    ASSUME NEW S, NEW T, NEW p, NEW mid, NEW end, Covers(S, p, mid), Covers(T, mid, end)
    PROVE  Covers(S \cup T, p, end)
  <1>1. p \in Int /\ mid \in Int /\ end \in Int /\ p <= mid /\ mid <= end
    BY DEF Covers
  <1>2. S \subseteq p..mid - 1 /\ T \subseteq mid..end - 1
    BY DEF Covers
  <1>3. S \cup T \subseteq p..end - 1
    BY <1>1, <1>2
  <1>4. ASSUME NEW q \in p..end - 1, q < Beyond, data[q] \in Letters
        PROVE  q \in S \cup T
    <2>1. q \in p..mid - 1 \/ q \in mid..end - 1
      BY <1>1
    <2> QED BY <1>4, <2>1 DEF Covers
  <1> QED BY <1>1, <1>3, <1>4 DEF Covers

\* Characters that are passed before and behind.
LEMMA CoversPassed ==
    ASSUME NEW S, NEW p, NEW a, NEW b, NEW end, Covers(S, a, b),
           Covers({}, p, a), Covers({}, b, end)
    PROVE  Covers(S, p, end)
  <1>1. Covers({} \cup S, p, b)
    BY ONLY Covers(S, a, b), Covers({}, p, a), CoversBoth
  <1>2. Covers(({} \cup S) \cup {}, p, end)
    BY ONLY <1>1, Covers({}, b, end), CoversBoth
  <1>3. ({} \cup S) \cup {} = S
    OBVIOUS
  <1> QED BY <1>2, <1>3

LEMMA CoversOne ==
    ASSUME NEW p \in Int, data[p] \notin Letters
    PROVE  Covers({}, p, p + 1)
  <1>1. \A q \in p..(p + 1) - 1 : q = p
    OBVIOUS
  <1> QED BY <1>1 DEF Covers

LEMMA CoversEmpty ==
    ASSUME NEW p \in Int
    PROVE  Covers({}, p, p)
  BY DEF Covers

\* None of the characters that the first pass looks for is a letter.
LEMMA NoLetters ==
    /\ \A c \in {" ", "\n", "\r", "\t", "[", "]", ":", "^", "<", ">", "{", "}", "'", "\"",
                 "(", ")", "bom"} : c \notin Letters
  BY DEF Letters

LEMMA BlanksPass ==
    ASSUME IsSequence(data), NEW p \in Int
    PROVE  /\ Covers({}, p, Blanks(p)) /\ \A q \in p..Blanks(p) - 1 : data[q] = " "
           /\ (p <= Beyond => Blanks(p) <= Beyond) /\ (p >= Beyond => Blanks(p) = p)
           /\ Blanks(p) < Beyond => data[Blanks(p)] # " "
  <1>1. PICK B \in Int : B = Beyond
    BY BeyondIs
  <1>2. PICK C : C = {" "}
    OBVIOUS
  <1>3. PICK e \in Int : e = Past(data, p, B, C)
    BY PastFinds
  <1>4. /\ p <= e /\ (p <= B => e <= B) /\ (p >= B => e = p) /\ (e < B => data[e] \notin C)
        /\ \A q \in p..e - 1 : data[q] \in C
    BY <1>3, PastFinds
  <1>5. Blanks(p) = e
    BY <1>1, <1>2, <1>3 DEF Blanks
  <1>6. \A q \in p..e - 1 : data[q] = " "
    BY <1>2, <1>4
  <1>7. Covers({}, p, e)
    BY <1>4, <1>6, NoLetters DEF Covers
  <1> QED BY <1>1, <1>2, <1>4, <1>5, <1>6, <1>7

LEMMA UpToPasses ==
    ASSUME IsSequence(data), NEW p \in Int, NEW n \in Nat
    PROVE  Covers({}, p, UpTo(p, n)) /\ UpTo(p, n) <= Blanks(p) /\ UpTo(p, n) <= p + n
  <1>1. PICK x, y \in Int : x = Blanks(p) /\ y = p + n
    BY PlaceIs
  <1>2. Min({x, y}) \in {x, y} /\ Min({x, y}) <= x /\ Min({x, y}) <= y
    BY MinOf2
  <1>3. PICK u \in Int : u = UpTo(p, n) /\ u \in {x, y} /\ u <= x /\ u <= y
    BY <1>1, <1>2 DEF UpTo
  <1>4. Covers({}, p, x)
    BY <1>1, BlanksPass
  <1>5. Covers({}, p, u)
    BY <1>1, <1>3, <1>4 DEF Covers
  <1> QED BY <1>1, <1>3, <1>5

LEMMA EolPasses ==
    ASSUME IsSequence(data), NEW p \in Int
    PROVE  /\ Covers({}, p, EolEnd(p))
           /\ Is(p, Eol) => Covers({}, p, EolEnd(p) + 1)
  <1>1. CASE IsAt(data, p, Beyond, <<"\n", "\r">>)
    <2>1. EolEnd(p) = p + 1
      BY <1>1 DEF EolEnd
    <2>2. data[p] = "\n" /\ data[p + 1] = "\r"
      <3>1. /\ Len(<<"\n", "\r">>) = 2 /\ 1 \in 1..2 /\ 2 \in 1..2
            /\ <<"\n", "\r">>[1] = "\n" /\ <<"\n", "\r">>[2] = "\r"
            /\ p + 1 - 1 = p /\ p + 2 - 1 = p + 1
        OBVIOUS
      <3> HIDE DEF Beyond
      <3> QED BY <1>1, <3>1 DEF IsAt
    <2>3. Covers({}, p, p + 1)
      BY <2>2, NoLetters, CoversOne
    <2>4. PICK q \in Int : q = p + 1
      OBVIOUS
    <2>5. Covers({}, q, q + 1)
      BY <2>2, <2>4, NoLetters, CoversOne
    <2>6. Covers({}, p, q + 1)
      BY <2>3, <2>4, <2>5, CoversBoth
    <2> QED BY <2>1, <2>3, <2>4, <2>6
  <1>2. CASE ~ IsAt(data, p, Beyond, <<"\n", "\r">>)
    <2>1. EolEnd(p) = p
      BY <1>2 DEF EolEnd
    <2>2. Is(p, Eol) => data[p] \notin Letters
      BY NoLetters DEF Is, Eol
    <2>3. Is(p, Eol) => Covers({}, p, p + 1)
      BY <2>2, CoversOne
    <2> QED BY <2>1, <2>3, CoversEmpty
  <1> QED BY <1>1, <1>2

-----------------------------------------------------------------------------
(* Definitions of links *)

\* The link is behind characters that are no letters.
LEMMA RefLinkPasses ==
    ASSUME IsSequence(data), NEW close \in Int
    PROVE  RefLink(close) = 0 \/ Covers({}, close + 2, RefLink(close))
  <1>1. PICK c \in Int : c = close + 2
    OBVIOUS
  <1>2. PICK spacer \in Int : spacer = Blanks(c)
    BY PlaceIs
  <1>3. Covers({}, c, spacer)
    BY <1>2, BlanksPass
  <1>4. PICK r \in Int : r = IF Is(spacer, Eol) THEN EolEnd(spacer) + 1 ELSE spacer
    BY PlaceIs
  <1>5. Covers({}, spacer, r)
    BY <1>4, EolPasses, CoversEmpty
  <1>6. PICK angle \in Int : angle = Blanks(r)
    BY PlaceIs
  <1>7. Covers({}, r, angle)
    BY <1>6, BlanksPass
  <1>8. Covers({}, c, angle)
    <2>1. Covers({} \cup {}, c, r)
      BY ONLY <1>3, <1>5, CoversBoth
    <2>2. Covers(({} \cup {}) \cup {}, c, angle)
      BY ONLY <2>1, <1>7, CoversBoth
    <2>3. ({} \cup {}) \cup {} = {}
      OBVIOUS
    <2> QED BY <2>2, <2>3
  <1>9. RefLink(close) = IF AtEnd(angle) THEN 0
                         ELSE IF data[angle] = "<" THEN angle + 1 ELSE angle
    BY <1>1, <1>2, <1>4, <1>6 DEF RefLink
  <1>10. data[angle] = "<" => Covers({}, c, angle + 1)
    <2>1. data[angle] = "<" => Covers({}, angle, angle + 1)
      BY NoLetters, CoversOne
    <2>2. {} \cup {} = {}
      OBVIOUS
    <2> QED BY <1>8, <2>1, <2>2, CoversBoth
  <1> QED BY <1>1, <1>8, <1>9, <1>10

\* Titles and attributes are kept, but for what encloses them.
Passes(r, p) == r.end = 0 \/ Covers(r.kept, p, r.end)

LEMMA NothingIs == \A p : Nothing(p).kept = {} /\ Nothing(p).end = p
  BY DEF Nothing

LEMMA EnclosedPasses ==
    ASSUME NEW p \in Int, NEW stop \in Int, p <= stop, NEW C, \A c \in C : c \notin Letters
    PROVE  Passes(Enclosed(p, stop, C), p)
  <1> DEFINE S == {q \in p..stop - 1 : data[q] \in C} \cup {p - 1}
  <1>1. PICK hi \in Int : hi = stop
    OBVIOUS
  <1>2. S \subseteq Int /\ (\A x \in S : x <= hi) /\ p - 1 \in S
    BY <1>1
  <1>3. PICK close \in S : close = Max(S) /\ \A x \in S : x <= close
    <2> HIDE DEF S
    <2> QED BY <1>2, MaxOf
  <1>4. CASE \E q \in close + 1..stop - 1 : data[q] # " "
    <2>1. Enclosed(p, stop, C) = Nothing(0)
      BY <1>3, <1>4 DEF Enclosed
    <2> QED BY <2>1, NothingIs DEF Passes
  <1>5. CASE ~ \E q \in close + 1..stop - 1 : data[q] # " "
    <2>1. Enclosed(p, stop, C) = [kept |-> p..close - 1, end |-> stop]
      BY <1>3, <1>5 DEF Enclosed
    <2>2. close \in Int /\ p - 1 <= close /\ close <= stop
      BY <1>2, <1>3
    <2>3. CASE close < p
      <3>1. close = p - 1
        BY <2>2, <2>3
      <3>2. p..close - 1 = {}
        BY <3>1
      <3>3. \A q \in p..stop - 1 : data[q] \notin Letters
        <4>1. close + 1 = p
          BY <3>1
        <4>2. \A q \in p..stop - 1 : data[q] = " "
          BY <1>5, <4>1
        <4> QED BY <4>2, NoLetters
      <3> QED BY <2>1, <3>2, <3>3 DEF Passes, Covers
    <2>4. CASE close >= p
      <3>1. data[close] \in C /\ close < stop
        BY <1>3, <2>2, <2>4
      <3>2. Covers(p..close - 1, p, close)
        BY <2>2, <2>4, CoversAll
      <3>3. ASSUME NEW q \in close..stop - 1
            PROVE  data[q] \notin Letters
        <4>1. q = close \/ q \in close + 1..stop - 1
          BY <2>2
        <4> QED BY <1>5, <3>1, <4>1, NoLetters
      <3>4. Covers({}, close, stop)
        BY <2>2, <3>1, <3>3 DEF Covers
      <3>5. Covers((p..close - 1) \cup {}, p, stop)
        BY ONLY <3>2, <3>4, CoversBoth
      <3>6. (p..close - 1) \cup {} = p..close - 1
        OBVIOUS
      <3> QED BY <2>1, <3>5, <3>6 DEF Passes
    <2> QED BY <2>2, <2>3, <2>4
  <1> QED BY <1>4, <1>5

\* What is enclosed is so from the character before it.
LEMMA OpenPasses ==
    ASSUME NEW r, NEW p \in Int, data[p] \notin Letters, Passes(r, p + 1)
    PROVE  Passes(r, p)
  <1>1. Covers({}, p, p + 1)
    BY CoversOne
  <1>2. PICK q : q = p + 1
    OBVIOUS
  <1>3. CASE Covers(r.kept, q, r.end)
    <2>1. Covers({} \cup r.kept, p, r.end)
      BY <1>1, <1>2, <1>3, CoversBoth
    <2>2. {} \cup r.kept = r.kept
      OBVIOUS
    <2> QED BY <2>1, <2>2 DEF Passes
  <1> QED BY <1>2, <1>3 DEF Passes

LEMMA RefTitleAtPasses ==
    ASSUME IsSequence(data), NEW p \in Int
    PROVE  Passes(RefTitleAt(p), p)
  <1> DEFINE opens == Is(p, {"'", "\"", "("}) /\ ~ AtEnd(p + 1)
  <1>1. CASE ~ opens
    <2>1. RefTitleAt(p) = Nothing(p)
      BY <1>1 DEF RefTitleAt
    <2> QED BY <2>1, NothingIs, CoversEmpty DEF Passes
  <1>2. CASE opens
    <2>1. PICK B \in Int : B = Beyond
      BY BeyondIs
    <2>2. PICK q \in Int : q = p + 1
      OBVIOUS
    <2>3. PICK C : C = Eol \cup Brace
      OBVIOUS
    <2>4. PICK stop \in Int : stop = Until(data, q, B, C) /\ q <= stop
      BY UntilFinds
    <2>5. PICK D : D = {"'", "\"", ")"}
      OBVIOUS
    <2>6. RefTitleAt(p) = Enclosed(q, stop, D)
      BY <1>2, <2>1, <2>2, <2>3, <2>4, <2>5 DEF RefTitleAt
    <2>7. \A c \in D : c \notin Letters
      BY <2>5, NoLetters
    <2>8. Passes(Enclosed(q, stop, D), q)
      BY <2>4, <2>7, EnclosedPasses
    <2>9. data[p] \notin Letters
      BY <1>2, NoLetters DEF Is
    <2> QED BY <2>2, <2>6, <2>8, <2>9, OpenPasses
  <1> QED BY <1>1, <1>2

LEMMA RefTitlePasses ==
    ASSUME IsSequence(data), NEW p \in Int
    PROVE  Passes(RefTitle(p), p)
  <1>1. CASE ~ (Is(p, Eol) \/ AtEnd(p))
    <2>1. RefTitle(p) = RefTitleAt(p)
      BY <1>1 DEF RefTitle
    <2> QED BY <2>1, RefTitleAtPasses
  <1>2. CASE Is(p, Eol) \/ AtEnd(p)
    <2>1. PICK e \in Int : e = EolEnd(p) + 1
      BY PlaceIs
    <2>2. PICK q \in Int : q = Blanks(e)
      BY PlaceIs
    <2>3. RefTitle(p) = RefTitleAt(q)
      BY <1>2, <2>1, <2>2 DEF RefTitle
    <2>4. Covers({}, p, e)
      <3>1. CASE Is(p, Eol)
        BY <2>1, <3>1, EolPasses
      <3>2. CASE AtEnd(p)
        <4>1. EolEnd(p) = p
          <5>1. Len(<<"\n", "\r">>) = 2
            OBVIOUS
          <5>2. PICK B \in Int : B = Beyond
            BY BeyondIs
          <5>3. ~ (p + 2 <= B)
            BY <3>2, <5>2 DEF AtEnd
          <5> QED BY <5>1, <5>2, <5>3 DEF EolEnd, IsAt
        <4>2. \A x \in p..e - 1 : ~ (x < Beyond)
          <5>1. PICK B \in Int : B = Beyond
            BY BeyondIs
          <5> QED BY <3>2, <5>1 DEF AtEnd
        <4> QED BY <2>1, <4>1, <4>2 DEF Covers
      <3> QED BY <1>2, <3>1, <3>2
    <2>5. Covers({}, e, q)
      BY <2>2, BlanksPass
    <2>6. PICK r : r = RefTitleAt(q) /\ Passes(r, q)
      BY RefTitleAtPasses
    <2>7. CASE Covers(r.kept, q, r.end)
      <3>1. Covers({} \cup {}, p, q)
        BY ONLY <2>4, <2>5, CoversBoth
      <3>2. Covers(({} \cup {}) \cup r.kept, p, r.end)
        BY ONLY <2>7, <3>1, CoversBoth
      <3>3. ({} \cup {}) \cup r.kept = r.kept
        OBVIOUS
      <3> QED BY <2>3, <2>6, <3>2, <3>3 DEF Passes
    <2> QED BY <2>3, <2>6, <2>7 DEF Passes
  <1> QED BY <1>1, <1>2

LEMMA RefAttrsPasses ==
    ASSUME IsSequence(data), NEW p \in Int
    PROVE  Passes(RefAttrs(p), p)
  <1> DEFINE opens == Is(p, Brace) /\ ~ AtEnd(p + 1)
  <1>1. CASE ~ opens
    <2>1. RefAttrs(p) = Nothing(p)
      BY <1>1 DEF RefAttrs
    <2> QED BY <2>1, NothingIs, CoversEmpty DEF Passes
  <1>2. CASE opens
    <2>1. data[p] = "{"
      BY <1>2 DEF Is, Brace
    <2>2. PICK q \in Int : q = p + 1
      OBVIOUS
    <2>3. PICK stop \in Int : stop = LineEnd(p) /\ p <= stop
      BY PlaceIs
    <2>4. PICK D : D = {"}"}
      OBVIOUS
    <2>5. RefAttrs(p) = Enclosed(q, stop, D)
      BY <1>2, <2>2, <2>3, <2>4 DEF RefAttrs
    <2>6. q <= stop
      <3>1. PICK B \in Int : B = Beyond
        BY BeyondIs
      <3>2. p < B
        BY <1>2, <3>1 DEF Is, AtEnd
      <3>3. stop < B => data[stop] \in Eol
        BY <2>3, <3>1, UntilFinds DEF LineEnd
      <3>4. data[p] \notin Eol
        BY <2>1 DEF Eol
      <3> QED BY <2>2, <2>3, <3>2, <3>3, <3>4
    <2>7. \A c \in D : c \notin Letters
      BY <2>4, NoLetters
    <2>8. Passes(Enclosed(q, stop, D), q)
      BY <2>6, <2>7, EnclosedPasses
    <2>9. data[p] \notin Letters
      BY <2>1, NoLetters
    <2> QED BY <2>2, <2>5, <2>8, <2>9, OpenPasses
  <1> QED BY <1>1, <1>2

\* A definition keeps all letters of what it takes.
Defines(d, p) == d = NotDefined \/ (IsDefinition(d) /\ d.own /\ Covers(d.kept, p, d.end))

LEMMA DefinedFields ==
    \A what, key, kept, end :
        /\ IsDefinition(Defined(what, key, kept, end))
        /\ Defined(what, key, kept, end).own = TRUE
        /\ Defined(what, key, kept, end).kept = kept
        /\ Defined(what, key, kept, end).end = end
  BY DEF Defined, IsDefinition

LEMMA RefAtDefines ==
    ASSUME IsSequence(data), NEW open \in Int, NEW close \in Int, NEW link \in Int,
           NEW stop \in Int, link <= stop, NEW p, Covers(open + 1..close - 1, p, link)
    PROVE  Defines(RefAt(open, close, link, stop), p)
  <1>1. PICK behind \in Int : behind = Blanks(stop)
    BY PlaceIs
  <1>2. PICK title : title = RefTitle(behind) /\ title.end \in Int /\ Passes(title, behind)
    BY RefTitleIs, RefTitlePasses
  <1>3. PICK attrs : attrs = RefAttrs(title.end) /\ attrs.end \in Int
                     /\ Passes(attrs, title.end)
    BY <1>2, RefAttrsIs, RefAttrsPasses
  <1> DEFINE end == IF data[stop - 1] = ">" THEN stop - 1 ELSE stop
             key == SubSeq(data, open + 1, close - 1)
             name == open + 1..close - 1
             kept == name \cup (link..end - 1) \cup title.kept \cup attrs.kept
  <1>4. CASE end <= link \/ title.end = 0 \/ attrs.end = 0
    <2>1. RefAt(open, close, link, stop) = NotDefined
      BY <1>1, <1>2, <1>3, <1>4, Zenon DEF RefAt
    <2> QED BY <2>1 DEF Defines
  <1>5. CASE link < end /\ title.end # 0 /\ attrs.end # 0
    <2>1. \/ RefAt(open, close, link, stop) = NotDefined
          \/ RefAt(open, close, link, stop) = Defined("REF", key, kept, EolEnd(attrs.end))
      BY <1>1, <1>2, <1>3, Zenon DEF RefAt
    <2>2. Covers(link..end - 1, link, end)
      <3>1. PICK e \in Int : e = end /\ link <= e
        BY <1>5
      <3>2. Covers(link..e - 1, link, e)
        BY <3>1, CoversAll
      <3> QED BY <3>1, <3>2
    <2>3. Covers({}, end, stop)
      <3>1. CASE data[stop - 1] = ">"
        <4>1. PICK q \in Int : q = stop - 1
          OBVIOUS
        <4>2. Covers({}, q, q + 1)
          BY <3>1, <4>1, NoLetters, CoversOne
        <4>3. q + 1 = stop /\ end = q
          BY <3>1, <4>1
        <4> QED BY <4>2, <4>3
      <3>2. CASE data[stop - 1] # ">"
        BY <3>2, CoversEmpty
      <3> QED BY <3>1, <3>2
    <2>4. Covers({}, stop, behind)
      BY <1>1, BlanksPass
    <2>5. Covers({}, attrs.end, EolEnd(attrs.end))
      BY <1>3, EolPasses
    <2> HIDE DEF end, name
    <2>6. Covers(name, p, link)
      BY DEF name
    <2>7. Covers(name \cup (link..end - 1), p, end)
      BY ONLY <2>2, <2>6, CoversBoth
    <2>8. Covers(name \cup (link..end - 1) \cup {}, p, stop)
      BY ONLY <2>3, <2>7, CoversBoth
    <2>9. Covers(name \cup (link..end - 1) \cup {} \cup {}, p, behind)
      BY ONLY <2>4, <2>8, CoversBoth
    <2>10. Covers(title.kept, behind, title.end) /\ Covers(attrs.kept, title.end, attrs.end)
      BY <1>2, <1>3, <1>5 DEF Passes
    <2>11. Covers(name \cup (link..end - 1) \cup {} \cup {} \cup title.kept, p, title.end)
      BY ONLY <2>9, <2>10, CoversBoth
    <2>12. Covers(name \cup (link..end - 1) \cup {} \cup {} \cup title.kept \cup attrs.kept,
                  p, attrs.end)
      BY ONLY <2>10, <2>11, CoversBoth
    <2>13. Covers(name \cup (link..end - 1) \cup {} \cup {} \cup title.kept \cup attrs.kept
                    \cup {}, p, EolEnd(attrs.end))
      BY ONLY <2>5, <2>12, CoversBoth
    <2>14. name \cup (link..end - 1) \cup {} \cup {} \cup title.kept \cup attrs.kept \cup {}
             = kept
      OBVIOUS
    <2> HIDE DEF kept, key
    <2>15. Covers(kept, p, EolEnd(attrs.end))
      BY <2>13, <2>14
    <2> QED BY ONLY <2>1, <2>15, DefinedFields DEF Defines
  <1>6. link <= stop /\ end \in Int
    OBVIOUS
  <1> QED BY <1>4, <1>5, <1>6

\* The name of a definition, and the sign behind it.
LEMMA NameCovers ==
    ASSUME IsSequence(data), NEW p \in Int, NEW close, close = NameEnd(p), close # 0
    PROVE  /\ close \in Int /\ close + 2 <= Beyond
           /\ Covers(p..close - 1, p, close + 2)
  <1>1. PICK B \in Int : B = Beyond
    BY BeyondIs
  <1>2. PICK C : C = {"]"} \cup Eol
    OBVIOUS
  <1>3. PICK c \in Int : c = Until(data, p, B, C) /\ p <= c
    BY UntilFinds
  <1>4. NameEnd(p) = IF Is(c, {"]"}) /\ Is(c + 1, {":"}) THEN c ELSE 0
    BY <1>1, <1>2, <1>3 DEF NameEnd
  <1>5. close = c /\ data[c] = "]" /\ data[c + 1] = ":"
    BY <1>4 DEF Is
  <1>6. Covers(p..c - 1, p, c)
    BY <1>3, CoversAll
  <1>7. Covers({}, c, c + 1)
    BY <1>5, NoLetters, CoversOne
  <1>8. PICK d \in Int : d = c + 1
    OBVIOUS
  <1>9. Covers({}, d, d + 1)
    BY <1>5, <1>8, NoLetters, CoversOne
  <1>10. Covers((p..c - 1) \cup {}, p, d)
    BY ONLY <1>6, <1>7, <1>8, CoversBoth
  <1>11. Covers((p..c - 1) \cup {} \cup {}, p, d + 1)
    BY ONLY <1>9, <1>10, CoversBoth
  <1>12. (p..c - 1) \cup {} \cup {} = p..c - 1 /\ d + 1 = c + 2
    BY <1>8
  <1> QED BY <1>5, <1>11, <1>12, NameEndIs

LEMMA RefDefines ==
    ASSUME IsSequence(data), NEW p \in Int
    PROVE  Defines(is_ref(p), p)
  <1>0. PICK n \in Nat : n = 3
    OBVIOUS
  <1>1. PICK open \in Int : open = UpTo(p, n)
    BY PlaceIs
  <1>2. PICK o \in Int : o = open + 1
    OBVIOUS
  <1>3. PICK close \in Int : close = NameEnd(o)
    BY NameEndIs
  <1>4. PICK link \in Int : link = RefLink(close)
    BY RefLinkIs
  <1>5. PICK stop \in Int : stop = Until(data, link, Beyond, {" "} \cup Eol) /\ link <= stop
    <2>1. PICK B \in Int : B = Beyond
      BY BeyondIs
    <2>2. PICK C : C = {" "} \cup Eol
      OBVIOUS
    <2>3. PICK s \in Int : s = Until(data, link, B, C) /\ link <= s
      BY UntilFinds
    <2> QED BY <2>1, <2>2, <2>3
  <1>6. CASE data[open] # "[" \/ close = 0 \/ link = 0
    <2>1. is_ref(p) = NotDefined
      BY <1>0, <1>1, <1>2, <1>3, <1>4, <1>6, Zenon DEF is_ref
    <2> QED BY <2>1 DEF Defines
  <1>7. CASE data[open] = "[" /\ close # 0 /\ link # 0
    <2>1. is_ref(p) = NotDefined \/ is_ref(p) = RefAt(open, close, link, stop)
      BY <1>0, <1>1, <1>2, <1>3, <1>4, <1>5, Zenon DEF is_ref
    <2>2. Covers({}, p, open)
      BY <1>1, UpToPasses
    <2>3. Covers({}, open, o)
      BY <1>2, <1>7, NoLetters, CoversOne
    <2>4. Covers(o..close - 1, o, close + 2)
      BY <1>3, <1>7, NameCovers
    <2>5. Covers({}, close + 2, link)
      BY <1>4, <1>7, RefLinkPasses
    <2>6. Covers({} \cup {}, p, o)
      BY ONLY <2>2, <2>3, CoversBoth
    <2>7. {} \cup {} = {}
      OBVIOUS
    <2>8. Covers(o..close - 1, p, link)
      BY <2>4, <2>5, <2>6, <2>7, CoversPassed
    <2>9. Defines(RefAt(open, close, link, stop), p)
      BY <1>2, <1>5, <2>8, RefAtDefines
    <2> QED BY <2>1, <2>9 DEF Defines
  <1> QED BY <1>6, <1>7

-----------------------------------------------------------------------------
(* Definitions of footnotes *)

LEMMA NextLinePasses ==
    ASSUME IsSequence(data), NEW p \in Int, ~ AtEnd(p)
    PROVE  Covers({}, LineEnd(p), NextLine(p))
  <1>1. PICK B \in Int : B = Beyond
    BY BeyondIs
  <1>2. PICK e \in Int : e = LineEnd(p) /\ p <= e /\ e <= B
    BY <1>1, PlaceIs DEF AtEnd
  <1>3. e < B => data[e] \in Eol
    BY <1>1, <1>2, UntilFinds DEF LineEnd
  <1>4. e < B => Covers({}, e, e + 1)
    BY <1>3, NoLetters, CoversOne DEF Eol
  <1>5. PICK d \in Int : d = e + 1
    OBVIOUS
  <1>6. CASE IsAt(data, e, Beyond, <<"\r", "\n">>)
    <2>1. data[e] = "\r" /\ data[e + 1] = "\n" /\ e + 2 <= B
      <3>1. /\ Len(<<"\r", "\n">>) = 2 /\ 1 \in 1..2 /\ 2 \in 1..2
            /\ <<"\r", "\n">>[1] = "\r" /\ <<"\r", "\n">>[2] = "\n"
            /\ e + 1 - 1 = e /\ e + 2 - 1 = e + 1
        OBVIOUS
      <3> HIDE DEF Beyond
      <3> QED BY <1>1, <1>6, <3>1 DEF IsAt
    <2>2. NextLine(p) = d + 1
      BY <1>2, <1>5, <1>6 DEF NextLine
    <2>3. Covers({}, d, d + 1) /\ Covers({}, e, d)
      BY <1>4, <1>5, <2>1, NoLetters, CoversOne
    <2>4. Covers({} \cup {}, e, d + 1)
      BY ONLY <2>3, CoversBoth
    <2>5. {} \cup {} = {}
      OBVIOUS
    <2> QED BY <1>2, <2>2, <2>4, <2>5
  <1>7. CASE ~ IsAt(data, e, Beyond, <<"\r", "\n">>)
    <2>1. NextLine(p) = Min({d, B})
      BY <1>1, <1>2, <1>5, <1>7 DEF NextLine
    <2>2. Min({d, B}) \in {d, B} /\ Min({d, B}) <= d /\ Min({d, B}) <= B
      BY MinOf2
    <2>3. NextLine(p) = (IF e < B THEN d ELSE e)
      BY <1>2, <1>5, <2>1, <2>2
    <2> QED BY <1>2, <1>4, <1>5, <2>3, CoversEmpty
  <1> QED BY <1>6, <1>7

\* What is behind the blanks of a line, up to its end.
LEMMA LineCovers ==
    ASSUME IsSequence(data), NEW p \in Int, ~ AtEnd(p)
    PROVE  Covers(UpTo(p, 4)..LineEnd(p) - 1, p, LineEnd(p))
  <1>1. PICK B \in Int : B = Beyond
    BY BeyondIs
  <1>2. PICK e \in Int : e = LineEnd(p) /\ p <= e /\ e <= B
    BY <1>1, PlaceIs DEF AtEnd
  <1>3. PICK b \in Int : b = Blanks(p) /\ b <= B /\ \A q \in p..b - 1 : data[q] = " "
    <2>1. p <= Beyond
      BY <1>1 DEF AtEnd
    <2>2. PICK b \in Int : b = Blanks(p)
      BY PlaceIs
    <2>3. b <= B /\ \A q \in p..b - 1 : data[q] = " "
      BY <1>1, <2>1, <2>2, BlanksPass
    <2> QED BY <2>2, <2>3
  <1>4. b <= e
    <2>1. e < B => data[e] \in Eol
      BY <1>1, <1>2, UntilFinds DEF LineEnd
    <2>2. " " \notin Eol
      BY DEF Eol
    <2>3. p <= e /\ b <= B
      BY <1>2, <1>3
    <2>4. e < b => e < B /\ data[e] = " "
      <3>1. e < b => e \in p..b - 1 /\ e < B
        BY <2>3
      <3> QED BY <1>3, <3>1, Zenon
    <2>5. ~ (e < b)
      BY <2>1, <2>2, <2>4
    <2> QED BY ONLY <2>5, e \in Int, b \in Int
  <1>5. PICK n \in Nat : n = 4
    OBVIOUS
  <1>6. PICK u \in Int : u = UpTo(p, n) /\ u <= b /\ Covers({}, p, u)
    <2>1. PICK u \in Int : u = UpTo(p, n)
      BY PlaceIs
    <2>2. Covers({}, p, u) /\ u <= b
      BY <1>3, <2>1, UpToPasses
    <2> QED BY <2>1, <2>2
  <1>7. Covers(u..e - 1, u, e)
    BY <1>4, <1>6, CoversAll
  <1>8. Covers({} \cup (u..e - 1), p, e)
    BY ONLY <1>6, <1>7, CoversBoth
  <1>9. {} \cup (u..e - 1) = u..e - 1
    OBVIOUS
  <1> QED BY <1>2, <1>5, <1>6, <1>8, <1>9

LEMMA NoteLinesCover ==
    ASSUME IsSequence(data), NEW first \in Int, first <= Beyond
    PROVE  Covers(NoteLines(first).kept, first, NoteLines(first).end)
  <1>0. PICK beyond \in Int : beyond = Beyond
    BY BeyondIs
  <1> DEFINE D == first..beyond
             V == [kept : SUBSET Int, end : Int]
             Body(p, g) ==
               IF AtEnd(p) THEN Nothing(p)
               ELSE IF Blanks(p) = LineEnd(p) THEN g[NextLine(p)]
               ELSE IF UpTo(p, 4) = p /\ ~ (p = first /\ data[p] = "\t")
               THEN Nothing(p)
               ELSE [g[NextLine(p)] EXCEPT !.kept = @ \cup (UpTo(p, 4)..LineEnd(p) - 1)]
             f == CHOOSE g : g = [q \in D |-> Body(q, g)]
             rank == [q \in D |-> beyond - q]
  <1>1. NoteLines(first) = f[first]
    BY <1>0 DEF NoteLines
  <1> HIDE DEF f
  <1>2. ASSUME NEW p \in Int, NEW x \in V
        PROVE  [x EXCEPT !.kept = @ \cup (UpTo(p, 4)..LineEnd(p) - 1)] \in V
    <2>1. UpTo(p, 4)..LineEnd(p) - 1 \subseteq Int
      OBVIOUS
    <2> QED BY <2>1
  <1>3. ASSUME NEW q \in D, NEW g, ~ AtEnd(q) => g[NextLine(q)] \in V
        PROVE  Body(q, g) \in V
    <2>1. Nothing(q) \in V
      BY DEF Nothing
    <2>2. CASE ~ AtEnd(q)
      BY <1>2, <1>3, <2>1, <2>2
    <2> QED BY <2>1, <2>2
  <1>4. ASSUME NEW q \in D, NEW g, NEW h, ~ AtEnd(q) => g[NextLine(q)] = h[NextLine(q)]
        PROVE  Body(q, g) = Body(q, h)
    BY <1>4, Zenon
  <1>5. \A q \in D : ~ AtEnd(q) => NextLine(q) \in D /\ rank[NextLine(q)] < rank[q]
    <2> SUFFICES ASSUME NEW q \in D, ~ AtEnd(q)
                 PROVE  NextLine(q) \in D /\ rank[NextLine(q)] < rank[q]
      OBVIOUS
    <2>1. NextLine(q) \in Int /\ q < NextLine(q) /\ NextLine(q) <= beyond
      BY <1>0, NextLineIs
    <2> QED BY <2>1
  <1>6. Ranked(D, rank, beyond - first)
    BY <1>0 DEF Ranked
  <1> HIDE DEF Body
  <1>7. f = [q \in D |-> Body(q, f)] /\ \A q \in D : f[q] \in V
    <2> DEFINE B == [q \in D |-> [g \in [D -> V] |-> Body(q, g)]]
    <2>1. \A q \in D : \A g \in [D -> V] : B[q][g] = Body(q, g)
      OBVIOUS
    <2>2. Nothing(first) \in V
      BY DEF Nothing
    <2> HIDE DEF B, D, V, rank
    <2>3. Recursive(D, rank, V, B)
      <3>1. \A q \in D : \A g \in [D -> V] : B[q][g] \in V
        BY <2>1, <1>3, <1>5
      <3>2. ASSUME NEW q \in D, NEW g \in [D -> V], NEW h \in [D -> V],
                   \A y \in D : rank[y] < rank[q] => g[y] = h[y]
            PROVE  B[q][g] = B[q][h]
        BY <2>1, <1>4, <1>5, <3>2
      <3> QED BY <3>1, <3>2 DEF Recursive
    <2>4. PICK h \in [D -> V] : \A q \in D : h[q] = B[q][h]
      BY <1>6, <2>2, <2>3, Recursion
    <2>5. h = [q \in D |-> Body(q, h)]
      BY <2>1, <2>4
    <2>6. f = [q \in D |-> Body(q, f)]
      BY <2>5 DEF f
    <2> DEFINE G == {q \in D : f[q] \in V}
    <2>7. \A q \in D : f[q] = Body(q, f)
      BY <2>6
    <2>8. \A q \in D : (\A y \in D : rank[y] < rank[q] => y \in G) => q \in G
      BY <1>3, <1>5, <2>7
    <2>9. D \subseteq G
      <3> HIDE DEF G
      <3> QED BY <1>6, <2>8, ByRank
    <2> QED BY <2>6, <2>9
  <1>8. ASSUME NEW p \in D, ~ AtEnd(p) => Covers(f[NextLine(p)].kept, NextLine(p), f[NextLine(p)].end)
        PROVE  Covers(f[p].kept, p, f[p].end)
    <2>1. f[p] = Body(p, f)
      <3> HIDE DEF D
      <3> QED BY <1>7
    <2>2. CASE f[p] = Nothing(p)
      <3>1. f[p].kept = {} /\ f[p].end = p
        BY <2>2, NothingIs
      <3>2. Covers({}, p, p)
        BY CoversEmpty
      <3> QED BY ONLY <3>1, <3>2
    <2>3. CASE ~ AtEnd(p) /\ Blanks(p) = LineEnd(p)
      <3>1. PICK next : next = NextLine(p) /\ f[p] = f[next] /\ Covers(f[next].kept, next, f[next].end)
        BY <1>8, <2>1, <2>3 DEF Body
      <3>2. Covers({}, p, LineEnd(p)) /\ Covers({}, LineEnd(p), next)
        <4>1. Covers({}, p, Blanks(p))
          <5>1. p \in Int
            OBVIOUS
          <5> QED BY <5>1, BlanksPass
        <4>2. Covers({}, LineEnd(p), NextLine(p))
          BY <2>3, NextLinePasses
        <4> QED BY ONLY <2>3, <3>1, <4>1, <4>2
      <3>3. Covers({} \cup {}, p, next)
        BY ONLY <3>2, CoversBoth
      <3>4. Covers({} \cup {} \cup f[next].kept, p, f[next].end)
        BY ONLY <3>1, <3>3, CoversBoth
      <3>5. {} \cup {} \cup f[next].kept = f[next].kept
        OBVIOUS
      <3> QED BY <3>1, <3>4, <3>5
    <2>4. CASE /\ ~ AtEnd(p)
               /\ f[p] = [f[NextLine(p)] EXCEPT !.kept = @ \cup (UpTo(p, 4)..LineEnd(p) - 1)]
      <3>1. PICK next : next = NextLine(p) /\ next \in D
        BY <1>5, <2>4
      <3>2. PICK x \in V : x = f[next] /\ Covers(x.kept, next, x.end)
        BY <1>7, <1>8, <2>4, <3>1
      <3>3. PICK line : line = UpTo(p, 4)..LineEnd(p) - 1
        OBVIOUS
      <3>4. f[p].kept = x.kept \cup line /\ f[p].end = x.end
        BY <2>4, <3>1, <3>2, <3>3
      <3>5. Covers(line, p, LineEnd(p)) /\ Covers({}, LineEnd(p), next)
        BY <2>4, <3>1, <3>3, LineCovers, NextLinePasses
      <3>6. Covers(line \cup {}, p, next)
        BY ONLY <3>5, CoversBoth
      <3>7. Covers((line \cup {}) \cup x.kept, p, x.end)
        BY ONLY <3>2, <3>6, CoversBoth
      <3>8. (line \cup {}) \cup x.kept = x.kept \cup line
        OBVIOUS
      <3> QED BY <3>4, <3>7, <3>8
    <2> QED BY <2>1, <2>2, <2>3, <2>4 DEF Body
  <1>9. \A p \in D : Covers(f[p].kept, p, f[p].end)
    <2> DEFINE G == {p \in D : Covers(f[p].kept, p, f[p].end)}
    <2> HIDE DEF D, V, rank
    <2>1. \A q \in D : (\A y \in D : rank[y] < rank[q] => y \in G) => q \in G
      BY <1>5, <1>8
    <2>2. D \subseteq G
      <3> HIDE DEF G
      <3> QED BY <1>6, <2>1, ByRank
    <2> QED BY <2>2
  <1>10. first \in D
    BY <1>0
  <1> QED BY <1>1, <1>9, <1>10

LEMMA FootnoteDefines ==
    ASSUME IsSequence(data), NEW p \in Int
    PROVE  Defines(is_footnote(p), p)
  <1>0. PICK n \in Nat : n = 3
    OBVIOUS
  <1>1. PICK open \in Int : open = UpTo(p, n)
    BY PlaceIs
  <1>2. PICK o \in Int : o = open + 2
    OBVIOUS
  <1>3. PICK close \in Int : close = NameEnd(o)
    BY NameEndIs
  <1>4. PICK first \in Int : first = close + 2
    OBVIOUS
  <1>5. CASE ~ IsAt(data, open, Beyond, <<"[", "^">>) \/ close = 0
    <2>1. is_footnote(p) = NotDefined
      BY <1>0, <1>1, <1>2, <1>3, <1>4, <1>5, Zenon DEF is_footnote
    <2> QED BY <2>1 DEF Defines
  <1>6. CASE IsAt(data, open, Beyond, <<"[", "^">>) /\ close # 0
    <2> DEFINE key == SubSeq(data, open + 2, close - 1)
               name == open + 2..close - 1
               kept == name \cup NoteLines(first).kept
    <2>1. \/ is_footnote(p) = NotDefined
          \/ is_footnote(p) = Defined("NOTE", key, kept, NoteLines(first).end)
      BY <1>0, <1>1, <1>2, <1>3, <1>4, Zenon DEF is_footnote
    <2>2. data[open] = "[" /\ data[open + 1] = "^"
      <3>1. /\ Len(<<"[", "^">>) = 2 /\ 1 \in 1..2 /\ 2 \in 1..2
            /\ <<"[", "^">>[1] = "[" /\ <<"[", "^">>[2] = "^"
            /\ open + 1 - 1 = open /\ open + 2 - 1 = open + 1
        OBVIOUS
      <3> HIDE DEF Beyond
      <3> QED BY <1>6, <3>1 DEF IsAt
    <2>3. PICK x \in Int : x = open + 1
      OBVIOUS
    <2>4. Covers({}, p, open)
      BY <1>1, UpToPasses
    <2>5. Covers({}, open, x)
      BY <2>2, <2>3, NoLetters, CoversOne
    <2>6. Covers({}, x, o)
      <3>1. x + 1 = o
        BY <1>2, <2>3
      <3>2. Covers({}, x, x + 1)
        BY <2>2, <2>3, NoLetters, CoversOne
      <3> QED BY <3>1, <3>2
    <2>7. Covers(name, o, first) /\ first <= Beyond
      BY <1>2, <1>3, <1>4, <1>6, NameCovers
    <2>8. Covers(NoteLines(first).kept, first, NoteLines(first).end)
      BY <2>7, NoteLinesCover
    <2> HIDE DEF name
    <2>9. Covers({} \cup {}, p, x)
      BY ONLY <2>4, <2>5, CoversBoth
    <2>10. Covers({} \cup {} \cup {}, p, o)
      BY ONLY <2>6, <2>9, CoversBoth
    <2>11. Covers({} \cup {} \cup {} \cup name, p, first)
      BY ONLY <2>7, <2>10, CoversBoth
    <2>12. Covers({} \cup {} \cup {} \cup name \cup NoteLines(first).kept, p,
                  NoteLines(first).end)
      BY ONLY <2>8, <2>11, CoversBoth
    <2>13. {} \cup {} \cup {} \cup name \cup NoteLines(first).kept = kept
      OBVIOUS
    <2> HIDE DEF kept, key
    <2>14. Covers(kept, p, NoteLines(first).end)
      BY <2>12, <2>13
    <2> QED BY ONLY <2>1, <2>14, DefinedFields DEF Defines
  <1> QED BY <1>5, <1>6

LEMMA DefinitionDefines ==
    ASSUME IsSequence(data), NEW p \in Int
    PROVE  Defines(DefinitionAt(p), p)
  <1>1. Defines(is_ref(p), p) /\ Defines(is_footnote(p), p)
    BY RefDefines, FootnoteDefines
  <1>2. DefinitionAt(p) = is_ref(p) \/ DefinitionAt(p) = is_footnote(p)
    BY Zenon DEF DefinitionAt
  <1> QED BY <1>1, <1>2

-----------------------------------------------------------------------------
(* Metadata *)

\* A value ends at the end of a line.
LEMMA ValueEnds ==
    ASSUME NEW m, NEW stop \in Int, stop = Len(m) + 1, NEW p \in Int, p <= stop
    PROVE  /\ ValueEnd(m, p) \in Int /\ p <= ValueEnd(m, p) /\ ValueEnd(m, p) <= stop
           /\ ValueEnd(m, p) < stop => m[ValueEnd(m, p)] = "\n"
  <1> DEFINE D == p..stop
             Ends(q) ==
               \/ q + 1 >= stop
               \/ /\ m[q + 1] \notin {" ", "\t"}
                  /\ m[Until(m, q + 1, stop, {"\n", ":"})] = ":"
             After(q) == Until(m, q + 1, stop, {"\n"})
             Body(q, g) == IF Ends(q) THEN q ELSE g[After(q)]
             f == CHOOSE g : g = [q \in D |-> Body(q, g)]
             rank == [q \in D |-> stop - q]
             Good(q) == q \in D /\ (q < stop => m[q] = "\n")
  <1>1. ValueEnd(m, p) = f[Until(m, p, stop, {"\n"})]
    BY Zenon DEF ValueEnd
  <1> HIDE DEF f
  <1>2. ASSUME NEW q \in D, q + 1 <= stop
        PROVE  Good(After(q)) /\ q < After(q)
    <2>1. PICK n \in Int : n = q + 1
      OBVIOUS
    <2>2. PICK C : C = {"\n"}
      OBVIOUS
    <2>3. PICK e \in Int : e = Until(m, n, stop, C)
      BY UntilFinds
    <2>4. n <= e /\ e <= stop /\ (e < stop => m[e] \in C)
      BY <1>2, <2>1, <2>3, UntilFinds
    <2>5. After(q) = e
      BY <2>1, <2>2, <2>3
    <2> HIDE DEF After
    <2> QED BY <2>1, <2>2, <2>4, <2>5
  <1>3. Ranked(D, rank, stop - p)
    BY DEF Ranked
  <1>4. \A q \in D : q + 1 >= stop => Ends(q)
    BY Zenon
  <1> HIDE DEF Ends
  <1>5. \A q \in D : ~ Ends(q) => After(q) \in D /\ rank[After(q)] < rank[q] /\ Good(After(q)) /\ q < After(q)
    <2> SUFFICES ASSUME NEW q \in D, ~ Ends(q)
                 PROVE  After(q) \in D /\ rank[After(q)] < rank[q] /\ Good(After(q)) /\ q < After(q)
      OBVIOUS
    <2>0. q + 1 <= stop
      BY <1>4
    <2>1. Good(After(q)) /\ q < After(q)
      BY <1>2, <2>0
    <2>2. PICK e : e = After(q)
      OBVIOUS
    <2> HIDE DEF After
    <2>3. e \in D /\ q < e
      BY <2>1, <2>2
    <2>4. rank[e] < rank[q]
      BY <2>3
    <2> QED BY <2>1, <2>2, <2>3, <2>4
  <1> HIDE DEF After
  <1>6. f = [q \in D |-> Body(q, f)]
    <2> DEFINE B == [q \in D |-> [g \in [D -> Int] |-> Body(q, g)]]
    <2>1. \A q \in D : \A g \in [D -> Int] : B[q][g] = Body(q, g)
      OBVIOUS
    <2>2. p \in Int /\ \A q \in D : q \in Int
      OBVIOUS
    <2> HIDE DEF B, D, rank, Good
    <2>3. GoesOn(D, rank, Int, B)
      BY <1>5, <2>1, <2>2 DEF GoesOn
    <2>4. PICK h \in [D -> Int] : \A q \in D : h[q] = B[q][h]
      BY <1>3, <2>2, <2>3, TailRecursion
    <2>5. h = [q \in D |-> Body(q, h)]
      BY <2>1, <2>4
    <2> QED BY <2>5 DEF f
  <1>7. \A q \in D : Good(q) => Good(f[q]) /\ q <= f[q]
    <2> DEFINE G == {q \in D : Good(q) => Good(f[q]) /\ q <= f[q]}
    <2>1. \A q \in D : f[q] = Body(q, f)
      <3> HIDE DEF D
      <3> QED BY <1>6
    <2>2. ASSUME NEW q \in D, \A y \in D : rank[y] < rank[q] => y \in G
          PROVE  q \in G
      <3>1. CASE Ends(q)
        BY <2>1, <3>1
      <3>2. CASE ~ Ends(q)
        <4>1. PICK e : e = After(q) /\ e \in D /\ Good(e) /\ q < e /\ e \in G
          BY <1>5, <2>2, <3>2
        <4>2. f[q] = f[e] /\ Good(f[e]) /\ e <= f[e]
          BY <2>1, <3>2, <4>1
        <4>3. q <= f[e]
          BY <4>1, <4>2
        <4> QED BY <4>2, <4>3
      <3> QED BY <3>1, <3>2
    <2>3. D \subseteq G
      <3> HIDE DEF G, D, rank, Good
      <3> QED BY <1>3, <2>2, ByRank
    <2> QED BY <2>3
  <1>8. PICK x : x = Until(m, p, stop, {"\n"}) /\ Good(x) /\ p <= x
    <2>1. PICK C : C = {"\n"}
      OBVIOUS
    <2>2. PICK e \in Int : e = Until(m, p, stop, C)
      BY UntilFinds
    <2>3. p <= e /\ e <= stop /\ (e < stop => m[e] \in C)
      BY <2>2, UntilFinds
    <2> QED BY <2>1, <2>2, <2>3
  <1>9. PICK v : v = f[x] /\ Good(v) /\ x <= v
    BY <1>7, <1>8
  <1>10. ValueEnd(m, p) = v
    BY <1>1, <1>8, <1>9
  <1>11. v \in Int /\ p <= v /\ v <= stop /\ (v < stop => m[v] = "\n")
    BY <1>8, <1>9
  <1> QED BY <1>10, <1>11

\* A pair keeps all letters up to the next one, or the end of the metadata.
LEMMA MetadataCovers ==
    ASSUME IsSequence(data), NEW m, NEW stop \in Int, stop = Len(m) + 1, stop <= Beyond,
           NEW p \in Int, p < stop, \A q \in p..stop - 1 : m[q] = data[q]
    PROVE  LET d == parse_metadata(m, p)
           IN /\ IsDefinition(d) /\ d.end \in Int
              /\ Covers(d.kept, p, IF d.end < stop THEN d.end ELSE stop) /\ p < d.end
  <1>1. PICK C : C = {":"}
    OBVIOUS
  <1>2. PICK c \in Int : c = Until(m, p, stop, C)
    BY ONLY p \in Int, stop \in Int, UntilFinds
  <1>3. p <= c /\ c <= stop /\ (c < stop => m[c] \in C)
    BY <1>2, UntilFinds
  <1>4. c < stop => data[c] = ":"
    <2>1. c < stop => c \in p..stop - 1
      BY <1>3
    <2> QED BY <1>1, <1>3, <2>1
  <1>5. PICK b \in Int : b = c + 1
    OBVIOUS
  <1>6. PICK v \in Int : v = Past(m, b, stop, Whitespace)
    BY ONLY b \in Int, stop \in Int, PastFinds
  <1>7. b <= v /\ (b <= stop => v <= stop) /\ (b >= stop => v = b)
        /\ \A q \in b..v - 1 : m[q] \in Whitespace
    BY ONLY <1>6, b \in Int, stop \in Int, PastFinds, SMTT(30)
  <1>8. \A x \in Whitespace : x \notin Letters
    BY NoLetters DEF Whitespace, Spaces
  <1>9. PICK key : key = Normalised(SubSeq(m, p, c - 1))
    OBVIOUS
  <1>10. Covers(p..c - 1, p, c)
    BY <1>3, CoversAll
  <1>11. ASSUME NEW w \in Int, c <= w, w <= v, w <= stop
         PROVE  Covers({}, c, w)
    <2>1. ASSUME NEW q \in c..w - 1
          PROVE  data[q] \notin Letters
      <3>1. CASE q = c
        <4>1. c < stop
          BY <1>11, <3>1
        <4> QED BY <1>4, <3>1, <4>1, NoLetters
      <3>2. CASE q # c
        <4>1. q \in b..v - 1 /\ q \in p..stop - 1
          BY <1>3, <1>5, <1>11, <3>2
        <4> QED BY <1>7, <1>8, <4>1
      <3> QED BY <3>1, <3>2
    <2> QED BY <1>11, <2>1 DEF Covers
  <1>12. CASE v >= stop
    <2>1. parse_metadata(m, p) = Defined("META", key, p..c - 1, stop)
      BY <1>1, <1>2, <1>5, <1>6, <1>9, <1>12, Zenon DEF parse_metadata
    <2>2. Covers({}, c, stop)
      BY <1>3, <1>11, <1>12
    <2>3. Covers((p..c - 1) \cup {}, p, stop)
      BY ONLY <1>10, <2>2, CoversBoth
    <2>4. (p..c - 1) \cup {} = p..c - 1
      OBVIOUS
    <2> QED BY <2>1, <2>3, <2>4, DefinedFields
  <1>13. CASE v < stop
    <2>1. b < stop /\ v <= stop
      BY <1>7, <1>13
    <2>2. PICK last \in Int : last = ValueEnd(m, v)
      BY <2>1, ValueEnds
    <2>3. v <= last /\ last <= stop /\ (last < stop => m[last] = "\n")
      BY <2>1, <2>2, ValueEnds
    <2> DEFINE S == {q \in v..last : q = v \/ m[q - 1] # " "}
               end == IF \E q \in v..last - 1 : m[q] = "\n" THEN last ELSE Max(S)
    <2>4. parse_metadata(m, p) = Defined("META", key, (p..c - 1) \cup (v..end - 1), end + 1)
      <3>1. ~ (v >= stop)
        BY <1>13
      <3> QED BY <1>1, <1>2, <1>5, <1>6, <1>9, <2>2, <3>1, Zenon DEF parse_metadata
    <2>5. /\ end \in Int /\ v <= end /\ end <= last
          /\ \A q \in end..last - 1 : m[q] = " "
      <3>1. CASE \E q \in v..last - 1 : m[q] = "\n"
        <4>1. end = last
          BY <3>1, Zenon
        <4> HIDE DEF end
        <4>2. (\A q \in last..last - 1 : FALSE) /\ last \in Int /\ v <= last /\ last <= last
          BY <2>3
        <4> QED BY <4>1, <4>2, Zenon
      <3>2. CASE ~ \E q \in v..last - 1 : m[q] = "\n"
        <4>1. end = Max(S)
          BY <3>2, Zenon
        <4>2. PICK blank : blank = " "
          OBVIOUS
        <4>3. S = {q \in v..last : q = v \/ m[q - 1] # blank}
          BY <4>2, Zenon
        <4> HIDE DEF S, end
        <4>4. S \subseteq Int /\ (\A x \in S : x <= last) /\ v \in S
          BY <2>3, <4>3
        <4>5. PICK e \in S : e = Max(S) /\ \A x \in S : x <= e
          BY <4>4, MaxOf
        <4>6. e \in Int /\ v <= e /\ e <= last
          BY <4>3, <4>5
        <4>7. ASSUME NEW q \in e..last - 1
              PROVE  m[q] = blank
          <5>1. PICK r \in Int : r = q + 1 /\ r - 1 = q
            OBVIOUS
          <5>2. r \in v..last /\ ~ (r <= e) /\ r # v
            BY <4>6, <5>1
          <5>3. r \notin S
            BY <4>5, <5>2
          <5> QED BY <4>3, <5>1, <5>2, <5>3
        <4> QED BY <4>1, <4>2, <4>5, <4>6, <4>7, Zenon
      <3> QED BY <3>1, <3>2
    <2> HIDE DEF end
    <2>6. PICK e \in Int : e = end /\ v <= e /\ e <= last
      BY <2>5
    <2>7. ASSUME NEW q \in e..last, q < stop
          PROVE  data[q] \notin Letters
      <3>1. m[q] = data[q]
        BY <1>3, <1>5, <1>7, <2>6, <2>7
      <3>2. q = last \/ q \in end..last - 1
        BY <2>6
      <3> QED BY <2>3, <2>5, <2>7, <3>1, <3>2, NoLetters, Zenon
    <2>8. PICK w \in Int : w = IF e + 1 < stop THEN e + 1 ELSE stop
      OBVIOUS
    <2>9. Covers({}, e, w)
      <3>1. e <= w /\ w <= e + 1 /\ w <= stop
        BY <2>3, <2>6, <2>8
      <3>2. \A q \in e..w - 1 : q \in e..last /\ q < stop
        BY <2>6, <3>1
      <3> QED BY <2>7, <3>1, <3>2 DEF Covers
    <2>10. Covers(v..e - 1, v, e)
      BY <2>6, CoversAll
    <2>11. Covers({}, c, v)
      <3>1. c <= v /\ v <= stop
        BY <1>5, <1>7, <2>1
      <3> QED BY <3>1, <1>11
    <2>12. Covers((p..c - 1) \cup {}, p, v)
      BY ONLY <1>10, <2>11, CoversBoth
    <2>13. Covers((p..c - 1) \cup {} \cup (v..e - 1), p, e)
      BY ONLY <2>10, <2>12, CoversBoth
    <2>14. Covers((p..c - 1) \cup {} \cup (v..e - 1) \cup {}, p, w)
      BY ONLY <2>9, <2>13, CoversBoth
    <2>15. (p..c - 1) \cup {} \cup (v..e - 1) \cup {} = (p..c - 1) \cup (v..e - 1)
      OBVIOUS
    <2>16. e + 1 \in Int /\ p < e + 1
      BY <1>3, <1>5, <1>7, <2>6
    <2> QED BY <2>4, <2>6, <2>8, <2>14, <2>15, <2>16, DefinedFields
  <1> QED BY <1>12, <1>13

-----------------------------------------------------------------------------
(* Lines that are copied *)

\* A value for each place, made from that for the place before.
Steps(D, from, end, V, S) ==
    /\ from \in Int /\ end \in Int /\ from <= end /\ D = from..end
    /\ \A q \in D : \A x \in V : q # from => S[q][x] \in V
Stepwise(f, D, V, from, v, S) ==
    /\ f \in [D -> V]
    /\ \A q \in D : f[q] = IF q = from THEN v ELSE S[q][f[q - 1]]

LEMMA StepByStep ==
    ASSUME NEW D, NEW from, NEW end, NEW V, NEW v \in V, NEW S, Steps(D, from, end, V, S)
    PROVE  \E f : Stepwise(f, D, V, from, v, S)
  <1> DEFINE Body(q, g) == IF q = from THEN v ELSE S[q][g[q - 1]]
             rank == [q \in D |-> q - from]
             B == [q \in D |-> [g \in [D -> V] |-> Body(q, g)]]
  <1>1. Ranked(D, rank, end - from)
    BY DEF Ranked, Steps
  <1>2. \A q \in D : q # from => q - 1 \in D /\ rank[q - 1] < rank[q]
    BY DEF Steps
  <1>3. \A q \in D : \A g \in [D -> V] : B[q][g] = Body(q, g)
    OBVIOUS
  <1> HIDE DEF rank, B
  <1>4. \A q \in D : \A g \in [D -> V] : B[q][g] \in V
    <2>1. \A q \in D : \A g \in [D -> V] : q # from => g[q - 1] \in V
      BY <1>2
    <2>2. \A q \in D : \A x \in V : q # from => S[q][x] \in V
      BY DEF Steps
    <2> QED BY <1>3, <2>1, <2>2
  <1>5. ASSUME NEW q \in D, NEW g \in [D -> V], NEW h \in [D -> V],
               \A y \in D : rank[y] < rank[q] => g[y] = h[y]
        PROVE  B[q][g] = B[q][h]
    BY <1>2, <1>3, <1>5
  <1>6. Recursive(D, rank, V, B)
    BY <1>4, <1>5 DEF Recursive
  <1>7. PICK f \in [D -> V] : \A q \in D : f[q] = B[q][f]
    BY <1>1, <1>6, Recursion
  <1>8. \A q \in D : f[q] = Body(q, f)
    BY <1>3, <1>7
  <1>9. Stepwise(f, D, V, from, v, S)
    BY <1>8 DEF Stepwise
  <1> QED BY <1>9

\* What holds for the first place, and for one if it does for the place
\* before, holds for all.
LEMMA StepsAll ==
    ASSUME NEW from \in Int, NEW end \in Int, from <= end, NEW G, from \in G,
           \A q \in from + 1..end : q - 1 \in G => q \in G
    PROVE  from..end \subseteq G
  <1> DEFINE D == from..end
             rank == [q \in D |-> q - from]
  <1>1. Ranked(D, rank, end - from)
    BY DEF Ranked
  <1>2. ASSUME NEW q \in D, \A y \in D : rank[y] < rank[q] => y \in G
        PROVE  q \in G
    <2>1. CASE q # from
      <3>1. q \in from + 1..end /\ q - 1 \in D /\ rank[q - 1] < rank[q]
        BY <2>1
      <3> QED BY <1>2, <3>1
    <2> QED BY <2>1
  <1>3. D \subseteq G
    <2> HIDE DEF D, rank
    <2> QED BY <1>1, <1>2, ByRank
  <1> QED BY <1>3

\* How often a number is in a sequence.
Single(s, p) == \E k \in DOMAIN s : Places(s, p) = {k}

LEMMA PlacesAppend ==
    ASSUME NEW s \in Seq(Int), NEW x \in Int, NEW p \in Int
    PROVE  /\ x # p => Places(Append(s, x), p) = Places(s, p)
           /\ x # p /\ Single(s, p) => Single(Append(s, x), p)
           /\ x = p /\ Places(s, p) = {} => Single(Append(s, x), p)
  <1>1. PICK n \in Nat : n = Len(s) /\ DOMAIN s = 1..n
    OBVIOUS
  <1>2. PICK t \in Seq(Int) : t = Append(s, x)
    BY AppendProperties
  <1>3. DOMAIN t = 1..n + 1 /\ t[n + 1] = x /\ \A k \in 1..n : t[k] = s[k]
    BY <1>1, <1>2, AppendProperties
  <1>4. x # p => Places(t, p) = Places(s, p)
    BY <1>1, <1>3 DEF Places
  <1>5. x = p /\ Places(s, p) = {} => Places(t, p) = {n + 1} /\ n + 1 \in DOMAIN t
    BY <1>1, <1>3 DEF Places
  <1>6. DOMAIN s \subseteq DOMAIN t
    BY <1>1, <1>3
  <1> QED BY <1>2, <1>4, <1>5, <1>6 DEF Single

LEMMA PlacesJoin ==
    ASSUME NEW s \in Seq(Int), NEW t \in Seq(Int), NEW p \in Int
    PROVE  /\ Places(t, p) = {} => Places(s \o t, p) = Places(s, p)
           /\ Places(t, p) = {} /\ Single(s, p) => Single(s \o t, p)
           /\ Single(t, p) /\ Places(s, p) = {} => Single(s \o t, p)
  <1>1. PICK n, o \in Nat : n = Len(s) /\ DOMAIN s = 1..n /\ o = Len(t) /\ DOMAIN t = 1..o
    OBVIOUS
  <1>2. PICK u \in Seq(Int) : u = s \o t
    BY ConcatProperties
  <1>3. /\ DOMAIN u = 1..n + o /\ (\A k \in 1..n : u[k] = s[k])
        /\ \A k \in 1..o : u[n + k] = t[k]
    BY <1>1, <1>2
  <1>4. \A k \in 1..n + o : k \in 1..n \/ (k - n \in 1..o /\ u[k] = t[k - n])
    <2> SUFFICES ASSUME NEW k \in 1..n + o, k \notin 1..n
                 PROVE  k - n \in 1..o /\ u[k] = t[k - n]
      OBVIOUS
    <2>1. PICK j \in 1..o : j = k - n /\ n + j = k
      OBVIOUS
    <2> QED BY <1>3, <2>1
  <1>5. ASSUME Places(t, p) = {}
        PROVE  Places(u, p) = Places(s, p)
    <2>1. \A k \in 1..o : t[k] # p
      BY <1>1, <1>5 DEF Places
    <2>2. \A k \in 1..n + o : u[k] = p <=> k \in 1..n /\ s[k] = p
      BY <1>3, <1>4, <2>1
    <2>3. 1..n \subseteq 1..n + o
      OBVIOUS
    <2>4. Places(u, p) = {k \in 1..n + o : u[k] = p} /\ Places(s, p) = {k \in 1..n : s[k] = p}
      BY <1>1, <1>3 DEF Places
    <2> QED BY <2>2, <2>3, <2>4
  <1>6. DOMAIN s \subseteq DOMAIN u
    BY <1>1, <1>3
  <1>7. ASSUME NEW j \in DOMAIN t, Places(t, p) = {j}, Places(s, p) = {}
        PROVE  n + j \in DOMAIN u /\ Places(u, p) = {n + j}
    <2>1. n + j \in DOMAIN u /\ u[n + j] = p
      <3>1. j \in 1..o /\ t[j] = p
        BY <1>1, <1>7 DEF Places
      <3> QED BY <1>3, <3>1
    <2>2. ASSUME NEW k \in DOMAIN u, u[k] = p
          PROVE  k = n + j
      <3>1. k \notin 1..n
        BY <1>1, <1>3, <1>7, <2>2 DEF Places
      <3>2. k - n \in Places(t, p)
        BY <1>1, <1>3, <1>4, <2>2, <3>1 DEF Places
      <3> QED BY <1>1, <1>3, <1>7, <3>2
    <2> QED BY <2>1, <2>2 DEF Places
  <1> QED BY <1>2, <1>5, <1>6, <1>7 DEF Single

\* Of the places of a line all but the tabs are there once.
LEMMA ExpandTabsOnce ==
    ASSUME NEW from \in Int, NEW end \in Int, from <= end
    PROVE  \A p \in Int : p # 0 =>
               /\ p \notin from..end - 1 => Places(ExpandTabs(from, end), p) = {}
               /\ p \in from..end - 1 /\ data[p] # "\t" => Single(ExpandTabs(from, end), p)
  <1> DEFINE D == from..end
             V == Seq(Int)
             Pad(x) == [k \in 1..4 - (Len(x) % 4) |-> 0]
             Step(q, x) == IF data[q - 1] = "\t" THEN x \o Pad(x) ELSE Append(x, q - 1)
             Body(q, g) == IF q = from THEN <<>> ELSE Step(q, g[q - 1])
             f == CHOOSE g : g = [q \in D |-> Body(q, g)]
             S == [q \in D |-> [x \in V |-> Step(q, x)]]
  <1>1. ExpandTabs(from, end) = f[end]
    BY DEF ExpandTabs
  <1> HIDE DEF f
  <1>2. ASSUME NEW x \in V
        PROVE  /\ x \o Pad(x) \in V
               /\ \A p \in Int : p # 0 => /\ Places(x \o Pad(x), p) = Places(x, p)
                                          /\ Single(x, p) => Single(x \o Pad(x), p)
    <2>1. PICK n \in Nat : n = 4 - (Len(x) % 4)
      OBVIOUS
    <2>2. PICK z : z = [k \in 1..n |-> 0]
      OBVIOUS
    <2>3. z \in Seq(Int)
      <3>1. z \in [1..n -> Int]
        BY <2>2
      <3> QED BY <3>1, FunctionIsSeq
    <2>4. \A p \in Int : p # 0 => Places(z, p) = {}
      BY <2>2 DEF Places
    <2>5. Pad(x) = z
      BY <2>1, <2>2
    <2>6. x \o z \in V
      BY <2>3, ConcatProperties
    <2>7. \A p \in Int : p # 0 => /\ Places(x \o z, p) = Places(x, p)
                                  /\ Single(x, p) => Single(x \o z, p)
      <3> SUFFICES ASSUME NEW p \in Int, p # 0
                   PROVE  /\ Places(x \o z, p) = Places(x, p)
                          /\ Single(x, p) => Single(x \o z, p)
        OBVIOUS
      <3> QED BY ONLY x \in V, p \in Int, p # 0, <2>3, <2>4, PlacesJoin
    <2> HIDE DEF Pad
    <2> QED BY <2>5, <2>6, <2>7
  <1>3. \A q \in D : \A x \in V : S[q][x] = Step(q, x) /\ Step(q, x) \in V
    <2> SUFFICES ASSUME NEW q \in D, NEW x \in V
                 PROVE  S[q][x] = Step(q, x) /\ Step(q, x) \in V
      OBVIOUS
    <2>1. Append(x, q - 1) \in V /\ x \o Pad(x) \in V
      BY <1>2, AppendProperties
    <2> HIDE DEF Pad
    <2> QED BY <2>1
  <1> HIDE DEF S, Step, Pad
  <1>4. f \in [D -> V] /\ \A q \in D : f[q] = Body(q, f)
    <2>1. <<>> \in V
      OBVIOUS
    <2>2. PICK h \in [D -> V] : \A q \in D : h[q] = IF q = from THEN <<>> ELSE S[q][h[q - 1]]
      <3>1. Steps(D, from, end, V, S)
        <4>1. \A q \in D : \A x \in V : S[q][x] \in V
          BY <1>3
        <4> HIDE DEF V
        <4> QED BY <4>1 DEF Steps
      <3>2. PICK v \in V : v = <<>>
        BY <2>1
      <3> HIDE DEF V, D
      <3>3. PICK h : Stepwise(h, D, V, from, v, S)
        BY <3>1, StepByStep
      <3> QED BY <3>2, <3>3 DEF Stepwise
    <2>3. \A q \in D : q # from => h[q - 1] \in V
      OBVIOUS
    <2>4. h = [q \in D |-> Body(q, h)]
      <3> HIDE DEF V, D
      <3> QED BY <1>3, <2>2, <2>3
    <2>5. f = [q \in D |-> Body(q, f)]
      <3> HIDE DEF Body
      <3> QED BY <2>4 DEF f
    <2>6. \A q \in D : f[q] = Body(q, f)
      <3> HIDE DEF D
      <3> QED BY <2>5
    <2> DEFINE G == {q \in D : f[q] \in V}
    <2>7. from \in G
      <3>1. from \in D /\ f[from] = <<>>
        BY <2>6
      <3> QED BY <2>1, <3>1
    <2>8. ASSUME NEW q \in from + 1..end, q - 1 \in G
          PROVE  q \in G
      BY <1>3, <2>6, <2>8
    <2>9. D \subseteq G
      <3> HIDE DEF G
      <3> QED BY <2>7, <2>8, StepsAll
    <2>10. \A q \in D : f[q] \in V
      BY <2>9
    <2> HIDE DEF D, V
    <2> QED BY <2>5, <2>6, <2>10
  <1> DEFINE Right(q) ==
        \A p \in Int : p # 0 =>
            /\ p \notin from..q - 1 => Places(f[q], p) = {}
            /\ p \in from..q - 1 /\ data[p] # "\t" => Single(f[q], p)
             G == {q \in D : Right(q)}
  <1>5. from \in G
    <2>1. f[from] = <<>>
      BY <1>4
    <2>2. \A p : Places(<<>>, p) = {}
      BY DEF Places
    <2>3. \A p \in Int : p \notin from..from - 1
      OBVIOUS
    <2> QED BY <2>1, <2>2, <2>3
  <1>6. ASSUME NEW q \in from + 1..end, q - 1 \in G
        PROVE  q \in G
    <2>1. PICK b \in Int : b = q - 1 /\ b \in D /\ q = b + 1 /\ from <= b
      OBVIOUS
    <2>2. PICK x \in V : x = f[b] /\ f[q] = Step(q, x)
      BY <1>4, <2>1
    <2>3. Right(b)
      BY <1>6, <2>1
    <2>4. ASSUME NEW p \in Int, p # 0
          PROVE  /\ p \notin from..q - 1 => Places(f[q], p) = {}
                 /\ p \in from..q - 1 /\ data[p] # "\t" => Single(f[q], p)
      <3>1. /\ p \notin from..b - 1 => Places(x, p) = {}
            /\ p \in from..b - 1 /\ data[p] # "\t" => Single(x, p)
        BY <2>2, <2>3, <2>4
      <3>2. p \in from..q - 1 <=> (p = b \/ p \in from..b - 1)
        BY <2>1
      <3>3. b \notin from..b - 1
        OBVIOUS
      <3>4. CASE data[b] = "\t"
        <4>1. f[q] = x \o Pad(x)
          BY <2>1, <2>2, <3>4 DEF Step
        <4>2. /\ Places(x \o Pad(x), p) = Places(x, p)
              /\ Single(x, p) => Single(x \o Pad(x), p)
          BY <1>2, <2>4
        <4> QED BY <3>1, <3>2, <3>4, <4>1, <4>2, Zenon
      <3>5. CASE data[b] # "\t"
        <4>1. f[q] = Append(x, b)
          BY <2>1, <2>2, <3>5 DEF Step
        <4>2. /\ b # p => Places(Append(x, b), p) = Places(x, p)
              /\ b # p /\ Single(x, p) => Single(Append(x, b), p)
              /\ b = p /\ Places(x, p) = {} => Single(Append(x, b), p)
          BY PlacesAppend
        <4> QED BY <3>1, <3>2, <3>3, <4>1, <4>2, Zenon
      <3> QED BY <3>4, <3>5
    <2>5. Right(q)
      BY <2>4
    <2>6. q \in D
      OBVIOUS
    <2> QED BY <2>5, <2>6
  <1>7. D \subseteq G
    <2> HIDE DEF G
    <2> QED BY <1>5, <1>6, StepsAll
  <1>8. end \in D
    OBVIOUS
  <1>9. Right(end)
    BY <1>7, <1>8
  <1> QED BY <1>1, <1>9

\* Newlines are copied from their own places.
LEMMA NewlinesOnly ==
    ASSUME NEW end \in Int, NEW next \in Int, end <= next
    PROVE  \A p \in Int : p \notin end..next - 1 => Places(Newlines(end, next), p) = {}
  <1> DEFINE D == end..next
             V == Seq(Int)
             Step(q, x) == IF data[q - 1] = "\n" \/ (~ AtEnd(q) /\ data[q] # "\n")
                           THEN Append(x, q - 1) ELSE x
             Body(q, g) == IF q = end THEN <<>> ELSE Step(q, g[q - 1])
             f == CHOOSE g : g = [q \in D |-> Body(q, g)]
             S == [q \in D |-> [x \in V |-> Step(q, x)]]
  <1>1. Newlines(end, next) = f[next]
    BY DEF Newlines
  <1> HIDE DEF f
  <1>2. \A q \in D : \A x \in V : S[q][x] = Step(q, x) /\ Step(q, x) \in V
    <2> SUFFICES ASSUME NEW q \in D, NEW x \in V
                 PROVE  S[q][x] = Step(q, x) /\ Step(q, x) \in V
      OBVIOUS
    <2>1. Append(x, q - 1) \in V
      BY AppendProperties
    <2> QED BY <2>1
  <1>3. ASSUME NEW q \in D, NEW x \in V
        PROVE  Step(q, x) = x \/ Step(q, x) = Append(x, q - 1)
    OBVIOUS
  <1> HIDE DEF S, Step
  <1>4. f \in [D -> V] /\ \A q \in D : f[q] = Body(q, f)
    <2>1. <<>> \in V
      OBVIOUS
    <2>2. PICK h \in [D -> V] : \A q \in D : h[q] = IF q = end THEN <<>> ELSE S[q][h[q - 1]]
      <3>1. Steps(D, end, next, V, S)
        <4>1. \A q \in D : \A x \in V : S[q][x] \in V
          BY <1>2
        <4> HIDE DEF V
        <4> QED BY <4>1 DEF Steps
      <3>2. PICK v \in V : v = <<>>
        BY <2>1
      <3> HIDE DEF V, D
      <3>3. PICK h : Stepwise(h, D, V, end, v, S)
        BY <3>1, StepByStep
      <3> QED BY <3>2, <3>3 DEF Stepwise
    <2>3. \A q \in D : q # end => h[q - 1] \in V
      OBVIOUS
    <2>4. h = [q \in D |-> Body(q, h)]
      <3> HIDE DEF V, D
      <3> QED BY <1>2, <2>2, <2>3
    <2>5. f = [q \in D |-> Body(q, f)]
      <3> HIDE DEF Body
      <3> QED BY <2>4 DEF f
    <2>6. \A q \in D : f[q] = Body(q, f)
      <3> HIDE DEF D
      <3> QED BY <2>5
    <2> DEFINE G == {q \in D : f[q] \in V}
    <2>7. end \in G
      <3>1. end \in D /\ f[end] = <<>>
        BY <2>6
      <3> QED BY <2>1, <3>1
    <2>8. ASSUME NEW q \in end + 1..next, q - 1 \in G
          PROVE  q \in G
      BY <1>2, <2>6, <2>8
    <2>9. D \subseteq G
      <3> HIDE DEF G
      <3> QED BY <2>7, <2>8, StepsAll
    <2>10. \A q \in D : f[q] \in V
      BY <2>9
    <2> HIDE DEF D, V
    <2> QED BY <2>5, <2>6, <2>10
  <1> DEFINE Right(q) == \A p \in Int : p \notin end..q - 1 => Places(f[q], p) = {}
             G == {q \in D : Right(q)}
  <1>5. end \in G
    <2>1. f[end] = <<>>
      BY <1>4
    <2>2. \A p : Places(<<>>, p) = {}
      BY DEF Places
    <2> QED BY <2>1, <2>2
  <1>6. ASSUME NEW q \in end + 1..next, q - 1 \in G
        PROVE  q \in G
    <2>1. PICK b \in Int : b = q - 1 /\ b \in D /\ q = b + 1 /\ end <= b
      OBVIOUS
    <2>2. PICK x \in V : x = f[b] /\ f[q] = Step(q, x)
      BY <1>4, <2>1
    <2>3. Right(b)
      BY <1>6, <2>1
    <2>4. f[q] = x \/ f[q] = Append(x, b)
      BY <1>3, <2>1, <2>2
    <2>5. ASSUME NEW p \in Int, p \notin end..q - 1
          PROVE  Places(f[q], p) = {}
      <3>1. p \notin end..b - 1 /\ b # p
        BY <2>1, <2>5
      <3>2. Places(x, p) = {}
        BY <2>2, <2>3, <3>1
      <3>3. b # p => Places(Append(x, b), p) = Places(x, p)
        BY PlacesAppend
      <3> QED BY <2>4, <3>1, <3>2, <3>3
    <2>6. Right(q)
      BY <2>5
    <2>7. q \in D
      OBVIOUS
    <2> QED BY <2>6, <2>7
  <1>7. D \subseteq G
    <2> HIDE DEF G
    <2> QED BY <1>5, <1>6, StepsAll
  <1>8. next \in D
    OBVIOUS
  <1>9. Right(next)
    BY <1>7, <1>8
  <1> QED BY <1>1, <1>9

\* What CopyLine copies: all letters of the line, once.
LEMMA CopiedOnce ==
    ASSUME IsSequence(data), NEW p \in Int, NEW end, end = LineEnd(p),
           NEW next, next = Past(data, end, Beyond, Eol)
    PROVE  LET copied == ExpandTabs(p, end) \o Newlines(end, next)
           IN /\ copied \in Seq(Int) /\ next \in Int /\ p <= next
              /\ \A q \in Int : q # 0 =>
                   /\ q \notin p..next - 1 => Places(copied, q) = {}
                   /\ q \in p..next - 1 /\ q < Beyond /\ data[q] \in Letters => Single(copied, q)
  <1>1. end \in Int /\ p <= end
    BY PlaceIs
  <1>2. PICK C : C = Eol /\ \A c \in C : c \notin Letters
    <2>1. \A c \in Eol : c \notin Letters
      BY NoLetters, Zenon DEF Eol
    <2> QED BY <2>1
  <1>3. PICK B \in Int : B = Beyond
    BY BeyondIs
  <1>4. next \in Int /\ end <= next /\ \A q \in end..next - 1 : data[q] \in C
    BY <1>1, <1>2, <1>3, PastFinds
  <1>5. PICK s \in Seq(Int) : s = ExpandTabs(p, end)
    BY <1>1, ExpandIs
  <1>6. PICK t \in Seq(Int) : t = Newlines(end, next)
    BY <1>1, <1>4, NewlinesIs
  <1>7. \A q \in Int : q # 0 =>
            /\ q \notin p..end - 1 => Places(s, q) = {}
            /\ q \in p..end - 1 /\ data[q] # "\t" => Single(s, q)
    BY <1>1, <1>5, ExpandTabsOnce
  <1>8. \A q \in Int : q \notin end..next - 1 => Places(t, q) = {}
    BY <1>1, <1>4, <1>6, NewlinesOnly
  <1>9. s \o t \in Seq(Int)
    BY ConcatProperties
  <1>10. ASSUME NEW q \in Int, q # 0
         PROVE  /\ q \notin p..next - 1 => Places(s \o t, q) = {}
                /\ q \in p..next - 1 /\ q < Beyond /\ data[q] \in Letters => Single(s \o t, q)
    <2>1. /\ Places(t, q) = {} => Places(s \o t, q) = Places(s, q)
          /\ Places(t, q) = {} /\ Single(s, q) => Single(s \o t, q)
      BY PlacesJoin
    <2>2. CASE q \notin p..next - 1
      <3>1. q \notin p..end - 1 /\ q \notin end..next - 1
        BY <1>1, <1>4, <2>2
      <3>2. Places(s, q) = {} /\ Places(t, q) = {}
        BY <1>7, <1>8, <1>10, <3>1
      <3> QED BY <2>1, <2>2, <3>2
    <2>3. CASE q \in p..next - 1 /\ data[q] \in Letters
      <3>1. q \notin end..next - 1
        BY <1>2, <1>4, <2>3
      <3>2. q \in p..end - 1
        BY <1>1, <1>4, <2>3, <3>1
      <3>3. data[q] # "\t"
        BY <2>3, NoLetters
      <3>4. Single(s, q) /\ Places(t, q) = {}
        BY <1>7, <1>8, <1>10, <3>1, <3>2, <3>3
      <3> QED BY <2>1, <2>3, <3>4
    <2> QED BY <2>2, <2>3
  <1>11. p <= next
    BY <1>1, <1>4
  <1> QED BY <1>4, <1>5, <1>6, <1>9, <1>10, <1>11


-----------------------------------------------------------------------------
(* Metadata *)

\* No letter stands before the place where a document starts, and its metadata
\* ends at a newline or where the document does.
LEMMA MetaEndIs ==
    ASSUME IsSequence(data)
    PROVE  /\ Start \in 1..2 /\ \A p \in 1..Start - 1 : data[p] \notin Letters
           /\ MetaEnd \in Int /\ (MetaEnd < Beyond => data[MetaEnd] = "\n")
           /\ Start < Len(data) => Start < MetaEnd /\ MetaEnd <= Beyond
  <1>1. PICK B \in Nat : B = Beyond /\ Len(data) = B - 1
    <2>1. PICK S : data \in Seq(S)
      BY DEF IsSequence
    <2>2. Len(data) \in Nat
      BY <2>1
    <2> QED BY <2>2 DEF Beyond
  <1>2. PICK st \in 1..2 : st = Start
    BY DEF Start
  <1>3. \A p \in 1..Start - 1 : data[p] \notin Letters
    <2>1. st = 2 => data[1] = "bom"
      <3>1. st = 2 => Is(1, {"bom"})
        BY <1>2 DEF Start
      <3> QED BY <3>1, Zenon DEF Is
    <2>2. \A p \in 1..st - 1 : p = 1 /\ st = 2
      OBVIOUS
    <2> QED BY <1>2, <2>1, <2>2, NoLetters
  <1> DEFINE T == {q \in Start + 1..Len(data) : data[q] = "\n" /\ data[q - 1] = "\n"}
             S == T \cup {Beyond}
  <1>4. /\ S \subseteq Int /\ (\A x \in S : 0 <= x) /\ B \in S
        /\ \A x \in S : x = B \/ (data[x] = "\n" /\ st < x /\ x < B)
    BY <1>1, <1>2
  <1>5. MetaEnd = Min(S)
    BY DEF MetaEnd
  <1> HIDE DEF S
  <1>6. PICK lo \in Int : lo = 0 /\ \A x \in S : lo <= x
    BY <1>4
  <1>7. PICK e \in S : e = Min(S) /\ \A x \in S : e <= x
    BY <1>4, <1>6, MinOf
  <1>8. /\ MetaEnd \in Int /\ MetaEnd <= B /\ (MetaEnd < B => data[MetaEnd] = "\n")
        /\ st < B => st < MetaEnd
    BY <1>4, <1>5, <1>7
  <1>9. Start < Len(data) => st < B
    BY <1>1, <1>2
  <1> QED BY <1>1, <1>2, <1>3, <1>8, <1>9

LEMMA OwnIs ==
    ASSUME IsSequence(data), HasMetadata
    PROVE  /\ Start \in 1..2 /\ MetaEnd \in Int /\ Start < MetaEnd /\ MetaEnd <= Beyond
           /\ Len(OwnString) = MetaEnd - 1
           /\ \A q \in 1..MetaEnd - 1 : OwnString[q] = data[q]
  <1>1. Start < Len(data)
    BY DEF HasMetadata
  <1>2. Start \in 1..2 /\ MetaEnd \in Int /\ Start < MetaEnd /\ MetaEnd <= Beyond
    BY <1>1, MetaEndIs
  <1>3. PICK S : data \in Seq(S)
    BY DEF IsSequence
  <1>4. PICK e \in Nat : e = MetaEnd - 1 /\ e <= Len(data)
    BY <1>2, <1>3 DEF Beyond
  <1>5. Len(SubSeq(data, 1, e)) = e /\ \A q \in 1..e : SubSeq(data, 1, e)[q] = data[q]
    BY <1>3, <1>4
  <1> QED BY <1>2, <1>4, <1>5 DEF OwnString

\* What is given with the options is not the document's own.
Foreign == {[string |-> m, own |-> FALSE] : m \in Seq(STRING)}

LEMMA GivenIs ==
    ASSUME NEW strings \in Seq(Seq(STRING))
    PROVE  Given(strings) \in Seq(Foreign)
  <1> DEFINE P == {<<r>> : r \in Foreign} \cup {<<>>}
             Piece(k) == IF IsMetadata(strings[k], 1)
                         THEN <<[string |-> strings[k], own |-> FALSE]>> ELSE <<>>
  <1>1. PICK n \in Nat : n = Len(strings) /\ DOMAIN strings = 1..n
    OBVIOUS
  <1>2. \A k \in 1..n : Piece(k) \in P
    <2> SUFFICES ASSUME NEW k \in 1..n
                 PROVE  Piece(k) \in P
      OBVIOUS
    <2>1. strings[k] \in Seq(STRING)
      <3>1. PICK T : T = Seq(STRING)
        OBVIOUS
      <3>2. strings \in Seq(T)
        BY <3>1
      <3>3. strings[k] \in T
        BY <1>1, <3>2
      <3> QED BY <3>1, <3>3
    <2>2. PICK r \in Foreign : r = [string |-> strings[k], own |-> FALSE]
      BY <2>1, Zenon DEF Foreign
    <2> QED BY <2>2
  <1>3. P \subseteq Seq(Foreign)
    <2>1. \A r \in Foreign : <<r>> \in Seq(Foreign)
      OBVIOUS
    <2>2. <<>> \in Seq(Foreign)
      OBVIOUS
    <2> QED BY <2>1, <2>2
  <1>4. PICK s : s = [k \in DOMAIN strings |-> Piece(k)]
    OBVIOUS
  <1>5. Given(strings) = FlattenSeq(s)
    BY <1>4, Zenon DEF Given
  <1>6. s \in [1..n -> P]
    <2> HIDE DEF P, Piece
    <2> QED BY <1>1, <1>2, <1>4
  <1> HIDE DEF P
  <1> QED BY <1>3, <1>5, <1>6, FlattenIs

\* Where reading goes on: at the lines when the document's own metadata is
\* not left, and else at it or before it.
FirstRead(left) ==
    IF \A k \in DOMAIN left : ~ left[k].own THEN LinesBegin
    ELSE IF left[1].own THEN Start ELSE 1

\* What is left is some of the metadata there was.
OwnLeft(left) ==
    /\ IsSequence(left)
    /\ \A k \in DOMAIN left : left[k].own => HasMetadata /\ left[k].string = OwnString
    /\ \A j, k \in DOMAIN left : left[j].own /\ left[k].own => j = k

LEMMA BeginReads ==
    ASSUME IsSequence(data), NEW left, OwnLeft(left), Begin(left), UNCHANGED <<data, ext>>
    PROVE  OwnMetadata' /\ IsSequence(metas') /\ ReadTo' = FirstRead(left)
  <1>1. metas' = left /\ outcome' \in {"reading", "metadata"}
    BY Zenon DEF Begin
  <1>2. /\ (HasMetadata <=> HasMetadata') /\ OwnString' = OwnString /\ Start' = Start
        /\ MetaEnd' = MetaEnd /\ LinesBegin' = LinesBegin
    BY DEF HasMetadata, OwnString, Start, MetaEnd, LinesBegin, Beyond, AtEnd, Is
  <1>3. CASE left = <<>>
    <2>1. outcome' = "reading" /\ beg' = LinesBegin
      BY <1>3, Zenon DEF Begin, LinesBegin
    <2>2. \A k : k \notin DOMAIN left
      BY <1>3
    <2>3. ReadTo' = FirstRead(left)
      BY <2>1, <2>2 DEF ReadTo, FirstRead
    <2> QED BY <1>1, <2>1, <2>2, <2>3 DEF OwnMetadata, OwnLeft
  <1>4. CASE left # <<>>
    <2>1. outcome' = "metadata" /\ beg' = IF Head(left).own THEN Start ELSE 1
      BY <1>4, Zenon DEF Begin
    <2>2. 1 \in DOMAIN left /\ Head(left) = left[1]
      <3>1. PICK S : left \in Seq(S)
        BY DEF OwnLeft, IsSequence
      <3> QED BY <1>4, <3>1
    <2>3. left[1].own => HasMetadata /\ Start \in 1..2 /\ MetaEnd \in Int /\ Start < MetaEnd
      BY <2>2, OwnIs DEF OwnLeft
    <2>4. left[1].own => beg' \in Start..MetaEnd - 1
      BY <2>1, <2>2, <2>3
    <2>5. OwnMetadata'
      <3>1. \A k \in DOMAIN metas' : metas'[k].own => HasMetadata' /\ metas'[k].string = OwnString'
        BY <1>1, <1>2, Zenon DEF OwnLeft
      <3>2. \A j, k \in DOMAIN metas' : metas'[j].own /\ metas'[k].own => j = k
        BY <1>1, Zenon DEF OwnLeft
      <3>3. outcome' # "called" /\ metas' # <<>>
        BY <1>1, <1>4, <2>1
      <3>4. metas'[1].own => beg' \in Start'..MetaEnd' - 1
        BY <1>1, <1>2, <2>4, Zenon
      <3> QED BY <3>1, <3>2, <3>3, <3>4, Zenon DEF OwnMetadata
    <2>6. outcome' # "reading"
      BY <2>1
    <2>7. ReadTo' = IF metas'[1].own THEN beg'
                    ELSE IF \A k \in DOMAIN metas' : ~ metas'[k].own THEN LinesBegin' ELSE 1
      <3>1. outcome' \notin {"parsing", "done", "refused"}
        BY <2>1
      <3> QED BY <2>1, <2>6, <3>1, Zenon DEF ReadTo
    <2>8. ReadTo' = FirstRead(left)
      BY <1>1, <1>2, <2>1, <2>2, <2>7, Zenon DEF FirstRead
    <2> QED BY <1>1, <2>5, <2>8 DEF OwnLeft
  <1> QED BY <1>3, <1>4

-----------------------------------------------------------------------------
(* The steps of the first pass *)

\* What is known of the places goes on as far as reading does.
LEMMA LettersGoOn ==
    ASSUME LettersKept, data' = data, ReadTo \in Int, ReadTo' \in Int, IsSequence(data),
           \A p \in DOMAIN data :
               /\ Nowhere(p) /\ p >= ReadTo' => Nowhere(p)'
               /\ Nowhere(p) /\ p >= ReadTo /\ p < ReadTo' /\ data[p] \in Letters => Once(p)'
               /\ Once(p) /\ p < ReadTo /\ data[p] \in Letters => Once(p)',
           ReadTo <= ReadTo'
    PROVE  LettersKept'
  <1>1. PICK r, s \in Int : r = ReadTo /\ s = ReadTo' /\ r <= s
    OBVIOUS
  <1>2. DOMAIN data \subseteq Int
    BY DEF IsSequence
  <1>3. ASSUME NEW p \in DOMAIN data
        PROVE  /\ p < s /\ data[p] \in Letters => Once(p)'
               /\ p >= s => Nowhere(p)'
    <2>1. /\ p < r /\ data[p] \in Letters => Once(p)
          /\ p >= r => Nowhere(p)
      BY <1>1, <1>3 DEF LettersKept
    <2>2. p \in Int
      BY <1>2
    <2>3. (p >= s => p >= r) /\ (p < r \/ p >= r)
      BY <1>1, <2>2
    <2> QED BY <1>1, <1>3, <2>1, <2>3
  <1> QED BY <1>1, <1>3 DEF LettersKept

\* What a definition x that is added makes of the places.
Kind(d) == <<d.own, d.kept>>
Extends(T, x) ==
    /\ taken' = Append(T, x) /\ IsSequence(T) /\ DOMAIN T = DOMAIN taken
    /\ IsDefinition(x) /\ \A k \in DOMAIN taken : IsDefinition(T[k]) /\ Kind(T[k]) = Kind(taken[k])

LEMMA TakenTyped ==
    ASSUME NEW T, NEW x, Extends(T, x), IsSequence(taken)
    PROVE  /\ IsSequence(taken') /\ \A k \in DOMAIN taken' : IsDefinition(taken'[k])
           /\ \E n \in Nat : /\ DOMAIN taken = 1..n /\ DOMAIN taken' = 1..n + 1
                             /\ taken'[n + 1] = x
                             /\ \A k \in 1..n : Kind(taken'[k]) = Kind(taken[k])
  <1>1. PICK S : T \in Seq(S)
    BY DEF Extends, IsSequence
  <1>2. PICK n \in Nat : n = Len(T) /\ DOMAIN T = 1..n
    BY <1>1
  <1>3. PICK R : T \in Seq(R) /\ x \in R
    <2>1. T \in Seq(S \cup {x}) /\ x \in S \cup {x}
      BY <1>1, SeqMonotonic
    <2> QED BY <2>1
  <1>4. PICK u : u = Append(T, x)
    OBVIOUS
  <1>5. u \in Seq(R) /\ DOMAIN u = 1..n + 1 /\ u[n + 1] = x /\ \A k \in 1..n : u[k] = T[k]
    BY <1>2, <1>3, <1>4, AppendProperties
  <1>6. taken' = u /\ DOMAIN taken = 1..n
    BY <1>2, <1>4 DEF Extends
  <1>7. \A k \in 1..n : IsDefinition(T[k]) /\ Kind(T[k]) = Kind(taken[k])
    BY <1>6 DEF Extends
  <1>8. \A k \in 1..n + 1 : k = n + 1 \/ k \in 1..n
    OBVIOUS
  <1>9. \A k \in DOMAIN u : IsDefinition(u[k])
    <2>1. IsDefinition(x)
      BY DEF Extends
    <2> QED BY <1>5, <1>7, <1>8, <2>1
  <1>10. \A k \in 1..n : Kind(u[k]) = Kind(taken[k])
    BY <1>5, <1>7
  <1> QED BY <1>5, <1>6, <1>9, <1>10 DEF IsSequence

LEMMA TakenPlaces ==
    ASSUME NEW T, NEW x, Extends(T, x), IsSequence(taken), source' = source
    PROVE  \A p : IF x.own /\ p \in x.kept
                  THEN Nowhere(p) => Once(p)'
                  ELSE (Nowhere(p) => Nowhere(p)') /\ (Once(p) => Once(p)')
  <1>1. PICK n \in Nat : /\ DOMAIN taken = 1..n /\ DOMAIN taken' = 1..n + 1
                         /\ taken'[n + 1] = x
                         /\ \A k \in 1..n : Kind(taken'[k]) = Kind(taken[k])
    BY TakenTyped
  <1> SUFFICES ASSUME NEW p
               PROVE  IF x.own /\ p \in x.kept
                      THEN Nowhere(p) => Once(p)'
                      ELSE (Nowhere(p) => Nowhere(p)') /\ (Once(p) => Once(p)')
    OBVIOUS
  <1>2. Places(source, p)' = Places(source, p)
    BY DEF Places
  <1>3. \A k \in 1..n : k \in InTaken(p)' <=> k \in InTaken(p)
    <2> SUFFICES ASSUME NEW k \in 1..n
                 PROVE  k \in InTaken(p)' <=> k \in InTaken(p)
      OBVIOUS
    <2>1. taken'[k].own = taken[k].own /\ taken'[k].kept = taken[k].kept
      BY <1>1 DEF Kind
    <2>2. k \in DOMAIN taken /\ k \in DOMAIN taken'
      BY <1>1
    <2> QED BY <2>1, <2>2, Zenon DEF InTaken
  <1>4. InTaken(p) \subseteq 1..n /\ InTaken(p)' \subseteq 1..n + 1
    BY <1>1 DEF InTaken
  <1>5. n + 1 \in InTaken(p)' <=> x.own /\ p \in x.kept
    <2>1. n + 1 \in DOMAIN taken'
      BY <1>1
    <2> QED BY <1>1, <2>1, Zenon DEF InTaken
  <1>6. \A k \in 1..n + 1 : k = n + 1 \/ k \in 1..n
    OBVIOUS
  <1>7. CASE x.own /\ p \in x.kept
    <2>1. Nowhere(p) => InTaken(p)' = {n + 1}
      BY <1>3, <1>4, <1>5, <1>6, <1>7 DEF Nowhere
    <2>2. n + 1 \in DOMAIN taken'
      BY <1>1
    <2>3. Nowhere(p) => Once(p)'
      BY <1>2, <2>1, <2>2, Zenon DEF Nowhere, Once
    <2> QED BY <1>7, <2>3, Zenon
  <1>8. CASE ~ (x.own /\ p \in x.kept)
    <2>1. InTaken(p)' = InTaken(p)
      BY <1>3, <1>4, <1>5, <1>6, <1>8
    <2>2. \A k \in DOMAIN taken : k \in DOMAIN taken'
      BY <1>1
    <2>3. (Nowhere(p) => Nowhere(p)') /\ (Once(p) => Once(p)')
      BY <1>2, <2>1, <2>2, Zenon DEF Nowhere, Once
    <2> QED BY <1>8, <2>3, Zenon
  <1> QED BY <1>7, <1>8

\* A definition that covers what is read of the document, if it is of it.
LEMMA TakenKeeps ==
    ASSUME NEW T, NEW x, Extends(T, x), IsSequence(taken), source' = source,
           LettersKept, data' = data, IsSequence(data),
           x.own => Covers(x.kept, ReadTo, ReadTo'), ~ x.own => Covers({}, ReadTo, ReadTo')
    PROVE  LettersKept'
  <1>1. PICK K : Covers(K, ReadTo, ReadTo') /\ \A p : p \in K <=> x.own /\ p \in x.kept
    <2>1. CASE x.own
      BY <2>1
    <2>2. CASE ~ x.own
      <3>1. \A p : p \in {} <=> x.own /\ p \in x.kept
        BY <2>2
      <3> QED BY <2>2, <3>1
    <2> QED BY <2>1, <2>2
  <1>2. PICK r, s \in Int : r = ReadTo /\ s = ReadTo' /\ r <= s
    BY <1>1 DEF Covers
  <1>3. PICK B \in Nat : B = Beyond /\ DOMAIN data = 1..B - 1
    <2>1. PICK S : data \in Seq(S)
      BY DEF IsSequence
    <2>2. Len(data) \in Nat /\ DOMAIN data = 1..Len(data) + 1 - 1
      BY <2>1
    <2> QED BY <2>2 DEF Beyond
  <1>4. \A p : IF p \in K THEN Nowhere(p) => Once(p)'
               ELSE (Nowhere(p) => Nowhere(p)') /\ (Once(p) => Once(p)')
    BY <1>1, TakenPlaces, Zenon
  <1>5. /\ \A p \in K : p \in r..s - 1
        /\ \A p \in r..s - 1 : p < B /\ data[p] \in Letters => p \in K
    BY <1>1, <1>2, <1>3 DEF Covers
  <1>6. ASSUME NEW p \in DOMAIN data
        PROVE  /\ Nowhere(p) /\ p >= s => Nowhere(p)'
               /\ Nowhere(p) /\ p >= r /\ p < s /\ data[p] \in Letters => Once(p)'
               /\ Once(p) /\ p < r /\ data[p] \in Letters => Once(p)'
    <2>1. p \in Int /\ p < B
      BY <1>3
    <2>2. p \in K => p >= r /\ ~ (p >= s)
      BY <1>2, <1>5, <2>1
    <2>3. p >= r /\ p < s /\ data[p] \in Letters => p \in K
      BY <1>2, <1>5, <2>1
    <2>4. p < r => ~ (p >= r)
      BY <1>2, <2>1
    <2> QED BY <1>4, <2>2, <2>3, <2>4, Zenon
  <1>7. \A p \in DOMAIN data :
            /\ Nowhere(p) /\ p >= ReadTo' => Nowhere(p)'
            /\ Nowhere(p) /\ p >= ReadTo /\ p < ReadTo' /\ data[p] \in Letters => Once(p)'
            /\ Once(p) /\ p < ReadTo /\ data[p] \in Letters => Once(p)'
    BY <1>2, <1>6, Zenon
  <1> QED BY <1>2, <1>7, LettersGoOn

\* Where the lines are read or all has been, no metadata is left to look at.
LEMMA NoneBegun ==
    ASSUME outcome \notin {"called", "metadata"}, ext' = ext, data' = data,
           outcome' \notin {"called", "metadata"}, OwnMetadata, metas' = metas
    PROVE  OwnMetadata'
  <1>1. (HasMetadata <=> HasMetadata') /\ OwnString' = OwnString
    BY DEF HasMetadata, OwnString, Start, MetaEnd, Beyond, AtEnd, Is
  <1> QED BY <1>1, Zenon DEF OwnMetadata

LEMMA CallLetters ==
    ASSUME ParseInv, KeptInv, Call
    PROVE  KeptInv'
  <1>1. /\ outcome = "called" /\ Begin(metas) /\ IsSequence(data)
        /\ UNCHANGED <<ext, data, taken, source>>
    BY DEF Call, ParseInv, Paragraphs
  <1>2. OwnLeft(metas)
    BY Zenon DEF KeptInv, KeptTyped, OwnMetadata, OwnLeft
  <1>3. OwnMetadata' /\ IsSequence(metas') /\ ReadTo' = FirstRead(metas)
    BY <1>1, <1>2, BeginReads
  <1>4. KeptTyped'
    BY <1>1, <1>3 DEF KeptInv, KeptTyped
  <1>5. PICK st \in 1..2 : st = Start /\ \A p \in 1..st - 1 : data[p] \notin Letters
    BY <1>1, MetaEndIs
  <1>6. FirstRead(metas) \in {1, st}
    <2>1. CASE \A k \in DOMAIN metas : ~ metas[k].own
      <3>1. ~ HasMetadata
        BY <1>1, <2>1, Zenon DEF KeptInv, OwnMetadata
      <3>2. FirstRead(metas) = Start
        BY <2>1, <3>1, Zenon DEF FirstRead, LinesBegin
      <3> QED BY <1>5, <3>2
    <2>2. CASE ~ \A k \in DOMAIN metas : ~ metas[k].own
      <3>1. FirstRead(metas) = Start \/ FirstRead(metas) = 1
        BY <2>2, Zenon DEF FirstRead
      <3> QED BY <1>5, <3>1
    <2> QED BY <2>1, <2>2
  <1>7. ReadTo = 1
    <2>1. outcome # "reading" /\ outcome # "metadata" /\ outcome \notin {"parsing", "done", "refused"}
      BY <1>1
    <2> QED BY <2>1, Zenon DEF ReadTo
  <1>8. PICK r, s \in Int : r = ReadTo /\ s = ReadTo' /\ r = 1 /\ s \in {1, st}
    BY <1>3, <1>5, <1>6, <1>7
  <1>9. ASSUME NEW p \in DOMAIN data
        PROVE  /\ Nowhere(p) => Nowhere(p)'
               /\ p >= r /\ p < s => data[p] \notin Letters
               /\ ~ (p < r)
    <2>1. Nowhere(p) => Nowhere(p)'
      BY <1>1 DEF Nowhere, InTaken, Places
    <2>2. p \in Int /\ 1 <= p
      BY <1>1 DEF IsSequence
    <2> QED BY <1>5, <1>8, <2>1, <2>2
  <1>10. \A p \in DOMAIN data :
            /\ Nowhere(p) /\ p >= ReadTo' => Nowhere(p)'
            /\ Nowhere(p) /\ p >= ReadTo /\ p < ReadTo' /\ data[p] \in Letters => Once(p)'
            /\ Once(p) /\ p < ReadTo /\ data[p] \in Letters => Once(p)'
    BY <1>8, <1>9, Zenon
  <1>11. ReadTo <= ReadTo'
    BY <1>5, <1>8
  <1>12. LettersKept'
    BY <1>1, <1>8, <1>10, <1>11, LettersGoOn DEF KeptInv
  <1> QED BY <1>3, <1>4, <1>12 DEF KeptInv

LEMMA DefineLetters ==
    ASSUME ParseInv, KeptInv, Define
    PROVE  KeptInv'
  <1>1. /\ outcome = "reading" /\ outcome' = outcome /\ beg \in Int /\ IsSequence(data)
        /\ UNCHANGED <<ext, data, metas, source>>
    BY DEF Define, Line, ParseInv, Paragraphs
  <1>2. PICK d : d = DefinitionAt(beg) /\ d # NotDefined /\ taken' = Append(taken, d)
                 /\ beg' = d.end
    BY DEF Define
  <1>3. Defines(d, beg)
    BY <1>1, <1>2, DefinitionDefines
  <1>4. IsDefinition(d) /\ d.own = TRUE /\ Covers(d.kept, beg, beg')
    BY <1>2, <1>3 DEF Defines
  <1>5. Extends(taken, d)
    BY <1>2, <1>4 DEF Extends, KeptInv, KeptTyped
  <1>6. ReadTo = beg /\ ReadTo' = beg'
    BY <1>1 DEF ReadTo
  <1>7. LettersKept'
    <2>1. (d.own => Covers(d.kept, ReadTo, ReadTo')) /\ (~ d.own => Covers({}, ReadTo, ReadTo'))
      BY <1>4, <1>6
    <2>2. IsSequence(taken) /\ LettersKept
      BY DEF KeptInv, KeptTyped
    <2> QED BY <1>1, <1>5, <2>1, <2>2, TakenKeeps
  <1>8. KeptTyped'
    BY <1>1, <1>5, TakenTyped DEF KeptInv, KeptTyped
  <1>9. OwnMetadata'
    BY <1>1, NoneBegun DEF KeptInv
  <1> QED BY <1>7, <1>8, <1>9 DEF KeptInv

LEMMA CopyLineLetters ==
    ASSUME ParseInv, KeptInv, CopyLine
    PROVE  KeptInv'
  <1>1. /\ outcome = "reading" /\ outcome' = outcome /\ beg \in Int /\ IsSequence(data)
        /\ UNCHANGED <<ext, data, metas, taken>>
    BY DEF CopyLine, Line, ParseInv, Paragraphs
  <1>2. PICK end : end = LineEnd(beg)
    OBVIOUS
  <1>3. PICK next : next = Past(data, end, Beyond, Eol)
    OBVIOUS
  <1>4. PICK copied : copied = ExpandTabs(beg, end) \o Newlines(end, next)
    OBVIOUS
  <1>5. source' = source \o copied /\ beg' = next
    BY <1>2, <1>3, <1>4 DEF CopyLine
  <1>6. /\ copied \in Seq(Int) /\ next \in Int /\ beg <= next
        /\ \A q \in Int : q # 0 =>
             /\ q \notin beg..next - 1 => Places(copied, q) = {}
             /\ q \in beg..next - 1 /\ q < Beyond /\ data[q] \in Letters => Single(copied, q)
    BY <1>1, <1>2, <1>3, <1>4, CopiedOnce
  <1>7. ReadTo = beg /\ ReadTo' = beg'
    BY <1>1 DEF ReadTo
  <1>8. source \in Seq(Int) /\ LettersKept
    BY DEF KeptInv, KeptTyped
  <1>9. DOMAIN data \subseteq Int /\ \A q \in DOMAIN data : q # 0 /\ q < Beyond
    <2>1. PICK S : data \in Seq(S)
      BY <1>1 DEF IsSequence
    <2>2. PICK n \in Nat : n = Len(data) /\ DOMAIN data = 1..n
      BY <2>1
    <2> QED BY <2>2 DEF Beyond
  <1>10. \A p : InTaken(p)' = InTaken(p)
    BY <1>1 DEF InTaken
  <1>11. ASSUME NEW p \in DOMAIN data
         PROVE  /\ Nowhere(p) /\ p >= next => Nowhere(p)'
                /\ Nowhere(p) /\ p >= beg /\ p < next /\ data[p] \in Letters => Once(p)'
                /\ Once(p) /\ p < beg /\ data[p] \in Letters => Once(p)'
    <2>1. p \in Int /\ p # 0 /\ p < Beyond
      BY <1>9
    <2>2. /\ Places(copied, p) = {} => Places(source', p) = Places(source, p)
          /\ Places(copied, p) = {} /\ Single(source, p) => Single(source', p)
          /\ Single(copied, p) /\ Places(source, p) = {} => Single(source', p)
      BY <1>5, <1>6, <1>8, <2>1, PlacesJoin
    <2>3. /\ p \notin beg..next - 1 => Places(copied, p) = {}
          /\ p \in beg..next - 1 /\ data[p] \in Letters => Single(copied, p)
      BY <1>6, <2>1
    <2>4. p >= next \/ p < beg => p \notin beg..next - 1
      BY <1>1, <1>6, <2>1
    <2>5. p >= beg /\ p < next => p \in beg..next - 1
      BY <1>1, <1>6, <2>1
    <2>6. Nowhere(p) /\ p >= next => Nowhere(p)'
      <3>1. Places(source, p)' = Places(source', p)
        BY DEF Places
      <3> QED BY <1>10, <2>2, <2>3, <2>4, <3>1, Zenon DEF Nowhere
    <2>7. Nowhere(p) /\ p >= beg /\ p < next /\ data[p] \in Letters => Once(p)'
      <3>1. Places(source, p)' = Places(source', p)
        BY DEF Places
      <3> QED BY <1>10, <2>2, <2>3, <2>5, <3>1, Zenon DEF Nowhere, Once, Single
    <2>8. Once(p) /\ p < beg /\ data[p] \in Letters => Once(p)'
      <3>1. Places(source, p)' = Places(source', p)
        BY DEF Places
      <3>2. p < beg => Places(copied, p) = {}
        BY <2>3, <2>4
      <3>3. taken' = taken
        BY <1>1
      <3> QED BY <1>10, <2>2, <3>1, <3>2, <3>3, Zenon DEF Once, Single
    <2> QED BY <2>6, <2>7, <2>8
  <1>12. \A p \in DOMAIN data :
            /\ Nowhere(p) /\ p >= ReadTo' => Nowhere(p)'
            /\ Nowhere(p) /\ p >= ReadTo /\ p < ReadTo' /\ data[p] \in Letters => Once(p)'
            /\ Once(p) /\ p < ReadTo /\ data[p] \in Letters => Once(p)'
    BY <1>5, <1>7, <1>11, Zenon
  <1>13. LettersKept'
    BY <1>1, <1>5, <1>6, <1>7, <1>8, <1>12, LettersGoOn
  <1>14. KeptTyped'
    <2>1. source' \in Seq(Int)
      BY <1>5, <1>6, <1>8, ConcatProperties
    <2> QED BY <1>1, <2>1 DEF KeptInv, KeptTyped
  <1>15. OwnMetadata'
    BY <1>1, NoneBegun DEF KeptInv
  <1> QED BY <1>13, <1>14, <1>15 DEF KeptInv

\* The rest of the metadata.
LEMMA TailLeft ==
    ASSUME NEW s, OwnLeft(s), s # <<>>
    PROVE  /\ OwnLeft(Tail(s)) /\ 1 \in DOMAIN s /\ Head(s) = s[1]
           /\ s[1].own => \A k \in DOMAIN Tail(s) : ~ Tail(s)[k].own
           /\ (\A k \in DOMAIN s : ~ s[k].own) => \A k \in DOMAIN Tail(s) : ~ Tail(s)[k].own
           /\ ~ s[1].own /\ (\E k \in DOMAIN s : s[k].own)
                => \E k \in DOMAIN Tail(s) : Tail(s)[k].own
  <1>1. PICK S : s \in Seq(S)
    BY DEF OwnLeft, IsSequence
  <1>2. PICK n \in Nat : n = Len(s) /\ DOMAIN s = 1..n /\ n # 0
    BY <1>1
  <1>3. PICK t \in Seq(S) : t = Tail(s)
    BY <1>1, HeadTailProperties
  <1>4. DOMAIN t = 1..n - 1 /\ \A k \in 1..n - 1 : t[k] = s[k + 1] /\ k + 1 \in 1..n /\ k + 1 # 1
    BY <1>1, <1>2, <1>3
  <1>5. \A k \in 1..n : k = 1 \/ \E j \in 1..n - 1 : j + 1 = k
    <2> SUFFICES ASSUME NEW k \in 1..n, k # 1
                 PROVE  \E j \in 1..n - 1 : j + 1 = k
      OBVIOUS
    <2>1. k - 1 \in 1..n - 1 /\ k - 1 + 1 = k
      OBVIOUS
    <2> QED BY <2>1
  <1>6. 1 \in DOMAIN s /\ Head(s) = s[1]
    BY <1>1, <1>2
  <1>7. /\ \A k \in 1..n : s[k].own => HasMetadata /\ s[k].string = OwnString
        /\ \A j, k \in 1..n : s[j].own /\ s[k].own => j = k
    BY <1>2, Zenon DEF OwnLeft
  <1>8. \A k \in 1..n - 1 : t[k].own => HasMetadata /\ t[k].string = OwnString
    BY <1>4, <1>7, Zenon
  <1>9. ASSUME NEW j \in 1..n - 1, NEW k \in 1..n - 1, t[j].own, t[k].own
        PROVE  j = k
    <2>1. j + 1 = k + 1
      BY <1>4, <1>7, <1>9, Zenon
    <2> QED BY <2>1
  <1>10. OwnLeft(t)
    <2>1. IsSequence(t)
      BY DEF IsSequence
    <2> QED BY <1>4, <1>8, <1>9, <2>1, Zenon DEF OwnLeft
  <1>11. s[1].own => \A k \in 1..n - 1 : ~ t[k].own
    BY <1>2, <1>4, <1>6, <1>7, Zenon
  <1>12. (\A k \in 1..n : ~ s[k].own) => \A k \in 1..n - 1 : ~ t[k].own
    BY <1>4, Zenon
  <1>13. ~ s[1].own /\ (\E k \in 1..n : s[k].own) => \E k \in 1..n - 1 : t[k].own
    <2> SUFFICES ASSUME ~ s[1].own, NEW k \in 1..n, s[k].own
                 PROVE  \E j \in 1..n - 1 : t[j].own
      OBVIOUS
    <2>1. PICK j \in 1..n - 1 : j + 1 = k
      BY <1>5, Zenon
    <2>2. t[j] = s[k]
      BY <1>4, <2>1
    <2> QED BY <2>2, Zenon
  <1>14. /\ OwnLeft(t) /\ 1 \in DOMAIN s /\ Head(s) = s[1]
         /\ s[1].own => \A k \in DOMAIN t : ~ t[k].own
         /\ (\A k \in DOMAIN s : ~ s[k].own) => \A k \in DOMAIN t : ~ t[k].own
         /\ ~ s[1].own /\ (\E k \in DOMAIN s : s[k].own) => \E k \in DOMAIN t : t[k].own
    <2>1. DOMAIN s = 1..n /\ DOMAIN t = 1..n - 1
      BY <1>2, <1>4
    <2> QED BY <1>6, <1>10, <1>11, <1>12, <1>13, <2>1, Zenon
  <1> QED BY <1>3, <1>14, Zenon

\* A pair that is replaced keeps what is kept of it.
LEMMA ReplacedKeeps ==
    ASSUME NEW d, IsDefinition(d)
    PROVE  IsDefinition(Replaced(d)) /\ Kind(Replaced(d)) = Kind(d)
  <1>1. PICK w, k, p, o, e : d = [what |-> w, key |-> k, kept |-> p, own |-> o, end |-> e]
    BY DEF IsDefinition
  <1>2. Replaced(d) = [what |-> "REPLACED", key |-> k, kept |-> p, own |-> o, end |-> e]
    BY <1>1 DEF Replaced
  <1> QED BY <1>1, <1>2 DEF IsDefinition, Kind

LEMMA OwnPair ==
    ASSUME NEW d, IsDefinition(d), NEW o
    PROVE  LET x == [d EXCEPT !.own = o]
           IN IsDefinition(x) /\ x.own = o /\ x.kept = d.kept
  <1>1. PICK w, k, p, q, e : d = [what |-> w, key |-> k, kept |-> p, own |-> q, end |-> e]
    BY DEF IsDefinition
  <1>2. [d EXCEPT !.own = o] = [what |-> w, key |-> k, kept |-> p, own |-> o, end |-> e]
    BY <1>1
  <1> QED BY <1>1, <1>2 DEF IsDefinition

LEMMA PairIs ==
    ASSUME NEW m, NEW p
    PROVE  IsDefinition(parse_metadata(m, p))
  <1>1. \E what, key, kept, end : parse_metadata(m, p) = Defined(what, key, kept, end)
    BY Zenon DEF parse_metadata
  <1> QED BY <1>1, DefinedFields

LEMMA MetadataTaken ==
    ASSUME Metadata, KeptTyped
    PROVE  LET given == Head(metas)
               m == parse_metadata(given.string, beg)
               x == [m EXCEPT !.own = given.own]
           IN /\ \E T : Extends(T, x)
              /\ IF m.end <= Len(given.string)
                 THEN beg' = m.end /\ UNCHANGED <<metas, outcome>>
                 ELSE Begin(Tail(metas))
  <1>1. PICK h : h = Head(metas)
    OBVIOUS
  <1>2. PICK m : m = parse_metadata(h.string, beg)
    OBVIOUS
  <1>3. PICK T : T = [k \in DOMAIN taken |->
                         IF taken[k].key = m.key THEN Replaced(taken[k]) ELSE taken[k]]
    OBVIOUS
  <1>4. /\ taken' = Append(T, [m EXCEPT !.own = h.own])
        /\ IF m.end <= Len(h.string)
           THEN beg' = m.end /\ UNCHANGED <<metas, outcome>>
           ELSE Begin(Tail(metas))
    BY <1>1, <1>2, <1>3, Zenon DEF Metadata
  <1>5. IsDefinition([m EXCEPT !.own = h.own])
    BY <1>2, PairIs, OwnPair
  <1>6. DOMAIN T = DOMAIN taken
    BY <1>3
  <1>7. \A k \in DOMAIN taken : IsDefinition(T[k]) /\ Kind(T[k]) = Kind(taken[k])
    <2> SUFFICES ASSUME NEW k \in DOMAIN taken
                 PROVE  IsDefinition(T[k]) /\ Kind(T[k]) = Kind(taken[k])
      OBVIOUS
    <2>1. T[k] = Replaced(taken[k]) \/ T[k] = taken[k]
      BY <1>3
    <2>2. IsDefinition(taken[k])
      BY DEF KeptTyped
    <2> QED BY <2>1, <2>2, ReplacedKeeps
  <1>8. IsSequence(T)
    <2>1. PICK S : taken \in Seq(S)
      BY DEF KeptTyped, IsSequence
    <2>2. PICK n \in Nat : DOMAIN taken = 1..n
      BY <2>1
    <2>3. PICK R : R = {T[k] : k \in 1..n}
      OBVIOUS
    <2>4. T = [k \in 1..n |-> T[k]]
      BY <1>3, <2>2
    <2>5. T \in [1..n -> R]
      BY <2>3, <2>4
    <2>6. T \in Seq(R)
      BY <2>5, FunctionIsSeq
    <2> QED BY <2>6 DEF IsSequence
  <1>9. Extends(T, [m EXCEPT !.own = h.own])
    BY <1>4, <1>5, <1>6, <1>7, <1>8 DEF Extends
  <1> QED BY <1>1, <1>2, <1>4, <1>9, Zenon

\* A pair of metadata that is not the document's own.
LEMMA ForeignPair ==
    ASSUME OwnLeft(metas), metas # <<>>, ~ metas[1].own, IsSequence(data), OwnMetadata,
           outcome = "metadata", UNCHANGED <<data, ext>>,
           UNCHANGED <<metas, outcome>> \/ Begin(Tail(metas))
    PROVE  /\ OwnMetadata' /\ IsSequence(metas') /\ Covers({}, ReadTo, ReadTo')
  <1>1. PICK st \in 1..2 : st = Start /\ \A p \in 1..st - 1 : data[p] \notin Letters
    BY MetaEndIs
  <1>2. PICK l \in Int : l = LinesBegin
    <2>1. MetaEnd + 1 \in Int /\ Start \in Int
      BY MetaEndIs
    <2>2. LinesBegin = MetaEnd + 1 \/ LinesBegin = Start
      BY DEF LinesBegin
    <2> QED BY <2>1, <2>2
  <1>3. ReadTo = IF \A k \in DOMAIN metas : ~ metas[k].own THEN LinesBegin ELSE 1
    <2>1. outcome # "reading" /\ outcome \notin {"parsing", "done", "refused"}
      OBVIOUS
    <2> QED BY <2>1, Zenon DEF ReadTo
  <1>4. Covers({}, l, l) /\ Covers({}, 1, 1) /\ Covers({}, 1, st)
    <2>1. Covers({}, 1, st)
      BY <1>1 DEF Covers
    <2> QED BY <2>1, CoversEmpty
  <1>5. /\ (HasMetadata <=> HasMetadata') /\ OwnString' = OwnString /\ Start' = Start
        /\ MetaEnd' = MetaEnd /\ LinesBegin' = LinesBegin
    BY DEF HasMetadata, OwnString, Start, MetaEnd, LinesBegin, Beyond, AtEnd, Is
  <1>6. CASE UNCHANGED <<metas, outcome>>
    <2>1. metas' = metas /\ outcome' = outcome
      BY <1>6
    <2>2. outcome' # "called"
      BY <2>1
    <2>3. OwnMetadata'
      BY <1>5, <2>1, <2>2, Zenon DEF OwnMetadata
    <2>4. ReadTo' = IF \A k \in DOMAIN metas : ~ metas[k].own THEN LinesBegin ELSE 1
      <3>1. outcome' # "reading" /\ outcome' \notin {"parsing", "done", "refused"}
        BY <2>1
      <3> QED BY <1>5, <2>1, <3>1, Zenon DEF ReadTo
    <2>5. ReadTo' = ReadTo /\ (ReadTo = l \/ ReadTo = 1)
      BY <1>2, <1>3, <2>4, Zenon
    <2> QED BY <1>4, <2>1, <2>3, <2>5 DEF OwnLeft
  <1>7. CASE Begin(Tail(metas))
    <2>1. PICK t : t = Tail(metas) /\ OwnLeft(t)
      BY TailLeft
    <2>2. OwnMetadata' /\ IsSequence(metas') /\ ReadTo' = FirstRead(t)
      BY <1>7, <2>1, BeginReads
    <2>3. CASE \A k \in DOMAIN metas : ~ metas[k].own
      <3>1. \A k \in DOMAIN t : ~ t[k].own
        BY <2>1, <2>3, TailLeft
      <3>2. ReadTo = l /\ ReadTo' = l
        BY <1>2, <1>3, <2>2, <2>3, <3>1, Zenon DEF FirstRead
      <3> QED BY <1>4, <2>2, <3>2
    <2>4. CASE ~ \A k \in DOMAIN metas : ~ metas[k].own
      <3>1. ~ \A k \in DOMAIN t : ~ t[k].own
        <4>1. \E k \in DOMAIN metas : metas[k].own
          BY <2>4, Zenon
        <4>2. \E k \in DOMAIN t : t[k].own
          BY <2>1, <4>1, TailLeft, Zenon
        <4> QED BY <4>2, Zenon
      <3>2. ReadTo = 1 /\ (ReadTo' = st \/ ReadTo' = 1)
        BY <1>1, <1>3, <2>2, <2>4, <3>1, Zenon DEF FirstRead
      <3> QED BY <1>4, <2>2, <3>2
    <2> QED BY <2>3, <2>4
  <1> QED BY <1>6, <1>7

\* A pair of the document's own metadata, from the place beg of it on.
LEMMA OwnPairCovers ==
    ASSUME OwnLeft(metas), metas # <<>>, metas[1].own, IsSequence(data), OwnMetadata,
           outcome = "metadata", UNCHANGED <<data, ext>>, NEW m, m = parse_metadata(metas[1].string, beg),
           IF m.end <= Len(metas[1].string)
           THEN beg' = m.end /\ UNCHANGED <<metas, outcome>> ELSE Begin(Tail(metas))
    PROVE  /\ OwnMetadata' /\ IsSequence(metas') /\ Covers(m.kept, ReadTo, ReadTo')
  <1>1. 1 \in DOMAIN metas
    BY TailLeft
  <1>2. PICK s : s = metas[1].string /\ s = OwnString /\ HasMetadata
    BY <1>1, Zenon DEF OwnLeft
  <1>3. PICK stop \in Int : stop = MetaEnd
    BY <1>2, OwnIs
  <1>4. /\ Start \in 1..2 /\ Start < stop /\ stop <= Beyond /\ Len(s) + 1 = stop /\ Len(s) = stop - 1
        /\ \A q \in 1..stop - 1 : s[q] = data[q]
    BY <1>2, <1>3, OwnIs
  <1>5. beg \in Start..stop - 1
    BY <1>3, Zenon DEF OwnMetadata
  <1>6. beg \in Int /\ beg < stop /\ \A q \in beg..stop - 1 : s[q] = data[q]
    BY <1>4, <1>5
  <1>7. m.end \in Int /\ beg < m.end /\ Covers(m.kept, beg, IF m.end < stop THEN m.end ELSE stop)
    BY <1>2, <1>4, <1>6, MetadataCovers
  <1>8. ReadTo = beg
    BY Zenon DEF ReadTo
  <1>9. CASE m.end <= Len(metas[1].string)
    <2>1. beg' = m.end /\ metas' = metas /\ outcome' = outcome
      BY <1>9
    <2>2. m.end < stop /\ m.end \in Start..stop - 1
      BY <1>2, <1>4, <1>5, <1>7, <1>9
    <2>3. /\ (HasMetadata <=> HasMetadata') /\ OwnString' = OwnString /\ Start' = Start
          /\ MetaEnd' = MetaEnd
      BY DEF HasMetadata, OwnString, Start, MetaEnd, Beyond, AtEnd, Is
    <2>4. beg' \in Start'..MetaEnd' - 1 /\ outcome' # "called"
      BY <1>3, <2>1, <2>2, <2>3
    <2>5. OwnMetadata'
      BY <2>1, <2>3, <2>4, Zenon DEF OwnMetadata
    <2>6. ReadTo' = beg'
      BY <2>1, Zenon DEF ReadTo
    <2>7. Covers(m.kept, ReadTo, ReadTo')
      BY <1>7, <1>8, <2>1, <2>2, <2>6
    <2> QED BY <2>1, <2>5, <2>7 DEF OwnLeft
  <1>10. CASE ~ (m.end <= Len(metas[1].string))
    <2>1. PICK t : t = Tail(metas) /\ OwnLeft(t) /\ \A k \in DOMAIN t : ~ t[k].own
      BY TailLeft
    <2>2. Begin(t)
      BY <1>10, <2>1
    <2>3. OwnMetadata' /\ IsSequence(metas') /\ ReadTo' = FirstRead(t)
      BY <2>1, <2>2, BeginReads
    <2>4. ReadTo' = stop + 1
      BY <1>2, <1>3, <2>1, <2>3, Zenon DEF FirstRead, LinesBegin
    <2>5. ~ (m.end < stop)
      BY <1>2, <1>4, <1>7, <1>10
    <2>6. Covers(m.kept, beg, stop)
      BY <1>7, <2>5
    <2>7. Covers({}, stop, stop + 1)
      <3>1. stop < Beyond => data[stop] \notin Letters
        BY <1>3, MetaEndIs, NoLetters
      <3>2. \A q \in stop..stop + 1 - 1 : q = stop
        OBVIOUS
      <3> QED BY <3>1, <3>2 DEF Covers
    <2>8. Covers(m.kept \cup {}, beg, stop + 1)
      BY ONLY <2>6, <2>7, CoversBoth
    <2>9. m.kept \cup {} = m.kept
      OBVIOUS
    <2> QED BY <1>8, <2>3, <2>4, <2>8, <2>9
  <1> QED BY <1>9, <1>10

LEMMA MetadataLetters ==
    ASSUME ParseInv, KeptInv, Metadata
    PROVE  KeptInv'
  <1>1. outcome = "metadata" /\ IsSequence(data) /\ UNCHANGED <<data, ext, source>>
    BY DEF Metadata, ParseInv, Paragraphs
  <1>2. metas # <<>> /\ OwnLeft(metas) /\ OwnMetadata /\ KeptTyped /\ LettersKept
    BY <1>1, Zenon DEF KeptInv, KeptTyped, OwnMetadata, OwnLeft
  <1>3. PICK h : h = metas[1] /\ h = Head(metas)
    BY <1>2, TailLeft
  <1>4. PICK m : m = parse_metadata(h.string, beg)
    OBVIOUS
  <1>5. PICK x : x = [m EXCEPT !.own = h.own]
    OBVIOUS
  <1>6. PICK T : Extends(T, x)
    BY <1>2, <1>3, <1>4, <1>5, MetadataTaken, Zenon
  <1>7. IF m.end <= Len(h.string)
        THEN beg' = m.end /\ UNCHANGED <<metas, outcome>> ELSE Begin(Tail(metas))
    BY <1>2, <1>3, <1>4, MetadataTaken, Zenon
  <1>8. x.own = h.own /\ x.kept = m.kept
    <2>1. IsDefinition(m)
      BY <1>4, PairIs
    <2> QED BY <1>5, <2>1, OwnPair
  <1>9. OwnMetadata' /\ IsSequence(metas') /\ (h.own => Covers(m.kept, ReadTo, ReadTo'))
        /\ (~ h.own => Covers({}, ReadTo, ReadTo'))
    <2>1. CASE h.own
      <3>1. metas[1].own
        BY <1>3, <2>1
      <3>2. m = parse_metadata(metas[1].string, beg)
        BY <1>3, <1>4
      <3>3. IF m.end <= Len(metas[1].string)
            THEN beg' = m.end /\ UNCHANGED <<metas, outcome>> ELSE Begin(Tail(metas))
        BY <1>3, <1>7, Zenon
      <3>4. OwnMetadata' /\ IsSequence(metas') /\ Covers(m.kept, ReadTo, ReadTo')
        BY <1>1, <1>2, <3>1, <3>2, <3>3, OwnPairCovers
      <3> QED BY <2>1, <3>4
    <2>2. CASE ~ h.own
      <3>1. ~ metas[1].own
        BY <1>3, <2>2
      <3>2. UNCHANGED <<metas, outcome>> \/ Begin(Tail(metas))
        BY <1>7, Zenon
      <3>3. OwnMetadata' /\ IsSequence(metas') /\ Covers({}, ReadTo, ReadTo')
        BY <1>1, <1>2, <3>1, <3>2, ForeignPair
      <3> QED BY <2>2, <3>3
    <2> QED BY <2>1, <2>2
  <1>10. (x.own => Covers(x.kept, ReadTo, ReadTo')) /\ (~ x.own => Covers({}, ReadTo, ReadTo'))
    BY <1>8, <1>9
  <1>11. IsSequence(taken)
    BY <1>2 DEF KeptTyped
  <1>12. LettersKept'
    BY <1>1, <1>2, <1>6, <1>10, <1>11, TakenKeeps
  <1>13. KeptTyped'
    BY <1>1, <1>2, <1>6, <1>9, <1>11, TakenTyped DEF KeptTyped
  <1> QED BY <1>9, <1>12, <1>13 DEF KeptInv

\* When all lines have been read the places stay as they are.
LEMMA AfterLetters ==
    ASSUME ParseInv, KeptInv, UNCHANGED <<data, ext, metas, taken, source>>,
           \/ outcome = "reading" /\ AtEnd(beg)
           \/ outcome \in {"parsing", "done", "refused"},
           outcome' \in {"parsing", "done", "refused"}
    PROVE  KeptInv'
  <1>1. IsSequence(data)
    BY DEF ParseInv, Paragraphs
  <1>2. PICK B \in Nat : B = Beyond /\ Beyond' = B /\ DOMAIN data = 1..B - 1
    <2>1. PICK S : data \in Seq(S)
      BY <1>1 DEF IsSequence
    <2>2. Len(data) \in Nat /\ DOMAIN data = 1..Len(data) + 1 - 1
      BY <2>1
    <2> QED BY <2>2 DEF Beyond
  <1>3. outcome \notin {"called", "metadata"} /\ outcome' \notin {"called", "metadata"}
    OBVIOUS
  <1>4. ReadTo' = B
    <2>1. outcome' # "reading" /\ outcome' # "metadata"
      OBVIOUS
    <2> QED BY <1>2, <2>1, Zenon DEF ReadTo
  <1>5. ReadTo \in Int /\ B <= ReadTo
    <2>1. CASE outcome = "reading" /\ AtEnd(beg)
      <3>1. ReadTo = beg /\ beg \in Int
        BY <2>1 DEF ReadTo, ParseInv, Paragraphs
      <3> QED BY <1>2, <2>1, <3>1 DEF AtEnd
    <2>2. CASE outcome \in {"parsing", "done", "refused"}
      <3>1. outcome # "reading" /\ outcome # "metadata"
        BY <2>2
      <3>2. ReadTo = B
        BY <1>2, <2>2, <3>1, Zenon DEF ReadTo
      <3> QED BY <3>2
    <2> QED BY <2>1, <2>2
  <1>6. ASSUME NEW p \in DOMAIN data
        PROVE  /\ data[p] \in Letters => Once(p)'
               /\ ~ (p >= B)
    <2>1. p < ReadTo /\ ~ (p >= B)
      BY <1>2, <1>5
    <2>2. data[p] \in Letters => Once(p)
      BY <2>1 DEF KeptInv, LettersKept
    <2>3. Once(p)' <=> Once(p)
      BY DEF Once, InTaken, Places
    <2> QED BY <2>1, <2>2, <2>3
  <1>7. LettersKept'
    BY <1>4, <1>6, Zenon DEF LettersKept
  <1>8. KeptTyped'
    BY DEF KeptInv, KeptTyped
  <1>9. OwnMetadata'
    BY <1>3, NoneBegun DEF KeptInv
  <1> QED BY <1>7, <1>8, <1>9 DEF KeptInv

LEMMA StaysLetters ==
    ASSUME KeptInv, UNCHANGED docVars
    PROVE  KeptInv'
  <1>1. UNCHANGED <<ext, outcome, data, metas, beg, taken, source>>
    BY DEF docVars, vars
  <1>2. /\ (HasMetadata <=> HasMetadata') /\ OwnString' = OwnString /\ Start' = Start
        /\ MetaEnd' = MetaEnd /\ LinesBegin' = LinesBegin /\ Beyond' = Beyond
    BY <1>1 DEF HasMetadata, OwnString, Start, MetaEnd, LinesBegin, Beyond, AtEnd, Is
  <1>3. ReadTo' = ReadTo
    BY <1>1, <1>2, Zenon DEF ReadTo
  <1>4. \A p : (Once(p)' <=> Once(p)) /\ (Nowhere(p)' <=> Nowhere(p))
    BY <1>1 DEF Once, Nowhere, InTaken, Places
  <1>5. OwnMetadata'
    <2>1. OwnMetadata
      BY DEF KeptInv
    <2> QED BY <1>1, <1>2, <2>1, Zenon DEF OwnMetadata
  <1>6. KeptTyped'
    BY <1>1 DEF KeptInv, KeptTyped
  <1>7. LettersKept'
    <2>1. LettersKept
      BY DEF KeptInv
    <2> QED BY <1>1, <1>3, <1>4, <2>1, Zenon DEF LettersKept
  <1> QED BY <1>5, <1>6, <1>7 DEF KeptInv

LEMMA NextLetters ==
    ASSUME ParseInv, KeptInv, [Next]_docVars
    PROVE  KeptInv'
  <1>1. CASE Over \/ UNCHANGED docVars
    BY <1>1, StaysLetters DEF Over
  <1>2. CASE ParseInline /\ UNCHANGED <<data, metas, beg, taken, source>>
    <2>1. outcome = "parsing" /\ outcome' \in {"parsing", "done", "refused"} /\ ext' = ext
      BY <1>2, ParseInlineTexts
    <2> QED BY <1>2, <2>1, AfterLetters
  <1>3. CASE EndReading
    BY <1>3, AfterLetters DEF EndReading
  <1>4. CASE NextBlock
    <2>1. /\ outcome = "done" /\ outcome' \in {"done", "parsing"}
          /\ UNCHANGED <<data, ext, metas, taken, source>>
      BY <1>4 DEF NextBlock
    <2> QED BY <2>1, AfterLetters
  <1> QED BY <1>1, <1>2, <1>3, <1>4, CallLetters, MetadataLetters, DefineLetters, CopyLineLetters
          DEF Next

-----------------------------------------------------------------------------
(* Where the parse begins *)

\* Of the metadata to parse only the document's own is its own.
OwnIn(s, b, r) ==
    /\ IsSequence(s)
    /\ \A k \in DOMAIN s : s[k].own => b = <<r>> /\ s[k] = r
    /\ \A j, k \in DOMAIN s : s[j].own /\ s[k].own => j = k
    /\ b = <<r>> => \E k \in DOMAIN s : s[k].own

LEMMA OneOwn ==
    ASSUME NEW a \in Seq(Foreign), NEW c \in Seq(Foreign), NEW r, r.own, NEW b,
           b \in {<<>>, <<r>>}
    PROVE  OwnIn(a \o b \o c, b, r)
  <1>1. PICK S : S = Foreign \cup {r}
    OBVIOUS
  <1>2. a \in Seq(S) /\ c \in Seq(S)
    <2>1. Foreign \subseteq S
      BY <1>1
    <2> QED BY <2>1, SeqMonotonic
  <1>3. b \in Seq(S) /\ Len(b) \in Nat /\ (b = <<>> => Len(b) = 0)
        /\ (b = <<r>> => Len(b) = 1 /\ b[1] = r)
    <2>1. CASE b = <<>>
      BY <2>1
    <2>2. CASE b = <<r>>
      <3>1. r \in S
        BY <1>1
      <3> QED BY <2>2, <3>1
    <2> QED BY <2>1, <2>2
  <1>4. PICK n, m, o \in Nat : n = Len(a) /\ m = Len(b) /\ o = Len(c)
    BY <1>2, <1>3
  <1>5. PICK t \in Seq(S) : t = a \o b
    BY <1>2, <1>3, ConcatProperties
  <1>6. Len(t) = n + m /\ (\A k \in 1..n : t[k] = a[k]) /\ \A k \in 1..m : t[n + k] = b[k]
    BY <1>2, <1>3, <1>4, <1>5, ConcatProperties
  <1>7. PICK s \in Seq(S) : s = t \o c
    BY <1>2, ConcatProperties
  <1>8. Len(s) = n + m + o /\ (\A k \in 1..n + m : s[k] = t[k]) /\ \A k \in 1..o : s[n + m + k] = c[k]
    <2>1. PICK q \in Nat : q = n + m /\ q = Len(t)
      BY <1>6
    <2>2. DOMAIN t = 1..q /\ DOMAIN c = 1..o /\ t \in Seq(S) /\ c \in Seq(S)
      BY <1>2, <1>4, <2>1
    <2>3. Len(s) = q + o /\ \A k \in 1..q + o : s[k] = IF k <= q THEN t[k] ELSE c[k - q]
      <3>1. /\ Len(t \o c) = Len(t) + Len(c)
            /\ \A k \in 1..Len(t) + Len(c) :
                   (t \o c)[k] = IF k <= Len(t) THEN t[k] ELSE c[k - Len(t)]
        BY ONLY <2>2, ConcatProperties
      <3> QED BY <1>4, <1>7, <2>1, <3>1, Zenon
    <2>4. \A k \in 1..q : s[k] = t[k]
      BY <2>3
    <2>5. ASSUME NEW k \in 1..o
          PROVE  s[q + k] = c[k]
      <3>1. PICK i \in 1..q + o : i = q + k /\ ~ (i <= q) /\ i - q = k
        OBVIOUS
      <3> QED BY <2>3, <3>1
    <2> QED BY <2>1, <2>3, <2>4, <2>5
  <1>9. DOMAIN s = 1..n + m + o
    BY <1>8
  <1>10. \A f \in Foreign : ~ f.own
    BY DEF Foreign
  <1>11. ASSUME NEW k \in 1..n + m + o
         PROVE  \/ s[k] \in Foreign
                \/ m = 1 /\ k = n + 1 /\ s[k] = r
    <2>1. m = 0 \/ (m = 1 /\ b[1] = r)
      BY <1>3, <1>4
    <2>2. CASE k \in 1..n
      <3>1. s[k] = a[k] /\ a[k] \in Foreign
        BY <1>4, <1>6, <1>8, <2>2
      <3> QED BY <3>1
    <2>3. CASE k \in n + 1..n + m
      <3>1. m = 1 /\ k = n + 1
        BY <2>1, <2>3
      <3>2. 1 \in 1..m /\ k \in 1..n + m
        BY <3>1
      <3>3. s[k] = b[1]
        BY <1>6, <1>8, <3>1, <3>2
      <3> QED BY <2>1, <3>1, <3>3
    <2>4. CASE k \in n + m + 1..n + m + o
      <3>1. PICK j \in 1..o : n + m + j = k
        <4>1. k - n - m \in 1..o /\ n + m + (k - n - m) = k
          BY <2>4
        <4> QED BY <4>1
      <3>2. s[k] = c[j] /\ c[j] \in Foreign
        BY <1>4, <1>8, <3>1
      <3> QED BY <3>2
    <2>5. k \in 1..n \/ k \in n + 1..n + m \/ k \in n + m + 1..n + m + o
      OBVIOUS
    <2> QED BY <2>2, <2>3, <2>4, <2>5
  <1>12. \A k \in DOMAIN s : s[k].own => m = 1 /\ k = n + 1 /\ s[k] = r
    BY <1>9, <1>10, <1>11, Zenon
  <1>13. m = 1 <=> b = <<r>>
    BY <1>3, <1>4
  <1>14. m = 1 => n + 1 \in DOMAIN s /\ s[n + 1] = r
    <2>1. m = 1 => n + 1 \in 1..n + m /\ n + 1 \in 1..n + m + o /\ 1 \in 1..m /\ b[1] = r
      BY <1>3, <1>4
    <2> QED BY <1>6, <1>8, <1>9, <2>1
  <1>15. IsSequence(s)
    BY DEF IsSequence
  <1>16. OwnIn(s, b, r)
    BY <1>12, <1>13, <1>14, <1>15, Zenon DEF OwnIn
  <1> QED BY <1>5, <1>7, <1>16, Zenon

LEMMA DocInitLetters ==
    ASSUME DocInit
    PROVE  KeptInv
  <1>1. beg = 1 /\ taken = <<>> /\ source = <<>>
    BY DEF DocInit
  <1>2. \A p : Nowhere(p)
    BY <1>1 DEF Nowhere, InTaken, Places
  <1>3. IsSequence(taken) /\ (\A k \in DOMAIN taken : IsDefinition(taken[k])) /\ source \in Seq(Int)
    <2>1. taken \in Seq(Int)
      BY <1>1
    <2> QED BY <1>1, <2>1 DEF IsSequence
  <1>4. CASE Init /\ data = <<>> /\ metas = <<>>
    <2>1. outcome = "parsing"
      BY <1>4 DEF Init
    <2>2. metas \in Seq(Int) /\ \A k : k \notin DOMAIN metas /\ k \notin DOMAIN data
      BY <1>4
    <2>3. OwnMetadata
      BY <2>1, <2>2 DEF OwnMetadata
    <2>4. LettersKept
      BY <2>2 DEF LettersKept
    <2> QED BY <1>3, <2>2, <2>3, <2>4 DEF KeptInv, KeptTyped, IsSequence
  <1>5. CASE ~ (Init /\ data = <<>> /\ metas = <<>>)
    <2>1. outcome = "called"
      BY <1>5, Zenon DEF DocInit
    <2>2. PICK r : r = [string |-> OwnString, own |-> TRUE]
      OBVIOUS
    <2>3. PICK x \in Documents :
              metas = Given(x.meta) \o (IF HasMetadata THEN <<r>> ELSE <<>>) \o Given(x.metaovr)
      BY <1>5, <2>2, Zenon DEF DocInit, OwnString
    <2>4. PICK a, c \in Seq(Foreign) : a = Given(x.meta) /\ c = Given(x.metaovr)
      <3>1. x.meta \in Seq(Seq(STRING)) /\ x.metaovr \in Seq(Seq(STRING))
        BY DocumentsAssumption, Zenon
      <3> QED BY <3>1, GivenIs, Zenon
    <2>5. PICK b \in {<<>>, <<r>>} : b = IF HasMetadata THEN <<r>> ELSE <<>>
      OBVIOUS
    <2>6. r.own /\ r.string = OwnString
      BY <2>2
    <2>7. metas = a \o b \o c
      BY <2>3, <2>4, <2>5
    <2>8. OwnIn(metas, b, r)
      <3>1. r.own
        BY <2>6
      <3>2. OwnIn(a \o b \o c, b, r)
        BY <3>1, OneOwn, Zenon
      <3> QED BY <2>7, <3>2, Zenon
    <2>9. b = <<r>> <=> HasMetadata
      BY <2>5
    <2>10. OwnMetadata
      <3>1. outcome # "metadata"
        BY <2>1
      <3> QED BY <2>6, <2>8, <2>9, <3>1, Zenon DEF OwnMetadata, OwnIn
    <2>11. ReadTo = 1
      <3>1. outcome # "reading" /\ outcome # "metadata" /\ outcome \notin {"parsing", "done", "refused"}
        BY <2>1
      <3> QED BY <3>1, Zenon DEF ReadTo
    <2>12. LettersKept
      <3>1. IsSequence(data)
        BY DocInitKeeps DEF ParseInv, Paragraphs
      <3>2. \A p \in DOMAIN data : ~ (p < 1)
        BY <3>1 DEF IsSequence
      <3> QED BY <1>2, <2>11, <3>2, Zenon DEF LettersKept
    <2>13. IsSequence(metas)
      BY <2>8, Zenon DEF OwnIn
    <2> QED BY <1>3, <2>10, <2>12, <2>13 DEF KeptInv, KeptTyped
  <1> QED BY <1>4, <1>5

-----------------------------------------------------------------------------
(* What it says of the letters *)

\* Metadata, definitions and the lines of the text each take what they are
\* made of from a part of the document of their own.
THEOREM PlacesKept == Spec => []KeptInv
  <1>1. DocInit => KeptInv
    BY DocInitLetters
  <1>2. ParseInv /\ KeptInv /\ [Next]_docVars => KeptInv'
    BY NextLetters
  <1> QED BY <1>1, <1>2, ParseInvariant, PTL DEF Spec

LEMMA AllRead ==
    ASSUME ParseInv, KeptInv
    PROVE  LettersOnce
  <1> SUFFICES ASSUME outcome \in {"done", "refused"}, NEW p \in DOMAIN data, data[p] \in Letters
               PROVE  Cardinality(InTaken(p)) + Cardinality(Places(source, p)) = 1
    BY DEF LettersOnce, InTaken, Places
  <1>1. ReadTo = Beyond
    <2>1. outcome # "reading" /\ outcome # "metadata" /\ outcome \in {"parsing", "done", "refused"}
      OBVIOUS
    <2> QED BY <2>1, Zenon DEF ReadTo
  <1>2. p < Beyond
    <2>1. PICK S : data \in Seq(S)
      BY DEF ParseInv, Paragraphs, IsSequence
    <2> QED BY <2>1 DEF Beyond
  <1>3. Once(p)
    BY <1>1, <1>2 DEF KeptInv, LettersKept
  <1>4. \A k : Cardinality({k}) = 1
    BY FS_Singleton
  <1>5. Cardinality({}) = 0
    BY FS_EmptySet
  <1>6. CASE Places(source, p) = {} /\ \E k \in DOMAIN taken : InTaken(p) = {k}
    <2>1. PICK k : InTaken(p) = {k}
      BY <1>6
    <2>2. Cardinality(InTaken(p)) = 1
      BY <1>4, <2>1, Zenon
    <2>3. Cardinality(Places(source, p)) = 0
      BY <1>5, <1>6, Zenon
    <2> QED BY <2>2, <2>3
  <1>7. CASE InTaken(p) = {} /\ \E k \in DOMAIN source : Places(source, p) = {k}
    <2>1. PICK k : Places(source, p) = {k}
      BY <1>7
    <2>2. Cardinality(Places(source, p)) = 1
      BY <1>4, <2>1, Zenon
    <2>3. Cardinality(InTaken(p)) = 0
      BY <1>5, <1>7, Zenon
    <2> QED BY <2>2, <2>3
  <1> QED BY <1>3, <1>6, <1>7 DEF Once

\* The first pass keeps every letter of a document, in one place: what ends a
\* definition of a link, a footnote or a pair of metadata is where the next
\* line is read from, whatever the lines are and whatever metadata is given.
THEOREM EveryLetterOnce == Spec => []LettersOnce
  <1>1. ParseInv /\ KeptInv => LettersOnce
    BY AllRead
  <1> QED BY <1>1, ParseInvariant, PlacesKept, PTL

=============================================================================
