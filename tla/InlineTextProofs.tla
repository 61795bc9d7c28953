-------------------------- MODULE InlineTextProofs ---------------------------
(***************************************************************************)
(* Proofs about Inline, and FirstPass around it: no letter of a text is    *)
(* left out.  What the char_ functions pass over they show, hide, or are   *)
(* known not to show, and what the addresses and line breaks take back of  *)
(* the text before them is shown by them, or is no letter.                 *)
(***************************************************************************)
EXTENDS InlineProofs

-----------------------------------------------------------------------------
(* The inductive invariant *)

\* What a node shows and hides, of the node alone.
SpanTypes ==
    {"EMPHASIS", "DOUBLE_EMPHASIS", "TRIPLE_EMPHASIS", "STRIKETHROUGH",
     "HIGHLIGHT", "SUPERSCRIPT", "LINK", "PARAGRAPH"}
Has(x, p) ==
    \/ x.type \notin SpanTypes /\ x.a <= p /\ p < x.b
    \/ x.type \in {"LINK", "IMAGE"} /\ x.from <= p /\ p < x.to
       /\ ~ (x.a <= p /\ p < x.b)

\* What is not shown of a text that ends at stop.
Left(p, stop) == Undefined(p, stop) \/ Unclosed(p, stop)

\* A place whose letter is shown, or hidden, or left out in the text of the
\* span it is in.
In(n, p) == nodes[n].type \in SpanTypes /\ nodes[n].from <= p /\ p < nodes[n].to
Known(p) ==
    \/ text[p] \notin Letters
    \/ \E n \in DOMAIN nodes : Has(nodes[n], p) \/ (In(n, p) /\ Left(p, nodes[n].b))
    \/ frames # <<>> /\ frames[1].node = 0 /\ Left(p, frames[1].stop)

\* A call knows what it has passed, but for the text of the call within it.
Inside(f, p) == BeginOf(f) <= p /\ p < f.stop
Covered(k) ==
    \A p \in DOMAIN text :
        Inside(frames[k], p) /\ p < Reach(k) =>
            Known(p) \/ (k < Len(frames) /\ Inside(frames[k + 1], p))

\* The text of a span is part of what it was made of, and calls are for spans.
Wide ==
    \A n \in DOMAIN nodes :
        nodes[n].type \in SpanTypes => nodes[n].from <= nodes[n].a /\ nodes[n].b <= nodes[n].to
OpenSpans == \A k \in DOMAIN frames : frames[k].node # 0 => nodes[frames[k].node].type \in SpanTypes

\* The text before the call that is the first, that behind it up to the next
\* block, and what is parsed.
Before(p) == p < BeginOf(frames[1]) \/ (data # <<>> /\ frames[1].stop <= p /\ p < beg)
Finished(p) == (data # <<>> /\ p < beg) \/ (frames # <<>> /\ p < frames[1].stop)
Around ==
    \A p \in DOMAIN text :
        (outcome = "parsing" /\ Before(p)) \/ (outcome = "done" /\ Finished(p)) => Known(p)

TextInv ==
    /\ Wide
    /\ outcome \in {"parsing", "done"} => OpenSpans /\ Around
    /\ outcome = "parsing" => \A k \in DOMAIN frames : Covered(k)
    /\ outcome = "done" /\ frames # <<>> => Len(frames) = 1

-----------------------------------------------------------------------------
(* What the char_ functions do with the characters they pass *)

\* What r says of place q, in a text that ends at stop.
Result(r) == r.nodes[Len(r.nodes)]
Shown(r, q) == \E k \in DOMAIN r.nodes : Has(r.nodes[k], q)
Within(r, q) == r.within /\ Result(r).a <= q /\ q < Result(r).b
Told(r, q, stop) == text[q] \notin Letters \/ Shown(r, q) \/ Within(r, q) \/ Left(q, stop)

\* All places from p to the one where the parse goes on are told of.
WideNode(x) == x.type \in SpanTypes => x.from <= x.a /\ x.b <= x.to
Spans(r) == \A k \in DOMAIN r.nodes : WideNode(r.nodes[k])
Tells(r, p, stop) ==
    /\ \A q \in Int : p <= q /\ q < r.next /\ q < stop => Told(r, q, stop)
    /\ Spans(r)
    /\ r.within => Result(r).type \in SpanTypes

LEMMA NoSpanTells ==
    ASSUME NEW p \in Nat, NEW stop
    PROVE  Tells(NoSpan, p, stop)
  <1>1. NoSpan.nodes = <<>> /\ NoSpan.within = FALSE /\ NoSpan.next = 0
    BY DEF NoSpan, Parsed
  <1>2. \A q \in Int : ~ (p <= q /\ q < 0)
    OBVIOUS
  <1> QED BY <1>1, <1>2 DEF Tells, Spans

\* A node that is no span tells of what it shows.
LEMMA LeafTells ==
    ASSUME NEW r, NEW type \in Names \ SpanTypes, NEW p \in Int, NEW to \in Int, NEW a \in Int,
           NEW b \in Int, NEW stop \in Int, NEW next \in Int,
           r.nodes = <<Node(type, p, to, a, b)>>, r.within = FALSE, r.next = next,
           \A q \in Int : p <= q /\ q < next /\ q < stop =>
               (a <= q /\ q < b) \/ text[q] \notin Letters
    PROVE  Tells(r, p, stop)
  <1> DEFINE x == Node(type, p, to, a, b)
  <1>1. x.type = type /\ x.a = a /\ x.b = b
    BY DEF Node
  <1>2. r.nodes[1] = x /\ DOMAIN r.nodes = {1}
    OBVIOUS
  <1> HIDE DEF x
  <1>3. ASSUME NEW q \in Int, p <= q, q < r.next, q < stop
        PROVE  Told(r, q, stop)
    <2>1. a <= q /\ q < b => Has(x, q)
      BY <1>1 DEF Has
    <2> QED BY <1>2, <1>3, <2>1 DEF Told, Shown
  <1>4. Spans(r)
    BY <1>1, <1>2 DEF Spans, WideNode
  <1> QED BY <1>3, <1>4 DEF Tells

\* A span has its text parsed, and its delimiters are no letters.
LEMMA SpanTells ==
    ASSUME NEW r, NEW type \in SpanTypes, NEW p \in Int, NEW to \in Int, NEW a \in Int,
           NEW b \in Int, NEW stop \in Int,
           r = Span(type, p, to, a, b), p <= a, b <= to,
           \A q \in Int : (p <= q /\ q < a) \/ (b <= q /\ q < to) => text[q] \notin Letters
    PROVE  Tells(r, p, stop)
  <1> DEFINE x == Node(type, p, to, a, b)
  <1>1. x.type = type /\ x.a = a /\ x.b = b /\ x.from = p /\ x.to = to
    BY DEF Node
  <1>2. r.nodes = <<x>> /\ r.within = TRUE /\ r.next = to
    BY DEF Span, Parsed
  <1> HIDE DEF x
  <1>3. r.nodes[1] = x /\ DOMAIN r.nodes = {1} /\ Result(r) = x
    BY <1>2 DEF Result
  <1>4. ASSUME NEW q \in Int, p <= q, q < r.next, q < stop
        PROVE  Told(r, q, stop)
    <2>1. (a <= q /\ q < b) \/ text[q] \notin Letters
      BY <1>2, <1>4
    <2> QED BY <1>1, <1>2, <1>3, <2>1 DEF Told, Within
  <1>5. Spans(r) /\ Result(r).type \in SpanTypes
    BY <1>1, <1>3 DEF Spans, WideNode
  <1> QED BY <1>4, <1>5 DEF Tells

\* Characters that are t, read one by one.
LEMMA AtPair ==
    ASSUME NEW q \in Int, NEW stop, NEW c, NEW d, IsAt(text, q, stop, <<c, d>>)
    PROVE  text[q] = c /\ text[q + 1] = d
  <1>1. \A k \in 1..2 : text[q + k - 1] = <<c, d>>[k]
    BY DEF IsAt
  <1>2. q + 1 - 1 = q /\ q + 2 - 1 = q + 1 /\ 1 \in 1..2 /\ 2 \in 1..2
    OBVIOUS
  <1>3. text[q + 1 - 1] = c /\ text[q + 2 - 1] = d
    BY <1>1, <1>2
  <1> QED BY <1>2, <1>3

LEMMA AtTriple ==
    ASSUME NEW q \in Int, NEW stop, NEW c, NEW d, NEW e, IsAt(text, q, stop, <<c, d, e>>)
    PROVE  text[q] = c /\ text[q + 1] = d /\ text[q + 2] = e
  <1>1. \A k \in 1..3 : text[q + k - 1] = <<c, d, e>>[k]
    BY DEF IsAt
  <1>2. q + 1 - 1 = q /\ q + 2 - 1 = q + 1 /\ q + 3 - 1 = q + 2 /\ 1 \in 1..3 /\ 2 \in 1..3 /\ 3 \in 1..3
    OBVIOUS
  <1>3. text[q + 1 - 1] = c /\ text[q + 2 - 1] = d /\ text[q + 3 - 1] = e
    BY <1>1, <1>2
  <1> QED BY <1>2, <1>3

LEMMA EmphasisTells ==
    ASSUME NEW p \in Nat, NEW stop \in Nat, p < stop, NEW offset, text[p] \notin Letters
    PROVE  Tells(CharEmphasis(p, stop, offset), p, stop)
  <1> DEFINE c == text[p]
             n == Past(text, p, stop, {c}) - p
             One(a) ==
                 LET q == EmphClose1(text, a, stop, c, "NOINTEM" \in ext)
                 IN IF q = 0 THEN NoSpan ELSE Span("EMPHASIS", p, q + 1, a, q)
             type == CASE c = "~" -> "STRIKETHROUGH"
                       [] c = "=" -> "HIGHLIGHT"
                       [] OTHER -> "DOUBLE_EMPHASIS"
             Two(a) ==
                 LET q == EmphClose2(text, a, stop, c)
                 IN IF q = 0 THEN NoSpan ELSE Span(type, p, q + 2, a, q)
             Three(a) ==
                 LET q == EmphClose3(text, a, stop, c)
                 IN IF q = 0 THEN NoSpan
                    ELSE IF IsAt(text, q, stop, <<c, c, c>>)
                    THEN Span("TRIPLE_EMPHASIS", p, q + 3, a, q)
                    ELSE IF IsAt(text, q, stop, <<c, c>>) THEN One(a - 2)
                    ELSE Two(a - 1)
             r == CharEmphasis(p, stop, offset)
  <1>1. \/ r = NoSpan
        \/ n \in 1..3 /\ ~(stop - p < n + 2) /\
              (\/ n = 1 /\ r = One(p + 1)
               \/ n = 2 /\ r = Two(p + 2)
               \/ n = 3 /\ r = Three(p + 3))
    <2> DEFINE inWord == /\ "NOINTEM" \in ext /\ offset > 0
                         /\ text[p - 1] \notin Spaces \cup {">", "("}
               fails == \/ inWord \/ n \notin 1..3 \/ stop - p < n + 2
                        \/ text[p + n] \in Spaces
                        \/ n # 2 /\ c \in {"~", "="}
    <2>1. r = IF fails THEN NoSpan
              ELSE CASE n = 1 -> One(p + 1) [] n = 2 -> Two(p + 2) [] n = 3 -> Three(p + 3)
      BY DEF CharEmphasis
    <2>2. ~ fails => n \in 1..3 /\ ~(stop - p < n + 2)
      OBVIOUS
    <2> HIDE DEF fails, r, One, Two, Three, n
    <2>3. n \in 1..3 => n = 1 \/ n = 2 \/ n = 3
      OBVIOUS
    <2> QED BY <2>1, <2>2, <2>3
  <1>2. type \in SpanTypes
    <2>1. type \in {"STRIKETHROUGH", "HIGHLIGHT", "DOUBLE_EMPHASIS"}
      OBVIOUS
    <2> HIDE DEF type
    <2> QED BY <2>1 DEF SpanTypes
  <1>3. Tells(NoSpan, p, stop)
    BY NoSpanTells
  <1>4. \A q \in Int : p <= q /\ q < p + n => text[q] \notin Letters
    <2> DEFINE end == Past(text, p, stop, {c})
    <2>1. end \in Int /\ p <= end /\ \A q \in p..end - 1 : text[q] \in {c}
      BY PastFinds
    <2>2. p + n = end
      BY <2>1
    <2> HIDE DEF end, n
    <2>3. ASSUME NEW q \in Int, p <= q, q < p + n
          PROVE  text[q] = c
      <3>1. q \in p..end - 1
        BY <2>1, <2>2, <2>3
      <3> QED BY <2>1, <3>1
    <2> QED BY <2>3
  <1>5. n >= 1 /\ p + 1 <= stop => Tells(One(p + 1), p, stop)
    <2> SUFFICES ASSUME n >= 1, p + 1 <= stop
                 PROVE  Tells(One(p + 1), p, stop)
      OBVIOUS
    <2> DEFINE q == EmphClose1(text, p + 1, stop, c, "NOINTEM" \in ext)
    <2>1. q = 0 \/ (q \in Int /\ p + 1 < q /\ q < stop /\ text[q] = c)
      <3>1. p + 1 \in Nat
        OBVIOUS
      <3> QED BY <3>1, EmphClose1Within
    <2>2. One(p + 1) = IF q = 0 THEN NoSpan ELSE Span("EMPHASIS", p, q + 1, p + 1, q)
      OBVIOUS
    <2> HIDE DEF q, One, n
    <2>3. CASE q # 0
      <3>1. \A k \in Int : (p <= k /\ k < p + 1) \/ (q <= k /\ k < q + 1) => text[k] \notin Letters
        <4>1. \A k \in Int : (p <= k /\ k < p + 1) \/ (q <= k /\ k < q + 1) => k = p \/ k = q
          BY <2>1, <2>3
        <4> QED BY <2>1, <2>3, <4>1
      <3>2. /\ "EMPHASIS" \in SpanTypes /\ q + 1 \in Int /\ p + 1 \in Int /\ q \in Int
            /\ p \in Int /\ stop \in Int /\ p <= p + 1 /\ q <= q + 1
        BY <2>1, <2>3 DEF SpanTypes
      <3>3. Tells(Span("EMPHASIS", p, q + 1, p + 1, q), p, stop)
        BY ONLY <3>1, <3>2, SpanTells
      <3> QED BY <2>2, <2>3, <3>3
    <2> QED BY <1>3, <2>2, <2>3
  <1>6. n >= 2 /\ p + 2 <= stop => Tells(Two(p + 2), p, stop)
    <2> SUFFICES ASSUME n >= 2, p + 2 <= stop
                 PROVE  Tells(Two(p + 2), p, stop)
      OBVIOUS
    <2> DEFINE q == EmphClose2(text, p + 2, stop, c)
    <2>1. q = 0 \/ (q \in Int /\ p + 2 < q /\ q + 2 <= stop /\ IsAt(text, q, stop, <<c, c>>))
      <3>1. p + 2 \in Nat
        OBVIOUS
      <3> QED BY <3>1, EmphClose2Within
    <2>2. Two(p + 2) = IF q = 0 THEN NoSpan ELSE Span(type, p, q + 2, p + 2, q)
      OBVIOUS
    <2>0. \A k \in Int : p <= k /\ k < p + 2 => text[k] \notin Letters
      <3>1. n \in Int
        BY PastFinds
      <3> HIDE DEF n
      <3> QED BY <1>4, <3>1
    <2> HIDE DEF q, Two, type, n
    <2>3. CASE q # 0
      <3>0. text[q] = c /\ text[q + 1] = c
        BY <2>1, <2>3, AtPair
      <3>1. \A k \in Int : (p <= k /\ k < p + 2) \/ (q <= k /\ k < q + 2) => text[k] \notin Letters
        <4>1. \A k \in Int : q <= k /\ k < q + 2 => k = q \/ k = q + 1
          BY <2>1, <2>3
        <4> QED BY <2>0, <3>0, <4>1
      <3>2. /\ q + 2 \in Int /\ p + 2 \in Int /\ q \in Int
            /\ p \in Int /\ stop \in Int /\ p <= p + 2 /\ q <= q + 2
        BY <2>1, <2>3
      <3>3. Tells(Span(type, p, q + 2, p + 2, q), p, stop)
        BY ONLY <1>2, <3>1, <3>2, SpanTells
      <3> QED BY <2>2, <2>3, <3>3
    <2> QED BY <1>3, <2>2, <2>3
  <1>7. n = 3 /\ p + 3 <= stop => Tells(Three(p + 3), p, stop)
    <2> SUFFICES ASSUME n = 3, p + 3 <= stop
                 PROVE  Tells(Three(p + 3), p, stop)
      OBVIOUS
    <2> DEFINE q == EmphClose3(text, p + 3, stop, c)
    <2>1. q = 0 \/ (q \in Int /\ p + 3 < q /\ q < stop)
      <3>1. p + 3 \in Nat
        OBVIOUS
      <3> QED BY <3>1, EmphClose3Within
    <2>2. Three(p + 3) = IF q = 0 THEN NoSpan
                         ELSE IF IsAt(text, q, stop, <<c, c, c>>)
                         THEN Span("TRIPLE_EMPHASIS", p, q + 3, p + 3, q)
                         ELSE IF IsAt(text, q, stop, <<c, c>>) THEN One(p + 1)
                         ELSE Two(p + 2)
      <3>1. (p + 3) - 2 = p + 1 /\ (p + 3) - 1 = p + 2
        OBVIOUS
      <3> HIDE DEF One, Two
      <3> QED BY <3>1
    <2>0. \A k \in Int : p <= k /\ k < p + 3 => text[k] \notin Letters
      <3> HIDE DEF n
      <3> QED BY <1>4
    <2> HIDE DEF q, One, Two, Three, n
    <2>3. CASE q # 0 /\ IsAt(text, q, stop, <<c, c, c>>)
      <3>0. text[q] = c /\ text[q + 1] = c /\ text[q + 2] = c
        BY <2>1, <2>3, AtTriple
      <3>1. \A k \in Int : (p <= k /\ k < p + 3) \/ (q <= k /\ k < q + 3) => text[k] \notin Letters
        <4>1. \A k \in Int : q <= k /\ k < q + 3 => k = q \/ k = q + 1 \/ k = q + 2
          BY <2>1, <2>3
        <4> QED BY <2>0, <3>0, <4>1
      <3>2. /\ "TRIPLE_EMPHASIS" \in SpanTypes /\ q + 3 \in Int /\ p + 3 \in Int /\ q \in Int
            /\ p \in Int /\ stop \in Int /\ p <= p + 3 /\ q <= q + 3
        BY <2>1, <2>3 DEF SpanTypes
      <3>3. Tells(Span("TRIPLE_EMPHASIS", p, q + 3, p + 3, q), p, stop)
        BY ONLY <3>1, <3>2, SpanTells
      <3> QED BY <2>2, <2>3, <3>3
    <2>4. p + 1 <= stop /\ p + 2 <= stop /\ n >= 1 /\ n >= 2
      OBVIOUS
    <2> HIDE DEF c
    <2> QED BY <1>3, <1>5, <1>6, <2>2, <2>3, <2>4
  <1>8. n \in 1..3 /\ ~(stop - p < n + 2) =>
            p + n <= stop /\ n >= 1 /\ (n = 2 => n >= 2 /\ p + 2 <= stop)
    <2> HIDE DEF n
    <2> QED OBVIOUS
  <1> HIDE DEF One, Two, Three, n
  <1> QED BY <1>1, <1>3, <1>5, <1>6, <1>7, <1>8

\* Where Past passes no letters.
LEMMA PastPasses ==
    ASSUME NEW p \in Int, NEW stop \in Int, NEW C, \A c \in C : c \notin Letters
    PROVE  /\ Past(text, p, stop, C) \in Int /\ p <= Past(text, p, stop, C)
           /\ \A q \in Int : p <= q /\ q < Past(text, p, stop, C) => text[q] \notin Letters
  <1> DEFINE e == Past(text, p, stop, C)
  <1>1. e \in Int /\ p <= e /\ \A q \in p..e - 1 : text[q] \in C
    BY PastFinds
  <1> HIDE DEF e
  <1>2. ASSUME NEW q \in Int, p <= q, q < e
        PROVE  text[q] \notin Letters
    <2>1. q \in p..e - 1
      BY <1>1, <1>2
    <2> QED BY <1>1, <2>1
  <1>3. e \in Int /\ p <= e /\ \A q \in Int : p <= q /\ q < e => text[q] \notin Letters
    BY <1>1, <1>2
  <1> QED BY <1>3 DEF e

LEMMA NoLetters == \A c \in {" ", "\n", "tick", "\\"} : c \notin Letters
  BY DEF Letters

LEMMA LinebreakTells ==
    ASSUME NEW p \in Nat, NEW stop \in Nat, NEW offset, text[p] \notin Letters
    PROVE  Tells(CharLinebreak(p, stop, offset), p, stop)
  <1> DEFINE next == Past(text, p + 1, stop, {" "})
             leaf == [Leaf("LINEBREAK", p, next, p, p) EXCEPT !.trim = TrailingBlanks]
  <1>1. CharLinebreak(p, stop, offset) \in {NoSpan, leaf}
    <2> HIDE DEF leaf
    <2> QED BY DEF CharLinebreak, leaf
  <1>2. /\ leaf.nodes = <<Node("LINEBREAK", p, next, p, p)>> /\ leaf.next = next
        /\ leaf.within = FALSE
    BY DEF Leaf, Parsed
  <1>3. next \in Int /\ \A q \in Int : p + 1 <= q /\ q < next => text[q] \notin Letters
    <2>1. p + 1 \in Int /\ stop \in Int
      OBVIOUS
    <2>2. \A c \in {" "} : c \notin Letters
      BY NoLetters
    <2> QED BY ONLY <2>1, <2>2, PastPasses
  <1>4. "LINEBREAK" \in Names \ SpanTypes
    BY DEF Names, SpanTypes
  <1> HIDE DEF next, leaf
  <1>5. \A q \in Int : p <= q /\ q < next => text[q] \notin Letters
    <2>1. \A q \in Int : p <= q => q = p \/ p + 1 <= q
      OBVIOUS
    <2> QED BY <1>3, <2>1
  <1>6. Tells(leaf, p, stop)
    <2>1. p \in Int /\ stop \in Int
      OBVIOUS
    <2> QED BY <1>2, <1>3, <1>4, <1>5, <2>1, LeafTells
  <1> QED BY <1>1, <1>6, NoSpanTells

LEMMA CodespanTells ==
    ASSUME NEW p \in Nat, NEW stop \in Nat, p < stop, text[p] = "tick"
    PROVE  Tells(CharCodespan(p, stop), p, stop)
  <1> DEFINE blank == " "
             open == Past(text, p, stop, {"tick"})
             end == CodeEnd(text, p, stop)
             close == end - (open - p)
             a == Past(text, open, close, {blank})
             S == {q \in a..close : q = a \/ text[q - 1] # blank}
             b == Max(S)
             leaf == Leaf("CODESPAN", p, end, a, b)
  <1>1. CharCodespan(p, stop) = IF end = 0 THEN NoSpan ELSE leaf
    BY DEF CharCodespan
  <1> HIDE DEF blank
  <1>2. CASE end # 0
    <2>1. open \in Int /\ \A q \in p..open - 1 : text[q] \in {"tick"}
      BY PastFinds
    <2>2. /\ end \in Int /\ end <= stop /\ p < open /\ end >= open + (open - p)
          /\ \A k \in 1..open - p : text[end - k] = "tick"
      BY <1>2, CodeEnds
    <2> HIDE DEF open, end
    <2>3. close \in Int /\ open <= close /\ p < end
      BY <2>1, <2>2
    <2>4. \A q \in Int : close <= q /\ q < end => text[q] = "tick"
      <3> SUFFICES ASSUME NEW q \in Int, close <= q, q < end
                   PROVE  text[q] = "tick"
        OBVIOUS
      <3>1. PICK k \in Int : k = end - q
        BY <2>2
      <3>2. k \in 1..open - p /\ end - k = q
        BY <2>1, <2>2, <3>1
      <3> QED BY <2>2, <3>2
    <2> HIDE DEF close
    <2>5. a \in Int /\ open <= a /\ a <= close /\ \A q \in open..a - 1 : text[q] \in {blank}
      BY <2>1, <2>3, PastFinds
    <2> HIDE DEF a
    <2>6. /\ S \subseteq Int /\ (\A x \in S : x <= close) /\ a \in S
          /\ \A x \in S : a <= x
      <3>1. S \subseteq a..close
        OBVIOUS
      <3>2. a \in S
        BY <2>3, <2>5
      <3> HIDE DEF S
      <3>3. a..close \subseteq Int /\ \A x \in a..close : a <= x /\ x <= close
        BY <2>3, <2>5
      <3> QED BY <3>1, <3>2, <3>3
    <2>7. b \in Int /\ a <= b /\ \A x \in S : x <= b
      <3> HIDE DEF S
      <3> QED BY <2>3, <2>6, MaxOf
    <2>8. \A q \in Int : b <= q /\ q < close => text[q] = blank
      <3> SUFFICES ASSUME NEW q \in Int, b <= q, q < close, text[q] # blank
                   PROVE  FALSE
        OBVIOUS
      <3> HIDE DEF b
      <3>1. q + 1 \in a..close /\ (q + 1) - 1 = q
        BY <2>3, <2>5, <2>7
      <3>2. q + 1 \in S
        BY <3>1
      <3> HIDE DEF S
      <3>3. q + 1 <= b
        BY <2>7, <3>2
      <3> QED BY <2>7, <3>3
    <2> HIDE DEF b, S
    <2>9. "CODESPAN" \in Names \ SpanTypes
      BY DEF Names, SpanTypes
    <2>10. /\ leaf.nodes = <<Node("CODESPAN", p, end, a, b)>> /\ leaf.next = end
           /\ leaf.within = FALSE
      BY DEF Leaf, Parsed
    <2>11. ASSUME NEW q \in Int, p <= q, q < end, ~ (a <= q /\ q < b)
           PROVE  text[q] \notin Letters
      <3>1. q \in p..open - 1 \/ q \in open..a - 1 \/ (b <= q /\ q < close) \/ (close <= q /\ q < end)
        BY <2>1, <2>2, <2>3, <2>5, <2>7, <2>11
      <3>2. text[q] = "tick" \/ text[q] = blank
        BY <2>1, <2>4, <2>5, <2>8, <3>1
      <3>3. "tick" \notin Letters /\ blank \notin Letters
        BY NoLetters DEF blank
      <3> QED BY <3>2, <3>3
    <2> HIDE DEF leaf
    <2>12. Tells(leaf, p, stop)
      <3>1. p \in Int /\ stop \in Int /\ end \in Int /\ a \in Int /\ b \in Int
        BY <2>2, <2>5, <2>7
      <3> QED BY ONLY <2>9, <2>10, <2>11, <3>1, LeafTells
    <2> QED BY <1>1, <1>2, <2>12
  <1> HIDE DEF end, leaf
  <1> QED BY <1>1, <1>2, NoSpanTells

\* Two delimiters, neither with letters.
LEMMA MathTells ==
    ASSUME NEW p \in Nat, NEW stop \in Nat, NEW t, Len(t) \in Nat \ {0},
           \A k \in 1..Len(t) : t[k] \notin Letters,
           \A q \in Int : p <= q /\ q < p + Len(t) => text[q] \notin Letters
    PROVE  Tells(Math(p, stop, t), p, stop)
  <1> DEFINE q == MathClose(text, p, stop, t)
             n == Len(t)
             leaf == Leaf("MATH_BLOCK", p, q + n, p + n, q)
  <1>1. Math(p, stop, t) = IF q = 0 THEN NoSpan ELSE leaf
    BY DEF Math
  <1>2. q = 0 \/ (q \in Int /\ p + n <= q /\ q + n <= stop /\ IsAt(text, q, stop, t))
    BY MathCloses
  <1>3. CASE q # 0
    <2>1. \A k \in 1..n : text[q + k - 1] = t[k]
      BY <1>2, <1>3 DEF IsAt
    <2> HIDE DEF q, n
    <2>2. n \in Nat /\ n # 0
      BY DEF n
    <2>3. ASSUME NEW k \in Int, p <= k, k < q + n, ~ (p + n <= k /\ k < q)
          PROVE  text[k] \notin Letters
      <3>1. CASE k < p + n
        BY <2>3, <3>1 DEF n
      <3>2. CASE q <= k
        <4>1. PICK j \in Int : j = k - q + 1
          BY <1>2, <1>3
        <4>2. j \in 1..n /\ q + j - 1 = k
          <5>1. q \in Int /\ n \in Nat /\ k < q + n
            BY <1>2, <1>3, <2>2, <2>3
          <5> QED BY ONLY <5>1, <3>2, <4>1, j \in Int, k \in Int
        <4>3. text[k] = t[j]
          BY <2>1, <4>2
        <4> QED BY <4>2, <4>3 DEF n
      <3> QED BY <1>2, <1>3, <2>2, <2>3, <3>1, <3>2
    <2>4. "MATH_BLOCK" \in Names \ SpanTypes
      BY DEF Names, SpanTypes
    <2>5. /\ leaf.nodes = <<Node("MATH_BLOCK", p, q + n, p + n, q)>> /\ leaf.next = q + n
          /\ leaf.within = FALSE
      BY DEF Leaf, Parsed
    <2> HIDE DEF leaf
    <2>6. q + n \in Int /\ p + n \in Int /\ q \in Int /\ p \in Int /\ stop \in Int
      BY <1>2, <1>3, <2>2
    <2>7. Tells(leaf, p, stop)
      BY ONLY <2>3, <2>4, <2>5, <2>6, LeafTells
    <2> QED BY <1>1, <1>3, <2>7
  <1> HIDE DEF q, leaf
  <1> QED BY <1>1, <1>3, NoSpanTells

LEMMA FormulaTells ==
    ASSUME NEW p \in Nat, NEW stop \in Nat, text[p] = "$"
    PROVE  Tells(CharMath(p, stop), p, stop)
  <1>1. "$" \notin Letters
    BY DEF Letters
  <1>2. Tells(Math(p, stop, <<"$">>), p, stop)
    <2>1. Len(<<"$">>) = 1 /\ \A k \in 1..1 : <<"$">>[k] = "$"
      OBVIOUS
    <2>2. \A q \in Int : p <= q /\ q < p + 1 => q = p
      OBVIOUS
    <2> DEFINE t == <<"$">>
    <2>3. /\ Len(t) \in Nat \ {0} /\ \A k \in 1..Len(t) : t[k] \notin Letters
          /\ \A q \in Int : p <= q /\ q < p + Len(t) => text[q] \notin Letters
      BY <1>1, <2>1, <2>2
    <2> HIDE DEF t
    <2>4. Tells(Math(p, stop, t), p, stop)
      BY ONLY <2>3, p \in Nat, stop \in Nat, MathTells
    <2> QED BY <2>4 DEF t
  <1>3. IsAt(text, p, stop, <<"$", "$">>) => Tells(Math(p, stop, <<"$", "$">>), p, stop)
    <2> SUFFICES ASSUME IsAt(text, p, stop, <<"$", "$">>)
                 PROVE  Tells(Math(p, stop, <<"$", "$">>), p, stop)
      OBVIOUS
    <2>1. Len(<<"$", "$">>) = 2 /\ \A k \in 1..2 : <<"$", "$">>[k] = "$"
      OBVIOUS
    <2>2. text[p + 1] = "$"
      BY AtPair
    <2>3. \A q \in Int : p <= q /\ q < p + 2 => q = p \/ q = p + 1
      OBVIOUS
    <2> DEFINE t == <<"$", "$">>
    <2>4. /\ Len(t) \in Nat \ {0} /\ \A k \in 1..Len(t) : t[k] \notin Letters
          /\ \A q \in Int : p <= q /\ q < p + Len(t) => text[q] \notin Letters
      BY <1>1, <2>1, <2>2, <2>3
    <2> HIDE DEF t
    <2>5. Tells(Math(p, stop, t), p, stop)
      BY ONLY <2>4, p \in Nat, stop \in Nat, MathTells
    <2> QED BY <2>5 DEF t
  <1> QED BY <1>2, <1>3 DEF CharMath

LEMMA EscapeTells ==
    ASSUME NEW p \in Nat, NEW stop \in Nat, p < stop, text[p] \notin Letters
    PROVE  Tells(CharEscape(p, stop), p, stop)
  <1> DEFINE Formula2(o, c) ==
                 IF "MATH" \in ext /\ IsAt(text, p, stop, <<"\\", "\\", o>>)
                 THEN Math(p, stop, <<"\\", "\\", c>>) ELSE NoSpan
             math == IF Formula2("[", "]") = NoSpan THEN Formula2("(", ")")
                     ELSE Formula2("[", "]")
             next == Past(text, p + 2, stop, {" "})
             last == [Leaf("NORMAL_TEXT", p, stop, p, stop) EXCEPT !.next = p + 2]
             break == Leaf("LINEBREAK", p, next, p, p)
             escaped == Leaf("NORMAL_TEXT", p, p + 2, p + 1, p + 2)
             r == CharEscape(p, stop)
  <1>1. \/ stop - p = 1 /\ r = last
        \/ r = math \/ r = NoSpan
        \/ text[p + 1] = "\n" /\ r = break
        \/ r = escaped
    <2> HIDE DEF math, last, break, escaped
    <2> QED BY DEF CharEscape, math, last, break, escaped
  <1>2. "NORMAL_TEXT" \in Names \ SpanTypes /\ "LINEBREAK" \in Names \ SpanTypes
    BY DEF Names, SpanTypes
  <1>3. Tells(math, p, stop)
    <2>1. ASSUME NEW o \in {"[", "("}, NEW c \in {"]", ")"}, IsAt(text, p, stop, <<"\\", "\\", o>>)
          PROVE  Tells(Math(p, stop, <<"\\", "\\", c>>), p, stop)
      <3> DEFINE t == <<"\\", "\\", c>>
      <3>1. Len(t) = 3 /\ \A k \in 1..3 : t[k] \in {"\\", c}
        OBVIOUS
      <3>2. text[p] = "\\" /\ text[p + 1] = "\\" /\ text[p + 2] = o
        BY <2>1, AtTriple
      <3>3. \A q \in Int : p <= q /\ q < p + 3 => q = p \/ q = p + 1 \/ q = p + 2
        OBVIOUS
      <3>4. "\\" \notin Letters /\ o \notin Letters /\ c \notin Letters
        BY DEF Letters
      <3>5. \A q \in Int : p <= q /\ q < p + 3 => text[q] \notin Letters
        BY <3>2, <3>3, <3>4
      <3>6. \A k \in 1..3 : t[k] \notin Letters
        BY <3>1, <3>4
      <3> HIDE DEF t
      <3>7. /\ Len(t) \in Nat \ {0} /\ \A k \in 1..Len(t) : t[k] \notin Letters
            /\ \A q \in Int : p <= q /\ q < p + Len(t) => text[q] \notin Letters
        BY <3>1, <3>5, <3>6
      <3>8. Tells(Math(p, stop, t), p, stop)
        BY ONLY <3>7, p \in Nat, stop \in Nat, MathTells
      <3> QED BY <3>8 DEF t
    <2>2. Tells(NoSpan, p, stop)
      BY NoSpanTells
    <2> QED BY <2>1, <2>2
  <1>4. stop - p = 1 => Tells(last, p, stop)
    <2> SUFFICES ASSUME stop - p = 1
                 PROVE  Tells(last, p, stop)
      OBVIOUS
    <2>1. /\ last.nodes = <<Node("NORMAL_TEXT", p, stop, p, stop)>> /\ last.within = FALSE
          /\ last.next = p + 2
      BY DEF Leaf, Parsed
    <2> HIDE DEF last
    <2>2. p \in Int /\ stop \in Int /\ p + 2 \in Int
      OBVIOUS
    <2> QED BY <1>2, <2>1, <2>2, LeafTells
  <1>5. text[p + 1] = "\n" => Tells(break, p, stop)
    <2> SUFFICES ASSUME text[p + 1] = "\n"
                 PROVE  Tells(break, p, stop)
      OBVIOUS
    <2>1. /\ break.nodes = <<Node("LINEBREAK", p, next, p, p)>> /\ break.within = FALSE
          /\ break.next = next
      BY DEF Leaf, Parsed
    <2>2. next \in Int /\ \A q \in Int : p + 2 <= q /\ q < next => text[q] \notin Letters
      <3>1. p + 2 \in Int /\ stop \in Int
        OBVIOUS
      <3>2. \A c \in {" "} : c \notin Letters
        BY NoLetters
      <3> QED BY ONLY <3>1, <3>2, PastPasses
    <2> HIDE DEF break, next
    <2>3. ASSUME NEW q \in Int, p <= q, q < next
          PROVE  text[q] \notin Letters
      <3>1. q = p \/ q = p + 1 \/ p + 2 <= q
        BY <2>3
      <3>2. text[p + 1] \notin Letters
        BY NoLetters, Zenon
      <3> QED BY <2>2, <2>3, <3>1, <3>2
    <2>4. p \in Int /\ stop \in Int
      OBVIOUS
    <2> QED BY <1>2, <2>1, <2>2, <2>3, <2>4, LeafTells
  <1>6. Tells(escaped, p, stop)
    <2>1. /\ escaped.nodes = <<Node("NORMAL_TEXT", p, p + 2, p + 1, p + 2)>> /\ escaped.within = FALSE
          /\ escaped.next = p + 2
      BY DEF Leaf, Parsed
    <2> HIDE DEF escaped
    <2>2. /\ p \in Int /\ stop \in Int /\ p + 1 \in Int /\ p + 2 \in Int
          /\ \A q \in Int : p <= q /\ q < p + 2 => q = p \/ (p + 1 <= q /\ q < p + 2)
      OBVIOUS
    <2> QED BY <1>2, <2>1, <2>2, LeafTells
  <1> HIDE DEF math, last, break, escaped, r
  <1>7. Tells(r, p, stop)
    BY <1>1, <1>3, <1>4, <1>5, <1>6, NoSpanTells
  <1> QED BY <1>7 DEF r

LEMMA EntityTells ==
    ASSUME NEW p \in Nat, NEW stop \in Nat, p < stop
    PROVE  Tells(CharEntity(p, stop), p, stop)
  <1> DEFINE name == IF p + 1 < stop /\ text[p + 1] = "#" THEN p + 2 ELSE p + 1
             e == Past(text, name, stop, Letters)
             leaf == Leaf("ENTITY", p, e + 1, p, e + 1)
  <1>1. CharEntity(p, stop) \in {NoSpan, leaf}
    BY DEF CharEntity
  <1>2. e \in Int
    <2>1. name \in Int
      OBVIOUS
    <2> HIDE DEF name
    <2> QED BY <2>1, PastFinds
  <1>3. leaf.nodes = <<Node("ENTITY", p, e + 1, p, e + 1)>> /\ leaf.within = FALSE /\ leaf.next = e + 1
    BY DEF Leaf, Parsed
  <1> HIDE DEF e, leaf
  <1>4. "ENTITY" \in Names \ SpanTypes /\ e + 1 \in Int /\ p \in Int /\ stop \in Int
    BY <1>2 DEF Names, SpanTypes
  <1>5. Tells(leaf, p, stop)
    BY <1>3, <1>4, LeafTells
  <1> QED BY <1>1, <1>5, NoSpanTells

LEMMA LangleTells ==
    ASSUME NEW p \in Nat, NEW stop \in Nat, p < stop, text[p] \notin Letters
    PROVE  Tells(CharLangleTag(p, stop), p, stop)
  <1> DEFINE tag == TagLength(text, p, stop)
             e == tag.end
             address == Leaf("LINK_AUTO", p, e, p + 1, e - 1)
             html == Leaf("RAW_HTML", p, e, p, e)
  <1>1. \/ CharLangleTag(p, stop) = NoSpan
        \/ e # 0 /\ tag.address /\ CharLangleTag(p, stop) = address
        \/ e # 0 /\ CharLangleTag(p, stop) = html
    <2> HIDE DEF tag, address, html
    <2> QED BY DEF CharLangleTag, tag, address, html
  <1>2. e # 0 => e \in Int /\ p + 1 < e /\ e <= stop /\ (tag.address => text[e - 1] = ">")
    BY TagEnds
  <1>3. address.nodes = <<Node("LINK_AUTO", p, e, p + 1, e - 1)>> /\ address.within = FALSE /\ address.next = e
    BY DEF Leaf, Parsed
  <1>4. html.nodes = <<Node("RAW_HTML", p, e, p, e)>> /\ html.within = FALSE /\ html.next = e
    BY DEF Leaf, Parsed
  <1>5. "LINK_AUTO" \in Names \ SpanTypes /\ "RAW_HTML" \in Names \ SpanTypes
    BY DEF Names, SpanTypes
  <1> HIDE DEF e, address, html
  <1>6. CASE e # 0 /\ tag.address /\ CharLangleTag(p, stop) = address
    <2>1. ASSUME NEW q \in Int, p <= q, q < e
          PROVE  (p + 1 <= q /\ q < e - 1) \/ text[q] \notin Letters
      <3>1. q = p \/ q = e - 1 \/ (p + 1 <= q /\ q < e - 1)
        BY <1>2, <1>6, <2>1
      <3>2. ">" \notin Letters
        BY DEF Letters
      <3> QED BY <1>2, <1>6, <3>1, <3>2
    <2>2. p \in Int /\ stop \in Int /\ e \in Int /\ p + 1 \in Int /\ e - 1 \in Int
      BY <1>2, <1>6
    <2>3. Tells(address, p, stop)
      BY ONLY <1>3, <1>5, <2>1, <2>2, LeafTells
    <2> QED BY <1>6, <2>3
  <1>7. CASE e # 0 /\ CharLangleTag(p, stop) = html
    <2>1. p \in Int /\ stop \in Int /\ e \in Int
      BY <1>2, <1>7
    <2>2. Tells(html, p, stop)
      BY ONLY <1>4, <1>5, <2>1, LeafTells
    <2> QED BY <1>7, <2>2
  <1> QED BY <1>1, <1>6, <1>7, NoSpanTells

LEMMA SuperscriptTells ==
    ASSUME NEW p \in Nat, p >= 1, NEW stop \in Nat, p < stop, text[p] = "^", "SUPER" \in ext
    PROVE  Tells(CharSuperscript(p, stop), p, stop)
  <1> DEFINE n == FindEmph(text, p + 2, stop, ")")
             blank == Until(text, p + 1, stop, Spaces)
             none == [NoSpan EXCEPT !.next = p + 3]
             word == Span("SUPERSCRIPT", p, blank, p + 1, blank)
             box == Span("SUPERSCRIPT", p, p + 3 + n, p + 2, p + 2 + n)
             r == CharSuperscript(p, stop)
  <1>1. \/ r = NoSpan
        \/ r = word
        \/ text[p + 1] = "(" /\ n = 0 /\ r = none
        \/ ~(stop - p < 2) /\ text[p + 1] = "(" /\ n # 0 /\ r = box
    <2> HIDE DEF n, blank, none, word, box
    <2> QED BY DEF CharSuperscript, n, blank, none, word, box
  <1>2. "SUPERSCRIPT" \in SpanTypes /\ p \in Int /\ stop \in Int /\ "^" \notin Letters /\ "(" \notin Letters
        /\ ")" \notin Letters
    BY DEF SpanTypes, Letters
  <1>3. Tells(word, p, stop)
    <2>1. p + 1 \in Int
      OBVIOUS
    <2>2. blank \in Int
      BY <2>1, UntilFinds
    <2> HIDE DEF blank
    <2>3. /\ p <= p + 1 /\ blank <= blank
          /\ \A q \in Int : (p <= q /\ q < p + 1) \/ (blank <= q /\ q < blank) => q = p
      BY <2>2
    <2>4. \A q \in Int : (p <= q /\ q < p + 1) \/ (blank <= q /\ q < blank) => text[q] \notin Letters
      BY <1>2, <2>3
    <2> HIDE DEF word
    <2> QED BY ONLY <1>2, <2>1, <2>2, <2>3, <2>4, word = Span("SUPERSCRIPT", p, blank, p + 1, blank), SpanTells DEF word
  <1>4. text[p + 1] = "(" /\ n = 0 => Tells(none, p, stop)
    <2> SUFFICES ASSUME text[p + 1] = "(", n = 0
                 PROVE  Tells(none, p, stop)
      OBVIOUS
    <2>1. none.nodes = <<>> /\ none.within = FALSE /\ none.next = p + 3
      BY DEF NoSpan, Parsed
    <2> HIDE DEF none
    <2>2. Unclosed(p + 2, stop)
      <3>1. p + 2 > 2 /\ (p + 2) - 2 = p /\ p + 2 <= p + 2
        OBVIOUS
      <3>2. IsAt(text, p, p + 2, <<"^", "(">>)
        <4>1. Len(<<"^", "(">>) = 2 /\ <<"^", "(">>[1] = "^" /\ <<"^", "(">>[2] = "("
          OBVIOUS
        <4>2. \A k \in 1..2 : (k = 1 /\ p + k - 1 = p) \/ (k = 2 /\ p + k - 1 = p + 1)
          OBVIOUS
        <4>3. \A k \in 1..2 : text[p + k - 1] = <<"^", "(">>[k]
          BY <4>1, <4>2
        <4> QED BY <3>1, <4>1, <4>3 DEF IsAt
      <3> QED BY <3>1, <3>2 DEF Unclosed
    <2>3. ASSUME NEW q \in Int, p <= q, q < p + 3
          PROVE  Told(none, q, stop)
      <3>1. q = p \/ q = p + 1 \/ q = p + 2
        BY <2>3
      <3> QED BY <1>2, <2>2, <3>1 DEF Told, Left
    <2> QED BY <2>1, <2>3 DEF Tells, Spans
  <1>5. ~(stop - p < 2) /\ text[p + 1] = "(" /\ n # 0 => Tells(box, p, stop)
    <2> SUFFICES ASSUME ~(stop - p < 2), text[p + 1] = "(", n # 0
                 PROVE  Tells(box, p, stop)
      OBVIOUS
    <2>1. p + 2 \in Int /\ p + 2 <= stop + 1
      OBVIOUS
    <2>2. n \in Nat /\ (n # 0 => text[(p + 2) + n] = ")")
      BY <2>1, EmphFound
    <2> HIDE DEF n
    <2>3. /\ p + 3 + n \in Int /\ p + 2 + n \in Int /\ p <= p + 2
          /\ p + 2 + n <= p + 3 + n
          /\ \A q \in Int : (p <= q /\ q < p + 2) \/ (p + 2 + n <= q /\ q < p + 3 + n)
                 => q = p \/ q = p + 1 \/ q = p + 2 + n
      BY <2>2
    <2>4. \A q \in Int : (p <= q /\ q < p + 2) \/ (p + 2 + n <= q /\ q < p + 3 + n)
              => text[q] \notin Letters
      BY <1>2, <2>2, <2>3
    <2> HIDE DEF box
    <2> QED BY ONLY <1>2, <2>1, <2>3, <2>4, SpanTells DEF box
  <1> HIDE DEF n, blank, none, word, box, r
  <1>6. Tells(r, p, stop)
    BY <1>1, <1>3, <1>4, <1>5, NoSpanTells
  <1> QED BY <1>6 DEF r

LEMMA AutolinkTells ==
    ASSUME NEW p \in Nat, NEW stop \in Nat, NEW offset, NEW address,
           AddressAt(address, p, stop, offset)
    PROVE  Tells(CharAutolink(p, stop, address), p, stop)
  <1> DEFINE from == address.from
             end == address.end
             last == LastChild
             before == IF last = 0 \/ nodes[last].type # "NORMAL_TEXT" THEN 0
                       ELSE nodes[last].b - nodes[last].a
             trim == Min({p - from, before})
             leaf == [Leaf("LINK_AUTO", from, end, from, end) EXCEPT !.trim = trim]
  <1>1. CharAutolink(p, stop, address) = NoSpan
        \/ (address # NoAddress /\ CharAutolink(p, stop, address) = leaf)
    <2> HIDE DEF leaf
    <2> QED BY DEF CharAutolink, leaf
  <1>2. CASE address # NoAddress
    <2>1. from \in Int /\ from <= p /\ end \in Int
      BY <1>2 DEF AddressAt
    <2>2. /\ leaf.nodes = <<Node("LINK_AUTO", from, end, from, end)>> /\ leaf.next = end
          /\ leaf.within = FALSE
      BY DEF Leaf, Parsed
    <2> HIDE DEF from, end, leaf
    <2> DEFINE x == Node("LINK_AUTO", from, end, from, end)
    <2>3. x.type = "LINK_AUTO" /\ x.a = from /\ x.b = end
      BY DEF Node
    <2>4. leaf.nodes[1] = x /\ DOMAIN leaf.nodes = {1}
      BY <2>2
    <2> HIDE DEF x
    <2>5. ASSUME NEW q \in Int, p <= q, q < leaf.next
          PROVE  Told(leaf, q, stop)
      <3>1. Has(x, q)
        BY <2>1, <2>2, <2>3, <2>5 DEF Has, SpanTypes
      <3> QED BY <2>4, <3>1 DEF Told, Shown
    <2>6. Spans(leaf)
      BY <2>3, <2>4 DEF Spans, WideNode, SpanTypes
    <2>7. Tells(leaf, p, stop)
      BY <2>2, <2>5, <2>6 DEF Tells
    <2> QED BY <1>1, <2>7, NoSpanTells
  <1> QED BY <1>1, <1>2, NoSpanTells

\* A link tells of its destination, which it hides; a footnote and metadata
\* that are found are shown, and what is not found is left out.
LEMMA LinkTells ==
    ASSUME NEW p \in Nat, p >= 1, NEW stop \in Nat, p < stop, NEW offset, text[p] = "["
    PROVE  Tells(CharLink(p, stop, offset), p, stop)
  <1> DEFINE image == ImageMark(p, offset)
             e == LinkText(p, stop)
             end == LinkEnd(p, e, stop)
             next == BehindAttrs(end, stop)
             mark == IF image THEN <<Text(p - 1, p)>> ELSE <<>>
             note == IF NewNote(p, stop)
                     THEN Node("FOOTNOTE_REF", p, e + 1, p, e + 1) ELSE Text(p, e + 1)
             value == IF Key(p, stop) \in defs.metas THEN <<Text(p, e + 1)>> ELSE <<>>
             to == Min({next, stop})
             none == [NoSpan EXCEPT !.nodes = mark]
             noted == Parsed(mark \o <<note>>, FALSE, 0, e + 1)
             valued == Parsed(mark \o value, FALSE, 0, e + 1)
             img == [Leaf("IMAGE", p - 1, to, p + 1, e) EXCEPT !.next = next]
             lnk == [Span("LINK", p, to, p + 1, e) EXCEPT !.within = e > p + 1, !.next = next]
             r == CharLink(p, stop, offset)
             found == e < stop /\ text[e] = "]"
  <1>1. \/ r = NoSpan
        \/ r = none
        \/ found /\ r = noted
        \/ found /\ IsMeta(p, stop) /\ r = valued
        \/ found /\ end # 0 /\ (r = img \/ r = lnk)
    <2> DEFINE special == IsNote(p, stop) \/ IsMeta(p, stop)
    <2>1. r = IF ~ found THEN NoSpan
              ELSE IF special
              THEN IF e - p < 3 THEN none
                   ELSE Parsed(mark \o (IF IsNote(p, stop) THEN <<note>> ELSE value), FALSE, 0, e + 1)
              ELSE IF end = 0 THEN NoSpan
              ELSE IF image THEN img ELSE lnk
      BY DEF CharLink, ImageMark
    <2>2. special /\ ~ IsNote(p, stop) => IsMeta(p, stop)
      OBVIOUS
    <2> HIDE DEF r, found, special, none, image, img, lnk, mark, note, value, e, end
    <2> QED BY <2>1, <2>2
  <1>2. e \in Int /\ e \in Nat /\ p < e /\ e <= stop
    BY LinkTextIs
  <1>3. found /\ end # 0 => /\ to \in Int /\ e <= to /\ to <= next /\ to <= stop
                            /\ next \in Int /\ (to = next \/ to = stop)
    <2> SUFFICES ASSUME found, end # 0
                 PROVE  /\ to \in Int /\ e <= to /\ to <= next /\ to <= stop
                        /\ next \in Int /\ (to = next \/ to = stop)
      OBVIOUS
    <2> HIDE DEF e
    <2>1. end \in Int /\ e < end /\ end <= stop
      BY <1>2, LinkEnds
    <2> HIDE DEF end
    <2>2. end \in Nat
      BY <1>2, <2>1
    <2>3. next \in Int /\ end <= next
      BY <2>1, <2>2, BehindIs
    <2> HIDE DEF next
    <2>4. to \in {next, stop} /\ to <= next /\ to <= stop
      BY <2>3, MinOf2
    <2> HIDE DEF to
    <2> QED BY <1>2, <2>1, <2>3, <2>4
  <1>4. "[" \notin Letters /\ "]" \notin Letters /\ "%" \notin Letters
        /\ "NORMAL_TEXT" \notin SpanTypes /\ "FOOTNOTE_REF" \notin SpanTypes
        /\ "IMAGE" \notin SpanTypes /\ "LINK" \in SpanTypes
    BY DEF Letters, SpanTypes
  <1>5. \A a, b : Text(a, b).type = "NORMAL_TEXT" /\ Text(a, b).a = a /\ Text(a, b).b = b
    BY DEF Text, Node
  <1> HIDE DEF end, next, to
  <1>6. CASE r = none
    <2>1. none.nodes = mark /\ none.within = FALSE /\ none.next = 0
      BY DEF NoSpan, Parsed
    <2>2. Spans(none)
      <3>1. \A k \in DOMAIN mark : mark[k] = Text(p - 1, p)
        OBVIOUS
      <3> HIDE DEF mark, none
      <3> QED BY <1>4, <1>5, <2>1, <3>1 DEF Spans, WideNode
    <2> HIDE DEF none, r
    <2>3. \A q \in Int : ~ (p <= q /\ q < 0)
      OBVIOUS
    <2>4. Tells(none, p, stop)
      BY <2>1, <2>2, <2>3 DEF Tells
    <2> QED BY <1>6, <2>4 DEF r
  <1> DEFINE Noted(x, s) ==
                 /\ x.type \in {"NORMAL_TEXT", "FOOTNOTE_REF"} /\ x.a = p /\ x.b = e + 1
                 /\ s.nodes = mark \o <<x>> /\ s.within = FALSE /\ s.next = e + 1
             Linked(x, s) ==
                 /\ x.type \in {"IMAGE", "LINK"} /\ x.a = p + 1 /\ x.b = e /\ x.to = to
                 /\ x.from \in {p - 1, p} /\ found /\ end # 0
                 /\ s.nodes = <<x>> /\ s.next = next
                 /\ s.within \in BOOLEAN /\ (s.within => x.type = "LINK")
                 /\ x.type = "LINK" /\ ~ s.within => ~ (e > p + 1)
  <1>7. \A x, s : Noted(x, s) => Tells(s, p, stop)
    <2> SUFFICES ASSUME NEW x, NEW s, Noted(x, s)
                 PROVE  Tells(s, p, stop)
      OBVIOUS
    <2>0. s.nodes = <<x>> \/ s.nodes = <<Text(p - 1, p), x>>
      <3>1. mark = <<Text(p - 1, p)>> \/ mark = <<>>
        OBVIOUS
      <3> HIDE DEF mark
      <3> QED BY <3>1, Joined
    <2>1. \E k \in DOMAIN s.nodes : s.nodes[k] = x
      <3>1. CASE s.nodes = <<x>>
        <4>1. 1 \in DOMAIN s.nodes /\ s.nodes[1] = x
          BY ONLY <3>1
        <4> QED BY <4>1
      <3>2. CASE s.nodes = <<Text(p - 1, p), x>>
        <4>1. 2 \in DOMAIN s.nodes /\ s.nodes[2] = x
          BY ONLY <3>2
        <4> QED BY <4>1
      <3> QED BY <2>0, <3>1, <3>2
    <2>2. \A k \in DOMAIN s.nodes : s.nodes[k] \in {Text(p - 1, p), x}
      BY ONLY <2>0
    <2> HIDE DEF mark, e
    <2>3. \A q \in Int : p <= q /\ q < s.next => Has(x, q)
      BY <1>4 DEF Has
    <2>4. Spans(s)
      BY <1>4, <1>5, <2>2 DEF Spans, WideNode
    <2> QED BY <2>1, <2>3, <2>4 DEF Tells, Told, Shown
  <1>8. CASE r = noted
    <2>1. noted.nodes = mark \o <<note>> /\ noted.within = FALSE /\ noted.next = e + 1
      BY DEF Parsed
    <2>2. note.type \in {"NORMAL_TEXT", "FOOTNOTE_REF"} /\ note.a = p /\ note.b = e + 1
      BY DEF Text, Node
    <2> HIDE DEF noted, mark, note, e, r
    <2>3. Noted(note, noted)
      BY ONLY <2>1, <2>2
    <2> HIDE DEF Noted
    <2>4. Tells(noted, p, stop)
      BY ONLY <1>7, <2>3
    <2> QED BY <1>8, <2>4 DEF r
  <1>9. CASE found /\ IsMeta(p, stop) /\ r = valued
    <2>1. valued.nodes = mark \o value /\ valued.within = FALSE /\ valued.next = e + 1
      BY DEF Parsed
    <2>2. CASE Key(p, stop) \in defs.metas
      <3> DEFINE t == Text(p, e + 1)
      <3>1. value = <<t>>
        BY <2>2
      <3>2. t.type = "NORMAL_TEXT" /\ t.a = p /\ t.b = e + 1
        BY <1>5
      <3> HIDE DEF valued, value, mark, t, e, r
      <3>3. Noted(t, valued)
        BY ONLY <2>1, <3>1, <3>2
      <3> HIDE DEF Noted
      <3>4. Tells(valued, p, stop)
        BY ONLY <1>7, <3>3
      <3> QED BY <1>9, <3>4 DEF r
    <2>3. CASE Key(p, stop) \notin defs.metas
      <3>1. valued.nodes = mark
        <4>1. value = <<>> /\ (mark = <<Text(p - 1, p)>> \/ mark = <<>>)
          BY <2>3
        <4> HIDE DEF mark, value, valued
        <4> QED BY <2>1, <4>1, Joined
      <3>2. Spans(valued)
        <4>1. \A k \in DOMAIN mark : mark[k] = Text(p - 1, p)
          OBVIOUS
        <4> HIDE DEF mark, valued
        <4> QED BY <1>4, <1>5, <3>1, <4>1 DEF Spans, WideNode
      <3>3. text[p + 1] = "%"
        BY <1>9 DEF IsMeta
      <3>4. ASSUME NEW q \in Int, p <= q, q < e + 1
            PROVE  Told(valued, q, stop)
        <4>1. q = p \/ q = p + 1 \/ q = e \/ (p + 2 <= q /\ q < e)
          <5> HIDE DEF e
          <5> QED BY <1>2, <3>4
        <4>2. p + 2 <= q /\ q < e => Undefined(q, stop)
          <5> SUFFICES ASSUME p + 2 <= q, q < e
                       PROVE  Undefined(q, stop)
            OBVIOUS
          <5>1. p \in 1..q - 2
            OBVIOUS
          <5> QED BY <1>9, <2>3, <5>1 DEF Undefined
        <4>3. text[e] = "]"
          BY <1>9
        <4> QED BY <1>4, <3>3, <4>1, <4>2, <4>3 DEF Told, Left
      <3> HIDE DEF valued, e, r, mark
      <3>5. Tells(valued, p, stop)
        BY <2>1, <3>2, <3>4 DEF Tells
      <3> QED BY <1>9, <3>5 DEF r
    <2> QED BY <2>2, <2>3
  <1>10. \A x, s : Linked(x, s) => Tells(s, p, stop)
    <2> SUFFICES ASSUME NEW x, NEW s, Linked(x, s)
                 PROVE  Tells(s, p, stop)
      OBVIOUS
    <2>1. s.nodes[1] = x /\ DOMAIN s.nodes = {1} /\ Result(s) = x
      BY DEF Result
    <2> HIDE DEF e, found
    <2>2. x.from <= p /\ x.from \in Int /\ x.from <= x.a /\ x.b <= x.to
      BY <1>2, <1>3
    <2>3. ASSUME NEW q \in Int, p <= q, q < next, q < stop
          PROVE  Told(s, q, stop)
      <3>1. x.from <= q /\ q < x.to
        BY <1>3, <2>2, <2>3
      <3>2. CASE ~ (x.a <= q /\ q < x.b)
        BY <2>1, <3>1, <3>2 DEF Told, Shown, Has
      <3>3. CASE (x.a <= q /\ q < x.b) /\ s.within
        BY <2>1, <3>3 DEF Told, Within
      <3>4. CASE (x.a <= q /\ q < x.b) /\ ~ s.within
        <4>1. e > p + 1
          BY <1>2, <3>4
        <4>2. x.type = "IMAGE"
          BY <3>4, <4>1
        <4> QED BY <1>4, <2>1, <3>4, <4>2 DEF Told, Shown, Has
      <3> QED BY <3>2, <3>3, <3>4
    <2>4. Spans(s)
      BY <2>1, <2>2 DEF Spans, WideNode
    <2> QED BY <1>4, <2>1, <2>3, <2>4 DEF Tells
  <1>11. CASE found /\ end # 0 /\ r = img
    <2> DEFINE x == Node("IMAGE", p - 1, to, p + 1, e)
    <2>1. img.nodes = <<x>> /\ img.within = FALSE /\ img.next = next
      BY DEF Leaf, Parsed
    <2>2. x.from = p - 1 /\ x.to = to /\ x.type = "IMAGE" /\ x.a = p + 1 /\ x.b = e
      BY DEF Node
    <2> HIDE DEF x, img, r, e, found
    <2>3. Linked(x, img)
      BY ONLY <1>11, <2>1, <2>2
    <2> HIDE DEF Linked
    <2>4. Tells(img, p, stop)
      BY ONLY <1>10, <2>3
    <2> QED BY <1>11, <2>4 DEF r
  <1>12. CASE found /\ end # 0 /\ r = lnk
    <2> DEFINE x == Node("LINK", p, to, p + 1, e)
    <2>1. lnk.nodes = <<x>> /\ lnk.within = (e > p + 1) /\ lnk.next = next
      BY DEF Span, Parsed
    <2>2. x.from = p /\ x.to = to /\ x.type = "LINK" /\ x.a = p + 1 /\ x.b = e
      BY DEF Node
    <2>3. (e > p + 1) \in BOOLEAN
      BY <1>2
    <2> HIDE DEF x, lnk, r, found
    <2>4. lnk.within \in BOOLEAN /\ (lnk.within => e > p + 1) /\ (~ lnk.within => ~ (e > p + 1))
      BY <2>1, <2>3
    <2> HIDE DEF e
    <2>5. Linked(x, lnk)
      BY ONLY <1>12, <2>1, <2>2, <2>4
    <2> HIDE DEF Linked
    <2>6. Tells(lnk, p, stop)
      BY ONLY <1>10, <2>5
    <2> QED BY <1>12, <2>6 DEF r
  <1> HIDE DEF r, none, noted, valued, img, lnk, mark, e, found
  <1>13. Tells(r, p, stop)
    BY <1>1, <1>6, <1>8, <1>9, <1>11, <1>12, NoSpanTells DEF r
  <1> QED BY <1>13 DEF r

-----------------------------------------------------------------------------
(* What is known stays known *)

LEMMA LeftStays ==
    ASSUME NEW p, NEW stop, UNCHANGED <<text, ext, defs>>
    PROVE  Left(p, stop)' <=> Left(p, stop)
  <1>1. text' = text /\ ext' = ext /\ defs' = defs
    OBVIOUS
  <1>2. \A q : /\ LinkText(q, stop)' = LinkText(q, stop)
               /\ IsMeta(q, stop)' = IsMeta(q, stop)
    BY <1>1 DEF LinkText, IsMeta
  <1>3. \A q : Key(q, stop)' = Key(q, stop)
    BY <1>1, <1>2 DEF Key
  <1>4. Undefined(p, stop)' <=> Undefined(p, stop)
    BY <1>1, <1>2, <1>3 DEF Undefined
  <1>5. Unclosed(p, stop)' <=> Unclosed(p, stop)
    BY <1>1 DEF Unclosed
  <1> QED BY <1>4, <1>5 DEF Left

\* Spans stay as they are, and what a node no longer shows another one does.
Stays ==
    /\ UNCHANGED <<text, ext, defs>>
    /\ nodes' \in Seq(NodeTypes) /\ Len(nodes) <= Len(nodes')
    /\ \A n \in 1..Len(nodes) : nodes[n].type \in SpanTypes => nodes'[n] = nodes[n]
    /\ \A n \in 1..Len(nodes) : \A p \in Int : Has(nodes[n], p) =>
           text[p] \notin Letters \/ \E m \in 1..Len(nodes') : Has(nodes'[m], p)
FirstStays ==
    frames # <<>> /\ frames[1].node = 0 =>
        frames' # <<>> /\ frames'[1].node = 0 /\ frames'[1].stop = frames[1].stop

LEMMA KnownStays ==
    ASSUME Parse, Stays, FirstStays, NEW p \in Int, Known(p)
    PROVE  Known(p)'
  <1>1. /\ DOMAIN nodes = 1..Len(nodes) /\ DOMAIN nodes' = 1..Len(nodes')
        /\ Len(nodes) \in Nat /\ Len(nodes') \in Nat /\ Len(nodes) <= Len(nodes')
        /\ text' = text
    BY DEF Parse, Stays
  <1>2. CASE text[p] \notin Letters
    BY <1>1, <1>2 DEF Known
  <1>3. CASE \E n \in DOMAIN nodes : Has(nodes[n], p)
    <2>1. PICK n \in 1..Len(nodes) : Has(nodes[n], p)
      BY <1>1, <1>3
    <2>2. text[p] \notin Letters \/ \E m \in 1..Len(nodes') : Has(nodes'[m], p)
      BY <2>1 DEF Stays
    <2>3. \A m : Has(nodes[m], p)' <=> Has(nodes'[m], p)
      BY DEF Has
    <2> QED BY <1>1, <2>2, <2>3 DEF Known
  <1>4. CASE \E n \in DOMAIN nodes : In(n, p) /\ Left(p, nodes[n].b)
    <2>1. PICK n \in 1..Len(nodes) : In(n, p) /\ Left(p, nodes[n].b)
      BY <1>1, <1>4
    <2>2. nodes'[n] = nodes[n]
      BY <2>1 DEF Stays, In
    <2>3. In(n, p)'
      BY <2>1, <2>2 DEF In
    <2>4. Left(p, nodes[n].b)'
      <3>1. PICK b : b = nodes[n].b
        OBVIOUS
      <3>2. Left(p, b)' <=> Left(p, b)
        BY LeftStays DEF Stays
      <3>3. nodes'[n].b = b
        BY <2>2, <3>1
      <3>4. Left(p, b)'
        BY <2>1, <3>1, <3>2
      <3> QED BY <3>3, <3>4
    <2>5. n \in DOMAIN nodes'
      BY <1>1
    <2> QED BY <2>3, <2>4, <2>5 DEF Known
  <1>5. CASE frames # <<>> /\ frames[1].node = 0 /\ Left(p, frames[1].stop)
    <2>1. PICK stop : stop = frames[1].stop
      OBVIOUS
    <2>2. Left(p, stop)'
      BY <1>5, <2>1, LeftStays DEF Stays
    <2>3. frames' # <<>> /\ frames'[1].node = 0 /\ frames'[1].stop = stop
      BY <1>5, <2>1 DEF FirstStays
    <2> QED BY <2>2, <2>3 DEF Known
  <1> QED BY <1>2, <1>3, <1>4, <1>5 DEF Known

\* What a function takes back it shows, or it is no letter.
TrimTold(r) ==
    r.trim # 0 => \A q \in Int :
        nodes[LastChild].b - r.trim <= q /\ q < nodes[LastChild].b =>
            text[q] \notin Letters \/ Shown(r, q)

\* What r shows the nodes do.
LEMMA ShownIs ==
    ASSUME Ready, NEW r, Fits(r), Handle(r), NEW q, Shown(r, q)
    PROVE  \E m \in 1..Len(nodes') : Has(nodes'[m], q)
  <1>1. Results(r) /\ r.nodes \in Seq(NodeTypes) /\ Len(nodes) \in Nat
    BY HandleResults, FitsNodes DEF Ready, Parse
  <1>2. PICK k \in 1..Len(r.nodes) : Has(r.nodes[k], q)
    BY <1>1 DEF Shown
  <1>3. PICK x \in NodeTypes : x = r.nodes[k] /\ Has(x, q)
    BY <1>1, <1>2
  <1>4. /\ InTop(x).type = x.type /\ InTop(x).from = x.from /\ InTop(x).to = x.to
        /\ InTop(x).a = x.a /\ InTop(x).b = x.b
    <2>1. Top.node \in Nat
      BY TopIs DEF Ready
    <2> QED BY <2>1, InTopIs
  <1>5. Has(InTop(x), q)
    BY <1>3, <1>4 DEF Has
  <1>6. nodes'[Len(nodes) + k] = InTop(x) /\ Len(nodes) + k \in 1..Len(nodes')
    <2>1. Len(r.nodes) \in Nat /\ Len(nodes') = Len(nodes) + Len(r.nodes)
      BY <1>1 DEF Results
    <2>2. Len(nodes) + k \in 1..Len(nodes')
      BY <1>1, <2>1
    <2> QED BY <1>1, <1>3, <2>2 DEF Results
  <1> QED BY <1>5, <1>6

LEMMA HandleStays ==
    ASSUME Ready, NEW r, Fits(r), Handle(r), TrimTold(r)
    PROVE  Stays
  <1> DEFINE N == Len(nodes)
             l == LastChild
  <1>1. /\ nodes' \in Seq(NodeTypes) /\ Results(r) /\ UNCHANGED <<text, ext, defs>>
        /\ N \in Nat /\ Len(r.nodes) \in Nat /\ Len(nodes') = N + Len(r.nodes)
    <2>1. nodes' \in Seq(NodeTypes) /\ Results(r) /\ Len(r.nodes) \in Nat
      BY HandleResults, FitsNodes
    <2>2. UNCHANGED <<text, ext, defs>>
      BY DEF Handle
    <2>3. N \in Nat /\ Len(nodes') = N + Len(r.nodes)
      BY <2>1 DEF Results, Ready, Parse
    <2> QED BY <2>1, <2>2, <2>3
  <1>2. ASSUME NEW n \in 1..N
        PROVE  /\ TrimmedTo(n, nodes'[n])
               /\ r.trim = 0 => nodes'[n] = nodes[n]
               /\ r.trim # 0 /\ n = l => nodes'[n].b = nodes[n].b - r.trim
    <2>1. nodes'[n] = Trimmed(r)[n] /\ TrimmedTo(n, Trimmed(r)[n])
      BY <1>1, TrimmedIs DEF Results, Fits
    <2>2. r.trim # 0 => Trimmed(r)[l].b = nodes[l].b - r.trim
      BY TrimmedIs DEF Fits
    <2>3. r.trim = 0 => Trimmed(r) = nodes
      BY DEF Trimmed
    <2> QED BY <2>1, <2>2, <2>3
  <1>3. ASSUME NEW n \in 1..N, nodes[n].type \in SpanTypes
        PROVE  nodes'[n] = nodes[n]
    <2>1. nodes[n].type # "NORMAL_TEXT"
      BY <1>3 DEF SpanTypes
    <2> QED BY <1>2, <2>1 DEF TrimmedTo
  <1>4. ASSUME NEW n \in 1..N, NEW p \in Int, Has(nodes[n], p)
        PROVE  text[p] \notin Letters \/ \E m \in 1..Len(nodes') : Has(nodes'[m], p)
    <2>1. n \in 1..Len(nodes')
      BY <1>1
    <2>2. CASE nodes'[n] = nodes[n]
      BY <1>4, <2>1, <2>2
    <2>3. CASE nodes'[n] # nodes[n]
      <3>1. /\ n = l /\ nodes[n].type = "NORMAL_TEXT" /\ nodes'[n].type = "NORMAL_TEXT"
            /\ nodes'[n].a = nodes[n].a /\ r.trim # 0 /\ nodes'[n].b = nodes[n].b - r.trim
        BY <1>2, <2>3 DEF TrimmedTo
      <3>2. nodes[n].a <= p /\ p < nodes[n].b
        BY <1>4, <3>1 DEF Has
      <3>3. CASE p < nodes'[n].b
        <4>1. Has(nodes'[n], p)
          BY <3>1, <3>2, <3>3 DEF Has, SpanTypes
        <4> QED BY <2>1, <4>1
      <3>4. CASE ~(p < nodes'[n].b)
        <4>1. nodes[n].b - r.trim <= p
          <5>1. nodes'[n] \in NodeTypes
            BY <1>1, <2>1
          <5>2. nodes'[n].b \in Int
            BY <5>1, NodeIs
          <5> QED BY <3>1, <3>4, <5>2
        <4>2. text[p] \notin Letters \/ Shown(r, p)
          BY <3>1, <3>2, <4>1 DEF TrimTold
        <4> QED BY <4>2, ShownIs
      <3> QED BY <3>3, <3>4
    <2> QED BY <2>2, <2>3
  <1>5. N <= Len(nodes')
    BY <1>1
  <1> QED BY <1>1, <1>3, <1>4, <1>5 DEF Stays

-----------------------------------------------------------------------------
(* The calls know what they have passed *)

\* What the proofs need of a state of the parse.
Knows == Wide /\ OpenSpans /\ Around /\ \A k \in DOMAIN frames : Covered(k)
Knowing == ParseInv /\ outcome = "parsing" /\ Knows

\* What is left out at the end of the last call's text is known to be so.
LEMMA TopLeaves ==
    ASSUME Knowing, NEW p \in Int, Inside(Top, p), Left(p, Top.stop)
    PROVE  Known(p)
  <1>1. /\ Parse /\ outcome = "parsing"
        /\ Len(frames) \in Nat \ {0} /\ Len(frames) \in DOMAIN frames
        /\ Top = frames[Len(frames)] /\ Top.node \in Nat /\ Top.stop \in Nat
        /\ frames \in Seq(Calls) /\ frames # <<>>
    BY TopIs DEF Knowing, ParseInv, Parse
  <1>2. BeginOf(Top) <= p /\ p < Top.stop
    BY DEF Inside
  <1>3. Top.node # 0 => Top.node \in DOMAIN nodes /\ nodes[Top.node] \in NodeTypes
                        /\ nodes[Top.node].b = Top.stop
    <2>1. Top.node # 0 => Top.node \in 1..Len(nodes) /\ nodes[Top.node].b = Top.stop
      BY <1>1, OpenNode
    <2>2. DOMAIN nodes = 1..Len(nodes)
      BY <1>1 DEF Parse
    <2> QED BY <1>1, <2>1, <2>2, UpIs
  <1>4. Top.node # 0 => nodes[Top.node].type \in SpanTypes
    BY <1>1 DEF Knowing, Knows, OpenSpans
  <1>5. Top.node = 0 => Len(frames) = 1
    <2> SUFFICES ASSUME Top.node = 0, Len(frames) # 1
                 PROVE  FALSE
      OBVIOUS
    <2>0. Len(frames) # 1
      OBVIOUS
    <2>1. Len(frames) \in 2..Len(frames) /\ 1 \in 1..Len(frames) - 1 /\ 1 \in DOMAIN frames
      <3>1. PICK L \in Nat : L = Len(frames) /\ L # 0 /\ L # 1 /\ DOMAIN frames = 1..L
        <4>1. Len(frames) \in Nat /\ DOMAIN frames = 1..Len(frames)
          BY <1>1
        <4> HIDE DEF Top
        <4> QED BY <1>1, <2>0, <4>1
      <3>2. L \in 2..L /\ 1 \in 1..L - 1 /\ 1 \in 1..L
        BY <3>1
      <3> QED BY <3>1, <3>2
    <2>2. frames[1].node < frames[Len(frames)].node
      BY <1>1, <2>1 DEF Parse, CallsNested
    <2>3. frames[1].node \in Nat
      <3>1. frames[1] \in Calls
        BY <1>1, <2>1
      <3> QED BY <3>1, CallIs
    <2> HIDE DEF Top
    <2> QED BY <1>1, <2>2, <2>3
  <1> HIDE DEF Top
  <1>6. CASE Top.node = 0
    BY <1>1, <1>5, <1>6 DEF Known
  <1>7. CASE Top.node # 0
    <2>1. PICK x \in NodeTypes : x = nodes[Top.node] /\ x.b = Top.stop /\ x.type \in SpanTypes
      BY <1>3, <1>4, <1>7
    <2>2. x.from <= x.a /\ x.b <= x.to
      BY <1>3, <1>7, <2>1 DEF Knowing, Knows, Wide
    <2>3. BeginOf(Top) = x.a
      BY <1>7, <2>1 DEF BeginOf
    <2>4. x.from <= p /\ p < x.to
      <3>1. x.from \in Int /\ x.a \in Int /\ x.b \in Int /\ x.to \in Int
        BY NodeIs
      <3> QED BY <1>2, <2>1, <2>2, <2>3, <3>1
    <2>5. In(Top.node, p) /\ Left(p, nodes[Top.node].b)
      BY <2>1, <2>4 DEF In
    <2> QED BY <1>3, <1>7, <2>5 DEF Known
  <1> QED BY <1>6, <1>7

\* Where a call's text begins does not change.
LEMMA BeginStays ==
    ASSUME Parse, Stays, NEW f \in Calls, f.node <= Len(nodes),
           f.node # 0 => nodes[f.node].type \in SpanTypes
    PROVE  BeginOf(f)' = BeginOf(f) /\ (f.node # 0 => nodes'[f.node] = nodes[f.node])
  <1>1. f.node \in Nat /\ Len(nodes) \in Nat
    BY CallIs DEF Parse
  <1>2. f.node # 0 => nodes'[f.node] = nodes[f.node]
    BY <1>1 DEF Stays
  <1> QED BY <1>2 DEF BeginOf

\* Call k has the same text as before.
Same(k) ==
    /\ frames'[k].node = frames[k].node /\ frames'[k].stop = frames[k].stop
    /\ frames'[k].next = frames[k].next

LEMMA SameInside ==
    ASSUME Knowing, Stays, NEW k \in 1..Len(frames), Same(k), NEW p
    PROVE  /\ Inside(frames[k], p)' <=> Inside(frames[k], p)
           /\ BeginOf(frames[k])' = BeginOf(frames[k])
           /\ frames'[k].node # 0 => nodes'[frames'[k].node].type \in SpanTypes
  <1>1. /\ Parse /\ frames[k] \in Calls /\ CallTyped(frames[k]) /\ k \in DOMAIN frames
    BY DEF Knowing, ParseInv, Parse, CallsTyped
  <1>2. PICK f \in Calls : f = frames[k] /\ f.node <= Len(nodes)
                           /\ (f.node # 0 => nodes[f.node].type \in SpanTypes)
    BY <1>1 DEF CallTyped, Knowing, Knows, OpenSpans
  <1>3. BeginOf(f)' = BeginOf(f) /\ (f.node # 0 => nodes'[f.node] = nodes[f.node])
    BY <1>1, <1>2, BeginStays
  <1>4. PICK g : g = frames'[k] /\ g.node = f.node /\ g.stop = f.stop
    BY <1>2 DEF Same
  <1>5. BeginOf(g)' = BeginOf(f)'
    BY <1>4 DEF BeginOf
  <1>6. Inside(g, p)' <=> Inside(f, p)
    BY <1>3, <1>4, <1>5 DEF Inside
  <1>7. g.node # 0 => nodes'[g.node].type \in SpanTypes
    BY <1>2, <1>3, <1>4
  <1>8. BeginOf(frames[k])' = BeginOf(g)'
    BY <1>4 DEF BeginOf
  <1>9. Inside(frames[k], p)' <=> Inside(g, p)'
    BY <1>4, <1>8 DEF Inside
  <1> QED BY <1>2, <1>3, <1>4, <1>5, <1>6, <1>7, <1>8, <1>9

\* Of the calls before the last one nothing changes.
LEMMA OuterCovered ==
    ASSUME Knowing, Stays, FirstStays, frames' \in Seq(Calls),
           NEW k \in 1..Len(frames), k < Len(frames), k < Len(frames'),
           Same(k), Same(k + 1)
    PROVE  Covered(k)'
  <1>1. /\ Parse /\ Len(frames) \in Nat /\ k + 1 \in 1..Len(frames) /\ k # Len(frames)
        /\ text' = text /\ k \in DOMAIN frames /\ IsSequence(text) /\ k # Len(frames')
    BY DEF Knowing, ParseInv, Parse, Stays, Paragraphs
  <1>2. Covered(k)
    BY <1>1 DEF Knowing, Knows
  <1>3. Reach(k)' = Reach(k)
    BY <1>1 DEF Reach, Same
  <1> SUFFICES ASSUME NEW p \in DOMAIN text, Inside(frames[k], p)', p < Reach(k)
               PROVE  Known(p)' \/ (k < Len(frames) /\ Inside(frames[k + 1], p))'
    BY <1>1, <1>3 DEF Covered
  <1>4. Inside(frames[k], p)
    BY SameInside
  <1>5. Known(p) \/ Inside(frames[k + 1], p)
    BY <1>2, <1>4 DEF Covered
  <1>6. CASE Known(p)
    <2>1. p \in Int
      BY <1>1 DEF IsSequence
    <2> QED BY <1>1, <1>6, <2>1, KnownStays
  <1>7. CASE Inside(frames[k + 1], p)
    <2>1. PICK j \in 1..Len(frames) : j = k + 1
      BY <1>1
    <2>2. Inside(frames[j], p)'
      BY <1>7, <2>1, SameInside
    <2> QED BY <2>1, <2>2
  <1> QED BY <1>5, <1>6, <1>7

\* What is around the first call stays known.
LEMMA AroundStays ==
    ASSUME Knowing, Stays, FirstStays, UNCHANGED <<data, beg, outcome>>, Same(1)
    PROVE  Around'
  <1>1. /\ Parse /\ outcome' = "parsing" /\ outcome = "parsing" /\ 1 \in 1..Len(frames)
        /\ text' = text /\ IsSequence(text)
    BY TopIs DEF Knowing, ParseInv, Parse, Stays, Paragraphs
  <1>2. BeginOf(frames[1])' = BeginOf(frames[1]) /\ frames'[1].stop = frames[1].stop
    BY <1>1, SameInside DEF Same
  <1>3. \A p : Before(p)' <=> Before(p)
    BY <1>2 DEF Before
  <1> SUFFICES ASSUME NEW p \in DOMAIN text, Before(p)
               PROVE  Known(p)'
    BY <1>1, <1>3 DEF Around
  <1>4. Known(p)
    BY <1>1 DEF Knowing, Knows, Around
  <1>5. p \in Int
    BY <1>1 DEF IsSequence
  <1> QED BY <1>1, <1>4, <1>5, KnownStays

\* The last call has passed what it knows now.
LEMMA ReplaceKnows ==
    ASSUME Knowing, Stays, Wide', NEW g \in Calls, Replaces(g), UNCHANGED <<data, beg, outcome>>,
           \A p \in Int : Inside(Top, p) /\ Top.i <= p /\ p < g.i => Known(p)'
    PROVE  Knows'
  <1>0. PICK L \in Nat : L = Len(frames)
    BY DEF Knowing, ParseInv, Parse
  <1>1. /\ Parse /\ outcome' = "parsing" /\ outcome = "parsing"
        /\ text' = text /\ IsSequence(text) /\ \A p \in DOMAIN text : p \in Int
    BY DEF Knowing, ParseInv, Parse, Stays, Paragraphs, IsSequence
  <1>2. /\ L # 0 /\ L \in 1..L /\ 1 \in 1..L /\ Top = frames[L] /\ Top.i \in Nat
        /\ DOMAIN frames = 1..L
    <2>1. Len(frames) # 0 /\ Top = frames[Len(frames)] /\ Top.i \in Nat /\ frames \in Seq(Calls)
      BY <1>1, TopIs DEF Parse
    <2>2. L # 0 /\ L \in 1..L /\ 1 \in 1..L
      BY <1>0, <2>1
    <2> QED BY <1>0, <2>1, <2>2
  <1>3. /\ frames' \in Seq(Calls) /\ Len(frames') = L /\ frames'[L] = g /\ frames' # <<>>
        /\ \A k \in 1..L : k # L => frames'[k] = frames[k]
    BY <1>0, <1>1, ReplaceIs
  <1>4. \A k \in 1..L : Same(k)
    BY <1>0, <1>2, <1>3 DEF Same, Replaces
  <1>5. FirstStays
    BY <1>0, <1>2, <1>3, <1>4 DEF FirstStays, Same
  <1>6. Around'
    BY <1>0, <1>2, <1>4, <1>5, AroundStays
  <1>7. OpenSpans'
    BY <1>0, <1>3, <1>4, SameInside DEF OpenSpans
  <1>8. ASSUME NEW k \in 1..L
        PROVE  Covered(k)'
    <2>1. CASE k = L
      <3>1. Reach(k)' = g.i /\ Reach(k) = Top.i /\ Covered(k)
        BY <1>0, <1>2, <1>3, <2>1 DEF Reach, Knowing, Knows
      <3> SUFFICES ASSUME NEW p \in DOMAIN text, Inside(frames[k], p)', p < g.i
                   PROVE  Known(p)'
        BY <1>0, <1>1, <3>1 DEF Covered
      <3>2. Inside(Top, p)
        BY <1>0, <1>2, <1>4, <2>1, SameInside
      <3>3. CASE p < Top.i
        <4>1. Known(p)
          BY <1>0, <1>2, <2>1, <3>1, <3>2, <3>3 DEF Covered
        <4> QED BY <1>1, <1>5, <4>1, KnownStays
      <3>4. CASE ~(p < Top.i)
        <4>1. Top.i <= p /\ p \in Int
          BY <1>1, <1>2, <3>4
        <4> QED BY <3>2, <4>1
      <3> QED BY <3>3, <3>4
    <2>2. CASE k # L
      <3>1. k < L /\ k < Len(frames') /\ k + 1 \in 1..L
        BY <1>2, <1>3, <2>2
      <3> QED BY <1>0, <1>3, <1>4, <1>5, <3>1, OuterCovered
    <2> QED BY <2>1, <2>2
  <1>9. DOMAIN frames' = 1..L
    BY <1>2, <1>3
  <1> QED BY <1>6, <1>7, <1>8, <1>9 DEF Knows

\* A span's text will be known when its call is over.
LEMMA OpenKnows ==
    ASSUME Knowing, Stays, Wide', NEW F \in Calls, Opens(F), UNCHANGED <<data, beg, outcome>>,
           nodes'[F.node].type \in SpanTypes,
           \A p \in Int : Inside(Top, p) /\ Top.i <= p /\ p < F.next =>
               Known(p)' \/ (F.i <= p /\ p < F.stop)
    PROVE  Knows'
  <1>0. PICK L \in Nat : L = Len(frames)
    BY DEF Knowing, ParseInv, Parse
  <1>1. /\ Parse /\ outcome' = "parsing" /\ outcome = "parsing"
        /\ text' = text /\ IsSequence(text) /\ \A p \in DOMAIN text : p \in Int
    BY DEF Knowing, ParseInv, Parse, Stays, Paragraphs, IsSequence
  <1>2. /\ L # 0 /\ L \in 1..L /\ 1 \in 1..L /\ Top = frames[L] /\ Top.i \in Nat
        /\ DOMAIN frames = 1..L
    <2>1. Len(frames) # 0 /\ Top = frames[Len(frames)] /\ Top.i \in Nat /\ frames \in Seq(Calls)
      BY <1>1, TopIs DEF Parse
    <2>2. L # 0 /\ L \in 1..L /\ 1 \in 1..L
      BY <1>0, <2>1
    <2> QED BY <1>0, <2>1, <2>2
  <1>3. /\ frames' \in Seq(Calls) /\ Len(frames') = L + 1 /\ frames'[L + 1] = F /\ frames' # <<>>
        /\ \A k \in 1..L : frames'[k] = frames[k]
    <2>1. /\ frames' \in Seq(Calls) /\ Len(frames') = L + 1 /\ frames'[Len(frames')] = F
          /\ frames' # <<>> /\ \A k \in 1..L : frames'[k] = frames[k]
      BY <1>0, <1>1, OpenIs
    <2> QED BY <2>1
  <1>4. \A k \in 1..L : Same(k)
    BY <1>3 DEF Same
  <1>5. FirstStays
    BY <1>0, <1>2, <1>3 DEF FirstStays
  <1>6. Around'
    BY <1>0, <1>2, <1>4, <1>5, AroundStays
  <1>7. OpenSpans'
    <2> SUFFICES ASSUME NEW k \in 1..L + 1, frames'[k].node # 0
                 PROVE  nodes'[frames'[k].node].type \in SpanTypes
      BY <1>3 DEF OpenSpans
    <2>1. k = L + 1 \/ k \in 1..L
      BY <1>2
    <2> QED BY <1>0, <1>3, <1>4, <2>1, SameInside
  <1>8. F.node # 0 /\ F.i = nodes'[F.node].a /\ F.i \in Nat
    <2>1. Len(nodes) \in Nat /\ Len(nodes') \in Nat
      BY <1>1 DEF Parse, Stays
    <2> QED BY <2>1, CallIs DEF Opens
  <1>9. ASSUME NEW p
        PROVE  Inside(frames[L + 1], p)' <=> F.i <= p /\ p < F.stop
    <2>1. BeginOf(frames[L + 1])' = F.i
      BY <1>3, <1>8 DEF BeginOf
    <2> QED BY <1>3, <2>1 DEF Inside
  <1>10. ASSUME NEW k \in 1..L + 1
         PROVE  Covered(k)'
    <2>1. CASE k = L + 1
      <3>1. Reach(k)' = F.i
        BY <1>0, <1>3, <2>1 DEF Reach
      <3> SUFFICES ASSUME NEW p \in DOMAIN text, Inside(frames[L + 1], p)', p < F.i
                   PROVE  FALSE
        BY <1>0, <1>1, <2>1, <3>1 DEF Covered
      <3>2. F.i <= p /\ p \in Int
        BY <1>1, <1>9
      <3> QED BY <1>8, <3>2
    <2>2. CASE k = L
      <3>1. /\ Reach(k)' = F.next /\ Reach(k) = Top.i /\ Covered(k) /\ k < Len(frames')
        <4>1. k < L + 1 /\ k # L + 1
          BY <1>2, <2>2
        <4> QED BY <1>0, <1>2, <1>3, <2>2, <4>1 DEF Reach, Knowing, Knows
      <3> SUFFICES ASSUME NEW p \in DOMAIN text, Inside(frames[k], p)', p < F.next
                   PROVE  Known(p)' \/ Inside(frames[k + 1], p)'
        BY <1>0, <1>1, <3>1 DEF Covered
      <3>2. Inside(Top, p)
        BY <1>0, <1>2, <1>4, <2>2, SameInside
      <3>3. CASE p < Top.i
        <4>1. Known(p)
          BY <1>0, <1>2, <2>2, <3>1, <3>2, <3>3 DEF Covered
        <4> QED BY <1>1, <1>5, <4>1, KnownStays
      <3>4. CASE ~(p < Top.i)
        <4>1. Top.i <= p /\ p \in Int
          BY <1>1, <1>2, <3>4
        <4>2. Known(p)' \/ (F.i <= p /\ p < F.stop)
          BY <3>2, <4>1
        <4>3. Known(p)' \/ Inside(frames[L + 1], p)'
          BY <1>9, <4>2
        <4> QED BY <2>2, <4>3
      <3> QED BY <3>3, <3>4
    <2>3. CASE k # L /\ k # L + 1
      <3>1. k \in 1..L /\ k < L /\ k < Len(frames') /\ k + 1 \in 1..L
        BY <1>2, <1>3, <2>3
      <3> QED BY <1>0, <1>3, <1>4, <1>5, <3>1, OuterCovered
    <2> QED BY <2>1, <2>2, <2>3
  <1>11. DOMAIN frames' = 1..L + 1
    BY <1>2, <1>3
  <1> QED BY <1>6, <1>7, <1>10, <1>11 DEF Knows

-----------------------------------------------------------------------------
(* What the functions for the special characters pass is known *)

LEMMA ReplaceFirst ==
    ASSUME Parse, outcome = "parsing", NEW g \in Calls, Replaces(g)
    PROVE  FirstStays
  <1>1. PICK L \in Nat : L = Len(frames) /\ L # 0 /\ 1 \in 1..L /\ Top = frames[L]
    <2>1. Len(frames) \in Nat /\ Len(frames) # 0 /\ Top = frames[Len(frames)]
      BY TopIs
    <2>2. PICK L \in Nat : L = Len(frames) /\ L # 0
      BY <2>1
    <2>3. 1 \in 1..L
      BY <2>2
    <2> QED BY <2>1, <2>2, <2>3
  <1>2. frames' # <<>> /\ frames'[L] = g /\ \A k \in 1..L : k # L => frames'[k] = frames[k]
    BY <1>1, ReplaceIs
  <1>3. CASE L = 1
    BY <1>1, <1>2, <1>3 DEF FirstStays, Replaces
  <1>4. CASE L # 1
    BY <1>1, <1>2, <1>4 DEF FirstStays
  <1> QED BY <1>3, <1>4

LEMMA OpenFirst ==
    ASSUME Parse, outcome = "parsing", NEW F \in Calls, Opens(F)
    PROVE  FirstStays
  <1>1. 1 \in 1..Len(frames)
    BY TopIs
  <1> QED BY <1>1, OpenIs DEF FirstStays

\* What r tells of is known.
LEMMA ToldKnown ==
    ASSUME Knowing, Ready, Stays, FirstStays, NEW r, Fits(r), Handle(r),
           Tells(r, Top.i, Top.stop),
           NEW p \in Int, Inside(Top, p), Top.i <= p, p < r.next
    PROVE  Known(p)' \/ Within(r, p)
  <1>1. Parse /\ text' = text
    BY DEF Ready, Stays
  <1>2. p < Top.stop
    BY DEF Inside
  <1>3. Told(r, p, Top.stop)
    BY <1>2 DEF Tells
  <1>4. CASE text[p] \notin Letters
    BY <1>1, <1>4 DEF Known
  <1>5. CASE Shown(r, p)
    <2>1. PICK m \in 1..Len(nodes') : Has(nodes'[m], p)
      BY <1>5, ShownIs
    <2>2. m \in DOMAIN nodes' /\ (Has(nodes[m], p)' <=> Has(nodes'[m], p))
      BY DEF Has, Stays
    <2> QED BY <2>1, <2>2 DEF Known
  <1>6. CASE Left(p, Top.stop)
    <2>1. Known(p)
      BY <1>6, TopLeaves
    <2> QED BY <1>1, <2>1, KnownStays
  <1> QED BY <1>3, <1>4, <1>5, <1>6 DEF Told

LEMMA HandleWide ==
    ASSUME Knowing, Ready, NEW r, Fits(r), Handle(r), Spans(r)
    PROVE  Wide'
  <1>1. Pushed /\ Results(r)
    BY HandlePushes
  <1>2. /\ r.nodes \in Seq(NodeTypes) /\ Len(nodes) \in Nat /\ DOMAIN nodes = 1..Len(nodes)
        /\ DOMAIN nodes' = 1..Len(nodes')
    BY <1>1, FitsNodes DEF Ready, Parse, Pushed
  <1> SUFFICES ASSUME NEW n \in 1..Len(nodes')
               PROVE  WideNode(nodes'[n])
    BY <1>2 DEF Wide, WideNode
  <1>3. CASE n \in 1..Len(nodes)
    <2>1. WideNode(nodes[n])
      BY <1>2, <1>3 DEF Knowing, Knows, Wide, WideNode
    <2>2. nodes'[n].type = nodes[n].type
          /\ (nodes'[n] = nodes[n] \/ nodes[n].type = "NORMAL_TEXT")
      BY <1>1, <1>3 DEF Pushed, Kept
    <2> QED BY <2>1, <2>2 DEF WideNode, SpanTypes
  <1>4. CASE n \notin 1..Len(nodes)
    <2>1. PICK k \in 1..Len(r.nodes) : Puts(n, r.nodes[k])
      BY <1>1, <1>4, ResultAt
    <2>2. WideNode(r.nodes[k])
      BY <1>2 DEF Spans
    <2> QED BY <2>1, <2>2 DEF Puts, WideNode
  <1> QED BY <1>3, <1>4

LEMMA HandleKnows ==
    ASSUME Knowing, Ready, NEW r, Fits(r), Handle(r), Tells(r, Top.i, Top.stop), TrimTold(r),
           UNCHANGED <<data, beg>>
    PROVE  Knows'
  <1>1. Stays /\ Wide'
    BY HandleStays, HandleWide DEF Tells
  <1>2. Parse /\ outcome = "parsing" /\ UNCHANGED <<data, beg, outcome>> /\ Top.i \in Nat
    BY TopIs DEF Ready, Handle
  <1>3. CASE r.next = 0
    <2>1. PICK g \in Calls : Replaces(g) /\ g.i = Top.i
      BY <1>3, NothingReplaces
    <2>2. \A p \in Int : ~(Top.i <= p /\ p < g.i)
      BY <1>2, <2>1
    <2> QED BY <1>1, <1>2, <2>1, <2>2, ReplaceKnows
  <1>4. CASE r.next # 0 /\ ~ r.within
    <2>1. PICK g \in Calls : Replaces(g) /\ g.i = r.next
      BY <1>4, OverReplaces
    <2>2. FirstStays
      BY <1>2, <2>1, ReplaceFirst
    <2>3. ASSUME NEW p \in Int, Inside(Top, p), Top.i <= p, p < g.i
          PROVE  Known(p)'
      <3>1. Known(p)' \/ Within(r, p)
        BY <1>1, <2>1, <2>2, <2>3, ToldKnown
      <3> QED BY <1>4, <3>1 DEF Within
    <2> QED BY <1>1, <1>2, <2>1, <2>3, ReplaceKnows
  <1>5. CASE r.next # 0 /\ r.within
    <2>1. PICK K \in Calls : /\ Opens(K) /\ K.i = r.nodes[1].a /\ K.stop = r.nodes[1].b
                             /\ K.next = r.next /\ nodes'[K.node].type = r.nodes[1].type
      BY <1>5, WithinOpens
    <2>2. FirstStays
      BY <1>2, <2>1, OpenFirst
    <2>3. Result(r) = r.nodes[1]
      BY <1>5, FitsNodes DEF Result
    <2>4. nodes'[K.node].type \in SpanTypes
      BY <1>5, <2>1, <2>3 DEF Tells
    <2>5. ASSUME NEW p \in Int, Inside(Top, p), Top.i <= p, p < K.next
          PROVE  Known(p)' \/ (K.i <= p /\ p < K.stop)
      <3>1. Known(p)' \/ Within(r, p)
        BY <1>1, <2>1, <2>2, <2>5, ToldKnown
      <3> QED BY <2>1, <2>3, <3>1 DEF Within
    <2> QED BY <1>1, <1>2, <2>1, <2>4, <2>5, OpenKnows
  <1> QED BY <1>3, <1>4, <1>5

-----------------------------------------------------------------------------
(* Every step of parse_inline keeps what is known *)

\* The functions that take nothing back.
LEMMA PlainKnows ==
    ASSUME Knowing, Ready, NEW r, Plainly(r, Top.i, Top.stop), Handle(r),
           Tells(r, Top.i, Top.stop), UNCHANGED <<data, beg>>
    PROVE  Knows'
  <1>1. Fits(r)
    BY OneFits
  <1>2. TrimTold(r)
    BY DEF Plainly, TrimTold
  <1> QED BY <1>1, <1>2, HandleKnows

LEMMA KnowsParse ==
    ASSUME Knowing
    PROVE  Parse
  BY DEF Knowing, ParseInv

LEMMA NoSpecialLetter ==
    ASSUME NEW c \in {"*", "_", "~", "=", "\n", "tick", "\\", "&", "<", "^", "$", "[", "!"}
    PROVE  c \notin Letters
  BY DEF Letters

LEMMA EmphasisKnows ==
    ASSUME Knowing, Emphasis, UNCHANGED <<data, beg>>
    PROVE  Knows'
  <1> DEFINE C == {"*", "_", "~", "="}
  <1>1. PICK r : At(C) /\ r = CharEmphasis(Top.i, Top.stop, Offset) /\ Handle(r)
    BY DEF Emphasis, Do
  <1>2. C \subseteq {"*", "_", "~", "=", "\n", "tick", "\\", "&", "<", "^", "$", "[", "!"}
    OBVIOUS
  <1>3. /\ Ready /\ Top.i \in Nat /\ Top.stop \in Nat /\ Top.i < Top.stop /\ text[Top.i] \in C
        /\ text[Top.i] \notin Letters
    <2> HIDE DEF C
    <2> QED BY <1>1, <1>2, AtReady, KnowsParse, NoSpecialLetter
  <1> HIDE DEF C
  <1>4. Plainly(CharEmphasis(Top.i, Top.stop, Offset), Top.i, Top.stop)
    BY <1>3, EmphasisOne
  <1>5. Tells(CharEmphasis(Top.i, Top.stop, Offset), Top.i, Top.stop)
    BY <1>3, EmphasisTells
  <1> QED BY <1>1, <1>3, <1>4, <1>5, PlainKnows

LEMMA CodespanKnows ==
    ASSUME Knowing, Codespan, UNCHANGED <<data, beg>>
    PROVE  Knows'
  <1> DEFINE C == {"tick"}
  <1>1. PICK r : At(C) /\ r = CharCodespan(Top.i, Top.stop) /\ Handle(r)
    BY DEF Codespan, Do
  <1>2. C \subseteq {"*", "_", "~", "=", "\n", "tick", "\\", "&", "<", "^", "$", "[", "!"}
    OBVIOUS
  <1>3. /\ Ready /\ Top.i \in Nat /\ Top.stop \in Nat /\ Top.i < Top.stop /\ text[Top.i] \in C
        /\ text[Top.i] \notin Letters
    <2> HIDE DEF C
    <2> QED BY <1>1, <1>2, AtReady, KnowsParse, NoSpecialLetter
  <1>31. text[Top.i] = "tick"
    BY <1>3
  <1> HIDE DEF C
  <1>4. Plainly(CharCodespan(Top.i, Top.stop), Top.i, Top.stop)
    BY <1>3, <1>31, CodespanOne
  <1>5. Tells(CharCodespan(Top.i, Top.stop), Top.i, Top.stop)
    BY <1>3, <1>31, CodespanTells
  <1> QED BY <1>1, <1>3, <1>4, <1>5, PlainKnows

LEMMA EscapeKnows ==
    ASSUME Knowing, Escape, UNCHANGED <<data, beg>>
    PROVE  Knows'
  <1> DEFINE C == {"\\"}
  <1>1. PICK r : At(C) /\ r = CharEscape(Top.i, Top.stop) /\ Handle(r)
    BY DEF Escape, Do
  <1>2. C \subseteq {"*", "_", "~", "=", "\n", "tick", "\\", "&", "<", "^", "$", "[", "!"}
    OBVIOUS
  <1>3. /\ Ready /\ Top.i \in Nat /\ Top.stop \in Nat /\ Top.i < Top.stop /\ text[Top.i] \in C
        /\ text[Top.i] \notin Letters
    <2> HIDE DEF C
    <2> QED BY <1>1, <1>2, AtReady, KnowsParse, NoSpecialLetter
  <1> HIDE DEF C
  <1>4. Plainly(CharEscape(Top.i, Top.stop), Top.i, Top.stop)
    BY <1>3, EscapeOne
  <1>5. Tells(CharEscape(Top.i, Top.stop), Top.i, Top.stop)
    BY <1>3, EscapeTells
  <1> QED BY <1>1, <1>3, <1>4, <1>5, PlainKnows

LEMMA EntityKnows ==
    ASSUME Knowing, Entity, UNCHANGED <<data, beg>>
    PROVE  Knows'
  <1> DEFINE C == {"&"}
  <1>1. PICK r : At(C) /\ r = CharEntity(Top.i, Top.stop) /\ Handle(r)
    BY DEF Entity, Do
  <1>2. C \subseteq {"*", "_", "~", "=", "\n", "tick", "\\", "&", "<", "^", "$", "[", "!"}
    OBVIOUS
  <1>3. /\ Ready /\ Top.i \in Nat /\ Top.stop \in Nat /\ Top.i < Top.stop /\ text[Top.i] \in C
        /\ text[Top.i] \notin Letters
    <2> HIDE DEF C
    <2> QED BY <1>1, <1>2, AtReady, KnowsParse, NoSpecialLetter
  <1> HIDE DEF C
  <1>4. Plainly(CharEntity(Top.i, Top.stop), Top.i, Top.stop)
    BY <1>3, EntityOne
  <1>5. Tells(CharEntity(Top.i, Top.stop), Top.i, Top.stop)
    BY <1>3, EntityTells
  <1> QED BY <1>1, <1>3, <1>4, <1>5, PlainKnows

LEMMA LangleKnows ==
    ASSUME Knowing, Langle, UNCHANGED <<data, beg>>
    PROVE  Knows'
  <1> DEFINE C == {"<"}
  <1>1. PICK r : At(C) /\ r = CharLangleTag(Top.i, Top.stop) /\ Handle(r)
    BY DEF Langle, Do
  <1>2. C \subseteq {"*", "_", "~", "=", "\n", "tick", "\\", "&", "<", "^", "$", "[", "!"}
    OBVIOUS
  <1>3. /\ Ready /\ Top.i \in Nat /\ Top.stop \in Nat /\ Top.i < Top.stop /\ text[Top.i] \in C
        /\ text[Top.i] \notin Letters
    <2> HIDE DEF C
    <2> QED BY <1>1, <1>2, AtReady, KnowsParse, NoSpecialLetter
  <1> HIDE DEF C
  <1>4. Plainly(CharLangleTag(Top.i, Top.stop), Top.i, Top.stop)
    BY <1>3, LangleOne
  <1>5. Tells(CharLangleTag(Top.i, Top.stop), Top.i, Top.stop)
    BY <1>3, LangleTells
  <1> QED BY <1>1, <1>3, <1>4, <1>5, PlainKnows

LEMMA SuperscriptKnows ==
    ASSUME Knowing, Superscript, UNCHANGED <<data, beg>>
    PROVE  Knows'
  <1> DEFINE C == {"^"}
  <1>1. PICK r : At(C) /\ r = CharSuperscript(Top.i, Top.stop) /\ Handle(r)
    BY DEF Superscript, Do
  <1>2. C \subseteq {"*", "_", "~", "=", "\n", "tick", "\\", "&", "<", "^", "$", "[", "!"}
    OBVIOUS
  <1>3. /\ Ready /\ Top.i \in Nat /\ Top.stop \in Nat /\ Top.i < Top.stop /\ text[Top.i] \in C
        /\ text[Top.i] \notin Letters
    <2> HIDE DEF C
    <2> QED BY <1>1, <1>2, AtReady, KnowsParse, NoSpecialLetter
  <1>31. text[Top.i] = "^" /\ "SUPER" \in ext /\ Top.i >= 1
    <2>1. text[Top.i] = "^" /\ text[Top.i] \in Special
      BY <1>1, <1>3 DEF At
    <2>2. "SUPER" \in ext
      BY <2>1 DEF Special
    <2>3. Top.consumed <= Top.i /\ 1 <= Top.consumed /\ Top.consumed \in Nat
      BY <1>3, TopIs DEF Ready
    <2> QED BY <1>3, <2>1, <2>2, <2>3
  <1> HIDE DEF C
  <1>4. Plainly(CharSuperscript(Top.i, Top.stop), Top.i, Top.stop)
    BY <1>3, SuperscriptOne
  <1>5. Tells(CharSuperscript(Top.i, Top.stop), Top.i, Top.stop)
    BY <1>3, <1>31, SuperscriptTells
  <1> QED BY <1>1, <1>3, <1>4, <1>5, PlainKnows

LEMMA FormulaKnows ==
    ASSUME Knowing, Formula, UNCHANGED <<data, beg>>
    PROVE  Knows'
  <1> DEFINE C == {"$"}
  <1>1. PICK r : At(C) /\ r = CharMath(Top.i, Top.stop) /\ Handle(r)
    BY DEF Formula, Do
  <1>2. C \subseteq {"*", "_", "~", "=", "\n", "tick", "\\", "&", "<", "^", "$", "[", "!"}
    OBVIOUS
  <1>3. /\ Ready /\ Top.i \in Nat /\ Top.stop \in Nat /\ Top.i < Top.stop /\ text[Top.i] \in C
        /\ text[Top.i] \notin Letters
    <2> HIDE DEF C
    <2> QED BY <1>1, <1>2, AtReady, KnowsParse, NoSpecialLetter
  <1>31. text[Top.i] = "$"
    BY <1>3
  <1> HIDE DEF C
  <1>4. Plainly(CharMath(Top.i, Top.stop), Top.i, Top.stop)
    BY <1>3, FormulaOne
  <1>5. Tells(CharMath(Top.i, Top.stop), Top.i, Top.stop)
    BY <1>3, <1>31, FormulaTells
  <1> QED BY <1>1, <1>3, <1>4, <1>5, PlainKnows

\* The blanks that a line break takes back are no letters.
LEMMA BlanksTold ==
    ASSUME Ready, LastChild # 0, nodes[LastChild].type = "NORMAL_TEXT",
           NEW q \in Int, nodes[LastChild].b - TrailingBlanks <= q, q < nodes[LastChild].b
    PROVE  text[q] \notin Letters
  <1> DEFINE last == LastChild
             a == nodes[last].a
             b == nodes[last].b
             blank == " "
             S == {t \in a..b : \A u \in t..b - 1 : text[u] = blank}
  <1>1. nodes[last] \in NodeTypes /\ a <= b
    BY LastChildIs DEF Ready, Parse, NodesTyped
  <1>2. TrailingBlanks = b - Min(S)
    BY DEF TrailingBlanks
  <1>3. a \in Int /\ b \in Int
    BY <1>1, NodeIs
  <1>4. blank \notin Letters
    BY NoLetters
  <1>5. nodes[last].b - TrailingBlanks <= q /\ q < b
    OBVIOUS
  <1> HIDE DEF blank, a, b, last
  <1>6. b \in S
    <2>1. b \in a..b /\ \A u \in b..b - 1 : FALSE
      BY <1>1, <1>3
    <2> QED BY <2>1
  <1>7. S \subseteq a..b /\ \A t \in S : \A u \in t..b - 1 : text[u] = blank
    OBVIOUS
  <1> HIDE DEF S
  <1>8. S \subseteq Int /\ \A x \in S : a <= x
    BY <1>3, <1>7
  <1>9. PICK m \in S : m = Min(S)
    BY <1>3, <1>6, <1>8, MinOf
  <1>10. m <= q
    <2>1. m \in Int /\ TrailingBlanks = b - m /\ b - TrailingBlanks <= q
      BY <1>2, <1>5, <1>8, <1>9 DEF b
    <2> QED BY <1>3, <2>1
  <1>11. q \in m..b - 1
    BY <1>3, <1>5, <1>8, <1>10
  <1> QED BY <1>4, <1>7, <1>9, <1>11

LEMMA LinebreakKnows ==
    ASSUME Knowing, Linebreak, UNCHANGED <<data, beg>>
    PROVE  Knows'
  <1> DEFINE C == {"\n"}
  <1>1. PICK r : At(C) /\ r = CharLinebreak(Top.i, Top.stop, Offset) /\ Handle(r)
    BY DEF Linebreak, Do
  <1>2. \A c \in C : c \notin Letters
    BY NoLetters
  <1>3. Ready /\ Top.i \in Nat /\ Top.stop \in Nat /\ text[Top.i] \notin Letters
    <2> HIDE DEF C
    <2> QED BY <1>1, <1>2, AtReady, KnowsParse
  <1> HIDE DEF C
  <1>4. Fits(r)
    BY <1>1, <1>3, LinebreakFits
  <1>5. Tells(r, Top.i, Top.stop)
    BY <1>1, <1>3, LinebreakTells
  <1>6. r.trim = 0 \/ r.trim = TrailingBlanks
    <2> DEFINE p == Top.i
               next == Past(text, p + 1, Top.stop, {" "})
               leaf == [Leaf("LINEBREAK", p, next, p, p) EXCEPT !.trim = TrailingBlanks]
    <2>1. CharLinebreak(p, Top.stop, Offset) = NoSpan \/ CharLinebreak(p, Top.stop, Offset) = leaf
      <3> HIDE DEF leaf
      <3> QED BY DEF CharLinebreak, leaf
    <2>2. NoSpan.trim = 0 /\ leaf.trim = TrailingBlanks
      BY DEF NoSpan, Leaf, Parsed
    <2> HIDE DEF leaf
    <2> QED BY <1>1, <2>1, <2>2
  <1>7. TrimTold(r)
    <2>1. r.trim # 0 => LastChild # 0 /\ nodes[LastChild].type = "NORMAL_TEXT"
      BY <1>4 DEF Fits, Trims
    <2> SUFFICES ASSUME r.trim # 0, NEW q \in Int,
                        nodes[LastChild].b - r.trim <= q, q < nodes[LastChild].b
                 PROVE  text[q] \notin Letters
      BY DEF TrimTold
    <2>2. r.trim = TrailingBlanks
      BY <1>6
    <2>3. nodes[LastChild].b - TrailingBlanks <= q
      BY <2>2
    <2> QED BY <1>3, <2>1, <2>3, BlanksTold
  <1> QED BY <1>1, <1>3, <1>4, <1>5, <1>7, HandleKnows

\* What an address takes back is part of it.
LEMMA AddressTold ==
    ASSUME Ready, NEW address, AddressAt(address, Top.i, Top.stop, Offset),
           NEW r, r = CharAutolink(Top.i, Top.stop, address)
    PROVE  TrimTold(r)
  <1> DEFINE p == Top.i
             last == LastChild
             before == IF last = 0 \/ nodes[last].type # "NORMAL_TEXT" THEN 0
                       ELSE nodes[last].b - nodes[last].a
             from == address.from
             end == address.end
             trim == Min({p - from, before})
             leaf == [Leaf("LINK_AUTO", from, end, from, end) EXCEPT !.trim = trim]
  <1>1. p \in Nat /\ Top.consumed \in Nat /\ Top.consumed <= p
    BY TopIs DEF Ready
  <1>2. r = NoSpan \/ (address # NoAddress /\ r = leaf)
    <2> HIDE DEF leaf
    <2> QED BY DEF CharAutolink, leaf
  <1>3. CASE r = NoSpan
    BY <1>3, NoSpanIs DEF TrimTold
  <1>4. CASE address # NoAddress /\ r = leaf
    <2>1. from \in Int /\ Top.consumed <= from /\ from <= p /\ end \in Int /\ p < end
      <3>1. /\ address.from \in Int /\ p - Offset <= address.from /\ address.from <= p
            /\ address.end \in Int /\ p < address.end
        BY <1>4 DEF AddressAt
      <3> QED BY <1>1, <3>1 DEF Offset
    <2> HIDE DEF from, end
    <2>2. before \in Int
      <3>1. last # 0 => nodes[last].a \in Int /\ nodes[last].b \in Int
        <4>1. last # 0 => nodes[last] \in NodeTypes
          BY LastChildIs DEF Ready, Parse
        <4> QED BY <4>1, NodeIs
      <3> HIDE DEF last
      <3> QED BY <3>1
    <2>3. before >= 0
      <3>1. last # 0 => last \in DOMAIN nodes /\ nodes[last] \in NodeTypes
        BY LastChildIs DEF Ready, Parse
      <3>2. last # 0 => nodes[last].a \in Int /\ nodes[last].b \in Int
        BY <3>1, NodeIs
      <3>3. last # 0 /\ nodes[last].type = "NORMAL_TEXT" => nodes[last].a <= nodes[last].b
        BY <3>1 DEF Ready, Parse, NodesTyped
      <3> HIDE DEF last
      <3> QED BY <3>2, <3>3
    <2> HIDE DEF before
    <2>4. trim \in Int /\ trim <= p - from
      <3>1. p - from \in Int
        BY <1>1, <2>1
      <3>2. trim \in {p - from, before} /\ trim <= p - from
        BY <2>2, <3>1, MinOf2
      <3> HIDE DEF trim
      <3> QED BY <2>2, <3>1, <3>2
    <2>5. from < p => TextBefore(last)
      BY <1>1, <2>1 DEF Ready, Parse, Copied
    <2>6. from < p => nodes[last].b = p
      BY <2>5 DEF TextBefore
    <2> DEFINE x == Node("LINK_AUTO", from, end, from, end)
    <2>7. leaf.nodes = <<x>> /\ leaf.trim = trim
      BY DEF Leaf, Parsed
    <2>8. x.type = "LINK_AUTO" /\ x.a = from /\ x.b = end
      BY DEF Node
    <2>81. from = p => trim \in {0, before} /\ (trim = before => before <= 0)
      <3>1. p - from \in Int
        BY <1>1, <2>1
      <3>2. trim \in {p - from, before}
        BY <2>2, <3>1, MinOf2
      <3> HIDE DEF trim
      <3> QED BY <1>1, <2>1, <2>2, <2>4, <3>2
    <2> HIDE DEF trim, leaf, x
    <2>9. r.trim = trim /\ r.nodes[1] = x /\ 1 \in DOMAIN r.nodes
      BY <1>4, <2>7
    <2> SUFFICES ASSUME trim # 0, NEW q \in Int,
                        nodes[last].b - trim <= q, q < nodes[last].b
                 PROVE  Shown(r, q)
      BY <2>9 DEF TrimTold
    <2>10. from < p
      <3>1. from # p
        BY <2>2, <2>3, <2>81
      <3> QED BY <1>1, <2>1, <3>1
    <2>11. from <= q /\ q < end
      BY <1>1, <2>1, <2>4, <2>6, <2>10
    <2>12. Has(x, q)
      BY <2>8, <2>11 DEF Has, SpanTypes
    <2> QED BY <2>9, <2>12 DEF Shown
  <1> QED BY <1>2, <1>3, <1>4

LEMMA AutolinkKnows ==
    ASSUME Knowing, Autolink, UNCHANGED <<data, beg>>
    PROVE  Knows'
  <1> DEFINE C == {":", "@", "w"}
             p == Top.i
             stop == Top.stop
  <1>1. /\ At(C)
        /\ Do(CharAutolink(p, stop,
                  CASE text[p] = "w" -> WwwAddress(text, p, stop, Offset)
                    [] text[p] = "@" -> EmailAddress(text, p, stop, Offset)
                    [] text[p] = ":" -> UrlAddress(text, p, stop, Offset)))
    BY DEF Autolink
  <1>3. Ready /\ p \in Nat /\ stop \in Nat /\ p < stop /\ text[p] \in C /\ Offset \in Nat
    BY <1>1, AtReady, KnowsParse
  <1>4. PICK address : /\ Do(CharAutolink(p, stop, address))
                       /\ address \in {WwwAddress(text, p, stop, Offset),
                                       EmailAddress(text, p, stop, Offset),
                                       UrlAddress(text, p, stop, Offset)}
    <2> HIDE DEF p, stop
    <2> QED BY <1>1, <1>3
  <1> HIDE DEF C
  <1>5. AddressAt(address, p, stop, Offset)
    <2>1. p \in Int /\ stop \in Int
      BY <1>3
    <2> QED BY <1>3, <1>4, <2>1, WwwAt, EmailAt, UrlAt
  <1>6. PICK r : r = CharAutolink(p, stop, address) /\ Handle(r)
    BY <1>4 DEF Do
  <1>7. Fits(r)
    BY <1>3, <1>5, <1>6, AutolinkFits
  <1>8. Tells(r, p, stop)
    BY <1>3, <1>5, <1>6, AutolinkTells
  <1>9. TrimTold(r)
    BY <1>3, <1>5, <1>6, AddressTold
  <1> QED BY <1>3, <1>6, <1>7, <1>8, <1>9, HandleKnows

LEMMA LinkTrims ==
    ASSUME NEW r, NEW p, NEW stop, NEW image, LinkGives(r, p, stop, image)
    PROVE  TrimTold(r)
  BY DEF LinkGives, TrimTold

\* Nothing is known to be shown when the parse was refused.
LEMMA RefusedKnows ==
    ASSUME Knowing, UNCHANGED <<text, nodes, frames>>, outcome' = "refused"
    PROVE  TextInv'
  <1>1. Wide'
    BY DEF Knowing, Knows, Wide
  <1> QED BY <1>1 DEF TextInv

LEMMA KnowsText ==
    ASSUME Knows', outcome' = "parsing"
    PROVE  TextInv'
  BY DEF Knows, TextInv

LEMMA LinkKnows ==
    ASSUME Knowing, Link, UNCHANGED <<data, beg>>
    PROVE  TextInv'
  <1> DEFINE C == {"["}
  <1>1. At(C) /\ LinkAt(Top.i, Offset)
    BY DEF Link
  <1>3. Ready /\ text[Top.i] = "[" /\ Top.i \in Nat /\ Top.stop \in Nat /\ Top.i < Top.stop
    BY <1>1, AtReady, KnowsParse
  <1> HIDE DEF C
  <1>31. Top.i >= 1
    <2>1. Top.consumed <= Top.i /\ 1 <= Top.consumed /\ Top.consumed \in Nat
      BY <1>3, TopIs DEF Ready
    <2> QED BY <1>3, <2>1
  <1>4. CASE UNCHANGED <<text, nodes, frames>> /\ outcome' = "refused"
    BY <1>4, RefusedKnows
  <1>5. ASSUME NEW r, r = CharLink(Top.i, Top.stop, Offset), Handle(r)
        PROVE  TextInv'
    <2>1. Fits(r)
      BY <1>3, <1>5, LinkFits
    <2>2. Tells(r, Top.i, Top.stop)
      BY <1>3, <1>31, <1>5, LinkTells
    <2>3. TrimTold(r)
      BY <1>3, <1>5, LinkReturns, LinkTrims
    <2>4. Knows'
      BY <1>3, <1>5, <2>1, <2>2, <2>3, HandleKnows
    <2>5. outcome' = "parsing"
      BY <1>3, <1>5 DEF Handle, Ready
    <2> QED BY <2>4, <2>5, KnowsText
  <1> QED BY <1>1, <1>4, <1>5 DEF LinkAt

LEMMA ImageKnows ==
    ASSUME Knowing, Image, UNCHANGED <<data, beg>>
    PROVE  TextInv'
  <1>1. /\ At({"!"})
        /\ IF Top.i + 1 < Top.stop /\ text[Top.i + 1] = "["
           THEN LinkAt(Top.i + 1, Offset + 1) ELSE Do(NoSpan)
    BY DEF Image
  <1>2. Ready /\ text[Top.i] = "!" /\ Top.i \in Nat /\ Top.stop \in Nat
    BY <1>1, AtReady, KnowsParse
  <1>3. CASE ~(Top.i + 1 < Top.stop /\ text[Top.i + 1] = "[")
    <2>1. PICK r : r = NoSpan /\ Handle(r)
      BY <1>1, <1>3 DEF Do
    <2>2. Plainly(r, Top.i, Top.stop)
      BY <1>2, <2>1, NoSpanIs DEF Plainly
    <2>3. Tells(r, Top.i, Top.stop)
      BY <1>2, <2>1, NoSpanTells
    <2>4. Knows'
      BY <1>2, <2>1, <2>2, <2>3, PlainKnows
    <2>5. outcome' = "parsing"
      BY <1>2, <2>1 DEF Handle, Ready
    <2> QED BY <2>4, <2>5, KnowsText
  <1>4. CASE Top.i + 1 < Top.stop /\ text[Top.i + 1] = "["
    <2>1. LinkAt(Top.i + 1, Offset + 1)
      BY <1>1, <1>4
    <2>2. CASE UNCHANGED <<text, nodes, frames>> /\ outcome' = "refused"
      BY <2>2, RefusedKnows
    <2>3. ASSUME NEW r, r = CharLink(Top.i + 1, Top.stop, Offset + 1), Handle(r)
          PROVE  TextInv'
      <3>1. Fits(r)
        BY <1>2, <1>4, <2>3, ImageFits
      <3>2. PICK p \in Nat : p = Top.i + 1 /\ p >= 1
        BY <1>2
      <3>3. p < Top.stop /\ text[p] = "[" /\ r = CharLink(p, Top.stop, Offset + 1)
        BY <1>4, <2>3, <3>2
      <3>4. TrimTold(r)
        BY <1>2, <3>3, LinkReturns, LinkTrims
      <3>5. Tells(r, p, Top.stop)
        BY <1>2, <3>2, <3>3, LinkTells
      <3>6. Tells(r, Top.i, Top.stop)
        <4>1. text[Top.i] \notin Letters
          BY <1>2, NoSpecialLetter
        <4>2. ASSUME NEW q \in Int, Top.i <= q, q < r.next, q < Top.stop
              PROVE  Told(r, q, Top.stop)
          <5>1. CASE q = Top.i
            BY <4>1, <5>1 DEF Told
          <5>2. CASE q # Top.i
            <6>1. p <= q
              <7> HIDE DEF Top
              <7> QED BY <1>2, <3>2, <4>2, <5>2
            <6> QED BY <3>5, <4>2, <6>1 DEF Tells
          <5> QED BY <5>1, <5>2
        <4> QED BY <3>5, <4>2 DEF Tells
      <3>7. Knows'
        BY <1>2, <2>3, <3>1, <3>4, <3>6, HandleKnows
      <3>8. outcome' = "parsing"
        BY <1>2, <2>3 DEF Handle, Ready
      <3> QED BY <3>7, <3>8, KnowsText
    <2> QED BY <2>1, <2>2, <2>3 DEF LinkAt
  <1> QED BY <1>3, <1>4

\* The nodes there were stay as they are.
LEMMA AllStay ==
    ASSUME Parse, UNCHANGED <<text, ext, defs>>, nodes' \in Seq(NodeTypes),
           Len(nodes) <= Len(nodes'), \A n \in 1..Len(nodes) : nodes'[n] = nodes[n]
    PROVE  Stays
  <1>1. Len(nodes) \in Nat /\ Len(nodes') \in Nat
    BY DEF Parse
  <1>2. ASSUME NEW n \in 1..Len(nodes), NEW p \in Int, Has(nodes[n], p)
        PROVE  \E m \in 1..Len(nodes') : Has(nodes'[m], p)
    <2>1. n \in 1..Len(nodes') /\ nodes'[n] = nodes[n]
      BY <1>1
    <2> QED BY <1>2, <2>1
  <1> QED BY <1>2 DEF Stays

LEMMA CopyTextKnows ==
    ASSUME Knowing, CopyText, UNCHANGED <<data, beg>>
    PROVE  Knows'
  <1>1. /\ Parse /\ outcome = "parsing" /\ TextEnd > Top.i
        /\ UNCHANGED <<text, ext, defs>> /\ UNCHANGED <<data, beg, outcome>>
    BY KnowsParse DEF CopyText, TextEnd
  <1>2. PICK n \in Nat : Copies(n)
    BY <1>1, CopyTextIs
  <1>3. PICK g \in Calls : Replaces(g) /\ g.i = TextEnd
    BY <1>1, CopyTextReplaces
  <1>4. /\ nodes' \in Seq(NodeTypes) /\ Len(nodes) \in Nat /\ Len(nodes') = Len(nodes) + 1
        /\ n = Len(nodes) + 1 /\ DOMAIN nodes = 1..Len(nodes) /\ DOMAIN nodes' = 1..Len(nodes')
        /\ \A m \in 1..Len(nodes) : nodes'[m] = nodes[m]
        /\ nodes'[n].type = "NORMAL_TEXT" /\ nodes'[n].a = Top.i /\ nodes'[n].b = TextEnd
    BY <1>1, <1>2 DEF Copies, Parse
  <1>5. Len(nodes) <= Len(nodes') /\ n \in DOMAIN nodes'
    BY <1>4
  <1>6. Stays
    BY <1>1, <1>4, <1>5, AllStay
  <1>7. Wide'
    <2> SUFFICES ASSUME NEW m \in DOMAIN nodes', nodes'[m].type \in SpanTypes
                 PROVE  nodes'[m].from <= nodes'[m].a /\ nodes'[m].b <= nodes'[m].to
      BY DEF Wide
    <2>1. m # n
      BY <1>4 DEF SpanTypes
    <2>2. m \in 1..Len(nodes)
      BY <1>4, <2>1
    <2>3. nodes'[m] = nodes[m] /\ m \in DOMAIN nodes
      BY <1>4, <2>2
    <2> QED BY <2>3 DEF Knowing, Knows, Wide
  <1>8. ASSUME NEW p \in Int, Top.i <= p, p < TextEnd
        PROVE  Known(p)'
    <2>1. Has(nodes[n], p)'
      BY <1>4, <1>8 DEF Has, SpanTypes
    <2> QED BY <1>5, <2>1 DEF Known
  <1> QED BY <1>1, <1>3, <1>6, <1>7, <1>8, ReplaceKnows

LEMMA ReturnStays ==
    ASSUME Knowing, Return
    PROVE  Stays
  <1>1. Parse /\ UNCHANGED <<text, ext, defs>> /\ nodes' = nodes
    BY KnowsParse DEF Return
  <1>2. nodes' \in Seq(NodeTypes) /\ Len(nodes) <= Len(nodes')
    BY <1>1 DEF Parse
  <1> QED BY <1>1, <1>2, AllStay

\* At the end of the first call all of the text is known.
LEMMA LastKnows ==
    ASSUME Knowing, Return, Len(frames) = 1, UNCHANGED <<data, beg>>
    PROVE  TextInv'
  <1>1. /\ Parse /\ outcome = "parsing" /\ outcome' = "done" /\ frames' = frames
        /\ nodes' = nodes /\ text' = text /\ data' = data /\ beg' = beg
        /\ Top.i >= Top.stop
    BY KnowsParse DEF Return
  <1>2. Stays /\ FirstStays
    BY <1>1, ReturnStays DEF FirstStays
  <1>3. /\ Top = frames[1] /\ 1 \in DOMAIN frames /\ Top.i \in Nat /\ Top.stop \in Nat
        /\ frames # <<>>
    BY <1>1, TopIs DEF Parse
  <1>4. IsSequence(text)
    BY DEF Knowing, ParseInv, Paragraphs
  <1>5. Wide' /\ OpenSpans'
    BY <1>1 DEF Knowing, Knows, Wide, OpenSpans
  <1>6. ASSUME NEW p \in DOMAIN text, Finished(p)
        PROVE  Known(p)
    <2>1. p \in Int
      BY <1>4 DEF IsSequence
    <2>2. CASE Before(p)
      BY <1>1, <2>2 DEF Knowing, Knows, Around
    <2>3. CASE ~ Before(p)
      <3>1. ~(p < BeginOf(frames[1])) /\ p < frames[1].stop
        BY <1>3, <1>6, <2>1, <2>3 DEF Before, Finished
      <3>2. BeginOf(frames[1]) \in Int
        <4>1. PICK f \in Calls : f = frames[1] /\ CallTyped(f)
          BY <1>1, <1>3, TopIs
        <4>2. f.node # 0 => f.node \in 1..Len(nodes)
          <5>1. f.node \in Nat /\ f.node <= Len(nodes) /\ Len(nodes) \in Nat
            BY <1>1, <4>1, CallIs DEF CallTyped, Parse
          <5> QED BY <5>1
        <4>3. f.node # 0 => nodes[f.node] \in NodeTypes
          BY <1>1, <4>2, UpIs
        <4> QED BY <4>1, <4>3, NodeIs DEF BeginOf
      <3>3. Inside(frames[1], p)
        BY <2>1, <3>1, <3>2 DEF Inside
      <3>4. Reach(1) = Top.i /\ Covered(1)
        BY <1>3 DEF Reach, Knowing, Knows
      <3>5. p < Reach(1)
        <4> HIDE DEF Top
        <4> QED BY <1>1, <1>3, <2>1, <3>1, <3>4
      <3> QED BY <3>3, <3>4, <3>5 DEF Covered
    <2> QED BY <2>2, <2>3
  <1>7. \A p : Finished(p)' <=> Finished(p)
    BY <1>1 DEF Finished
  <1>8. Around'
    <2> SUFFICES ASSUME NEW p \in DOMAIN text, Finished(p)
                 PROVE  Known(p)'
      BY <1>1, <1>7 DEF Around
    <2>1. p \in Int
      BY <1>4 DEF IsSequence
    <2> QED BY <1>1, <1>2, <1>6, <2>1, KnownStays
  <1> QED BY <1>1, <1>5, <1>8 DEF TextInv

\* At the end of a span's call its caller knows all of what it was made of.
LEMMA BackKnows ==
    ASSUME Knowing, Return, Len(frames) # 1, UNCHANGED <<data, beg>>
    PROVE  TextInv'
  <1>1. PICK L \in Nat, g \in Calls :
              /\ L = Len(frames) - 1 /\ L > 0 /\ L \in DOMAIN frames
              /\ frames' \in Seq(Calls) /\ Len(frames') = L /\ frames'[L] = g /\ Top' = g
              /\ \A k \in 1..L : k # L => frames'[k] = frames[k]
              /\ g.i = Top.next /\ g.end = Top.next /\ g.consumed = Top.next
              /\ g.node = frames[L].node /\ g.stop = frames[L].stop /\ g.next = frames[L].next
    BY KnowsParse, ReturnIs
  <1>2. /\ Parse /\ outcome = "parsing" /\ outcome' = "parsing" /\ nodes' = nodes /\ text' = text
        /\ UNCHANGED <<data, beg, outcome>> /\ Top.i >= Top.stop
    BY KnowsParse DEF Return
  <1>3. /\ Len(frames) = L + 1 /\ DOMAIN frames = 1..L + 1 /\ Top = frames[L + 1]
        /\ DOMAIN frames' = 1..L /\ 1 \in 1..L /\ L + 1 \in 1..L + 1 /\ L \in 1..L
        /\ Top.i \in Nat /\ Top.stop \in Nat
    BY <1>1, <1>2, TopIs DEF Parse
  <1>4. \A k \in 1..L : Same(k)
    <2> SUFFICES ASSUME NEW k \in 1..L
                 PROVE  Same(k)
      OBVIOUS
    <2>1. CASE k = L
      BY <1>1, <2>1 DEF Same
    <2>2. CASE k # L
      BY <1>1, <2>2 DEF Same
    <2> QED BY <2>1, <2>2
  <1>5. Stays
    BY ReturnStays
  <1>6. FirstStays
    BY <1>1, <1>3, <1>4 DEF FirstStays, Same
  <1>7. Around'
    BY <1>2, <1>3, <1>4, <1>5, <1>6, AroundStays
  <1>8. Wide'
    BY <1>2 DEF Knowing, Knows, Wide
  <1>9. OpenSpans'
    <2>1. \A k \in 1..L : k \in 1..Len(frames)
      BY <1>3
    <2> QED BY <1>3, <1>4, <1>5, <2>1, SameInside DEF OpenSpans
  <1>10. ASSUME NEW k \in 1..L
         PROVE  Covered(k)'
    <2>1. k \in 1..Len(frames)
      BY <1>3
    <2>2. CASE k = L
      <3>1. /\ Reach(k)' = Top.next /\ Reach(k) = Top.next /\ Covered(k)
            /\ Reach(L + 1) = Top.i /\ Covered(L + 1)
        <4>1. L + 1 # L /\ g.i = Top.next
          BY <1>1, <1>3
        <4> HIDE DEF Top
        <4>2. Reach(k)' = g.i
          BY <1>1, <2>2 DEF Reach
        <4>3. Reach(k) = Top.next /\ Reach(L + 1) = Top.i
          BY <1>3, <2>2, <4>1 DEF Reach
        <4> QED BY <1>3, <2>2, <4>1, <4>2, <4>3 DEF Knowing, Knows
      <3> HIDE DEF Top
      <3> SUFFICES ASSUME NEW p \in DOMAIN text, Inside(frames[k], p)', p < Top.next
                   PROVE  Known(p)'
        BY <1>1, <1>2, <2>2, <3>1 DEF Covered
      <3>2. Inside(frames[k], p) /\ p \in Int
        <4>1. Inside(frames[k], p)' <=> Inside(frames[k], p)
          BY ONLY Knowing, <1>4, <1>5, <2>1, SameInside, k \in 1..L
        <4>2. p \in Int
          BY ONLY Knowing, p \in DOMAIN text DEF Knowing, ParseInv, Paragraphs, IsSequence
        <4> QED BY <4>1, <4>2
      <3>3. Known(p) \/ Inside(frames[L + 1], p)
        BY <2>2, <3>1, <3>2 DEF Covered
      <3>4. Inside(frames[L + 1], p) => Known(p)
        <4> SUFFICES ASSUME Inside(frames[L + 1], p)
                     PROVE  Known(p)
          OBVIOUS
        <4>1. p < Top.i
          BY <1>2, <1>3, <3>2 DEF Inside
        <4>2. ~(L + 1 < Len(frames))
          BY <1>3
        <4> QED BY <3>1, <4>1, <4>2 DEF Covered
      <3> QED BY <1>2, <1>5, <1>6, <3>2, <3>3, <3>4, KnownStays
    <2>3. CASE k # L
      <3>1. k < Len(frames) /\ k < Len(frames') /\ k + 1 \in 1..L
        BY <1>1, <1>3, <2>3
      <3> QED BY <1>1, <1>4, <1>5, <1>6, <2>1, <3>1, OuterCovered
    <2> QED BY <2>2, <2>3
  <1>11. Knows'
    BY <1>3, <1>7, <1>8, <1>9, <1>10 DEF Knows
  <1> QED BY <1>2, <1>11, KnowsText

LEMMA ParseInlineKnows ==
    ASSUME Knowing, ParseInline, UNCHANGED <<data, beg>>
    PROVE  TextInv'
  <1>1. outcome = "parsing"
    BY DEF Knowing
  <1>2. Emphasis \/ Linebreak \/ Codespan \/ Escape \/ Entity \/ Langle \/ Superscript \/ Formula
        \/ Autolink \/ CopyText => outcome' = "parsing"
    BY <1>1 DEF CopyText, Emphasis, Linebreak, Codespan, Escape, Entity, Langle, Superscript,
                Formula, Autolink, Do, Handle
  <1>3. CASE Return
    BY <1>3, LastKnows, BackKnows
  <1>4. CASE Emphasis \/ Linebreak \/ Codespan \/ Escape \/ Entity \/ Langle \/ Superscript
             \/ Formula \/ Autolink \/ CopyText
    BY <1>2, <1>4, CopyTextKnows, EmphasisKnows, LinebreakKnows, CodespanKnows, EscapeKnows,
       EntityKnows, LangleKnows, SuperscriptKnows, FormulaKnows, AutolinkKnows, KnowsText
  <1> QED BY <1>3, <1>4, LinkKnows, ImageKnows DEF ParseInline

-----------------------------------------------------------------------------
(* Between paragraphs *)

\* What an empty line is made of.
LEMMA EmptyLine ==
    ASSUME IsSequence(text), NEW p \in Int, p < BlockStop, EmptyAt(p),
           NEW q \in Int, p <= q, q < BehindLine(p)
    PROVE  text[q] \notin Letters
  <1> DEFINE blanks == {" "}
             newline == {"\n"}
  <1>1. PICK stop \in Int : stop = BlockStop
    <2>1. PICK S : text \in Seq(S)
      BY DEF IsSequence
    <2>2. Len(text) \in Nat
      BY <2>1
    <2> QED BY <2>2 DEF BlockStop
  <1>2. (\A c \in blanks : c \notin Letters) /\ \A c \in newline : c \notin Letters
    BY NoLetters
  <1>3. PICK u : u = Until(text, p, stop, newline)
    OBVIOUS
  <1>4. Past(text, p, stop, blanks) = u
    BY <1>1, <1>3 DEF EmptyAt
  <1>5. BehindLine(p) = Min({u + 1, stop})
    BY <1>1, <1>3 DEF BehindLine
  <1> HIDE DEF blanks, newline
  <1>6. u \in Int /\ p <= u /\ (u < stop => text[u] \in newline)
    BY <1>3, UntilFinds
  <1>7. \A t \in Int : p <= t /\ t < u => text[t] \notin Letters
    BY <1>1, <1>2, <1>4, PastPasses
  <1>8. BehindLine(p) <= u + 1 /\ BehindLine(p) <= stop /\ BehindLine(p) \in Int
    <2>1. u + 1 \in Int
      BY <1>6
    <2>2. Min({u + 1, stop}) \in {u + 1, stop} /\ Min({u + 1, stop}) <= u + 1
          /\ Min({u + 1, stop}) <= stop
      BY <2>1, MinOf2
    <2> QED BY <1>1, <1>5, <2>1, <2>2
  <1>9. CASE q < u
    BY <1>7, <1>9
  <1>10. CASE ~(q < u)
    <2>1. q = u /\ u < stop
      BY <1>6, <1>8, <1>10
    <2> QED BY <1>2, <1>6, <2>1
  <1> QED BY <1>9, <1>10

\* The block ends at an empty line, or with the text.
LEMMA BlockNextIs ==
    ASSUME IsSequence(text), beg \in Nat \ {0}, beg < BlockStop
    PROVE  /\ BlockNext = BlockStop \/ (EmptyAt(BlockNext) /\ BlockNext < BlockStop)
           /\ EmptyAt(beg) => BlockNext = beg
  <1> DEFINE S == {p \in BlockLines : EmptyAt(p)} \cup {BlockStop}
  <1>1. PICK stop \in Int : stop = BlockStop
    BY BlockIs
  <1>2. PICK b \in Int : b = beg /\ b < stop
    BY <1>1
  <1>3. BlockLines \subseteq b..stop - 1 /\ b \in BlockLines
    <2>1. b \in b..stop - 1
      BY <1>2
    <2> QED BY <1>1, <1>2, <2>1 DEF BlockLines
  <1>4. BlockNext = Min(S)
    BY DEF BlockNext
  <1>5. stop \in S /\ \A x \in S : x = stop \/ (x \in BlockLines /\ EmptyAt(x))
    BY <1>1
  <1>6. EmptyAt(b) => b \in S
    BY <1>3
  <1> HIDE DEF S
  <1>7. S \subseteq Int /\ \A x \in S : b <= x
    BY <1>2, <1>3, <1>5
  <1>8. PICK m \in S : m = Min(S) /\ \A x \in S : m <= x
    BY ONLY b \in Int, <1>5, <1>7, MinOf
  <1>9. m = stop \/ (EmptyAt(m) /\ m < stop)
    <2>1. m \in BlockLines => m < stop
      BY <1>1, <1>2, <1>3
    <2> QED BY <1>5, <1>8, <2>1
  <1>10. EmptyAt(b) => m = b
    <2>1. m \in Int /\ b <= m
      BY <1>7, <1>8
    <2>2. EmptyAt(b) => m <= b
      BY <1>6, <1>8
    <2> QED BY <1>2, <2>1, <2>2
  <1> QED BY <1>1, <1>2, <1>4, <1>8, <1>9, <1>10

\* No letter stands between a paragraph and the next block.
LEMMA BetweenBlocks ==
    ASSUME IsSequence(text), beg \in Nat \ {0}, beg < BlockStop,
           NEW q \in Int, BlockEnd <= q, q < BehindLine(BlockNext)
    PROVE  text[q] \notin Letters
  <1> DEFINE newline == "\n"
             S == {p \in beg..BlockNext : p = beg \/ text[p - 1] # newline}
  <1>1. PICK n \in Int : n = BlockNext /\ BlockEnd \in Int /\ beg <= BlockEnd /\ BlockEnd <= n
                         /\ BehindLine(n) \in Int /\ BlockStop \in Int
    BY BlockIs
  <1>2. newline \notin Letters
    BY NoLetters
  <1>3. BlockEnd = Max(S)
    BY DEF BlockEnd
  <1>4. \A p \in beg..n : p # beg /\ text[p - 1] # newline => p \in S
    BY <1>1
  <1>5. S \subseteq Int /\ (\A x \in S : x <= n) /\ beg \in S
    BY <1>1
  <1> HIDE DEF S, newline
  <1>6. \A x \in S : x <= BlockEnd
    BY ONLY n \in Int, <1>3, <1>5, MaxOf
  <1>7. CASE q < n
    <2>1. PICK p \in Int : p = q + 1
      OBVIOUS
    <2>2. p \in beg..n /\ p # beg /\ p - 1 = q /\ ~(p <= BlockEnd)
      BY <1>1, <1>7, <2>1
    <2>3. text[q] = newline
      BY <1>4, <1>6, <2>2
    <2> QED BY <1>2, <2>3
  <1>8. CASE ~(q < n)
    <2>1. CASE EmptyAt(n) /\ n < BlockStop
      <3>1. n <= q /\ q < BehindLine(n)
        BY <1>1, <1>8
      <3> QED BY <2>1, <3>1, EmptyLine
    <2>2. CASE n = BlockStop
      <3>1. BehindLine(n) <= n
        <4>1. PICK u \in Int : u = Until(text, n, BlockStop, {"\n"})
          <5>1. PICK C : C = {"\n"}
            OBVIOUS
          <5>2. Until(text, n, BlockStop, C) \in Int
            BY <1>1, UntilFinds
          <5> QED BY <5>1, <5>2
        <4>2. u + 1 \in Int
          BY <4>1
        <4>3. Min({u + 1, n}) <= n
          BY <4>2, MinOf2
        <4> QED BY <2>2, <4>1, <4>3 DEF BehindLine
      <3> QED BY <1>1, <1>8, <3>1
    <2> QED BY <1>1, <2>1, <2>2, BlockNextIs
  <1> QED BY <1>7, <1>8

\* A paragraph begins where all before it is known.
LEMMA NextBlockKnows ==
    ASSUME ParseInv, TextInv, NextBlock
    PROVE  TextInv'
  <1>1. /\ Parse /\ IsSequence(text) /\ outcome = "done" /\ data # <<>> /\ beg < BlockStop
        /\ beg \in Nat \ {0} /\ UNCHANGED <<text, ext, defs>> /\ text' = text /\ data' = data
        /\ beg' = BehindLine(BlockNext) /\ (frames # <<>> => frames[1].node # 0)
        /\ \A p \in DOMAIN text : p \in Int
    BY NextBlockIs DEF ParseInv, Paragraphs, IsSequence
  <1>2. Wide /\ OpenSpans /\ Around /\ (frames # <<>> => Len(frames) = 1)
    BY <1>1 DEF TextInv
  <1>3. \A p \in DOMAIN text : p < beg \/ (frames # <<>> /\ p < frames[1].stop) => Known(p)
    BY <1>1, <1>2 DEF Around, Finished
  <1>4. FirstStays
    BY <1>1 DEF FirstStays
  <1>5. CASE EmptyAt(beg) /\ UNCHANGED <<nodes, frames, outcome>>
    <2>1. nodes' = nodes /\ frames' = frames /\ outcome' = "done"
      BY <1>1, <1>5
    <2>2. Stays
      <3>1. nodes' \in Seq(NodeTypes) /\ Len(nodes) <= Len(nodes')
        BY <1>1, <2>1 DEF Parse
      <3> QED BY <1>1, <2>1, <3>1, AllStay
    <2>3. Wide' /\ OpenSpans'
      BY <1>2, <2>1 DEF Wide, OpenSpans
    <2>4. beg' = BehindLine(beg)
      BY <1>1, <1>5, BlockNextIs
    <2>5. ASSUME NEW p \in DOMAIN text, Finished(p)'
          PROVE  Known(p)'
      <3>1. p < beg' \/ (frames # <<>> /\ p < frames[1].stop)
        BY <2>1, <2>5 DEF Finished
      <3>2. CASE p < beg \/ (frames # <<>> /\ p < frames[1].stop)
        BY <1>1, <1>3, <1>4, <2>2, <3>2, KnownStays
      <3>3. CASE ~(p < beg) /\ p < BehindLine(beg)
        <4>1. p \in Int /\ beg \in Int /\ beg <= p
          BY <1>1, <3>3
        <4>2. text[p] \notin Letters
          BY <1>1, <1>5, <3>3, <4>1, EmptyLine
        <4> QED BY <1>1, <4>2 DEF Known
      <3> QED BY <2>4, <3>1, <3>2, <3>3
    <2>6. Around'
      BY <1>1, <2>1, <2>5 DEF Around
    <2> QED BY <1>2, <2>1, <2>3, <2>6 DEF TextInv
  <1>6. CASE /\ nodes' = Append(nodes, Node("PARAGRAPH", beg, BlockEnd, beg, BlockEnd))
             /\ frames' = <<Frame(Len(nodes'), beg, BlockEnd, 0)>>
             /\ outcome' = "parsing"
    <2>1. PICK a \in Nat, b \in Nat : a = beg /\ b = BlockEnd /\ a <= b
      <3>1. beg \in Nat /\ BlockEnd \in Nat /\ beg <= BlockEnd
        BY <1>1, BlockIs
      <3> QED BY <3>1
    <2>2. PICK n \in Nat, g \in Calls : ParagraphOpens(a, b, n, g)
      BY <1>1, <1>6, <2>1, BlockOpens
    <2>3. /\ nodes' \in Seq(NodeTypes) /\ n = Len(nodes) + 1 /\ Len(nodes') = n
          /\ Len(nodes) \in Nat /\ DOMAIN nodes = 1..Len(nodes) /\ DOMAIN nodes' = 1..n
          /\ \A m \in 1..Len(nodes) : nodes'[m] = nodes[m]
          /\ nodes'[n].type = "PARAGRAPH" /\ nodes'[n].from = a /\ nodes'[n].to = b
          /\ nodes'[n].a = a /\ nodes'[n].b = b
      BY <1>1, <2>2 DEF ParagraphOpens, Parse
    <2>4. frames' = <<g>> /\ g.node = n /\ g.node # 0 /\ g.stop = b /\ g.i = a
      BY <2>2, <2>3 DEF ParagraphOpens
    <2>5. frames'[1] = g /\ DOMAIN frames' = {1} /\ Len(frames') = 1
      BY <2>4
    <2>6. Stays
      <3>1. Len(nodes) <= Len(nodes')
        BY <2>3
      <3> QED BY <1>1, <2>3, <3>1, AllStay
    <2>7. Wide'
      <3> SUFFICES ASSUME NEW m \in 1..n, nodes'[m].type \in SpanTypes
                   PROVE  nodes'[m].from <= nodes'[m].a /\ nodes'[m].b <= nodes'[m].to
        BY <2>3 DEF Wide
      <3>1. CASE m = n
        BY <2>3, <3>1
      <3>2. CASE m # n
        <4>1. m \in 1..Len(nodes)
          BY <2>3, <3>2
        <4>2. nodes'[m] = nodes[m] /\ m \in DOMAIN nodes
          BY <2>3, <4>1
        <4> QED BY <1>2, <4>2 DEF Wide
      <3> QED BY <3>1, <3>2
    <2>8. OpenSpans'
      BY <2>3, <2>4, <2>5 DEF OpenSpans, SpanTypes
    <2>9. BeginOf(frames[1])' = a
      BY <2>3, <2>4, <2>5 DEF BeginOf
    <2>10. Covered(1)'
      <3>1. Reach(1)' = a
        BY <2>4, <2>5 DEF Reach
      <3>2. ASSUME NEW p \in DOMAIN text, Inside(frames[1], p)', p < a
            PROVE  FALSE
        <4>1. a <= p /\ p \in Int
          BY <1>1, <2>9, <3>2 DEF Inside
        <4> QED BY <3>2, <4>1
      <3> QED BY <1>1, <3>1, <3>2 DEF Covered
    <2>11. ASSUME NEW p \in DOMAIN text, Before(p)'
           PROVE  Known(p)'
      <3>1. p \in Int /\ (p < a \/ (b <= p /\ p < beg'))
        BY <1>1, <2>4, <2>5, <2>9, <2>11 DEF Before
      <3>2. CASE p < a
        BY <1>1, <1>3, <1>4, <2>1, <2>6, <3>1, <3>2, KnownStays
      <3>3. CASE b <= p /\ p < beg'
        <4>1. BlockEnd <= p /\ p < BehindLine(BlockNext)
          BY <1>1, <2>1, <3>3
        <4>2. text[p] \notin Letters
          BY <1>1, <3>1, <4>1, BetweenBlocks
        <4> QED BY <1>1, <4>2 DEF Known
      <3> QED BY <3>1, <3>2, <3>3
    <2>12. Around'
      BY <1>1, <1>6, <2>11 DEF Around
    <2> QED BY <1>6, <2>5, <2>7, <2>8, <2>10, <2>12 DEF TextInv
  <1> QED BY <1>5, <1>6, NextBlockIs

-----------------------------------------------------------------------------
(* The other steps *)

LEMMA NothingKnows ==
    ASSUME nodes' = <<>>, frames' = <<>>, outcome' # "parsing",
           outcome' = "done" => beg' = 1 /\ \A p \in DOMAIN text' : p \in Nat \ {0}
    PROVE  TextInv'
  <1>1. \A n : n \notin DOMAIN nodes' /\ n \notin DOMAIN frames'
    OBVIOUS
  <1>2. Wide' /\ OpenSpans'
    BY <1>1 DEF Wide, OpenSpans
  <1>3. ASSUME outcome' = "done", NEW p \in DOMAIN text'
        PROVE  ~ Finished(p)'
    <2>1. beg' = 1 /\ p \in Nat \ {0} /\ ~(p < 1)
      BY <1>3
    <2> QED BY <2>1 DEF Finished
  <1>4. outcome' = "done" => Around'
    BY <1>3 DEF Around
  <1> QED BY <1>2, <1>4 DEF TextInv

LEMMA SamePlaces ==
    ASSUME TextInv, UNCHANGED <<text, ext, defs, nodes, frames, outcome, data, beg>>
    PROVE  TextInv'
  <1>1. /\ text' = text /\ nodes' = nodes /\ frames' = frames /\ outcome' = outcome
        /\ data' = data /\ beg' = beg /\ UNCHANGED <<text, ext, defs>>
    OBVIOUS
  <1>2. \A f : BeginOf(f)' = BeginOf(f)
    BY <1>1 DEF BeginOf
  <1>3. ASSUME NEW p
        PROVE  Known(p)' <=> Known(p)
    <2>1. \A stop : Left(p, stop)' <=> Left(p, stop)
      BY <1>1, LeftStays
    <2>2. \A n : Has(nodes[n], p)' <=> Has(nodes[n], p)
      BY <1>1 DEF Has
    <2>3. \A n : In(n, p)' <=> In(n, p)
      BY <1>1 DEF In
    <2>4. \A n : Left(p, nodes[n].b)' <=> Left(p, nodes[n].b)
      <3> SUFFICES ASSUME NEW n
                   PROVE  Left(p, nodes[n].b)' <=> Left(p, nodes[n].b)
        OBVIOUS
      <3>1. PICK b : b = nodes[n].b
        OBVIOUS
      <3>2. Left(p, b)' <=> Left(p, b)
        BY <2>1
      <3> QED BY <1>1, <3>1, <3>2
    <2>5. Left(p, frames[1].stop)' <=> Left(p, frames[1].stop)
      <3>1. PICK b : b = frames[1].stop
        OBVIOUS
      <3>2. Left(p, b)' <=> Left(p, b)
        BY <2>1
      <3> QED BY <1>1, <3>1, <3>2
    <2> QED BY <1>1, <2>2, <2>3, <2>4, <2>5 DEF Known
  <1>4. \A k, p : Inside(frames[k], p)' <=> Inside(frames[k], p)
    <2> SUFFICES ASSUME NEW k, NEW p
                 PROVE  Inside(frames[k], p)' <=> Inside(frames[k], p)
      OBVIOUS
    <2>1. PICK f : f = frames[k]
      OBVIOUS
    <2>2. Inside(f, p)' <=> Inside(f, p)
      BY <1>2 DEF Inside
    <2>3. frames'[k] = f
      BY <1>1, <2>1
    <2> QED BY <2>1, <2>2, <2>3
  <1>5. \A k : Covered(k)' <=> Covered(k)
    <2>1. \A k : Reach(k)' = Reach(k)
      BY <1>1 DEF Reach
    <2> QED BY <1>1, <1>3, <1>4, <2>1 DEF Covered
  <1>6. BeginOf(frames[1])' = BeginOf(frames[1])
    <2>1. PICK f : f = frames[1] /\ frames'[1] = f
      BY <1>1
    <2> QED BY <1>2, <2>1
  <1>7. \A p : (Before(p)' <=> Before(p)) /\ (Finished(p)' <=> Finished(p))
    BY <1>1, <1>6 DEF Before, Finished
  <1>8. Around' <=> Around
    BY <1>1, <1>3, <1>7 DEF Around
  <1>9. (Wide' <=> Wide) /\ (OpenSpans' <=> OpenSpans)
    BY <1>1 DEF Wide, OpenSpans
  <1> QED BY <1>1, <1>5, <1>8, <1>9 DEF TextInv

LEMMA ReadingKnows ==
    ASSUME ParseInv, Call \/ Metadata \/ Define \/ CopyLine
    PROVE  TextInv'
  <1>1. Reading /\ UNCHANGED <<nodes, frames>>
    BY DEF Call, Metadata, Define, CopyLine, Line, Reading
  <1>2. nodes' = <<>> /\ frames' = <<>>
    BY <1>1 DEF ParseInv, Paragraphs
  <1>3. outcome' \notin {"parsing", "done"}
    <2>1. CASE Call
      BY <2>1 DEF Call, Begin
    <2>2. CASE Metadata
      BY <2>2 DEF Metadata, Begin
    <2>3. CASE Define \/ CopyLine
      BY <2>3 DEF Define, CopyLine, Line
    <2> QED BY <2>1, <2>2, <2>3
  <1> QED BY <1>2, <1>3, NothingKnows

LEMMA EndReadingKnows ==
    ASSUME ParseInv, EndReading
    PROVE  TextInv'
  <1>1. /\ nodes' = <<>> /\ frames' = <<>> /\ outcome' = "done" /\ beg' = 1
    BY DEF EndReading, ParseInv, Paragraphs, Reading
  <1>2. IsSequence(text')
    BY EndReadingKeeps DEF ParseInv, Paragraphs
  <1>3. \A p \in DOMAIN text' : p \in Nat \ {0}
    BY <1>2 DEF IsSequence
  <1> QED BY <1>1, <1>3, NothingKnows

LEMMA DocInitKnows ==
    ASSUME DocInit
    PROVE  TextInv
  <1>1. ParseInv
    BY DocInitKeeps
  <1>2. nodes = <<>> /\ \A n : n \notin DOMAIN nodes
    BY DEF DocInit, Init
  <1>3. Wide
    BY <1>2 DEF Wide
  <1>4. CASE outcome \notin {"parsing", "done"}
    BY <1>3, <1>4 DEF TextInv
  <1>5. CASE Init /\ data = <<>> /\ beg = 1
    <2>1. PICK stop : frames = <<Frame(0, 1, stop, 0)>> /\ outcome = "parsing"
      BY <1>5 DEF Init
    <2>2. frames[1].node = 0 /\ frames[1].i = 1 /\ DOMAIN frames = {1} /\ Len(frames) = 1
      BY <2>1 DEF Frame
    <2>3. OpenSpans
      BY <2>2 DEF OpenSpans
    <2>4. BeginOf(frames[1]) = 1 /\ Reach(1) = 1
      BY <2>2 DEF BeginOf, Reach
    <2>5. \A p \in DOMAIN text : p \in Nat \ {0} /\ ~(p < 1)
      <3>1. \A p \in DOMAIN text : p \in Nat \ {0}
        BY <1>1 DEF ParseInv, Paragraphs, IsSequence
      <3> QED BY <3>1
    <2>6. Covered(1)
      BY <2>4, <2>5 DEF Covered
    <2>7. Around
      BY <1>5, <2>1, <2>4, <2>5 DEF Around, Before
    <2> QED BY <1>3, <2>1, <2>2, <2>3, <2>6, <2>7 DEF TextInv
  <1> QED BY <1>4, <1>5 DEF DocInit

LEMMA NextKnows ==
    ASSUME ParseInv, TextInv, [Next]_docVars
    PROVE  TextInv'
  <1>1. CASE Over \/ UNCHANGED docVars
    <2>1. UNCHANGED <<text, ext, defs, nodes, frames, outcome, data, beg>>
      BY <1>1 DEF Over, docVars, vars
    <2> QED BY <2>1, SamePlaces
  <1>2. CASE ParseInline /\ UNCHANGED <<data, metas, beg, taken, source>>
    <2>1. outcome = "parsing"
      BY <1>2 DEF ParseInline, CopyText, Emphasis, Linebreak, Codespan, Escape, Entity, Langle,
                  Superscript, Formula, Autolink, Link, Image, Return, At
    <2>2. Knowing
      BY <2>1 DEF Knowing, Knows, TextInv
    <2> QED BY <1>2, <2>2, ParseInlineKnows
  <1> QED BY <1>1, <1>2, ReadingKnows, EndReadingKnows, NextBlockKnows DEF Next

-----------------------------------------------------------------------------
(* The text comes out once *)

LEMMA KnownShown ==
    ASSUME ParseInv, TextInv
    PROVE  LettersShown
  <1> SUFFICES ASSUME outcome = "done", NEW p \in DOMAIN text, frames # <<>>, p < Top.stop,
                      text[p] \in Letters, ~ Dropped(p)
               PROVE  \E n \in DOMAIN nodes : p \in Shows(n) \cup Hides(n)
    BY DEF LettersShown
  <1>1. Len(frames) = 1 /\ Around
    BY DEF TextInv
  <1>2. Top = frames[1]
    BY <1>1 DEF Top
  <1>3. p \in Int /\ DOMAIN nodes = 1..Len(nodes) /\ \A n \in DOMAIN nodes : nodes[n] \in NodeTypes
    BY DEF ParseInv, Paragraphs, IsSequence, Parse
  <1>4. Known(p)
    <2>1. Finished(p)
      BY <1>2 DEF Finished
    <2> QED BY <1>1, <2>1 DEF Around
  <1>5. \A stop \in Stops(p) : ~ Left(p, stop)
    BY DEF Dropped, Left
  <1>6. ~(frames # <<>> /\ frames[1].node = 0 /\ Left(p, frames[1].stop))
    <2>1. Top.stop \in Stops(p)
      BY DEF Stops
    <2> QED BY <1>2, <1>5, <2>1
  <1>7. ~(\E n \in DOMAIN nodes : In(n, p) /\ Left(p, nodes[n].b))
    <2> SUFFICES ASSUME NEW n \in DOMAIN nodes, In(n, p), Left(p, nodes[n].b)
                 PROVE  FALSE
      OBVIOUS
    <2>1. nodes[n].b \in Stops(p)
      BY DEF In, Stops
    <2> QED BY <1>5, <2>1
  <1>8. PICK n \in DOMAIN nodes : Has(nodes[n], p)
    BY <1>4, <1>6, <1>7 DEF Known
  <1>9. PICK x \in NodeTypes : x = nodes[n]
    BY <1>3
  <1>10. x.a \in Int /\ x.b \in Int /\ x.from \in Int /\ x.to \in Int
    BY NodeIs
  <1>11. CASE x.type \notin SpanTypes /\ x.a <= p /\ p < x.b
    <2>1. p \in x.a..x.b - 1
      BY <1>3, <1>10, <1>11
    <2>2. p \in Shows(n)
      BY <1>9, <1>11, <2>1 DEF Shows, IsSpan, SpanTypes
    <2> QED BY <2>2
  <1>12. CASE x.type \in {"LINK", "IMAGE"} /\ x.from <= p /\ p < x.to /\ ~ (x.a <= p /\ p < x.b)
    <2>1. p \in x.from..x.to - 1 /\ p \notin x.a..x.b - 1
      BY <1>3, <1>10, <1>12
    <2>2. p \in Hides(n)
      BY <1>9, <1>12, <2>1 DEF Hides
    <2> QED BY <2>2
  <1> QED BY <1>8, <1>9, <1>11, <1>12 DEF Has

\* Whatever the delimiters in a text, it comes out once and in order: what a
\* span was made of is within the span around it and behind what came before
\* it there, and when the parse is done every letter is shown or belongs to
\* the place a link leads to.  What the parser drops is named: references to
\* metadata that is not defined, and the first character of a superscript
\* whose parenthesis nothing closes.
THEOREM TextShownOnce == Spec => []TextOnce
  <1>1. DocInit => TextInv
    BY DocInitKnows
  <1>2. ParseInv /\ TextInv /\ [Next]_docVars => TextInv'
    BY NextKnows
  <1>3. ParseInv /\ TextInv => TextOnce
    BY OrderedNodes, KnownShown DEF TextOnce
  <1> QED BY <1>1, <1>2, <1>3, ParseInvariant, PTL DEF Spec

=============================================================================
