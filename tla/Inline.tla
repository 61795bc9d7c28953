------------------------------- MODULE Inline -------------------------------
(***************************************************************************)
(* parse_inline of document.c and the char_ functions it calls: what the   *)
(* characters of a paragraph are parsed into.  Module Parser has the same  *)
(* functions with a choice where these look at the text; here the text is  *)
(* given, and the limit on the depth and failing allocations are Parser's. *)
(*                                                                         *)
(* A frame is a call of parse_inline: the node that is open around it, the *)
(* end of its part of the text, its variables i, end and consumed, and     *)
(* where its caller goes on.                                               *)
(***************************************************************************)
EXTENDS Delimiters, SequencesExt

CONSTANTS
    Inputs,     \* kinds of texts, [pieces, most, ext]: up to `most' of the
                \* pieces one after another, and doc->ext_flags
    Defs        \* what the document defines, [notes, refs, metas]: the keys
                \* in doc->footq, doc->refq and doc->metaq

Extensions == {"STRIKE", "HILITE", "AUTOLINK", "SUPER", "MATH", "NOINTEM",
               "COMMONMARK", "FOOTNOTES", "METADATA", "ATTRS"}

ASSUME InputsAssumption ==
    \A x \in Inputs :
        /\ x.pieces \subseteq Seq(STRING) /\ x.most \in Nat
        /\ x.ext \subseteq Extensions

VARIABLES
    text, ext,  \* the input
    defs,       \* the definitions
    nodes,      \* the nodes in the order they are pushed
    frames,     \* the calls of parse_inline
    linkBody,   \* doc->in_link_body
    used,       \* the footnotes with is_used
    outcome     \* "parsing", "done", or "refused": parse_inline returned 0

vars == <<text, ext, defs, nodes, frames, linkBody, used, outcome>>

-----------------------------------------------------------------------------
(***************************************************************************)
(* A node was made of the characters from `from' to `to'; those from a to  *)
(* b are shown as they are, or are the text that is parsed within it.      *)
(***************************************************************************)
Node(type, from, to, a, b) ==
    [type |-> type, up |-> 0, from |-> from, to |-> to, a |-> a, b |-> b]
Text(from, to) == Node("NORMAL_TEXT", from, to, from, to)

\* What a char_ function did: the nodes it pushed, whether it parses what is
\* within the last of them, how many characters it took off the text before
\* it, and the place it returns: 0 when nothing begins here.
Parsed(pushed, within, trim, next) ==
    [nodes |-> pushed, within |-> within, trim |-> trim, next |-> next]
NoSpan == Parsed(<<>>, FALSE, 0, 0)
Leaf(type, from, to, a, b) == Parsed(<<Node(type, from, to, a, b)>>, FALSE, 0, to)
Span(type, from, to, a, b) == Parsed(<<Node(type, from, to, a, b)>>, TRUE, 0, to)

Special ==
    {"*", "_", "tick", "\n", "[", "!", "<", "\\", "&"}
      \cup (IF "STRIKE" \in ext THEN {"~"} ELSE {})
      \cup (IF "HILITE" \in ext THEN {"="} ELSE {})
      \cup (IF "AUTOLINK" \in ext THEN {":", "@", "w"} ELSE {})
      \cup (IF "SUPER" \in ext THEN {"^"} ELSE {})
      \cup (IF "MATH" \in ext THEN {"$"} ELSE {})

Top == frames[Len(frames)]
InTop(node) == [node EXCEPT !.up = Top.node]

\* The last node in the one that is open, or 0.
LastChild ==
    LET P == {n \in DOMAIN nodes : nodes[n].up = Top.node}
    IN IF P = {} THEN 0 ELSE Max(P)

\* The blanks at the end of that node's text.
TrailingBlanks ==
    LET n == nodes[LastChild]
    IN n.b - Min({q \in n.a..n.b : \A r \in q..n.b - 1 : text[r] = " "})

-----------------------------------------------------------------------------
(***************************************************************************)
(* The char_ functions for the special character at p: stop is the end of  *)
(* the text being parsed, and `offset' characters before p are not part of *)
(* a span.                                                                 *)
(***************************************************************************)

CharEmphasis(p, stop, offset) ==
    LET c == text[p]
        n == Past(text, p, stop, {c}) - p
        One(a) ==
            LET q == EmphClose1(text, a, stop, c, "NOINTEM" \in ext)
            IN IF q = 0 THEN NoSpan ELSE Span("EMPHASIS", p, q + 1, a, q)
        type == CASE c = "~" -> "STRIKETHROUGH"
                  [] c = "=" -> "HIGHLIGHT"
                  [] OTHER -> "DOUBLE_EMPHASIS"
        Two(a) ==
            LET q == EmphClose2(text, a, stop, c)
            IN IF q = 0 THEN NoSpan ELSE Span(type, p, q + 2, a, q)
        Three(a) ==
            LET q == EmphClose3(text, a, stop, c)
            IN IF q = 0 THEN NoSpan
               ELSE IF IsAt(text, q, stop, <<c, c, c>>)
               THEN Span("TRIPLE_EMPHASIS", p, q + 3, a, q)
               ELSE IF IsAt(text, q, stop, <<c, c>>) THEN One(a - 2)
               ELSE Two(a - 1)
        inWord == /\ "NOINTEM" \in ext /\ offset > 0
                  /\ text[p - 1] \notin Spaces \cup {">", "("}
    IN IF \/ inWord \/ n \notin 1..3 \/ stop - p < n + 2
          \/ text[p + n] \in Spaces
          \/ n # 2 /\ c \in {"~", "="}
       THEN NoSpan
       ELSE CASE n = 1 -> One(p + 1) [] n = 2 -> Two(p + 2) [] n = 3 -> Three(p + 3)

\* Without `offset': they may belong to a line break.
CharLinebreak_Anywhere(p, stop, offset) ==
    LET next == Past(text, p + 1, stop, {" "})
    IN IF p < 3 \/ text[p - 1] # " " \/ text[p - 2] # " " THEN NoSpan
       ELSE [Leaf("LINEBREAK", p, next, p, p) EXCEPT !.trim = 1]

CharLinebreak(p, stop, offset) ==
    LET next == Past(text, p + 1, stop, {" "})
    IN IF offset < 2 \/ text[p - 1] # " " \/ text[p - 2] # " " THEN NoSpan
       ELSE [Leaf("LINEBREAK", p, next, p, p) EXCEPT !.trim = TrailingBlanks]

CharCodespan(p, stop) ==
    LET open == Past(text, p, stop, {"tick"})
        end == CodeEnd(text, p, stop)
        close == end - (open - p)
        a == Past(text, open, close, {" "})
        b == Max({q \in a..close : q = a \/ text[q - 1] # " "})
    IN IF end = 0 THEN NoSpan ELSE Leaf("CODESPAN", p, end, a, b)

Math(p, stop, t) ==
    LET q == MathClose(text, p, stop, t)
    IN IF q = 0 THEN NoSpan
       ELSE Leaf("MATH_BLOCK", p, q + Len(t), p + Len(t), q)

CharMath(p, stop) ==
    Math(p, stop, IF IsAt(text, p, stop, <<"$", "$">>) THEN <<"$", "$">> ELSE <<"$">>)

Escapable ==
    {"\\", "tick", "*", "_", "{", "}", "[", "]", "(", ")", "#", "+", "-",
     ".", "!", ":", "|", "&", "<", ">", "^", "~", "=", "\"", "$"}

CharEscape(p, stop) ==
    LET Formula(o, c) ==
            IF "MATH" \in ext /\ IsAt(text, p, stop, <<"\\", "\\", o>>)
            THEN Math(p, stop, <<"\\", "\\", c>>) ELSE NoSpan
        math == IF Formula("[", "]") = NoSpan THEN Formula("(", ")")
                ELSE Formula("[", "]")
        next == Past(text, p + 2, stop, {" "})
    IN IF stop - p = 1 THEN [Leaf("NORMAL_TEXT", p, stop, p, stop) EXCEPT !.next = p + 2]
       ELSE IF math # NoSpan THEN math
       ELSE IF "COMMONMARK" \in ext /\ text[p + 1] = "\n"
       THEN Leaf("LINEBREAK", p, next, p, p)
       ELSE IF text[p + 1] \notin Escapable THEN NoSpan
       ELSE Leaf("NORMAL_TEXT", p, p + 2, p + 1, p + 2)

CharEntity(p, stop) ==
    LET name == IF p + 1 < stop /\ text[p + 1] = "#" THEN p + 2 ELSE p + 1
        e == Past(text, name, stop, Letters)
    IN IF e < stop /\ text[e] = ";" THEN Leaf("ENTITY", p, e + 1, p, e + 1)
       ELSE NoSpan

CharLangleTag(p, stop) ==
    LET tag == TagLength(text, p, stop)
    IN IF tag.end = 0 THEN NoSpan
       ELSE IF tag.address THEN Leaf("LINK_AUTO", p, tag.end, p + 1, tag.end - 1)
       ELSE Leaf("RAW_HTML", p, tag.end, p, tag.end)

\* Keeps the text before the address.
CharAutolink_KeepsText(p, stop, address) ==
    IF linkBody \/ address = NoAddress THEN NoSpan
    ELSE Leaf("LINK_AUTO", address.from, address.end, address.from, address.end)

\* The part of an address that stands before its special character has been
\* pushed as text: it is taken off the last node, as far as that goes.
CharAutolink(p, stop, address) ==
    LET last == LastChild
        before == IF last = 0 \/ nodes[last].type # "NORMAL_TEXT" THEN 0
                  ELSE nodes[last].b - nodes[last].a
    IN IF linkBody \/ address = NoAddress THEN NoSpan
       ELSE [Leaf("LINK_AUTO", address.from, address.end, address.from, address.end)
               EXCEPT !.trim = Min({p - address.from, before})]

\* Returns sup_start.
CharSuperscript_Start(p, stop) ==
    LET blank == Until(text, p + 1, stop, Spaces)
    IN IF stop - p < 2 \/ blank = p + 1 THEN NoSpan
       ELSE [Span("SUPERSCRIPT", p, blank, p + 1, blank) EXCEPT !.next = p + 1]

CharSuperscript(p, stop) ==
    LET n == FindEmph(text, p + 2, stop, ")")
        blank == Until(text, p + 1, stop, Spaces)
    IN IF stop - p < 2 THEN NoSpan
       ELSE IF text[p + 1] # "("
       THEN IF blank = p + 1 THEN NoSpan
            ELSE Span("SUPERSCRIPT", p, blank, p + 1, blank)
       ELSE IF p + 2 + n = stop THEN NoSpan
       ELSE IF n = 0 THEN [NoSpan EXCEPT !.next = p + 3]
       ELSE Span("SUPERSCRIPT", p, p + 3 + n, p + 2, p + 2 + n)

-----------------------------------------------------------------------------
(***************************************************************************)
(* char_link and char_image.  A footnote or metadata after an exclamation  *)
(* mark is no image: the mark is then pushed as text.                      *)
(***************************************************************************)

\* What follows the text of a link that ends at e: where the link ends, or 0.
LinkEnd(p, e, stop) ==
    LET q == Past(text, e + 1, stop, Spaces)
        dest == DestEnd(text, Past(text, q + 1, stop, Spaces), stop)
        close == LinkClose(text, dest, stop)
        label == Until(text, q + 1, stop, {"]"})
        id == IF label = q + 1 THEN SubSeq(text, p + 1, e - 1)
              ELSE SubSeq(text, q + 1, label - 1)
    IN IF q < stop /\ text[q] = "("
       THEN IF close = 0 THEN 0 ELSE close + 1
       ELSE IF q < stop /\ text[q] = "["
       THEN IF label < stop /\ id \in defs.refs THEN label + 1 ELSE 0
       ELSE IF SubSeq(text, p + 1, e - 1) \in defs.refs THEN e + 1 ELSE 0

\* Only a link that is not a reference has attributes of its own.
Attributed(end, stop) ==
    /\ "ATTRS" \in ext /\ text[end - 1] = ")"
    /\ end + 2 < stop /\ text[end] = "{"

AttrsSize(end, stop) == ExtAttrs(text, end + 1, Until(text, end + 1, stop, {"}"}))

BehindAttrs(end, stop) ==
    LET q == end + 1 + AttrsSize(end, stop)
    IN IF ~ Attributed(end, stop) THEN end
       ELSE IF q < stop /\ text[q] = "}" THEN q + 1 ELSE q

LinkText(p, stop) == p + 1 + FindEmph(text, p + 1, stop, "]")

IsNote(p, stop) == "FOOTNOTES" \in ext /\ p + 1 < stop /\ text[p + 1] = "^"
IsMeta(p, stop) == "METADATA" \in ext /\ p + 1 < stop /\ text[p + 1] = "%"
Key(p, stop) == SubSeq(text, p + 2, LinkText(p, stop) - 1)
NewNote(p, stop) == Key(p, stop) \in defs.notes \ used

CharLink(p, stop, offset) ==
    LET image == /\ offset > 0 /\ text[p - 1] = "!"
                 /\ ~ IsEscaped(text, p - offset, p - 1)
        e == LinkText(p, stop)
        end == LinkEnd(p, e, stop)
        next == BehindAttrs(end, stop)
        mark == IF image THEN <<Text(p - 1, p)>> ELSE <<>>
        note == IF NewNote(p, stop)
                THEN Node("FOOTNOTE_REF", p, e + 1, p, e + 1) ELSE Text(p, e + 1)
        value == IF Key(p, stop) \in defs.metas THEN <<Text(p, e + 1)>> ELSE <<>>
    IN IF ~ (e < stop /\ text[e] = "]") THEN NoSpan
       ELSE IF IsNote(p, stop) \/ IsMeta(p, stop)
       THEN IF e - p < 3 THEN [NoSpan EXCEPT !.nodes = mark]
            ELSE Parsed(mark \o (IF IsNote(p, stop) THEN <<note>> ELSE value),
                        FALSE, 0, e + 1)
       ELSE IF end = 0 THEN NoSpan
       ELSE IF image
       THEN [Leaf("IMAGE", p - 1, Min({next, stop}), p + 1, e) EXCEPT !.next = next]
       ELSE [Span("LINK", p, Min({next, stop}), p + 1, e)
               EXCEPT !.within = e > p + 1, !.next = next]

\* parse_ext_attrs returned 0.
LinkFails(p, stop) ==
    LET e == LinkText(p, stop)
        end == LinkEnd(p, e, stop)
    IN /\ e < stop /\ text[e] = "]" /\ ~ IsNote(p, stop) /\ ~ IsMeta(p, stop)
       /\ end # 0 /\ Attributed(end, stop) /\ AttrsSize(end, stop) = 0

-----------------------------------------------------------------------------
Frame(node, a, b, next) ==
    [node |-> node, stop |-> b, i |-> a, end |-> a, consumed |-> a, next |-> next]

Init ==
    /\ \E x \in Inputs : \E w \in BoundedSeq(x.pieces, x.most) :
          text = FlattenSeq(w) /\ ext = x.ext
    /\ defs = Defs
    /\ nodes = <<>>
    /\ frames = <<Frame(0, 1, Len(text) + 1, 0)>>
    /\ linkBody = FALSE
    /\ used = {}
    /\ outcome = "parsing"

\* The last frame goes on at p, behind a span.
GoOn(stack, p) ==
    [stack EXCEPT ![Len(stack)].i = p, ![Len(stack)].end = p,
                  ![Len(stack)].consumed = p]

\* What is not special is text.
CopyText ==
    LET end == Until(text, Top.end, Top.stop, Special)
    IN /\ outcome = "parsing" /\ end > Top.i
       /\ nodes' = Append(nodes, InTop(Text(Top.i, end)))
       /\ frames' = [frames EXCEPT ![Len(frames)].i = end, ![Len(frames)].end = end]
       /\ UNCHANGED <<text, ext, defs, linkBody, used, outcome>>

\* A special character is next.
At(chars) ==
    /\ outcome = "parsing"
    /\ Top.i = Top.end /\ Top.i < Top.stop
    /\ text[Top.i] \in Special \cap chars

\* Its function did r.  When it returned 0 the character is text.
Handle(r) ==
    LET last == LastChild
        trimmed == IF r.trim = 0 THEN nodes
                   ELSE [nodes EXCEPT ![last].b = @ - r.trim, ![last].to = @ - r.trim]
        pushed == [k \in DOMAIN r.nodes |-> InTop(r.nodes[k])]
        span == r.nodes[Len(r.nodes)]
    IN /\ nodes' = trimmed \o pushed
       /\ frames' =
              IF r.next = 0 THEN [frames EXCEPT ![Len(frames)].end = Top.i + 1]
              ELSE IF r.within
              THEN Append(frames, Frame(Len(nodes'), span.a, span.b, r.next))
              ELSE GoOn(frames, r.next)
       /\ UNCHANGED <<text, ext, defs, outcome>>

Do(result) == \E r \in {result} : Handle(r) /\ UNCHANGED <<linkBody, used>>

Offset == Top.i - Top.consumed

Emphasis == At({"*", "_", "~", "="}) /\ Do(CharEmphasis(Top.i, Top.stop, Offset))
Linebreak == At({"\n"}) /\ Do(CharLinebreak(Top.i, Top.stop, Offset))
Codespan == At({"tick"}) /\ Do(CharCodespan(Top.i, Top.stop))
Escape == At({"\\"}) /\ Do(CharEscape(Top.i, Top.stop))
Entity == At({"&"}) /\ Do(CharEntity(Top.i, Top.stop))
Langle == At({"<"}) /\ Do(CharLangleTag(Top.i, Top.stop))
Superscript == At({"^"}) /\ Do(CharSuperscript(Top.i, Top.stop))
Formula == At({"$"}) /\ Do(CharMath(Top.i, Top.stop))

Autolink ==
    At({":", "@", "w"})
      /\ LET p == Top.i
             stop == Top.stop
         IN Do(CharAutolink(p, stop,
                   CASE text[p] = "w" -> WwwAddress(text, p, stop, Offset)
                     [] text[p] = "@" -> EmailAddress(text, p, stop, Offset)
                     [] text[p] = ":" -> UrlAddress(text, p, stop, Offset)))

\* The bracket at p, of a link or of the image whose mark was before it.
LinkAt(p, offset) ==
    \/ /\ LinkFails(p, Top.stop)
       /\ outcome' = "refused"
       /\ UNCHANGED <<text, ext, defs, nodes, frames, linkBody, used>>
    \/ /\ ~ LinkFails(p, Top.stop)
       /\ \E r \in {CharLink(p, Top.stop, offset)} :
            /\ Handle(r)
            /\ linkBody' = (linkBody \/ r.within)
            /\ used' = IF \E n \in DOMAIN r.nodes : r.nodes[n].type = "FOOTNOTE_REF"
                       THEN used \cup {Key(p, Top.stop)} ELSE used

Link == At({"["}) /\ LinkAt(Top.i, Offset)

Image ==
    /\ At({"!"})
    /\ IF Top.i + 1 < Top.stop /\ text[Top.i + 1] = "["
       THEN LinkAt(Top.i + 1, Offset + 1) ELSE Do(NoSpan)

\* The end of a span's text: its function closes the node and returns.
Return ==
    LET stack == SubSeq(frames, 1, Len(frames) - 1)
    IN /\ outcome = "parsing" /\ Top.i = Top.end /\ Top.i >= Top.stop
       /\ linkBody' = (linkBody /\ ~ (Len(frames) > 1 /\ nodes[Top.node].type = "LINK"))
       /\ IF Len(frames) = 1
          THEN outcome' = "done" /\ frames' = frames
          ELSE outcome' = outcome /\ frames' = GoOn(stack, Top.next)
       /\ UNCHANGED <<text, ext, defs, nodes, used>>

ParseInline ==
    \/ CopyText \/ Emphasis \/ Linebreak \/ Codespan \/ Escape \/ Entity
    \/ Langle \/ Superscript \/ Formula \/ Autolink \/ Link \/ Image \/ Return

-----------------------------------------------------------------------------
(* Properties. *)

\* The assert of char_linebreak (document.c:937): before the two blanks that
\* make a line break there is text, for its blanks are taken off it.
AssertsHold ==
    At({"\n"}) /\ CharLinebreak(Top.i, Top.stop, Offset) # NoSpan =>
        LastChild # 0 /\ nodes[LastChild].type = "NORMAL_TEXT"

\* The characters a node shows, or hides as the place a link leads to.
IsSpan(n) == nodes[n].type \in
    {"EMPHASIS", "DOUBLE_EMPHASIS", "TRIPLE_EMPHASIS", "STRIKETHROUGH",
     "HIGHLIGHT", "SUPERSCRIPT", "LINK", "PARAGRAPH"}
Shows(n) == IF IsSpan(n) THEN {} ELSE nodes[n].a..nodes[n].b - 1
Hides(n) ==
    IF nodes[n].type \in {"LINK", "IMAGE"}
    THEN (nodes[n].from..nodes[n].to - 1) \ (nodes[n].a..nodes[n].b - 1) ELSE {}

\* Where the text may end in which place p is parsed.
Stops(p) ==
    {Top.stop} \cup {nodes[n].b : n \in {m \in DOMAIN nodes :
                                          nodes[m].from <= p /\ p < nodes[m].to}}

\* What is not shown: references to metadata that is not defined, and the
\* first character of a superscript whose parenthesis nothing closes.
Undefined(p, stop) ==
    \E q \in 1..p - 2 :
        /\ text[q] = "[" /\ IsMeta(q, stop) /\ p < LinkText(q, stop)
        /\ Key(q, stop) \notin defs.metas
Unclosed(p, stop) ==
    /\ "SUPER" \in ext /\ p > 2 /\ IsAt(text, p - 2, p, <<"^", "(">>)
    /\ FindEmph(text, p, stop, ")") = 0
Dropped(p) == \E stop \in Stops(p) : Undefined(p, stop) \/ Unclosed(p, stop)

\* What is shown twice: the part of an address before the last text, which
\* is all that is taken back of it, and the mark of an image whose brackets
\* have only the sign of a footnote or of metadata in them.
Emptied(m, n) ==
    /\ nodes[n].type = "LINK_AUTO"
    /\ \E k \in m..n - 1 :
         /\ nodes[k].up = nodes[n].up /\ nodes[k].type = "NORMAL_TEXT"
         /\ nodes[k].a = nodes[k].b
         /\ \A j \in k + 1..n - 1 : nodes[j].up # nodes[n].up
MarkAgain(m, n) ==
    /\ nodes[m].type = "NORMAL_TEXT" /\ nodes[n].type = "NORMAL_TEXT"
    /\ nodes[m].from = nodes[n].from /\ text[nodes[n].from] = "!"
ShownTwice(m, n) == Emptied(m, n) \/ MarkAgain(m, n)

\* Whatever the delimiters in it, a text comes out once and in order: what a
\* node was made of is within the text of the span around it (SpansNested) and
\* behind what the nodes before it were made of (NodesInOrder), and no letter
\* is left out (LettersShown).  The char_ functions return only how far they
\* got, find_emph_char skips what it does not parse, and addresses and line
\* breaks take back what was pushed.
SpansNested ==
    \A n \in DOMAIN nodes : nodes[n].up # 0 =>
        /\ nodes[nodes[n].up].a <= nodes[n].from
        /\ nodes[n].to <= nodes[nodes[n].up].b
NodesInOrder ==
    \A n \in DOMAIN nodes : \A m \in 1..n - 1 :
        nodes[m].up = nodes[n].up => nodes[m].to <= nodes[n].from \/ ShownTwice(m, n)
LettersShown ==
    outcome = "done" =>
        \A p \in DOMAIN text :
          frames # <<>> /\ p < Top.stop /\ text[p] \in Letters /\ ~ Dropped(p) =>
            \E n \in DOMAIN nodes : p \in Shows(n) \cup Hides(n)
TextOnce == SpansNested /\ NodesInOrder /\ LettersShown

\* parse_inline comes to an end: every round of its loop, also one whose
\* function finds that nothing begins or only takes characters away, gets it
\* further in the text or back to a caller that is as far.
Reached == Min({Top.end, Top.stop})
GetsFurther ==
    [][\/ outcome # "parsing" \/ outcome' # outcome
       \/ Reached' > Reached
       \/ Reached' = Reached /\ (Top'.i > Top.i \/ Len(frames') < Len(frames))]_vars
=============================================================================
