----------------------------- MODULE FirstPass -----------------------------
(***************************************************************************)
(* mdown_doc_parse of document.c on the characters of a document: metadata *)
(* given with the options and at the document's beginning, then the first  *)
(* pass over its lines, which takes out the definitions of links and       *)
(* footnotes and copies everything else, then the paragraphs of what was   *)
(* copied, parsed by module Inline with what was defined.  No line begins  *)
(* a block but a paragraph: that is module Parser's, and indented code is  *)
(* switched off (MDOWN_NOCODEIND).                                         *)
(***************************************************************************)
EXTENDS Inline

\* Kinds of documents: as Inputs, with what they begin with and the metadata
\* of the options, that of the document is to be preferred to and the other.
CONSTANT Documents

ASSUME DocumentsAssumption ==
    \A x \in Documents :
        /\ x.start \in Seq(STRING) /\ x.pieces \subseteq Seq(STRING) /\ x.most \in Nat
        /\ x.meta \in Seq(Seq(STRING)) /\ x.metaovr \in Seq(Seq(STRING))
        /\ x.ext \subseteq Extensions

VARIABLES
    data,       \* the document
    metas,      \* the metadata to parse, each a string and if data begins with it
    beg,        \* the place reached: in the first of metas, in data, and in the
                \* text when data has been read
    taken,      \* the definitions
    source      \* the places of data that text is from, 0 for a blank put in

docVars == <<vars, data, metas, beg, taken, source>>

Beyond == Len(data) + 1
AtEnd(p) == p >= Beyond
Blanks(p) == Past(data, p, Beyond, {" "})
UpTo(p, n) == Min({Blanks(p), p + n})
Eol == {"\n", "\r"}
LineEnd(p) == Until(data, p, Beyond, Eol)
NextLine(p) ==
    LET end == LineEnd(p)
    IN IF IsAt(data, end, Beyond, <<"\r", "\n">>) THEN end + 2 ELSE Min({end + 1, Beyond})
Is(p, C) == ~ AtEnd(p) /\ data[p] \in C

\* The last place of the newline at p, as is_ref takes it.
EolEnd(p) == IF IsAt(data, p, Beyond, <<"\n", "\r">>) THEN p + 1 ELSE p

\* A definition: what of, its key, the places of what is kept of it, if they
\* are in data, and the place behind it.
Defined(what, key, kept, end) ==
    [what |-> what, key |-> key, kept |-> kept, own |-> TRUE, end |-> end]
NotDefined == Defined("", <<>>, {}, 0)

\* The bracket that ends a name which begins at p, or 0: a colon is behind it.
NameEnd(p) ==
    LET close == Until(data, p, Beyond, {"]"} \cup Eol)
    IN IF Is(close, {"]"}) /\ Is(close + 1, {":"}) THEN close ELSE 0

-----------------------------------------------------------------------------
(* Definitions of links. *)

\* Where the link begins, behind blanks and at most one newline.
RefLink(close) ==
    LET spacer == Blanks(close + 2)
        angle == Blanks(IF Is(spacer, Eol) THEN EolEnd(spacer) + 1 ELSE spacer)
    IN IF AtEnd(angle) THEN 0 ELSE IF data[angle] = "<" THEN angle + 1 ELSE angle

Nothing(p) == [kept |-> {}, end |-> p]

\* Fault: what is behind the last of them does not matter.
Enclosed_Anyhow(p, stop, closing) ==
    [kept |-> p..Max({q \in p..stop - 1 : data[q] \in closing} \cup {p - 1}) - 1, end |-> stop]

\* What is between delimiters from p on: up to the last one that closes
\* before the place stop, behind which only blanks may be.
Enclosed(p, stop, closing) ==
    LET close == Max({q \in p..stop - 1 : data[q] \in closing} \cup {p - 1})
    IN IF \E q \in close + 1..stop - 1 : data[q] # " " THEN Nothing(0)
       ELSE [kept |-> p..close - 1, end |-> stop]

Brace == IF "ATTRS" \in ext THEN {"{"} ELSE {}

\* A title may be on the next line; attributes are on the title's.
RefTitleAt(p) ==
    IF Is(p, {"'", "\"", "("}) /\ ~ AtEnd(p + 1)
    THEN Enclosed(p + 1, Until(data, p + 1, Beyond, Eol \cup Brace), {"'", "\"", ")"})
    ELSE Nothing(p)
RefTitle(p) == RefTitleAt(IF Is(p, Eol) \/ AtEnd(p) THEN Blanks(EolEnd(p) + 1) ELSE p)
RefAttrs(p) ==
    IF Is(p, Brace) /\ ~ AtEnd(p + 1) THEN Enclosed(p + 1, LineEnd(p), {"}"}) ELSE Nothing(p)

\* The rest of a definition whose link begins at `link' and ends at stop.
RefAt(open, close, link, stop) ==
    LET end == IF data[stop - 1] = ">" THEN stop - 1 ELSE stop
        behind == Blanks(stop)
        title == RefTitle(behind)
        attrs == RefAttrs(title.end)
    IN IF \/ end <= link
          \/ ~ AtEnd(behind) /\ data[behind] \notin {"'", "\"", "("} \cup Eol \cup Brace
          \/ title.end = 0
          \/ attrs.end = 0
       THEN NotDefined
       ELSE Defined("REF", SubSeq(data, open + 1, close - 1),
                    (open + 1..close - 1) \cup (link..end - 1) \cup title.kept \cup attrs.kept,
                    EolEnd(attrs.end))

is_ref(p) ==
    LET open == UpTo(p, 3)
        close == NameEnd(open + 1)
        link == RefLink(close)
    IN IF AtEnd(p + 3) \/ data[open] # "[" \/ close = 0 \/ link = 0
       THEN NotDefined
       ELSE RefAt(open, close, link, Until(data, link, Beyond, {" "} \cup Eol))

-----------------------------------------------------------------------------
(* Definitions of footnotes. *)

\* The lines of a footnote from p on, the first of them behind the colon: all
\* that are indented, and empty ones, as far as they go.
NoteLines(first) ==
    LET lines[p \in first..Beyond] ==
            LET indented == UpTo(p, 4)
                further == lines[NextLine(p)]
            IN IF AtEnd(p) THEN Nothing(p)
               ELSE IF Blanks(p) = LineEnd(p) THEN further
               ELSE IF indented = p /\ ~ (p = first /\ data[p] = "\t")
               THEN Nothing(p)
               ELSE [further EXCEPT !.kept = @ \cup (indented..LineEnd(p) - 1)]
    IN lines[first]

is_footnote(p) ==
    LET open == UpTo(p, 3)
        close == NameEnd(open + 2)
        lines == NoteLines(close + 2)
    IN IF AtEnd(p + 3) \/ ~ IsAt(data, open, Beyond, <<"[", "^">>) \/ close = 0
       THEN NotDefined
       ELSE Defined("NOTE", SubSeq(data, open + 2, close - 1),
                    (open + 2..close - 1) \cup lines.kept, lines.end)

-----------------------------------------------------------------------------
(* Metadata: strings given with the options, and the lines of the document *)
(* up to the first empty one, when it begins with a letter.                *)

\* A byte order mark is passed.
Start == IF Is(1, {"bom"}) THEN 2 ELSE 1
MetaEnd ==
    Min({q \in Start + 1..Len(data) : data[q] = "\n" /\ data[q - 1] = "\n"} \cup {Beyond})

\* String m is metadata if its first line has a colon.
IsMetadata(m, from) ==
    /\ m # <<>> /\ Last(m) = "\n"
    /\ LET colon == Until(m, from, Len(m) + 1, {":", "\n"})
       IN m[colon] = ":"
HasMetadata ==
    /\ "METADATA" \in ext /\ Start < Len(data) /\ data[Start] \in Letters
    /\ IsMetadata(SubSeq(data, 1, MetaEnd - 1), Start)

Whitespace == Spaces \cup {"\t", "\r"}
Normalised(key) ==
    LET kept == SelectSeq(key, LAMBDA c : c \notin Whitespace)
    IN [k \in DOMAIN kept |-> IF kept[k] \in Letters \cup {"-", "_"} THEN kept[k] ELSE "?"]

\* parse_metadata_val, the value at p of m: the lines behind the first one that
\* are indented or have no colon are of it.  It ends at the newline returned.
ValueEnd(m, p) ==
    LET stop == Len(m) + 1
        more[q \in p..stop] ==
            LET next == q + 1
                end == Until(m, next, stop, {"\n"})
                colon == Until(m, next, stop, {"\n", ":"})
            IN IF \/ next >= stop
                  \/ m[next] \notin {" ", "\t"} /\ m[colon] = ":"
               THEN q ELSE more[end]
    IN more[Until(m, p, stop, {"\n"})]

\* The pair at p of m.  Blanks are taken off the end of a value of one line.
parse_metadata(m, p) ==
    LET stop == Len(m) + 1
        colon == Until(m, p, stop, {":"})
        key == Normalised(SubSeq(m, p, colon - 1))
        value == Past(m, colon + 1, stop, Whitespace)
        last == ValueEnd(m, value)
        end == IF \E q \in value..last - 1 : m[q] = "\n" THEN last
               ELSE Max({q \in value..last : q = value \/ m[q - 1] # " "})
    IN IF value >= stop
       THEN Defined("META", key, p..colon - 1, stop)
       ELSE Defined("META", key, (p..colon - 1) \cup (value..end - 1), end + 1)

-----------------------------------------------------------------------------
Given(strings) ==
    FlattenSeq([k \in DOMAIN strings |->
                    IF IsMetadata(strings[k], 1)
                    THEN <<[string |-> strings[k], own |-> FALSE]>> ELSE <<>>])

\* Where the parse begins: the metadata that is left, or else the lines.
Begin(left) ==
    /\ metas' = left
    /\ IF left = <<>>
       THEN beg' = (IF HasMetadata THEN MetaEnd + 1 ELSE Start) /\ outcome' = "reading"
       ELSE beg' = (IF Head(left).own THEN Start ELSE 1) /\ outcome' = "metadata"

DocInit ==
    /\ \/ Init /\ data = <<>> /\ metas = <<>>
       \/ /\ \E x \in Documents : \E w \in BoundedSeq(x.pieces, x.most) :
                /\ data = x.start \o FlattenSeq(w) /\ ext = x.ext
                /\ metas = Given(x.meta)
                           \o (IF HasMetadata
                               THEN <<[string |-> SubSeq(data, 1, MetaEnd - 1), own |-> TRUE]>>
                               ELSE <<>>)
                           \o Given(x.metaovr)
          /\ outcome = "called"
          /\ text = <<>> /\ nodes = <<>> /\ frames = <<>> /\ linkBody = FALSE /\ used = {}
          /\ defs = [notes |-> {}, refs |-> {}, metas |-> {}]
    /\ beg = 1 /\ taken = <<>> /\ source = <<>>

Call ==
    /\ outcome = "called" /\ Begin(metas)
    /\ UNCHANGED <<text, ext, defs, nodes, frames, linkBody, used, data, taken, source>>

\* A pair takes the place of one before it that has the same key.
Replaced(pair) == [pair EXCEPT !.what = "REPLACED"]
Metadata ==
    /\ outcome = "metadata"
    /\ LET given == Head(metas)
       IN \E m \in {parse_metadata(given.string, beg)} :
            /\ taken' = Append([k \in DOMAIN taken |->
                                     IF taken[k].key = m.key THEN Replaced(taken[k])
                                     ELSE taken[k]],
                               [m EXCEPT !.own = given.own])
            /\ IF m.end <= Len(given.string)
               THEN beg' = m.end /\ UNCHANGED <<metas, outcome>>
               ELSE Begin(Tail(metas))
    /\ UNCHANGED <<text, ext, defs, nodes, frames, linkBody, used, data, source>>

Line == outcome = "reading" /\ ~ AtEnd(beg)
DefinitionAt(p) ==
    LET note == IF "FOOTNOTES" \in ext THEN is_footnote(p) ELSE NotDefined
    IN IF note # NotDefined THEN note ELSE is_ref(p)

Define ==
    /\ Line
    /\ \E d \in {DefinitionAt(beg)} :
         /\ d # NotDefined
         /\ taken' = Append(taken, d) /\ beg' = d.end
    /\ UNCHANGED <<text, ext, defs, nodes, frames, linkBody, used, outcome, data, metas, source>>

\* expand_tabs: the places a line's characters are from.
ExpandTabs(from, end) ==
    LET out[q \in from..end] ==
            LET before == out[q - 1]
            IN IF q = from THEN <<>>
               ELSE IF data[q - 1] = "\t"
               THEN before \o [k \in 1..4 - (Len(before) % 4) |-> 0]
               ELSE Append(before, q - 1)
    IN out[end]

\* The newlines behind it, of which one of two characters is copied once.
Newlines(end, next) ==
    LET out[q \in end..next] ==
            IF q = end THEN <<>>
            ELSE IF data[q - 1] = "\n" \/ (~ AtEnd(q) /\ data[q] # "\n")
            THEN Append(out[q - 1], q - 1) ELSE out[q - 1]
    IN out[next]

CopyLine ==
    LET end == LineEnd(beg)
        next == Past(data, end, Beyond, Eol)
        copied == ExpandTabs(beg, end) \o Newlines(end, next)
    IN /\ Line /\ DefinitionAt(beg) = NotDefined
       /\ source' = source \o copied
       /\ text' = text \o [k \in DOMAIN copied |->
                               IF copied[k] = 0 THEN " "
                               ELSE IF data[copied[k]] = "\r" THEN "\n"
                               ELSE data[copied[k]]]
       /\ beg' = next
       /\ UNCHANGED <<ext, defs, nodes, frames, linkBody, used, outcome, data, metas, taken>>

\* The text gets a newline at its end, and its blocks are parsed.
EndReading ==
    LET Keys(what) == {taken[k].key : k \in {j \in DOMAIN taken : taken[j].what = what}}
    IN /\ outcome = "reading" /\ AtEnd(beg)
       /\ defs' = [notes |-> Keys("NOTE"), refs |-> Keys("REF"), metas |-> Keys("META")]
       /\ text' = IF text = <<>> \/ Last(text) = "\n" THEN text ELSE Append(text, "\n")
       /\ beg' = 1 /\ outcome' = "done"
       /\ UNCHANGED <<ext, nodes, frames, linkBody, used, data, metas, taken, source>>

\* parse_block: an empty line is passed, and one that is not begins a
\* paragraph, up to the next empty one.
NextBlock ==
    LET stop == Len(text) + 1
        Empty(p) == Past(text, p, stop, {" "}) = Until(text, p, stop, {"\n"})
        Behind(p) == Min({Until(text, p, stop, {"\n"}) + 1, stop})
        lines == {p \in beg..stop - 1 : p = beg \/ text[p - 1] = "\n"}
        next == Min({p \in lines : Empty(p)} \cup {stop})
        end == Max({p \in beg..next : p = beg \/ text[p - 1] # "\n"})
    IN /\ outcome = "done" /\ data # <<>> /\ beg < stop
       /\ beg' = Behind(next)
       /\ IF Empty(beg)
          THEN UNCHANGED <<nodes, frames, outcome>>
          ELSE /\ nodes' = Append(nodes, Node("PARAGRAPH", beg, end, beg, end))
               /\ frames' = <<Frame(Len(nodes'), beg, end, 0)>>
               /\ outcome' = "parsing"
       /\ UNCHANGED <<text, ext, defs, linkBody, used, data, metas, taken, source>>

\* The caller goes on.
Over ==
    /\ \/ outcome = "refused"
       \/ outcome = "done" /\ (data = <<>> \/ beg > Len(text))
    /\ UNCHANGED docVars

Next ==
    \/ Call \/ Metadata \/ Define \/ CopyLine \/ EndReading \/ NextBlock \/ Over
    \/ ParseInline /\ UNCHANGED <<data, metas, beg, taken, source>>

Spec == DocInit /\ [][Next]_docVars

-----------------------------------------------------------------------------
(* The property. *)

\* Every letter of a document is kept, and in one place: in a definition or
\* in the text, when all lines have been read.  Where one ends is worked out
\* apart from what of it is kept, and metadata, definitions of links and
\* footnotes each take their own number of lines with them.
LettersOnce ==
    outcome \in {"done", "refused"} =>
        \A p \in DOMAIN data : data[p] \in Letters =>
            Cardinality({k \in DOMAIN taken : taken[k].own /\ p \in taken[k].kept})
              + Cardinality({k \in DOMAIN source : source[k] = p}) = 1
=============================================================================
