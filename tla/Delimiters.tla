----------------------------- MODULE Delimiters -----------------------------
(***************************************************************************)
(* How the functions of document.c and autolink.c that parse spans find    *)
(* where a span ends.  They look at a part of the text, `data' and `size'  *)
(* in the code: here the positions from `p' up to, and without, `stop' of  *)
(* the sequence of characters `s'.  A place is a position of s; 0 says     *)
(* that there is none, except where the code itself uses an offset of 0.  The   *)
(* character ` is written "tick".                                          *)
(***************************************************************************)
EXTENDS Integers, Sequences, FiniteSetsExt

Letters == {"a", "b", "f", "h", "k", "p", "s", "t", "u", "w"}
Spaces == {" ", "\n"}

\* The first place from p with a character that is in, or is not in, C; the
\* stop when there is none.
Until(s, p, stop, C) ==
    IF p >= stop THEN p ELSE Min({q \in p..stop - 1 : s[q] \in C} \cup {stop})
Past(s, p, stop, C) ==
    IF p >= stop THEN p ELSE Min({q \in p..stop - 1 : s[q] \notin C} \cup {stop})

\* t is in s at p, before the stop.
IsAt(s, p, stop, t) ==
    p + Len(t) <= stop /\ \A k \in 1..Len(t) : s[p + k - 1] = t[k]

\* An odd number of backslashes before p, none of them before `from'.
IsEscaped(s, from, p) ==
    LET run == {k \in 0..p - from : \A q \in p - k..p - 1 : s[q] = "\\"}
    IN Max(run) % 2 = 1

\* Behind the backticks that close those at p.
CodeEnd(s, p, stop) ==
    LET open == Past(s, p, stop, {"tick"})
        n == open - p
        ends == {r \in open + n..stop : \A k \in 1..n : s[r - k] = "tick"}
    IN IF ends = {} THEN 0 ELSE Min(ends)

(***************************************************************************)
(* The number of characters before the next c that is not in a code span   *)
(* or a link: 0 when there is none, and when it is the first one.  When a  *)
(* code span or a link turns out not to be one the first c in it counts.   *)
(***************************************************************************)
FindEmph(s, from, stop, c) ==
    LET find[p \in from..stop + 1] ==
            LET q == Until(s, p, stop, {c, "[", "tick"})
                code == CodeEnd(s, q, stop)
                text == Until(s, q + 1, stop, {"]"})
                dest == Past(s, text + 1, stop, Spaces)
                linked == dest < stop /\ s[dest] \in {"[", "("}
                close == IF linked
                         THEN Until(s, dest + 1, stop, {IF s[dest] = "[" THEN "]" ELSE ")"})
                         ELSE dest
                Within(P) == IF \E r \in P : s[r] = c
                             THEN Min({r \in P : s[r] = c}) - from ELSE 0
                inLink == Within(q + 1..text - 1 \cup dest + 1..close - 1)
            IN IF q >= stop THEN 0
               ELSE IF IsEscaped(s, from, q) THEN find[q + 1]
               ELSE IF s[q] = c THEN q - from
               ELSE IF s[q] = "tick"
               THEN IF code # 0 THEN find[code] ELSE Within(q..stop - 1)
               ELSE IF linked /\ close < stop THEN find[close + 1]
               ELSE IF linked \/ dest >= stop \/ inLink # 0 THEN inLink
               ELSE find[dest]
    IN find[from]

(***************************************************************************)
(* Where emphasis whose text begins at `from' closes.  The loops of        *)
(* parse_emph1 and parse_emph3 look again at a candidate that does not     *)
(* close it, find it at offset 0 and give up: only the first one counts.   *)
(* When parse_emph3 hands what three delimiters opened to the others, the  *)
(* text begins with a delimiter.                                           *)
(***************************************************************************)
Candidate(s, from, stop, c) == {from + FindEmph(s, from, stop, c)} \ {from}

EmphClose1(s, from, stop, c, nointem) ==
    LET p == IF IsAt(s, from, stop, <<c, c>>) THEN from + 1 ELSE from
    IN Max({0} \cup
           {q \in Candidate(s, p, stop, c) :
               /\ s[q - 1] \notin Spaces
               /\ ~ (nointem /\ q + 1 < stop /\ s[q + 1] \in Letters)})

EmphClose2(s, from, stop, c) ==
    LET close[p \in from..stop + 1] ==
            Max({0} \cup
                {IF IsAt(s, q, stop, <<c, c>>) /\ s[q - 1] \notin Spaces
                 THEN q ELSE close[q + 1] : q \in Candidate(s, p, stop, c)})
    IN close[from]

\* The first delimiter, of any length, that may close what three opened.
EmphClose3(s, from, stop, c) ==
    Max({0} \cup {q \in Candidate(s, from, stop, c) : s[q - 1] \notin Spaces})

\* The delimiter t of a formula that begins at p.
MathClose(s, p, stop, t) ==
    LET found == {q \in p + Len(t)..stop - 1 :
                     IsAt(s, q, stop, t) /\ ~ IsEscaped(s, p, q)}
    IN IF found = {} THEN 0 ELSE Min(found)

-----------------------------------------------------------------------------
(***************************************************************************)
(* Tags and addresses in angle brackets.                                   *)
(***************************************************************************)

\* Behind the mail address from p to its >.
MailEnd(s, p, stop) ==
    LET e == Past(s, p, stop, Letters \cup {"@", "-", ".", "_"})
    IN IF /\ e < stop /\ s[e] = ">"
          /\ Cardinality({q \in p..e - 1 : s[q] = "@"}) = 1
       THEN e + 1 ELSE 0

\* The > that ends an address, or the first character it may not have.
AddressStop(s, from, stop) ==
    LET scan[p \in from..stop + 1] ==
            IF p >= stop \/ s[p] \in {">", "'", "\""} \cup Spaces THEN p
            ELSE scan[IF s[p] = "\\" THEN p + 2 ELSE p + 1]
    IN scan[from]

TagLength(s, p, stop) ==
    LET comments == {q \in p + 5..stop - 1 : IsAt(s, q - 2, stop, <<"-", "-", ">">>)}
        name == IF s[p + 1] = "/" THEN p + 2 ELSE p + 1
        e == Past(s, name, stop, Letters \cup {".", "+", "-"})
        mail == IF e < stop /\ s[e] = "@" THEN MailEnd(s, e, stop) ELSE 0
        scheme == e > p + 2 /\ e + 1 < stop /\ s[e] = ":"
        addr == AddressStop(s, e + 1, stop)
        close == Until(s, IF scheme THEN addr ELSE e, stop, {">"})
        Tag(end, address) == [end |-> end, address |-> address]
        None == Tag(0, FALSE)
    IN IF stop - p < 3 THEN None
       ELSE IF /\ IsAt(s, p, stop, <<"<", "!", "-", "-">>)
               /\ comments # {}
       THEN Tag(Min(comments) + 1, FALSE)
       ELSE IF s[name] \notin Letters THEN None
       ELSE IF mail # 0 THEN Tag(mail, TRUE)
       ELSE IF scheme /\ addr < stop /\ addr > e + 1 /\ s[addr] = ">"
       THEN Tag(addr + 1, TRUE)
       ELSE IF close >= stop THEN None
       ELSE Tag(close + 1, FALSE)

-----------------------------------------------------------------------------
(***************************************************************************)
(* Addresses without brackets.                                             *)
(***************************************************************************)

\* Punctuation that ends the sentence, and a closing bracket that closes
\* what was opened before the address, do not belong to it.
AutolinkDelim(s, p, end) ==
    LET cut[e \in p..end] ==
            LET amp == Max({q \in p..e - 2 :
                               q = p \/ s[q] \notin Letters} \cup {p})
            IN IF e = p THEN p
               ELSE IF s[e - 1] \in {"?", "!", ".", ",", ":"} THEN cut[e - 1]
               ELSE IF s[e - 1] # ";" THEN e
               ELSE IF amp < e - 2 /\ s[amp] = "&" THEN cut[amp]
               ELSE cut[e - 1]
        e == cut[Until(s, p, end, {"<"})]
        Count(C) == Cardinality({q \in p..e - 1 : s[q] \in C})
        unpaired ==
            \/ s[e - 1] \in {"\"", "'"}
            \/ s[e - 1] = ")" /\ Count({"("}) # Count({")"})
            \/ s[e - 1] = "]" /\ Count({"["}) # Count({"]"})
            \/ s[e - 1] = "}" /\ Count({"{"}) # Count({"}"})
    IN IF e > p /\ unpaired THEN e - 1 ELSE e

\* Behind a host name with a dot in it.
DomainEnd(s, p, stop) ==
    LET e == Past(s, p + 1, stop - 1, Letters \cup {".", ":", "-"})
        dotted == \E q \in p + 1..e - 1 : s[q] \in {".", ":"}
    IN IF s[p] \in Letters /\ dotted THEN e ELSE 0

\* An address from `from', of which the special character at p is a part, to
\* `end'; the places between `from' and p have been put out as text.
NoAddress == [from |-> 0, end |-> 0]
Address(s, from, p, end) ==
    LET e == AutolinkDelim(s, p, end)
    IN IF e = p THEN NoAddress ELSE [from |-> from, end |-> e]

WwwAddress(s, p, stop, offset) ==
    LET host == DomainEnd(s, p, stop)
    IN IF \/ offset > 0 /\ s[p - 1] \in Letters
          \/ ~ IsAt(s, p, stop, <<"w", "w", "w", ".">>)
          \/ host = 0
       THEN NoAddress
       ELSE Address(s, p, p, Until(s, host, stop, Spaces))

\* The first of the characters of C right before p, at most offset of them.
Rewind(s, p, offset, C) ==
    Min({q \in p - offset..p : \A r \in q..p - 1 : s[r] \in C})

EmailAddress(s, p, stop, offset) ==
    LET from == Rewind(s, p, offset, Letters \cup {".", "+", "-", "_"})
        end == Min({q \in p..stop - 1 :
                       \/ s[q] \notin Letters \cup {"@", ".", "-", "_"}
                       \/ s[q] = "." /\ q = stop - 1} \cup {stop})
        Has(c) == Cardinality({q \in p..end - 1 : s[q] = c})
    IN IF \/ from = p
          \/ end - p < 2 \/ Has("@") # 1 \/ Has(".") = 0
          \/ s[end - 1] \notin Letters
       THEN NoAddress
       ELSE Address(s, from, p, end)

\* The schemes of valid_uris that may stand before "//".
Schemes == {<<"h", "t", "t", "p">>, <<"h", "t", "t", "p", "s">>, <<"f", "t", "p">>}

UrlAddress(s, p, stop, offset) ==
    LET from == Rewind(s, p, offset, Letters)
        host == DomainEnd(s, p + 3, stop)
    IN IF \/ ~ IsAt(s, p, stop, <<":", "/", "/">>) \/ stop - p < 4
          \/ SubSeq(s, from, p - 1) \notin Schemes \/ s[p + 3] \notin Letters
          \/ host = 0
       THEN NoAddress
       ELSE Address(s, from, p, Until(s, host, stop, Spaces))

-----------------------------------------------------------------------------
(***************************************************************************)
(* Links.                                                                  *)
(***************************************************************************)

\* The end of the destination that begins at `from': the parenthesis that
\* closes it, or a blank's successor that begins a title or dimensions.
DestEnd(s, from, stop) ==
    LET dest[at \in (from..stop + 1) \X Nat] ==
            LET p == at[1]      \* the place, and the parentheses open there
                open == at[2]
            IN IF p >= stop THEN 0
               ELSE IF s[p] = "\\" THEN dest[<<p + 2, open>>]
               ELSE IF s[p] = "(" THEN dest[<<p + 1, open + 1>>]
               ELSE IF s[p] = ")"
               THEN IF open = 0 THEN p ELSE dest[<<p + 1, open - 1>>]
               ELSE IF s[p - 1] \in Spaces /\ s[p] \in {"'", "\"", "="} THEN p
               ELSE dest[<<p + 1, open>>]
    IN dest[<<from, 0>>]

\* No backslash between `from' and p skips p, which is none.
Plain(s, from, p, stop) ==
    LET skip[q \in from + 1..stop + 1] ==
            IF q >= p THEN q = p
            ELSE skip[IF s[q] = "\\" THEN q + 2 ELSE q + 1]
    IN s[p] # "\\" /\ skip[from + 1]

\* The first of C behind p, or 0.
FirstPlain(s, from, p, stop, C) ==
    LET P == {q \in p + 1..stop - 1 : s[q] \in C /\ Plain(s, from, q, stop)}
    IN IF P = {} THEN 0 ELSE Min(P)

\* The parenthesis that closes the link whose destination ends at `from':
\* titles and dimensions come one after another in any order.
LinkClose(s, from, stop) ==
    LET after(p, C) == FirstPlain(s, from, p, stop, C)
        close[p \in 0..stop] ==
            LET quote == after(p, {s[p]})
                title == IF quote = 0 THEN 0 ELSE after(quote, {"=", ")"})
                dims == after(p, {"'", "\"", ")"})
            IN IF p = 0 \/ s[p] \notin {"'", "\"", "="} THEN p
               ELSE IF s[p] = "="
               THEN IF dims # 0 /\ s[dims] # ")" THEN close[dims] ELSE dims
               ELSE IF title # 0 /\ s[title] = "=" THEN close[title] ELSE title
    IN close[from]

\* What parse_ext_attrs returns for the attributes from a to b: one more
\* than there are characters, unless a single blank ends them.
ExtAttrs(s, a, b) ==
    IF a = b THEN 0
    ELSE IF b - a > 1 /\ s[b - 1] = " " /\ s[b - 2] # " " THEN b - a
    ELSE b - a + 1
=============================================================================
