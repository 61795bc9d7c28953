------------------------------ MODULE MCInline ------------------------------
(* Texts and documents for TLC: all short sequences of a few pieces each. *)
EXTENDS FirstPass, TLC

Words(pieces, n, extensions) == [pieces |-> pieces, most |-> n, ext |-> extensions]

A == <<"a">>
Blank == <<" ">>
Star == <<"*">>
Stars == <<"*", "*">>
Slash == <<"\\">>
Bang == <<"!">>
Open == <<"[">>
Close == <<"]">>
ToU == <<"]", "(", "u", ")">>
LinkToU == <<"[", "a">> \o ToU

MCInputs == {
    \* emphasis of every length, code and brackets in it, escaped delimiters
    Words({Star, Stars, A, Blank, <<"tick">>, <<"[", "a", "]">>}, 4, {}),
    Words({Star, A, Slash, <<"tick">>, Open, Close}, 4, {}),
    Words({Star, A, <<"_">>, Blank, <<"(">>}, 4, {"NOINTEM"}),
    Words({<<"~", "~">>, <<"=", "=">>, Stars, A}, 4, {"STRIKE", "HILITE"}),
    \* links, references and images; titles and dimensions; attributes
    Words({Open, Close, ToU, LinkToU, <<"[", "u", "]">>, Bang, A}, 4, {}),
    Words({<<"[", "a", "]", "(", "u">>, <<" ", "'", "u", "'">>, <<" ", "=", "u">>,
           <<"(">>, <<")">>, <<"'">>, Slash}, 4, {}),
    Words({LinkToU, Bang, <<"{", ".", "t", "}">>, <<"{", "t", " ">>, <<"}">>, Star}, 4,
          {"ATTRS"}),
    Words({<<"[", "^", "k", "]">>, <<"[", "%", "k", "]">>, <<"[", "^", "]">>, Bang, A,
           Open, Close}, 4,
          {"FOOTNOTES", "METADATA"}),
    \* addresses, in brackets and not, and tags
    Words({<<"a", "@", "b", ".", "t">>, <<"h", "t", "t", "p", ":", "/", "/", "a", ".", "b">>,
           <<"w">>, Blank, Star, <<"<">>, <<">">>, Open, ToU}, 4, {"AUTOLINK"}),
    Words({<<"w", "w", "w", ".", "a", ".", "b">>, A, Blank, <<"(">>, <<")">>,
           <<"&", "t", ";">>}, 4, {"AUTOLINK"}),
    Words({<<"<">>, A, <<">">>, <<"&">>, <<";">>, <<"!", "-", "-">>, <<"-", "-">>}, 4, {}),
    \* formulas, superscripts, line breaks
    Words({<<"$">>, Slash, <<"(">>, <<")">>, A}, 4, {"MATH"}),
    Words({<<"\\", "\\", "[">>, <<"\\", "\\", "]">>, A, Star}, 4, {"MATH"}),
    Words({<<"^">>, <<"^", "(">>, <<")">>, <<"^", "(", "a", ")">>, A, Blank, Star}, 4, {"SUPER"}),
    Words({<<" ", " ">>, <<"\n">>, A, Star}, 5, {}),
    Words({Blank, <<"\n">>, A, Slash}, 4, {"COMMONMARK"}) }

MCDefs == [notes |-> {<<"k">>}, refs |-> {<<"u">>}, metas |-> {<<"k">>}]

Document(pieces, n, extensions) ==
    Words(pieces, n, extensions) @@ [start |-> <<>>, meta |-> <<>>, metaovr |-> <<>>]

Newline == <<"\n">>
DefK == <<"[", "k", "]", ":">>
NoteK == <<"[", "^", "k", "]", ":">>
RefK == <<"[", "k", "]">>

MCDocuments == {
    \* definitions of links, their titles on the line and on the next one
    Document({DefK, Blank, <<"u">>, Newline, <<"'">>}, 5, {}),
    Document({DefK \o <<" ", "u">>, <<" ", "'">>, <<"'">>, A, Newline, <<"\n", " ", "(">>, <<")">>}, 4, {}),
    Document({DefK \o <<"u", " ">>, <<"(">>, <<")">>, <<"{", ".", "t">>, <<"}">>, A, Newline}, 4, {"ATTRS"}),
    \* footnotes of several lines, references to them
    Document({NoteK, <<" ", "a">>, Newline, <<"b">>, <<"[", "^", "k", "]">>}, 5, {"FOOTNOTES"}),
    \* metadata, and references to it
    Document({A, <<"b">>, <<":">>, Blank, Newline}, 5, {"METADATA"}),
    Document({<<"a", ":">>, <<"b">>, <<" ", " ">>, Newline, <<"\n", "\n">>, <<"[", "%", "a", "]">>}, 4, {"METADATA"}),
    \* metadata given as well, and a byte order mark
    [Document({A, <<":">>, <<"b">>, Newline}, 4, {"METADATA"})
     EXCEPT !.start = <<"bom">>,
            !.meta = << <<"a", ":", "u", "\n">>, <<"k", "\n">>, <<"b", ":", "u", " ", "\n", "k", ":">> >>,
            !.metaovr = << <<"b", ":", "k", "\n", " ", "u", "\n", "k", ":", "t", "\n">> >>],
    \* tabs, empty lines, and all at once
    Document({<<"\t">>, A, Newline, Blank, NoteK}, 5, {"FOOTNOTES"}),
    Document({DefK \o <<"u">>, NoteK \o <<" ">>, A, <<"'">>, <<"\r">>, Newline}, 4, {"FOOTNOTES"}),
    Document({<<"a", ":", "b">>, <<"\n", "\n">>, DefK \o <<"u">>, NoteK \o <<" ", "b">>,
           RefK \o <<"[", "^", "k", "]">>}, 5, {"METADATA", "FOOTNOTES"}) }
=============================================================================
