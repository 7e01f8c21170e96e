----------------------------- MODULE MCReaders -----------------------------
(***************************************************************************)
(* What a connection brings and how it is taken apart: the buffered reader *)
(* and what reads through one, the writers of heads and lines, the form    *)
(* parser, which is given parts, what a puller is listed, and the session  *)
(* of an NNTP client.  A behaviour follows one of them (subject).          *)
(***************************************************************************)
EXTENDS DotReader, HeadWriter, PartReader, FormParser, PassingOn, MCListing,
        TextsAndLists, MCNNTPSession

CONSTANTS DotLength,    \* how long the inputs of the dot reader are
          LinesLength,  \* how long the texts of the UnixTextReader are
          WildmatLength \* how long wildmats are

VARIABLE subject        \* "buffer", "dot", "head", "part", "lines", "form", "post",
                        \* "list", "policy", "session"

textVars == <<bufVars, dotVars, headVars, partVars>>
readersVars == <<subject, textVars, formVars, lineTextVars, passVars, listVars,
                 policyVars, sessionVars>>

Texts(chars, n) == UNION {[1..k -> chars] : k \in 0..n}

\* Every text of up to DotLength characters, after a short block or none.
DotTexts ==
    {a \o x : a \in {<<>>, <<".", "LF">>}, x \in Texts({".", "CR", "LF", "a"}, DotLength)}

\* Lines that make and break a head, with both endings, and a rest.
HeadLine == {<<"a", ":", "a">>, <<"a", "a", " ", ":">>, <<" ", "a">>, <<" ">>,
             <<"a", ":", "CR", "a">>, <<>>}
HeadRests == {<<>>, <<"a">>, <<"a", ":">>, <<"LF">>}
HeadTexts(endings) ==
    {a \o x \o b \o y \o c \o x \o d : a, b \in HeadLine, c \in {<<" ", "a">>, <<>>},
                                        x, y \in endings, d \in HeadRests}

\* Lines that are boundaries, nearly or not.
PartLines == {<<"-", "-", "b">>, <<"-", "-", "b", "-", "-">>, <<"-", "-", "b", " ">>,
              <<"-", "-", "b", "a">>, <<"-">>, <<>>}
PartTexts ==
    {a \o n \o b \o m \o c \o n \o d :
        a, b, c \in PartLines, d \in {<<>>, <<"-", "-", "b", "-", "-">>},
        n \in {<<"LF">>, CRLF}, m \in {<<"LF">>, CRLF}}

MCHeaderOrder == <<<<"a", "a">>>>
MCPathName == <<"a">>
MCInstance == <<"a">>

\* Forms of up to three parts; only the last one can be cut short.
Whole == {[kind |-> k, size |-> n, cut |-> FALSE] : k \in {"field", "file"}, n \in 0..3}
         \cup {[kind |-> k, size |-> 0, cut |-> FALSE] : k \in {"other", "badhead"}}
Forms == UNION {{Append(s, [p EXCEPT !.cut = c]) :
                    s \in [1..n -> Whole], p \in Whole, c \in BOOLEAN} : n \in 0..2}
\* A limit for one file or for all, or both.
Limits == {l \in [memory : {2}, fields : {1}, count : {-1, 1}, single : {0, 2}, all : {0, 3}] :
               l.single > 0 \/ l.all > 0}
NoForm == <<>>
SomeLimits == {CHOOSE l \in Limits : TRUE}

\* Articles: one part of any kind, or two, or none, or a message inside.
Contents == Texts({"a", "LF", "CR", "0", "8"}, 2)
MailParts(inHead) ==
    {p \in [type : {"text", "other", "multi"}, charset : {"utf8", "latin", "odd"},
            cte : {"none", "base64", "qp", "odd"}, head : inHead, data : Contents] :
        p.type = "text" \/ p.charset = "utf8"}
MoreParts == [type : {"text", "multi"}, charset : {"utf8"}, cte : {"none", "base64"},
              head : {"some", "long"}, data : {<<"a">>, <<"0", "LF">>, <<"8">>}]
Mail(forms, partsOf, subjects) == [form : forms, subject : subjects, parts : partsOf]
Posts ==
    Mail({"single"}, {<<p>> : p \in MailParts({"none"})}, {"none", "plain", "coded", "blank"})
    \cup Mail({"parts"}, {<<p, q>> : p \in MailParts({"none"}), q \in MoreParts} \cup {<<>>}, {"plain"})
    \cup Mail({"message"}, {<<p>> : p \in {x \in MailParts({"none"}) : x.type = "other"}}, {"plain"})
NoPost == [form |-> "single", subject |-> "none", parts |-> <<>>]

\* Wildmats of clients, and policies.  One policy is asked about longer names.
Wildmats == Texts({"t", "o", "*", "?", ",", "!"}, WildmatLength) \cup {<<"t", "\\">>}
Policies == Texts({"c", "*", ",", "!"}, WildmatLength) \ {<<>>}
GroupNames(n) == Texts({"t", "o", "c", ".", "_"}, n) \ {<<>>}
MCCtl == <<"c">>
MCFirstReserved == {<<"t", "o">>}
MCAnyReserved == <<"t", "t">>
MCWholeReserved == <<"o", "o">>

ReadersInit ==
    /\ \/ subject = "buffer" /\ BufInit({<<"a", "q", "a", "a", "q">>}, 1..3)
       \/ subject = "dot" /\ BufInit(DotTexts, 1..2)
       \/ subject = "head" /\ BufInit(HeadTexts({<<"LF">>, CRLF}), {3, 24})
       \/ subject = "part" /\ BufInit(PartTexts, {10})
       \/ subject \in {"lines", "form", "post", "list", "policy", "session"} /\ BufInit({<<>>}, {1})
    /\ DotInit /\ PartInit
    /\ HeadInit(CASE subject # "head" -> {-1}
                  [] \A i \in DOMAIN input : input[i] # "CR" -> {-2, -1, 6}
                  [] OTHER -> {-1, 6})
    /\ IF subject = "form" THEN FormInit(Forms, Limits) ELSE FormInit({NoForm}, SomeLimits)
    /\ IF subject = "lines"
       THEN LinesInit(Texts({"CR", "LF", "a"}, LinesLength), 1..3)
       ELSE LinesInit({<<>>}, {1})
    /\ PassInit(IF subject = "post" THEN Posts ELSE {NoPost})
    /\ ListInit(IF subject = "list" THEN Lists ELSE {NoList})
    /\ IF subject = "policy" THEN PolicyInit(Wildmats, Policies) ELSE PolicyInit({<<>>}, {})
    /\ SessionInit /\ (subject # "session" => cfg = CHOOSE c \in Configs : TRUE)

ReadersNext ==
    /\ \/ subject = "buffer" /\ BufNext({1, 2, 4}, {"q"}) /\ UNCHANGED <<dotVars, headVars, partVars>>
       \/ subject = "dot" /\ DotNext({-1, 1}) /\ UNCHANGED <<headVars, partVars>>
       \/ subject = "head" /\ HeadNext /\ UNCHANGED <<dotVars, partVars>>
       \/ subject = "part" /\ PartNext({1, size}) /\ UNCHANGED <<dotVars, headVars>>
       \/ subject \in {"lines", "form", "post", "list", "policy", "session"} /\ UNCHANGED textVars
    /\ IF subject = "form" THEN FormNext ELSE UNCHANGED formVars
    /\ IF subject = "post" THEN PassNext ELSE UNCHANGED passVars
    /\ IF subject = "lines" THEN LinesNext(1..3) ELSE UNCHANGED lineTextVars
    /\ IF subject = "list" THEN ListNext ELSE UNCHANGED listVars
    /\ IF subject = "policy"
       THEN PolicyNext(GroupNames(IF filter.text = <<"*">> THEN 4 ELSE 2))
       ELSE UNCHANGED policyVars
    /\ IF subject = "session" THEN SessionNext ELSE UNCHANGED sessionVars
    /\ UNCHANGED subject

ReadersSpec == ReadersInit /\ [][ReadersNext]_readersVars

\* Heads are read as they are and written as they were read: HeadTrue and
\* WrittenTrue (headerreader.go, headerwriter.go).
HeadsTrue == HeadTrue /\ WrittenTrue
=============================================================================
