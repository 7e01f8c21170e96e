----------------------------- MODULE MCListing -----------------------------
(***************************************************************************)
(* The lists that Listing is given: lines put together from words.         *)
(***************************************************************************)
EXTENDS Listing

\* Overviews: lines of every number of fields, good and bad in each of those
\* that are looked at, too long for the buffer in each, alone and with another.
Joined(sep, fields) == FoldLeft(LAMBDA s, f : s \o <<sep>> \o f, Head(fields), Tail(fields))
Numbers == {<<"1">>, <<"SP", "2", "SP">>, <<"2", "1">>, <<"x">>, <<>>,
            <<"0", "0", "0", "0", "0", "1">>, <<"0", "0", "0", "0", "0", "0", "0", "0", "1">>}
MsgIDs == {<<"m">>, <<"SP", "n">>, <<"x">>, <<"m", "SP", "SP", "SP", "SP">>}
Refs == {<<>>, <<"x", "SP", "n">>, <<"m", "n", "m", "n">>}
LongWord == [i \in 1..InbufLen + 1 |-> "x"]
Ignored == <<<<"x">>, LongWord, <<>>>>
Overviews ==
    {Joined("TAB", <<n>> \o Ignored \o <<m>> \o more) :
        n \in Numbers, m \in MsgIDs, more \in {<<>>} \cup {<<r>> : r \in Refs} \cup {<<r, <<"x">>>> : r \in Refs}}
    \cup {Joined("TAB", <<n>> \o SubSeq(Ignored, 1, k)) : n \in Numbers, k \in 0..3}
OtherOverviews ==
    {Joined("TAB", <<<<"2">>>> \o Ignored \o <<<<"n">>>> \o more) : more \in {<<>>, <<<<"m">>>>}}
    \cup {Joined("TAB", <<<<"x">>, <<"x">>>>)}

\* Lines of words for the other lists.
Lined(words) == {Joined("SP", w) : w \in UNION {[1..n -> words] : n \in 1..2}} \cup {<<>>}
HdrLines == Lined({<<"1">>, <<"2">>, <<"9">>, <<"m">>, <<"x">>, <<"(none)">>, <<>>})
            \cup {<<"1", "TAB", "m", "SP">>, <<"1", "SP", "m", "SP", "x">>, <<"SP", "SP", "2", "SP", "n">>}
ActiveLines ==
    {Joined("SP", <<g, h, l>> \o more) :
        g \in {<<"g">>, <<>>, <<"x">>}, h \in {<<"2">>, <<"9">>, <<"x">>}, l \in {<<"0">>, <<"9">>, <<"x">>},
        more \in {<<>>, <<<<"x">>>>, <<<<"x">>, <<"x">>>>}}
GroupLines == Lined({<<"g">>, <<"h">>, <<"x">>, <<>>, [i \in 1..InbufLen + 1 |-> "g"]})
CapLines == Lined({<<"HDR">>, <<"OVER">>, <<"IMPLEMENTATION">>, <<"srndv2">>, <<>>, LongWord})

\* Responses: codes, and nearly codes, with and without words behind them.
Responses ==
    {c \o a \o e : c \in {<<"2", "1", "1">>, <<"2", "1">>, <<"2", "1", "1", "2">>, <<"9", "0", "0">>,
                         <<"1", "x", "0">>, <<>>},
                  a \in {<<>>, <<"SP">>, <<"SP", "1", "SP", "m">>, <<"SP", "SP", "m">>, <<"TAB", "m">>},
                  e \in {<<>>, <<"CR">>}}

OneOrTwo(lines, others) ==
    {x \o <<"LF">> : x \in lines} \cup {x \o <<"LF">> \o y \o <<"LF">> : x \in lines, y \in others} \cup {<<>>}
CutShort(texts) == UNION {{SubSeq(t, 1, n) : n \in 0..Len(t)} : t \in texts}
Queries(how, texts, cut, ranges, stupid) ==
    [how : {how}, text : texts, cut : {cut}, begin : {1}, end : ranges, max : {1, 2}, stupid : stupid]
Lists ==
    UNION {Queries("over", OneOrTwo(Overviews, OtherOverviews), FALSE, {-1, 2}, {FALSE}),
           Queries("over", CutShort(OneOrTwo(OtherOverviews, OtherOverviews)), TRUE, {-1}, {FALSE}),
           Queries("hdr", OneOrTwo(HdrLines, HdrLines), FALSE, {-1, 2}, {FALSE}),
           Queries("active", OneOrTwo(ActiveLines, {<<"h", "SP", "2", "SP", "1">>}), FALSE, {-1}, BOOLEAN),
           Queries("newsgroups", OneOrTwo(GroupLines, GroupLines), FALSE, {-1}, {FALSE}),
           Queries("capabilities", OneOrTwo(CapLines, CapLines), FALSE, {-1}, {FALSE}),
           Queries("response", OneOrTwo(Responses, {<<"2", "1", "1", "SP", "m", "CR">>}), FALSE, {-1}, {FALSE}),
           Queries("hdr", CutShort({<<"1", "SP", "m", "LF", "2", "SP", "n", "LF">>}), TRUE, {-1}, {FALSE}),
           Queries("newsgroups", CutShort({<<"g", "LF", "h", "SP", "x", "LF">>}), TRUE, {-1}, {FALSE})}
NoList == [how |-> "over", text |-> <<>>, cut |-> FALSE, begin |-> 1, end |-> -1, max |-> 1, stupid |-> FALSE]
=============================================================================
