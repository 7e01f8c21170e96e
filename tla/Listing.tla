------------------------------ MODULE Listing ------------------------------
(***************************************************************************)
(* How the puller reads what a server lists (client_puller_utils.go and    *)
(* the loops over it in client_puller.go): overviews field by field, the   *)
(* lines of HDR, LIST, LIST NEWSGROUPS and CAPABILITIES one by one, through *)
(* a buffer of one size.  A DotReader gives the text: it ends after a line, *)
(* or is cut where the connection ends.  And how it reads responses        *)
(* (client_common.go), which it takes off the connection itself.           *)
(*                                                                         *)
(* A letter stands for a whole message-id or name ("m", "n", "g") and takes *)
(* one byte of the buffer; "x" is neither id, name nor number.             *)
(***************************************************************************)
EXTENDS TextParts

CONSTANTS InbufLen,     \* len(NNTPClient.inbuf)
          WordSize      \* how many numbers there are in a uint64

ASSUME InbufAssumption == InbufLen \in Nat \ {0}

VARIABLES
    list,      \* how it was asked for, its text, whether that is cut, and
               \* what was asked for: begin, end, at most max
    pos,       \* how much of the text has been consumed
    line,      \* getOverLineInfo: its variables and where it is
    listed,     \* what the list has been found to say
    outcome    \* "reading", "read", "failed"

listVars == <<list, pos, line, listed, outcome>>

Blanks == {"SP", "TAB"}
Digit == {"0", "1", "2", "9"}
ValueOf(d) == CASE d = "0" -> 0 [] d = "1" -> 1 [] d = "2" -> 2 [] d = "9" -> 9

Words(s) == OtherThan(<<>>, Split(s, Blanks))
Trimmed(s) ==
    LET inside == {i \in DOMAIN s : s[i] \notin Blanks} IN
    IF inside = {} THEN <<>> ELSE SubSeq(s, Min(inside), Max(inside))

IsNumber(s) == s # <<>> /\ \A i \in DOMAIN s : s[i] \in Digit
Number(s) == FoldLeft(LAMBDA n, d : (n * 10 + ValueOf(d)) % WordSize, 0, s)
IsId(s) == s \in {<<"m">>, <<"n">>}
IsGroup(s) == s # <<>> /\ "x" \notin Range(s)
FirstReference(s) ==
    LET w == Words(s)
        ids == {i \in DOMAIN w : IsId(w[i])}
    IN  IF ids = {} THEN <<>> ELSE w[Min(ids)]

-----------------------------------------------------------------------------
(***************************************************************************)
(* Reading.                                                                *)
(***************************************************************************)

Text == list.text

\* Where the next member of S is, or 0.
NextOf(S) ==
    LET at == {i \in pos + 1 .. Len(Text) : Text[i] \in S} IN IF at = {} THEN 0 ELSE Min(at)

AtTextEnd == IF list.cut THEN "broken" ELSE "EOF"

\* The bytes up to the next member of S, of which room can be kept; the byte
\* that finds no room is lost.
ReadTo(S, room) ==
    LET e == NextOf(S)
        s == SubSeq(Text, pos + 1, IF e = 0 THEN Len(Text) ELSE e - 1)
    IN  IF Len(s) > room THEN [err |-> "too large", s |-> <<>>, pos |-> pos + room + 1]
        ELSE IF e = 0 THEN [err |-> AtTextEnd, s |-> <<>>, pos |-> Len(Text)]
        ELSE [err |-> "nil", s |-> s, pos |-> e]

\* The list is refused: the deferred dr.Discard(-1) leaves nothing of it.
Refuse == outcome' = "failed" /\ pos' = Len(Text) /\ UNCHANGED <<line, listed>>

-----------------------------------------------------------------------------
(***************************************************************************)
(* OVER and XOVER: getOverLineInfo.  A line of it is number, subject,      *)
(* author, date, message-id, references and what may follow.               *)
(***************************************************************************)

NewLine == [field |-> "number", fill |-> 0, nomore |-> FALSE, err |-> "nil",
            id |-> 0, msgid |-> <<>>, ref |-> <<>>]

FieldAfter(field) ==
    CASE field = "subject" -> "author" [] field = "author" -> "date"
      [] field = "date" -> "message-id"

\* A field has been read: how the line stands.
Ate(got) ==
    [line EXCEPT !.fill = @ + Len(got.s), !.err = got.err,
                 !.nomore = got.err = "nil" /\ Text[got.pos] = "LF"]

InLine(fields) == list.how = "over" /\ outcome = "reading" /\ line.field \in fields

\* A number without anything behind it is left as 0.
OverNumber ==
    /\ InLine({"number"})
    /\ LET got == ReadTo({"TAB", "LF"}, InbufLen)
           l == Ate(got)
           n == Trimmed(got.s)
       IN  /\ pos' = got.pos
           /\ line' = IF l.err # "nil" \/ l.nomore THEN [l EXCEPT !.field = "end"]
                      ELSE IF IsNumber(n) THEN [l EXCEPT !.field = "subject", !.id = Number(n)]
                      ELSE [l EXCEPT !.field = "end", !.err = "bad id"]
    /\ UNCHANGED <<list, listed, outcome>>

\* ignoreField, which needs no room.
OverIgnored ==
    /\ InLine({"subject", "author", "date"})
    /\ LET got == ReadTo({"TAB", "LF"}, Len(Text))
           l == [Ate(got) EXCEPT !.fill = line.fill]
       IN  /\ pos' = got.pos
           /\ line' = IF l.err # "nil" THEN [l EXCEPT !.field = "end"]
                      ELSE IF l.nomore THEN [l EXCEPT !.field = "end", !.err = "wanted more"]
                      ELSE [l EXCEPT !.field = FieldAfter(@)]
    /\ UNCHANGED <<list, listed, outcome>>

OverMsgID ==
    /\ InLine({"message-id"})
    /\ LET got == ReadTo({"TAB", "LF"}, InbufLen - line.fill)
           l == Ate(got)
           m == Trimmed(got.s)
       IN  /\ pos' = got.pos
           /\ line' = IF l.err # "nil" THEN [l EXCEPT !.field = "end"]
                      ELSE IF IsId(m) THEN [l EXCEPT !.field = "references", !.msgid = m]
                      ELSE [l EXCEPT !.field = "end", !.err = "invalid msg-id"]
    /\ UNCHANGED <<list, listed, outcome>>

\* Without such a field, eatField gives nothing and no error.
OverReferences ==
    /\ InLine({"references"})
    /\ IF line.nomore
       THEN line' = [line EXCEPT !.field = "end"] /\ UNCHANGED pos
       ELSE LET got == ReadTo({"TAB", "LF"}, InbufLen - line.fill) IN
            /\ pos' = got.pos
            /\ line' = [Ate(got) EXCEPT !.field = "end", !.ref = FirstReference(got.s)]
    /\ UNCHANGED <<list, listed, outcome>>

\* "if we didn't ask for this, don't include", and the safeguard.
AskedFor(l, id) ==
    /\ id # 0 /\ id >= l.begin
    /\ IF l.end >= 0 THEN id <= l.end ELSE id < l.begin + l.max

Include(entry) ==
    listed' = IF AskedFor(list, entry.id) /\ Len(listed) < list.max THEN Append(listed, entry) ELSE listed

\* (Wrong variant: drains after the end of the line, too.)
DrainedAlways == IF NextOf({"LF"}) = 0 THEN Len(Text) ELSE NextOf({"LF"})

\* What the deferred function of getOverLineInfo leaves unread.
Drained == IF line.nomore THEN pos ELSE IF NextOf({"LF"}) = 0 THEN Len(Text) ELSE NextOf({"LF"})

\* The deferred function, and what eatOverOutput does with the line: one that is
\* not understood is skipped.
OverEnd ==
    /\ InLine({"end"})
    /\ LET broken == line.err = "broken" \/ (~line.nomore /\ list.cut /\ NextOf({"LF"}) = 0) IN
       \/ broken /\ Refuse
       \/ ~broken /\ line.err = "EOF" /\ outcome' = "read" /\ UNCHANGED <<pos, line, listed>>
       \/ /\ ~broken /\ line.err # "EOF"
          /\ pos' = Drained
          /\ IF line.err = "nil"
             THEN Include([id |-> line.id, msgid |-> line.msgid, ref |-> line.ref])
             ELSE UNCHANGED listed
          /\ line' = NewLine
          /\ UNCHANGED outcome
    /\ UNCHANGED list

-----------------------------------------------------------------------------
(***************************************************************************)
(* The other lists.  A line gives at most one entry, or is bad.            *)
(***************************************************************************)

Malformed == [bad |-> TRUE, entries |-> <<>>]
Yields(entries) == [bad |-> FALSE, entries |-> entries]

\* eatHdrMsgIDLine
HdrLine(s) ==
    LET w == Words(s) IN
    IF w = <<>> \/ w[1] = <<"(none)">> THEN Yields(<<>>)
    ELSE IF IsNumber(w[1]) /\ Len(w) = 2 /\ IsId(w[2])
         THEN Yields(<<[id |-> Number(w[1]), msgid |-> w[2], ref |-> <<>>]>>)
    ELSE Malformed

\* What doActiveList makes of the two marks, for a server that is known to give
\* them wrong and others.
ActiveMark(l, hiwm, lowm) ==
    IF hiwm < lowm THEN (IF l.stupid THEN -1 ELSE 0)
    ELSE IF hiwm >= WordSize \div 2 THEN WordSize \div 2 - 1
    ELSE hiwm

\* parseListActiveLine: name, high mark, low mark and, maybe, status.
ActiveLine(l, s) ==
    LET w == Words(s) IN
    IF /\ s # <<>> /\ s[1] \notin Blanks
       /\ Len(w) \in 3..4 /\ IsGroup(w[1]) /\ IsNumber(w[2]) /\ IsNumber(w[3])
    THEN Yields(<<[name |-> w[1], mark |-> ActiveMark(l, Number(w[2]), Number(w[3]))]>>)
    ELSE Malformed

\* readOnlyNewsgroup: blanks before the name do not count.
NewsgroupLine(s) ==
    LET w == Words(s) IN
    IF w # <<>> /\ IsGroup(w[1]) THEN Yields(<<[name |-> w[1], mark |-> -1]>>) ELSE Malformed

\* doCapabilities, the words it knows: any line may stand there.
CapabilityLine(s) ==
    LET w == Words(s)
        named == s # <<>> /\ s[1] \notin Blanks
    IN  Yields(IF named /\ w[1][1] \in {"HDR", "OVER", "READER"} THEN <<w[1]>>
             ELSE IF named /\ w[1] = <<"IMPLEMENTATION">> /\ Len(w) > 1 /\ w[2] = <<"srndv2">>
                  THEN <<w[2]>>
             ELSE <<>>)

\* parseResponseCode: three digits, the end or a space; and the words that
\* parseResponseArguments makes of what follows.  A line that is not understood
\* is an answer, too.
ResponseLine(s) ==
    IF /\ Len(s) >= 3 /\ IsNumber(SubSeq(s, 1, 3)) /\ ValueOf(s[1]) \in 1..5
       /\ Len(s) > 3 => s[4] = "SP"
    THEN Yields(<<[code |-> SubSeq(s, 1, 3),
                   args |-> OtherThan(<<>>, Split(SubSeq(s, 4, Len(s)), {"SP"}))]>>)
    ELSE Yields(<<[code |-> <<>>, args |-> <<>>]>>)

\* readLine takes the end of the line into the buffer, and drops it.
LineOf(s) == IF s # <<>> /\ Last(s) = "CR" THEN Front(s) ELSE s

Understood(l, s) ==
    CASE l.how = "hdr" -> HdrLine(s)
      [] l.how = "response" -> ResponseLine(LineOf(s))
      [] l.how = "active" -> ActiveLine(l, s)
      [] l.how = "newsgroups" -> NewsgroupLine(s)
      [] l.how = "capabilities" -> CapabilityLine(s)

\* What has to fit into the buffer: of a line of LIST NEWSGROUPS, the name; of
\* a response, the line and its end.
Kept(l, s) ==
    CASE l.how = "response" -> Append(s, "LF")
      [] l.how = "newsgroups" -> IF Words(s) = <<>> THEN <<>> ELSE Words(s)[1]
      [] OTHER -> s

\* readDotLine, readOnlyNewsgroup or readLine, and the turn of the loop around it.
EatLine ==
    /\ list.how # "over" /\ outcome = "reading"
    /\ LET got == ReadTo({"LF"}, Len(Text)) IN
       IF got.err = "EOF" THEN outcome' = "read" /\ pos' = got.pos /\ UNCHANGED <<line, listed>>
       ELSE IF got.err # "nil" \/ Len(Kept(list, got.s)) > InbufLen \/ Understood(list, got.s).bad THEN Refuse
       ELSE /\ pos' = got.pos
            /\ LET e == Understood(list, got.s).entries IN
               IF list.how = "hdr" /\ e # <<>> THEN Include(e[1]) ELSE listed' = listed \o e
            /\ UNCHANGED <<line, outcome>>
    /\ UNCHANGED list

-----------------------------------------------------------------------------

ListInit(lists) ==
    /\ list \in lists
    /\ pos = 0 /\ line = NewLine /\ listed = <<>> /\ outcome = "reading"

ListNext ==
    OverNumber \/ OverIgnored \/ OverMsgID \/ OverReferences \/ OverEnd \/ EatLine

-----------------------------------------------------------------------------
(***************************************************************************)
(* What a list says, from the whole of its text.                           *)
(***************************************************************************)

ListLines(s) == Front(Split(s, {"LF"}))

\* The overview in a line, if it has one that can be understood.
OverviewOf(s) ==
    LET f == Split(s, {"TAB"})
        refs == IF Len(f) > 5 THEN f[6] ELSE <<>>
    IN  IF /\ Len(f) > 4 /\ IsNumber(Trimmed(f[1])) /\ IsId(Trimmed(f[5]))
           /\ Len(f[1]) + Len(f[5]) + Len(refs) <= InbufLen
        THEN Yields(<<[id |-> Number(Trimmed(f[1])), msgid |-> Trimmed(f[5]),
                     ref |-> FirstReference(refs)]>>)
        ELSE Malformed

EntriesOf(l, s) == IF l.how = "over" THEN OverviewOf(s).entries ELSE Understood(l, s).entries

\* Of an overview and of HDR, what was asked for.
Chosen(l, e) ==
    IF l.how \notin {"over", "hdr"} \/ e = <<>> \/ AskedFor(l, e[1].id) THEN e ELSE <<>>

WhatIsListed(l, lines) ==
    LET all == FlattenSeq([k \in DOMAIN lines |-> Chosen(l, EntriesOf(l, lines[k]))]) IN
    IF l.how \notin {"over", "hdr"} \/ Len(all) < l.max THEN all ELSE SubSeq(all, 1, l.max)

\* A line that no list has.
RefusedLine(l, s) == Understood(l, s).bad \/ Len(Kept(l, s)) > InbufLen

\* A list that is read has been read to its end and says what its lines say: no
\* line that is skipped or too long takes a neighbour with it or lends it a
\* field.  One that is refused, because it is cut or has a bad line, leaves
\* nothing on the wire for the next answer to be listed from.  An overview is
\* refused only if it is cut (client_puller.go:681-806).
ListTrue ==
    /\ outcome = "read" =>
          ~list.cut /\ pos = Len(Text) /\ listed = WhatIsListed(list, ListLines(Text))
    /\ outcome = "failed" =>
          /\ pos = Len(Text)
          /\ list.cut \/ (list.how # "over" /\ \E s \in Range(ListLines(Text)) : RefusedLine(list, s))
=============================================================================
