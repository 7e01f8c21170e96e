----------------------------- MODULE TextLines -----------------------------
(***************************************************************************)
(* What texts are turned into on their way (utils/text/asciiutils): the    *)
(* UnixTextReader takes every CR out and sees to it that a text ends with  *)
(* LF; the SplitWriter breaks what is written to it into lines of one      *)
(* width.  Here io.Copy reads from one and writes to the other.            *)
(***************************************************************************)
EXTENDS Integers, SequencesExt

VARIABLES
    sent,       \* the whole text
    ahead,      \* what the reader below has not given yet
    tstate,     \* UnixTextReader.s: "NL", "Text", "EOF"
    terr,       \* the error of the last Read
    read,       \* what the UnixTextReader has given
    toWrite,    \* what the SplitWriter is writing
    column,     \* SplitWriter.I
    width,      \* SplitWriter.N
    written     \* what the SplitWriter has written

lineTextVars == <<sent, ahead, tstate, terr, read, toWrite, column, width, written>>

WithoutCR(s) == FlattenSeq([i \in DOMAIN s |-> IF s[i] = "CR" THEN <<>> ELSE <<s[i]>>])

\* sNL or sText, told by the last byte that is not CR.
StateAfter(s, got) == IF got = <<>> THEN s ELSE IF Last(got) = "LF" THEN "NL" ELSE "Text"

Gives(got, s, err) ==
    tstate' = s /\ terr' = err /\ read' = read \o got /\ toWrite' = got

\* Wrong: the LF that does not fit is forgotten.
AtEndNoRoom(got, s, n) ==
    IF s = "NL" \/ Len(got) = n THEN Gives(got, s, "EOF")
    ELSE Gives(Append(got, "LF"), "NL", "EOF")

\* The text is over: the LF it lacks is put in, in the next call if there is no
\* room for it.
AtEnd(got, s, n) ==
    IF s = "NL" THEN Gives(got, s, "EOF")
    ELSE IF Len(got) < n THEN Gives(Append(got, "LF"), "NL", "EOF")
    ELSE Gives(got, "EOF", "nil")

\* UnixTextReader.Read into n bytes.  The reader below gives some of them, and
\* says that it is at its end with the last ones or after them.
ReadText(n) ==
    /\ terr = "nil" /\ toWrite = <<>>
    /\ IF tstate = "EOF"
       THEN Gives(<<"LF">>, "NL", "EOF") /\ UNCHANGED ahead
       ELSE \E x \in 0..n :
                /\ x <= Len(ahead) /\ (x = 0 => ahead = <<>>)
                /\ ahead' = SubSeq(ahead, x + 1, Len(ahead))
                /\ LET got == WithoutCR(SubSeq(ahead, 1, x))
                       s == StateAfter(tstate, got)
                   IN  \/ ahead' # <<>> /\ Gives(got, s, "nil")
                       \/ ahead' = <<>> /\ x > 0 /\ Gives(got, s, "nil")
                       \/ ahead' = <<>> /\ AtEnd(got, s, n)
    /\ UNCHANGED <<sent, column, width, written>>

\* A turn of SplitWriter.Write's loop.
SplitLine ==
    /\ toWrite # <<>>
    /\ LET full == column >= width
           begin == IF full THEN 0 ELSE column
           room == width - begin
           n == IF Len(toWrite) > room THEN room ELSE Len(toWrite)
       IN  /\ written' = written \o (IF full THEN <<"LF">> ELSE <<>>) \o SubSeq(toWrite, 1, n)
           /\ column' = begin + n
           /\ toWrite' = SubSeq(toWrite, n + 1, Len(toWrite))
    /\ UNCHANGED <<sent, ahead, tstate, terr, read, width>>

LinesInit(texts, widths) ==
    /\ sent \in texts /\ ahead = sent /\ width \in widths
    /\ tstate = "NL" /\ terr = "nil" /\ read = <<>>
    /\ toWrite = <<>> /\ column = 0 /\ written = <<>>

LinesNext(rooms) == (\E n \in rooms : ReadText(n)) \/ SplitLine
-----------------------------------------------------------------------------
\* The text as it is kept: no CR, and LF at its end unless it is empty.
UnixText(s) ==
    LET t == WithoutCR(s) IN
    IF t = <<>> \/ Last(t) = "LF" THEN t ELSE Append(t, "LF")

\* s in lines of n bytes; no LF after the last one.
InLines(s, n) ==
    FlattenSeq([i \in DOMAIN s |->
                   IF i > 1 /\ (i - 1) % n = 0 THEN <<"LF", s[i]>> ELSE <<s[i]>>])

\* However a text comes, in pieces that end with a CR or between CR and LF, and
\* however small the buffers are, the reader gives the text without CR and with
\* an LF at its end, and the writer all of it in full lines, the last of which
\* is not empty.
TextTrue ==
    terr = "EOF" /\ toWrite = <<>> =>
        /\ read = UnixText(sent)
        /\ written = InLines(read, width)
=============================================================================
