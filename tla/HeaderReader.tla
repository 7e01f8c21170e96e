--------------------------- MODULE HeaderReader ---------------------------
(***************************************************************************)
(* The reader of message heads (mail/headerreader.go): the lines of a head *)
(* come in pieces as the buffered reader gets them, a line is put together *)
(* in h, a line that begins with a blank continues the one before it, and  *)
(* the empty line ends the head; what follows is the body.  A limit of the *)
(* head's size is put under the buffered reader while the head is read.    *)
(*                                                                         *)
(* "a" stands for every byte without a meaning, " " for blank and tab.     *)
(* That names are made canonical, NUL and broken UTF-8 are left out.       *)
(***************************************************************************)
EXTENDS BufReader

VARIABLES
    limit,      \* lr.N: bytes the limited reader may still read, -1: no limit
    allowed,    \* how long the head may be
    hat,        \* where readHeaderIntoFunc is
    h,          \* the current header, its lines put together
    start,      \* begin of the current line in h
    contStart,  \* begin of the header's content in h
    lastStart,  \* begin of the last line's content
    cur,        \* currHeader
    splits,     \* the lengths of the lines but the last one
    currFrag,   \* the last piece did not end its line
    heads,      \* what rhf was called with
    herr        \* the error that was returned

headVars == <<limit, allowed, hat, h, start, contStart, lastStart, cur, splits,
              currFrag, heads, herr>>

lineVars == <<h, start, contStart, lastStart, cur, splits, heads>>

Blank(c) == c = " "

\* The sequence without the blanks it begins with, ends with.
TrimLeft(s) ==
    LET solid == {i \in DOMAIN s : ~Blank(s[i])}
    IN  IF solid = {} THEN <<>> ELSE Rest(s, Min(solid) - 1)
TrimRight(s) ==
    LET solid == {i \in DOMAIN s : ~Blank(s[i])}
    IN  IF solid = {} THEN <<>> ELSE First(s, Max(solid))

\* Where the first c is in s, 0 if there is none.
IndexOf(s, c) == SelectInSeq(s, LAMBDA x : x = c)

ValidHeaderName(s) == \A i \in DOMAIN s : s[i] = "a"
validHeaderContent(s) == IndexOf(s, "CR") = 0

\* One read from below, through the limited reader if there is one.
Pull(wanted) ==
    IF limit = 0
    THEN \* b[0:0]: the reader below may know that it is at its end
         /\ queued' \in {"limit"} \cup (IF src = <<>> THEN {"EOF"} ELSE {})
         /\ UNCHANGED <<src, buf, lead, given, limit>>
    ELSE /\ Extend(IF limit < 0 THEN wanted ELSE Min({limit, wanted}))
         /\ limit' = IF limit < 0 THEN limit ELSE limit - (Len(src) - Len(src'))

\* estimateNumHeaders: CompactBuffer, then FillBufferUpto(0) until the buffer
\* is full or an error is queued.
HeadEstimate ==
    /\ hat = "estimate"
    /\ IF lead > 0
       THEN CompactBuffer /\ UNCHANGED <<hat, limit>>
       ELSE IF Len(buf) < size /\ queued = "nil"
       THEN Pull(size) /\ UNCHANGED hat
       ELSE hat' = "lines" /\ UNCHANGED <<readerVars, limit>>
    /\ UNCHANGED <<size, input, call, last, allowed, h, start, contStart,
                   lastStart, cur, splits, currFrag, heads, herr>>

HeadEnds(err) == hat' = "done" /\ herr' = err

\* finishCurrent: a header, if there is one, goes to rhf; then h holds next.
Current == SubSeq(h, contStart + 1, start)
Finishable == cur = <<>> \/ validHeaderContent(Current)
finishCurrent(next) ==
    /\ heads' = IF cur = <<>> THEN heads
                ELSE Append(heads, [name |-> cur, splits |-> splits,
                                    value |-> TrimRight(TrimLeft(Current))])
    /\ cur' = <<>> /\ splits' = <<>> /\ start' = 0 /\ lastStart' = 0 /\ h' = next
    /\ UNCHANGED contStart

\* Wrong: every piece is taken for the begin of a line.
HeadPieceAnew ==
    /\ hat = "lines" /\ buf # <<>>
    /\ LET n == IndexOf(buf, "LF")
           wb == IF n > 0 THEN First(buf, n - 1) ELSE buf
           taken == IF n > 0 THEN n ELSE Len(buf)
       IN  /\ Take(taken)
           /\ currFrag' = (n = 0)
           /\ IF wb # <<>> /\ ~Blank(wb[1])
              THEN finishCurrent(wb)
              ELSE /\ h' = h \o wb
                   /\ UNCHANGED <<start, contStart, lastStart, cur, splits, heads>>
           /\ hat' = IF n > 0 THEN "line" ELSE "lines"
    /\ UNCHANGED <<size, input, call, last, limit, allowed, herr>>

\* A piece of what is buffered: to the end of a line, or all there is.  The
\* first byte of a line tells whether the header before it is complete.
HeadPiece ==
    /\ hat = "lines" /\ buf # <<>>
    /\ LET n == IndexOf(buf, "LF")
           wb == IF n > 0 THEN First(buf, n - 1) ELSE buf
           taken == IF n > 0 THEN n ELSE Len(buf)
           begins == ~currFrag /\ wb # <<>> /\ ~Blank(wb[1])
       IN  /\ Take(taken)
           /\ currFrag' = (n = 0)
           /\ IF begins /\ ~Finishable
              THEN HeadEnds("content") /\ UNCHANGED lineVars
              ELSE /\ hat' = IF n > 0 THEN "line" ELSE "lines"
                   /\ IF begins
                      THEN finishCurrent(wb)
                      ELSE /\ h' = h \o wb
                           /\ UNCHANGED <<start, contStart, lastStart, cur, splits, heads>>
                   /\ UNCHANGED herr
    /\ UNCHANGED <<size, input, call, last, limit, allowed>>

\* The line that is complete now, without the CR of its CR LF.
CurrentLine ==
    LET full == Rest(h, start)
    IN  IF full # <<>> /\ full[Len(full)] = "CR" THEN Front(full) ELSE full

\* The empty line.  The original reader is put back, and if the limited one
\* has said no, that is forgotten.
HeadOver ==
    /\ hat = "line" /\ CurrentLine = <<>>
    /\ IF Finishable
       THEN finishCurrent(<<>>) /\ HeadEnds("nil")
       ELSE HeadEnds("content") /\ UNCHANGED lineVars
    /\ queued' = IF queued = "limit" THEN "nil" ELSE queued
    /\ limit' = -1
    /\ UNCHANGED <<size, input, src, buf, lead, given, call, last, allowed, currFrag>>

\* A line that begins a header.
HeadField ==
    /\ hat = "line" /\ CurrentLine # <<>> /\ ~Blank(CurrentLine[1])
    /\ LET line == CurrentLine
           colon == IndexOf(line, ":")
           name == TrimRight(First(line, colon - 1))
           content == Len(line) - Len(TrimLeft(Rest(line, colon)))
       IN  IF colon = 0 \/ name = <<>> \/ ~ValidHeaderName(name)
           THEN HeadEnds("name") /\ UNCHANGED lineVars
           ELSE /\ h' = First(h, start) \o line
                /\ cur' = name /\ start' = Len(h')
                /\ contStart' = content /\ lastStart' = content
                /\ hat' = "lines"
                /\ UNCHANGED <<splits, heads, herr>>
    /\ UNCHANGED <<bufVars, limit, allowed, currFrag>>

\* A line that continues one.
HeadFold ==
    /\ hat = "line" /\ CurrentLine # <<>> /\ Blank(CurrentLine[1])
    /\ IF cur = <<>> \/ start = lastStart \/ TrimLeft(CurrentLine) = <<>>
       THEN HeadEnds("fold") /\ UNCHANGED lineVars
       ELSE /\ h' = First(h, start) \o CurrentLine
            /\ splits' = Append(splits, start - lastStart)
            /\ lastStart' = start /\ start' = Len(h')
            /\ hat' = "lines"
            /\ UNCHANGED <<contStart, cur, heads, herr>>
    /\ UNCHANGED <<bufVars, limit, allowed, currFrag>>

\* FillBufferAtleast(1)
HeadMore ==
    /\ hat = "lines" /\ buf = <<>>
    /\ IF queued = "nil"
       THEN Pull(size) /\ UNCHANGED <<hat, herr>>
       ELSE readErr /\ HeadEnds(queued) /\ UNCHANGED limit
    /\ UNCHANGED <<size, input, call, last, allowed, lineVars, currFrag>>

\* SkipHeaders: byte by byte to an LF after an LF; currFrag is ~hadNL.
HeadSkip ==
    /\ hat = "skip"
    /\ IF buf # <<>>
       THEN /\ Take(1)
            /\ currFrag' = (Head(buf) # "LF")
            /\ IF Head(buf) = "LF" /\ ~currFrag
               THEN HeadEnds("nil")
               ELSE UNCHANGED <<hat, herr>>
       ELSE /\ UNCHANGED currFrag
            /\ IF queued = "nil"
               THEN Refill /\ UNCHANGED <<hat, herr>>
               ELSE readErr /\ HeadEnds(queued)
    /\ UNCHANGED <<size, input, call, last, limit, allowed, lineVars>>

\* Someone has read from the reader before and left bytes in its buffer.
HeadBefore ==
    /\ hat = "begin" /\ allowed # -2 /\ buf = <<>> /\ queued = "nil"
    /\ Refill
    /\ UNCHANGED <<size, input, call, last, headVars>>

\* ReadHeaders and limitedReadHeadersFromExisting: bytes that are buffered
\* count, but cannot be taken back.
HeadBegin ==
    /\ hat = "begin"
    /\ IF allowed = -2
       THEN hat' = "skip" /\ UNCHANGED <<limit, allowed>>
       ELSE /\ hat' = "estimate"
            /\ limit' = IF allowed < 0 THEN -1 ELSE Max({0, allowed - Len(buf)})
            /\ allowed' = IF allowed < 0 THEN -1 ELSE Max({allowed, Len(buf)})
    /\ UNCHANGED <<bufVars, lineVars, currFrag, herr>>

\* The limit is a number of bytes, -1: none, -2: SkipHeaders is called.
HeadInit(limits) ==
    /\ limit = -1 /\ allowed \in limits /\ hat = "begin"
    /\ h = <<>> /\ start = 0 /\ contStart = 0 /\ lastStart = 0
    /\ cur = <<>> /\ splits = <<>> /\ currFrag = FALSE
    /\ heads = <<>> /\ herr = "nil"

HeadNext ==
    \/ HeadEstimate \/ HeadPiece \/ HeadOver \/ HeadField \/ HeadFold
    \/ HeadMore \/ HeadSkip \/ HeadBefore \/ HeadBegin
-----------------------------------------------------------------------------
(* What a head says, defined on its lines. *)

\* The lines of s up to its first empty one, without their CR LF or LF.
Breaks(s) == SelectSeq([i \in 1..Len(s) |-> i], LAMBDA i : s[i] = "LF")
LinesOf(s) ==
    LET ends == Breaks(s)
        from(k) == IF k = 1 THEN 1 ELSE ends[k - 1] + 1
        bare(l) == IF l # <<>> /\ l[Len(l)] = "CR" THEN Front(l) ELSE l
    IN  [k \in DOMAIN ends |-> bare(SubSeq(s, from(k), ends[k] - 1))]

\* How many lines come before the empty one, -1 if there is none, and how
\* many bytes it ends after.
HeadLines(s) ==
    LET empty == {k \in DOMAIN LinesOf(s) : LinesOf(s)[k] = <<>>}
    IN  IF empty = {} THEN -1 ELSE Min(empty) - 1
HeadLength(s) == Breaks(s)[HeadLines(s) + 1]

Continues(line) == Blank(line[1])
Solid(s) == TrimLeft(s) # <<>>

Folds(lines, n, k) ==
    {j \in k..n : (\A i \in (k + 1)..j : Continues(lines[i]))}

FieldName(line) == TrimRight(First(line, IndexOf(line, ":") - 1))
FieldText(line) == TrimLeft(Rest(line, IndexOf(line, ":")))

GoodLine(lines, n, k) ==
    IF Continues(lines[k])
    THEN /\ k > 1 /\ Solid(lines[k])
         /\ Continues(lines[k - 1]) \/ Solid(FieldText(lines[k - 1]))
         /\ validHeaderContent(lines[k])
    ELSE /\ IndexOf(lines[k], ":") > 0
         /\ FieldName(lines[k]) # <<>> /\ ValidHeaderName(FieldName(lines[k]))
         /\ validHeaderContent(FieldText(lines[k]))

FieldOf(lines, n, k) ==
    LET last_k == Max(Folds(lines, n, k))
        parts == [i \in 1..(last_k - k + 1) |->
                    IF i = 1 THEN FieldText(lines[k]) ELSE lines[k + i - 1]]
    IN  [name |-> FieldName(lines[k]), value |-> TrimRight(FlattenSeq(parts)),
         splits |-> [i \in 1..(last_k - k) |-> Len(parts[i])]]

\* However a message arrives, its head is read as its lines say: the headers
\* with their folds, an error exactly if a line is wrong, the empty line is
\* missing or the head is longer than allowed; and the body begins right
\* after the empty line and can be read to its end.  SkipHeaders leaves the
\* same body of a message whose lines end with LF.
HeadTrue ==
    LET lines == LinesOf(input)
        n == HeadLines(input)
        firsts == SelectSeq([k \in 1..n |-> k], LAMBDA k : ~Continues(lines[k]))
    IN  hat = "done" =>
          /\ herr = "nil" <=>
                 /\ n >= 0
                 /\ allowed >= -1 => \A k \in 1..n : GoodLine(lines, n, k)
                 /\ allowed >= 0 => HeadLength(input) <= allowed
          /\ herr = "nil" =>
                 /\ allowed >= -1 =>
                        heads = [i \in DOMAIN firsts |-> FieldOf(lines, n, firsts[i])]
                 /\ buf \o src = Rest(input, HeadLength(input))
                 /\ queued = "nil" \/ (queued = "EOF" /\ src = <<>>)
=============================================================================
