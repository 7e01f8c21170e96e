---------------------------- MODULE PartReader ----------------------------
(***************************************************************************)
(* The reader of multipart bodies (mail/multireader.go).  NextPart goes    *)
(* through lines to the next boundary, Read hands out the bytes before the *)
(* one after it, which may come in two or more pieces.                     *)
(*                                                                         *)
(* The boundary is "b"; " " stands for blank and tab.  What a part is read *)
(* through is a buffered reader of its own, which only passes on what read *)
(* returns and is not modelled; ReadHeaders of a part is HeaderReader.     *)
(***************************************************************************)
EXTENDS BufReader

VARIABLES
    pat,        \* what runs: nextPart, read, nothing or never again
    pn,         \* pr.n: how many buffered bytes belong to the part
    perr,       \* pr.err
    rpart,      \* pr.rpart
    nl,         \* pr.nl
    partsRead,  \* pr.partsRead
    truncated,  \* nextPart: a line did not fit into the buffer
    expectNew,  \* nextPart: expectNewPart
    want,       \* read: len(b)
    leaving,    \* the rest of the part is discarded
    parts,      \* the parts so far: the bytes read, and whether to the end
    presult     \* what ended it all

partVars == <<pat, pn, perr, rpart, nl, partsRead, truncated, expectNew, want,
              leaving, parts, presult>>

dashBoundary == <<"-", "-", "b">>
nlDashBoundary(n) == n \o dashBoundary
CRLF == <<"CR", "LF">>

\* s without the blanks it begins with.
skipWS(s) ==
    LET solid == {i \in DOMAIN s : s[i] # " "}
    IN  IF solid = {} THEN <<>> ELSE Rest(s, Min(solid) - 1)

Dashed(s) == Len(s) >= 2 /\ s[1] = "-" /\ s[2] = "-"

\* Where s begins in b, -1 if it does not.
Index(b, s) ==
    LET at == {i \in 0..(Len(b) - Len(s)) : SubSeq(b, i + 1, i + Len(s)) = s}
    IN  IF at = {} THEN -1 ELSE Min(at)

\* Wrong: a boundary without its line's end in the buffer is none.
checkAfterPrefixHasty(b) ==
    LET rest == skipWS(IF Dashed(b) THEN Rest(b, 2) ELSE b)
    IN  IF IsPrefix(nl, rest) \/ (Dashed(b) /\ rest = <<>> /\ perr = "EOF")
        THEN "yes" ELSE IF b = <<>> THEN "more" ELSE "no"

\* Does what follows the boundary complete it: "yes", "no", or "more" bytes
\* are needed to tell?
checkAfterPrefix(b) ==
    LET rest == skipWS(IF Dashed(b) THEN Rest(b, 2) ELSE b)
    IN  IF b = <<>> \/ b = <<"-">> THEN "more"
        ELSE IF b[1] = "-" /\ ~Dashed(b) THEN "no"
        ELSE IF rest = <<>>
        THEN IF Dashed(b) /\ perr = "EOF" THEN "yes" ELSE "more"
        ELSE IF Len(rest) < Len(nl) THEN "more"
        ELSE IF First(rest, Len(nl)) = nl THEN "yes" ELSE "no"

\* checkReadable: how many of the bytes that are buffered belong to the part,
\* and whether it ends after them.
checkReadable ==
    LET delim == nlDashBoundary(nl)
        at == Index(buf, delim)
        after == checkAfterPrefix(Rest(buf, at + Len(delim)))
        first == checkAfterPrefix(Rest(buf, Len(dashBoundary)))
        ends == {i \in DOMAIN buf : buf[i] = nl[1]}
    IN  IF rpart = 0 /\ IsPrefix(dashBoundary, buf)
        THEN [n |-> IF first = "no" THEN Len(dashBoundary) ELSE 0, eof |-> first = "yes"]
        ELSE IF rpart = 0 /\ IsPrefix(buf, dashBoundary)
        THEN [n |-> 0, eof |-> FALSE]
        ELSE IF at >= 0
        THEN [n |-> IF after = "no" THEN at + Len(delim) ELSE at, eof |-> after = "yes"]
        ELSE IF ends # {} /\ IsPrefix(Rest(buf, Max(ends) - 1), delim)
        THEN [n |-> Max(ends) - 1, eof |-> FALSE]   \* it may begin there
        ELSE [n |-> Len(buf), eof |-> FALSE]

\* br.FillBufferAtleast(1)
FillOne ==
    IF queued # "nil"
    THEN readErr /\ perr' = queued
    ELSE Extend(size) /\ UNCHANGED perr

readUnchanged == <<size, input, call, last>>

PartsEnd(err) == pat' = "done" /\ presult' = err

\* The user reads, or asks for the next part and so discards the rest.
PartCall(wants) ==
    /\ pat = "part"
    /\ pat' = "read"
    /\ \/ leaving' = FALSE /\ want' \in wants
       \/ leaving' = TRUE /\ want' = size
    /\ UNCHANGED <<bufVars, pn, perr, rpart, nl, partsRead, truncated, expectNew,
                   parts, presult>>

\* What the reader hands out is the user's or, if it is discarded, nobody's.
PartServe ==
    /\ pat = "read" /\ pn > 0
    /\ LET n == Min({want, pn})
       IN  /\ Take(n) /\ rpart' = rpart + n /\ pn' = pn - n
           /\ IF leaving
              THEN UNCHANGED <<parts, pat>>
              ELSE /\ parts' = [parts EXCEPT ![partsRead].got = @ \o First(buf, n)]
                   /\ pat' = "part"
    /\ UNCHANGED <<readUnchanged, perr, nl, partsRead, truncated, expectNew,
                   want, leaving, presult>>

\* The read fails, or the part is over: nextPart goes on in any case.
PartOver(state) ==
    /\ parts' = [parts EXCEPT ![partsRead].state = IF leaving THEN "left" ELSE state]
    /\ pat' = "next" /\ truncated' = FALSE /\ expectNew' = FALSE
    /\ UNCHANGED <<readerVars, pn, perr>>

PartLook ==
    /\ pat = "read" /\ pn = 0
    /\ LET x == checkReadable
       IN  IF x.n > 0
           THEN /\ pn' = x.n
                /\ UNCHANGED <<readerVars, parts, pat, perr, truncated, expectNew>>
           ELSE IF x.eof THEN PartOver("whole")
           ELSE IF perr # "nil" THEN PartOver("failed")
           ELSE IF Capacity = 0
           THEN IF size > Len(buf)
                THEN CompactBuffer
                     /\ UNCHANGED <<pn, parts, pat, perr, truncated, expectNew>>
                ELSE PartOver("failed")         \* too long boundary line
           ELSE FillOne /\ UNCHANGED <<pn, parts, pat, truncated, expectNew>>
    /\ UNCHANGED <<readUnchanged, rpart, nl, partsRead, want, leaving, presult>>

\* nextPart without a whole line in the buffer.
checkPartEndEOF ==
    /\ IsPrefix(dashBoundary \o <<"-", "-">>, buf)
    /\ skipWS(Rest(buf, Len(dashBoundary) + 2)) = <<>>

PartFill ==
    /\ pat = "next" /\ ~Contains(buf, "LF")
    /\ IF perr # "nil"
       THEN /\ PartsEnd(IF perr = "EOF" /\ (truncated \/ ~checkPartEndEOF)
                        THEN "ErrUnexpectedEOF" ELSE perr)
            /\ UNCHANGED <<readerVars, perr, truncated>>
       ELSE /\ IF Capacity = 0
               THEN IF size > Len(buf)
                    THEN CompactBuffer /\ UNCHANGED <<truncated, perr>>
                    ELSE Take(Len(buf)) /\ truncated' = TRUE /\ UNCHANGED perr
               ELSE FillOne /\ UNCHANGED truncated
            /\ UNCHANGED <<pat, presult>>
    /\ UNCHANGED <<readUnchanged, pn, rpart, nl, partsRead, expectNew, want,
                   leaving, parts>>

\* nextPart on a line.
PartLine ==
    /\ pat = "next" /\ Contains(buf, "LF")
    /\ LET i == SelectInSeq(buf, LAMBDA c : c = "LF")
           line == First(buf, i)
           after == Rest(line, Len(dashBoundary))
           ending == Dashed(after) /\ Len(after) > 2
           tail == skipWS(IF ending THEN Rest(after, 2) ELSE after)
           bound == ~truncated /\ IsPrefix(dashBoundary, line)
           adopted == IF bound /\ partsRead = 0 /\ tail = <<"LF">> THEN <<"LF">> ELSE nl
           found == bound /\ tail = adopted
       IN  /\ nl' = adopted
           /\ CASE found /\ ending -> PartsEnd("EOF")
                                      /\ UNCHANGED <<readerVars, partsRead, rpart,
                                                     parts, expectNew>>
                [] found /\ ~ending ->
                       /\ Take(i) /\ partsRead' = partsRead + 1 /\ rpart' = 0
                       /\ parts' = Append(parts, [got |-> <<>>, state |-> "open"])
                       /\ pat' = "part" /\ UNCHANGED <<presult, expectNew>>
                [] ~found /\ ~expectNew /\ partsRead = 0 ->
                       Take(i) /\ UNCHANGED <<pat, presult, partsRead, rpart, parts, expectNew>>
                [] ~found /\ ~expectNew /\ partsRead > 0 /\ ~truncated
                   /\ line = nl ->
                       /\ Take(i) /\ expectNew' = TRUE
                       /\ UNCHANGED <<pat, presult, partsRead, rpart, parts>>
                [] OTHER -> PartsEnd("unexpected line")
                            /\ UNCHANGED <<readerVars, partsRead, rpart, parts, expectNew>>
    /\ UNCHANGED <<readUnchanged, pn, perr, truncated, want, leaving>>

PartInit ==
    /\ pat = "next" /\ pn = 0 /\ perr = "nil" /\ rpart = 0 /\ nl = CRLF
    /\ partsRead = 0 /\ truncated = FALSE /\ expectNew = FALSE
    /\ want = 0 /\ leaving = FALSE /\ parts = <<>> /\ presult = "nil"

PartNext(wants) == PartCall(wants) \/ PartServe \/ PartLook \/ PartFill \/ PartLine
-----------------------------------------------------------------------------
(* What a multipart body says, defined on the body as a whole. *)

From(s, p) == SubSeq(s, p, Len(s))

\* The end of the boundary whose name ends before p: where the next line
\* begins, 0 if it is none.
TailEnd(s, p, n) ==
    LET closing == Dashed(From(s, p))
        rest == skipWS(From(s, IF closing THEN p + 2 ELSE p))
    IN  IF IsPrefix(n, rest) THEN Len(s) - Len(rest) + Len(n) + 1
        ELSE IF closing /\ rest = <<>> THEN Len(s) + 1
        ELSE 0

\* The places of the boundary lines a body may begin with.
Openings(s) ==
    {p \in DOMAIN s :
        /\ p = 1 \/ s[p - 1] = "LF"
        /\ IsPrefix(dashBoundary, From(s, p))
        /\ TailEnd(s, p + 3, <<"LF">>) + TailEnd(s, p + 3, CRLF) > 0}

\* The places p >= c where the part that begins at c is over.
Closings(s, c, n) ==
    {p \in c..Len(s) :
        \/ /\ p = c /\ IsPrefix(dashBoundary, From(s, p))
           /\ TailEnd(s, p + 3, n) > 0
        \/ /\ IsPrefix(nlDashBoundary(n), From(s, p))
           /\ TailEnd(s, p + Len(n) + 3, n) > 0}

\* Where the name of the boundary at p ends.
NameEnd(s, p, n) == IF s[p] = "-" THEN p + 3 ELSE p + Len(n) + 3

\* The parts from c on, and whether the last one is followed by the end mark.
PartsFrom(s, n) ==
    LET f[c \in 1..(Len(s) + 1)] ==
            LET ends == Closings(s, c, n)
                p == Min(ends)
                after == NameEnd(s, p, n)
                here == <<SubSeq(s, c, p - 1)>>
            IN  IF ends = {} THEN [parts |-> <<From(s, c)>>, closed |-> FALSE]
                ELSE IF Dashed(From(s, after)) THEN [parts |-> here, closed |-> TRUE]
                ELSE LET more == f[TailEnd(s, after, n)]
                     IN  [more EXCEPT !.parts = here \o @]
    IN  f

Reference(s) ==
    LET p == Min(Openings(s))
        n == IF TailEnd(s, p + 3, <<"LF">>) > 0 THEN <<"LF">> ELSE CRLF
    IN  IF Openings(s) = {} THEN [parts |-> <<>>, closed |-> FALSE]
        ELSE IF Dashed(From(s, p + 3)) THEN [parts |-> <<>>, closed |-> TRUE]
        ELSE PartsFrom(s, n)[TailEnd(s, p + 3, n)]

\* However a multipart body arrives, wherever the buffer ends and whether its
\* user reads a part or leaves it, each part is what stands between its two
\* boundaries, all parts there are are found, and the end mark is told from
\* a body that was cut off.
PartsTrue ==
    LET r == Reference(input)
    IN  /\ Len(parts) <= Len(r.parts)
        /\ \A k \in DOMAIN parts :
               /\ IsPrefix(parts[k].got, r.parts[k])
               /\ parts[k].state = "whole" => parts[k].got = r.parts[k]
               /\ parts[k].state = "failed" => k = Len(r.parts) /\ ~r.closed
        /\ pat = "done" =>
               /\ presult = "EOF" <=> r.closed
               /\ Len(parts) = Len(r.parts)
=============================================================================
