----------------------------- MODULE DotReader -----------------------------
(***************************************************************************)
(* The reader of dot-encoded blocks (utils/text/bufreader/dotreader.go)    *)
(* that the NNTP server reads articles with and the client its multi-line  *)
(* answers.  One step takes one byte from the buffered reader; a block     *)
(* that was read to its end is followed by the next one on the same        *)
(* connection, as openDotReader and OpenReader reset the reader.           *)
(***************************************************************************)
EXTENDS BufReader, FiniteSets

VARIABLES
    ds,      \* d.s
    badnl,   \* d.badnl
    dcall,   \* the bytes the running call still wants, -1: all; -2: no call
    begin,   \* how many bytes came before this block
    decoded, \* the bytes of this block that were returned or discarded
    ended    \* the error the last call returned

dotVars == <<ds, badnl, dcall, begin, decoded, ended>>

Dotted(state, out, bad, back) ==
    [s |-> state, out |-> out, bad |-> bad, back |-> back]

\* d.process(c), and whether it gives c back to the buffered reader.
process(c) ==
    CASE ds \in {"BeginLine", "NonBegin"} /\ c = "CR" ->
             Dotted("CR", <<>>, FALSE, FALSE)
      [] ds = "Dot" /\ c = "CR" -> Dotted("DotCR", <<>>, FALSE, FALSE)
      [] ds \in {"BeginLine", "NonBegin"} /\ c = "LF" ->
             Dotted("BeginLine", <<c>>, TRUE, FALSE)
      [] ds = "Dot" /\ c = "LF" -> Dotted("EOF", <<>>, TRUE, FALSE)
      [] ds = "BeginLine" /\ c = "." -> Dotted("Dot", <<>>, FALSE, FALSE)
      [] ds = "DotCR" /\ c = "LF" -> Dotted("EOF", <<>>, FALSE, FALSE)
      [] ds = "CR" /\ c = "LF" -> Dotted("BeginLine", <<c>>, FALSE, FALSE)
      [] ds \in {"CR", "DotCR"} /\ c # "LF" ->      \* CR without LF
             Dotted("NonBegin", <<"CR">>, TRUE, TRUE)
      [] OTHER -> Dotted("NonBegin", <<c>>, FALSE, FALSE)

\* d.Read, d.ReadByte or d.Discard: they differ in how many bytes they want.
DotCall(wants) ==
    /\ dcall = -2 /\ ended = "nil"
    /\ dcall' \in wants
    /\ UNCHANGED <<bufVars, ds, badnl, begin, decoded, ended>>

DotReturns(err) == dcall' = -2 /\ ended' = err

\* Enough bytes, or the block is over.
DotReturn ==
    /\ dcall # -2 /\ (dcall = 0 \/ ds = "EOF")
    /\ DotReturns(IF ds = "EOF" THEN "EOF" ELSE "nil")
    /\ UNCHANGED <<bufVars, ds, badnl, begin, decoded>>

DotByte ==
    /\ dcall \notin {-2, 0} /\ ds # "EOF" /\ buf # <<>>
    /\ LET c == Head(buf)
           x == process(c)
       IN  /\ IF x.back
              THEN UNCHANGED readerVars
              ELSE Take(1)
           /\ ds' = x.s /\ decoded' = decoded \o x.out
           /\ badnl' = (badnl \/ x.bad)
           /\ dcall' = IF x.out # <<>> /\ dcall > 0 THEN dcall - 1 ELSE dcall
    /\ UNCHANGED <<size, input, call, last, begin, ended>>

DotRefill ==
    /\ dcall \notin {-2, 0} /\ ds # "EOF" /\ buf = <<>>
    /\ IF queued = "nil"
       THEN Refill /\ UNCHANGED <<dcall, ended>>
       ELSE readErr /\ DotReturns("ErrUnexpectedEOF")
    /\ UNCHANGED <<size, input, call, last, ds, badnl, begin, decoded>>

\* Wrong: badnl stays as the block before left it.
DotResetHalf ==
    /\ dcall = -2 /\ ended = "EOF"
    /\ ds' = "BeginLine" /\ badnl' = badnl
    /\ begin' = Len(given) /\ decoded' = <<>> /\ ended' = "nil"
    /\ UNCHANGED <<bufVars, dcall>>

\* The next block: d.Reset()
DotReset ==
    /\ dcall = -2 /\ ended = "EOF"
    /\ ds' = "BeginLine" /\ badnl' = FALSE
    /\ begin' = Len(given) /\ decoded' = <<>> /\ ended' = "nil"
    /\ UNCHANGED <<bufVars, dcall>>

DotInit ==
    /\ ds = "BeginLine" /\ badnl = FALSE /\ dcall = -2
    /\ begin = 0 /\ decoded = <<>> /\ ended = "nil"

DotNext(wants) ==
    DotCall(wants) \/ DotReturn \/ DotByte \/ DotRefill \/ DotReset
-----------------------------------------------------------------------------
(* What a block says, defined on the block as a whole. *)
LineBegins(s, i) == i = 1 \/ s[i - 1] = "LF"

\* The places of the "." of every line that is nothing but a dot.
Ends(s) ==
    {i \in DOMAIN s :
        /\ s[i] = "." /\ LineBegins(s, i)
        /\ \/ Len(s) > i /\ s[i + 1] = "LF"
           \/ Len(s) > i + 1 /\ s[i + 1] = "CR" /\ s[i + 2] = "LF"}

EndLength(s, i) == IF s[i + 1] = "LF" THEN 2 ELSE 3

\* Lines lose their first dot and the CR of their CR LF: what stays.
Stays(s) ==
    {i \in DOMAIN s : /\ ~(s[i] = "." /\ LineBegins(s, i))
                      /\ ~(s[i] = "CR" /\ i < Len(s) /\ s[i + 1] = "LF")}

\* How many of the first i stay, which is where the last of them belongs.
Staying(s, i) == Cardinality({j \in Stays(s) : j <= i})

\* d is the beginning of what s decodes to, or all of it.
DecodesFrom(s, d) ==
    /\ Len(d) <= Staying(s, Len(s))
    /\ \A i \in Stays(s) : Staying(s, i) <= Len(d) => d[Staying(s, i)] = s[i]
Decodes(s, d) == DecodesFrom(s, d) /\ Len(d) = Staying(s, Len(s))

Unmatched(s) ==
    \E i \in DOMAIN s :
        \/ s[i] = "LF" /\ (i = 1 \/ s[i - 1] # "CR")
        \/ s[i] = "CR" /\ (i = Len(s) \/ s[i + 1] # "LF")

\* However the bytes arrive and whichever calls read them, a block decodes to
\* what its lines say, its end is found where it is and nowhere else, the
\* bytes after it are left for whoever reads the connection next, and
\* InvalidNL tells whether a CR or LF of it stood alone.
DotTrue ==
    LET rest == Rest(input, begin)
        ends == Ends(rest)
    IN  IF ends = {}
        THEN ended # "EOF" /\ DecodesFrom(rest, decoded)
        ELSE LET e == Min(ends)
                 block == First(rest, e - 1)
                 whole == First(rest, e + EndLength(rest, e) - 1)
             IN  /\ ended # "ErrUnexpectedEOF"
                 /\ DecodesFrom(block, decoded)
                 /\ ended = "EOF" =>
                        /\ Decodes(block, decoded)
                        /\ buf \o src = Rest(rest, Len(whole))
                        /\ badnl <=> Unmatched(whole)
=============================================================================
