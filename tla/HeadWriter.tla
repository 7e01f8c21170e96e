----------------------------- MODULE HeadWriter -----------------------------
(***************************************************************************)
(* Heads are written (mail/headerwriter.go, headers.go): the headers that  *)
(* are known in their order, the others after them sorted, each in the     *)
(* lines it came in.  This server puts its name before the Path of an      *)
(* article (pipostnntp/post_n_digesthead.go).                              *)
(***************************************************************************)
EXTENDS HeaderReader

CONSTANTS HeaderOrder,     \* writeHeaderOrder, names
          PathName,        \* "Path"
          Instance         \* PSQLIB.Instance

\* What readHeaderMap makes of what was read: the values of each name.
ToHeaderMap(hs) ==
    [n \in {hs[i].name : i \in DOMAIN hs} |-> SelectSeq(hs, LAMBDA x : x.name = n)]

\* sort.Strings; the names here are told by how long they are.
SortedNames(S) == SetToSortSeq(S, LAMBDA m, n : Len(m) < Len(n))

\* addHeadersOrdered
InOrderOfNames(H) ==
    SelectSeq(HeaderOrder, LAMBDA n : n \in DOMAIN H)
    \o SortedNames(DOMAIN H \ Range(HeaderOrder))
ToHeaderList(H) ==
    FlattenSeq([i \in DOMAIN InOrderOfNames(H) |-> H[InOrderOfNames(H)[i]]])

\* How much of a value the first k split points take off.
SplitAt(x, k) == IF k = 0 THEN 0 ELSE FoldLeft(LAMBDA m, n : m + n, 0, First(x.splits, k))

\* Wrong: each split point is counted from the begin of the value.
ValueLinesFromBegin(x) ==
    [k \in 1..(Len(x.splits) + 1) |->
        IF k > Len(x.splits) THEN Rest(x.value, SplitAt(x, k - 1))
        ELSE SubSeq(x.value, (IF k = 1 THEN 0 ELSE x.splits[k - 1]) + 1, x.splits[k])]

\* The lines of a value: cut at its split points.
ValueLines(x) ==
    [k \in 1..(Len(x.splits) + 1) |->
        IF k > Len(x.splits) THEN Rest(x.value, SplitAt(x, k - 1))
        ELSE SubSeq(x.value, SplitAt(x, k - 1) + 1, SplitAt(x, k))]

\* writeHeaderLine
HeaderLines(x) ==
    [k \in DOMAIN ValueLines(x) |->
        IF k = 1 THEN x.name \o <<":", " ">> \o ValueLines(x)[1] ELSE ValueLines(x)[k]]

\* WriteMessageHeaderMap with force, and the empty line.
Written(H) ==
    FlattenSeq([i \in DOMAIN ToHeaderList(H) |->
                   LET ls == HeaderLines(ToHeaderList(H)[i])
                   IN  FlattenSeq([k \in DOMAIN ls |-> Append(ls[k], "LF")])])
    \o <<"LF">>

\* The Path of an article that is taken in: only the value is changed.
Traced(H) ==
    IF PathName \in DOMAIN H /\ H[PathName][1].value # <<>>
    THEN [H EXCEPT ![PathName][1].value = Instance \o @]
    ELSE H
-----------------------------------------------------------------------------
\* What a head in full says, by its lines (see HeadTrue); <<>> if it is wrong.
Fields(s) ==
    LET lines == LinesOf(s)
        n == HeadLines(s)
        firsts == SelectSeq([k \in 1..n |-> k], LAMBDA k : ~Continues(lines[k]))
    IN  IF n < 0 \/ \E k \in 1..n : ~GoodLine(lines, n, k) THEN <<>>
        ELSE [i \in DOMAIN firsts |-> FieldOf(lines, n, firsts[i])]

HeadIsRead == hat = "done" /\ herr = "nil" /\ allowed # -2

\* A head that was read and is written again is the same head: whatever lines
\* it came in, every header is there with its value and its folds, the headers
\* of one name in the order they came in.
WrittenTrue ==
    HeadIsRead =>
        LET H == ToHeaderMap(heads)
        IN  /\ Fields(Written(H)) = ToHeaderList(H)
            /\ ToHeaderMap(Fields(Written(H))) = H

\* The split points of a header are where it is folded ("split points, for
\* folding/unfolding", headers.go:53): the head that this server passes on,
\* with its own name in the Path, can be read.
RelayedTrue ==
    HeadIsRead =>
        LET H == Traced(ToHeaderMap(heads))
        IN  [i \in DOMAIN heads |-> ToHeaderList(H)[i].value]
                = LET fs == Fields(Written(H)) IN [i \in DOMAIN fs |-> fs[i].value]
=============================================================================
