----------------------------- MODULE TextParts -----------------------------
(***************************************************************************)
(* Texts in parts: what strings.Split makes of a text, and the loops that  *)
(* look for the next blank, tab or end of a line.                          *)
(***************************************************************************)
EXTENDS Integers, SequencesExt

\* The pieces of s between the members of S.
Split(s, S) ==
    LET pieces[n \in 0 .. Len(s)] ==
          IF n = 0 THEN <<<<>>>>
          ELSE LET p == pieces[n - 1] IN
               IF s[n] \in S THEN Append(p, <<>>) ELSE [p EXCEPT ![Len(p)] = Append(@, s[n])]
    IN  pieces[Len(s)]

\* The parts that are not p.
OtherThan(p, parts) ==
    FlattenSeq([k \in DOMAIN parts |-> IF parts[k] = p THEN <<>> ELSE <<parts[k]>>])
=============================================================================
